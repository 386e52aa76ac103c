---------------------------- MODULE InstanceStore ----------------------------
(***************************************************************************)
(* The two locked tables of the instance manager: the port slots           *)
(* (port_allocator.py) and the records of instances by name                *)
(* (instance_store.py).                                                    *)
(*                                                                         *)
(* A record is an object of its own: a handler keeps the one it looked up  *)
(* while the name may come to stand for another.  It is identified here by *)
(* the CreateInstance call that made it; the table maps a name to that     *)
(* call, and update() and remove() go by name to whatever is there.        *)
(***************************************************************************)
EXTENDS Integers, FiniteSets

CONSTANTS
  Calls,      \* RPCs, each one made once
  Names,      \* instance names
  NoCall,     \* neither a call nor a record
  MaxSlots    \* max_slots (8)

ASSUME StoreAssumption ==
  /\ NoCall \notin Calls
  /\ MaxSlots \in Nat \ {0}

VARIABLES
  used,       \* PortAllocator._used
  ports,      \* the slot the call was given by allocate()
  instances,  \* InstanceStore._instances, by name
  record      \* the fields of the record the call made that anything reads

storeVars == <<used, ports, instances, record>>

Slots == 0..(MaxSlots - 1)
NoSlot == MaxSlots

States == {"CREATING", "RUNNING", "ERROR", "DESTROYING"}

(* socat and dhu stand for the pids: each names the call that spawned the  *)
(* process.  The emulator's pid is written and never read.                 *)
Record == [state : States, socat : Calls \cup {NoCall},
           dhu : Calls \cup {NoCall}]

NewRecord == [state |-> "CREATING", socat |-> NoCall, dhu |-> NoCall]

StoreInit ==
  /\ used = {}
  /\ ports = [c \in Calls |-> NoSlot]
  /\ instances = [n \in Names |-> NoCall]
  /\ record = [c \in Calls |-> NewRecord]

-----------------------------------------------------------------------------
(* allocate(): the lowest slot not in use; it raises when there is none.   *)
Allocate(c) ==
  \E s \in Slots \ used :
    /\ \A t \in Slots \ used : s <= t
    /\ used' = used \cup {s}
    /\ ports' = [ports EXCEPT ![c] = s]

AllUsed == Slots \subseteq used

(* release(): raises ValueError, changing nothing, for a slot not in use.  *)
Release(s) == used' = used \ {s}

Present(n) == instances[n] # NoCall

(* create(): the name must be absent.                                      *)
PutRecord(n, c) ==
  /\ ~ Present(n)
  /\ instances' = [instances EXCEPT ![n] = c]
  /\ record' = [record EXCEPT ![c] = NewRecord]

(* update(): the record under the name now; KeyError when there is none.   *)
SetField(n, f, v) == record' = [record EXCEPT ![instances[n]][f] = v]

(* remove(): KeyError, changing nothing, when there is none.               *)
RemoveRecord(n) == instances' = [instances EXCEPT ![n] = NoCall]

(* get_running()                                                           *)
GetRunning ==
  {instances[n] : n \in {m \in Names : /\ Present(m)
                                       /\ record[instances[m]].state = "RUNNING"}}

StoreTypeOK ==
  /\ used \subseteq Slots
  /\ ports \in [Calls -> Slots \cup {NoSlot}]
  /\ instances \in [Names -> Calls \cup {NoCall}]
  /\ record \in [Calls -> Record]
=============================================================================
