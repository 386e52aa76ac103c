----------------------- MODULE InstanceManager_proofs -----------------------
(***************************************************************************)
(* Proofs about InstanceManager: clients that wait for an answer before    *)
(* they call again for a name are enough for the ports, the processes and  *)
(* the tables of the manager to stay in order, for every number of calls,  *)
(* names, slots and workers, with processes that die and a service that is *)
(* killed and started again.                                               *)
(*                                                                         *)
(* The inductive invariant has three layers.  The calls: one is under way  *)
(* for a name, and the name's record is the one it works on.  The slots:   *)
(* PortsAccounted.  The processes: what runs for a name is what the call   *)
(* creating it has started, or what its handles track, and nothing once    *)
(* the killing is done.                                                    *)
(* Over these the manager is shown to implement the pool of InstancePool.  *)
(***************************************************************************)
EXTENDS OrderlyShutdown, TLAPS

Outstands(c) == Rpc(c) \in Changing /\ pc[c] \in RunningLabels \cup {"queued"}

(* Labels of CreateInstance while the record is in the table, and those of *)
(* the handlers that work on a record they looked up.                      *)
Listing == CreateLabels \ {"allocate", "record"}
Using == DestroyLabels \cup RestartLabels

OneCall ==
  \A c, d \in Calls : Outstands(c) /\ Outstands(d) /\ Name(c) = Name(d) => c = d

LabelsFit ==
  \A c \in Calls :
    /\ pc[c] \in CreateLabels => Rpc(c) = "CreateInstance"
    /\ pc[c] \in Using => Rpc(c) \in Changing \ {"CreateInstance"}
    /\ pc[c] \in UseLabels => Rpc(c) \notin Changing

Listed ==
  \A n \in Names :
    Present(n) =>
      /\ Name(instances[n]) = n
      /\ Rpc(instances[n]) = "CreateInstance"
      /\ pc[instances[n]] \in Listing \cup {"ok", "stuck"}

Creation ==
  \A c \in Calls :
    /\ pc[c] \in {"allocate", "record"} => ~ Present(Name(c))
    /\ pc[c] \in Listing \/ (Rpc(c) = "CreateInstance" /\ At(c, "stuck")) =>
         instances[Name(c)] = c

Targets ==
  \A c \in Calls :
    pc[c] \in Using => target[c] = instances[Name(c)] /\ target[c] # NoCall

CallsInv == OneCall /\ LabelsFit /\ Listed /\ Creation /\ Targets

(* The killing for the name is done, by a failed creation or a destroyer.  *)
KillLabels == {"release", "unlist", "clean", "free", "remove"}
Killed(n) == \E c \in Calls : Name(c) = n /\ pc[c] \in KillLabels

(* The processes of an instance, from the time of this service.            *)
Own(n) == {p \in alive \ leftover : Name(p.by) = n}

TrackedAt(n) ==
  \A p \in Own(n) :
    /\ Present(n) /\ ~ Killed(n)
    /\ IF At(instances[n], "ok") THEN handles[n][p.kind] = p.by
                                 ELSE p.by = instances[n]

(* The tables about an instance that has been created agree.               *)
Agree(n) ==
  LET o == instances[n] IN
    /\ handles[n]["emulator"] = o
    /\ handles[n]["socat"] = o /\ record[o].socat = o
    /\ handles[n]["dhu"] \in Calls /\ Name(handles[n]["dhu"]) = n
    /\ record[o].dhu = handles[n]["dhu"]
    /\ P("dhu", handles[n]["dhu"]) \in alive => handles[n]["dhu"] \in pipe[n]

AgreedAt(n) == Present(n) /\ At(instances[n], "ok") /\ ~ Killed(n) => Agree(n)

ProgressOf(c) ==
  /\ pc[c] \in {"dhu", "focus", "track", "answer"} => record[c].socat = c
  /\ pc[c] \in {"focus", "track", "answer"} =>
       record[c].dhu = c /\ c \in pipe[Name(c)]
  /\ At(c, "answer") => handles[Name(c)] = [k \in Kinds |-> c]
  /\ At(c, "respawn") =>
       /\ \A p \in Own(Name(c)) : p.kind # "dhu"
       /\ \A p \in alive : Name(p.by) = Name(c) =>
                           p # P("dhu", handles[Name(c)]["dhu"])

ProcessInv ==
  /\ \A n \in Names : TrackedAt(n) /\ AgreedAt(n)
  /\ \A c \in Calls : ProgressOf(c)

(* What failures leave: a process nothing refers to was started by a call  *)
(* that failed.                                                            *)
Failing == {"release", "unlist", "failed"}

Leavings == \A p \in strays \ leftover : pc[p.by] \in Failing

(* A pipe has readers of its own name only.                                *)
Readers == \A n \in Names : \A d \in pipe[n] : Name(d) = n

Looking == refresh \in {"mark", "shoot"} => looking \in Calls

SlotsInv == TypeOK /\ Looking /\ CallsInv /\ PortsAccounted

ManagerInv == SlotsInv /\ ProcessInv /\ Leavings /\ Readers

-----------------------------------------------------------------------------
(* What every proof below starts from.                                     *)
USE StoreAssumption, ManagerAssumption DEF vars, storeVars, procVars, callVars,
  refreshVars, At, Goto

Labelling ==
  {"unsent", "queued", "ok", "failed", "allocate", "record", "spawn", "boot",
   "dhu", "focus", "track", "answer", "cleanup", "release", "unlist", "mark",
   "kill", "clean", "free", "remove", "install", "stop", "respawn", "refocus",
   "shoot", "command", "adb", "stuck"}

LEMMA LabelSet == Labels = Labelling
BY DEF Labels, Labelling, RunningLabels, CreateLabels, DestroyLabels,
  RestartLabels, UseLabels

(* update() keeps the records records.                                     *)
LEMMA FieldType ==
  ASSUME TypeOK, NEW n \in Names, Present(n),
         \/ SetField(n, "state", "ERROR") \/ SetField(n, "state", "RUNNING")
         \/ SetField(n, "state", "DESTROYING")
         \/ \E c \in Calls : SetField(n, "socat", c) \/ SetField(n, "dhu", c)
  PROVE  record' \in [Calls -> Record]
<1>1. instances[n] \in Calls /\ record[instances[n]] \in Record
  BY DEF TypeOK, StoreTypeOK, Present
<1>2. PICK r \in Record : record' = [record EXCEPT ![instances[n]] = r]
  BY <1>1 DEF SetField, Record, States
<1> QED BY <1>2, <1>1 DEF TypeOK, StoreTypeOK

LEMMA InitTyped == Init => TypeOK /\ Looking
<1> SUFFICES ASSUME Init PROVE TypeOK /\ Looking
  OBVIOUS
<1>1. StoreTypeOK
  BY DEF Init, StoreInit, StoreTypeOK, Slots, NoSlot, Record, NewRecord, States
<1>2. NoHandles \in Handles
  BY DEF NoHandles, Handles
<1>3. "unsent" \in Labels
  BY DEF Labels
<1> QED BY <1>1, <1>2, <1>3 DEF Init, TypeOK, Looking

(* The labels and the types, step by step.                                 *)
(* A shell that is killed leaves a head unit, if it had one.               *)
LEMMA AdriftAreStrays ==
  ASSUME TypeOK, NEW killed
  PROVE  /\ Adrift(killed) \subseteq Stray
         /\ \A p \in Adrift(killed) : p \in killed /\ p \in alive /\ p.kind = "dhu"
BY DEF Adrift, Stray, TypeOK, Process

LEMMA CreateTyped ==
  ASSUME TypeOK, Looking, NEW c \in Calls, CreateStep(c)
  PROVE  TypeOK' /\ Looking'
<1>0. Name(c) \in Names /\ c # NoCall
  BY DEF TypeOK, Name, Request
<1>1. CASE AllocatePorts(c)
  BY <1>0, <1>1, LabelSet DEF AllocatePorts, Allocate, TypeOK, StoreTypeOK, Labelling, Looking
<1>2. CASE CreateRecord(c)
  <2>1. NewRecord \in Record
    BY DEF NewRecord, Record, States
  <2> QED BY <1>0, <1>2, <2>1, LabelSet DEF CreateRecord, PutRecord, TypeOK, StoreTypeOK, Labelling, Looking
<1>3. CASE SpawnEmulator(c)
  BY <1>0, <1>3, LabelSet DEF SpawnEmulator, TypeOK, StoreTypeOK, Labelling, Looking, Process, P, Kinds
<1>4. CASE SpawnSocat(c)
  <2>1. record' \in [Calls -> Record]
    BY <1>0, <1>4, FieldType DEF SpawnSocat, TypeOK, StoreTypeOK
  <2> QED BY <1>0, <1>4, <2>1, LabelSet DEF SpawnSocat, TypeOK, StoreTypeOK, Labelling, Looking, Process, P, Kinds
<1>5. CASE SpawnDhu(c)
  <2>1. record' \in [Calls -> Record]
    BY <1>0, <1>5, FieldType DEF SpawnDhu, TypeOK, StoreTypeOK
  <2>2. pipe' \in [Names -> SUBSET Calls]
    BY <1>0, <1>5 DEF SpawnDhu, OpenPipe, TypeOK
  <2> QED BY <1>0, <1>5, <2>1, <2>2, LabelSet DEF SpawnDhu, TypeOK, StoreTypeOK, Labelling, Looking, Process, P, Kinds
<1>6. CASE AwaitFocus(c)
  <2>1. record' \in [Calls -> Record]
    BY <1>0, <1>6, FieldType DEF AwaitFocus, TypeOK, StoreTypeOK
  <2> QED BY <1>0, <1>6, <2>1, LabelSet DEF AwaitFocus, TypeOK, StoreTypeOK, Labelling, Looking
<1>7. CASE TrackHandles(c)
  BY <1>0, <1>7, LabelSet DEF TrackHandles, TypeOK, StoreTypeOK, Labelling, Looking, Handles
<1>8. CASE AnswerCreate(c)
  BY <1>0, <1>8, LabelSet DEF AnswerCreate, TypeOK, StoreTypeOK, Labelling, Looking
<1>9. CASE CleanUpCreate(c)
  <2>1. record' \in [Calls -> Record]
    BY <1>0, <1>9, FieldType DEF CleanUpCreate, TypeOK, StoreTypeOK
  <2>2. strays' \subseteq Stray /\ alive' \subseteq alive
    BY <1>9, AdriftAreStrays DEF CleanUpCreate, TypeOK
  <2> QED BY <1>0, <1>9, <2>1, <2>2, LabelSet DEF CleanUpCreate, TypeOK, StoreTypeOK, Labelling, Looking
<1>10. CASE ReleasePorts(c)
  BY <1>0, <1>10, LabelSet DEF ReleasePorts, Release, TypeOK, StoreTypeOK, Labelling, Looking
<1>11. CASE Unlist(c)
  BY <1>0, <1>11, LabelSet DEF Unlist, RemoveRecord, TypeOK, StoreTypeOK, Labelling, Looking
<1> QED BY <1>1, <1>2, <1>3, <1>4, <1>5, <1>6, <1>7, <1>8, <1>9, <1>10, <1>11
  DEF CreateStep

LEMMA OthersTyped ==
  ASSUME TypeOK, Looking, NEW c \in Calls,
         Submit(c) \/ Begin(c) \/ DestroyStep(c) \/ RestartStep(c) \/ UseStep(c)
  PROVE  TypeOK' /\ Looking'
<1>0. Name(c) \in Names /\ c # NoCall
  BY DEF TypeOK, Name, Request
<1>1. CASE Submit(c)
  BY <1>0, <1>1, LabelSet DEF Submit, TypeOK, StoreTypeOK, Labelling, Looking
<1>2. CASE Begin(c)
  <2>1. FirstStep(c) \in Labels
    BY LabelSet DEF FirstStep, Labelling, TypeOK, Request, Rpc, AllRpcs, Changing, Asking
  <2> QED BY <1>0, <1>2, <2>1, LabelSet DEF Begin, TypeOK, StoreTypeOK, Labelling, Looking
<1>3. CASE MarkDestroying(c)
  <2>1. record' \in [Calls -> Record]
    BY <1>0, <1>3, FieldType DEF MarkDestroying, TypeOK, StoreTypeOK
  <2> QED BY <1>0, <1>3, <2>1, LabelSet DEF MarkDestroying, TypeOK, StoreTypeOK, Labelling, Looking
<1>4. CASE KillInstance(c)
  <2>1. /\ NoHandles \in Handles /\ alive' \subseteq alive
        /\ handles' = [handles EXCEPT ![Name(c)] = NoHandles]
    BY <1>4 DEF NoHandles, Handles, KillInstance, KillProcesses
  <2>2. strays' \subseteq Stray
    BY <1>4, AdriftAreStrays DEF KillInstance, KillProcesses, TypeOK
  <2> QED BY <2>2, <1>0, <1>4, <2>1, LabelSet DEF KillInstance, TypeOK, StoreTypeOK, Labelling, Looking
<1>5. CASE CleanFiles(c)
  BY <1>0, <1>5, LabelSet DEF CleanFiles, RemoveFiles, TypeOK, StoreTypeOK, Labelling, Looking
<1>6. CASE FreePorts(c)
  BY <1>0, <1>6, LabelSet DEF FreePorts, Release, TypeOK, StoreTypeOK, Labelling, Looking
<1>7. CASE RemoveInstance(c)
  BY <1>0, <1>7, LabelSet DEF RemoveInstance, RemoveRecord, TypeOK, StoreTypeOK, Labelling, Looking
<1>8. CASE StopDhu(c)
  <2>1. strays' \subseteq Stray /\ alive' \subseteq alive
    BY <1>8, AdriftAreStrays DEF StopDhu, TypeOK
  <2> QED BY <1>0, <1>8, <2>1, LabelSet DEF StopDhu, TypeOK, StoreTypeOK, Labelling, Looking
<1>9. CASE RespawnDhu(c)
  <2>1. record' \in [Calls -> Record]
    BY <1>0, <1>9, FieldType DEF RespawnDhu, TypeOK, StoreTypeOK
  <2>2. handles' \in [Names -> Handles]
    BY <1>0, <1>9 DEF RespawnDhu, TypeOK, Handles, Kinds
  <2> QED BY <1>0, <1>9, <2>1, <2>2, LabelSet DEF RespawnDhu, RenewPipe, TypeOK, StoreTypeOK, Labelling, Looking, Process, P, Kinds
<1>10. CASE AwaitRefocus(c)
  BY <1>0, <1>10, LabelSet DEF AwaitRefocus, TypeOK, StoreTypeOK, Labelling, Looking
<1>11. CASE Install(c) \/ UseStep(c)
  <2>1. /\ UNCHANGED <<storeVars, procVars, request, target, refreshVars>>
        /\ \E b \in {"stop", "ok", "failed", "stuck"} : pc' = [pc EXCEPT ![c] = b]
    BY <1>11 DEF Install, UseStep, Shoot, SendCommand, RunAdb, AdbReturns
  <2> QED BY <1>0, <2>1, LabelSet DEF TypeOK, StoreTypeOK, Labelling, Looking
<1>12. CASE RespawnFails(c)
  <2>1. strays' \subseteq Stray
    BY <1>12 DEF RespawnFails, TypeOK, Stray, P
  <2>2. pipe' \in [Names -> SUBSET Calls]
    BY <1>0, <1>12 DEF RespawnFails, RenewPipe, TypeOK
  <2> QED BY <1>0, <1>12, <2>1, <2>2, LabelSet DEF RespawnFails, TypeOK, StoreTypeOK, Labelling, Looking
<1> QED BY <1>1, <1>2, <1>3, <1>4, <1>5, <1>6, <1>7, <1>8, <1>9, <1>10, <1>11,
           <1>12
  DEF DestroyStep, RestartStep

LEMMA RefreshTyped ==
  ASSUME TypeOK, Looking, Refresh \/ Die \/ StartOver
  PROVE  TypeOK' /\ Looking'
<1>1. CASE Wake
  BY <1>1 DEF Wake, GetRunning, Present, TypeOK, StoreTypeOK, Looking
<1>2. CASE CheckHealth
  BY <1>2 DEF CheckHealth, TypeOK, StoreTypeOK, Looking
<1>3. CASE MarkError
  <2>1. Name(looking) \in Names
    BY <1>3 DEF MarkError, Looking, TypeOK, Name, Request
  <2>2. record' \in [Calls -> Record]
    BY <1>3, <2>1, FieldType DEF MarkError, TypeOK, StoreTypeOK
  <2> QED BY <1>3, <2>2 DEF MarkError, TypeOK, StoreTypeOK, Looking
<1>4. CASE RefreshScreenshot
  BY <1>4 DEF RefreshScreenshot, TypeOK, StoreTypeOK, Looking
<1>5. CASE Sleep
  BY <1>5 DEF Sleep, TypeOK, StoreTypeOK, Looking
<1>6. CASE Die
  BY <1>6 DEF Die, TypeOK, StoreTypeOK, Looking
<1>7. CASE StartOver
  <2>1. NoHandles \in Handles
    BY DEF NoHandles, Handles
  <2>2. alive' \subseteq alive /\ leftover' = alive' \cup strays
    BY <1>7 DEF StartOver, Unswept
  <2> QED BY <1>7, <2>1, <2>2, LabelSet DEF StartOver, TypeOK, StoreTypeOK,
        Looking, Labelling
<1> QED BY <1>1, <1>2, <1>3, <1>4, <1>5, <1>6, <1>7 DEF Refresh

LEMMA NextTyped == TypeOK /\ Looking /\ [Next]_vars => TypeOK' /\ Looking'
<1> SUFFICES ASSUME TypeOK, Looking, [Next]_vars PROVE TypeOK' /\ Looking'
  OBVIOUS
<1>1. CASE UNCHANGED vars
  BY <1>1 DEF TypeOK, StoreTypeOK, Looking
<1> QED BY <1>1, CreateTyped, OthersTyped, RefreshTyped
      DEF Next, Handle, ServiceRestart

(* The state keeps its shape, whatever clients call and whenever they call *)
(* it (the tables of emulator_lifecycle.py, instance_store.py and          *)
(* port_allocator.py).                                                     *)
THEOREM ManagerTyped == Spec => []TypeOK
<1>1. Spec => [](TypeOK /\ Looking)
  BY InitTyped, NextTyped, PTL DEF Spec
<1> QED BY <1>1, PTL

-----------------------------------------------------------------------------
(* A call at the label of a change is one that changes its instance, and   *)
(* the only one that does.                                                 *)
LEMMA AtWork ==
  ASSUME CallsInv, NEW c \in Calls,
         \/ pc[c] \in CreateLabels \cup DestroyLabels \cup RestartLabels
         \/ Rpc(c) = "CreateInstance" /\ At(c, "stuck")
  PROVE  /\ Outstands(c)
         /\ \A d \in Calls : Outstands(d) /\ Name(d) = Name(c) => d = c
BY DEF CallsInv, OneCall, LabelsFit, Using, Outstands, RunningLabels, Changing

LEMMA OnlyOne ==
  ASSUME CallsInv, NEW c \in Calls, NEW d \in Calls, Name(d) = Name(c),
         \/ pc[c] \in CreateLabels \cup DestroyLabels \cup RestartLabels
         \/ Rpc(c) = "CreateInstance" /\ At(c, "stuck"),
         \/ pc[d] \in CreateLabels \cup DestroyLabels \cup RestartLabels
         \/ Rpc(d) = "CreateInstance" /\ At(d, "stuck")
  PROVE  c = d
BY AtWork

(* The calls.  A step of one of them that leaves the table alone keeps the *)
(* calls in order when its labels fit.                                     *)
Onward(c, b) ==
  /\ pc' = [pc EXCEPT ![c] = b]
  /\ \/ pc[c] \in Listing /\ b \in Listing \cup {"ok", "stuck"}
     \/ pc[c] \in Using /\ b \in Using \cup {"ok", "failed", "stuck"}
     \/ pc[c] \in UseLabels /\ b \in {"ok", "failed", "stuck"}
     \/ pc[c] = "allocate" /\ b \in {"record", "failed"}
     \/ pc[c] \in {"record", "queued"} /\ b = "failed"

LEMMA OnwardCalls ==
  ASSUME TypeOK, CallsInv, NEW c \in Calls, NEW b \in Labels, Onward(c, b),
         UNCHANGED <<instances, request, target>>
  PROVE  CallsInv'
<1> USE DEF Name, Rpc, Present, CreateLabels, DestroyLabels, RestartLabels,
            UseLabels, RunningLabels, Listing, Using
<1>1. pc \in [Calls -> Labels] /\ NoCall \notin Calls
  BY DEF TypeOK
<1>2. OneCall'
  BY <1>1 DEF CallsInv, OneCall, Outstands, Onward
<1>3. LabelsFit'
  BY <1>1 DEF CallsInv, LabelsFit, Onward
<1>4. Listed'
  BY <1>1 DEF CallsInv, Listed, LabelsFit, Creation, Onward
<1>5. Creation'
  BY <1>1 DEF CallsInv, Creation, LabelsFit, Onward, Changing
<1>6. Targets'
  BY <1>1 DEF CallsInv, Targets, Onward
<1> QED BY <1>2, <1>3, <1>4, <1>5, <1>6 DEF CallsInv

(* Creating calls own their slot, so the release() of a failed one always  *)
(* finds it in use.                                                        *)
LEMMA FailedCreateReleases ==
  ASSUME TypeOK, CallsInv, PortsAccounted, NEW c \in Calls, At(c, "release")
  PROVE  ports[c] \in used
BY DEF CallsInv, LabelsFit, PortsAccounted, Owns, Creating, CreateLabels

LEMMA CreateCalls ==
  ASSUME TypeOK, CallsInv, PortsAccounted, NEW c \in Calls, CreateStep(c)
  PROVE  CallsInv'
<1> USE DEF Name, Rpc, Present
<1> DEFINE Quiet(b) == Onward(c, b) /\ UNCHANGED <<instances, request, target>>
<1>0. (\E b \in Labels : Quiet(b)) => CallsInv'
  BY OnwardCalls
<1>q. /\ \A b \in {"boot", "dhu", "focus", "track", "answer", "cleanup",
                   "release", "unlist", "ok", "stuck", "record", "failed"} :
            b \in Labels
      /\ pc \in [Calls -> Labels]
  BY LabelSet DEF Labelling, TypeOK
<1> HIDE DEF Quiet
<1>1. CASE AllocatePorts(c)
  <2>1. Quiet("record") \/ Quiet("failed")
    BY <1>1 DEF AllocatePorts, Quiet, Onward
  <2> QED BY <2>1, <1>0, <1>q
<1>2. CASE CreateRecord(c) /\ Present(Name(c))
  BY <1>2 DEF CreateRecord, PutRecord, CallsInv, Creation
<1>3. CASE CreateRecord(c) /\ ~ Present(Name(c))
  <2> USE DEF CreateLabels, DestroyLabels, RestartLabels, UseLabels,
              RunningLabels, Listing, Using
  <2>1. /\ pc[c] = "record" /\ pc' = [pc EXCEPT ![c] = "spawn"]
        /\ instances' = [instances EXCEPT ![Name(c)] = c]
        /\ request' = request /\ target' = target
    BY <1>3 DEF CreateRecord, PutRecord
  <2>2. /\ pc \in [Calls -> Labels] /\ NoCall \notin Calls
        /\ instances \in [Names -> Calls \cup {NoCall}] /\ Name(c) \in Names
        /\ Rpc(c) = "CreateInstance"
    BY <2>1 DEF TypeOK, StoreTypeOK, Request, CallsInv, LabelsFit
  <2>3. OneCall'
    BY <2>1, <2>2 DEF CallsInv, OneCall, Outstands
  <2>4. LabelsFit'
    BY <2>1, <2>2 DEF CallsInv, LabelsFit
  <2>5. Listed'
    BY <2>1, <2>2 DEF CallsInv, Listed
  <2>6. Creation'
    BY <2>1, <2>2, OnlyOne DEF CallsInv, Creation
  <2>7. Targets'
    BY <2>1, <2>2, OnlyOne DEF CallsInv, Targets
  <2> QED BY <2>3, <2>4, <2>5, <2>6, <2>7 DEF CallsInv
<1>4. CASE SpawnEmulator(c)
  <2>1. Quiet("boot") \/ Quiet("cleanup")
    BY <1>4 DEF SpawnEmulator, Quiet, Onward, storeVars, Listing, CreateLabels
  <2> QED BY <2>1, <1>0, <1>q
<1>5. CASE SpawnSocat(c)
  <2>1. Quiet("dhu") \/ Quiet("cleanup")
    BY <1>5 DEF SpawnSocat, Quiet, Onward, Listing, CreateLabels
  <2> QED BY <2>1, <1>0, <1>q
<1>6. CASE SpawnDhu(c)
  <2>1. Quiet("focus") \/ Quiet("cleanup")
    BY <1>6 DEF SpawnDhu, Quiet, Onward, Listing, CreateLabels
  <2> QED BY <2>1, <1>0, <1>q
<1>7. CASE AwaitFocus(c)
  <2>1. Quiet("track") \/ Quiet("cleanup") \/ Quiet("stuck")
    BY <1>7 DEF AwaitFocus, Quiet, Onward, Listing, CreateLabels
  <2> QED BY <2>1, <1>0, <1>q
<1>8. CASE TrackHandles(c)
  <2>1. Quiet("answer")
    BY <1>8 DEF TrackHandles, Quiet, Onward, Listing, CreateLabels
  <2> QED BY <2>1, <1>0, <1>q
<1>9. CASE AnswerCreate(c)
  <2>1. Quiet("ok") \/ Quiet("release")
    BY <1>9 DEF AnswerCreate, Quiet, Onward, Listing, CreateLabels
  <2> QED BY <2>1, <1>0, <1>q
<1>10. CASE CleanUpCreate(c)
  <2>1. Quiet("release")
    BY <1>10 DEF CleanUpCreate, Quiet, Onward, Listing, CreateLabels
  <2> QED BY <2>1, <1>0, <1>q
<1>11. CASE ReleasePorts(c)
  <2>1. Quiet("unlist")
    BY <1>11, FailedCreateReleases
    DEF ReleasePorts, Quiet, Onward, Listing, CreateLabels
  <2> QED BY <2>1, <1>0, <1>q
<1>12. CASE Unlist(c)
  <2> USE DEF CreateLabels, DestroyLabels, RestartLabels, UseLabels,
              RunningLabels, Listing, Using
  <2>1. /\ pc[c] = "unlist" /\ pc' = [pc EXCEPT ![c] = "failed"]
        /\ instances' = [instances EXCEPT ![Name(c)] = NoCall]
        /\ request' = request /\ target' = target
    BY <1>12 DEF Unlist, RemoveRecord
  <2>2. /\ pc \in [Calls -> Labels] /\ NoCall \notin Calls
        /\ instances \in [Names -> Calls \cup {NoCall}] /\ Name(c) \in Names
        /\ Rpc(c) = "CreateInstance"
    BY <2>1 DEF TypeOK, StoreTypeOK, Request, CallsInv, LabelsFit
  <2>3. OneCall'
    BY <2>1, <2>2 DEF CallsInv, OneCall, Outstands
  <2>4. LabelsFit'
    BY <2>1, <2>2 DEF CallsInv, LabelsFit
  <2>5. Listed'
    BY <2>1, <2>2 DEF CallsInv, Listed
  <2>6. Creation'
    BY <2>1, <2>2, OnlyOne DEF CallsInv, Creation
  <2>7. Targets'
    BY <2>1, <2>2, OnlyOne DEF CallsInv, Targets
  <2> QED BY <2>3, <2>4, <2>5, <2>6, <2>7 DEF CallsInv
<1> QED BY <1>1, <1>2, <1>3, <1>4, <1>5, <1>6, <1>7, <1>8, <1>9, <1>10, <1>11,
           <1>12 DEF CreateStep

LEMMA DestroyCalls ==
  ASSUME TypeOK, CallsInv, NEW c \in Calls,
         DestroyStep(c) \/ RestartStep(c) \/ UseStep(c)
  PROVE  CallsInv'
<1> USE DEF Name, Rpc, Present
<1> DEFINE Quiet(b) == Onward(c, b) /\ UNCHANGED <<instances, request, target>>
<1>0. (\E b \in Labels : Quiet(b)) => CallsInv'
  BY OnwardCalls
<1>q. /\ \A b \in {"kill", "clean", "free", "remove", "stop", "respawn",
                   "refocus", "ok", "stuck", "failed"} : b \in Labels
      /\ pc \in [Calls -> Labels]
  BY LabelSet DEF Labelling, TypeOK
<1> HIDE DEF Quiet
<1>1. CASE RemoveInstance(c)
  <2> USE DEF CreateLabels, DestroyLabels, RestartLabels, UseLabels,
              RunningLabels, Listing, Using
  <2>1. /\ pc[c] = "remove"
        /\ \E b \in {"ok", "failed"} : pc' = [pc EXCEPT ![c] = b]
        /\ instances' = [instances EXCEPT ![Name(c)] = NoCall]
        /\ request' = request /\ target' = target
    BY <1>1 DEF RemoveInstance, RemoveRecord
  <2>2. /\ pc \in [Calls -> Labels] /\ NoCall \notin Calls
        /\ instances \in [Names -> Calls \cup {NoCall}] /\ Name(c) \in Names
        /\ Rpc(c) # "CreateInstance"
    BY <2>1 DEF TypeOK, StoreTypeOK, Request, CallsInv, LabelsFit
  <2>3. OneCall'
    BY <2>1, <2>2 DEF CallsInv, OneCall, Outstands
  <2>4. LabelsFit'
    BY <2>1, <2>2 DEF CallsInv, LabelsFit
  <2>5. Listed'
    BY <2>1, <2>2 DEF CallsInv, Listed
  <2>6. Creation'
    BY <2>1, <2>2, OnlyOne DEF CallsInv, Creation
  <2>7. Targets'
    BY <2>1, <2>2, OnlyOne DEF CallsInv, Targets
  <2> QED BY <2>3, <2>4, <2>5, <2>6, <2>7 DEF CallsInv
<1>2. CASE MarkDestroying(c)
  <2>1. Quiet("kill") \/ Quiet("failed")
    BY <1>2 DEF MarkDestroying, Quiet, Onward, Using, DestroyLabels
  <2> QED BY <2>1, <1>0, <1>q
<1>3. CASE KillInstance(c)
  <2>1. Quiet("clean")
    BY <1>3 DEF KillInstance, Quiet, Onward, Using, DestroyLabels
  <2> QED BY <2>1, <1>0, <1>q
<1>4. CASE CleanFiles(c)
  <2>1. Quiet("free")
    BY <1>4 DEF CleanFiles, Quiet, Onward, Using, DestroyLabels
  <2> QED BY <2>1, <1>0, <1>q
<1>5. CASE FreePorts(c)
  <2>1. Quiet("remove")
    BY <1>5 DEF FreePorts, Quiet, Onward, Using, DestroyLabels
  <2> QED BY <2>1, <1>0, <1>q
<1>6. CASE StopDhu(c)
  <2>1. Quiet("respawn")
    BY <1>6 DEF StopDhu, Quiet, Onward, Using, RestartLabels
  <2> QED BY <2>1, <1>0, <1>q
<1>7. CASE RespawnDhu(c)
  <2>1. Quiet("refocus") \/ Quiet("failed")
    BY <1>7 DEF RespawnDhu, Quiet, Onward, Using, RestartLabels
  <2> QED BY <2>1, <1>0, <1>q
<1>8. CASE AwaitRefocus(c)
  <2>1. Quiet("ok") \/ Quiet("failed") \/ Quiet("stuck")
    BY <1>8 DEF AwaitRefocus, Quiet, Onward, Using, RestartLabels
  <2> QED BY <2>1, <1>0, <1>q
<1>9. CASE Install(c)
  <2>1. Quiet("stop") \/ Quiet("ok") \/ Quiet("failed")
    BY <1>9 DEF Install, Quiet, Onward, Using, RestartLabels
  <2> QED BY <2>1, <1>0, <1>q
<1>10. CASE UseStep(c)
  <2>1. Quiet("ok") \/ Quiet("failed") \/ Quiet("stuck")
    BY <1>10 DEF UseStep, Shoot, SendCommand, RunAdb, AdbReturns, Quiet, Onward, UseLabels
  <2> QED BY <2>1, <1>0, <1>q
<1>11. CASE RespawnFails(c)
  <2>1. Quiet("failed")
    BY <1>11 DEF RespawnFails, Quiet, Onward, Using, RestartLabels
  <2> QED BY <2>1, <1>0, <1>q
<1> QED BY <1>1, <1>2, <1>3, <1>4, <1>5, <1>6, <1>7, <1>8, <1>9, <1>10, <1>11
  DEF DestroyStep, RestartStep

(* A client that waits keeps its name to itself; a worker that takes the   *)
(* request finds the record it will work on.                               *)
LEMMA SubmitCalls ==
  ASSUME ClientsWait, TypeOK, CallsInv, NEW c \in Calls, Submit(c)
  PROVE  CallsInv'
<1> USE DEF Name, Rpc, Present, CreateLabels, DestroyLabels, RestartLabels,
            UseLabels, RunningLabels, Listing, Using
<1>1. /\ pc[c] = "unsent" /\ pc' = [pc EXCEPT ![c] = "queued"]
      /\ UNCHANGED <<instances, request, target>>
      /\ pc \in [Calls -> Labels] /\ NoCall \notin Calls
  BY DEF Submit, TypeOK
<1>2. Rpc(c) \in Changing => \A d \in Calls : Outstands(d) => Name(d) # Name(c)
  BY DEF Submit, Outstanding, Outstands
<1>3. OneCall'
  BY <1>1, <1>2 DEF CallsInv, OneCall, Outstands
<1>4. LabelsFit'
  BY <1>1 DEF CallsInv, LabelsFit
<1>5. Listed'
  BY <1>1 DEF CallsInv, Listed
<1>6. Creation'
  BY <1>1 DEF CallsInv, Creation
<1>7. Targets'
  BY <1>1 DEF CallsInv, Targets
<1> QED BY <1>3, <1>4, <1>5, <1>6, <1>7 DEF CallsInv

LEMMA BeginCalls ==
  ASSUME TypeOK, CallsInv, NEW c \in Calls, Begin(c)
  PROVE  CallsInv'
<1> DEFINE b == IF Accepted(c) THEN FirstStep(c) ELSE "failed"
<1>1. /\ pc[c] = "queued" /\ pc' = [pc EXCEPT ![c] = b]
      /\ target' = [target EXCEPT ![c] = instances[Name(c)]]
      /\ UNCHANGED <<instances, request>>
  BY DEF Begin
<1>2. /\ pc \in [Calls -> Labels] /\ NoCall \notin Calls /\ Name(c) \in Names
      /\ target \in [Calls -> Calls \cup {NoCall}]
      /\ Rpc(c) \in AllRpcs
  BY DEF TypeOK, Request, Name, Rpc
<1>3. \/ b = "failed"
      \/ b = "allocate" /\ Rpc(c) = "CreateInstance" /\ ~ Present(Name(c))
      \/ b \in {"mark", "install", "stop"} /\ Present(Name(c))
         /\ Rpc(c) \in Changing \ {"CreateInstance"}
      \/ b \in {"shoot", "command", "adb"} /\ Rpc(c) \notin Changing
  BY <1>2 DEF Accepted, FirstStep, AllRpcs, Changing, Asking
<1> HIDE DEF b
<1> USE DEF Name, Rpc, Present, CreateLabels, DestroyLabels, RestartLabels,
            UseLabels, RunningLabels, Listing, Using
<1>4. OneCall'
  BY <1>1, <1>2, <1>3 DEF CallsInv, OneCall, Outstands
<1>5. LabelsFit'
  BY <1>1, <1>2, <1>3 DEF CallsInv, LabelsFit
<1>6. Listed'
  BY <1>1, <1>2, <1>3 DEF CallsInv, Listed
<1>7. Creation'
  BY <1>1, <1>2, <1>3 DEF CallsInv, Creation
<1>8. Targets'
  BY <1>1, <1>2, <1>3 DEF CallsInv, Targets
<1> QED BY <1>4, <1>5, <1>6, <1>7, <1>8 DEF CallsInv

LEMMA RestartCalls ==
  ASSUME TypeOK, StartOver
  PROVE  CallsInv'
<1> USE DEF Name, Rpc, Present, CreateLabels, DestroyLabels, RestartLabels,
            UseLabels, RunningLabels, Listing, Using
<1>1. /\ \A c \in Calls : pc'[c] \in {"unsent", "ok", "failed"}
      /\ \A n \in Names : instances'[n] = NoCall
  BY LabelSet DEF StartOver, Unswept, Running, TypeOK, Labelling
<1> QED BY <1>1 DEF CallsInv, OneCall, Outstands, LabelsFit, Listed, Creation,
                    Targets

LEMMA OtherCalls ==
  ASSUME CallsInv, Refresh \/ Die \/ UNCHANGED vars
  PROVE  CallsInv'
<1>1. UNCHANGED <<pc, request, target, instances>>
  BY DEF Refresh, Wake, CheckHealth, MarkError, RefreshScreenshot, Sleep, Die
<1> QED BY <1>1 DEF CallsInv, OneCall, Outstands, LabelsFit, Listed, Creation,
                    Targets, Name, Rpc, Present

LEMMA InitCalls == Init => CallsInv
BY DEF Init, StoreInit, CallsInv, OneCall, Outstands, LabelsFit, Listed,
  Creation, Targets, Present, CreateLabels, DestroyLabels, RestartLabels,
  UseLabels, RunningLabels, Listing, Using

LEMMA NextCalls ==
  ASSUME ClientsWait, TypeOK, CallsInv, PortsAccounted, [Next]_vars
  PROVE  CallsInv'
BY CreateCalls, DestroyCalls, SubmitCalls, BeginCalls, RestartCalls, OtherCalls
DEF Next, Handle, ServiceRestart

-----------------------------------------------------------------------------
(* The slots.  What a step can do to them: nothing, give the lowest free   *)
(* one to a call, or take back an owner's.                                 *)
OwnersStay ==
  UNCHANGED <<used, ports>> /\ \A d \in Calls : Owns(d)' = Owns(d)

GivenTo(c) ==
  /\ At(c, "allocate") /\ Allocate(c)
  /\ ~ Owns(c) /\ Owns(c)'
  /\ \A d \in Calls \ {c} : Owns(d)' = Owns(d)

TakenFrom(o) ==
  /\ Owns(o) /\ ~ Owns(o)'
  /\ used' = used \ {ports[o]} /\ ports' = ports
  /\ \A d \in Calls \ {o} : Owns(d)' = Owns(d)

Returns(c, o) == pc[c] \in {"release", "free"} /\ Name(o) = Name(c) /\ TakenFrom(o)

(* Each of them keeps the slots accounted for.                             *)
LEMMA SlotsKept ==
  ASSUME TypeOK, PortsAccounted, NEW c \in Calls,
         OwnersStay \/ GivenTo(c) \/ \E o \in Calls : TakenFrom(o)
  PROVE  PortsAccounted'
<1>1. CASE OwnersStay
  BY <1>1 DEF OwnersStay, PortsAccounted
<1>2. CASE GivenTo(c)
  <2>1. PICK s \in Slots \ used :
          used' = used \cup {s} /\ ports' = [ports EXCEPT ![c] = s]
    BY <1>2 DEF GivenTo, Allocate
  <2>2. ports'[c] = s /\ \A d \in Calls \ {c} : ports'[d] = ports[d]
    BY <2>1 DEF TypeOK, StoreTypeOK
  <2> QED BY <1>2, <2>1, <2>2 DEF GivenTo, PortsAccounted
<1>3. CASE \E o \in Calls : TakenFrom(o)
  BY <1>3 DEF TakenFrom, PortsAccounted
<1> QED BY <1>1, <1>2, <1>3

(* An owner, seen from the invariant of the calls.                         *)
LEMMA OwnerOf ==
  ASSUME TypeOK, CallsInv, NEW o \in Calls
  PROVE  Owns(o) <=>
           \/ At(o, "record")
           \/ instances[Name(o)] = o
              /\ ~ At(o, "unlist")
              /\ ~ \E d \in Calls : At(d, "remove") /\ Name(d) = Name(o)
<1> USE DEF Name, Rpc, Present, CreateLabels, DestroyLabels, RestartLabels,
            UseLabels, RunningLabels, Listing, Using
<1>1. Name(o) \in Names /\ NoCall \notin Calls /\ pc \in [Calls -> Labels]
  BY DEF TypeOK, Request
<1>2. \A d \in Calls : At(d, "remove") =>
         /\ target[d] = instances[Name(d)] /\ Rpc(d) # "CreateInstance"
         /\ target[d] # NoCall
  BY DEF CallsInv, Targets, LabelsFit
<1>3. instances[Name(o)] = o =>
        (Ending(o) <=> \/ At(o, "unlist")
                       \/ \E d \in Calls : At(d, "remove") /\ Name(d) = Name(o))
  <2> SUFFICES ASSUME instances[Name(o)] = o
               PROVE  \A d \in Calls : At(d, "remove") =>
                        (target[d] = o <=> Name(d) = Name(o))
    BY DEF Ending
  <2> SUFFICES ASSUME NEW d \in Calls, At(d, "remove")
               PROVE  target[d] = o <=> Name(d) = Name(o)
    OBVIOUS
  <2>1. Name(d) \in Names
    BY DEF TypeOK, Request
  <2> QED BY <1>1, <1>2, <2>1 DEF CallsInv, Listed
<1>4. Creating(o) =>
        At(o, "record") \/ (instances[Name(o)] = o /\ ~ At(o, "unlist"))
  BY <1>1 DEF Creating, CallsInv, Creation
<1>5. Creating(o) /\ ~ At(o, "record") =>
        ~ \E d \in Calls : At(d, "remove") /\ Name(d) = Name(o)
  BY OnlyOne DEF Creating
<1>6. At(o, "record") => Creating(o)
  BY DEF Creating, CallsInv, LabelsFit
<1> QED BY <1>3, <1>4, <1>5, <1>6 DEF Owns

(* The labels that tell an owner do not change in most steps.              *)
LEMMA QuietOwners ==
  ASSUME TypeOK, CallsInv, CallsInv', TypeOK',
         UNCHANGED <<instances, request, used, ports>>,
         \A d \in Calls : \A l \in {"record", "unlist", "remove"} :
           (pc'[d] = l) = (pc[d] = l)
  PROVE  OwnersStay
<1> SUFFICES ASSUME NEW o \in Calls PROVE Owns(o)' = Owns(o)
  BY DEF OwnersStay
<1> DEFINE R == \/ At(o, "record")
                \/ instances[Name(o)] = o
                   /\ ~ At(o, "unlist")
                   /\ ~ \E d \in Calls : At(d, "remove") /\ Name(d) = Name(o)
<1>1. Owns(o) <=> R
  BY OwnerOf
<1>2. (Owns(o) <=> R)'
  BY OwnerOf, PTL
<1>3. R' <=> R
  BY DEF Name
<1>4. Owns(o) \in BOOLEAN /\ Owns(o)' \in BOOLEAN
  BY DEF Owns, Creating
<1> QED BY <1>1, <1>2, <1>3, <1>4

LEMMA QuietSteps ==
  ASSUME TypeOK, CallsInv, CallsInv', TypeOK', NEW c \in Calls,
         \/ Submit(c) \/ Begin(c) \/ SpawnEmulator(c) \/ SpawnSocat(c)
         \/ SpawnDhu(c) \/ AwaitFocus(c) \/ TrackHandles(c) \/ AnswerCreate(c)
         \/ CleanUpCreate(c) \/ MarkDestroying(c) \/ KillInstance(c)
         \/ CleanFiles(c) \/ RestartStep(c) \/ UseStep(c)
  PROVE  OwnersStay
<1> DEFINE Loud == {"record", "unlist", "remove"}
<1>1. pc \in [Calls -> Labels] /\ FirstStep(c) \notin Loud
  BY DEF TypeOK, FirstStep, Request, Rpc, AllRpcs, Changing, Asking
<1>2. /\ UNCHANGED <<instances, request, used, ports>>
      /\ pc[c] \notin Loud
      /\ \E b : b \notin Loud /\ pc' = [pc EXCEPT ![c] = b]
  <2>1. CASE Submit(c)
    BY <2>1 DEF Submit
  <2>2. CASE Begin(c)
    BY <2>2, <1>1 DEF Begin
  <2>3. CASE SpawnEmulator(c)
    BY <2>3 DEF SpawnEmulator
  <2>4. CASE SpawnSocat(c) \/ SpawnDhu(c)
    BY <2>4 DEF SpawnSocat, SpawnDhu
  <2>5. CASE AwaitFocus(c) \/ TrackHandles(c) \/ AnswerCreate(c) \/ CleanUpCreate(c)
    BY <2>5 DEF AwaitFocus, TrackHandles, AnswerCreate, CleanUpCreate
  <2>6. CASE MarkDestroying(c) \/ CleanFiles(c)
    BY <2>6 DEF MarkDestroying, CleanFiles, RemoveFiles
  <2>7. CASE KillInstance(c)
    BY <2>7 DEF KillInstance, KillProcesses
  <2>8. CASE RestartStep(c) \/ UseStep(c)
    BY <2>8 DEF RestartStep, Install, StopDhu, RespawnDhu, RespawnFails,
                AwaitRefocus, UseStep, Shoot, SendCommand, RunAdb, AdbReturns
  <2> QED BY <2>1, <2>2, <2>3, <2>4, <2>5, <2>6, <2>7, <2>8
<1>3. \A d \in Calls : \A l \in Loud : (pc'[d] = l) = (pc[d] = l)
  BY <1>1, <1>2
<1> QED BY <1>2, <1>3, QuietOwners

Row(o) ==
  \/ At(o, "record")
  \/ instances[Name(o)] = o
     /\ ~ At(o, "unlist")
     /\ ~ \E d \in Calls : At(d, "remove") /\ Name(d) = Name(o)

LEMMA Rows == TypeOK /\ CallsInv => \A o \in Calls : Owns(o) <=> Row(o)
BY OwnerOf DEF Row

LEMMA OwnerRows ==
  ASSUME TypeOK, CallsInv, TypeOK', CallsInv'
  PROVE  \A o \in Calls : (Owns(o) <=> Row(o)) /\ (Owns(o)' <=> Row(o)')
<1>1. \A o \in Calls : Owns(o) <=> Row(o)
  BY Rows
<1>2. (\A o \in Calls : Owns(o) <=> Row(o))'
  BY Rows, PTL
<1> QED BY <1>1, <1>2

LEMMA SlotSteps ==
  ASSUME TypeOK, CallsInv, PortsAccounted, CallsInv', TypeOK', NEW c \in Calls,
         \/ AllocatePorts(c) \/ CreateRecord(c) \/ ReleasePorts(c) \/ Unlist(c)
         \/ FreePorts(c) \/ RemoveInstance(c)
  PROVE  OwnersStay \/ GivenTo(c) \/ \E o \in Calls : Returns(c, o)
<1> USE DEF Name
<1>1. /\ \A o \in Calls : (Owns(o) <=> Row(o)) /\ (Owns(o)' <=> Row(o)')
      /\ \A o \in Calls : Owns(o) \in BOOLEAN /\ Owns(o)' \in BOOLEAN
      /\ \A o \in Calls : Row(o) \in BOOLEAN /\ Row(o)' \in BOOLEAN
  BY OwnerRows DEF Owns, Creating, Row
<1>2. /\ pc \in [Calls -> Labels] /\ NoCall \notin Calls /\ Name(c) \in Names
      /\ instances \in [Names -> Calls \cup {NoCall}]
      /\ ports \in [Calls -> Slots \cup {NoSlot}]
      /\ \A d \in Calls : Name(d) \in Names
  BY DEF TypeOK, StoreTypeOK, Request
<1>3. CASE AllocatePorts(c) /\ UNCHANGED <<used, ports>>
  <2>1. \A o \in Calls : Row(o)' = Row(o)
    BY <1>2, <1>3 DEF AllocatePorts, Allocate, Row, Slots
  <2> QED BY <2>1, <1>1, <1>3 DEF OwnersStay
<1>4. CASE AllocatePorts(c) /\ ~ UNCHANGED <<used, ports>>
  <2>1. /\ At(c, "allocate") /\ pc' = [pc EXCEPT ![c] = "record"]
        /\ UNCHANGED <<instances, request>>
    BY <1>4 DEF AllocatePorts
  <2>2. PICK s \in Slots \ used :
          used' = used \cup {s} /\ ports' = [ports EXCEPT ![c] = s]
    BY <1>4 DEF AllocatePorts, Allocate
  <2>3. Row(c)' /\ ~ Row(c)
    BY <2>1, <1>2 DEF Row, CallsInv, Creation, Present
  <2>4. \A o \in Calls \ {c} : Row(o)' = Row(o) /\ ports'[o] = ports[o]
    BY <2>1, <2>2, <1>2 DEF Row
  <2>5. Allocate(c)
    BY <1>4 DEF AllocatePorts
  <2> QED BY <2>1, <2>3, <2>4, <2>5, <1>1 DEF GivenTo
<1>5. CASE CreateRecord(c)
  <2>1. /\ At(c, "record") /\ pc' = [pc EXCEPT ![c] = "spawn"]
        /\ instances' = [instances EXCEPT ![Name(c)] = c]
        /\ instances[Name(c)] = NoCall
        /\ UNCHANGED <<request, used, ports>>
    BY <1>5 DEF CreateRecord, PutRecord, CallsInv, Creation, Present
  <2>2. \A d \in Calls : At(d, "remove") => Name(d) # Name(c)
    BY <2>1, <1>2 DEF CallsInv, Targets, Using, DestroyLabels
  <2>3. \A o \in Calls : Row(o)' = Row(o)
    BY <2>1, <2>2, <1>2 DEF Row
  <2> QED BY <2>1, <2>3, <1>1 DEF OwnersStay
<1>6. CASE ReleasePorts(c)
  <2>1. /\ At(c, "release") /\ pc' = [pc EXCEPT ![c] = "unlist"]
        /\ used' = used \ {ports[c]}
        /\ UNCHANGED <<instances, request, ports>>
    BY <1>6, FailedCreateReleases DEF ReleasePorts, Release
  <2>2. Owns(c)
    BY <2>1 DEF Owns, Creating, CallsInv, LabelsFit, CreateLabels
  <2>3. ~ Row(c)' /\ \A o \in Calls \ {c} : Row(o)' = Row(o)
    BY <2>1, <1>2 DEF Row
  <2> QED BY <2>1, <2>2, <2>3, <1>1 DEF Returns, TakenFrom
<1>7. CASE Unlist(c)
  <2>1. /\ At(c, "unlist") /\ pc' = [pc EXCEPT ![c] = "failed"]
        /\ instances' = [instances EXCEPT ![Name(c)] = NoCall]
        /\ instances[Name(c)] = c
        /\ UNCHANGED <<request, used, ports>>
    BY <1>7 DEF Unlist, RemoveRecord, CallsInv, Creation, Listing, CreateLabels
  <2>2. \A o \in Calls : Row(o)' = Row(o)
    BY <2>1, <1>2 DEF Row
  <2> QED BY <2>1, <2>2, <1>1 DEF OwnersStay
<1>8. CASE FreePorts(c)
  <2>0. PICK t : t = target[c]
    OBVIOUS
  <2>1. /\ At(c, "free") /\ pc' = [pc EXCEPT ![c] = "remove"]
        /\ used' = used \ {ports[t]}
        /\ UNCHANGED <<instances, request, ports>>
    BY <2>0, <1>8 DEF FreePorts, Release
  <2>2. t = instances[Name(c)] /\ t \in Calls /\ Name(t) = Name(c)
    BY <2>0, <2>1, <1>2
    DEF CallsInv, Targets, Listed, Present, Using, DestroyLabels
  <2>3. \A d \in Calls :
          /\ pc[d] \in CreateLabels \cup DestroyLabels /\ Name(d) = Name(c)
          => d = c
    BY <2>1, OnlyOne DEF DestroyLabels
  <2>4. Row(t)
    BY <2>1, <2>2, <2>3, <1>2 DEF Row, DestroyLabels, CreateLabels
  <2>5. ~ Row(t)'
    <3>1. pc[t] # "record"
      BY <2>1, <2>2, <1>2 DEF CallsInv, Creation, Present
    <3>2. pc'[t] # "record"
      BY <3>1, <2>1, <1>2
    <3> QED BY <3>2, <2>1, <2>2, <1>2 DEF Row
  <2>6. \A o \in Calls \ {t} : Row(o)' = Row(o)
    BY <2>1, <2>2, <1>2 DEF Row
  <2> QED BY <2>1, <2>2, <2>4, <2>5, <2>6, <1>1 DEF Returns, TakenFrom
<1>9. CASE RemoveInstance(c)
  <2>1. /\ At(c, "remove") /\ instances' = [instances EXCEPT ![Name(c)] = NoCall]
        /\ \E b \in {"ok", "failed"} : pc' = [pc EXCEPT ![c] = b]
        /\ UNCHANGED <<request, used, ports>>
    BY <1>9 DEF RemoveInstance, RemoveRecord
  <2>2. \A o \in Calls : Row(o)' = Row(o)
    BY <2>1, <1>2 DEF Row
  <2> QED BY <2>1, <2>2, <1>1 DEF OwnersStay
<1> QED BY <1>3, <1>4, <1>5, <1>6, <1>7, <1>8, <1>9

(* A service that starts again has no owners and no slots in use.          *)
LEMMA RestartSlots ==
  ASSUME TypeOK, TypeOK', StartOver
  PROVE  used' = {} /\ \A o \in Calls : ~ Owns(o)'
<1>1. /\ used' = {} /\ \A n \in Names : instances'[n] = NoCall
      /\ \A o \in Calls : pc'[o] \in {"unsent", "ok", "failed"}
      /\ \A o \in Calls : Name(o)' \in Names
  BY LabelSet
  DEF StartOver, Unswept, Running, RunningLabels, CreateLabels, DestroyLabels,
      RestartLabels, UseLabels, TypeOK, Labelling, Name, Request
<1> QED BY <1>1 DEF Owns, Creating, CreateLabels

LEMMA OtherSlots ==
  ASSUME TypeOK, CallsInv, CallsInv', TypeOK',
         Refresh \/ Die \/ UNCHANGED vars
  PROVE  OwnersStay
<1>1. UNCHANGED <<instances, request, used, ports, pc>>
  BY DEF Refresh, Wake, CheckHealth, MarkError, RefreshScreenshot, Sleep, Die
<1> QED BY <1>1, QuietOwners

LEMMA CallSlots ==
  ASSUME TypeOK, CallsInv, PortsAccounted, CallsInv', TypeOK', NEW c \in Calls,
         Submit(c) \/ Handle(c)
  PROVE  OwnersStay \/ GivenTo(c) \/ \E o \in Calls : Returns(c, o)
BY QuietSteps, SlotSteps DEF Handle, CreateStep, DestroyStep

LEMMA NextSlots ==
  ASSUME TypeOK, CallsInv, PortsAccounted, CallsInv', TypeOK', [Next]_vars
  PROVE  PortsAccounted'
<1>1. CASE Refresh \/ Die \/ UNCHANGED vars
  BY <1>1, OtherSlots DEF OwnersStay, PortsAccounted
<1>2. CASE ServiceRestart
  BY <1>2, RestartSlots DEF PortsAccounted, ServiceRestart
<1>3. ASSUME NEW c \in Calls, Submit(c) \/ Handle(c)
      PROVE  PortsAccounted'
  BY <1>3, CallSlots, SlotsKept DEF Returns
<1> QED BY <1>1, <1>2, <1>3 DEF Next

LEMMA InitSlots == Init => PortsAccounted
BY DEF Init, StoreInit, PortsAccounted, Owns, Creating, Name, CreateLabels,
  TypeOK, Request

LEMMA SlotsStep ==
  ASSUME ClientsWait
  PROVE  (Init => SlotsInv) /\ (SlotsInv /\ [Next]_vars => SlotsInv')
BY InitTyped, NextTyped, InitCalls, NextCalls, InitSlots, NextSlots DEF SlotsInv

(* Every slot in use belongs to one instance, and every instance has its   *)
(* own: none is leaked and none is given away twice, as long as no client  *)
(* calls for a name while a call for it runs (CreateInstance's three ways  *)
(* to fail and DestroyInstance's release, in instance_manager_service.py). *)
THEOREM SlotsAreAccounted ==
  ASSUME ClientsWait PROVE Spec => []PortsAccounted
<1>1. Spec => []SlotsInv
  BY SlotsStep, PTL DEF Spec
<1>2. SlotsInv => PortsAccounted
  BY DEF SlotsInv
<1> QED BY <1>1, <1>2, PTL

-----------------------------------------------------------------------------
(* The processes.  A step of call c disturbs only the name it was made     *)
(* for, so it is enough to look at that name and at that call.             *)
Local(c) ==
  /\ request' = request /\ leftover' = leftover
  /\ \A d \in Calls \ {c} : pc'[d] = pc[d]
  /\ \A d \in Calls \ {c} : Name(d) = Name(c) => ~ Outstands(d)
  /\ \A m \in Names \ {Name(c)} :
       /\ instances'[m] = instances[m]
       /\ handles'[m] = handles[m] /\ pipe'[m] = pipe[m]
       /\ \A o \in Calls : Name(o) = m => record'[o] = record[o]
  /\ \A p \in alive' \ alive : Name(p.by) = Name(c)

LEMMA LocalStep ==
  ASSUME TypeOK, CallsInv, ProcessInv, TypeOK', NEW c \in Calls, Local(c),
         TrackedAt(Name(c))', AgreedAt(Name(c))', ProgressOf(c)'
  PROVE  ProcessInv'
<1> USE DEF Name, Rpc, Present, Outstands, CreateLabels, DestroyLabels,
            RestartLabels, RunningLabels, KillLabels
<1>0. /\ pc \in [Calls -> Labels] /\ NoCall \notin Calls
      /\ alive' \subseteq Process
      /\ \A d \in Calls : Name(d) \in Names
      /\ instances \in [Names -> Calls \cup {NoCall}]
  BY DEF TypeOK, StoreTypeOK, Request
<1>1. ASSUME NEW m \in Names, m # Name(c)
      PROVE  TrackedAt(m)' /\ AgreedAt(m)'
  <2>1. Own(m)' \subseteq Own(m)
    BY <1>1 DEF Own, Local
  <2>2. Killed(m)' <=> Killed(m)
    BY <1>1 DEF Killed, Local
  <2>3. Present(m) => /\ instances[m] \in Calls /\ Name(instances[m]) = m
                      /\ instances[m] # c
    BY <1>0, <1>1 DEF CallsInv, Listed
  <2>4. /\ instances'[m] = instances[m] /\ handles'[m] = handles[m]
        /\ pipe'[m] = pipe[m] /\ request' = request
        /\ Present(m) => /\ pc'[instances[m]] = pc[instances[m]]
                         /\ record'[instances[m]] = record[instances[m]]
    BY <1>1, <2>3 DEF Local
  <2>5. TrackedAt(m)'
    BY <2>1, <2>2, <2>4 DEF TrackedAt, ProcessInv
  <2>6. AgreedAt(m)'
    <3>1. AgreedAt(m)
      BY DEF ProcessInv
    <3>2. \A d : Name(d) = m /\ P("dhu", d) \in alive' => P("dhu", d) \in alive
      BY <1>1 DEF Local, P
    <3> QED BY <2>2, <2>4, <3>1, <3>2 DEF AgreedAt, Agree
  <2> QED BY <2>5, <2>6
<1>2. ASSUME NEW d \in Calls, d # c
      PROVE  ProgressOf(d)'
  <2>1. ProgressOf(d) /\ pc'[d] = pc[d] /\ request' = request
    BY <1>2 DEF ProcessInv, Local
  <2>2. CASE Name(d) = Name(c)
    <3>1. pc[d] \notin CreateLabels \cup DestroyLabels \cup RestartLabels
      BY <2>2, <1>2, AtWork DEF Local
    <3> QED BY <2>1, <3>1 DEF ProgressOf
  <2>3. CASE Name(d) # Name(c)
    <3>1. /\ Own(Name(d))' \subseteq Own(Name(d))
          /\ \A p \in alive' : Name(p.by) = Name(d) => p \in alive
      BY <2>3 DEF Own, Local
    <3>2. /\ record'[d] = record[d] /\ pipe'[Name(d)] = pipe[Name(d)]
          /\ handles'[Name(d)] = handles[Name(d)]
      BY <2>3, <1>0 DEF Local
    <3> QED BY <3>1, <3>2, <2>1 DEF ProgressOf
  <2> QED BY <2>2, <2>3
<1> QED BY <1>1, <1>2 DEF ProcessInv, Local

(* What a step of a call under way leaves to look at.                      *)
LEMMA Alone ==
  ASSUME TypeOK, CallsInv, NEW c \in Calls, Outstands(c), NEW b,
         pc' = [pc EXCEPT ![c] = b], request' = request
  PROVE  /\ Name(c) \in Names /\ pc'[c] = b
         /\ \A d \in Calls \ {c} : pc'[d] = pc[d]
         /\ \A d \in Calls \ {c} : Name(d) = Name(c) => ~ Outstands(d)
         /\ Killed(Name(c)) <=> pc[c] \in KillLabels
         /\ Killed(Name(c))' <=> b \in KillLabels
<1>1. pc \in [Calls -> Labels] /\ Name(c) \in Names
  BY DEF TypeOK, Request, Name
<1>2. \A d \in Calls \ {c} : Name(d) = Name(c) => ~ Outstands(d)
  BY DEF CallsInv, OneCall
<1>3. \A d \in Calls : pc[d] \in KillLabels => Outstands(d)
  BY AtWork DEF KillLabels, CreateLabels, DestroyLabels
<1> QED BY <1>1, <1>2, <1>3 DEF Killed, Name

(* The processes of a name whose record is being made by c, and of one     *)
(* that c works on.                                                        *)
LEMMA OwnOfCreation ==
  ASSUME TypeOK, CallsInv, ProcessInv, NEW c \in Calls, pc[c] \in Listing
  PROVE  /\ instances[Name(c)] = c /\ Present(Name(c)) /\ Outstands(c)
         /\ \A p \in Own(Name(c)) : p = P(p.kind, c) /\ p.kind \in Kinds
         /\ pc[c] \in KillLabels => Own(Name(c)) = {}
<1>1. instances[Name(c)] = c /\ Present(Name(c)) /\ Outstands(c) /\ pc[c] # "ok"
  BY AtWork DEF CallsInv, Creation, Present, Listing, CreateLabels
<1>2. Name(c) \in Names
  BY DEF TypeOK, Request, Name
<1>3. \A p \in Own(Name(c)) : p.by = c /\ p \in Process /\ ~ Killed(Name(c))
  BY <1>1, <1>2 DEF ProcessInv, TrackedAt, TypeOK, Own
<1> QED BY <1>1, <1>2, <1>3 DEF Process, P, Killed

LEMMA OwnOfUse ==
  ASSUME TypeOK, CallsInv, ProcessInv, NEW c \in Calls, pc[c] \in Using
  PROVE  /\ instances[Name(c)] = target[c] /\ Present(Name(c)) /\ Outstands(c)
         /\ target[c] \in Calls \ {c} /\ Name(target[c]) = Name(c)
         /\ At(target[c], "ok")
         /\ \A p \in Own(Name(c)) :
              /\ p = P(p.kind, handles[Name(c)][p.kind]) /\ p.kind \in Kinds
         /\ pc[c] \in KillLabels => Own(Name(c)) = {}
         /\ pc[c] \notin KillLabels => Agree(Name(c))
<1>1. Name(c) \in Names /\ instances \in [Names -> Calls \cup {NoCall}]
  BY DEF TypeOK, StoreTypeOK, Request, Name
<1>2. /\ instances[Name(c)] = target[c] /\ Present(Name(c)) /\ Outstands(c)
      /\ target[c] \in Calls /\ Name(target[c]) = Name(c)
      /\ Rpc(target[c]) = "CreateInstance" /\ Rpc(c) # "CreateInstance"
  BY <1>1 DEF CallsInv, Targets, Listed, LabelsFit, Present, Outstands,
              RunningLabels, Using
<1>3. target[c] # c
  BY <1>2
<1>4. At(target[c], "ok")
  <2>1. pc[target[c]] \in Listing \cup {"ok", "stuck"}
    BY <1>1, <1>2 DEF CallsInv, Listed
  <2>2. ~ (pc[target[c]] \in Listing \cup {"stuck"})
    BY <1>2, <1>3, OnlyOne DEF Using, Listing
  <2> QED BY <2>1, <2>2
<1>5. \A p \in Own(Name(c)) :
        p.by = handles[Name(c)][p.kind] /\ p \in Process /\ ~ Killed(Name(c))
  BY <1>1, <1>2, <1>4 DEF ProcessInv, TrackedAt, TypeOK, Own
<1>6. Killed(Name(c)) <=> pc[c] \in KillLabels
  BY <1>2, OnlyOne DEF Killed, KillLabels, CreateLabels, DestroyLabels, Using
<1>7. pc[c] \notin KillLabels => Agree(Name(c))
  BY <1>1, <1>2, <1>4, <1>6 DEF ProcessInv, AgreedAt
<1> QED BY <1>2, <1>3, <1>4, <1>5, <1>6, <1>7 DEF Process, P

LEMMA CreateProcesses ==
  ASSUME TypeOK, CallsInv, ProcessInv, TypeOK', CallsInv', PortsAccounted,
         NEW c \in Calls, CreateStep(c)
  PROVE  ProcessInv'
<1> DEFINE n == Name(c)
<1>0. /\ Outstands(c) /\ n \in Names /\ NoCall \notin Calls
      /\ Rpc(c) = "CreateInstance"
      /\ pc \in [Calls -> Labels]
      /\ alive \subseteq Process
      /\ instances \in [Names -> Calls \cup {NoCall}]
      /\ record \in [Calls -> Record]
      /\ handles \in [Names -> Handles]
      /\ pipe \in [Names -> SUBSET Calls]
      /\ \A k \in Kinds : P(k, c).by = c /\ P(k, c).kind = k
  <2>1. pc[c] \in CreateLabels
    BY DEF CreateStep, AllocatePorts, CreateRecord, SpawnEmulator, SpawnSocat,
      SpawnDhu, AwaitFocus, TrackHandles, AnswerCreate, CleanUpCreate,
      ReleasePorts, Unlist, CreateLabels
  <2> QED BY <2>1, AtWork DEF TypeOK, StoreTypeOK, Request, Name, P, CallsInv,
        LabelsFit
<1>1. CASE AllocatePorts(c)
  <2>1. PICK b \in {"record", "failed"} : pc' = [pc EXCEPT ![c] = b]
    BY <1>1 DEF AllocatePorts
  <2>2. /\ pc[c] = "allocate" /\ ~ Present(n)
        /\ UNCHANGED <<instances, record, alive, handles, pipe, leftover, request>>
    BY <1>1 DEF AllocatePorts, CallsInv, Creation
  <2>3. Local(c)
    BY <2>1, <2>2, <1>0, Alone DEF Local
  <2>4. Own(n)' = {} /\ ~ Present(n)'
    BY <2>2, <1>0 DEF Own, Name, ProcessInv, TrackedAt, Present
  <2>5. TrackedAt(n)' /\ AgreedAt(n)' /\ ProgressOf(c)'
    BY <2>4, <2>1, <1>0 DEF TrackedAt, AgreedAt, ProgressOf
  <2> QED BY <2>3, <2>5, LocalStep
<1>2. CASE CreateRecord(c)
  <2>1. /\ pc[c] = "record" /\ pc' = [pc EXCEPT ![c] = "spawn"]
        /\ instances' = [instances EXCEPT ![n] = c]
        /\ record' = [record EXCEPT ![c] = NewRecord]
        /\ ~ Present(n)
        /\ UNCHANGED <<alive, handles, pipe, leftover, request>>
    BY <1>2 DEF CreateRecord, PutRecord, CallsInv, Creation
  <2>2. Local(c)
    <3>1. \A m \in Names \ {n} :
            /\ instances'[m] = instances[m]
            /\ \A o \in Calls : Name(o) = m => record'[o] = record[o]
      BY <2>1, <1>0
    <3> QED BY <2>1, <3>1, <1>0, Alone DEF Local
  <2>3. Own(n)' = {}
    BY <2>1, <1>0 DEF Own, Name, ProcessInv, TrackedAt, Present
  <2>4. instances'[n] = c /\ pc'[c] = "spawn"
    BY <2>1, <1>0
  <2>5. TrackedAt(n)' /\ AgreedAt(n)' /\ ProgressOf(c)'
    BY <2>3, <2>4, <2>1 DEF TrackedAt, AgreedAt, ProgressOf, Name
  <2> QED BY <2>2, <2>5, LocalStep
<1>3. CASE SpawnEmulator(c)
  <2>1. PICK b \in {"boot", "cleanup"} : pc' = [pc EXCEPT ![c] = b]
    BY <1>3 DEF SpawnEmulator
  <2>2. /\ pc[c] = "spawn"
        /\ alive' \subseteq alive \cup {P("emulator", c)}
        /\ UNCHANGED <<instances, record, handles, pipe, leftover, request>>
    BY <1>3 DEF SpawnEmulator
  <2>3. Local(c)
    BY <2>1, <2>2, <1>0, Alone DEF Local, Kinds
  <2>4. /\ instances[n] = c /\ Present(n)
        /\ \A p \in Own(n) : p.by = c
    BY <2>2, OwnOfCreation DEF Listing, CreateLabels, P
  <2>5. \A p \in Own(n)' : p.by = c
    BY <2>2, <2>4, <1>0 DEF Own, Name, Kinds
  <2>6. ~ Killed(n)' /\ pc'[c] = b
    BY <2>1, <2>2, <1>0, Alone DEF KillLabels
  <2>7. TrackedAt(n)' /\ AgreedAt(n)' /\ ProgressOf(c)'
    BY <2>1, <2>2, <2>4, <2>5, <2>6
    DEF TrackedAt, AgreedAt, ProgressOf, Name, Present
  <2> QED BY <2>3, <2>7, LocalStep
<1>4. CASE SpawnSocat(c)
  <2>1. /\ instances[n] = c /\ Present(n) /\ pc[c] = "boot"
        /\ \A p \in Own(n) : p.by = c
    BY <1>4, OwnOfCreation DEF SpawnSocat, Listing, CreateLabels, P
  <2>2. PICK b \in {"dhu", "cleanup"} : pc' = [pc EXCEPT ![c] = b]
    BY <1>4 DEF SpawnSocat
  <2>3. /\ alive' \subseteq alive \cup {P("socat", c)}
        /\ UNCHANGED <<instances, handles, pipe, leftover, request>>
        /\ b = "dhu" => record' = [record EXCEPT ![c].socat = c]
        /\ b = "cleanup" => record' = record
    BY <1>4, <2>1, <2>2, <1>0 DEF SpawnSocat, SetField
  <2>4. Local(c)
    BY <2>1, <2>2, <2>3, <1>0, Alone DEF Local, Kinds
  <2>5. \A p \in Own(n)' : p.by = c
    BY <2>3, <2>1, <1>0 DEF Own, Name, Kinds
  <2>6. ~ Killed(n)' /\ pc'[c] = b
    BY <2>1, <2>2, <2>3, <1>0, Alone DEF KillLabels
  <2>7. b = "dhu" => record'[c].socat = c
    BY <2>3, <1>0 DEF Record
  <2>8. TrackedAt(n)' /\ AgreedAt(n)' /\ ProgressOf(c)'
    BY <2>1, <2>2, <2>3, <2>5, <2>6, <2>7
    DEF TrackedAt, AgreedAt, ProgressOf, Name, Present
  <2> QED BY <2>4, <2>8, LocalStep
<1>5. CASE SpawnDhu(c)
  <2>1. /\ instances[n] = c /\ Present(n) /\ pc[c] = "dhu"
        /\ \A p \in Own(n) : p.by = c
    BY <1>5, OwnOfCreation DEF SpawnDhu, Listing, CreateLabels, P
  <2>2. PICK b \in {"focus", "cleanup"} : pc' = [pc EXCEPT ![c] = b]
    BY <1>5 DEF SpawnDhu
  <2>3. /\ alive' \subseteq alive \cup {P("dhu", c)}
        /\ UNCHANGED <<instances, handles, leftover, request>>
        /\ b = "focus" => /\ record' = [record EXCEPT ![c].dhu = c]
                          /\ c \in pipe'[n]
        /\ b = "cleanup" => record' = record
        /\ \A m \in Names \ {n} : pipe'[m] = pipe[m]
    BY <1>5, <2>1, <2>2, <1>0 DEF SpawnDhu, SetField, OpenPipe
  <2>4. Local(c)
    <3>1. \A m \in Names \ {n} : \A o \in Calls :
            Name(o) = m => record'[o] = record[o]
      BY <2>3, <1>0
    <3>2. \A p \in alive' \ alive : Name(p.by) = Name(c)
      BY <2>3, <1>0 DEF Kinds
    <3>3. /\ \A d \in Calls \ {c} : pc'[d] = pc[d]
          /\ \A d \in Calls \ {c} : Name(d) = Name(c) => ~ Outstands(d)
      BY <2>2, <2>3, <1>0, Alone
    <3> QED BY <2>3, <3>1, <3>2, <3>3 DEF Local
  <2>5. \A p \in Own(n)' : p.by = c
    BY <2>3, <2>1, <1>0 DEF Own, Name, Kinds
  <2>6. ~ Killed(n)' /\ pc'[c] = b
    BY <2>1, <2>2, <2>3, <1>0, Alone DEF KillLabels
  <2>7. record[c].socat = c
    BY <2>1 DEF ProcessInv, ProgressOf
  <2>8. b = "focus" => /\ record'[c].socat = c /\ record'[c].dhu = c
                       /\ c \in pipe'[n]
    BY <2>3, <2>7, <1>0 DEF Record
  <2>9. TrackedAt(n)' /\ AgreedAt(n)' /\ ProgressOf(c)'
    BY <2>1, <2>2, <2>3, <2>5, <2>6, <2>8
    DEF TrackedAt, AgreedAt, ProgressOf, Name, Present
  <2> QED BY <2>4, <2>9, LocalStep
<1>6. CASE AwaitFocus(c)
  <2>1. /\ instances[n] = c /\ Present(n) /\ pc[c] = "focus"
        /\ \A p \in Own(n) : p.by = c
    BY <1>6, OwnOfCreation DEF AwaitFocus, Listing, CreateLabels, P
  <2>2. PICK b \in {"track", "cleanup", "stuck"} : pc' = [pc EXCEPT ![c] = b]
    BY <1>6 DEF AwaitFocus
  <2>3. /\ UNCHANGED <<instances, alive, pipe, handles, leftover, request>>
        /\ record' = [record EXCEPT ![c].state = "RUNNING"] \/ record' = record
    BY <1>6, <2>1, <1>0 DEF AwaitFocus, SetField
  <2>a. \A o \in Calls \ {c} : record'[o] = record[o]
    BY <2>3, <1>0
  <2>b. UNCHANGED <<instances, alive, pipe, handles, leftover, request>>
    BY <2>3
  <2>4. Local(c)
    BY <2>a, <2>b, <2>1, <2>2, <1>0, Alone DEF Local
  <2>5. \A p \in Own(n)' : p.by = c
    BY <2>3, <2>1, <1>0 DEF Own, Name
  <2>6. ~ Killed(n)' /\ pc'[c] = b
    BY <2>1, <2>2, <2>3, <1>0, Alone DEF KillLabels
  <2>7. record[c].socat = c /\ record[c].dhu = c /\ c \in pipe[n]
    BY <2>1 DEF ProcessInv, ProgressOf
  <2>8. record'[c].socat = c /\ record'[c].dhu = c /\ c \in pipe'[n]
    BY <2>3, <2>7, <1>0 DEF Record
  <2>9. TrackedAt(n)' /\ AgreedAt(n)' /\ ProgressOf(c)'
    BY <2>1, <2>2, <2>3, <2>5, <2>6, <2>8
    DEF TrackedAt, AgreedAt, ProgressOf, Name, Present
  <2> QED BY <2>4, <2>9, LocalStep
<1>7. CASE TrackHandles(c)
  <2>1. /\ instances[n] = c /\ Present(n) /\ pc[c] = "track"
        /\ \A p \in Own(n) : p.by = c
    BY <1>7, OwnOfCreation DEF TrackHandles, Listing, CreateLabels, P
  <2>2. /\ pc' = [pc EXCEPT ![c] = "answer"]
        /\ handles' = [handles EXCEPT ![n] = [k \in Kinds |-> c]]
        /\ UNCHANGED <<instances, alive, pipe, record, leftover, request>>
    BY <1>7 DEF TrackHandles
  <2>3. Local(c)
    BY <2>1, <2>2, <1>0, Alone DEF Local
  <2>4. Own(n)' = Own(n) /\ handles'[n] = [k \in Kinds |-> c]
    BY <2>2, <1>0 DEF Own, Name
  <2>5. ~ Killed(n)' /\ pc'[c] = "answer"
    <3>1. PICK b \in {"answer"} : pc' = [pc EXCEPT ![c] = b]
      BY <2>2
    <3> QED BY <3>1, <2>1, <2>2, <1>0, Alone DEF KillLabels
  <2>6. record[c].socat = c /\ record[c].dhu = c /\ c \in pipe[n]
    BY <2>1 DEF ProcessInv, ProgressOf
  <2>7. TrackedAt(n)' /\ AgreedAt(n)' /\ ProgressOf(c)'
    BY <2>1, <2>2, <2>4, <2>5, <2>6
    DEF TrackedAt, AgreedAt, ProgressOf, Name, Present
  <2> QED BY <2>3, <2>7, LocalStep
<1>8. CASE AnswerCreate(c)
  <2>1. /\ instances[n] = c /\ Present(n) /\ pc[c] = "answer"
        /\ \A p \in Own(n) : p.by = c /\ p.kind \in Kinds
    BY <1>8, OwnOfCreation DEF AnswerCreate, Listing, CreateLabels, P
  <2>2. /\ pc' = [pc EXCEPT ![c] = "ok"]
        /\ UNCHANGED <<instances, handles, alive, pipe, record, leftover, request>>
    BY <1>8, <2>1 DEF AnswerCreate
  <2>3. Local(c)
    BY <2>1, <2>2, <1>0, Alone DEF Local
  <2>4. Own(n)' = Own(n)
    BY <2>2, <1>0 DEF Own, Name
  <2>5. ~ Killed(n)' /\ pc'[c] = "ok"
    <3>1. PICK b \in {"ok"} : pc' = [pc EXCEPT ![c] = b]
      BY <2>2
    <3> QED BY <3>1, <2>1, <2>2, <1>0, Alone DEF KillLabels
  <2>6. /\ record[c].socat = c /\ record[c].dhu = c /\ c \in pipe[n]
        /\ handles[n] = [k \in Kinds |-> c]
    BY <2>1 DEF ProcessInv, ProgressOf
  <2>7. Agree(n)'
    BY <2>1, <2>2, <2>6 DEF Agree, Name, Kinds
  <2>8. TrackedAt(n)' /\ AgreedAt(n)' /\ ProgressOf(c)'
    BY <2>1, <2>2, <2>4, <2>5, <2>6, <2>7
    DEF TrackedAt, AgreedAt, ProgressOf, Name, Present
  <2> QED BY <2>3, <2>8, LocalStep
<1>9. CASE CleanUpCreate(c)
  <2>1. /\ instances[n] = c /\ Present(n) /\ pc[c] = "cleanup"
        /\ \A p \in Own(n) : p = P(p.kind, c) /\ p.kind \in Kinds
    BY <1>9, OwnOfCreation DEF CleanUpCreate, Listing, CreateLabels
  <2>2. /\ pc' = [pc EXCEPT ![c] = "release"]
        /\ alive' = alive \ {P(k, c) : k \in Kinds}
        /\ record' = [record EXCEPT ![c].state = "ERROR"] \/ record' = record
        /\ UNCHANGED <<instances, handles, pipe, leftover, request>>
    BY <1>9, <2>1 DEF CleanUpCreate, SetField
  <2>3. Local(c)
    BY <2>1, <2>2, <1>0, Alone DEF Local
  <2>4. Own(n)' = {}
    BY <2>1, <2>2, <1>0 DEF Own, Name
  <2>5. TrackedAt(n)' /\ AgreedAt(n)' /\ ProgressOf(c)'
    BY <2>1, <2>2, <2>4, <1>0 DEF TrackedAt, AgreedAt, ProgressOf, Name
  <2> QED BY <2>3, <2>5, LocalStep
<1>10. CASE ReleasePorts(c)
  <2>1. /\ instances[n] = c /\ Present(n) /\ pc[c] = "release" /\ Own(n) = {}
    BY <1>10, OwnOfCreation DEF ReleasePorts, Listing, CreateLabels, KillLabels
  <2>2. /\ pc' = [pc EXCEPT ![c] = "unlist"]
        /\ UNCHANGED <<instances, handles, alive, pipe, record, leftover, request>>
    BY <1>10, <2>1, FailedCreateReleases DEF ReleasePorts
  <2>3. Local(c)
    BY <2>1, <2>2, <1>0, Alone DEF Local
  <2>4. TrackedAt(n)' /\ AgreedAt(n)' /\ ProgressOf(c)'
    BY <2>1, <2>2, <1>0 DEF TrackedAt, AgreedAt, ProgressOf, Name, Own
  <2> QED BY <2>3, <2>4, LocalStep
<1>11. CASE Unlist(c)
  <2>1. /\ pc[c] = "unlist" /\ Own(n) = {}
    BY <1>11, OwnOfCreation DEF Unlist, Listing, CreateLabels, KillLabels
  <2>2. /\ pc' = [pc EXCEPT ![c] = "failed"]
        /\ instances' = [instances EXCEPT ![n] = NoCall]
        /\ UNCHANGED <<handles, alive, pipe, record, leftover, request>>
    BY <1>11, <2>1 DEF Unlist, RemoveRecord
  <2>3. Local(c)
    BY <2>1, <2>2, <1>0, Alone DEF Local
  <2>4. TrackedAt(n)' /\ AgreedAt(n)' /\ ProgressOf(c)'
    BY <2>1, <2>2, <1>0 DEF TrackedAt, AgreedAt, ProgressOf, Name, Own, Present
  <2> QED BY <2>3, <2>4, LocalStep
<1> QED BY <1>1, <1>2, <1>3, <1>4, <1>5, <1>6, <1>7, <1>8, <1>9, <1>10, <1>11
  DEF CreateStep

LEMMA DestroyProcesses ==
  ASSUME TypeOK, CallsInv, ProcessInv, TypeOK', NEW c \in Calls,
         DestroyStep(c) \/ RestartStep(c)
  PROVE  ProcessInv'
<1> DEFINE n == Name(c)
           o == instances[n]
<1>0. /\ n \in Names /\ NoCall \notin Calls
      /\ pc \in [Calls -> Labels]
      /\ alive \subseteq Process
      /\ instances \in [Names -> Calls \cup {NoCall}]
      /\ record \in [Calls -> Record]
      /\ handles \in [Names -> Handles]
      /\ pipe \in [Names -> SUBSET Calls]
      /\ \A k \in Kinds : P(k, c).by = c /\ P(k, c).kind = k
  BY DEF TypeOK, StoreTypeOK, Request, Name, P
<1>1. pc[c] \in Using
  BY DEF DestroyStep, RestartStep, MarkDestroying, KillInstance, CleanFiles,
    FreePorts, RemoveInstance, Install, StopDhu, RespawnDhu, RespawnFails,
    AwaitRefocus, Using, DestroyLabels, RestartLabels
<1>2. /\ o = target[c] /\ Present(n) /\ Outstands(c)
      /\ o \in Calls \ {c} /\ Name(o) = n /\ pc[o] = "ok"
      /\ \A p \in Own(n) : p = P(p.kind, handles[n][p.kind]) /\ p.kind \in Kinds
      /\ \A p \in Own(n) : p.by = handles[n][p.kind]
      /\ pc[c] \in KillLabels => Own(n) = {}
      /\ pc[c] \notin KillLabels => Agree(n)
  BY <1>1, OwnOfUse DEF P
<1>3. CASE MarkDestroying(c)
  <2>1. PICK b \in {"kill"} : pc' = [pc EXCEPT ![c] = b]
    BY <1>2, <1>3 DEF MarkDestroying
  <2>2. /\ pc[c] = "mark" /\ record' = [record EXCEPT ![o].state = "DESTROYING"]
        /\ UNCHANGED <<instances, handles, alive, pipe, leftover, request>>
    BY <1>2, <1>3 DEF MarkDestroying, SetField
  <2>3. Local(c)
    BY <2>1, <2>2, <1>0, <1>2, Alone DEF Local
  <2>a. Own(n)' = Own(n)
    BY <2>2 DEF Own, Name
  <2>4. ~ Killed(n)' /\ pc'[c] = b /\ pc'[o] = "ok"
    BY <2>1, <2>2, <1>0, <1>2, Alone DEF KillLabels
  <2>5. /\ record'[o].socat = record[o].socat /\ record'[o].dhu = record[o].dhu
        /\ Agree(n)
    BY <2>2, <1>0, <1>2 DEF Record, KillLabels
  <2>6. Agree(n)'
    BY <2>2, <2>5 DEF Agree, Name
  <2>7. TrackedAt(n)' /\ AgreedAt(n)' /\ ProgressOf(c)'
    BY <2>a, <2>1, <2>2, <2>4, <2>6, <1>2
    DEF TrackedAt, AgreedAt, ProgressOf, Name, Present
  <2> QED BY <2>3, <2>7, LocalStep
<1>4. CASE KillInstance(c)
  <2>1. PICK b \in {"clean"} : pc' = [pc EXCEPT ![c] = b]
    BY <1>4 DEF KillInstance
  <2>2. pc[c] = "kill" /\ handles[n] # NoHandles
    BY <1>4, <1>0, <1>2 DEF KillInstance, KillLabels, Agree, NoHandles, Kinds
  <2>3. /\ alive' \subseteq alive \ {P(k, handles[n][k]) : k \in Kinds}
        /\ \A m \in Names \ {n} : handles'[m] = handles[m]
        /\ UNCHANGED <<instances, record, pipe, leftover, request>>
    BY <1>4, <2>2 DEF KillInstance, KillProcesses
  <2>4. Local(c)
    BY <2>1, <2>3, <1>0, <1>2, Alone DEF Local
  <2>5. Own(n)' = {}
    BY <2>3, <1>2 DEF Own, Name
  <2>6. Killed(n)' /\ pc'[c] = b
    BY <2>1, <2>3, <1>2, Alone DEF KillLabels
  <2>7. TrackedAt(n)' /\ AgreedAt(n)' /\ ProgressOf(c)'
    BY <2>1, <2>5, <2>6 DEF TrackedAt, AgreedAt, ProgressOf, Name
  <2> QED BY <2>4, <2>7, LocalStep
<1>5. CASE CleanFiles(c) \/ FreePorts(c)
  <2>1. PICK b \in {"free", "remove"} : pc' = [pc EXCEPT ![c] = b]
    BY <1>5 DEF CleanFiles, RemoveFiles, FreePorts
  <2>2. /\ pc[c] \in {"clean", "free"} /\ Own(n) = {}
        /\ \A m \in Names \ {n} : pipe'[m] = pipe[m]
        /\ UNCHANGED <<instances, record, handles, alive, leftover, request>>
    BY <1>5, <1>0, <1>2 DEF CleanFiles, RemoveFiles, FreePorts, KillLabels
  <2>3. Local(c)
    BY <2>1, <2>2, <1>0, <1>2, Alone DEF Local
  <2>4. Own(n)' = {}
    BY <2>2 DEF Own, Name
  <2>5. Killed(n)' /\ pc'[c] = b
    BY <2>1, <2>2, <1>2, Alone DEF KillLabels
  <2>6. TrackedAt(n)' /\ AgreedAt(n)' /\ ProgressOf(c)'
    BY <2>1, <2>4, <2>5 DEF TrackedAt, AgreedAt, ProgressOf, Name
  <2> QED BY <2>3, <2>6, LocalStep
<1>6. CASE RemoveInstance(c)
  <2>1. PICK b \in {"ok", "failed"} : pc' = [pc EXCEPT ![c] = b]
    BY <1>6 DEF RemoveInstance
  <2>2. /\ pc[c] = "remove" /\ Own(n) = {}
        /\ instances' = [instances EXCEPT ![n] = NoCall]
        /\ UNCHANGED <<pipe, record, handles, alive, leftover, request>>
    BY <1>6, <1>2 DEF RemoveInstance, RemoveRecord, KillLabels
  <2>3. Local(c)
    BY <2>1, <2>2, <1>0, <1>2, Alone DEF Local
  <2>4. Own(n)' = {} /\ ~ Present(n)' /\ pc'[c] = b
    BY <2>1, <2>2, <1>0 DEF Own, Name, Present
  <2>5. TrackedAt(n)' /\ AgreedAt(n)' /\ ProgressOf(c)'
    BY <2>1, <2>4 DEF TrackedAt, AgreedAt, ProgressOf, Name
  <2> QED BY <2>3, <2>5, LocalStep
<1>7. CASE StopDhu(c)
  <2>1. PICK b \in {"respawn"} : pc' = [pc EXCEPT ![c] = b]
    BY <1>7 DEF StopDhu
  <2>2. pc[c] = "stop" /\ handles[n] # NoHandles /\ Agree(n)
    BY <1>7, <1>0, <1>2 DEF StopDhu, KillLabels, Agree, NoHandles, Kinds
  <2>3. /\ alive' = alive \ {P("dhu", handles[n]["dhu"])}
        /\ UNCHANGED <<instances, record, handles, pipe, leftover, request>>
    BY <1>7, <2>2 DEF StopDhu
  <2>4. Local(c)
    BY <2>1, <2>3, <1>0, <1>2, Alone DEF Local
  <2>5. /\ Own(n)' \subseteq Own(n) /\ \A p \in Own(n)' : p.kind # "dhu"
        /\ \A p \in alive' : p # P("dhu", handles'[n]["dhu"])
    BY <2>3, <1>2 DEF Own, Name
  <2>6. ~ Killed(n)' /\ pc'[c] = b /\ pc'[o] = "ok"
    BY <2>1, <2>2, <2>3, <1>0, <1>2, Alone DEF KillLabels
  <2>7. Agree(n)'
    BY <2>2, <2>3 DEF Agree, Name
  <2>8. TrackedAt(n)' /\ AgreedAt(n)' /\ ProgressOf(c)'
    BY <2>1, <2>3, <2>5, <2>6, <2>7, <1>2
    DEF TrackedAt, AgreedAt, ProgressOf, Name, Present
  <2> QED BY <2>4, <2>8, LocalStep
<1>8. CASE RespawnDhu(c)
  <2>1. PICK b \in {"refocus"} : pc' = [pc EXCEPT ![c] = b]
    BY <1>2, <1>8 DEF RespawnDhu
  <2>2. /\ pc[c] = "respawn" /\ Agree(n)
        /\ \A p \in Own(n) : p.kind # "dhu"
    BY <1>8, <1>2 DEF RespawnDhu, KillLabels, ProcessInv, ProgressOf
  <2>3. /\ alive' = alive \cup {P("dhu", c)}
        /\ pipe' = [pipe EXCEPT ![n] = {c}]
        /\ handles' = [handles EXCEPT ![n]["dhu"] = c]
        /\ record' = [record EXCEPT ![o].dhu = c]
        /\ UNCHANGED <<instances, leftover, request>>
    BY <1>8, <1>2 DEF RespawnDhu, RenewPipe, SetField
  <2>a. \A q \in Calls \ {o} : record'[q] = record[q]
    BY <2>3, <1>0, <1>2
  <2>b. \A m \in Names \ {n} : handles'[m] = handles[m] /\ pipe'[m] = pipe[m]
    BY <2>3, <1>0
  <2>c. alive' = alive \cup {P("dhu", c)} /\ UNCHANGED <<instances, leftover, request>>
    BY <2>3
  <2>4. Local(c)
    BY <2>a, <2>b, <2>c, <2>1, <1>0, <1>2, Alone DEF Local, Kinds
  <2>5. /\ handles'[n]["dhu"] = c /\ c \in pipe'[n]
        /\ \A k \in Kinds \ {"dhu"} : handles'[n][k] = handles[n][k]
        /\ record'[o].dhu = c /\ record'[o].socat = record[o].socat
    BY <2>3, <1>0, <1>2 DEF Handles, Kinds, Record
  <2>6. \A p \in Own(n)' : handles'[n][p.kind] = p.by
    BY <2>2, <2>3, <2>5, <1>0, <1>2 DEF Own, Name, Kinds
  <2>7. ~ Killed(n)' /\ pc'[c] = b /\ pc'[o] = "ok"
    BY <2>1, <2>2, <2>3, <1>0, <1>2, Alone DEF KillLabels
  <2>8. Agree(n)'
    BY <2>2, <2>3, <2>5 DEF Agree, Name, Kinds
  <2>9. TrackedAt(n)' /\ AgreedAt(n)' /\ ProgressOf(c)'
    BY <2>1, <2>3, <2>6, <2>7, <2>8, <1>2
    DEF TrackedAt, AgreedAt, ProgressOf, Name, Present
  <2> QED BY <2>4, <2>9, LocalStep
<1>9. CASE AwaitRefocus(c) \/ Install(c)
  <2>1. PICK b \in {"ok", "failed", "stuck", "stop"} : pc' = [pc EXCEPT ![c] = b]
    BY <1>9 DEF AwaitRefocus, Install
  <2>2. /\ pc[c] \notin KillLabels /\ Agree(n)
        /\ UNCHANGED <<instances, record, handles, pipe, alive, leftover, request>>
    BY <1>9, <1>2 DEF AwaitRefocus, Install, KillLabels
  <2>3. Local(c)
    BY <2>1, <2>2, <1>0, <1>2, Alone DEF Local
  <2>a. Own(n)' = Own(n)
    BY <2>2 DEF Own, Name
  <2>4. ~ Killed(n)' /\ pc'[c] = b /\ pc'[o] = "ok"
    BY <2>1, <2>2, <1>0, <1>2, Alone DEF KillLabels
  <2>5. Agree(n)'
    BY <2>2 DEF Agree, Name
  <2>6. TrackedAt(n)' /\ AgreedAt(n)' /\ ProgressOf(c)'
    BY <2>a, <2>1, <2>2, <2>4, <2>5, <1>2
    DEF TrackedAt, AgreedAt, ProgressOf, Name, Present
  <2> QED BY <2>3, <2>6, LocalStep
<1>10. CASE RespawnFails(c)
  <2>1. PICK b \in {"failed"} : pc' = [pc EXCEPT ![c] = b]
    BY <1>10 DEF RespawnFails
  <2>2. /\ pc[c] = "respawn" /\ Agree(n)
        /\ \A p \in alive : Name(p.by) = n => p # P("dhu", handles[n]["dhu"])
    BY <1>10, <1>2 DEF RespawnFails, KillLabels, ProcessInv, ProgressOf
  <2>3. /\ \A m \in Names \ {n} : pipe'[m] = pipe[m]
        /\ UNCHANGED <<instances, record, handles, alive, leftover, request>>
    BY <1>10, <1>0 DEF RespawnFails, RenewPipe
  <2>4. Local(c)
    BY <2>1, <2>3, <1>0, <1>2, Alone DEF Local
  <2>5. Own(n)' = Own(n)
    BY <2>3 DEF Own, Name
  <2>6. ~ Killed(n)' /\ pc'[c] = b /\ pc'[o] = "ok"
    BY <2>1, <2>2, <2>3, <1>0, <1>2, Alone DEF KillLabels
  <2>7. Agree(n)'
    BY <2>2, <2>3 DEF Agree, Name, P
  <2>8. TrackedAt(n)' /\ AgreedAt(n)' /\ ProgressOf(c)'
    BY <2>1, <2>3, <2>5, <2>6, <2>7, <1>2
    DEF TrackedAt, AgreedAt, ProgressOf, Name, Present
  <2> QED BY <2>4, <2>8, LocalStep
<1> QED BY <1>3, <1>4, <1>5, <1>6, <1>7, <1>8, <1>9, <1>10
  DEF DestroyStep, RestartStep

(* A call that only asks touches no process, whoever else is at work on    *)
(* the name; nor does a request that is sent or taken.                     *)
LEMMA PassingBy ==
  ASSUME TypeOK, CallsInv, ProcessInv, NEW c \in Calls, NEW b,
         pc[c] \in {"unsent", "queued"} \cup UseLabels,
         b \in {"queued", "failed", "ok", "stuck", "allocate", "mark", "install",
               "stop"} \cup UseLabels,
         pc' = [pc EXCEPT ![c] = b],
         UNCHANGED <<instances, record, handles, pipe, alive, leftover, request>>
  PROVE  ProcessInv'
<1>1. /\ pc \in [Calls -> Labels] /\ \A d \in Calls : Name(d) \in Names
      /\ \A d \in Calls \ {c} : pc'[d] = pc[d]
  BY DEF TypeOK, Request, Name
<1>2. pc'[c] = b /\ pc[c] \notin KillLabels /\ b \notin KillLabels
  BY <1>1 DEF KillLabels, UseLabels
<1>3. \A n \in Names : Present(n) =>
        /\ instances[n] \in Calls \ {c} /\ pc'[instances[n]] = pc[instances[n]]
  BY <1>1 DEF CallsInv, Listed, Listing, CreateLabels, UseLabels, TypeOK,
              StoreTypeOK, Present
<1>4. \A n \in Names : /\ Own(n)' = Own(n) /\ Present(n)' = Present(n)
                       /\ Killed(n)' <=> Killed(n)
  BY <1>1, <1>2 DEF Own, Name, Present, Killed
<1>5. ASSUME NEW n \in Names PROVE TrackedAt(n)' /\ AgreedAt(n)'
  <2>1. TrackedAt(n) /\ AgreedAt(n) /\ instances' = instances /\ handles' = handles
    BY DEF ProcessInv
  <2>2. TrackedAt(n)'
    BY <2>1, <1>3, <1>4 DEF TrackedAt
  <2>3. Present(n) => (Agree(n)' <=> Agree(n))
    BY DEF Agree, Name
  <2> QED BY <2>1, <2>2, <2>3, <1>3, <1>4 DEF AgreedAt
<1>6. ASSUME NEW d \in Calls PROVE ProgressOf(d)'
  <2>1. CASE d = c
    BY <2>1, <1>2 DEF ProgressOf, UseLabels
  <2>2. CASE d # c
    BY <2>2, <1>1 DEF ProcessInv, ProgressOf, Own, Name
  <2> QED BY <2>1, <2>2
<1> QED BY <1>5, <1>6 DEF ProcessInv

LEMMA ArriveProcesses ==
  ASSUME TypeOK, CallsInv, ProcessInv, NEW c \in Calls,
         Submit(c) \/ Begin(c) \/ UseStep(c)
  PROVE  ProcessInv'
<1>1. /\ pc[c] \in {"unsent", "queued"} \cup UseLabels
      /\ \E b \in {"queued", "failed", "ok", "stuck", "allocate", "mark",
                   "install", "stop"} \cup UseLabels : pc' = [pc EXCEPT ![c] = b]
      /\ UNCHANGED <<instances, record, handles, pipe, alive, leftover, request>>
  <2>1. CASE Submit(c)
    BY <2>1 DEF Submit
  <2>2. CASE Begin(c)
    <3>1. FirstStep(c) \in {"allocate", "mark", "install", "stop"} \cup UseLabels
      BY DEF TypeOK, Request, Name, FirstStep, Rpc, AllRpcs, Changing, Asking, UseLabels
    <3> QED BY <2>2, <3>1 DEF Begin
  <2>3. CASE UseStep(c)
    BY <2>3 DEF UseStep, Shoot, SendCommand, RunAdb, AdbReturns, UseLabels
  <2> QED BY <2>1, <2>2, <2>3
<1> QED BY <1>1, PassingBy

LEMMA OtherProcesses ==
  ASSUME TypeOK, Looking, CallsInv, ProcessInv, Refresh \/ Die \/ UNCHANGED vars
  PROVE  ProcessInv'
<1>1. /\ UNCHANGED <<instances, handles, pipe, leftover, request, pc>>
      /\ alive' \subseteq alive
  BY DEF Refresh, Wake, CheckHealth, MarkError, RefreshScreenshot, Sleep, Die
<1>2. \A d \in Calls :
        record'[d].socat = record[d].socat /\ record'[d].dhu = record[d].dhu
  <2>1. CASE MarkError
    BY <2>1 DEF MarkError, SetField, TypeOK, StoreTypeOK, Record
  <2>2. CASE record' = record
    BY <2>2
  <2> QED BY <2>1, <2>2 DEF Refresh, Wake, CheckHealth, RefreshScreenshot,
        Sleep, Die
<1>3. \A n \in Names : Own(n)' \subseteq Own(n)
  BY <1>1 DEF Own, Name
<1>4. \A n \in Names : Killed(n)' <=> Killed(n)
  BY <1>1 DEF Killed, Name
<1>5. \A n \in Names : TrackedAt(n)'
  BY <1>1, <1>3, <1>4 DEF ProcessInv, TrackedAt, Present
<1>6. \A n \in Names : AgreedAt(n)'
  <2> SUFFICES ASSUME NEW n \in Names, Present(n), At(instances[n], "ok"),
                      ~ Killed(n)
               PROVE  Agree(n)'
    BY <1>1, <1>4 DEF AgreedAt, Present
  <2>1. Agree(n) /\ instances[n] \in Calls
    BY DEF ProcessInv, AgreedAt, TypeOK, StoreTypeOK, Present
  <2> QED BY <2>1, <1>1, <1>2 DEF Agree, Name
<1>7. \A d \in Calls : ProgressOf(d)'
  <2> SUFFICES ASSUME NEW d \in Calls PROVE ProgressOf(d)'
    OBVIOUS
  <2>1. ProgressOf(d) /\ Name(d) \in Names /\ Name(d)' = Name(d)
    BY <1>1 DEF ProcessInv, TypeOK, Request, Name
  <2>2. Own(Name(d))' \subseteq Own(Name(d))
    BY <2>1, <1>3
  <2>3. \A p : Name(p.by)' = Name(p.by)
    BY <1>1 DEF Name
  <2> QED BY <2>1, <2>2, <2>3, <1>1, <1>2 DEF ProgressOf
<1> QED BY <1>5, <1>6, <1>7 DEF ProcessInv

LEMMA RestartProcesses ==
  ASSUME TypeOK, StartOver
  PROVE  ProcessInv'
<1>1. /\ \A c \in Calls : pc'[c] \in {"unsent", "ok", "failed"}
      /\ \A n \in Names : instances'[n] = NoCall
      /\ alive' \subseteq leftover'
  BY LabelSet DEF StartOver, Running, RunningLabels, CreateLabels,
    DestroyLabels, RestartLabels, UseLabels, TypeOK, Labelling
<1> QED BY <1>1 DEF ProcessInv, TrackedAt, Own, AgreedAt, Present, ProgressOf

LEMMA InitProcesses == Init => ProcessInv
BY DEF Init, StoreInit, ProcessInv, TrackedAt, Own, AgreedAt, Present,
  ProgressOf

(* Only a call that fails lets a process go astray: where handles are      *)
(* missing nothing has been started, so killing by pid meets no shell.     *)
LEMMA OwnLeavings ==
  ASSUME TypeOK, CallsInv, ProcessInv, NEW c \in Calls, Submit(c) \/ Handle(c)
  PROVE  /\ \A d \in Calls : pc[d] \in Failing => pc'[d] \in Failing
         /\ \A p \in strays' \ strays : p.by \in Calls /\ pc'[p.by] \in Failing
         /\ UNCHANGED leftover
<1>0. pc \in [Calls -> Labels] /\ Name(c) \in Names /\ NoCall \notin Calls
  BY DEF TypeOK, Request, Name
<1>1. CASE CleanUpCreate(c)
  <2>1. /\ pc[c] = "cleanup" /\ pc' = [pc EXCEPT ![c] = "release"]
        /\ UNCHANGED leftover
        /\ \A p \in strays' \ strays : p.by = c
    BY <1>1, AdriftAreStrays DEF CleanUpCreate, P
  <2> QED BY <2>1, <1>0 DEF Failing
<1>2. CASE RespawnFails(c)
  <2>1. /\ pc[c] = "respawn" /\ pc' = [pc EXCEPT ![c] = "failed"]
        /\ UNCHANGED leftover
        /\ \A p \in strays' \ strays : p.by = c
    BY <1>2 DEF RespawnFails, P
  <2> QED BY <2>1, <1>0 DEF Failing
<1>3. CASE KillInstance(c) \/ StopDhu(c)
  <2>1. /\ pc[c] \in {"kill", "stop"}
        /\ \E b \in {"clean", "respawn"} : pc' = [pc EXCEPT ![c] = b]
        /\ UNCHANGED leftover
    BY <1>3 DEF KillInstance, StopDhu
  <2>2. Agree(Name(c))
    BY <2>1, OwnOfUse DEF Using, DestroyLabels, RestartLabels, KillLabels
  <2>3. handles[Name(c)] # NoHandles
    BY <2>2, <1>0 DEF Agree, NoHandles, Kinds
  <2>4. strays' = strays
    BY <1>3, <2>3 DEF KillInstance, KillProcesses, StopDhu
  <2> QED BY <2>1, <2>4, <1>0 DEF Failing
<1>4. CASE \/ Submit(c) \/ Begin(c) \/ UseStep(c) \/ AllocatePorts(c)
           \/ CreateRecord(c) \/ SpawnEmulator(c) \/ SpawnSocat(c)
           \/ SpawnDhu(c) \/ AwaitFocus(c) \/ TrackHandles(c)
           \/ AnswerCreate(c) \/ ReleasePorts(c) \/ Unlist(c)
           \/ MarkDestroying(c) \/ CleanFiles(c) \/ FreePorts(c)
           \/ RemoveInstance(c) \/ Install(c) \/ RespawnDhu(c) \/ AwaitRefocus(c)
  <2>1. UNCHANGED <<strays, leftover>>
    BY <1>4 DEF Submit, Begin, UseStep, Shoot, SendCommand, RunAdb, AdbReturns,
      AllocatePorts, CreateRecord, SpawnEmulator, SpawnSocat, SpawnDhu,
      AwaitFocus, TrackHandles, AnswerCreate, ReleasePorts, Unlist,
      MarkDestroying, CleanFiles, FreePorts, RemoveInstance, Install,
      RespawnDhu, AwaitRefocus, procVars
  <2>2. /\ \E b : pc' = [pc EXCEPT ![c] = b]
        /\ pc[c] \in Failing => pc'[c] \in Failing
    BY <1>0, <1>4 DEF Submit, Begin, UseStep, Shoot, SendCommand, RunAdb, AdbReturns,
      AllocatePorts, CreateRecord, SpawnEmulator, SpawnSocat, SpawnDhu,
      AwaitFocus, TrackHandles, AnswerCreate, ReleasePorts, Unlist,
      MarkDestroying, CleanFiles, FreePorts, RemoveInstance, Install,
      RespawnDhu, AwaitRefocus, Failing
  <2> QED BY <2>1, <2>2, <1>0
<1> QED BY <1>1, <1>2, <1>3, <1>4
  DEF Handle, CreateStep, DestroyStep, RestartStep

LEMMA RestartLeavings ==
  ASSUME StartOver, Readers PROVE Leavings' /\ Readers'
BY DEF StartOver, Leavings, Readers, Name

LEMMA ReadersStep ==
  ASSUME TypeOK, Readers, [Next]_vars
  PROVE  Readers'
<1>0. pipe \in [Names -> SUBSET Calls]
  BY DEF TypeOK
<1>1. ASSUME NEW c \in Calls, Submit(c) \/ Handle(c) PROVE Readers'
  <2>1. /\ UNCHANGED request
        /\ \/ pipe' = pipe
           \/ pipe' = [pipe EXCEPT ![Name(c)] = @ \cup {c}]
           \/ pipe' = [pipe EXCEPT ![Name(c)] = {c}]
           \/ pipe' = [pipe EXCEPT ![Name(c)] = {}]
    <3>1. CASE Submit(c) \/ Begin(c) \/ UseStep(c)
      BY <3>1 DEF Submit, Begin, UseStep, Shoot, SendCommand, RunAdb, AdbReturns, procVars
    <3>2. CASE CreateStep(c)
      BY <3>2 DEF CreateStep, AllocatePorts, CreateRecord, SpawnEmulator,
        SpawnSocat, SpawnDhu, OpenPipe, AwaitFocus, TrackHandles, AnswerCreate,
        CleanUpCreate, ReleasePorts, Unlist, procVars
    <3>3. CASE DestroyStep(c)
      BY <3>3 DEF DestroyStep, MarkDestroying, KillInstance, CleanFiles,
        RemoveFiles, FreePorts, RemoveInstance, procVars
    <3>4. CASE RestartStep(c)
      BY <3>4 DEF RestartStep, Install, StopDhu, RespawnDhu, RespawnFails,
        RenewPipe, AwaitRefocus, procVars
    <3> QED BY <1>1, <3>1, <3>2, <3>3, <3>4 DEF Handle
  <2> QED BY <1>0, <2>1 DEF Readers, Name
<1>2. CASE Refresh \/ Die \/ ServiceRestart \/ UNCHANGED vars
  <2>1. UNCHANGED <<pipe, request>>
    BY <1>2 DEF Refresh, Wake, CheckHealth, MarkError, RefreshScreenshot, Sleep,
      Die, ServiceRestart, StartOver, procVars, callVars, vars
  <2> QED BY <2>1 DEF Readers, Name
<1> QED BY <1>1, <1>2 DEF Next

LEMMA LeavingsStep ==
  ASSUME TypeOK, CallsInv, ProcessInv, Leavings, [Next]_vars
  PROVE  Leavings'
<1>0. strays \subseteq Stray
  BY DEF TypeOK
<1>1. ASSUME NEW c \in Calls, Submit(c) \/ Handle(c) PROVE Leavings'
  <2>1. ASSUME NEW p \in strays' \ leftover' PROVE pc'[p.by] \in Failing
    <3>1. CASE p \in strays
      BY <1>0, <1>1, <2>1, <3>1, OwnLeavings DEF Leavings, Stray
    <3> QED BY <1>1, <2>1, <3>1, OwnLeavings
  <2> QED BY <2>1 DEF Leavings
<1>2. CASE Refresh \/ Die \/ UNCHANGED vars
  <2>1. UNCHANGED <<leftover, pc>> /\ strays' \subseteq strays
    BY <1>2 DEF Refresh, Wake, CheckHealth, MarkError, RefreshScreenshot, Sleep,
      Die, procVars, callVars, vars
  <2> QED BY <2>1 DEF Leavings
<1>3. CASE ServiceRestart
  BY <1>3 DEF ServiceRestart, StartOver, Leavings
<1> QED BY <1>1, <1>2, <1>3 DEF Next

LEMMA ManagerStep ==
  ASSUME ClientsWait
  PROVE  (Init => ManagerInv) /\ (ManagerInv /\ [Next]_vars => ManagerInv')
<1>1. ASSUME SlotsInv, ProcessInv, SlotsInv', [Next]_vars PROVE ProcessInv'
  BY <1>1, CreateProcesses, DestroyProcesses, ArriveProcesses, OtherProcesses,
     RestartProcesses DEF Next, Handle, SlotsInv, ServiceRestart
<1>2. Init => Leavings /\ Readers
  BY DEF Init, Leavings, Readers
<1> QED BY <1>1, <1>2, SlotsStep, InitProcesses, LeavingsStep, ReadersStep
      DEF ManagerInv, SlotsInv

-----------------------------------------------------------------------------
(* What the invariant says of the processes that run.                      *)
LEMMA OwnersOfProcesses ==
  ASSUME ManagerInv, NEW p \in alive \ leftover
  PROVE  /\ p.by \in Calls /\ p.kind \in Kinds /\ Name(p.by) \in Names
         /\ Owns(instances[Name(p.by)]) /\ instances[Name(p.by)] \in Calls
         /\ Name(instances[Name(p.by)]) = Name(p.by)
         /\ p.kind = "emulator" => p.by = instances[Name(p.by)]
<1> DEFINE n == Name(p.by)
           o == instances[n]
<1>1. p.by \in Calls /\ p.kind \in Kinds /\ n \in Names /\ NoCall \notin Calls
  BY DEF ManagerInv, SlotsInv, TypeOK, Process, Request, Name
<1>2. p \in Own(n) /\ TrackedAt(n) /\ AgreedAt(n)
  BY <1>1 DEF Own, ManagerInv, ProcessInv
<1>3. /\ Present(n) /\ ~ Killed(n)
      /\ IF At(o, "ok") THEN handles[n][p.kind] = p.by ELSE p.by = o
  BY <1>2 DEF TrackedAt
<1>4. /\ o \in Calls /\ Name(o) = n /\ TypeOK /\ CallsInv
  BY <1>1, <1>3 DEF ManagerInv, SlotsInv, CallsInv, Listed, TypeOK, StoreTypeOK,
                    Present
<1>5. Row(o)
  BY <1>3, <1>4 DEF Row, Killed, KillLabels
<1>6. Owns(o)
  BY <1>4, <1>5, Rows
<1>7. p.kind = "emulator" => p.by = o
  BY <1>2, <1>3 DEF AgreedAt, Agree
<1> QED BY <1>1, <1>4, <1>6, <1>7

LEMMA InvNoOrphans == ManagerInv => NoOrphans
BY OwnersOfProcesses DEF NoOrphans, ManagerInv, Leavings, Failing

LEMMA InvCoexist == ManagerInv => InstancesCoexist
<1> SUFFICES ASSUME ManagerInv, NEW p \in alive \ leftover,
                    NEW q \in alive \ leftover,
                    p.kind = "emulator", q.kind = "emulator",
                    ports[p.by] = ports[q.by]
             PROVE  p = q
  BY DEF InstancesCoexist
<1>2. /\ Owns(p.by) /\ p.by \in Calls
      /\ Owns(q.by) /\ q.by \in Calls
  BY OwnersOfProcesses
<1>3. p.by = q.by
  BY <1>2 DEF ManagerInv, SlotsInv, PortsAccounted
<1>4. p \in Process /\ q \in Process
  BY DEF ManagerInv, SlotsInv, TypeOK
<1> QED BY <1>3, <1>4 DEF Process

LEMMA InvViewsAgree == ManagerInv => ViewsAgree
<1> SUFFICES ASSUME ManagerInv, NEW n \in Names, Present(n), Outstanding(n) = {}
             PROVE  /\ Agree(n)
                    /\ \A d \in pipe[n] : P("dhu", d) \in alive \ leftover =>
                                          d = handles[n]["dhu"]
  BY DEF ViewsAgree, Agree
<1> DEFINE o == instances[n]
<1>1. \A c \in Calls : Name(c) = n => ~ Outstands(c)
  BY DEF Outstanding, Outstands
<1>2. ~ Killed(n)
  BY <1>1, AtWork DEF Killed, KillLabels, CreateLabels, DestroyLabels,
                      ManagerInv, SlotsInv
<1>3. o \in Calls /\ Name(o) = n /\ pc[o] \in Listing \cup {"ok", "stuck"}
  BY DEF ManagerInv, SlotsInv, CallsInv, Listed, TypeOK, StoreTypeOK, Present
<1>4. At(o, "ok")
  BY <1>1, <1>3, AtWork DEF ManagerInv, SlotsInv, CallsInv, Listed, Listing
<1>5. Agree(n)
  BY <1>2, <1>4 DEF ManagerInv, ProcessInv, AgreedAt
<1>6. ASSUME NEW d \in pipe[n], P("dhu", d) \in alive \ leftover
      PROVE  d = handles[n]["dhu"]
  <2>1. P("dhu", d) \in Own(n)
    BY <1>6 DEF Own, P, ManagerInv, Readers
  <2>2. handles[n][P("dhu", d).kind] = P("dhu", d).by
    BY <1>4, <2>1 DEF ManagerInv, ProcessInv, TrackedAt
  <2> QED BY <2>2 DEF P
<1> QED BY <1>5, <1>6

(* An emulator on the port of an instance is that instance's.              *)
LEMMA PortsOwnEmulator ==
  ASSUME ManagerInv, NEW o \in Calls, Owns(o),
         NEW p \in EmulatorsOn(ports[o]), p \notin leftover
  PROVE  p.by = o
<1>1. p \in alive \ leftover /\ p.kind = "emulator" /\ ports[p.by] = ports[o]
  BY DEF EmulatorsOn
<1>2. Owns(p.by) /\ p.by \in Calls
  BY <1>1, OwnersOfProcesses
<1> QED BY <1>1, <1>2 DEF ManagerInv, SlotsInv, PortsAccounted

LEMMA KillsItsOwn ==
  ASSUME ManagerInv, NEW c \in Calls,
         Handle(c) \/ Submit(c), NEW p \in alive \ alive',
         p \notin leftover \/ p.kind # "emulator"
  PROVE  Name(p.by) = Name(c)
<1>0. /\ TypeOK /\ CallsInv /\ PortsAccounted /\ ProcessInv /\ p \in Process
      /\ NoCall \notin Calls
  BY DEF ManagerInv, SlotsInv, TypeOK
<1>1. CASE CleanUpCreate(c)
  BY <1>1 DEF CleanUpCreate, P
<1>2. CASE StopDhu(c)
  <2>1. Agree(Name(c)) /\ pc[c] \in Using
    BY <1>0, <1>2, OwnOfUse DEF StopDhu, Using, RestartLabels, KillLabels
  <2>2. handles[Name(c)] # NoHandles
    BY <2>1, <1>0 DEF Agree, NoHandles, Kinds
  <2>3. p = P("dhu", handles[Name(c)]["dhu"])
    BY <1>2, <2>2 DEF StopDhu
  <2> QED BY <2>1, <2>3 DEF Agree, P
<1>3. CASE KillInstance(c)
  <2>1. /\ Agree(Name(c)) /\ instances[Name(c)] = target[c]
        /\ target[c] \in Calls /\ Name(target[c]) = Name(c)
        /\ At(target[c], "ok")
    BY <1>0, <1>3, OwnOfUse
    DEF KillInstance, Using, DestroyLabels, KillLabels
  <2>2. handles[Name(c)] # NoHandles
    BY <2>1, <1>0 DEF Agree, NoHandles, Kinds
  <2>3. CASE p \in {P(k, handles[Name(c)][k]) : k \in Kinds}
    BY <2>1, <2>3 DEF Agree, P, Kinds
  <2>4. CASE p \in EmulatorsOn(ports[target[c]])
    <3>1. ~ Killed(Name(c))
      BY <1>0, <1>3, OnlyOne DEF KillInstance, Killed, KillLabels, CreateLabels,
        DestroyLabels
    <3>2. Row(target[c])
      BY <2>1, <3>1 DEF Row, Killed, KillLabels
    <3>3. Owns(target[c])
      BY <1>0, <2>1, <3>2, Rows
    <3>4. p \notin leftover
      BY <2>4 DEF EmulatorsOn
    <3> QED BY <2>1, <2>4, <3>3, <3>4, PortsOwnEmulator
  <2> QED BY <1>3, <2>2, <2>3, <2>4 DEF KillInstance, KillProcesses
<1>4. CASE alive \subseteq alive'
  BY <1>4
<1> QED BY <1>1, <1>2, <1>3, <1>4 DEF Handle, Submit, Begin, CreateStep,
  AllocatePorts, CreateRecord, SpawnEmulator, SpawnSocat, SpawnDhu, AwaitFocus,
  TrackHandles, AnswerCreate, ReleasePorts, Unlist, DestroyStep, MarkDestroying,
  CleanFiles, FreePorts, RemoveInstance, RestartStep, Install, RespawnDhu,
  RespawnFails, AwaitRefocus, UseStep, Shoot, SendCommand, RunAdb, AdbReturns

(* A process the tables tell of belongs to an instance that owns its       *)
(* ports, so a destruction leaves none behind; a creation or a restart of  *)
(* the head unit that fails may leave one that nothing refers to, a head   *)
(* unit without its shell or the keeper of a pipe, and nothing else does   *)
(* (create's except, destroy and restart_dhu, emulator_lifecycle.py).      *)
THEOREM NothingIsOrphaned ==
  ASSUME ClientsWait PROVE Spec => []NoOrphans
<1>1. Spec => []ManagerInv
  BY ManagerStep, PTL DEF Spec
<1> QED BY <1>1, InvNoOrphans, PTL

(* No two emulators that this service has started listen on one port,      *)
(* whatever is created, destroyed, killed and swept - if clients wait (the *)
(* slots of port_allocator.py and the order of DestroyInstance).           *)
THEOREM EmulatorsCoexist ==
  ASSUME ClientsWait PROVE Spec => []InstancesCoexist
<1>1. Spec => []ManagerInv
  BY ManagerStep, PTL DEF Spec
<1> QED BY <1>1, InvCoexist, PTL

(* Handles, recorded pids and pipe of an instance nobody is working on are *)
(* those of one head unit - also after a restart of it that failed and     *)
(* renewed the pipe alone (restart_dhu writes three tables one after the   *)
(* other, emulator_lifecycle.py).                                          *)
THEOREM TablesAgree ==
  ASSUME ClientsWait PROVE Spec => []ViewsAgree
<1>1. Spec => []ManagerInv
  BY ManagerStep, PTL DEF Spec
<1> QED BY <1>1, InvViewsAgree, PTL

(* A handler kills no other instance's processes that this service has     *)
(* started, although adb emu kill goes by port (EmulatorLifecycle.destroy, *)
(* emulator_lifecycle.py).                                                 *)
THEOREM OthersAreSpared ==
  ASSUME ClientsWait PROVE Spec => OnlyOwnKilled
<1>1. Spec => []ManagerInv
  BY ManagerStep, PTL DEF Spec
<1>2. ManagerInv /\ [Next]_vars =>
        [\A c \in Calls : pc[c] # pc'[c] /\ c \in Running /\ Running' # {} =>
           \A p \in (alive \ alive') \ leftover : Name(p.by) = Name(c)]_vars
  <2> SUFFICES ASSUME ManagerInv, Next, NEW c \in Calls, pc[c] # pc'[c],
                      c \in Running, Running' # {},
                      NEW p \in (alive \ alive') \ leftover
               PROVE  Name(p.by) = Name(c)
    OBVIOUS
  <2>1. CASE Refresh \/ Die
    BY <2>1 DEF Refresh, Wake, CheckHealth, MarkError, RefreshScreenshot, Sleep, Die
  <2>2. CASE ServiceRestart
    BY <2>2, LabelSet DEF ServiceRestart, StartOver, Running, RunningLabels, CreateLabels,
      DestroyLabels, RestartLabels, UseLabels, ManagerInv, SlotsInv, TypeOK,
      Labelling
  <2>3. ASSUME NEW d \in Calls, Submit(d) \/ Handle(d)
        PROVE  Name(p.by) = Name(c)
    <3>1. \A e \in Calls \ {d} : pc'[e] = pc[e]
      BY <2>3 DEF ManagerInv, SlotsInv, TypeOK, Handle, Submit, Begin,
        CreateStep, AllocatePorts, CreateRecord, SpawnEmulator, SpawnSocat,
        SpawnDhu, AwaitFocus, TrackHandles, AnswerCreate, CleanUpCreate,
        ReleasePorts, Unlist, DestroyStep, MarkDestroying, KillInstance,
        CleanFiles, FreePorts, RemoveInstance, RestartStep, Install, StopDhu,
        RespawnDhu, RespawnFails, AwaitRefocus, UseStep, Shoot, SendCommand, RunAdb, AdbReturns
    <3>2. c = d
      BY <3>1
    <3> QED BY <2>3, <3>2, KillsItsOwn
  <2> QED BY <2>1, <2>2, <2>3 DEF Next
<1> QED BY <1>1, <1>2, PTL DEF Spec, OnlyOwnKilled

-----------------------------------------------------------------------------
(* While head units do not die by themselves, a call that changes an       *)
(* instance waits for the one it has started, and that one reads its pipe. *)
Lively ==
  \A c \in Calls :
    pc[c] \in {"focus", "refocus"} =>
      c \in pipe[Name(c)] /\ P("dhu", c) \in alive

(* No such call ever hangs in open(), whatever others do to the pipe and   *)
(* its head unit: stop, kill, erase and make anew.                         *)
ChangesGoOn == \A c \in Calls : At(c, "stuck") => Rpc(c) \notin Changing

(* Only changes touch pipes and kill.                                      *)
LEMMA TouchesAreChanges ==
  ASSUME ManagerInv, NEW c \in Calls, Handle(c) \/ Submit(c)
  PROVE  /\ \E b \in Labels : pc' = [pc EXCEPT ![c] = b]
         /\ request' = request
         /\ \A m \in Names \ {Name(c)} : pipe'[m] = pipe[m]
         /\ \/ pipe' = pipe /\ alive \subseteq alive'
            \/ pc[c] \in CreateLabels \cup DestroyLabels \cup RestartLabels
         /\ pc'[c] \in {"focus", "refocus"} =>
              c \in pipe'[Name(c)] /\ P("dhu", c) \in alive'
<1>0. /\ pc \in [Calls -> Labels] /\ Name(c) \in Names
      /\ pipe \in [Names -> SUBSET Calls]
  BY DEF ManagerInv, SlotsInv, TypeOK, Request, Name
<1>1. CASE SpawnDhu(c) \/ RespawnDhu(c)
  <2>1. /\ pc[c] \in {"dhu", "respawn"} /\ request' = request
        /\ \E b \in {"focus", "refocus", "cleanup", "failed"} :
             pc' = [pc EXCEPT ![c] = b]
    BY <1>1 DEF SpawnDhu, RespawnDhu
  <2>2. /\ \A m \in Names \ {Name(c)} : pipe'[m] = pipe[m]
        /\ \/ c \in pipe'[Name(c)] /\ P("dhu", c) \in alive'
           \/ pc' = [pc EXCEPT ![c] = "cleanup"]
    BY <1>0, <1>1 DEF SpawnDhu, OpenPipe, RespawnDhu, RenewPipe
  <2> QED BY <1>0, <2>1, <2>2, LabelSet DEF CreateLabels, RestartLabels, Labelling
<1>2. CASE CleanFiles(c)
  BY <1>0, <1>2, LabelSet DEF CleanFiles, RemoveFiles, DestroyLabels, Labelling
<1>3. CASE CleanUpCreate(c) \/ StopDhu(c) \/ KillInstance(c)
  <2>1. /\ pc[c] \in {"cleanup", "stop", "kill"} /\ pipe' = pipe
        /\ request' = request
        /\ \E b \in {"release", "respawn", "clean"} : pc' = [pc EXCEPT ![c] = b]
    BY <1>3 DEF CleanUpCreate, StopDhu, KillInstance
  <2> QED BY <1>0, <2>1, LabelSet DEF CreateLabels, DestroyLabels, RestartLabels,
        Labelling
<1>4. CASE Submit(c) \/ Begin(c) \/ UseStep(c)
  <2>1. /\ pipe' = pipe /\ alive' = alive /\ request' = request
        /\ \E b \in {"queued", "failed", "ok", "stuck", FirstStep(c)} :
             pc' = [pc EXCEPT ![c] = b]
        /\ At(c, "queued") \/ ~ Begin(c)
    BY <1>4 DEF Submit, Begin, UseStep, Shoot, SendCommand, RunAdb, AdbReturns
  <2>2. FirstStep(c) \in {"allocate", "mark", "stop", "install", "shoot",
                         "command", "adb"}
    BY DEF ManagerInv, SlotsInv, TypeOK, FirstStep, Request, Rpc, AllRpcs, Changing, Asking
  <2> QED BY <1>0, <2>1, <2>2, LabelSet DEF Labelling
<1>5. CASE \/ AllocatePorts(c) \/ CreateRecord(c) \/ SpawnEmulator(c)
           \/ SpawnSocat(c) \/ AwaitFocus(c) \/ TrackHandles(c)
           \/ AnswerCreate(c) \/ ReleasePorts(c) \/ Unlist(c)
  <2>1. /\ pipe' = pipe /\ alive \subseteq alive' /\ request' = request
        /\ \E b \in Labels \ {"focus", "refocus"} : pc' = [pc EXCEPT ![c] = b]
    BY <1>5, LabelSet
    DEF AllocatePorts, CreateRecord, SpawnEmulator, SpawnSocat, AwaitFocus,
      TrackHandles, AnswerCreate, ReleasePorts, Unlist, Labelling
  <2> QED BY <1>0, <2>1
<1>6. CASE \/ MarkDestroying(c) \/ FreePorts(c) \/ RemoveInstance(c)
           \/ Install(c) \/ AwaitRefocus(c)
  <2>1. /\ pipe' = pipe /\ alive \subseteq alive' /\ request' = request
        /\ \E b \in Labels \ {"focus", "refocus"} : pc' = [pc EXCEPT ![c] = b]
    BY <1>6, LabelSet
    DEF MarkDestroying, FreePorts, RemoveInstance, Install, AwaitRefocus, Labelling
  <2> QED BY <1>0, <2>1
<1>7. CASE RespawnFails(c)
  <2>1. /\ pc[c] = "respawn" /\ pc' = [pc EXCEPT ![c] = "failed"]
        /\ pipe' = [pipe EXCEPT ![Name(c)] = {c}] /\ request' = request
    BY <1>7 DEF RespawnFails, RenewPipe
  <2> QED BY <1>0, <2>1, LabelSet DEF RestartLabels, Labelling
<1> QED BY <1>1, <1>2, <1>3, <1>4, <1>5, <1>6, <1>7
  DEF Handle, CreateStep, DestroyStep, RestartStep

LEMMA LivelyStep ==
  ASSUME "dhu" \notin Mortal, ManagerInv, Lively, [Next]_vars
  PROVE  Lively'
<1>0. TypeOK /\ CallsInv
  BY DEF ManagerInv, SlotsInv
<1>1. CASE Refresh \/ Die \/ UNCHANGED vars
  <2>1. UNCHANGED <<pc, request, pipe>>
    BY <1>1 DEF Refresh, Wake, CheckHealth, MarkError, RefreshScreenshot, Sleep, Die
  <2>2. \A p \in alive : p.kind = "dhu" => p \in alive'
    BY <1>1 DEF Refresh, Wake, CheckHealth, MarkError, RefreshScreenshot, Sleep, Die
  <2> QED BY <2>1, <2>2 DEF Lively, Name, P
<1>2. CASE ServiceRestart
  <2>1. \A c \in Calls : pc'[c] \in {"unsent", "ok", "failed"}
    BY <1>0, <1>2, LabelSet
    DEF ServiceRestart, StartOver, Running, RunningLabels, CreateLabels,
      DestroyLabels, RestartLabels, UseLabels, TypeOK, Labelling
  <2> QED BY <2>1 DEF Lively
<1>3. ASSUME NEW c \in Calls, Handle(c) \/ Submit(c),
             NEW d \in Calls, pc'[d] \in {"focus", "refocus"}
      PROVE  d \in pipe'[Name(d)] /\ P("dhu", d) \in alive'
  <2>1. CASE d = c
    BY <1>3, <2>1, TouchesAreChanges
  <2>2. CASE d # c
    <3>1. /\ pc[d] \in {"focus", "refocus"} /\ Name(d) \in Names
          /\ d \in pipe[Name(d)] /\ P("dhu", d) \in alive
      BY <1>0, <1>3, <2>2, TouchesAreChanges DEF Lively, TypeOK, Request, Name
    <3>2. CASE pipe' = pipe /\ alive \subseteq alive'
      BY <3>1, <3>2
    <3>3. CASE pc[c] \in CreateLabels \cup DestroyLabels \cup RestartLabels
      <4>1. Name(d) # Name(c)
        BY <1>0, <2>2, <3>1, <3>3, OnlyOne DEF CreateLabels, RestartLabels
      <4>2. P("dhu", d) \in alive'
        BY <1>3, <3>1, <4>1, KillsItsOwn DEF P
      <4> QED BY <1>3, <3>1, <4>1, <4>2, TouchesAreChanges
    <3> QED BY <1>3, <3>2, <3>3, TouchesAreChanges
  <2> QED BY <2>1, <2>2
<1>4. ASSUME NEW c \in Calls, Handle(c) \/ Submit(c) PROVE Lively'
  <2>1. \A d \in Calls : Name(d)' = Name(d)
    BY <1>4, TouchesAreChanges DEF Name
  <2> QED BY <1>3, <1>4, <2>1 DEF Lively
<1> QED BY <1>1, <1>2, <1>4 DEF Next

(* Which steps can hang.                                                   *)
LEMMA Stuck ==
  ASSUME TypeOK, NEW c \in Calls, Handle(c) \/ Submit(c), pc'[c] = "stuck",
         pc[c] \notin {"focus", "refocus"} \/ ~ Hangs(Name(c))
  PROVE  UseStep(c)
<1>0. pc \in [Calls -> Labels]
  BY DEF TypeOK
<1>1. FirstStep(c) # "stuck"
  BY DEF TypeOK, FirstStep, Request, Rpc, AllRpcs, Changing, Asking
<1>2. ~ Begin(c) /\ ~ Submit(c)
  BY <1>0, <1>1 DEF Begin, Submit
<1>3. ~ CreateStep(c)
  BY <1>0 DEF CreateStep, AllocatePorts, CreateRecord, SpawnEmulator, SpawnSocat,
    SpawnDhu, AwaitFocus, TrackHandles, AnswerCreate, CleanUpCreate,
    ReleasePorts, Unlist
<1>4. ~ DestroyStep(c) /\ ~ RestartStep(c)
  BY <1>0 DEF DestroyStep, MarkDestroying, KillInstance, CleanFiles, FreePorts,
    RemoveInstance, RestartStep, Install, StopDhu, RespawnDhu, RespawnFails, AwaitRefocus
<1> QED BY <1>2, <1>3, <1>4 DEF Handle

(* A call under way that changes an instance does not hang.                *)
LEMMA GoOnStep ==
  ASSUME ManagerInv, Lively, ChangesGoOn, [Next]_vars
  PROVE  ChangesGoOn'
<1>0. TypeOK /\ CallsInv
  BY DEF ManagerInv, SlotsInv
<1>1. CASE Refresh \/ Die \/ UNCHANGED vars
  BY <1>1 DEF Refresh, Wake, CheckHealth, MarkError, RefreshScreenshot, Sleep,
    Die, ChangesGoOn, Rpc
<1>2. CASE ServiceRestart
  <2>1. \A c \in Calls : pc'[c] \in {"unsent", "ok", "failed"}
    BY <1>0, <1>2, LabelSet
    DEF ServiceRestart, StartOver, Running, RunningLabels, CreateLabels,
      DestroyLabels, RestartLabels, UseLabels, TypeOK, Labelling
  <2> QED BY <2>1 DEF ChangesGoOn
<1>3. ASSUME NEW c \in Calls, Handle(c) \/ Submit(c) PROVE ChangesGoOn'
  <2>1. /\ \E b \in Labels : pc' = [pc EXCEPT ![c] = b]
        /\ request' = request
    BY <1>3, TouchesAreChanges
  <2>2. pc'[c] = "stuck" => Rpc(c) \notin Changing
    <3> SUFFICES ASSUME pc'[c] = "stuck" PROVE Rpc(c) \notin Changing
      OBVIOUS
    <3>1. pc[c] \notin {"focus", "refocus"} \/ ~ Hangs(Name(c))
      BY DEF Lively, Hangs, Answers
    <3>2. UseStep(c)
      BY <1>0, <1>3, <3>1, Stuck
    <3> QED BY <1>0, <3>2 DEF UseStep, Shoot, SendCommand, RunAdb, AdbReturns, CallsInv,
          LabelsFit, UseLabels
  <2> QED BY <1>0, <2>1, <2>2 DEF ChangesGoOn, TypeOK, Rpc
<1> QED BY <1>1, <1>2, <1>3 DEF Next

(* While no head unit dies by itself, no call that changes an instance     *)
(* hangs: creation and restart write to the pipe of the head unit they     *)
(* have just started, and nobody takes it from them (open() in             *)
(* SubprocessRunner.pipe_write, emulator_lifecycle.py).                    *)
THEOREM ChangesNeverHang ==
  ASSUME ClientsWait, "dhu" \notin Mortal
  PROVE  Spec => []ChangesGoOn
<1>1. Init => Lively /\ ChangesGoOn
  BY DEF Init, Lively, ChangesGoOn
<1>2. Spec => []ManagerInv
  BY ManagerStep, PTL DEF Spec
<1>3. ManagerInv /\ Lively /\ ChangesGoOn /\ [Next]_vars => Lively' /\ ChangesGoOn'
  BY LivelyStep, GoOnStep
<1> QED BY <1>1, <1>2, <1>3, PTL DEF Spec

-----------------------------------------------------------------------------
(* The pool.  For which names something runs, and who has which slot.      *)
Serving == {Name(p.by) : p \in alive \ leftover}
Granted == {<<Name(c), ports[c]>> : c \in {d \in Calls : Owns(d)}}

(* What runs, runs for a name that has a slot; once the killing is done,   *)
(* nothing does.                                                           *)
LEMMA ServedAreGranted ==
  ASSUME ManagerInv, NEW n \in Serving
  PROVE  n \in Names /\ ~ Killed(n) /\ \E s \in Slots : <<n, s>> \in Granted
<1>1. PICK p \in alive \ leftover : n = Name(p.by)
  BY DEF Serving
<1>2. /\ n \in Names /\ Owns(instances[n]) /\ instances[n] \in Calls
      /\ Name(instances[n]) = n
  BY <1>1, OwnersOfProcesses
<1>3. ports[instances[n]] \in Slots
  BY <1>2 DEF ManagerInv, SlotsInv, PortsAccounted, TypeOK, StoreTypeOK
<1>4. ~ Killed(n)
  BY <1>1, <1>2 DEF ManagerInv, ProcessInv, TrackedAt, Own
<1> QED BY <1>2, <1>3, <1>4 DEF Granted

LEMMA ServedHaveSlots ==
  ManagerInv => \A m \in Serving : \E s \in Slots : <<m, s>> \in Granted
BY ServedAreGranted

(* A call starts processes for its own name only, and kills no others.     *)
LEMMA OwnService ==
  ASSUME ManagerInv, NEW c \in Calls, Submit(c) \/ Handle(c)
  PROVE  /\ UNCHANGED <<request, leftover>>
         /\ \A p \in alive' \ alive : Name(p.by) = Name(c)
         /\ \A p \in (alive \ alive') \ leftover : Name(p.by) = Name(c)
<1>1. \A p \in (alive \ alive') \ leftover : Name(p.by) = Name(c)
  BY KillsItsOwn
<1>2. UNCHANGED <<request, leftover>>
  BY DEF Handle, Submit, Begin, CreateStep, AllocatePorts, CreateRecord,
    SpawnEmulator, SpawnSocat, SpawnDhu, AwaitFocus, TrackHandles, AnswerCreate,
    CleanUpCreate, ReleasePorts, Unlist, DestroyStep, MarkDestroying,
    KillInstance, CleanFiles, FreePorts, RemoveInstance, RestartStep, Install,
    StopDhu, RespawnDhu, RespawnFails, AwaitRefocus, UseStep, Shoot, SendCommand, RunAdb, AdbReturns
<1>3. alive' \subseteq alive \cup {P(k, c) : k \in Kinds}
  BY DEF Handle, Submit, Begin, CreateStep, AllocatePorts, CreateRecord,
    SpawnEmulator, SpawnSocat, SpawnDhu, AwaitFocus, TrackHandles, AnswerCreate,
    CleanUpCreate, ReleasePorts, Unlist, DestroyStep, MarkDestroying,
    KillInstance, KillProcesses, CleanFiles, FreePorts, RemoveInstance,
    RestartStep, Install, StopDhu, RespawnDhu, RespawnFails, AwaitRefocus, UseStep, Shoot,
    SendCommand, RunAdb, AdbReturns, Kinds
<1>4. \A p \in alive' \ alive : Name(p.by) = Name(c)
  BY <1>3 DEF P
<1> QED BY <1>1, <1>2, <1>4

(* A step that leaves the slots alone serves a name that has one, ends     *)
(* that service, or changes nothing.                                       *)
LEMMA PoolServes ==
  ASSUME ManagerInv, ManagerInv', OwnersStay, UNCHANGED <<request, leftover>>,
         NEW n \in Names, \A p \in alive' \ alive : Name(p.by) = n,
         \A p \in (alive \ alive') \ leftover : Name(p.by) = n
  PROVE  Pool!Serve(n) \/ Pool!EndService(n) \/ UNCHANGED Pool!poolVars
<1>1. Granted' = Granted /\ UNCHANGED used
  BY DEF OwnersStay, Granted, Name
<1>2. \A m : m # n => (m \in Serving' <=> m \in Serving)
  BY DEF Serving, Name
<1>3. CASE n \in Serving'
  <2>1. Serving' = Serving \cup {n}
    BY <1>2, <1>3
  <2>2. \E s \in Slots : <<n, s>> \in Granted
    <3>1. (\A m \in Serving : \E s \in Slots : <<m, s>> \in Granted)'
      BY ServedHaveSlots, PTL
    <3> QED BY <1>1, <1>3, <3>1 DEF Slots
  <2> QED BY <1>1, <2>1, <2>2
    DEF Pool!Serve, Pool!Has, Serving, Granted, Slots
<1>4. CASE n \notin Serving'
  <2>1. Serving' = Serving \ {n}
    BY <1>2, <1>4
  <2> QED BY <1>1, <2>1 DEF Pool!EndService, Serving, Granted, Slots
<1> QED BY <1>3, <1>4

(* The lowest free slot goes to a name that has none.                      *)
LEMMA PoolGrants ==
  ASSUME ManagerInv, NEW c \in Calls, GivenTo(c),
         UNCHANGED <<request, alive, leftover>>
  PROVE  \E n \in Names : Pool!Grant(n)
<1>0. /\ TypeOK /\ CallsInv /\ Name(c) \in Names
      /\ ports \in [Calls -> Slots \cup {NoSlot}]
  BY DEF ManagerInv, SlotsInv, TypeOK, StoreTypeOK, Request, Name
<1>1. PICK s \in Slots \ used :
        /\ \A t \in Slots \ used : s <= t
        /\ used' = used \cup {s} /\ ports' = [ports EXCEPT ![c] = s]
  BY DEF GivenTo, Allocate
<1>2. \A s2 : <<Name(c), s2>> \notin Granted
  <2>1. ASSUME NEW o \in Calls, Owns(o), Name(o) = Name(c)
        PROVE  FALSE
    <3>1. Row(o)
      BY <1>0, <2>1, Rows
    <3>2. instances[Name(c)] = NoCall
      BY <1>0 DEF GivenTo, CallsInv, Creation, Present
    <3>3. ~ At(o, "record")
      BY <2>1, <1>0, OnlyOne DEF GivenTo, CreateLabels
    <3> QED BY <2>1, <3>1, <3>2, <3>3 DEF Row
  <2> QED BY <2>1 DEF Granted
<1>3. Granted' = Granted \cup {<<Name(c), s>>}
  <2>1. /\ ports'[c] = s /\ \A d \in Calls \ {c} : ports'[d] = ports[d]
        /\ \A d \in Calls : Name(d)' = Name(d)
    BY <1>0, <1>1 DEF Name
  <2> QED BY <2>1 DEF Granted, GivenTo
<1>4. Serving' = Serving
  BY DEF Serving, Name
<1>5. Slots \ used' = (Slots \ used) \ {s}
  BY <1>1
<1> QED BY <1>0, <1>1, <1>2, <1>3, <1>4, <1>5
  DEF Pool!Grant, Pool!Has, Serving, Granted, Slots

(* A slot is taken back when nothing runs for its name.                    *)
LEMMA PoolReturns ==
  ASSUME ManagerInv, NEW c \in Calls, NEW o \in Calls, Returns(c, o),
         UNCHANGED <<request, alive, leftover>>
  PROVE  \E n \in Names, s \in Slots : Pool!Return(n, s)
<1>0. /\ Name(o) \in Names /\ ports[o] \in Slots /\ PortsAccounted
  BY DEF Returns, TakenFrom, ManagerInv, SlotsInv, PortsAccounted, TypeOK,
    StoreTypeOK, Request, Name
<1>1. Name(o) \notin Serving
  BY ServedAreGranted DEF Returns, Killed, KillLabels
<1>2. <<Name(o), ports[o]>> \in Granted
  BY DEF Granted, Returns, TakenFrom
<1>3. Granted' = Granted \ {<<Name(o), ports[o]>>}
  <2>1. \A d \in Calls : Name(d)' = Name(d) /\ ports'[d] = ports[d]
    BY DEF Name, Returns, TakenFrom
  <2>2. \A d \in Calls \ {o} : Owns(d) => ports[d] # ports[o]
    BY <1>0 DEF PortsAccounted, Returns, TakenFrom
  <2> QED BY <2>1, <2>2 DEF Granted, Returns, TakenFrom
<1>4. Serving' = Serving
  BY DEF Serving, Name
<1>5. Slots \ used' = (Slots \ used) \cup {ports[o]}
  BY <1>0 DEF Returns, TakenFrom
<1> QED BY <1>0, <1>1, <1>2, <1>3, <1>4, <1>5
  DEF Pool!Return, Serving, Granted, Slots

LEMMA PoolStartsOver ==
  ASSUME ManagerInv, ManagerInv', StartOver
  PROVE  Pool!StartOver
<1>1. used' = {} /\ \A o \in Calls : ~ Owns(o)'
  BY RestartSlots DEF ManagerInv, SlotsInv
<1>2. alive' \ leftover' = {}
  BY DEF StartOver
<1> QED BY <1>1, <1>2 DEF Pool!StartOver, Slots

LEMMA PoolStep ==
  ASSUME ManagerInv, ManagerInv', [Next]_vars
  PROVE  [Pool!PoolNext]_(Pool!poolVars)
<1>0. /\ TypeOK /\ CallsInv /\ PortsAccounted /\ TypeOK' /\ CallsInv'
      /\ \A c \in Calls : Name(c) \in Names
  BY DEF ManagerInv, SlotsInv, TypeOK, Request, Name
<1>1. ASSUME NEW c \in Calls, Submit(c) \/ Handle(c)
      PROVE  [Pool!PoolNext]_(Pool!poolVars)
  <2>1. CASE OwnersStay
    BY <1>0, <1>1, <2>1, OwnService, PoolServes DEF Pool!PoolNext
  <2>2. CASE GivenTo(c) \/ \E o \in Calls : Returns(c, o)
    <3>1. UNCHANGED <<request, alive, leftover>>
      <4>1. pc[c] \in {"allocate", "release", "free"}
        BY <2>2 DEF GivenTo, Returns
      <4> QED BY <1>1, <4>1
        DEF Handle, Submit, Begin, CreateStep, AllocatePorts, CreateRecord,
          SpawnEmulator, SpawnSocat, SpawnDhu, AwaitFocus, TrackHandles,
          AnswerCreate, CleanUpCreate, ReleasePorts, Unlist, DestroyStep,
          MarkDestroying, KillInstance, CleanFiles, FreePorts, RemoveInstance,
          RestartStep, Install, StopDhu, RespawnDhu, RespawnFails, AwaitRefocus, UseStep,
          Shoot, SendCommand, RunAdb, AdbReturns
    <3>2. CASE GivenTo(c)
      BY <3>1, <3>2, PoolGrants DEF Pool!PoolNext
    <3>3. CASE \E o \in Calls : Returns(c, o)
      BY <3>1, <3>3, PoolReturns DEF Pool!PoolNext
    <3> QED BY <2>2, <3>2, <3>3
  <2> QED BY <1>0, <1>1, <2>1, <2>2, CallSlots
<1>2. CASE Refresh \/ UNCHANGED vars
  <2>1. OwnersStay /\ UNCHANGED <<request, alive, leftover>>
    BY <1>0, <1>2, OtherSlots
    DEF Refresh, Wake, CheckHealth, MarkError, RefreshScreenshot, Sleep
  <2>2. Granted' = Granted /\ Serving' = Serving /\ used' = used
    BY <2>1 DEF OwnersStay, Granted, Serving, Name
  <2> QED BY <2>2 DEF Pool!poolVars, Granted, Serving, Slots
<1>3. CASE Die
  <2>1. PICK p \in alive \cup strays : alive' = alive \ {p}
    BY <1>3 DEF Die
  <2>2. OwnersStay /\ UNCHANGED <<request, leftover>>
    BY <1>0, <1>3, OtherSlots DEF Die
  <2>3. Name(p.by) \in Names
    BY <1>0, <2>1 DEF TypeOK, Process, Stray
  <2> QED BY <2>1, <2>2, <2>3, PoolServes DEF Pool!PoolNext
<1>4. CASE ServiceRestart
  BY <1>4, PoolStartsOver DEF Pool!PoolNext, ServiceRestart
<1> QED BY <1>1, <1>2, <1>3, <1>4 DEF Next

(* The manager is a pool of slots for every number of calls, names, slots  *)
(* and workers: it grants the lowest slot to a name that has none and      *)
(* takes it back when nothing the tables tell of runs on it, whatever      *)
(* fails, dies or starts again - if clients wait.  What a failed call      *)
(* leaves beside the tables is not in the pool: NothingIsOrphaned bounds   *)
(* it (instance_manager_service.py over port_allocator.py and              *)
(* emulator_lifecycle.py).                                                 *)
THEOREM ManagerIsPool ==
  ASSUME ClientsWait PROVE Spec => ImplementsPool
<1>1. Init => Pool!PoolInit
  BY DEF Init, StoreInit, Pool!PoolInit, Owns, Creating, Name, CreateLabels,
    Request, Slots
<1>2. Spec => []ManagerInv
  BY ManagerStep, PTL DEF Spec
<1>3. ManagerInv /\ ManagerInv' /\ [Next]_vars => [Pool!PoolNext]_(Pool!poolVars)
  BY PoolStep
<1> QED BY <1>1, <1>2, <1>3, PTL DEF Spec, ImplementsPool, Pool!PoolSpec

-----------------------------------------------------------------------------
(* The orderly shutdown.  Nobody changes an instance, and what runs is     *)
(* tracked under a name whose record has still to be destroyed.            *)
Calm ==
  \A c \in Calls :
    /\ pc[c] \notin CreateLabels \cup DestroyLabels \cup RestartLabels
    /\ At(c, "queued") => Rpc(c) \notin Changing

Doomed ==
  /\ \A n \in Names : Present(n) => Name(instances[n]) = n
  /\ \A p \in alive \ leftover :
       /\ Name(p.by) \in Names /\ instances[Name(p.by)] \in doomed
       /\ p.by \in Calls /\ p = P(p.kind, handles[Name(p.by)][p.kind])
  /\ \A r \in doomed : instances[Name(r)] = r /\ handles[Name(r)] # NoHandles
  /\ \A p \in strays \ leftover : At(p.by, "failed")

ShutdownInv ==
  /\ TypeOK /\ Looking /\ Readers /\ ShutdownTypeOK
  /\ main = "serving" => ManagerInv
  /\ main # "serving" /\ ~ disturbed => Calm /\ Doomed
  /\ main \in {"stopped", "exited"} => doomed = {}

(* While nobody changes an instance, nothing is started or listed.         *)
LEMMA CalmCall ==
  ASSUME TypeOK, Calm, NEW c \in Calls, Handle(c)
  PROVE  /\ Calm' /\ UNCHANGED <<instances, alive, strays, handles, leftover, request>>
         /\ \A d \in Calls : At(d, "failed") => At(d, "failed")'
<1>1. /\ pc \in [Calls -> Labels] /\ Rpc(c) \in AllRpcs
      /\ pc[c] \notin CreateLabels \cup DestroyLabels \cup RestartLabels
  BY DEF TypeOK, Request, Rpc, Calm
<1>2. Begin(c) \/ UseStep(c)
  BY <1>1 DEF Handle, CreateStep, AllocatePorts, CreateRecord, SpawnEmulator,
    SpawnSocat, SpawnDhu, AwaitFocus, TrackHandles, AnswerCreate,
    CleanUpCreate, ReleasePorts, Unlist, DestroyStep, MarkDestroying,
    KillInstance, CleanFiles, FreePorts, RemoveInstance, RestartStep, Install,
    StopDhu, RespawnDhu, RespawnFails, AwaitRefocus, CreateLabels, DestroyLabels,
    RestartLabels
<1>3. CASE Begin(c)
  <2>1. /\ At(c, "queued")
        /\ pc' = [pc EXCEPT ![c] = IF Accepted(c) THEN FirstStep(c) ELSE "failed"]
        /\ UNCHANGED <<instances, alive, strays, handles, leftover, request>>
    BY <1>3 DEF Begin, procVars
  <2>2. FirstStep(c) \in UseLabels
    BY <1>1, <2>1 DEF Calm, FirstStep, AllRpcs, Changing, Asking, UseLabels
  <2> QED BY <1>1, <2>1, <2>2 DEF Calm, UseLabels, CreateLabels, DestroyLabels,
        RestartLabels, Rpc
<1>4. CASE UseStep(c)
  <2>1. /\ \E b \in {"ok", "failed", "stuck"} : pc' = [pc EXCEPT ![c] = b]
        /\ pc[c] \in UseLabels
        /\ UNCHANGED <<instances, alive, strays, handles, leftover, request>>
    BY <1>4 DEF UseStep, Shoot, SendCommand, RunAdb, AdbReturns, UseLabels, procVars
  <2> QED BY <1>1, <2>1 DEF Calm, CreateLabels, DestroyLabels, RestartLabels,
        UseLabels, Rpc
<1> QED BY <1>2, <1>3, <1>4

LEMMA CalmStep ==
  ASSUME TypeOK, Calm, Doomed, doomed' = doomed,
         \/ \E c \in Calls : Handle(c) \/ (Submit(c) /\ Changes' = {})
         \/ Refresh \/ Die
  PROVE  Calm' /\ Doomed'
<1>0. \A p \in strays : p.by \in Calls
  BY DEF TypeOK, Stray
<1>1. ASSUME UNCHANGED <<instances, handles, leftover, request>>,
             alive' \subseteq alive, strays' \subseteq strays,
             \A d \in Calls : At(d, "failed") => At(d, "failed")'
      PROVE  Doomed'
  <2>1. \A p \in strays' \ leftover' : At(p.by, "failed")'
    BY <1>0, <1>1 DEF Doomed
  <2> QED BY <1>1, <2>1 DEF Doomed, Present, Name
<1>2. CASE Refresh \/ Die
  <2>1. /\ UNCHANGED <<instances, handles, leftover, request, pc>>
        /\ alive' \subseteq alive /\ strays' \subseteq strays
    BY <1>2 DEF Refresh, Wake, CheckHealth, MarkError, RefreshScreenshot, Sleep,
      Die, procVars
  <2> QED BY <2>1, <1>1 DEF Calm, Rpc
<1>3. ASSUME NEW c \in Calls, Handle(c) PROVE Calm' /\ Doomed'
  BY <1>3, <1>1, CalmCall
<1>4. ASSUME NEW c \in Calls, Submit(c), Changes' = {} PROVE Calm' /\ Doomed'
  <2>1. /\ pc' = [pc EXCEPT ![c] = "queued"] /\ pc \in [Calls -> Labels]
        /\ pc[c] = "unsent"
        /\ UNCHANGED <<instances, alive, strays, handles, leftover, request>>
    BY <1>4 DEF Submit, TypeOK, procVars
  <2>2. Rpc(c) \notin Changing
    BY <1>4, <2>1 DEF Changes, Rpc
  <2>3. Calm'
    BY <2>1, <2>2 DEF Calm, Rpc, CreateLabels, DestroyLabels, RestartLabels
  <2> QED BY <2>1, <2>3, <1>1
<1> QED BY <1>2, <1>3, <1>4

(* The signal finds what the invariant of the manager says.                *)
LEMMA SignalFinds ==
  ASSUME ManagerInv, Signal, Changes = {}
  PROVE  Calm' /\ Doomed'
<1>1. UNCHANGED <<pc, request, instances, handles, alive, strays, leftover>>
  BY DEF Signal, procVars
<1>2. \A c \in Calls : ~ Outstands(c)
  BY DEF Changes, Outstands
<1>3. Calm'
  <2>1. \A c \in Calls :
          pc[c] \notin CreateLabels \cup DestroyLabels \cup RestartLabels
    BY <1>2, AtWork DEF ManagerInv, SlotsInv
  <2> QED BY <1>1, <1>2, <2>1 DEF Calm, Outstands, Rpc
<1>4. \A n \in Names : Present(n) => Name(instances[n]) = n
  BY DEF ManagerInv, SlotsInv, CallsInv, Listed
<1>5. ASSUME NEW p \in alive \ leftover
      PROVE  /\ p.by \in Calls /\ Name(p.by) \in Names /\ Present(Name(p.by))
             /\ p = P(p.kind, handles[Name(p.by)][p.kind])
  <2> DEFINE n == Name(p.by)
             o == instances[n]
  <2>1. p.by \in Calls /\ n \in Names /\ p \in Process
    BY OwnersOfProcesses DEF ManagerInv, SlotsInv, TypeOK
  <2>2. /\ Present(n)
        /\ IF At(o, "ok") THEN handles[n][p.kind] = p.by ELSE p.by = o
    BY <2>1 DEF ManagerInv, ProcessInv, TrackedAt, Own
  <2>3. o \in Calls /\ Rpc(o) = "CreateInstance" /\ pc[o] \in Listing \cup {"ok", "stuck"}
    BY <2>1, <2>2 DEF ManagerInv, SlotsInv, CallsInv, Listed, TypeOK, StoreTypeOK,
                      Present
  <2>4. At(o, "ok")
    BY <1>2, <2>3, AtWork DEF ManagerInv, SlotsInv, Listing
  <2> QED BY <2>1, <2>2, <2>4 DEF Process, P
<1>6. doomed' = {instances[n] : n \in {m \in Names : Present(m)}}
  BY DEF Signal
<1>7. ASSUME NEW n \in Names, Present(n)
      PROVE  Name(instances[n]) = n /\ handles[n] # NoHandles
  <2> DEFINE o == instances[n]
  <2>1. /\ o \in Calls /\ Name(o) = n /\ Rpc(o) = "CreateInstance"
        /\ pc[o] \in Listing \cup {"ok", "stuck"}
    BY <1>4, <1>7 DEF ManagerInv, SlotsInv, CallsInv, Listed, TypeOK, StoreTypeOK,
                      Present
  <2>2. At(o, "ok")
    BY <1>2, <2>1, AtWork DEF ManagerInv, SlotsInv, Listing
  <2>3. ~ Killed(n)
    BY <1>2, AtWork DEF ManagerInv, SlotsInv, Killed, KillLabels, CreateLabels,
                        DestroyLabels
  <2>4. handles[n]["emulator"] = o
    BY <1>7, <2>2, <2>3 DEF ManagerInv, ProcessInv, AgreedAt, Agree
  <2> QED BY <2>1, <2>4, StoreAssumption DEF NoHandles, Kinds
<1>8. ASSUME NEW p \in strays \ leftover PROVE At(p.by, "failed")
  <2>1. p.by \in Calls /\ pc[p.by] \in Failing
    BY DEF ManagerInv, SlotsInv, TypeOK, Stray, Leavings
  <2>2. pc[p.by] \notin CreateLabels
    BY <1>2, <2>1, AtWork DEF ManagerInv, SlotsInv
  <2> QED BY <2>1, <2>2 DEF Failing, CreateLabels
<1>9. \A r \in doomed' : instances[Name(r)] = r /\ handles[Name(r)] # NoHandles
  BY <1>6, <1>7
<1> QED BY <1>1, <1>3, <1>4, <1>5, <1>6, <1>8, <1>9 DEF Doomed, Present, Name

(* Destroying a record takes what runs for its name; what runs for other   *)
(* names has its record still to come.                                     *)
LEMMA KillTakes ==
  ASSUME TypeOK, ShutdownTypeOK, KillNext
  PROVE  /\ TypeOK' /\ UNCHANGED <<pc, request, refresh, looking, pipe>>
         /\ Doomed => Doomed'
<1>1. PICK r \in doomed : KillProcesses(Name(r), r) /\ doomed' = doomed \ {r}
  BY DEF KillNext
<1>2. /\ r \in Calls /\ Name(r) \in Names /\ handles \in [Names -> Handles]
      /\ NoHandles \in Handles /\ NoCall \notin Calls
  BY <1>1 DEF ShutdownTypeOK, TypeOK, Request, Name, NoHandles, Handles
<1>3. /\ alive' \subseteq alive
      /\ strays' \subseteq strays \cup Adrift({P("dhu", record[r].dhu),
                                              P("socat", record[r].socat)})
      /\ handles[Name(r)] # NoHandles => strays' = strays
      /\ handles' = [handles EXCEPT ![Name(r)] = NoHandles]
      /\ UNCHANGED <<storeVars, pipe, leftover, callVars, refreshVars>>
  BY <1>1 DEF KillNext, KillProcesses
<1>4. TypeOK'
  BY <1>2, <1>3, AdriftAreStrays DEF TypeOK, StoreTypeOK
<1>5. ASSUME Doomed, NEW p \in alive' \ leftover'
      PROVE  /\ Name(p.by) \in Names /\ instances[Name(p.by)] \in doomed'
             /\ p.by \in Calls /\ p = P(p.kind, handles'[Name(p.by)][p.kind])
  <2>1. /\ p \in alive \ leftover /\ p \in Process
        /\ Name(p.by) \in Names /\ instances[Name(p.by)] \in doomed
        /\ p.by \in Calls /\ p = P(p.kind, handles[Name(p.by)][p.kind])
    BY <1>3, <1>5 DEF Doomed, TypeOK
  <2>2. Name(p.by) # Name(r)
    <3> SUFFICES ASSUME Name(p.by) = Name(r) PROVE FALSE
      OBVIOUS
    <3>1. p.kind \in Kinds /\ handles[Name(r)][p.kind] = p.by
      BY <2>1 DEF Process, P
    <3>2. handles[Name(r)] # NoHandles
      BY <3>1, <2>1, <1>2 DEF NoHandles
    <3>3. p \in {P(k, handles[Name(r)][k]) : k \in Kinds}
      BY <3>1, <2>1
    <3> QED BY <1>1, <1>5, <3>2, <3>3 DEF KillProcesses
  <2>3. instances[Name(p.by)] # r
    <3>1. Present(Name(p.by))
      BY <2>1, <1>2 DEF Present, ShutdownTypeOK
    <3> QED BY <1>5, <2>1, <2>2, <3>1 DEF Doomed
  <2> QED BY <1>1, <1>2, <1>3, <2>1, <2>2, <2>3
<1>6. ASSUME Doomed, NEW q \in doomed'
      PROVE  instances'[Name(q)] = q /\ handles'[Name(q)] # NoHandles
  <2>1. /\ q \in doomed /\ q # r /\ q \in Calls
        /\ instances[Name(q)] = q /\ handles[Name(q)] # NoHandles
        /\ instances[Name(r)] = r
    BY <1>1, <1>6 DEF Doomed, ShutdownTypeOK
  <2>2. Name(q) # Name(r) /\ Name(q) \in Names
    BY <2>1 DEF TypeOK, Request, Name
  <2> QED BY <1>2, <1>3, <2>1, <2>2
<1>7. Doomed => strays' = strays
  BY <1>1, <1>3 DEF Doomed
<1>8. UNCHANGED <<pc, request, instances, leftover, refresh, looking, pipe>>
  BY <1>3
<1>9. ASSUME Doomed PROVE Doomed'
  <2>1. \A p \in strays' \ leftover' : pc'[p.by] = "failed"
    BY <1>7, <1>8, <1>9 DEF Doomed
  <2>2. \A n \in Names : Present(n)' => Name(instances'[n]) = n
    BY <1>8, <1>9 DEF Doomed, Present
  <2>3. \A p : Name(p)' = Name(p)
    BY <1>8 DEF Name
  <2> QED BY <1>5, <1>6, <1>9, <2>1, <2>2, <2>3, <1>8 DEF Doomed
<1> QED BY <1>4, <1>8, <1>9

LEMMA ShutdownStep ==
  ASSUME ClientsWait
  PROVE  /\ ShutdownInit => ShutdownInv
         /\ ShutdownInv /\ [ShutdownNext]_allVars => ShutdownInv'
<1>1. ShutdownInit => ShutdownInv
  BY InitTyped, ManagerStep DEF ShutdownInit, ShutdownInv, ShutdownTypeOK, ManagerInv
<1>2. ASSUME ShutdownInv, [ShutdownNext]_allVars PROVE ShutdownInv'
  <2> USE <1>2
  <2>0. TypeOK /\ Looking /\ Readers /\ ShutdownTypeOK
    BY DEF ShutdownInv
  <2>1. CASE Signal
    <3>1. UNCHANGED vars /\ TypeOK' /\ Looking' /\ Readers'
      BY <2>0, <2>1, NextTyped, ReadersStep DEF Signal
    <3>2. ShutdownTypeOK' /\ main' = "destroying" /\ main = "serving"
      BY <2>0, <2>1 DEF Signal, ShutdownTypeOK, TypeOK, StoreTypeOK, Present
    <3>3. ~ disturbed' => Calm' /\ Doomed'
      BY <2>1, <3>2, SignalFinds DEF Signal, ShutdownInv
    <3> QED BY <3>1, <3>2, <3>3 DEF ShutdownInv
  <2>2. CASE KillNext
    <3>1. /\ TypeOK' /\ Looking' /\ Readers'
          /\ (Doomed => Doomed') /\ (Calm => Calm')
      BY <2>0, <2>2, KillTakes DEF Looking, Readers, Name, Calm, Rpc
    <3>2. ShutdownTypeOK' /\ main' = "erasing" /\ main # "serving"
          /\ disturbed' = disturbed
      BY <2>0, <2>2 DEF KillNext, ShutdownTypeOK
    <3> QED BY <3>1, <3>2 DEF ShutdownInv
  <2>3. CASE EraseNext
    <3>1. Name(victim) \in Names
      BY <2>0, <2>3 DEF EraseNext, ShutdownTypeOK, TypeOK, Request, Name
    <3>2. TypeOK' /\ Looking' /\ Readers'
      <4>1. /\ pipe' = pipe \/ pipe' = [pipe EXCEPT ![Name(victim)] = {}]
            /\ UNCHANGED <<storeVars, alive, strays, handles, leftover,
                           callVars, refreshVars>>
        BY <2>3 DEF EraseNext, RemoveFiles
      <4>2. pipe \in [Names -> SUBSET Calls]
        BY <2>0 DEF TypeOK
      <4>3. Readers'
        BY <2>0, <4>1, <4>2 DEF Readers, Name, callVars
      <4>4. TypeOK'
        BY <2>0, <3>1, <4>1 DEF TypeOK, StoreTypeOK
      <4> QED BY <2>0, <4>1, <4>3, <4>4 DEF Looking
    <3>3. (Doomed => Doomed') /\ (Calm => Calm')
      BY <2>3 DEF EraseNext, Doomed, Calm, Rpc, Name, Present
    <3>4. ShutdownTypeOK' /\ main' = "destroying" /\ main # "serving"
          /\ disturbed' = disturbed
      BY <2>0, <2>3 DEF EraseNext, ShutdownTypeOK
    <3> QED BY <3>2, <3>3, <3>4 DEF ShutdownInv
  <2>4. CASE StopServer \/ Exit \/ UNCHANGED allVars
    <3>1. /\ UNCHANGED <<vars, doomed, disturbed, victim>>
          /\ TypeOK' /\ Looking' /\ Readers'
      <4>1. UNCHANGED <<vars, doomed, disturbed, victim>>
        BY <2>4 DEF StopServer, Exit, allVars, mainVars
      <4> QED BY <2>0, <4>1, NextTyped, ReadersStep
    <3>2. /\ ManagerInv => ManagerInv'
          /\ Calm /\ Doomed => Calm' /\ Doomed'
      <4>1. ManagerInv => ManagerInv'
        BY <3>1, ManagerStep
      <4> QED BY <3>1, <4>1 DEF Calm, Doomed, Rpc, Name, Present
    <3>3. ShutdownTypeOK' /\ main' \in {"stopped", "exited", main}
          /\ (main' # main => main # "serving" /\ doomed = {})
      BY <2>0, <2>4 DEF StopServer, Exit, allVars, mainVars, ShutdownTypeOK,
                        ShutdownInv
    <3> QED BY <3>1, <3>2, <3>3 DEF ShutdownInv
  <2>5. CASE Watch \/ ProcessDies \/ \E c \in Calls : Arrive(c) \/ Work(c)
    <3>1. Next /\ TypeOK' /\ Looking' /\ Readers'
      <4>1. Next
        BY <2>5 DEF Watch, ProcessDies, Arrive, Work, Next
      <4> QED BY <2>0, <4>1, NextTyped, ReadersStep
    <3>2. /\ ShutdownTypeOK' /\ UNCHANGED <<main, doomed, victim>>
          /\ main # "serving" /\ ~ disturbed' => ~ disturbed
      BY <2>0, <2>5
      DEF Watch, ProcessDies, Arrive, Work, NoteChange, mainVars, ShutdownTypeOK
    <3>3. main = "serving" => ManagerInv'
      BY <3>1, ManagerStep DEF ShutdownInv
    <3>4. main # "serving" /\ ~ disturbed' => Calm' /\ Doomed'
      <4> SUFFICES ASSUME main # "serving", ~ disturbed' PROVE Calm' /\ Doomed'
        OBVIOUS
      <4>1. Calm /\ Doomed /\ doomed' = doomed
        BY <3>2 DEF ShutdownInv
      <4>2. \/ \E c \in Calls : Handle(c) \/ (Submit(c) /\ Changes' = {})
            \/ Refresh \/ Die
        BY <2>5 DEF Watch, ProcessDies, Arrive, Work, NoteChange
      <4> QED BY <2>0, <4>1, <4>2, CalmStep
    <3> QED BY <3>1, <3>2, <3>3, <3>4 DEF ShutdownInv
  <2>6. CASE StartAgain
    <3>1. TypeOK' /\ Looking'
      BY <2>0, <2>6, RefreshTyped DEF StartAgain
    <3>2. ManagerInv'
      <4>1. CallsInv' /\ ProcessInv' /\ PortsAccounted'
        BY <2>0, <2>6, <3>1, RestartCalls, RestartProcesses, RestartSlots
        DEF StartAgain, PortsAccounted
      <4>2. Leavings' /\ Readers'
        BY <2>0, <2>6, RestartLeavings DEF StartAgain
      <4> QED BY <3>1, <4>1, <4>2 DEF ManagerInv, SlotsInv
    <3>3. ShutdownTypeOK' /\ main' = "serving"
      BY <2>6 DEF StartAgain, ShutdownTypeOK
    <3> QED BY <3>1, <3>2, <3>3 DEF ShutdownInv, ManagerInv
  <2> QED BY <2>1, <2>2, <2>3, <2>4, <2>5, <2>6 DEF ShutdownNext
<1> QED BY <1>1, <1>2

(* A signal that meets nobody at work on an instance leaves nothing of     *)
(* this service running but strays of calls that failed, for every number  *)
(* of instances, workers and readers, in whatever state the records are    *)
(* and whatever dies meanwhile (shutdown_all_instances, cleanup.py, over   *)
(* EmulatorLifecycle.destroy).                                             *)
THEOREM ShutdownLeavesNothing ==
  ASSUME ClientsWait PROVE ShutdownSpec => []NothingOutlives
<1>1. ShutdownSpec => []ShutdownInv
  BY ShutdownStep, PTL DEF ShutdownSpec
<1>2. ShutdownInv => NothingOutlives
  BY DEF ShutdownInv, NothingOutlives, Doomed
<1> QED BY <1>1, <1>2, PTL
=============================================================================
