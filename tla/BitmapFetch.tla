----------------------------- MODULE BitmapFetch -----------------------------
(***************************************************************************)
(* GetBitmap and ReconcileCache of sync_service.py over the supervisor's   *)
(* BitmapCacheTracker (bitmap_cache_tracker.py; mcp_bridge.BitmapStore     *)
(* only passes calls on).                                                  *)
(*                                                                         *)
(* GetBitmap may wait, on a worker thread of the server, for a bitmap that *)
(* is not there yet.  All waiters share one threading.Event, set by the    *)
(* producer after it has stored a bitmap and cleared by each waiter that   *)
(* comes back from its wait; set() notifies those that wait at that        *)
(* moment, whatever becomes of the flag before they run.                   *)
(***************************************************************************)
EXTENDS Integers, FiniteSets

CONSTANTS
  Calls,    \* RPCs, each one made once
  Clients,  \* peer addresses
  Keys,     \* cache keys
  Workers   \* _MAX_WORKERS (10)

ASSUME FetchAssumption == Workers \in Nat \ {0}

VARIABLES
  stored,   \* the keys of BitmapCacheTracker._bitmaps
  flag,     \* _new_bitmap_event
  putting,  \* store_bitmap has stored and not yet set the event
  sent,     \* BitmapCacheTracker._sent
  pc,       \* where the call's handler is, and its answer at the end
  request,  \* what it asks
  expired,  \* its deadline has passed
  gone      \* its client has cancelled it or lost the connection

trackerVars == <<stored, flag, putting, sent>>
callVars == <<pc, request, expired, gone>>
vars == <<trackerVars, callVars>>

(* wait: whether wait_ms is positive.                                      *)
Request == [rpc : {"GetBitmap"}, client : Clients, key : Keys, wait : BOOLEAN]
             \cup [rpc : {"ReconcileCache"}, client : Clients]

InHandler == {"look", "mark", "decide", "enter", "blocked", "woken"}
Answers == {"bitmap", "empty", "reconciled"}
Labels == {"unsent", "queued"} \cup InHandler \cup Answers

Running == {c \in Calls : pc[c] \in InHandler}
Fetches(c) == request[c].rpc = "GetBitmap"

Init ==
  /\ stored = {} /\ flag = FALSE /\ putting = FALSE
  /\ sent = [cl \in Clients |-> {}]
  /\ pc = [c \in Calls |-> "unsent"]
  /\ request \in [Calls -> Request]
  /\ expired = [c \in Calls |-> FALSE]
  /\ gone = [c \in Calls |-> FALSE]

At(c, label) == pc[c] = label
Goto(c, label) == pc' = [pc EXCEPT ![c] = label]

-----------------------------------------------------------------------------
(* McpBridge.on_bitmap_submitted stores a bitmap, new or submitted again,  *)
(* under the lock, ...                                                     *)
Put ==
  /\ ~ putting
  /\ \E k \in Keys : stored' = stored \cup {k}
  /\ putting' = TRUE
  /\ UNCHANGED <<flag, sent, callVars>>

(* ... and sets the event when it has left the lock.                       *)
SetEvent ==
  /\ putting
  /\ putting' = FALSE
  /\ flag' = TRUE
  /\ pc' = [c \in Calls |-> IF At(c, "blocked") THEN "woken" ELSE pc[c]]
  /\ UNCHANGED <<stored, sent, request, expired, gone>>

-----------------------------------------------------------------------------
(* A client sends a request, whatever else it has under way.               *)
Send(c) ==
  /\ At(c, "unsent")
  /\ Goto(c, "queued")
  /\ UNCHANGED <<trackerVars, request, expired, gone>>

(* A worker takes a GetBitmap.                                             *)
Begin(c) ==
  /\ At(c, "queued") /\ Fetches(c)
  /\ Cardinality(Running) < Workers
  /\ Goto(c, "look")
  /\ UNCHANGED <<trackerVars, request, expired, gone>>

(* A worker takes a ReconcileCache: one access to the tracker, whose set   *)
(* becomes what the client reports.  That is what its cache held when it   *)
(* asked: any keys, for the cache evicts and bitmaps are on their way.     *)
Reconcile(c) ==
  /\ At(c, "queued") /\ ~ Fetches(c)
  /\ Cardinality(Running) < Workers
  /\ \E present \in SUBSET Keys :
       sent' = [sent EXCEPT ![request[c].client] = present]
  /\ Goto(c, "reconciled")
  /\ UNCHANGED <<stored, flag, putting, request, expired, gone>>

(* The bitmap is looked up; ...                                            *)
Look(c) ==
  /\ At(c, "look")
  /\ Goto(c, IF request[c].key \in stored THEN "mark" ELSE "decide")
  /\ UNCHANGED <<trackerVars, request, expired, gone>>

(* ... when it is there it is marked as sent, in an access of its own, and *)
(* answered.                                                               *)
MarkSent(c) ==
  /\ At(c, "mark")
  /\ sent' = [sent EXCEPT ![request[c].client] = @ \cup {request[c].key}]
  /\ Goto(c, "bitmap")
  /\ UNCHANGED <<stored, flag, putting, request, expired, gone>>

(* No wait wanted, the deadline passed or the client gone: an empty        *)
(* answer.                                                                 *)
Decide(c) ==
  /\ At(c, "decide")
  /\ Goto(c, IF ~ request[c].wait \/ expired[c] \/ gone[c] THEN "empty"
                                                          ELSE "enter")
  /\ UNCHANGED <<trackerVars, request, expired, gone>>

(* Event.wait, when some time remains: it returns at once if the flag is   *)
(* set.                                                                    *)
EnterWait(c) ==
  /\ At(c, "enter")
  /\ Goto(c, CASE expired[c] -> "look"
               [] ~ expired[c] /\ flag -> "woken"
               [] ~ expired[c] /\ ~ flag -> "blocked")
  /\ UNCHANGED <<trackerVars, request, expired, gone>>

(* Variant: a wait that is over looks at its deadline before the bitmap.   *)
ClearEvent_DeadlineFirst(c) ==
  /\ At(c, "woken")
  /\ flag' = FALSE
  /\ Goto(c, "decide")
  /\ UNCHANGED <<stored, putting, sent, request, expired, gone>>

(* The wait is over: the event is cleared and the loop goes round.         *)
ClearEvent(c) ==
  /\ At(c, "woken")
  /\ flag' = FALSE
  /\ Goto(c, "look")
  /\ UNCHANGED <<stored, putting, sent, request, expired, gone>>

(* Variant: the wait has no timeout.                                       *)
Expire_NoTimeout(c) ==
  /\ c \in Running /\ ~ expired[c] /\ request[c].wait
  /\ expired' = [expired EXCEPT ![c] = TRUE]
  /\ UNCHANGED <<trackerVars, pc, request, gone>>

(* The deadline passes; a wait for it is over.                             *)
Expire(c) ==
  /\ c \in Running /\ ~ expired[c] /\ request[c].wait
  /\ expired' = [expired EXCEPT ![c] = TRUE]
  /\ pc' = IF At(c, "blocked") THEN [pc EXCEPT ![c] = "woken"] ELSE pc
  /\ UNCHANGED <<trackerVars, request, gone>>

(* The client goes away; nothing tells a handler that waits, and no other  *)
(* handler asks.                                                           *)
Leave(c) ==
  /\ c \in Running /\ ~ gone[c] /\ request[c].wait
  /\ gone' = [gone EXCEPT ![c] = TRUE]
  /\ UNCHANGED <<trackerVars, pc, request, expired>>

Handle(c) ==
  \/ Begin(c) \/ Reconcile(c) \/ Look(c) \/ MarkSent(c) \/ Decide(c)
  \/ EnterWait(c) \/ ClearEvent(c)

Next ==
  \/ Put
  \/ SetEvent
  \/ \E c \in Calls : Send(c) \/ Handle(c) \/ Expire(c) \/ Leave(c)

Spec == Init /\ [][Next]_vars

(* Threads run and time passes; nobody has to submit a bitmap or to call.  *)
Fairness ==
  /\ WF_vars(SetEvent)
  /\ \A c \in Calls : WF_vars(Handle(c)) /\ WF_vars(Expire(c))

FairSpec == Spec /\ Fairness

-----------------------------------------------------------------------------
(* The shape of the state.                                                 *)
TypeOK ==
  /\ stored \subseteq Keys
  /\ flag \in BOOLEAN /\ putting \in BOOLEAN
  /\ sent \in [Clients -> SUBSET Keys]
  /\ pc \in [Calls -> Labels]
  /\ request \in [Calls -> Request]
  /\ \A c \in Calls : ~ Fetches(c) => c \notin Running
  /\ expired \in [Calls -> BOOLEAN] /\ gone \in [Calls -> BOOLEAN]

(* Whatever becomes of its wake-up, a call that waits while its bitmap is  *)
(* stored answers with the bitmap and never with an empty answer.          *)
Waits(c) == At(c, "blocked") /\ request[c].key \in stored

StoredIsDelivered == \A c \in Calls : Waits(c) ~> At(c, "bitmap")

(* Every request is answered, in a pool that waiting calls may fill.       *)
EveryCallAnswered == \A c \in Calls : At(c, "queued") ~> pc[c] \in Answers

=============================================================================
