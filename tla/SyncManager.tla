---------------------------- MODULE SyncManager -----------------------------
(***************************************************************************)
(* The Android app's polling loop over the event store:                    *)
(* connectivity/SyncManager.kt with its AdaptiveBatchConfig and            *)
(* ConnectionMonitor, EventProcessor on the app's side, EventStore and     *)
(* SyncService.GetEvents on the supervisor's.                              *)
(*                                                                         *)
(* poll() is a blocking call on one thread.  Its steps are the ones other  *)
(* threads and the network can fall between: the request leaves, the       *)
(* server answers from the list it has at that moment, the answer arrives  *)
(* or the call fails, and the events are processed one at a time.  The     *)
(* cursor moves when the last of them has been processed.                  *)
(***************************************************************************)
EXTENDS EventStore, EventProcessor

CONSTANTS
  StableCount,        \* stableMaxCount (50)
  ConservativeCount,  \* conservativeMaxCount (5)
  UpperCount,         \* maxUpperBound (200)
  AppMayRestart,      \* whether the app's process may die and start again
  NetworkMayFail      \* whether a call may fail

ASSUME SyncAssumption ==
  /\ StableCount \in Nat \ {0}
  /\ ConservativeCount \in 1..StableCount
  /\ UpperCount \in Nat /\ UpperCount >= StableCount
  /\ AppMayRestart \in BOOLEAN /\ NetworkMayFail \in BOOLEAN
  /\ Bodies \subseteq Payloads

VARIABLES
  pc,        \* where poll() is
  page,      \* events of the answer not yet processed
  since,     \* sinceTimestampMs
  maxCount,  \* batchConfig.maxCount
  streak,    \* batchConfig.successCountSinceReset, saturating
  conn,      \* monitor.state
  failing,   \* monitor.consecutiveFailures > 0
  flashed    \* monitor.wasRecentlyReconnected

clientVars == <<pc, page, since, maxCount, streak, conn, failing, flashed>>
vars == <<storeVars, processorVars, clientVars>>

AtMost(a, b) == IF a <= b THEN a ELSE b

(* RECONNECTING exists but nothing in the app calls onReconnectAttempt.    *)
ConnectionStates == {"CONNECTED", "DISCONNECTED"}

(* Bound: the streak stops counting once doubling has reached the stable   *)
(* size whatever it started from.                                          *)
MaxStreak == StableCount

-----------------------------------------------------------------------------
ClientInit ==
  /\ pc = "idle"
  /\ page = {}
  /\ since = 0
  /\ maxCount = StableCount
  /\ streak = 0
  /\ conn = "DISCONNECTED"
  /\ failing = FALSE
  /\ flashed = FALSE

Init == StoreInit /\ ProcessorInit /\ ClientInit

(* Variant: back to single events.                                         *)
OnReconnected_Single ==
  /\ maxCount' = 1
  /\ streak' = 0

(* AdaptiveBatchConfig                                                     *)
OnReconnected ==
  /\ maxCount' = ConservativeCount
  /\ streak' = 0

OnPollFailure == OnReconnected

OnSuccessfulPoll ==
  /\ streak' = AtMost(streak + 1, MaxStreak)
  /\ maxCount' = AtMost(IF maxCount < StableCount
                        THEN AtMost(maxCount * 2, StableCount)
                        ELSE maxCount, UpperCount)

(* ConnectionMonitor                                                       *)
OnRpcSuccess ==
  /\ conn' = "CONNECTED"
  /\ failing' = FALSE
  /\ flashed' = IF conn = "DISCONNECTED" THEN failing ELSE flashed

OnRpcFailure ==
  /\ conn' = "DISCONNECTED"
  /\ failing' = TRUE
  /\ UNCHANGED flashed

-----------------------------------------------------------------------------
(* poll() calls getEvents with the cursor and the batch size it has.       *)
SendRequest ==
  /\ pc = "idle"
  /\ pc' = "request"
  /\ UNCHANGED <<storeVars, processorVars,
                 page, since, maxCount, streak, conn, failing, flashed>>

(* SyncService.GetEvents on a worker thread of the server.                 *)
ServeGetEvents ==
  /\ pc = "request"
  /\ page' = GetEvents(since, maxCount)
  /\ pc' = "response"
  /\ UNCHANGED <<storeVars, processorVars,
                 since, maxCount, streak, conn, failing, flashed>>

(* The call fails - the request or the answer is lost, or the server is    *)
(* away - and poll() catches the StatusRuntimeException.                   *)
CallFails ==
  /\ NetworkMayFail
  /\ pc \in {"request", "response"}
  /\ OnRpcFailure
  /\ OnPollFailure
  /\ page' = {}
  /\ pc' = "idle"
  /\ UNCHANGED <<storeVars, processorVars, since>>

(* Variant: wasDisconnected is read after onRpcSuccess.                    *)
ReceiveResponse_LateRead ==
  /\ pc = "response"
  /\ OnRpcSuccess
  /\ OnSuccessfulPoll
  /\ pc' = IF page = {} THEN "idle" ELSE "process"
  /\ UNCHANGED <<storeVars, processorVars, page, since>>

(* The answer arrives: the state before onRpcSuccess decides between       *)
(* onReconnected and onSuccessfulPoll.                                     *)
ReceiveResponse ==
  /\ pc = "response"
  /\ OnRpcSuccess
  /\ \/ conn # "CONNECTED" /\ OnReconnected
     \/ conn = "CONNECTED" /\ OnSuccessfulPoll
  /\ pc' = IF page = {} THEN "idle" ELSE "process"
  /\ UNCHANGED <<storeVars, processorVars, page, since>>

(* Variant: the cursor excludes the last event's timestamp.                *)
ProcessNext_Exclusive ==
  /\ pc = "process"
  /\ \E e \in page :
       /\ \A f \in page \ {e} : Before(e, f)
       /\ ProcessEvent(e)
       /\ page' = page \ {e}
       /\ \/ page # {e} /\ UNCHANGED <<since, pc>>
          \/ page = {e} /\ since' = e.ts + 1 /\ pc' = "idle"
  /\ UNCHANGED <<storeVars, maxCount, streak, conn, failing, flashed>>

(* Variant: the answer is processed newest event first.                    *)
ProcessNext_NewestFirst ==
  /\ pc = "process"
  /\ \E e \in page :
       /\ \A f \in page \ {e} : Before(f, e)
       /\ ProcessEvent(e)
       /\ page' = page \ {e}
       /\ since' = IF e.ts > since THEN e.ts ELSE since
       /\ pc' = IF page = {e} THEN "idle" ELSE pc
  /\ UNCHANGED <<storeVars, maxCount, streak, conn, failing, flashed>>

(* processEvents hands over the next event; after the last one poll()      *)
(* takes its timestamp as the cursor.                                      *)
ProcessNext ==
  /\ pc = "process"
  /\ \E e \in page :
       /\ \A f \in page \ {e} : Before(e, f)
       /\ ProcessEvent(e)
       /\ page' = page \ {e}
       /\ \/ page # {e} /\ UNCHANGED <<since, pc>>
          \/ page = {e} /\ since' = e.ts /\ pc' = "idle"
  /\ UNCHANGED <<storeVars, maxCount, streak, conn, failing, flashed>>

(* The app is killed and started again; none of its state is persisted.    *)
AppRestart ==
  /\ AppMayRestart
  /\ pc' = "idle" /\ page' = {} /\ since' = 0
  /\ maxCount' = StableCount /\ streak' = 0
  /\ conn' = "DISCONNECTED" /\ failing' = FALSE /\ flashed' = FALSE
  /\ received' = {} /\ repeated' = {} /\ displayKey' = NoKey
  /\ cached' = {} /\ pendingFetches' = {}
  /\ UNCHANGED storeVars

FetchDone ==
  /\ \E k \in Keys : CompleteFetch(k)
  /\ UNCHANGED <<storeVars, clientVars>>

StoreStep == StoreNext /\ UNCHANGED <<processorVars, clientVars>>

Next ==
  \/ StoreStep
  \/ SendRequest
  \/ ServeGetEvents
  \/ CallFails
  \/ ReceiveResponse
  \/ ProcessNext
  \/ FetchDone
  \/ AppRestart

Spec == Init /\ [][Next]_vars

(* The loop polls again and again, a call that keeps being retried reaches *)
(* the server and comes back at times, and the app's thread runs.  Nothing *)
(* is asked of producers, fetches or restarts.                             *)
Fairness ==
  /\ WF_vars(SendRequest)
  /\ SF_vars(ServeGetEvents)
  /\ SF_vars(ReceiveResponse)
  /\ WF_vars(ProcessNext)

FairSpec == Spec /\ Fairness

(* The feed that the store and the loop are as long as one producer fills  *)
(* the store.                                                              *)
Feed == INSTANCE EventFeed WITH
          Initial <- SeedCount,
          held <- {e.pos : e \in events},
          last <- appended,
          read <- {e.pos : e \in received}

-----------------------------------------------------------------------------
(* The shape of the state: processed and unprocessed events are events of  *)
(* the store's positions, and batch sizes stay in their range.             *)
ClientTypeOK ==
  /\ received \subseteq Event /\ page \subseteq Event
  /\ pc \in {"idle", "request", "response", "process"}
  /\ since \in Nat
  /\ maxCount \in 1..StableCount
  /\ streak \in 0..MaxStreak
  /\ conn \in ConnectionStates
  /\ failing \in BOOLEAN /\ flashed \in BOOLEAN

TypeOK == StoreTypeOK /\ ProcessorTypeOK /\ ClientTypeOK

(* e was appended after f although it had been stamped before it.          *)
Overtaken(e, R) == \E f \in R : f.pos < e.pos /\ f.ts > e.ts

(* The cursor passes over no event of the store, whatever calls fail and   *)
(* whichever process restarts - except one that a slow producer appended   *)
(* after a younger event the app had already received (SyncManager.poll's  *)
(* cursor against EventStore.add_event's order).                           *)
OnlyOvertakenAreLost ==
  \A e \in events :
    (e.ts < since /\ e \notin received) => Overtaken(e, received)

(* The cursor is a timestamp the app has processed, and only a restart of  *)
(* the app takes it back: a lost answer, a retry or a restarted supervisor *)
(* never does.                                                             *)
CursorNeverBack ==
  [][since' < since => since' = 0 /\ received' = {}]_vars

(* Redelivery stops at one millisecond: an event the app processes a second *)
(* time carries the timestamp of the cursor.  An answer processed once is   *)
(* not asked for again, whatever fails in between (the app keeps no record  *)
(* of what it has, and its lists grow by every repetition).                 *)
OnlyCursorIsRepeated ==
  [][\A e \in repeated' \ repeated : e.ts = since]_vars

(* Between polls the display key is the one of the newest display command  *)
(* the app has received: redelivered commands never bring an older one     *)
(* back - unless more events of that command's millisecond came than the   *)
(* smallest batch holds, so that an answer can repeat the older of them    *)
(* and stop (SyncManager.poll, AdaptiveBatchConfig and EventProcessor over *)
(* get_events).                                                            *)
Displays(R) == {e \in R : e.body.kind = "display"}
Crowded(t) == Cardinality({f \in received : f.ts = t}) > ConservativeCount

DisplayIsNewest ==
  pc \in {"idle", "request", "response"} =>
    \A e \in Displays(received) :
      (\A f \in Displays(received) : f = e \/ Before(f, e)) =>
        displayKey = e.body.key \/ Crowded(e.ts)

(* The batch size is what the consecutive successes since the last failure *)
(* allow, and conservative after a failure (AdaptiveBatchConfig driven by  *)
(* ConnectionMonitor, two objects that keep no common state).              *)
Doubled[n \in Nat] == IF n = 0 THEN ConservativeCount ELSE 2 * Doubled[n - 1]

BatchFollowsConnection ==
  /\ conn = "CONNECTED" => maxCount = AtMost(Doubled[streak], StableCount)
  /\ conn # "CONNECTED" =>
       maxCount = IF failing THEN ConservativeCount ELSE StableCount

(* An answer brings something new as long as there is anything new at or   *)
(* after the cursor and the cursor's own millisecond does not fill the     *)
(* batch: in no other way can the loop be fed the same page again and      *)
(* again, however far the batch has shrunk (SyncManager.poll's inclusive   *)
(* cursor against the cut of get_events).                                  *)
RoomForNews == Cardinality({e \in events : e.ts = since}) < maxCount

AnswersBringNews ==
  [][pc = "request" /\ pc' = "response" /\ RoomForNews =>
       \A e \in events : e.ts >= since /\ e \notin received =>
         \E f \in page' : f \notin received]_vars

(* Every event the store holds is received in the end, unless the          *)
(* supervisor's memory is lost first.                                      *)
Stored(p) == \E e \in events : e.pos = p
Has(p) == \E e \in received : e.pos = p

EventuallyReceived ==
  \A p \in 1..(SeedCount + MaxAppends) :
    Stored(p) ~> (Has(p) \/ ~ Stored(p))
=============================================================================
