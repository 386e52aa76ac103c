--------------------------- MODULE EventProcessor ---------------------------
(***************************************************************************)
(* What the Android app does with one event (sync/EventProcessor.kt):      *)
(* texts and alerts go to lists, bitmaps to the LRU cache, and a display   *)
(* command moves the current display key, after asking for the bitmap when *)
(* the cache does not hold it.                                             *)
(*                                                                         *)
(* The lists are append-only and keep every event they are handed, also    *)
(* one they already hold: they are modelled by the set of events handed to *)
(* processEvent and the set of those handed to it again.  The cache is the *)
(* set of its keys; which keys it evicts, and when, is left open here.     *)
(***************************************************************************)
EXTENDS Integers, FiniteSets

CONSTANTS
  Keys,      \* bitmap cache keys
  NoKey,     \* currentDisplayKey before any display command
  CacheSize  \* entries the cache holds (64 in the code)

ASSUME ProcessorAssumption ==
  /\ NoKey \notin Keys
  /\ CacheSize \in Nat \ {0}

(* The payloads: WatchdogTimeout and InputDeliveryFailure are alerts, and  *)
(* an event without a payload the app knows is counted and dropped.        *)
Payloads ==
  [kind : {"text", "alert", "unknown"}] \cup [kind : {"bitmap", "display"}, key : Keys]

VARIABLES
  received,       \* events processed at least once since the app started
  repeated,       \* events processed more than once
  displayKey,     \* currentDisplayKey
  cached,         \* keys in the bitmap cache
  pendingFetches  \* keys waiting for an asynchronous fetch

processorVars == <<received, repeated, displayKey, cached, pendingFetches>>

ProcessorInit ==
  /\ received = {}
  /\ repeated = {}
  /\ displayKey = NoKey
  /\ cached = {}
  /\ pendingFetches = {}

(* BitmapCache.put: the new entry stays.  Others make room for it, for the *)
(* number of entries or for their bytes, whose sizes are left open.        *)
CachePut(k) ==
  \E kept \in SUBSET (cached \ {k}) :
    /\ Cardinality(kept) < CacheSize
    /\ cached' = kept \cup {k}

(* processEvent, one alternative per payload.  The app's processor fetches *)
(* what is missing (GrpcPollLoop constructs it with fetchEnabled).         *)
ProcessEvent(e) ==
  /\ received' = received \cup {e}
  /\ repeated' = IF e \in received THEN repeated \cup {e} ELSE repeated
  /\ \/ /\ e.body.kind \in {"text", "alert", "unknown"}
        /\ UNCHANGED <<displayKey, cached, pendingFetches>>
     \/ /\ e.body.kind = "bitmap"
        /\ CachePut(e.body.key)
        /\ UNCHANGED <<displayKey, pendingFetches>>
     \/ /\ e.body.kind = "display"
        /\ displayKey' = e.body.key
        /\ pendingFetches' = IF e.body.key \in cached THEN pendingFetches
                             ELSE pendingFetches \cup {e.body.key}
        /\ UNCHANGED cached

(* completeFetch: the fetch of k ended, with a bitmap or without.          *)
CompleteFetch(k) ==
  /\ k \in pendingFetches
  /\ pendingFetches' = pendingFetches \ {k}
  /\ \/ CachePut(k)
     \/ UNCHANGED cached
  /\ UNCHANGED <<received, repeated, displayKey>>

-----------------------------------------------------------------------------
(* The shape of the state: the cache never outgrows its size.              *)
ProcessorTypeOK ==
  /\ repeated \subseteq received
  /\ displayKey \in Keys \cup {NoKey}
  /\ cached \subseteq Keys
  /\ IsFiniteSet(cached)
  /\ Cardinality(cached) <= CacheSize
  /\ pendingFetches \subseteq Keys
=============================================================================
