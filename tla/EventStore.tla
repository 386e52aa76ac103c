----------------------------- MODULE EventStore -----------------------------
(***************************************************************************)
(* The supervisor's in-memory event store and the threads that fill it     *)
(* (supervisor/src/event_store.py and its producers).                      *)
(*                                                                         *)
(* A producer thread - the log tailer, the watchdog, the MCP bridge, an    *)
(* input injector - builds an event around the current time in             *)
(* milliseconds and only then calls add_event, which appends under the     *)
(* store's lock.  Stamping and appending are two steps, so the list may be *)
(* out of timestamp order.  get_events filters the list by an inclusive    *)
(* lower bound, sorts the result by timestamp with Python's stable sort    *)
(* and keeps its first max_count elements.                                 *)
(*                                                                         *)
(* The list is a set of events that carry their position: it is only ever  *)
(* appended to.  Nothing is persisted: a supervisor that restarts holds    *)
(* the seed events again.                                                  *)
(***************************************************************************)
EXTENDS Integers, FiniteSets

CONSTANTS
  Producers,            \* threads that add events
  Bodies,               \* what an event may carry (the proto's oneof payload)
  SeedBody,             \* the payload of the hard-coded events
  SeedCount,            \* how many events are hard-coded (3 in the code)
  SupervisorMayRestart, \* whether the process may die and start again
  MaxClock,             \* bound: the last millisecond explored
  MaxAppends,           \* bound: events appended after the seed
  MaxPerStamp           \* bound: events that share one millisecond

ASSUME StoreAssumption ==
  /\ SeedBody \in Bodies
  /\ SeedCount \in Nat /\ MaxAppends \in Nat
  /\ MaxClock \in Nat /\ MaxClock > SeedCount
  /\ MaxPerStamp \in Nat
  /\ SupervisorMayRestart \in BOOLEAN

VARIABLES
  clock,     \* the wall clock, in milliseconds
  stamped,   \* events built by a producer and not yet appended
  events,    \* the list: events with their position
  appended   \* the position the next event will get, less one

storeVars == <<clock, stamped, events, appended>>

Event == [ts : Nat, pos : Nat, body : Bodies]
Stamped == [by : Producers, ts : Nat, body : Bodies]

(* The hard-coded events, 1, 2 and 3 seconds after the epoch: in order and *)
(* before any stamp.                                                       *)
Seed == {[ts |-> i, pos |-> i, body |-> SeedBody] : i \in 1..SeedCount}

-----------------------------------------------------------------------------
(* Every request that can tell two reachable lists apart.                  *)
Cursors == 0..MaxClock
Limits == 0..(SeedCount + MaxAppends)

(* Variant: a sort that puts the newer of two equal timestamps first.      *)
Before_Unstable(e, f) == e.ts < f.ts \/ (e.ts = f.ts /\ e.pos > f.pos)

(* The order of a stable sort by timestamp.                                *)
Before(e, f) == \/ e.ts < f.ts
                \/ e.ts = f.ts /\ e.pos < f.pos

(* Variant: one element too many.                                          *)
FirstOf_OneMore(S, n) == {e \in S : Cardinality({f \in S : Before(f, e)}) <= n}

(* The first n elements of S in that order.                                *)
FirstOf(S, n) == {e \in S : Cardinality({f \in S : Before(f, e)}) < n}

(* Variant: a bound that is off by one millisecond.                        *)
GetEvents_EarlyBound(since, n) == FirstOf({e \in events : e.ts + 1 >= since}, n)

(* get_events(since, n): the order within the answer is that of Before.    *)
GetEvents(since, n) == FirstOf({e \in events : e.ts >= since}, n)

-----------------------------------------------------------------------------
StoreInit ==
  /\ clock = SeedCount + 1
  /\ stamped = {}
  /\ events = Seed
  /\ appended = SeedCount

Tick ==
  /\ clock < MaxClock
  /\ clock' = clock + 1
  /\ UNCHANGED <<stamped, events, appended>>

(* A producer reads the clock and builds its event.                        *)
Stamp(p, b) ==
  /\ \A x \in stamped : x.by # p
  /\ appended + Cardinality(stamped) < SeedCount + MaxAppends
  /\ Cardinality({e \in events : e.ts = clock})
       + Cardinality({x \in stamped : x.ts = clock}) < MaxPerStamp
  /\ stamped' = stamped \cup {[by |-> p, ts |-> clock, body |-> b]}
  /\ UNCHANGED <<clock, events, appended>>

(* add_event: append under the lock.                                       *)
AddEvent(x) ==
  /\ x \in stamped
  /\ stamped' = stamped \ {x}
  /\ appended' = appended + 1
  /\ events' = events \cup
       {[ts |-> x.ts, pos |-> appended + 1, body |-> x.body]}
  /\ UNCHANGED clock

(* The process dies with its threads and its list; the new one starts from *)
(* the seed.  Positions go on, so that an event is never taken for one of  *)
(* an earlier process.                                                     *)
SupervisorRestart ==
  /\ SupervisorMayRestart
  /\ stamped' = {}
  /\ events' = Seed
  /\ UNCHANGED <<clock, appended>>

StoreNext ==
  \/ Tick
  \/ \E p \in Producers, b \in Bodies : Stamp(p, b)
  \/ \E x \in stamped : AddEvent(x)
  \/ SupervisorRestart

StoreSpec == StoreInit /\ [][StoreNext]_storeVars

-----------------------------------------------------------------------------
(* The shape of the state: events lie in the past and below the next       *)
(* position, and the seed is always among them.                            *)
StoreTypeOK ==
  /\ clock \in Nat
  /\ appended \in Nat
  /\ stamped \subseteq Stamped
  /\ events \subseteq Event
  /\ IsFiniteSet(events)
  /\ Seed \subseteq events
  /\ \A x \in stamped : x.ts <= clock
  /\ \A e \in events : e.ts <= clock /\ e.pos <= appended

(* A timestamp is settled when no event built so far can still be appended *)
(* with a smaller one.                                                     *)
Settled(t) == t <= clock /\ \A x \in stamped : t <= x.ts

(* Repeating a request never takes back a settled event: whatever the      *)
(* store appends in between, an event of the earlier answer is in the      *)
(* later one too, unless a producer was still holding an older event       *)
(* (event_store.py, get_events against add_event).                         *)
SettledStay ==
  events \subseteq events' =>
    \A since \in Cursors, n \in Limits :
      {e \in GetEvents(since, n) : Settled(e.ts)} \subseteq GetEvents(since, n)'

SettledAnswersStay == [][SettledStay]_storeVars

(* The list S as Python's stable sort by timestamp leaves it: q has every  *)
(* event once, and events of one timestamp stay in the order of appends.   *)
StableSort(q, S) ==
  /\ \A e \in S : \E i \in 1..Cardinality(S) : q[i] = e
  /\ \A i, j \in 1..Cardinality(S) : i < j =>
       /\ q[i].ts <= q[j].ts
       /\ q[i].ts = q[j].ts => q[i].pos < q[j].pos

Slice(q, n) == {q[i] : i \in {j \in DOMAIN q : j <= n}}

(* get_events answers what its four lines say, for every request to every  *)
(* reachable list, however many events share a timestamp and in whatever   *)
(* order they were appended: filter by the bound, sort stably by timestamp *)
(* and cut after n (event_store.py, get_events).                           *)
AnswerIsSortedPrefix ==
  \A since \in Cursors :
    LET filtered == {e \in events : e.ts >= since}
    IN  \E q \in [1..Cardinality(filtered) -> filtered] :
          /\ StableSort(q, filtered)
          /\ \A n \in Limits : GetEvents(since, n) = Slice(q, n)
=============================================================================
