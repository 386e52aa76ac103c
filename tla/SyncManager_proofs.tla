------------------------- MODULE SyncManager_proofs -------------------------
(***************************************************************************)
(* The event store and the polling loop over it: type correctness; answers *)
(* change only below what producers still hold; the loop loses no event    *)
(* but one that was overtaken on its way into the store, repeats none but  *)
(* those at its cursor, shows the newest display command it has, and with  *)
(* one producer reads the store as a feed.                                 *)
(***************************************************************************)
EXTENDS SyncManager, FiniteSetTheorems, WellFoundedInduction, TLAPS

(* The hard-coded list is finite: it is the image of 1..SeedCount.         *)
LEMMA SeedFinite == IsFiniteSet(Seed)
<1> DEFINE at == [i \in 1..SeedCount |->
                    [ts |-> i, pos |-> i, body |-> SeedBody]]
<1>1. IsFiniteSet(1..SeedCount)
  BY FS_Interval, StoreAssumption
<1>2. at \in Surjection(1..SeedCount, Seed)
  BY DEF Surjection, Seed
<1> QED
  BY <1>1, <1>2, FS_Surjection

LEMMA SeedIsEvents == Seed \subseteq Event
  BY StoreAssumption DEF Seed, Event

(* FirstOf keeps what nothing new precedes: it depends on the elements     *)
(* before e only.                                                          *)
LEMMA FirstOfKeeps ==
  ASSUME NEW S, NEW T, NEW n, NEW e \in FirstOf(S, n), e \in T,
         \A f \in S : Before(f, e) => f \in T,
         \A f \in T : Before(f, e) => f \in S
  PROVE  e \in FirstOf(T, n)
<1>1. {f \in T : Before(f, e)} = {f \in S : Before(f, e)}
  OBVIOUS
<1> QED
  BY <1>1 DEF FirstOf

-----------------------------------------------------------------------------
(* The type invariant holds of the list a new process starts with.         *)
LEMMA StoreTypeInit == StoreInit => StoreTypeOK
<1> SUFFICES ASSUME StoreInit PROVE StoreTypeOK
  OBVIOUS
<1>1. \A e \in Seed : e.ts <= clock /\ e.pos <= appended
  BY StoreAssumption DEF StoreInit, Seed
<1>2. clock \in Nat /\ appended \in Nat
  BY StoreAssumption DEF StoreInit
<1> QED
  BY <1>1, <1>2, SeedFinite, SeedIsEvents DEF StoreInit, StoreTypeOK

(* Every step of the store preserves it, whoever takes it.                 *)
LEMMA StoreTypeStep == StoreTypeOK /\ [StoreNext]_storeVars => StoreTypeOK'
<1> SUFFICES ASSUME StoreTypeOK, [StoreNext]_storeVars PROVE StoreTypeOK'
  OBVIOUS
<1> USE DEF StoreTypeOK
<1>1. CASE Tick
  <2>1. /\ \A x \in stamped : x.ts <= clock + 1
        /\ \A e \in events : e.ts <= clock + 1
    BY DEF Event, Stamped
  <2> QED
    BY <1>1, <2>1 DEF Tick, Seed
<1>2. ASSUME NEW p \in Producers, NEW b \in Bodies, Stamp(p, b)
      PROVE  StoreTypeOK'
  <2>1. [by |-> p, ts |-> clock, body |-> b] \in Stamped
    BY DEF Stamped
  <2>2. stamped' \subseteq Stamped /\ \A x \in stamped' : x.ts <= clock
    BY <1>2, <2>1 DEF Stamp
  <2> QED
    BY <1>2, <2>2 DEF Stamp
<1>3. ASSUME NEW x \in stamped, AddEvent(x)
      PROVE  StoreTypeOK'
  <2> DEFINE new == [ts |-> x.ts, pos |-> appended + 1, body |-> x.body]
  <2>1. new \in Event /\ new.ts <= clock /\ new.pos = appended + 1
    BY DEF Stamped, Event
  <2>2. events' = events \cup {new}
    BY <1>3 DEF AddEvent
  <2>3. IsFiniteSet(events')
    BY <2>2, FS_AddElement
  <2>4. /\ clock' = clock /\ appended' = appended + 1
        /\ stamped' \subseteq stamped
    BY <1>3 DEF AddEvent
  <2> HIDE DEF new
  <2>5. /\ events' \subseteq Event
        /\ \A e \in events' : e.ts <= clock /\ e.pos <= appended + 1
    <3>1. \A e \in events : e.pos \in Nat
      BY DEF Event
    <3> QED
      BY <2>1, <2>2, <3>1
  <2> QED
    BY <2>2, <2>3, <2>4, <2>5 DEF Seed
<1>4. CASE SupervisorRestart
  <2>1. \A e \in Seed : e.ts <= clock /\ e.pos <= appended
    OBVIOUS
  <2> QED
    BY <1>4, <2>1, SeedFinite, SeedIsEvents DEF SupervisorRestart, Seed
<1>5. CASE UNCHANGED storeVars
  BY <1>5 DEF storeVars, Seed
<1> QED
  BY <1>1, <1>2, <1>3, <1>4, <1>5 DEF StoreNext

(* The type invariant holds for every number of producers, seeds and       *)
(* appends: nothing is stamped in the future and positions stay below the  *)
(* counter (event_store.py, and the producers' clock reads).               *)
THEOREM StoreTypeCorrect == StoreSpec => []StoreTypeOK
<1> QED
  BY StoreTypeInit, StoreTypeStep, PTL DEF StoreSpec

-----------------------------------------------------------------------------
(* No append takes a settled event out of an answer: a request can be      *)
(* repeated safely as far as no producer is still holding an older event   *)
(* (get_events against add_event).                                         *)
THEOREM SettledAnswersStayCorrect == StoreSpec => SettledAnswersStay
<1>1. ASSUME StoreTypeOK, [StoreNext]_storeVars, events \subseteq events',
             NEW low \in Cursors, NEW n \in Limits,
             NEW e \in GetEvents(low, n), Settled(e.ts)
      PROVE  e \in GetEvents(low, n)'
  <2> DEFINE S == {f \in events : f.ts >= low}
             T == {f \in events' : f.ts >= low}
  <2>1. e \in FirstOf(S, n) /\ e \in S /\ e \in events
    BY <1>1 DEF GetEvents, FirstOf
  <2>2. CASE events' = events
    BY <1>1, <2>2 DEF GetEvents, FirstOf, Before
  <2>3. ASSUME NEW x \in stamped, AddEvent(x)
        PROVE  e \in FirstOf(T, n)
    <3> DEFINE new == [ts |-> x.ts, pos |-> appended + 1, body |-> x.body]
    <3>1. events' = events \cup {new}
      BY <2>3 DEF AddEvent
    <3>2. e.ts \in Nat /\ e.pos \in Nat /\ e.pos <= appended /\ appended \in Nat
      BY <1>1, <2>1 DEF StoreTypeOK, Event
    <3>3. x.ts \in Nat /\ e.ts <= x.ts
      BY <1>1 DEF StoreTypeOK, Stamped, Settled
    <3>4. ~ Before(new, e)
      BY <3>2, <3>3 DEF Before
    <3> HIDE DEF new
    <3>5. \A f \in T : Before(f, e) => f \in S
      BY <3>1, <3>4
    <3>6. e \in T /\ \A f \in S : f \in T
      BY <3>1, <2>1
    <3> HIDE DEF S, T
    <3> QED
      BY <2>1, <3>5, <3>6, FirstOfKeeps
  <2>4. CASE SupervisorRestart
    <3>1. events' = events
      BY <1>1, <2>4 DEF SupervisorRestart, StoreTypeOK
    <3> QED
      BY <2>2, <3>1
  <2>5. CASE Tick \/ (\E p \in Producers, b \in Bodies : Stamp(p, b))
                  \/ UNCHANGED storeVars
    BY <2>2, <2>5 DEF Tick, Stamp, storeVars
  <2>6. e \in FirstOf(T, n) => e \in GetEvents(low, n)'
    BY DEF GetEvents, FirstOf, Before
  <2> QED
    BY <1>1, <2>3, <2>4, <2>5, <2>6 DEF StoreNext
<1>2. StoreTypeOK /\ [StoreNext]_storeVars => [SettledStay]_storeVars
  BY <1>1 DEF SettledStay
<1> QED
  BY <1>2, StoreTypeCorrect, PTL DEF StoreSpec, SettledAnswersStay

-----------------------------------------------------------------------------
(* What is in the list beside its shape: positions are unique, and nothing *)
(* is stamped as early as the seed.                                        *)
ListInv ==
  /\ SeedCount <= appended /\ SeedCount < clock
  /\ IsFiniteSet(stamped)
  /\ \A x \in stamped : x.ts > SeedCount
  /\ \A e \in events : e \in Seed \/ e.ts > SeedCount
  /\ \A e, f \in events : e.pos = f.pos => e = f

LEMMA SeedFields ==
  ASSUME NEW e \in Seed
  PROVE  e.ts \in 1..SeedCount /\ e.pos = e.ts
         /\ \A f \in Seed : f.pos = e.pos => f = e
  BY DEF Seed

LEMMA ListInit == StoreInit => ListInv
<1> SUFFICES ASSUME StoreInit PROVE ListInv
  OBVIOUS
<1>1. \A e, f \in events : e.pos = f.pos => e = f
  BY SeedFields DEF StoreInit
<1> QED
  BY <1>1, StoreAssumption, FS_EmptySet DEF StoreInit, ListInv

LEMMA ListStep ==
  StoreTypeOK /\ ListInv /\ [StoreNext]_storeVars => ListInv'
<1> SUFFICES ASSUME StoreTypeOK, ListInv, [StoreNext]_storeVars
             PROVE  ListInv'
  OBVIOUS
<1> USE StoreAssumption DEF ListInv
<1>0. Seed' = Seed
  BY DEF Seed
<1>1. CASE Tick
  BY <1>0, <1>1 DEF Tick, StoreTypeOK
<1>2. ASSUME NEW p \in Producers, NEW b \in Bodies, Stamp(p, b)
      PROVE  ListInv'
  <2> DEFINE x == [by |-> p, ts |-> clock, body |-> b]
  <2>1. /\ stamped' = stamped \cup {x} /\ x.ts = clock
        /\ UNCHANGED <<clock, events, appended>>
    BY <1>2 DEF Stamp
  <2> HIDE DEF x
  <2>2. IsFiniteSet(stamped')
    BY <2>1, FS_AddElement
  <2> QED
    BY <1>0, <2>1, <2>2
<1>3. ASSUME NEW x \in stamped, AddEvent(x)
      PROVE  ListInv'
  <2> DEFINE new == [ts |-> x.ts, pos |-> appended + 1, body |-> x.body]
  <2>1. new.pos = appended + 1 /\ new.ts > SeedCount
    OBVIOUS
  <2>2. /\ events' = events \cup {new} /\ appended' = appended + 1
        /\ stamped' = stamped \ {x} /\ clock' = clock
    BY <1>3 DEF AddEvent
  <2>3. \A e \in events : e.pos \in Nat /\ e.pos <= appended
    BY DEF StoreTypeOK, Event
  <2>4. IsFiniteSet(stamped')
    BY <2>2, FS_RemoveElement
  <2> HIDE DEF new
  <2>5. \A e, f \in events' : e.pos = f.pos => e = f
    BY <2>1, <2>2, <2>3 DEF StoreTypeOK
  <2> QED
    BY <1>0, <2>1, <2>2, <2>4, <2>5 DEF StoreTypeOK
<1>4. CASE SupervisorRestart
  <2>1. \A e, f \in Seed : e.pos = f.pos => e = f
    BY SeedFields
  <2> QED
    BY <1>0, <1>4, <2>1, FS_EmptySet DEF SupervisorRestart
<1>5. CASE UNCHANGED storeVars
  BY <1>0, <1>5 DEF storeVars
<1> QED
  BY <1>1, <1>2, <1>3, <1>4, <1>5 DEF StoreNext

-----------------------------------------------------------------------------
(* Every answer is made of stored events at or after the cursor.           *)
LEMMA AnswerIsStored ==
  ASSUME NEW s, NEW n
  PROVE  GetEvents(s, n) \subseteq {e \in events : e.ts >= s}
  BY DEF GetEvents, FirstOf

(* A prefix in the order of Before has no gap.                             *)
LEMMA AnswerHasNoGap ==
  ASSUME NEW s, NEW n \in Nat, events \subseteq Event, IsFiniteSet(events),
         NEW r \in GetEvents(s, n),
         NEW e \in events, e.ts >= s, Before(e, r)
  PROVE  e \in GetEvents(s, n)
<1> DEFINE S == {f \in events : f.ts >= s}
           below(x) == {f \in S : Before(f, x)}
<1>1. below(e) \subseteq below(r)
  BY DEF Before, Event, GetEvents, FirstOf
<1>2. IsFiniteSet(S) /\ IsFiniteSet(below(r))
  <2>1. S \in SUBSET events /\ below(r) \in SUBSET events
    OBVIOUS
  <2> QED
    BY <2>1, FS_Subset
<1>3. /\ Cardinality(below(e)) <= Cardinality(below(r))
      /\ Cardinality(below(e)) \in Nat /\ Cardinality(below(r)) \in Nat
  BY <1>1, <1>2, FS_Subset, FS_CardinalityType
<1>4. Cardinality(below(r)) < n /\ r \in S
  BY DEF GetEvents, FirstOf
<1>5. Cardinality(below(e)) < n
  BY <1>3, <1>4
<1> QED
  BY <1>5 DEF GetEvents, FirstOf

(* An event's place in the order: how many of the set precede it.  It      *)
(* grows with the order and stays below the number of events.              *)
Rank(S, e) == Cardinality({f \in S : Before(f, e)})

LEMMA RankGrows ==
  ASSUME NEW S, S \subseteq Event, IsFiniteSet(S), NEW e \in S
  PROVE  /\ Cardinality(S) \in Nat
         /\ Rank(S, e) \in Nat /\ Rank(S, e) < Cardinality(S)
         /\ \A f \in S : Before(e, f) => Rank(S, e) < Rank(S, f)
<1> DEFINE below(x) == {f \in S : Before(f, x)}
           k == Cardinality(S)
<1>0. k \in Nat
  BY FS_CardinalityType
<1>1. ASSUME NEW x \in S
      PROVE  IsFiniteSet(below(x)) /\ Rank(S, x) \in Nat /\ Rank(S, x) < k
  <2>1. below(x) \in SUBSET (S \ {x})
    BY DEF Before, Event
  <2>2. IsFiniteSet(S \ {x}) /\ Cardinality(S \ {x}) = k - 1
    BY FS_RemoveElement
  <2>3. /\ IsFiniteSet(below(x)) /\ Cardinality(below(x)) \in Nat
        /\ Cardinality(below(x)) <= k - 1
    <3> HIDE DEF below, k
    <3> QED
      BY <2>1, <2>2, FS_Subset, FS_CardinalityType
  <2>4. Rank(S, x) = Cardinality(below(x))
    BY DEF Rank
  <2> HIDE DEF below, k
  <2> QED
    BY <1>0, <2>3, <2>4
<1>2. ASSUME NEW f \in S, Before(e, f)
      PROVE  Rank(S, e) < Rank(S, f)
  <2> DEFINE up == below(e) \cup {e}
  <2>1. up \in SUBSET below(f) /\ e \notin below(e)
    BY <1>2 DEF Before, Event
  <2>2. IsFiniteSet(below(e)) /\ IsFiniteSet(below(f))
    BY <1>1
  <2>3. Cardinality(up) = Cardinality(below(e)) + 1
    <3> HIDE DEF below
    <3> QED
      BY <2>1, <2>2, FS_AddElement
  <2>4. Cardinality(up) <= Cardinality(below(f))
    <3> HIDE DEF below, up
    <3> QED
      BY <2>1, <2>2, FS_Subset
  <2>5. Rank(S, e) = Cardinality(below(e)) /\ Rank(S, f) = Cardinality(below(f))
    BY DEF Rank
  <2>6. Rank(S, e) \in Nat /\ Rank(S, f) \in Nat
    BY <1>1
  <2> HIDE DEF below, up
  <2> QED
    BY <2>3, <2>4, <2>5, <2>6
<1> HIDE DEF below, k
<1>3. Rank(S, e) \in Nat /\ Rank(S, e) < k
  BY <1>1
<1> QED
  BY <1>0, <1>2, <1>3 DEF k

(* So two events of one rank are one, if positions are unique.             *)
LEMMA RankIsUnique ==
  ASSUME NEW S, S \subseteq Event, IsFiniteSet(S),
         \A e, f \in S : e.pos = f.pos => e = f,
         NEW e \in S, NEW f \in S, Rank(S, e) = Rank(S, f)
  PROVE  e = f
<1>1. Before(e, f) \/ Before(f, e) \/ e.pos = f.pos
  BY DEF Before, Event
<1>2. /\ Rank(S, e) \in Nat /\ Rank(S, f) \in Nat
      /\ Before(e, f) => Rank(S, e) < Rank(S, f)
      /\ Before(f, e) => Rank(S, f) < Rank(S, e)
  BY RankGrows
<1> QED
  BY <1>1, <1>2

(* How many events an answer holds: the ranks of a set of n events are n   *)
(* different numbers below n, so every such number is one of them.         *)
LEMMA EveryRankTaken ==
  ASSUME NEW S, S \subseteq Event, IsFiniteSet(S),
         \A e, f \in S : e.pos = f.pos => e = f,
         NEW i \in Nat, i < Cardinality(S)
  PROVE  \E e \in S : Rank(S, e) = i
<1> DEFINE k == Cardinality(S)
           rank == [e \in S |-> Rank(S, e)]
<1>0. k \in Nat
  BY FS_CardinalityType
<1>1. \A e \in S : Rank(S, e) \in 0..(k - 1)
  <2> SUFFICES ASSUME NEW e \in S PROVE Rank(S, e) \in 0..(k - 1)
    OBVIOUS
  <2>1. Rank(S, e) \in Nat /\ Rank(S, e) < k
    BY RankGrows
  <2> HIDE DEF k
  <2> QED
    BY <1>0, <2>1
<1>2. rank \in Injection(S, 0..(k - 1))
  BY <1>1, RankIsUnique DEF Injection, IsInjective
<1>3. IsFiniteSet(0..(k - 1)) /\ Cardinality(0..(k - 1)) = k
  <2> HIDE DEF k
  <2> QED
    BY <1>0, FS_Interval
<1>4. rank \in Surjection(S, 0..(k - 1))
  <2> HIDE DEF rank
  <2> QED
    BY <1>2, <1>3, FS_Injection
<1>5. i \in 0..(k - 1)
  BY <1>0
<1> QED
  BY <1>4, <1>5 DEF Surjection

-----------------------------------------------------------------------------
(* The events at or after a bound, and the order that positions make of    *)
(* stable sorting: by timestamp, then by position.                         *)
AtOrAfter(low) == {e \in events : e.ts >= low}

SortedList(q, S) ==
  /\ q \in Surjection(1..Cardinality(S), S)
  /\ \A i, j \in 1..Cardinality(S) : i < j => Before(q[i], q[j])

LEMMA SortedListExists ==
  ASSUME NEW S, S \subseteq Event, IsFiniteSet(S),
         \A e, f \in S : e.pos = f.pos => e = f
  PROVE  \E q : /\ SortedList(q, S)
                /\ \A i \in 1..Cardinality(S) : Rank(S, q[i]) = i - 1
<1> DEFINE k == Cardinality(S)
           q == [i \in 1..k |-> CHOOSE e \in S : Rank(S, e) = i - 1]
<1>0. k \in Nat
  BY FS_CardinalityType
<1>1. ASSUME NEW i \in 1..k
      PROVE  q[i] \in S /\ Rank(S, q[i]) = i - 1
  <2>1. i - 1 \in Nat /\ i - 1 < k
    BY <1>0
  <2>2. \E e \in S : Rank(S, e) = i - 1
    BY <2>1, EveryRankTaken
  <2> QED
    BY <2>2
<1>2. ASSUME NEW e \in S
      PROVE  \E i \in 1..k : q[i] = e
  <2> DEFINE i == Rank(S, e) + 1
  <2>1. Rank(S, e) \in Nat /\ Rank(S, e) < k
    BY RankGrows
  <2>2. i \in 1..k /\ i - 1 = Rank(S, e)
    <3> HIDE DEF k
    <3> QED
      BY <1>0, <2>1
  <2> HIDE DEF i, k, q
  <2>3. q[i] \in S /\ Rank(S, q[i]) = Rank(S, e)
    BY <1>1, <2>2
  <2>4. q[i] = e
    BY <2>3, RankIsUnique
  <2> QED
    BY <2>2, <2>4
<1>3. ASSUME NEW i \in 1..k, NEW j \in 1..k, i < j
      PROVE  Before(q[i], q[j])
  <2> HIDE DEF q, k
  <2>1. /\ q[i] \in S /\ q[j] \in S
        /\ Rank(S, q[i]) = i - 1 /\ Rank(S, q[j]) = j - 1
    BY <1>1
  <2>2. Before(q[i], q[j]) \/ Before(q[j], q[i]) \/ q[i] = q[j]
    BY <2>1 DEF Before, Event
  <2>3. ~ (Rank(S, q[j]) < Rank(S, q[i])) /\ q[i] # q[j]
    BY <1>0, <1>3, <2>1
  <2> QED
    BY <2>1, <2>2, <2>3, RankGrows
<1>4. q \in [1..k -> S]
  BY <1>1
<1> HIDE DEF q
<1>5. SortedList(q, S)
  BY <1>2, <1>3, <1>4 DEF SortedList, Surjection
<1> QED
  BY <1>1, <1>5

(* For every request, whatever its bound and its size, one list gives all  *)
(* answers.                                                                *)
LEMMA AnswerIsSlice ==
  ASSUME StoreTypeOK, ListInv, NEW low \in Nat
  PROVE  \E q \in [1..Cardinality(AtOrAfter(low)) -> AtOrAfter(low)] :
           /\ StableSort(q, AtOrAfter(low))
           /\ \A n \in Nat : GetEvents(low, n) = Slice(q, n)
<1> DEFINE S == AtOrAfter(low)
           k == Cardinality(S)
<1>1. /\ S \subseteq Event /\ IsFiniteSet(S)
      /\ \A e, f \in S : e.pos = f.pos => e = f
  BY FS_Subset DEF AtOrAfter, StoreTypeOK, ListInv
<1>2. \A n \in Nat : GetEvents(low, n) = {e \in S : Rank(S, e) < n}
  BY DEF GetEvents, FirstOf, AtOrAfter, Rank
<1> HIDE DEF S
<1>3. PICK q : SortedList(q, S) /\ \A i \in 1..k : Rank(S, q[i]) = i - 1
  BY <1>1, SortedListExists
<1>4. k \in Nat
  BY <1>1, FS_CardinalityType
<1>5. q \in [1..k -> S] /\ \A e \in S : \E i \in 1..k : q[i] = e
  BY <1>3 DEF SortedList, Surjection
<1>6. \A i, j \in 1..k : i < j => Before(q[i], q[j])
  BY <1>3 DEF SortedList
<1> HIDE DEF k
<1>7. StableSort(q, S)
  <2>1. ASSUME NEW i \in 1..k, NEW j \in 1..k, i < j
        PROVE  q[i].ts <= q[j].ts /\ (q[i].ts = q[j].ts => q[i].pos < q[j].pos)
    BY <1>1, <1>5, <1>6, <2>1 DEF Before, Event
  <2> QED
    BY <1>5, <2>1 DEF StableSort, k
<1>8. ASSUME NEW n \in Nat
      PROVE  {e \in S : Rank(S, e) < n} = Slice(q, n)
  <2>1. ASSUME NEW e \in S, Rank(S, e) < n
        PROVE  \E i \in 1..k : i <= n /\ q[i] = e
    BY <1>3, <1>4, <1>5, <2>1
  <2>2. ASSUME NEW i \in 1..k, i <= n
        PROVE  q[i] \in S /\ Rank(S, q[i]) < n
    BY <1>3, <1>4, <1>5, <2>2
  <2> QED
    BY <1>5, <2>1, <2>2 DEF Slice
<1> QED
  BY <1>2, <1>5, <1>7, <1>8 DEF S, k

(* What the run compares on small lists, for lists of any length: an       *)
(* answer is the beginning of the stably sorted list, for every request    *)
(* (event_store.py, get_events).                                           *)
THEOREM AnswerIsSortedPrefixCorrect == StoreSpec => []AnswerIsSortedPrefix
<1>1. Cursors \subseteq Nat /\ Limits \subseteq Nat
  BY StoreAssumption DEF Cursors, Limits
<1>2. ASSUME StoreTypeOK, ListInv
      PROVE  AnswerIsSortedPrefix
  <2>1. ASSUME NEW low \in Cursors
        PROVE  \E q \in [1..Cardinality(AtOrAfter(low)) -> AtOrAfter(low)] :
                 /\ StableSort(q, AtOrAfter(low))
                 /\ \A n \in Limits : GetEvents(low, n) = Slice(q, n)
    BY <1>1, <1>2, AnswerIsSlice
  <2> QED
    BY <2>1 DEF AnswerIsSortedPrefix, AtOrAfter
<1> QED
  BY <1>2, StoreTypeCorrect, ListInit, ListStep, PTL DEF StoreSpec

-----------------------------------------------------------------------------
(* An answer that leaves an event out is full, and its last event is one   *)
(* that n - 1 others precede.                                              *)
LEMMA FullAnswer ==
  ASSUME NEW s, NEW n \in Nat, n > 0, events \subseteq Event,
         IsFiniteSet(events), \A e, f \in events : e.pos = f.pos => e = f,
         NEW e \in events, e.ts >= s, e \notin GetEvents(s, n)
  PROVE  \E r \in GetEvents(s, n) :
           Cardinality({f \in events : f.ts >= s /\ Before(f, r)}) = n - 1
<1> DEFINE S == {f \in events : f.ts >= s}
           below(x) == {f \in S : Before(f, x)}
<1>1. IsFiniteSet(S) /\ S \subseteq Event
  BY FS_Subset
<1>2. Cardinality(S) \in Nat /\ IsFiniteSet(below(e))
        /\ Cardinality(below(e)) <= Cardinality(S)
        /\ Cardinality(below(e)) \in Nat
  <2>1. below(e) \in SUBSET S
    OBVIOUS
  <2> HIDE DEF S, below
  <2> QED
    BY <1>1, <2>1, FS_Subset, FS_CardinalityType
<1>3. ~ (Cardinality(below(e)) < n)
  BY DEF GetEvents, FirstOf
<1>4. n - 1 \in Nat /\ n - 1 < Cardinality(S)
  <2> HIDE DEF S, below
  <2> QED
    BY <1>2, <1>3
<1>5. PICK r \in S : Cardinality(below(r)) = n - 1
  <2>1. \A x, y \in S : x.pos = y.pos => x = y
    OBVIOUS
  <2> HIDE DEF S
  <2> QED
    BY <1>1, <1>4, <2>1, EveryRankTaken DEF Rank
<1>6. r \in GetEvents(s, n)
  <2>1. Cardinality(below(r)) < n
    <3> HIDE DEF below
    <3> QED
      BY <1>5
  <2> QED
    BY <2>1 DEF GetEvents, FirstOf
<1>7. {f \in events : f.ts >= s /\ Before(f, r)} = below(r)
  OBVIOUS
<1> HIDE DEF below
<1> QED
  BY <1>5, <1>6, <1>7

-----------------------------------------------------------------------------
(* The cache stays within its size.                                        *)
LEMMA CachePutType ==
  ASSUME ProcessorTypeOK, NEW k \in Keys, CachePut(k)
  PROVE  /\ cached' \subseteq Keys
         /\ IsFiniteSet(cached')
         /\ Cardinality(cached') <= CacheSize
<1>1. PICK kept \in SUBSET (cached \ {k}) :
        Cardinality(kept) < CacheSize /\ cached' = kept \cup {k}
  BY DEF CachePut
<1>2. IsFiniteSet(kept) /\ k \notin kept
  BY FS_Subset DEF ProcessorTypeOK
<1>3. /\ IsFiniteSet(kept \cup {k})
      /\ Cardinality(kept \cup {k}) = Cardinality(kept) + 1
  BY <1>2, FS_AddElement
<1>4. Cardinality(kept) \in Nat /\ CacheSize \in Nat
  BY <1>2, FS_CardinalityType, ProcessorAssumption
<1>5. Cardinality(cached') <= CacheSize
  BY <1>1, <1>3, <1>4
<1> QED
  BY <1>1, <1>3, <1>5 DEF ProcessorTypeOK

LEMMA ProcessEventType ==
  ASSUME ProcessorTypeOK, NEW e \in Event, ProcessEvent(e)
  PROVE  ProcessorTypeOK' /\ received' = received \cup {e}
<1>1. received' = received \cup {e} /\ repeated' \subseteq received'
  BY DEF ProcessEvent, ProcessorTypeOK
<1>2. e.body \in Payloads
  BY SyncAssumption DEF Event
<1>3. CASE e.body.kind \in {"text", "alert", "unknown"}
  BY <1>1, <1>3 DEF ProcessEvent, ProcessorTypeOK
<1>4. CASE e.body.kind = "bitmap"
  <2>1. e.body.key \in Keys
    BY <1>2, <1>4 DEF Payloads
  <2>2. CachePut(e.body.key) /\ UNCHANGED <<displayKey, pendingFetches>>
    BY <1>4 DEF ProcessEvent
  <2> QED
    BY <1>1, <2>1, <2>2, CachePutType DEF ProcessorTypeOK
<1>5. CASE e.body.kind = "display"
  <2>1. e.body.key \in Keys
    BY <1>2, <1>5 DEF Payloads
  <2> QED
    BY <1>1, <1>5, <2>1 DEF ProcessEvent, ProcessorTypeOK
<1> QED
  BY <1>3, <1>4, <1>5 DEF ProcessEvent

-----------------------------------------------------------------------------
(* What a step of the polling loop leaves alone.                           *)
LEMMA TypeStep == TypeOK /\ [Next]_vars => TypeOK'
<1> SUFFICES ASSUME TypeOK, [Next]_vars PROVE TypeOK'
  OBVIOUS
<1> USE SyncAssumption DEF TypeOK
<1>1. ASSUME UNCHANGED storeVars PROVE StoreTypeOK'
  BY <1>1, StoreTypeStep
<1>2. ASSUME UNCHANGED processorVars
      PROVE  ProcessorTypeOK' /\ received' = received
  BY <1>2 DEF processorVars, ProcessorTypeOK
<1>3. CASE StoreStep
  <2>1. StoreTypeOK'
    BY <1>3, StoreTypeStep DEF StoreStep
  <2> QED
    BY <1>2, <1>3, <2>1 DEF StoreStep, ClientTypeOK, clientVars
<1>4. CASE SendRequest
  BY <1>1, <1>2, <1>4 DEF SendRequest, ClientTypeOK
<1>5. CASE ServeGetEvents
  <2>1. page' \subseteq Event
    BY <1>5, AnswerIsStored DEF ServeGetEvents, StoreTypeOK
  <2> QED
    BY <1>1, <1>2, <1>5, <2>1 DEF ServeGetEvents, ClientTypeOK
<1>6. CASE CallFails
  <2>1. maxCount' \in 1..StableCount /\ streak' \in 0..MaxStreak
    BY <1>6 DEF CallFails, OnPollFailure, OnReconnected, MaxStreak
  <2> QED
    BY <1>1, <1>2, <1>6, <2>1
    DEF CallFails, OnRpcFailure, ClientTypeOK, ConnectionStates
<1>7. CASE ReceiveResponse
  <2>1. maxCount' \in 1..StableCount /\ streak' \in 0..MaxStreak
    <3>1. CASE OnReconnected
      BY <3>1 DEF OnReconnected, MaxStreak
    <3>2. CASE OnSuccessfulPoll
      BY <3>2 DEF OnSuccessfulPoll, AtMost, MaxStreak, ClientTypeOK
    <3> QED
      BY <1>7, <3>1, <3>2 DEF ReceiveResponse
  <2> QED
    BY <1>1, <1>2, <1>7, <2>1
    DEF ReceiveResponse, OnRpcSuccess, ClientTypeOK, ConnectionStates
<1>8. CASE ProcessNext
  <2>1. PICK e \in page :
          /\ ProcessEvent(e)
          /\ page' = page \ {e}
          /\ \/ page # {e} /\ UNCHANGED <<since, pc>>
             \/ page = {e} /\ since' = e.ts /\ pc' = "idle"
    BY <1>8 DEF ProcessNext
  <2>2. e \in Event /\ e.ts \in Nat
    BY DEF ClientTypeOK, Event
  <2>3. ProcessorTypeOK' /\ received' = received \cup {e}
    BY <2>1, <2>2, ProcessEventType
  <2>4. since' \in Nat /\ pc' \in {"idle", "request", "response", "process"}
    BY <2>1, <2>2 DEF ClientTypeOK
  <2> QED
    BY <1>1, <1>8, <2>1, <2>2, <2>3, <2>4 DEF ProcessNext, ClientTypeOK
<1>9. CASE FetchDone
  <2>1. PICK k \in Keys : CompleteFetch(k)
    BY <1>9 DEF FetchDone
  <2>2. ProcessorTypeOK' /\ received' = received
    BY <2>1, CachePutType DEF CompleteFetch, ProcessorTypeOK
  <2> QED
    BY <1>1, <1>9, <2>2 DEF FetchDone, ClientTypeOK, clientVars
<1>10. CASE AppRestart
  <2>1. ProcessorTypeOK'
    BY <1>10, FS_EmptySet, ProcessorAssumption
    DEF AppRestart, ProcessorTypeOK
  <2>2. maxCount' \in 1..StableCount /\ streak' \in 0..MaxStreak /\ since' \in Nat
    BY <1>10 DEF AppRestart, MaxStreak
  <2>3. failing' \in BOOLEAN /\ flashed' \in BOOLEAN /\ conn' \in ConnectionStates
    BY <1>10 DEF AppRestart, ConnectionStates
  <2>4. ClientTypeOK'
    BY <1>10, <2>2, <2>3 DEF AppRestart, ClientTypeOK
  <2> QED
    BY <1>1, <1>10, <2>1, <2>4 DEF AppRestart
<1>11. CASE UNCHANGED vars
  BY <1>1, <1>2, <1>11 DEF vars, ClientTypeOK, clientVars
<1> QED
  BY <1>3, <1>4, <1>5, <1>6, <1>7, <1>8, <1>9, <1>10, <1>11 DEF Next

(* The type invariant, for every number of producers and batch size.       *)
THEOREM TypeCorrect == Spec => []TypeOK
<1>1. Init => TypeOK
  <2> SUFFICES ASSUME Init PROVE TypeOK
    OBVIOUS
  <2>1. ProcessorTypeOK
    BY FS_EmptySet, ProcessorAssumption
    DEF Init, ProcessorInit, ProcessorTypeOK
  <2>2. maxCount \in 1..StableCount /\ streak \in 0..MaxStreak /\ since \in Nat
    BY SyncAssumption DEF Init, ClientInit, MaxStreak
  <2>3. failing \in BOOLEAN /\ flashed \in BOOLEAN /\ conn \in ConnectionStates
    BY DEF Init, ClientInit, ConnectionStates
  <2>4. ClientTypeOK
    BY <2>2, <2>3 DEF Init, ProcessorInit, ClientInit, ClientTypeOK
  <2> QED
    BY <2>1, <2>4, StoreTypeInit DEF Init, TypeOK
<1> QED
  BY <1>1, TypeStep, PTL DEF Spec

-----------------------------------------------------------------------------
(* An event older than one the app has - or older than one of the page it  *)
(* is processing - is there too, or was overtaken.  The last conjunct says *)
(* that no older event is fetched than the cursor.                         *)
Covered ==
  /\ since = 0 \/ \E r \in received : r.ts = since
  /\ \A r \in received \cup page : r.pos <= appended
  /\ \A r \in received, e \in events :
       Before(e, r) /\ e \notin received => Overtaken(e, received)
  /\ \A r \in page, e \in events :
       Before(e, r) /\ e \notin received \cup page =>
         Overtaken(e, received \cup {r})
  /\ \A r \in page : r.ts >= since

(* Being overtaken is not undone by receiving more.                        *)
LEMMA OvertakenGrows ==
  ASSUME NEW e, NEW R, NEW S, R \subseteq S, Overtaken(e, R)
  PROVE  Overtaken(e, S)
  BY DEF Overtaken

(* The inductive invariant is kept by every step of the store: a new event *)
(* has the largest position, so whatever it should have preceded has       *)
(* overtaken it; a restarted store holds nothing it did not hold before.   *)
LEMMA CoveredStoreStep ==
  ASSUME TypeOK, Covered, [StoreNext]_storeVars,
         UNCHANGED <<received, page, since>>
  PROVE  Covered'
<1> USE DEF TypeOK
<1>1. CASE events' \subseteq events /\ appended' = appended
  BY <1>1 DEF Covered, Overtaken, Before
<1>2. ASSUME NEW x \in stamped, AddEvent(x)
      PROVE  Covered'
  <2> DEFINE new == [ts |-> x.ts, pos |-> appended + 1, body |-> x.body]
  <2>1. events' = events \cup {new} /\ appended' = appended + 1
    BY <1>2 DEF AddEvent
  <2>2. new.pos = appended + 1 /\ new.ts \in Nat /\ appended \in Nat
    BY DEF StoreTypeOK, Stamped
  <2> HIDE DEF new
  <2>3. \A r \in received \cup page :
          /\ r.ts \in Nat /\ r.pos \in Nat
          /\ r.pos <= appended
    BY DEF Covered, ClientTypeOK, Event
  <2>4. \A r \in received \cup page :
          Before(new, r) => r.pos < new.pos /\ r.ts > new.ts
    BY <2>2, <2>3 DEF Before
  <2>5. \A r \in received \cup page : r.pos <= appended'
    BY <2>1, <2>2, <2>3
  <2>6. \A r \in received, e \in events' :
          Before(e, r) /\ e \notin received => Overtaken(e, received)
    BY <2>1, <2>4 DEF Covered, Overtaken
  <2>7. \A r \in page, e \in events' :
          Before(e, r) /\ e \notin received \cup page =>
            Overtaken(e, received \cup {r})
    BY <2>1, <2>4 DEF Covered, Overtaken
  <2> QED
    BY <2>5, <2>6, <2>7 DEF Covered, Overtaken, Before
<1>3. CASE SupervisorRestart
  BY <1>1, <1>3 DEF SupervisorRestart, StoreTypeOK
<1>4. CASE Tick \/ (\E p \in Producers, b \in Bodies : Stamp(p, b))
                \/ UNCHANGED storeVars
  BY <1>1, <1>4 DEF Tick, Stamp, storeVars
<1> QED
  BY <1>2, <1>3, <1>4 DEF StoreNext

(* A step that changes neither the events nor what the app has of them.    *)
LEMMA CoveredStutter ==
  ASSUME Covered, UNCHANGED <<events, appended, received, page, since>>
  PROVE  Covered'
  BY DEF Covered, Overtaken, Before

(* A fetched page starts at the cursor, a timestamp the app has: an older  *)
(* event it leaves out is older than that one, too.                        *)
LEMMA CoveredServe ==
  ASSUME TypeOK, Covered, ServeGetEvents
  PROVE  Covered'
<1> USE DEF TypeOK
<1>1. /\ page' = GetEvents(since, maxCount)
      /\ UNCHANGED <<events, appended, received, since>>
  BY DEF ServeGetEvents, storeVars, processorVars
<1>2. page' \subseteq {e \in events : e.ts >= since}
  BY <1>1, AnswerIsStored
<1>3. since \in Nat /\ maxCount \in Nat /\ events \subseteq Event
      /\ IsFiniteSet(events)
  BY SyncAssumption DEF ClientTypeOK, StoreTypeOK
<1>4. \A r \in received \cup page' : r.pos <= appended
  BY <1>2 DEF Covered, StoreTypeOK
<1>5. ASSUME NEW r \in page', NEW e \in events, Before(e, r),
             e \notin received \cup page'
      PROVE  Overtaken(e, received \cup {r})
  <2>1. e.ts \in Nat
    BY <1>3 DEF Event
  <2>2. e.ts < since
    <3>1. CASE e.ts >= since
      <4>1. e \in page'
        BY <1>1, <1>3, <1>5, <3>1, AnswerHasNoGap
      <4> QED
        BY <1>5, <4>1
    <3> QED
      BY <2>1, <1>3, <3>1
  <2>3. PICK c \in received : c.ts = since
    BY <2>1, <2>2 DEF Covered
  <2>4. Before(e, c)
    BY <2>2, <2>3 DEF Before
  <2>5. Overtaken(e, received)
    BY <1>5, <2>4 DEF Covered
  <2> QED
    BY <2>5, OvertakenGrows
<1>6. /\ since = 0 \/ \E r \in received : r.ts = since
      /\ \A r \in received, e \in events :
           Before(e, r) /\ e \notin received => Overtaken(e, received)
  BY DEF Covered
<1> QED
  BY <1>1, <1>2, <1>4, <1>5, <1>6 DEF Covered, Overtaken, Before

(* The first event of the page moves over: what precedes it in the store   *)
(* is no longer in the page.                                               *)
LEMMA CoveredProcess ==
  ASSUME TypeOK, Covered, ProcessNext
  PROVE  Covered'
<1> USE DEF TypeOK
<1>1. PICK m \in page :
        /\ \A f \in page \ {m} : Before(m, f)
        /\ received' = received \cup {m}
        /\ page' = page \ {m}
        /\ \/ UNCHANGED since
           \/ page = {m} /\ since' = m.ts
  BY DEF ProcessNext, ProcessEvent
<1>2. events' = events /\ appended' = appended
  BY DEF ProcessNext, storeVars
<1>3. \A r \in received \cup page \cup events : r.ts \in Nat /\ r.pos \in Nat
  BY DEF ClientTypeOK, StoreTypeOK, Event
<1>4. since' = 0 \/ \E r \in received' : r.ts = since'
  BY <1>1 DEF Covered
<1>5. \A r \in received' \cup page' : r.pos <= appended
  BY <1>1 DEF Covered
<1>6. ASSUME NEW r \in received', NEW e \in events, Before(e, r),
             e \notin received'
      PROVE  Overtaken(e, received')
  <2>1. CASE r \in received
    <3>1. Overtaken(e, received)
      BY <1>1, <1>6, <2>1 DEF Covered
    <3> QED
      BY <1>1, <3>1, OvertakenGrows
  <2>2. CASE r = m
    <3>1. e \notin page
      BY <1>1, <1>3, <1>6, <2>2 DEF Before
    <3>2. Overtaken(e, received \cup {m})
      BY <1>1, <1>6, <2>2, <3>1 DEF Covered
    <3> QED
      BY <1>1, <3>2
  <2> QED
    BY <1>1, <1>6, <2>1, <2>2
<1>7. ASSUME NEW r \in page', NEW e \in events, Before(e, r),
             e \notin received' \cup page'
      PROVE  Overtaken(e, received' \cup {r})
  <2>1. Overtaken(e, received \cup {r})
    BY <1>1, <1>7 DEF Covered
  <2> QED
    BY <1>1, <2>1, OvertakenGrows
<1>8. \A r \in page' : r.ts >= since'
  BY <1>1 DEF Covered
<1> QED
  BY <1>2, <1>4, <1>5, <1>6, <1>7, <1>8 DEF Covered, Overtaken, Before

LEMMA CoveredStep == TypeOK /\ Covered /\ [Next]_vars => Covered'
<1> SUFFICES ASSUME TypeOK, Covered, [Next]_vars PROVE Covered'
  OBVIOUS
<1>1. CASE StoreStep
  BY <1>1, CoveredStoreStep DEF StoreStep, processorVars, clientVars
<1>2. CASE SendRequest \/ ReceiveResponse \/ FetchDone \/ UNCHANGED vars
  BY <1>2, CoveredStutter
  DEF SendRequest, ReceiveResponse, FetchDone, CompleteFetch, vars,
      storeVars, processorVars, clientVars
<1>3. CASE ServeGetEvents
  BY <1>3, CoveredServe
<1>4. CASE CallFails
  <2>1. /\ page' = {}
        /\ UNCHANGED <<events, appended, received, since>>
    BY <1>4 DEF CallFails, storeVars, processorVars
  <2> QED
    BY <2>1 DEF Covered, Overtaken, Before
<1>5. CASE ProcessNext
  BY <1>5, CoveredProcess
<1>6. CASE AppRestart
  BY <1>6 DEF AppRestart, Covered
<1> QED
  BY <1>1, <1>2, <1>3, <1>4, <1>5, <1>6 DEF Next

(* No event before one the app has is missing, but for those overtaken:    *)
(* the inductive invariant behind the next theorem (SyncManager.poll,      *)
(* EventStore).                                                            *)
THEOREM CoveredCorrect == Spec => []Covered
<1>1. Init => Covered
  BY DEF Init, ProcessorInit, ClientInit, Covered
<1> QED
  BY <1>1, CoveredStep, TypeCorrect, PTL DEF Spec

(* The polling loop loses no event of the store but an overtaken one, for  *)
(* every number of producers, every batch size, with calls that fail and   *)
(* processes that restart (SyncManager.poll, EventStore).                  *)
THEOREM OnlyOvertakenAreLostCorrect == Spec => []OnlyOvertakenAreLost
<1>1. TypeOK /\ Covered => OnlyOvertakenAreLost
  <2> SUFFICES ASSUME TypeOK, Covered,
                      NEW e \in events, e.ts < since, e \notin received
               PROVE  Overtaken(e, received)
    BY DEF OnlyOvertakenAreLost
  <2>1. e.ts \in Nat
    BY DEF TypeOK, StoreTypeOK, Event
  <2>2. PICK r \in received : r.ts = since
    BY <2>1 DEF Covered
  <2>3. Before(e, r)
    BY <2>2 DEF Before
  <2> QED
    BY <2>3 DEF Covered
<1> QED
  BY <1>1, TypeCorrect, CoveredCorrect, PTL

(* The cursor goes back only with the app's restart (SyncManager.poll).    *)
THEOREM CursorNeverBackCorrect == Spec => CursorNeverBack
<1>1. ASSUME TypeOK, Covered, [Next]_vars, since' < since
      PROVE  since' = 0 /\ received' = {}
  <2>1. since \in Nat
    BY <1>1 DEF TypeOK, ClientTypeOK
  <2>2. CASE AppRestart
    BY <2>2 DEF AppRestart
  <2>3. CASE ProcessNext
    <3>1. since' >= since
      <4>1. \A r \in page : r.ts \in Nat /\ r.ts >= since
        BY <1>1 DEF TypeOK, Covered, ClientTypeOK, Event
      <4> QED
        BY <2>1, <2>3, <4>1 DEF ProcessNext
    <3>2. since' \in Nat
      BY <1>1, TypeStep DEF TypeOK, ClientTypeOK
    <3> QED
      BY <1>1, <2>1, <3>1, <3>2
  <2>4. CASE UNCHANGED since
    BY <1>1, <2>1, <2>4
  <2> QED
    BY <1>1, <2>2, <2>3, <2>4
    DEF Next, StoreStep, SendRequest, ServeGetEvents, CallFails,
        ReceiveResponse, FetchDone, vars, clientVars
<1>2. TypeOK /\ Covered /\ [Next]_vars =>
        [since' < since => since' = 0 /\ received' = {}]_vars
  BY <1>1
<1> QED
  BY <1>2, TypeCorrect, CoveredCorrect, PTL DEF Spec, CursorNeverBack

-----------------------------------------------------------------------------
(* What the app has lies at or before the cursor, or - while a page is     *)
(* being processed - before all that is left of the page.                  *)
Behind ==
  \A r \in received :
    r.ts <= since \/ (pc = "process" /\ \A p \in page : Before(r, p))

LEMMA BehindProcess ==
  ASSUME TypeOK, Covered, Behind, ProcessNext
  PROVE  Behind'
<1>1. PICK e \in page :
        /\ \A f \in page \ {e} : Before(e, f)
        /\ ProcessEvent(e)
        /\ page' = page \ {e}
        /\ \/ page # {e} /\ UNCHANGED <<since, pc>>
           \/ page = {e} /\ since' = e.ts /\ pc' = "idle"
  BY DEF ProcessNext
<1>2. received' = received \cup {e} /\ pc = "process"
  BY <1>1 DEF ProcessEvent, ProcessNext
<1>3. /\ e.ts \in Nat /\ since \in Nat /\ since <= e.ts
      /\ \A r \in received : r.ts \in Nat
  BY DEF TypeOK, ClientTypeOK, Covered, Event
<1>4. CASE page # {e}
  BY <1>1, <1>2, <1>4 DEF Behind, Before
<1>5. CASE page = {e}
  <2>1. since' = e.ts
    BY <1>1, <1>5
  <2>2. \A r \in received : r.ts <= e.ts
    BY <1>3, <1>5 DEF Behind, Before
  <2> QED
    BY <1>2, <1>3, <2>1, <2>2 DEF Behind
<1> QED
  BY <1>4, <1>5

LEMMA BehindStep ==
  TypeOK /\ Covered /\ Behind /\ [Next]_vars => Behind'
<1> SUFFICES ASSUME TypeOK, Covered, Behind, [Next]_vars
             PROVE  Behind'
  OBVIOUS
<1>1. CASE StoreStep \/ FetchDone \/ UNCHANGED vars
  <2>1. UNCHANGED <<received, page, pc, since>>
    BY <1>1 DEF StoreStep, FetchDone, CompleteFetch, vars, clientVars,
                processorVars
  <2> QED
    BY <2>1 DEF Behind, Before
<1>2. CASE SendRequest \/ ServeGetEvents \/ CallFails \/ ReceiveResponse
  <2>1. UNCHANGED <<received, since>> /\ pc # "process"
    BY <1>2 DEF SendRequest, ServeGetEvents, CallFails, ReceiveResponse,
                processorVars
  <2> QED
    BY <2>1 DEF Behind
<1>3. CASE ProcessNext
  BY <1>3, BehindProcess
<1>4. CASE AppRestart
  BY <1>4 DEF AppRestart, Behind
<1> QED
  BY <1>1, <1>2, <1>3, <1>4 DEF Next

(* An event is processed again only while it carries the timestamp of the  *)
(* cursor (SyncManager.poll over EventProcessor's lists).                  *)
THEOREM OnlyCursorIsRepeatedCorrect == Spec => OnlyCursorIsRepeated
<1>1. Init => Behind
  BY DEF Init, ProcessorInit, Behind
<1>2. ASSUME TypeOK, Covered, Behind, [Next]_vars,
             NEW e \in repeated' \ repeated
      PROVE  e.ts = since
  <2>1. CASE ProcessNext
    <3>1. e \in page /\ e \in received
      BY <1>2, <2>1 DEF ProcessNext, ProcessEvent
    <3>2. e.ts \in Nat /\ since \in Nat /\ e.ts >= since
      BY <1>2, <3>1 DEF TypeOK, ClientTypeOK, Covered, Event
    <3>3. ~ Before(e, e)
      BY <1>2, <3>1, <3>2 DEF Before, TypeOK, ClientTypeOK, Event
    <3>4. e.ts <= since
      BY <1>2, <3>1, <3>3 DEF Behind
    <3> QED
      BY <3>2, <3>4
  <2>2. CASE AppRestart
    BY <1>2, <2>2 DEF AppRestart
  <2>3. CASE UNCHANGED repeated
    BY <1>2, <2>3
  <2> QED
    BY <1>2, <2>1, <2>2, <2>3
    DEF Next, StoreStep, SendRequest, ServeGetEvents, CallFails,
        ReceiveResponse, FetchDone, CompleteFetch, vars, processorVars
<1>3. TypeOK /\ Covered /\ Behind /\ [Next]_vars =>
        [\A e \in repeated' \ repeated : e.ts = since]_vars
  BY <1>2
<1> QED
  BY <1>1, <1>3, BehindStep, TypeCorrect, CoveredCorrect, PTL
  DEF Spec, OnlyCursorIsRepeated

-----------------------------------------------------------------------------
(* To the store the polling loop is a reader: its steps leave the list as  *)
(* it is (SyncService.GetEvents over EventStore.get_events).               *)
THEOREM StoreIsOnlyRead == Spec => StoreSpec
<1>1. Init => StoreInit
  BY DEF Init
<1>2. [Next]_vars => [StoreNext]_storeVars
  BY DEF Next, StoreStep, SendRequest, ServeGetEvents, CallFails,
         ReceiveResponse, ProcessNext, FetchDone, AppRestart, vars
<1> QED
  BY <1>1, <1>2, PTL DEF Spec, StoreSpec

(* So the app sees no settled event displaced from an answer (get_events   *)
(* against add_event, while the loop polls).                               *)
THEOREM SettledAnswersStayForTheApp == Spec => SettledAnswersStay
BY StoreIsOnlyRead, SettledAnswersStayCorrect

(* ... and every page it is served is the beginning of the sorted list     *)
(* (sync_service.py's GetEvents over get_events).                          *)
THEOREM SortedAnswersForTheApp == Spec => []AnswerIsSortedPrefix
BY StoreIsOnlyRead, AnswerIsSortedPrefixCorrect

-----------------------------------------------------------------------------
(* Induction over the naturals, stated on a set.                           *)
LEMMA SetInduction ==
  ASSUME NEW S, 0 \in S, \A n \in Nat : n \in S => n + 1 \in S
  PROVE  Nat \subseteq S
<1> DEFINE T == Nat \ S
           R == OpToRel(<, Nat)
<1>1. SUFFICES ASSUME T # {} PROVE FALSE
  OBVIOUS
<1>2. IsWellFoundedOn(R, Nat)
  BY NatLessThanWellFounded
<1>3. T \subseteq Nat
  OBVIOUS
<1>4. PICK x \in T : \A y \in T : <<y, x>> \notin R
  <2> HIDE DEF T, R
  <2> QED
    BY <1>1, <1>2, <1>3, WFMin
<1>5. x \in Nat /\ x # 0
  OBVIOUS
<1>6. x - 1 \in Nat /\ x - 1 < x
  BY <1>5
<1>7. <<x - 1, x>> \in R
  BY <1>5, <1>6 DEF OpToRel
<1>8. x - 1 \in S
  BY <1>4, <1>6, <1>7
<1> QED
  BY <1>5, <1>6, <1>8

(* The recursive function Doubled exists: its beginnings do, and they      *)
(* agree with one another.                                                 *)
Doubles(f, n) ==
  /\ f \in [0..n -> Nat]
  /\ \A i \in 0..n : f[i] = IF i = 0 THEN ConservativeCount ELSE 2 * f[i - 1]

LEMMA BeginningsExist == \A n \in Nat : \E f : Doubles(f, n)
<1> DEFINE S == {n \in Nat : \E f : Doubles(f, n)}
<1>1. 0 \in S
  <2>1. Doubles([i \in 0..0 |-> ConservativeCount], 0)
    BY SyncAssumption DEF Doubles
  <2> QED
    BY <2>1
<1>2. ASSUME NEW n \in Nat, n \in S
      PROVE  n + 1 \in S
  <2>1. PICK f : Doubles(f, n)
    BY <1>2
  <2> DEFINE g == [i \in 0..(n + 1) |-> IF i = n + 1 THEN 2 * f[n] ELSE f[i]]
  <2>2. g \in [0..(n + 1) -> Nat]
    BY <2>1 DEF Doubles
  <2>3. ASSUME NEW i \in 0..(n + 1)
        PROVE  g[i] = IF i = 0 THEN ConservativeCount ELSE 2 * g[i - 1]
    <3>1. CASE i = n + 1
      BY <3>1
    <3>2. CASE i \in 0..n
      <4>1. g[i] = f[i] /\ (i # 0 => g[i - 1] = f[i - 1])
        BY <3>2
      <4> QED
        BY <2>1, <3>2, <4>1 DEF Doubles
    <3> QED
      BY <3>1, <3>2
  <2>4. Doubles(g, n + 1)
    BY <2>2, <2>3 DEF Doubles
  <2> QED
    BY <2>4
<1>3. Nat \subseteq S
  BY <1>1, <1>2, SetInduction
<1> QED
  BY <1>3

LEMMA BeginningsAgree ==
  ASSUME NEW f, NEW m \in Nat, Doubles(f, m), NEW g, NEW n \in Nat, Doubles(g, n)
  PROVE  \A i \in Nat : i <= m /\ i <= n => f[i] = g[i]
<1> DEFINE S == {i \in Nat : i <= m /\ i <= n => f[i] = g[i]}
<1>1. 0 \in S
  BY DEF Doubles
<1>2. ASSUME NEW i \in Nat, i \in S
      PROVE  i + 1 \in S
  <2>1. SUFFICES ASSUME i + 1 <= m, i + 1 <= n
                 PROVE  f[i + 1] = g[i + 1]
    OBVIOUS
  <2>2. /\ f[i + 1] = 2 * f[i]
        /\ g[i + 1] = 2 * g[i]
    <3>1. i + 1 \in 0..m /\ i + 1 \in 0..n /\ i + 1 # 0 /\ (i + 1) - 1 = i
      BY <2>1
    <3> QED
      BY <3>1 DEF Doubles
  <2> QED
    BY <1>2, <2>1, <2>2
<1>3. Nat \subseteq S
  BY <1>1, <1>2, SetInduction
<1> QED
  BY <1>3

LEMMA DoubledExists ==
  Doubled = [n \in Nat |-> IF n = 0 THEN ConservativeCount ELSE 2 * Doubled[n - 1]]
<1> DEFINE Is(f) == f = [n \in Nat |-> IF n = 0 THEN ConservativeCount
                                       ELSE 2 * f[n - 1]]
           upTo(n) == CHOOSE h : Doubles(h, n)
           f == [n \in Nat |-> upTo(n)[n]]
<1>1. \A n \in Nat : Doubles(upTo(n), n)
  BY BeginningsExist
<1>2. ASSUME NEW n \in Nat
      PROVE  f[n] = IF n = 0 THEN ConservativeCount ELSE 2 * f[n - 1]
  <2> HIDE DEF upTo
  <2>1. CASE n = 0
    BY <1>1, <2>1 DEF Doubles
  <2>2. CASE n # 0
    <3>1. n - 1 \in Nat /\ Doubles(upTo(n), n) /\ Doubles(upTo(n - 1), n - 1)
      BY <1>1, <2>2
    <3>2. upTo(n)[n - 1] = upTo(n - 1)[n - 1]
      BY <3>1, BeginningsAgree
    <3>3. upTo(n)[n] = 2 * upTo(n)[n - 1]
      BY <2>2, <3>1 DEF Doubles
    <3> QED
      BY <2>2, <3>1, <3>2, <3>3
  <2> QED
    BY <2>1, <2>2
<1>3. Is(f)
  <2> HIDE DEF upTo
  <2> QED
    BY <1>2
<1>4. \E g : Is(g)
  <2> HIDE DEF f, Is
  <2> QED
    BY <1>3
<1>5. Doubled = CHOOSE g : Is(g)
  BY DEF Doubled
<1>6. Is(Doubled)
  <2> HIDE DEF f, Is
  <2> QED
    BY <1>4, <1>5
<1> QED
  BY <1>6

(* Doubling leaves every bound behind.                                     *)
LEMMA DoubledGrows ==
  /\ Doubled[0] = ConservativeCount
  /\ \A n \in Nat : /\ Doubled[n] \in Nat /\ Doubled[n] > n
                    /\ Doubled[n] >= ConservativeCount
                    /\ Doubled[n + 1] = 2 * Doubled[n]
<1>1. Doubled[0] = ConservativeCount
  BY DoubledExists
<1>2. \A n \in Nat : Doubled[n + 1] = 2 * Doubled[n]
  <2> TAKE n \in Nat
  <2>1. n + 1 \in Nat /\ n + 1 # 0 /\ (n + 1) - 1 = n
    OBVIOUS
  <2> QED
    BY <2>1, DoubledExists
<1> DEFINE S == {n \in Nat : /\ Doubled[n] \in Nat /\ Doubled[n] > n
                             /\ Doubled[n] >= ConservativeCount}
<1>3. 0 \in S
  BY <1>1, SyncAssumption
<1>4. ASSUME NEW n \in Nat, n \in S
      PROVE  n + 1 \in S
  BY <1>2, <1>4, SyncAssumption
<1>5. Nat \subseteq S
  BY <1>3, <1>4, SetInduction
<1> QED
  BY <1>1, <1>2, <1>5

-----------------------------------------------------------------------------
LEMMA BatchStep ==
  TypeOK /\ BatchFollowsConnection /\ [Next]_vars => BatchFollowsConnection'
<1> SUFFICES ASSUME TypeOK, BatchFollowsConnection, [Next]_vars
             PROVE  BatchFollowsConnection'
  OBVIOUS
<1> USE SyncAssumption DEF AtMost
<1>1. CASE ReceiveResponse
  <2>1. conn' = "CONNECTED"
    BY <1>1 DEF ReceiveResponse, OnRpcSuccess
  <2>2. CASE conn # "CONNECTED" /\ OnReconnected
    BY <2>1, <2>2, DoubledGrows DEF OnReconnected, BatchFollowsConnection
  <2>3. CASE conn = "CONNECTED" /\ OnSuccessfulPoll
    <3>1. streak \in Nat /\ streak <= StableCount
      BY DEF TypeOK, ClientTypeOK, MaxStreak
    <3> DEFINE d == Doubled[streak]
    <3>2. /\ d \in Nat /\ d > streak
          /\ Doubled[streak + 1] = 2 * d
      BY <3>1, DoubledGrows
    <3>3. maxCount = IF d <= StableCount THEN d ELSE StableCount
      BY <2>3 DEF BatchFollowsConnection
    <3>4. streak' = IF streak + 1 <= StableCount THEN streak + 1 ELSE StableCount
      BY <2>3 DEF OnSuccessfulPoll, MaxStreak
    <3>5. streak' \in {streak, streak + 1}
      BY <3>1, <3>4
    <3> HIDE DEF d
    <3>6. CASE d < StableCount
      <4>1. streak' = streak + 1
        BY <3>1, <3>2, <3>4, <3>6
      <4>2. maxCount' = IF 2 * d <= StableCount THEN 2 * d ELSE StableCount
        BY <2>3, <3>2, <3>3, <3>6 DEF OnSuccessfulPoll
      <4> QED
        BY <2>1, <3>2, <4>1, <4>2 DEF BatchFollowsConnection
    <3>7. CASE d >= StableCount
      <4>1. maxCount' = StableCount
        BY <2>3, <3>2, <3>3, <3>7 DEF OnSuccessfulPoll
      <4>2. Doubled[streak'] \in Nat /\ Doubled[streak'] >= StableCount
        BY <3>2, <3>5, <3>7 DEF d
      <4> QED
        BY <2>1, <4>1, <4>2 DEF BatchFollowsConnection
    <3> QED
      BY <3>2, <3>6, <3>7
  <2> QED
    BY <1>1, <2>2, <2>3 DEF ReceiveResponse
<1>2. CASE CallFails
  BY <1>2 DEF CallFails, OnRpcFailure, OnPollFailure, OnReconnected,
              BatchFollowsConnection
<1>3. CASE AppRestart
  BY <1>3 DEF AppRestart, BatchFollowsConnection
<1>4. CASE UNCHANGED <<conn, failing, maxCount, streak>>
  BY <1>4 DEF BatchFollowsConnection
<1> QED
  BY <1>1, <1>2, <1>3, <1>4
  DEF Next, StoreStep, SendRequest, ServeGetEvents, ProcessNext, FetchDone,
      vars, clientVars

(* The batch size is a function of the connection's history, for every     *)
(* conservative, stable and upper count: doubling and its two caps never   *)
(* leave it elsewhere (AdaptiveBatchConfig and ConnectionMonitor).         *)
THEOREM BatchFollowsConnectionCorrect == Spec => []BatchFollowsConnection
<1>1. Init => BatchFollowsConnection
  BY DEF Init, ClientInit, BatchFollowsConnection
<1> QED
  BY <1>1, BatchStep, TypeCorrect, PTL DEF Spec

-----------------------------------------------------------------------------
(* What the app has comes from the list, and leaves the list only with all *)
(* that was appended before it - by a restart of the supervisor.           *)
Known == received \cup page

FromList ==
  /\ \A r \in Known : (r \in Seed \/ r.ts > SeedCount) /\ r.ts <= clock
  /\ \A e \in events \ Seed, r \in Known : e.pos <= r.pos => r \in events

LEMMA FromListStore ==
  ASSUME StoreTypeOK, ListInv, FromList, [StoreNext]_storeVars,
         UNCHANGED <<received, page>>,
         \A r \in Known : r.pos \in Nat /\ r.ts \in Nat /\ r.pos <= appended
  PROVE  FromList'
<1>0. Seed' = Seed /\ Known' = Known
  BY DEF Seed, Known
<1>1. CASE UNCHANGED events /\ clock' \in {clock, clock + 1}
  BY <1>0, <1>1 DEF FromList, StoreTypeOK
<1>2. ASSUME NEW x \in stamped, AddEvent(x)
      PROVE  FromList'
  <2> DEFINE new == [ts |-> x.ts, pos |-> appended + 1, body |-> x.body]
  <2>1. events' = events \cup {new} /\ new.pos = appended + 1 /\ clock' = clock
    BY <1>2 DEF AddEvent
  <2> HIDE DEF new
  <2>2. \A r \in Known : ~ (new.pos <= r.pos)
    BY <2>1 DEF StoreTypeOK
  <2> QED
    BY <1>0, <2>1, <2>2 DEF FromList
<1>3. CASE SupervisorRestart
  BY <1>0, <1>3 DEF SupervisorRestart, FromList
<1> QED
  BY <1>1, <1>2, <1>3 DEF StoreNext, Tick, Stamp, storeVars

LEMMA FromListStep ==
  ASSUME TypeOK, ListInv, Covered, FromList, [Next]_vars
  PROVE  FromList'
<1>0. \A r \in Known : r.pos \in Nat /\ r.ts \in Nat /\ r.pos <= appended
  BY DEF TypeOK, ClientTypeOK, Covered, Known, Event
<1>1. CASE StoreStep \/ UNCHANGED vars
  <2>1. [StoreNext]_storeVars /\ UNCHANGED <<received, page>>
    BY <1>1 DEF StoreStep, vars, processorVars, clientVars
  <2> QED
    BY <1>0, <2>1, FromListStore DEF TypeOK
<1>2. CASE ServeGetEvents
  <2>1. page' \subseteq events
    BY <1>2, AnswerIsStored DEF ServeGetEvents
  <2>2. UNCHANGED <<events, clock, received>> /\ Seed' = Seed
    BY <1>2 DEF ServeGetEvents, storeVars, processorVars, Seed
  <2>3. Known' \subseteq Known \cup events
    BY <2>1, <2>2 DEF Known
  <2>4. \A e \in events : (e \in Seed \/ e.ts > SeedCount) /\ e.ts <= clock
    BY DEF ListInv, TypeOK, StoreTypeOK
  <2> QED
    BY <2>2, <2>3, <2>4 DEF FromList
<1>3. CASE Known' \subseteq Known /\ UNCHANGED storeVars
  BY <1>3 DEF FromList, storeVars, Seed
<1>4. CASE ProcessNext
  <2>1. Known' \subseteq Known
    BY <1>4 DEF ProcessNext, ProcessEvent, Known
  <2> QED
    BY <1>3, <1>4, <2>1 DEF ProcessNext
<1>5. CASE SendRequest \/ CallFails \/ ReceiveResponse \/ FetchDone \/ AppRestart
  <2>1. Known' \subseteq Known /\ UNCHANGED storeVars
    BY <1>5 DEF SendRequest, CallFails, ReceiveResponse, FetchDone,
                CompleteFetch, AppRestart, Known, processorVars, clientVars
  <2> QED
    BY <1>3, <2>1
<1> QED
  BY <1>1, <1>2, <1>4, <1>5 DEF Next

-----------------------------------------------------------------------------
(* A batch is never smaller than the conservative one.                     *)
LEMMA BatchIsLarge ==
  ASSUME TypeOK, BatchFollowsConnection
  PROVE  maxCount \in Nat /\ maxCount >= ConservativeCount
<1>1. streak \in Nat
  BY DEF TypeOK, ClientTypeOK, MaxStreak
<1> QED
  BY <1>1, SyncAssumption, DoubledGrows
  DEF BatchFollowsConnection, AtMost, TypeOK, ClientTypeOK

(* An answer that leaves out an event of the cursor's millisecond holds a  *)
(* whole batch of events of that millisecond.                              *)
LEMMA CutAnswer ==
  ASSUME NEW s \in Nat, NEW n \in Nat, n > 0, events \subseteq Event,
         IsFiniteSet(events), \A e, f \in events : e.pos = f.pos => e = f,
         NEW r \in events, r.ts = s, r \notin GetEvents(s, n)
  PROVE  Cardinality({f \in GetEvents(s, n) : f.ts = s}) >= n
<1> DEFINE below(x) == {f \in events : f.ts >= s /\ Before(f, x)}
           A == {f \in GetEvents(s, n) : f.ts = s}
<1>1. PICK x \in GetEvents(s, n) : Cardinality(below(x)) = n - 1
  BY FullAnswer
<1>2. x \in events /\ x.ts >= s /\ \A f \in events : f.ts \in Nat /\ f.pos \in Nat
  BY AnswerIsStored DEF Event
<1>3. ~ Before(r, x) /\ x # r
  BY <1>2, AnswerHasNoGap
<1>4. x.ts = s
  BY <1>2, <1>3 DEF Before
<1>5. \A f \in below(x) : f \in GetEvents(s, n) /\ f.ts = s
  BY <1>2, <1>4, AnswerHasNoGap DEF Before
<1>6. below(x) \cup {x} \in SUBSET A /\ x \notin below(x)
  BY <1>2, <1>4, <1>5 DEF Before
<1>7. IsFiniteSet(below(x)) /\ IsFiniteSet(A)
  <2>1. below(x) \in SUBSET events /\ A \in SUBSET events
    BY AnswerIsStored
  <2> HIDE DEF below, A
  <2> QED
    BY <2>1, FS_Subset
<1> HIDE DEF below, A
<1>8. Cardinality(below(x) \cup {x}) = n
  <2>1. Cardinality(below(x) \cup {x}) = Cardinality(below(x)) + 1
    BY <1>6, <1>7, FS_AddElement
  <2> QED
    BY <1>1, <2>1
<1>9. Cardinality(below(x) \cup {x}) <= Cardinality(A) /\ Cardinality(A) \in Nat
  BY <1>6, <1>7, FS_Subset, FS_CardinalityType
<1> QED
  BY <1>8, <1>9 DEF A

-----------------------------------------------------------------------------
(* A page is whole: what the app has already had and what follows one of   *)
(* the page's events is on the page, too, and will be processed after it - *)
(* unless its millisecond fills more than the smallest batch.              *)
Filled(t) == Cardinality({f \in Known : f.ts = t}) > ConservativeCount

PageWhole ==
  /\ IsFiniteSet(Known)
  /\ pc \in {"idle", "request"} => page = {}
  /\ \A d \in page, r \in received : Before(d, r) => r \in page \/ Filled(r.ts)

LEMMA PageWholeServe ==
  ASSUME TypeOK, ListInv, FromList, Behind, PageWhole,
         BatchFollowsConnection, ServeGetEvents
  PROVE  PageWhole'
<1>1. /\ page' = GetEvents(since, maxCount)
      /\ pc = "request" /\ pc' = "response" /\ received' = received
  BY DEF ServeGetEvents, processorVars
<1>0. IsFiniteSet(Known')
  <2>1. IsFiniteSet(events) /\ GetEvents(since, maxCount) \in SUBSET events
    BY AnswerIsStored DEF TypeOK, StoreTypeOK
  <2>2. IsFiniteSet(GetEvents(since, maxCount))
    BY <2>1, FS_Subset
  <2>3. received \in SUBSET Known /\ IsFiniteSet(Known)
    BY DEF PageWhole, Known
  <2>4. IsFiniteSet(received)
    BY <2>3, FS_Subset
  <2> QED
    BY <1>1, <2>2, <2>4, FS_Union DEF Known
<1>2. ASSUME NEW d \in page', NEW r \in received, Before(d, r), r \notin page'
      PROVE  Filled(r.ts)'
  <2>1. d \in events /\ d.ts >= since /\ r.ts <= since
    BY <1>1, AnswerIsStored DEF Behind
  <2>2. /\ d.ts \in Nat /\ r.ts \in Nat /\ since \in Nat
        /\ d.pos \in Nat /\ r.pos \in Nat
    BY <2>1 DEF TypeOK, ClientTypeOK, StoreTypeOK, Event
  <2>3. d.ts = since /\ r.ts = since /\ d.pos < r.pos
    BY <1>2, <2>1, <2>2 DEF Before
  <2>4. r \in events
    <3>1. CASE d \in Seed
      <4>1. d.ts <= SeedCount /\ d.pos = d.ts
        BY <3>1, SeedFields
      <4>2. r \in Seed
        BY <2>2, <2>3, <4>1, StoreAssumption DEF FromList, Known
      <4> QED
        BY <2>3, <4>1, <4>2, SeedFields
    <3>2. CASE d \notin Seed
      BY <2>1, <2>2, <2>3, <3>2 DEF FromList, Known
    <3> QED
      BY <3>1, <3>2
  <2>5. maxCount \in Nat /\ maxCount >= ConservativeCount /\ maxCount > 0
    BY BatchIsLarge, SyncAssumption DEF TypeOK, ClientTypeOK
  <2> DEFINE A == {f \in page' : f.ts = since}
             B == {f \in Known' : f.ts = since}
  <2>6. Cardinality(A) >= maxCount
    BY <1>1, <1>2, <2>2, <2>3, <2>4, <2>5, CutAnswer
    DEF TypeOK, StoreTypeOK, ListInv
  <2>7. A \cup {r} \in SUBSET B /\ r \notin A /\ B \in SUBSET Known'
    BY <1>1, <1>2, <2>3 DEF Known
  <2>8. Filled(r.ts)' <=> Cardinality(B) > ConservativeCount
    <3>1. {f \in Known' : f.ts = r.ts} = B
      BY <2>3
    <3> QED
      BY <3>1 DEF Filled
  <2> HIDE DEF A, B
  <2>9. IsFiniteSet(B) /\ IsFiniteSet(A)
    BY <1>0, <2>7, FS_Subset
  <2>10. /\ Cardinality(A \cup {r}) = Cardinality(A) + 1
         /\ Cardinality(A \cup {r}) <= Cardinality(B)
         /\ Cardinality(A) \in Nat /\ Cardinality(B) \in Nat
    BY <2>7, <2>9, FS_AddElement, FS_Subset, FS_CardinalityType
  <2> QED
    BY <2>5, <2>6, <2>8, <2>10, SyncAssumption
<1> QED
  BY <1>0, <1>1, <1>2 DEF PageWhole, Before

LEMMA PageWholeStep ==
  ASSUME TypeOK, ListInv, FromList, Behind, PageWhole,
         BatchFollowsConnection, [Next]_vars
  PROVE  PageWhole'
<1>1. CASE StoreStep \/ FetchDone \/ UNCHANGED vars
  <2>1. UNCHANGED <<received, page, pc>>
    BY <1>1 DEF StoreStep, FetchDone, CompleteFetch, vars, processorVars,
                clientVars
  <2> QED
    BY <2>1 DEF PageWhole, Before, Known, Filled
<1>2. CASE SendRequest \/ ReceiveResponse
  <2>1. /\ UNCHANGED <<received, page>>
        /\ pc' \in {"idle", "request"} => page = {}
    BY <1>2 DEF SendRequest, ReceiveResponse, processorVars, PageWhole
  <2> QED
    BY <2>1 DEF PageWhole, Before, Known, Filled
<1>3. CASE ServeGetEvents
  BY <1>3, PageWholeServe
<1>4. CASE CallFails \/ AppRestart
  <2>1. page' = {} /\ Known' \in SUBSET Known
    BY <1>4 DEF CallFails, AppRestart, Known, processorVars
  <2>2. IsFiniteSet(Known')
    BY <2>1, FS_Subset DEF PageWhole
  <2> QED
    BY <2>1, <2>2 DEF PageWhole
<1>5. CASE ProcessNext
  <2>1. PICK e \in page :
          /\ \A f \in page \ {e} : Before(e, f)
          /\ ProcessEvent(e)
          /\ page' = page \ {e}
          /\ \/ page # {e} /\ UNCHANGED <<since, pc>>
             \/ page = {e} /\ since' = e.ts /\ pc' = "idle"
    BY <1>5 DEF ProcessNext
  <2>2. received' = received \cup {e} /\ pc = "process"
    BY <1>5, <2>1 DEF ProcessEvent, ProcessNext
  <2>3. \A f \in page : f.ts \in Nat /\ f.pos \in Nat
    BY DEF TypeOK, ClientTypeOK, Event
  <2>4. \A d \in page' : Before(e, d) /\ ~ Before(d, e)
    BY <2>1, <2>3 DEF Before
  <2>7. Known' = Known
    BY <2>1, <2>2 DEF Known
  <2>8. \A t : Filled(t)' = Filled(t)
    BY <2>7 DEF Filled
  <2>5. ASSUME NEW d \in page', NEW r \in received', Before(d, r)
        PROVE  r \in page' \/ Filled(r.ts)'
    BY <2>1, <2>2, <2>4, <2>5, <2>8 DEF PageWhole
  <2>6. pc' \in {"idle", "request"} => page' = {}
    BY <2>1, <2>2
  <2> QED
    BY <2>5, <2>6, <2>7 DEF PageWhole, Before
<1> QED
  BY <1>1, <1>2, <1>3, <1>4, <1>5 DEF Next

(* The newest display command the app has had is the one it shows, or is   *)
(* on the page and about to be processed again, or is of a crowded         *)
(* millisecond.                                                            *)
Newest(e, R) == \A f \in Displays(R) : f = e \/ Before(f, e)

ShowsNewest ==
  \A e \in Displays(received) :
    Newest(e, received) =>
      \/ displayKey = e.body.key \/ Crowded(e.ts)
      \/ pc = "process" /\ (e \in page \/ Filled(e.ts))

(* What the app has of a millisecond only grows.                           *)
LEMMA CrowdedStays ==
  ASSUME PageWhole, IsFiniteSet(received'), received \subseteq received',
         NEW t, Crowded(t)
  PROVE  Crowded(t)'
<1> DEFINE A == {f \in received : f.ts = t}
           B == {f \in received' : f.ts = t}
<1>1. A \in SUBSET B /\ B \in SUBSET received'
  OBVIOUS
<1>2. Cardinality(A) > ConservativeCount
  BY DEF Crowded
<1>3. (Cardinality(B) > ConservativeCount) => Crowded(t)'
  BY DEF Crowded
<1> HIDE DEF A, B
<1>4. IsFiniteSet(A) /\ IsFiniteSet(B)
  BY <1>1, FS_Subset
<1>5. /\ Cardinality(A) <= Cardinality(B)
      /\ Cardinality(A) \in Nat /\ Cardinality(B) \in Nat
  BY <1>1, <1>4, FS_Subset, FS_CardinalityType
<1> QED
  BY <1>2, <1>3, <1>5, SyncAssumption

LEMMA ShowsNewestStep ==
  ASSUME PageWhole, PageWhole', ShowsNewest, [Next]_vars
  PROVE  ShowsNewest'
<1>1. CASE StoreStep \/ FetchDone \/ UNCHANGED vars
  <2>1. UNCHANGED <<received, page, pc, displayKey>>
    BY <1>1 DEF StoreStep, FetchDone, CompleteFetch, vars, processorVars,
                clientVars
  <2> QED
    BY <2>1 DEF ShowsNewest, Newest, Displays, Before, Crowded, Filled, Known
<1>2. CASE SendRequest \/ ServeGetEvents \/ CallFails \/ ReceiveResponse
  <2>1. pc # "process" /\ UNCHANGED <<received, displayKey>>
    BY <1>2 DEF SendRequest, ServeGetEvents, CallFails, ReceiveResponse,
                processorVars
  <2> QED
    BY <2>1 DEF ShowsNewest, Newest, Displays, Before, Crowded
<1>3. CASE AppRestart
  BY <1>3 DEF AppRestart, ShowsNewest, Displays
<1>4. CASE ProcessNext
  <2>1. PICK m \in page :
          /\ \A f \in page \ {m} : Before(m, f)
          /\ ProcessEvent(m)
          /\ page' = page \ {m}
          /\ \/ page # {m} /\ UNCHANGED <<since, pc>>
             \/ page = {m} /\ since' = m.ts /\ pc' = "idle"
    BY <1>4 DEF ProcessNext
  <2>2. received' = received \cup {m} /\ pc = "process"
    BY <1>4, <2>1 DEF ProcessEvent, ProcessNext
  <2>4. \A t : Crowded(t) => Crowded(t)'
    <3>1. received' \in SUBSET Known' /\ IsFiniteSet(Known')
      BY DEF PageWhole, Known
    <3>2. IsFiniteSet(received')
      BY <3>1, FS_Subset
    <3> QED
      BY <2>2, <3>2, CrowdedStays
  <2>5. \A t : Filled(t) => (pc' = "process" /\ Filled(t)') \/ Crowded(t)'
    <3>1. Known' = Known
      BY <2>1, <2>2 DEF Known
    <3>2. pc' = "process" \/ Known' = received'
      BY <2>1, <2>2 DEF Known
    <3> QED
      BY <3>1, <3>2 DEF Filled, Crowded
  <2>3. ASSUME NEW e \in Displays(received'), Newest(e, received')
        PROVE  \/ displayKey' = e.body.key \/ Crowded(e.ts)'
               \/ pc' = "process" /\ (e \in page' \/ Filled(e.ts)')
    <3>1. CASE e = m
      BY <2>1, <2>3, <3>1 DEF ProcessEvent, Displays
    <3>2. CASE e # m /\ m.body.kind = "display"
      <4>1. Before(m, e) /\ e \in received
        BY <2>2, <2>3, <3>2 DEF Newest, Displays
      <4>2. e \in page \/ Filled(e.ts)
        BY <4>1 DEF PageWhole
      <4> QED
        BY <2>1, <2>2, <2>5, <3>2, <4>2
    <3>3. CASE e # m /\ m.body.kind # "display"
      <4>1. e \in Displays(received) /\ Newest(e, received)
        BY <2>2, <2>3, <3>3 DEF Newest, Displays
      <4>2. displayKey' = displayKey
        BY <2>1, <3>3 DEF ProcessEvent
      <4> QED
        BY <2>1, <2>2, <2>4, <2>5, <3>3, <4>1, <4>2 DEF ShowsNewest
    <3> QED
      BY <3>1, <3>2, <3>3
  <2> QED
    BY <2>3 DEF ShowsNewest, Newest, Displays, Before, Crowded, Filled, Known
<1> QED
  BY <1>1, <1>2, <1>3, <1>4 DEF Next

-----------------------------------------------------------------------------
(* All of it together, as the proofs below need it.                        *)
ClientInv ==
  /\ TypeOK /\ Covered /\ Behind /\ BatchFollowsConnection
  /\ ListInv /\ FromList

LEMMA ClientInvCorrect == Spec => []ClientInv
<1>1. Init => Behind /\ ListInv /\ FromList
  <2> SUFFICES ASSUME Init PROVE Behind /\ ListInv /\ FromList
    OBVIOUS
  <2>1. Known = {}
    BY DEF Init, ProcessorInit, ClientInit, Known
  <2> QED
    BY <2>1, ListInit DEF Init, ProcessorInit, Behind, FromList
<1>2. TypeOK /\ ListInv /\ [Next]_vars => ListInv'
  BY ListStep DEF TypeOK, Next, StoreStep, SendRequest, ServeGetEvents, CallFails,
                  ReceiveResponse, ProcessNext, FetchDone, AppRestart, vars
<1>3. TypeOK /\ ListInv /\ Covered /\ FromList /\ [Next]_vars => FromList'
  BY FromListStep
<1> QED
  BY <1>1, <1>2, <1>3, BehindStep, TypeCorrect, CoveredCorrect,
     BatchFollowsConnectionCorrect, PTL
  DEF Spec, ClientInv

(* Between polls the app shows the newest display command it has received, *)
(* whatever is processed again: what a page repeats it repeats to its end, *)
(* except where one millisecond holds more than the smallest batch         *)
(* (SyncManager.poll and EventProcessor over get_events).                  *)
THEOREM DisplayIsNewestCorrect == Spec => []DisplayIsNewest
<1>1. Init => PageWhole /\ ShowsNewest
  BY FS_EmptySet
  DEF Init, ProcessorInit, ClientInit, PageWhole, ShowsNewest, Displays, Known
<1>2. ClientInv /\ PageWhole /\ [Next]_vars => PageWhole'
  BY PageWholeStep DEF ClientInv
<1>3. PageWhole /\ PageWhole' /\ ShowsNewest /\ [Next]_vars => ShowsNewest'
  BY ShowsNewestStep
<1>4. ShowsNewest => DisplayIsNewest
  BY DEF ShowsNewest, Newest, DisplayIsNewest
<1> QED
  BY <1>1, <1>2, <1>3, <1>4, ClientInvCorrect, PTL DEF Spec

-----------------------------------------------------------------------------
(* No answer repeats only what the app has while there is anything new,    *)
(* unless the cursor's own millisecond fills the batch: what an answer     *)
(* repeats is of that millisecond (SyncManager.poll over get_events).      *)
THEOREM AnswersBringNewsCorrect == Spec => AnswersBringNews
<1>1. ASSUME ClientInv, [Next]_vars, RoomForNews,
             pc = "request", pc' = "response",
             NEW e \in events, e.ts >= since, e \notin received
      PROVE  \E f \in page' : f \notin received
  <2>1. page' = GetEvents(since, maxCount)
    BY <1>1 DEF Next, StoreStep, SendRequest, ServeGetEvents, CallFails,
                ReceiveResponse, ProcessNext, FetchDone, AppRestart, vars,
                clientVars
  <2>2. CASE e \in page'
    BY <1>1, <2>2
  <2>3. CASE e \notin page'
    <3>1. /\ since \in Nat /\ events \subseteq Event /\ IsFiniteSet(events)
          /\ \A f \in events : f.ts \in Nat
          /\ \A f \in received : f.ts <= since
          /\ \A f, g \in events : f.pos = g.pos => f = g
          /\ maxCount \in Nat /\ maxCount > 0
      BY <1>1, SyncAssumption
      DEF ClientInv, TypeOK, StoreTypeOK, ClientTypeOK, ListInv, Behind, Event
    <3>2. PICK r \in page' :
            Cardinality({f \in events : f.ts >= since /\ Before(f, r)})
              = maxCount - 1
      BY <1>1, <2>1, <2>3, <3>1, FullAnswer
    <3>3. SUFFICES ASSUME r \in received
                   PROVE  FALSE
      BY <3>2
    <3> DEFINE A == {f \in events : f.ts = since}
               below == {f \in events : f.ts >= since /\ Before(f, r)}
    <3>4. r \in events /\ r.ts = since
      BY <2>1, <3>1, <3>3, AnswerIsStored
    <3>5. below \cup {r} \in SUBSET A /\ r \notin below
      BY <3>1, <3>4 DEF Before, Event
    <3>6. IsFiniteSet(A) /\ IsFiniteSet(below)
      BY <3>1, FS_Subset
    <3>7. Cardinality(A) < maxCount
      BY <1>1 DEF RoomForNews
    <3> HIDE DEF below, A
    <3>8. /\ Cardinality(below \cup {r}) = Cardinality(below) + 1
          /\ Cardinality(below \cup {r}) <= Cardinality(A)
          /\ Cardinality(A) \in Nat
      BY <3>5, <3>6, FS_AddElement, FS_Subset, FS_CardinalityType
    <3>9. Cardinality(below) = maxCount - 1
      BY <3>2 DEF below
    <3> QED
      BY <3>1, <3>7, <3>8, <3>9
  <2> QED
    BY <2>2, <2>3
<1>2. ClientInv /\ [Next]_vars =>
        [pc = "request" /\ pc' = "response" /\ RoomForNews =>
           \A e \in events : e.ts >= since /\ e \notin received =>
             \E f \in page' : f \notin received]_vars
  BY <1>1
<1> QED
  BY <1>2, ClientInvCorrect, PTL DEF Spec, AnswersBringNews

-----------------------------------------------------------------------------
(* With one producer the list is in the order of the clock, and what the   *)
(* producer holds is at least as late as all of it.                        *)
InOrder ==
  /\ \A x, y \in stamped : x = y
  /\ \A e \in events \cup Known : e.pos > 0
  /\ \A e, f \in events \cup Known : e.pos < f.pos => e.ts <= f.ts
  /\ \A x \in stamped, e \in events \cup Known : e.ts <= x.ts

LEMMA InOrderStore ==
  ASSUME \A p, q \in Producers : p = q,
         ClientInv, InOrder, StoreNext, UNCHANGED <<received, page>>
  PROVE  InOrder'
<1> DEFINE All == events \cup Known
<1>0. /\ Known' = Known
      /\ appended \in Nat /\ clock \in Nat /\ stamped \subseteq Stamped
      /\ \A e \in All : /\ e.pos \in Nat /\ e.ts \in Nat
                        /\ e.pos <= appended /\ e.ts <= clock
  <2>1. \A r \in Known : /\ r.pos \in Nat /\ r.ts \in Nat
                         /\ r.pos <= appended /\ r.ts <= clock
    BY DEF ClientInv, TypeOK, ClientTypeOK, Covered, FromList, Known, Event
  <2>2. \A e \in events : /\ e.pos \in Nat /\ e.ts \in Nat
                          /\ e.pos <= appended /\ e.ts <= clock
    BY DEF ClientInv, TypeOK, StoreTypeOK, Event
  <2> QED
    BY <2>1, <2>2 DEF ClientInv, TypeOK, StoreTypeOK, Known
<1>1. CASE Tick
  BY <1>0, <1>1 DEF Tick, InOrder
<1>2. ASSUME NEW p \in Producers, NEW b \in Bodies, Stamp(p, b)
      PROVE  InOrder'
  <2> DEFINE new == [by |-> p, ts |-> clock, body |-> b]
  <2>1. stamped = {}
    BY <1>0, <1>2 DEF Stamp, Stamped
  <2>2. stamped' = {new} /\ new.ts = clock /\ events' = events
    BY <1>2, <2>1 DEF Stamp
  <2> HIDE DEF new
  <2> QED
    BY <1>0, <2>2 DEF InOrder
<1>3. ASSUME NEW x \in stamped, AddEvent(x)
      PROVE  InOrder'
  <2> DEFINE new == [ts |-> x.ts, pos |-> appended + 1, body |-> x.body]
  <2>1. /\ events' = events \cup {new} /\ stamped' = {}
        /\ new.pos = appended + 1 /\ new.ts = x.ts
    BY <1>3 DEF AddEvent, InOrder
  <2>2. x.ts \in Nat
    BY <1>0 DEF Stamped
  <2> HIDE DEF new
  <2>3. \A e \in All : e.ts <= new.ts /\ e.pos < new.pos
    BY <1>0, <2>1 DEF InOrder
  <2>4. new.pos > 0 /\ ~ (new.pos < new.pos)
    BY <1>0, <2>1
  <2>5. \A e \in All : ~ (new.pos < e.pos)
    BY <1>0, <2>1
  <2>6. (events \cup Known)' = All \cup {new}
    BY <1>0, <2>1
  <2> HIDE DEF All
  <2>7. \A e \in All : e.pos > 0
    BY DEF InOrder, All
  <2>8. \A e, f \in All : e.pos < f.pos => e.ts <= f.ts
    BY DEF InOrder, All
  <2> QED
    BY <2>1, <2>3, <2>4, <2>5, <2>6, <2>7, <2>8 DEF InOrder
<1>4. CASE SupervisorRestart
  BY <1>0, <1>4 DEF SupervisorRestart, InOrder, ClientInv, TypeOK, StoreTypeOK
<1> QED
  BY <1>1, <1>2, <1>3, <1>4 DEF StoreNext

LEMMA InOrderStep ==
  ASSUME \A p, q \in Producers : p = q, ClientInv, InOrder, [Next]_vars
  PROVE  InOrder'
<1>1. CASE StoreStep
  BY <1>1, InOrderStore DEF StoreStep, processorVars, clientVars
<1>2. CASE UNCHANGED storeVars /\ Known' \subseteq Known \cup events
  BY <1>2 DEF InOrder, storeVars
<1>3. CASE ServeGetEvents
  <2>1. page' \subseteq events /\ received' = received
    BY <1>3, AnswerIsStored DEF ServeGetEvents, processorVars
  <2> QED
    BY <1>2, <1>3, <2>1 DEF ServeGetEvents, Known
<1>4. CASE ProcessNext
  <2>1. Known' \subseteq Known
    BY <1>4 DEF ProcessNext, ProcessEvent, Known
  <2> QED
    BY <1>2, <1>4, <2>1 DEF ProcessNext
<1>5. CASE SendRequest \/ CallFails \/ ReceiveResponse \/ FetchDone
             \/ AppRestart \/ UNCHANGED vars
  <2>1. Known' \subseteq Known /\ UNCHANGED storeVars
    BY <1>5 DEF SendRequest, CallFails, ReceiveResponse, FetchDone,
                CompleteFetch, AppRestart, vars, Known, processorVars, clientVars
  <2> QED
    BY <1>2, <2>1
<1> QED
  BY <1>1, <1>3, <1>4, <1>5 DEF Next

LEMMA SeedPositions == {e.pos : e \in Seed} = 1..SeedCount
<1>1. ASSUME NEW p \in 1..SeedCount
      PROVE  p \in {e.pos : e \in Seed}
  <2> DEFINE e == [ts |-> p, pos |-> p, body |-> SeedBody]
  <2>1. e \in Seed
    BY DEF Seed
  <2>2. e.pos = p
    OBVIOUS
  <2> QED
    BY <2>1, <2>2
<1>2. \A e \in Seed : e.pos \in 1..SeedCount
  BY DEF Seed
<1> QED
  BY <1>1, <1>2

(* The events of the list that come before the one being processed have    *)
(* been read: with a list in order nothing is overtaken.                   *)
LEMMA ProcessReads ==
  ASSUME ClientInv, InOrder, ProcessNext
  PROVE  \/ \E p \in 1..appended : Feed!Read(p)
         \/ UNCHANGED Feed!feedVars
<1>1. PICK m \in page :
        /\ \A f \in page \ {m} : Before(m, f)
        /\ received' = received \cup {m}
        /\ UNCHANGED <<events, appended>>
  BY DEF ProcessNext, ProcessEvent, storeVars
<1> DEFINE read == {e.pos : e \in received}
           held == {e.pos : e \in events}
<1>2. read' = read \cup {m.pos} /\ held' = held
  BY <1>1
<1>3. \A e \in events \cup Known : e.pos \in Nat /\ e.ts \in Nat
  BY DEF ClientInv, TypeOK, StoreTypeOK, ClientTypeOK, Known, Event
<1>4. m \in Known /\ m.pos \in 1..appended
  <2>1. m \in Known /\ m.pos <= appended
    BY DEF ClientInv, Covered, Known
  <2> QED
    BY <1>3, <2>1 DEF InOrder, ClientInv, TypeOK, StoreTypeOK
<1>5. ASSUME NEW e \in events, e.pos < m.pos
      PROVE  e \in received
  <2>1. e.ts <= m.ts
    BY <1>4, <1>5 DEF InOrder
  <2>2. Before(e, m) /\ ~ Before(m, e) /\ e # m
    BY <1>3, <1>4, <1>5, <2>1 DEF Before
  <2>3. ~ Overtaken(e, received \cup {m})
    BY <1>3, <1>4 DEF InOrder, Overtaken, Known
  <2>4. e \notin page
    BY <1>1, <2>2
  <2> QED
    BY <2>2, <2>3, <2>4 DEF ClientInv, Covered
<1>6. CASE m.pos \in read
  BY <1>1, <1>2, <1>6 DEF Feed!feedVars
<1>7. CASE m.pos \notin read
  <2>1. \A q \in held : q < m.pos => q \in read
    BY <1>5
  <2>2. Feed!Read(m.pos)
    BY <1>1, <1>2, <1>4, <1>7, <2>1 DEF Feed!Read
  <2> QED
    BY <1>4, <2>2
<1> QED
  BY <1>6, <1>7

LEMMA FeedStep ==
  ASSUME ClientInv, InOrder, [Next]_vars
  PROVE  [Feed!FeedNext]_(Feed!feedVars)
<1> USE DEF Feed!FeedNext, Feed!feedVars
<1>1. CASE StoreStep
  <2>1. received' = received
    BY <1>1 DEF StoreStep, processorVars
  <2>2. ASSUME NEW x \in stamped, AddEvent(x)
        PROVE  Feed!Publish
    <3> DEFINE new == [ts |-> x.ts, pos |-> appended + 1, body |-> x.body]
    <3>1. /\ appended' = appended + 1 /\ events' = events \cup {new}
          /\ new.pos = appended + 1
      BY <2>2 DEF AddEvent
    <3> HIDE DEF new
    <3>2. {e.pos : e \in events'} = {e.pos : e \in events} \cup {appended + 1}
      BY <3>1
    <3>3. {e.pos : e \in received'} = {e.pos : e \in received}
      BY <2>1
    <3> QED
      BY <3>1, <3>2, <3>3 DEF Feed!Publish
  <2>3. CASE SupervisorRestart
    BY <2>1, <2>3, SeedPositions DEF SupervisorRestart, Feed!LoseFeed
  <2>4. CASE UNCHANGED <<events, appended>>
    BY <2>1, <2>4
  <2> QED
    BY <1>1, <2>2, <2>3, <2>4 DEF StoreStep, StoreNext, Tick, Stamp
<1>2. CASE ProcessNext
  BY <1>2, ProcessReads
<1>3. CASE AppRestart
  BY <1>3 DEF AppRestart, storeVars, Feed!ForgetRead
<1>4. CASE SendRequest \/ ServeGetEvents \/ CallFails \/ ReceiveResponse
             \/ FetchDone \/ UNCHANGED vars
  <2>1. UNCHANGED <<events, appended, received>>
    BY <1>4 DEF SendRequest, ServeGetEvents, CallFails, ReceiveResponse,
                FetchDone, CompleteFetch, vars, storeVars, processorVars
  <2> QED
    BY <2>1
<1> QED
  BY <1>1, <1>2, <1>3, <1>4 DEF Next

(* A store that one producer fills and the loop that polls it are a feed   *)
(* read in order, with lost calls and both processes restarting: nothing   *)
(* the store still holds is skipped, whatever the batch size               *)
(* (SyncManager.poll over EventStore).                                     *)
THEOREM ImplementsFeed ==
  ASSUME \A p, q \in Producers : p = q
  PROVE  Spec => Feed!FeedSpec
<1>1. Init => Feed!FeedInit
  BY SeedPositions DEF Init, StoreInit, ProcessorInit, Feed!FeedInit
<1>2. Init => InOrder
  <2> SUFFICES ASSUME Init PROVE InOrder
    OBVIOUS
  <2>1. stamped = {} /\ events = Seed /\ Known = {}
    BY DEF Init, StoreInit, ProcessorInit, ClientInit, Known
  <2> QED
    BY <2>1, SeedFields DEF InOrder
<1>3. ClientInv /\ InOrder /\ [Next]_vars => InOrder'
  BY InOrderStep
<1>4. ClientInv /\ InOrder /\ [Next]_vars => [Feed!FeedNext]_(Feed!feedVars)
  BY FeedStep
<1> QED
  BY <1>1, <1>2, <1>3, <1>4, ClientInvCorrect, PTL DEF Spec, Feed!FeedSpec
=============================================================================
