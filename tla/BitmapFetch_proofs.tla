-------------------------- MODULE BitmapFetch_proofs -------------------------
(***************************************************************************)
(* The types of GetBitmap and ReconcileCache, and the theorem that no call *)
(* waits in vain, for any number of calls, clients, keys and workers.      *)
(***************************************************************************)
EXTENDS BitmapFetch, TLAPS

(* What is asked for never changes; a fetch has a key.                     *)
LEMMA Asked ==
  ASSUME TypeOK, NEW c \in Calls
  PROVE  /\ request[c] \in Request /\ request[c].client \in Clients
         /\ Fetches(c) => request[c].key \in Keys /\ request[c].wait \in BOOLEAN
         /\ c \in Running => Fetches(c)
<1>1. request[c] \in Request
  BY DEF TypeOK
<1>2. CASE request[c] \in [rpc : {"GetBitmap"}, client : Clients, key : Keys,
                           wait : BOOLEAN]
  BY <1>2, <1>1 DEF Fetches
<1>3. CASE request[c] \in [rpc : {"ReconcileCache"}, client : Clients]
  BY <1>1, <1>3 DEF TypeOK, Fetches
<1> QED
  BY <1>1, <1>2, <1>3 DEF Request

LEMMA FetchInitial == Init => TypeOK
  BY DEF Init, TypeOK, Running, InHandler, Labels

(* A call goes on, in a handler only if it is a fetch.                     *)
LEMMA GoesOn ==
  ASSUME TypeOK, NEW c \in Calls, NEW l \in Labels,
         l \in InHandler => Fetches(c),
         pc' = [pc EXCEPT ![c] = l], request' = request
  PROVE  /\ pc' \in [Calls -> Labels] /\ request' \in [Calls -> Request]
         /\ \A d \in Calls : ~ Fetches(d)' => d \notin Running'
<1>1. pc' \in [Calls -> Labels] /\ request' \in [Calls -> Request]
  BY DEF TypeOK
<1>2. ASSUME NEW d \in Calls, ~ Fetches(d)' PROVE d \notin Running'
  <2>1. ~ Fetches(d)
    BY <1>2 DEF Fetches
  <2>2. CASE d = c
    BY <2>1, <2>2 DEF Running, TypeOK
  <2>3. CASE d # c
    BY <2>1, <2>3 DEF Running, TypeOK
  <2> QED BY <2>2, <2>3
<1> QED BY <1>1, <1>2

(* The producer.                                                           *)
LEMMA ProducerTyped ==
  ASSUME TypeOK, Put \/ SetEvent \/ UNCHANGED vars
  PROVE  TypeOK'
<1>1. CASE Put
  BY <1>1 DEF Put, TypeOK, Fetches, Running, callVars
<1>2. CASE SetEvent
  <2>1. /\ pc' = [c \in Calls |-> IF pc[c] = "blocked" THEN "woken" ELSE pc[c]]
        /\ UNCHANGED <<stored, sent, request, expired, gone>>
        /\ putting' \in BOOLEAN /\ flag' \in BOOLEAN
    BY <1>2 DEF SetEvent, At
  <2>2. \A c \in Calls : pc'[c] \in InHandler <=> pc[c] \in InHandler
    BY <2>1 DEF InHandler
  <2>3. pc' \in [Calls -> Labels]
    BY <2>1 DEF TypeOK, Labels, InHandler
  <2> QED BY <2>1, <2>2, <2>3 DEF TypeOK, Fetches, Running
<1>3. CASE UNCHANGED vars
  BY <1>3 DEF vars, trackerVars, callVars, TypeOK, Fetches, Running
<1> QED BY <1>1, <1>2, <1>3

(* A call, at each of its steps.                                           *)
LEMMA CallTyped ==
  ASSUME TypeOK, NEW c \in Calls,
         Send(c) \/ Handle(c) \/ Expire(c) \/ Leave(c)
  PROVE  TypeOK'
<1> USE DEF At, Goto, trackerVars, callVars
<1>0. /\ c \in Running => Fetches(c)
      /\ request[c].client \in Clients
      /\ Fetches(c) => request[c].key \in Keys
  BY Asked
<1>1. /\ flag' \in BOOLEAN /\ putting' \in BOOLEAN /\ stored' \subseteq Keys
      /\ expired' \in [Calls -> BOOLEAN] /\ gone' \in [Calls -> BOOLEAN]
  BY DEF Send, Handle, Begin, Reconcile, Look, MarkSent, Decide, EnterWait,
         ClearEvent, Expire, Leave, TypeOK
<1>2. sent' \in [Clients -> SUBSET Keys]
  <2>1. CASE Reconcile(c)
    BY <1>0, <2>1 DEF Reconcile, TypeOK
  <2>2. CASE MarkSent(c)
    BY <1>0, <2>2 DEF MarkSent, TypeOK, Running, InHandler
  <2>3. CASE sent' = sent
    BY <2>3 DEF TypeOK
  <2> QED BY <2>1, <2>2, <2>3 DEF Send, Handle, Begin, Look, Decide, EnterWait,
                                  ClearEvent, Expire, Leave
<1>3. request' = request
  BY DEF Send, Handle, Begin, Reconcile, Look, MarkSent, Decide, EnterWait,
         ClearEvent, Expire, Leave
<1>4. CASE pc' = pc
  BY <1>1, <1>2, <1>3, <1>4 DEF TypeOK, Fetches, Running
<1>5. CASE \E l \in Labels : /\ l \in InHandler => Fetches(c)
                             /\ pc' = [pc EXCEPT ![c] = l]
  BY <1>1, <1>2, <1>3, <1>5, GoesOn DEF TypeOK
<1>6. CASE Send(c)
  BY <1>5, <1>6 DEF Send, Labels, InHandler
<1>7. CASE Begin(c) \/ Reconcile(c)
  BY <1>5, <1>7 DEF Begin, Reconcile, Labels, InHandler, Answers
<1>8. CASE Look(c) \/ Decide(c) \/ EnterWait(c)
  <2>1. Fetches(c)
    BY <1>0, <1>8 DEF Look, Decide, EnterWait, Running, InHandler
  <2>2. \E l \in {"look", "mark", "decide", "enter", "blocked", "woken", "empty"} :
          pc' = [pc EXCEPT ![c] = l]
    BY <1>8 DEF Look, Decide, EnterWait, TypeOK
  <2> QED BY <1>5, <2>1, <2>2 DEF Labels, InHandler, Answers
<1>9. CASE MarkSent(c) \/ ClearEvent(c)
  <2>1. Fetches(c)
    BY <1>0, <1>9 DEF MarkSent, ClearEvent, Running, InHandler
  <2> QED BY <1>5, <1>9, <2>1 DEF MarkSent, ClearEvent, Labels, InHandler, Answers
<1>10. CASE Expire(c)
  <2>1. Fetches(c)
    BY <1>0, <1>10 DEF Expire
  <2> QED BY <1>4, <1>5, <1>10, <2>1 DEF Expire, Labels, InHandler
<1>11. CASE Leave(c)
  BY <1>4, <1>11 DEF Leave
<1> QED BY <1>6, <1>7, <1>8, <1>9, <1>10, <1>11 DEF Handle

-----------------------------------------------------------------------------
(* The tracker and every call have their types, and no ReconcileCache is   *)
(* handled as a fetch.                                                     *)
THEOREM FetchTyped == Spec => []TypeOK
<1>1. TypeOK /\ [Next]_vars => TypeOK'
  BY ProducerTyped, CallTyped DEF Next
<1> QED BY FetchInitial, <1>1, PTL DEF Spec

-----------------------------------------------------------------------------
(* A GetBitmap that is to look again while its bitmap is stored.           *)
Promised(c) ==
  /\ pc[c] \in {"enter", "blocked", "woken", "look", "mark"}
  /\ request[c].key \in stored

(* Such a call never goes away empty: whatever other calls do to the       *)
(* shared event and however late its own deadline or cancellation is       *)
(* noticed, its next answer is the bitmap.                                 *)
PromiseKept ==
  [][\A c \in Calls : Promised(c) => Promised(c)' \/ At(c, "bitmap")']_vars

(* The part of StoredIsDelivered that needs no fairness: every way out of  *)
(* a wait leads to one more look (sync_service.py, GetBitmap's loop over   *)
(* wait_for_new_bitmap).                                                   *)
THEOREM WaitingIsNotInVain == Spec => PromiseKept
<1>1. ASSUME TypeOK, [Next]_vars, NEW c \in Calls, Promised(c)
      PROVE  Promised(c)' \/ At(c, "bitmap")'
  <2> USE DEF Promised, At, Goto, TypeOK
  <2>1. CASE Put \/ SetEvent \/ UNCHANGED vars
    BY <1>1, <2>1 DEF Put, SetEvent, vars, trackerVars, callVars
  <2>2. ASSUME NEW d \in Calls,
               Send(d) \/ Begin(d) \/ Reconcile(d) \/ Decide(d) \/ Leave(d)
        PROVE  Promised(c)'
    BY <1>1, <2>2 DEF Send, Begin, Reconcile, Decide, Leave, trackerVars
  <2>3. ASSUME NEW d \in Calls, EnterWait(d) \/ ClearEvent(d) \/ Expire(d)
        PROVE  Promised(c)'
    BY <1>1, <2>3 DEF EnterWait, ClearEvent, Expire, trackerVars
  <2>4. ASSUME NEW d \in Calls, Look(d) \/ MarkSent(d)
        PROVE  Promised(c)' \/ At(c, "bitmap")'
    BY <1>1, <2>4 DEF Look, MarkSent, trackerVars
  <2> QED
    BY <1>1, <2>1, <2>2, <2>3, <2>4 DEF Next, Handle
<1>2. TypeOK /\ [Next]_vars =>
        [\A c \in Calls : Promised(c) => Promised(c)' \/ At(c, "bitmap")']_vars
  BY <1>1
<1> QED
  BY <1>2, FetchTyped, PTL DEF Spec, PromiseKept
=============================================================================
