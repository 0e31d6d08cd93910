-------------------------- MODULE WorkQueueProofs --------------------------
(***************************************************************************)
(* Proofs about WorkQueue for any set of services and of workers: its      *)
(* inductive invariant, and that it implements ServiceQueue.               *)
(***************************************************************************)
EXTENDS WorkQueue, SequenceTheorems, TLAPS

-----------------------------------------------------------------------------
(* Queues of names *)

\* What appending a new name does to a sequence without repetitions.
LEMMA AppendNew ==
  ASSUME NEW S, NEW q \in Seq(S), NEW s \in S
  PROVE  /\ Append(q, s) \in Seq(S)
         /\ Append(q, s) # <<>>
         /\ Len(Append(q, s)) = Len(q) + 1
         /\ Range(Append(q, s)) = Range(q) \union {s}
         /\ s \notin Range(q) /\ IsInjective(q) => IsInjective(Append(q, s))
<1>1. /\ Append(q, s) \in Seq(S)
      /\ Append(q, s) # <<>>
      /\ Len(Append(q, s)) = Len(q) + 1
      /\ \A i \in 1 .. Len(q) : Append(q, s)[i] = q[i]
      /\ Append(q, s)[Len(q) + 1] = s
  BY AppendProperties
<1>2. /\ DOMAIN q = 1 .. Len(q)
      /\ DOMAIN Append(q, s) = 1 .. (Len(q) + 1)
      /\ Len(q) \in Nat
  BY <1>1
<1>3. Range(Append(q, s)) = Range(q) \union {s}
  BY <1>1, <1>2 DEF Range
<1>4. ASSUME s \notin Range(q), IsInjective(q)
      PROVE  IsInjective(Append(q, s))
  BY <1>1, <1>2, <1>4 DEF Range, IsInjective
<1> QED
  BY <1>1, <1>3, <1>4

\* What taking the head off a sequence without repetitions does to it.
LEMMA TakeHead ==
  ASSUME NEW S, NEW q \in Seq(S), q # <<>>
  PROVE  /\ Head(q) \in S
         /\ Head(q) \in Range(q)
         /\ Tail(q) \in Seq(S)
         /\ Len(Tail(q)) = Len(q) - 1
         /\ Range(Tail(q)) \union {Head(q)} = Range(q)
         /\ IsInjective(q) => IsInjective(Tail(q)) /\ Head(q) \notin Range(Tail(q))
<1>1. /\ Head(q) \in S
      /\ Tail(q) \in Seq(S)
      /\ Len(Tail(q)) = Len(q) - 1
      /\ \A i \in 1 .. Len(Tail(q)) : Tail(q)[i] = q[i + 1]
  BY HeadTailProperties
<1>2. /\ Len(q) \in Nat \ {0}
      /\ DOMAIN q = 1 .. Len(q)
      /\ DOMAIN Tail(q) = 1 .. (Len(q) - 1)
      /\ Head(q) = q[1]
  BY <1>1
<1>3. Head(q) \in Range(q)
  BY <1>2 DEF Range
<1>4. ASSUME NEW x \in Range(q), x # Head(q)
      PROVE  x \in Range(Tail(q))
  <2>1. PICK i \in 1 .. Len(q) : q[i] = x
    BY <1>2, <1>4 DEF Range
  <2>2. i - 1 \in 1 .. (Len(q) - 1) /\ (i - 1) + 1 = i
    BY <2>1, <1>2, <1>4
  <2> QED
    BY <2>1, <2>2, <1>1, <1>2 DEF Range
<1>5. ASSUME NEW x \in Range(Tail(q))
      PROVE  x \in Range(q)
  BY <1>1, <1>2, <1>5 DEF Range
<1>6. ASSUME IsInjective(q)
      PROVE  IsInjective(Tail(q)) /\ Head(q) \notin Range(Tail(q))
  BY <1>1, <1>2, <1>6 DEF IsInjective, Range
<1> QED
  BY <1>1, <1>3, <1>4, <1>5, <1>6

-----------------------------------------------------------------------------
(* The actions *)

\* The empty queue satisfies the invariant.
LEMMA InitInv == Init => IInv
<1> SUFFICES ASSUME Init PROVE IInv
  OBVIOUS
<1>1. TypeOK
  BY EmptySeq DEF Init, TypeOK
<1>2. Range(items) = {} /\ IsInjective(items) /\ InHand = {}
  BY DEF Init, Range, IsInjective, InHand
<1> QED
  BY <1>1, <1>2 DEF Init, IInv, PendingExact, SingleFlight, NoLostWakeup, HandMatchesPc

\* Adding a service that is not pending, and waking those that wait.
LEMMA AddNewInv ==
  ASSUME IInv, NEW s \in Services, AddNew(s)
  PROVE  /\ IInv'
         /\ InHand' = InHand
         /\ s \notin Range(items) /\ s \notin InHand
<1> USE DEF IInv
<1>1. /\ items' \in Seq(Services)
      /\ items' # <<>>
      /\ Range(items') = Range(items) \union {s}
      /\ s \notin Range(items) /\ IsInjective(items) => IsInjective(items')
  BY AppendNew DEF AddNew, TypeOK
<1>2. InHand' = InHand
  BY DEF AddNew, InHand
<1>3. s \notin Range(items) /\ s \notin InHand
  BY DEF AddNew, PendingExact
<1>4. TypeOK'
  BY <1>1 DEF AddNew, TypeOK, CloseNotify
<1>5. PendingExact'
  BY <1>1, <1>2 DEF AddNew, PendingExact
<1>6. SingleFlight'
  BY <1>1, <1>2, <1>3 DEF AddNew, SingleFlight
<1>7. NoLostWakeup'
  BY DEF AddNew, NoLostWakeup, CloseNotify
<1>8. HandMatchesPc'
  BY DEF AddNew, HandMatchesPc, CloseNotify
<1> QED
  BY <1>2, <1>3, <1>4, <1>5, <1>6, <1>7, <1>8

\* A worker takes the oldest service.
LEMMA GetTakeInv ==
  ASSUME IInv, NEW w \in Workers, GetTake(w)
  PROVE  /\ IInv'
         /\ InHand' = InHand \union {Head(items)}
<1> USE DEF IInv
<1> DEFINE s == Head(items)
<1>1. /\ s \in Services
      /\ s \in Range(items)
      /\ items' \in Seq(Services)
      /\ Range(items') \union {s} = Range(items)
      /\ IsInjective(items')
      /\ s \notin Range(items')
  BY TakeHead DEF GetTake, TypeOK, SingleFlight
<1>2. /\ hand[w] = {}
      /\ hand' \in [Workers -> SUBSET Services]
      /\ hand'[w] = {s}
      /\ \A x \in Workers : x # w => hand'[x] = hand[x]
  BY <1>1 DEF GetTake, TypeOK, HandMatchesPc
<1>3. InHand' = InHand \union {s}
  BY <1>2 DEF InHand
<1>4. TypeOK'
  BY <1>1, <1>2 DEF GetTake, TypeOK
<1>5. PendingExact'
  BY <1>1, <1>3 DEF GetTake, PendingExact
<1>6. SingleFlight'
  <2>1. \A x, y \in Workers : x # y => hand'[x] \cap hand'[y] = {}
    BY <1>1, <1>2 DEF SingleFlight, InHand
  <2>2. InHand' \cap Range(items') = {}
    BY <1>1, <1>3 DEF SingleFlight
  <2> QED
    BY <1>1, <2>1, <2>2 DEF SingleFlight
<1>7. NoLostWakeup'
  BY DEF GetTake, NoLostWakeup
<1>8. HandMatchesPc'
  BY <1>2 DEF GetTake, HandMatchesPc, TypeOK
<1> QED
  BY <1>3, <1>4, <1>5, <1>6, <1>7, <1>8

\* A worker gives up the service it had.
LEMMA DoneInv ==
  ASSUME IInv, NEW w \in Workers, Done(w)
  PROVE  /\ IInv'
         /\ \E s \in Services : s \in InHand /\ InHand' = InHand \ {s}
<1> USE DEF IInv
<1>1. /\ hand' \in [Workers -> SUBSET Services]
      /\ hand'[w] = {}
      /\ \A x \in Workers : x # w => hand'[x] = hand[x]
  BY DEF Done, TypeOK
<1>2. InHand' = InHand \ hand[w]
  BY <1>1 DEF InHand, SingleFlight
<1>3. hand[w] \cap Range(items) = {}
  BY DEF SingleFlight, InHand
<1>4. TypeOK'
  BY <1>1 DEF Done, TypeOK
<1>5. PendingExact'
  BY <1>2, <1>3 DEF Done, PendingExact
<1>6. SingleFlight'
  BY <1>1, <1>2 DEF Done, SingleFlight
<1>7. NoLostWakeup'
  BY DEF Done, NoLostWakeup
<1>8. HandMatchesPc'
  BY <1>1 DEF Done, HandMatchesPc, TypeOK
<1>9. PICK s \in Services : hand[w] = {s}
  BY DEF Done, TypeOK, HandMatchesPc
<1>10. s \in InHand /\ InHand' = InHand \ {s}
  BY <1>2, <1>9 DEF InHand
<1> QED
  BY <1>4, <1>5, <1>6, <1>7, <1>8, <1>10

\* The steps that move neither a name nor the pending set.
LEMMA QuietInv ==
  ASSUME IInv,
         \/ \E w \in Workers : GetWait(w) \/ WakeNotify(w) \/ WakeCancelled(w)
         \/ Cancel
         \/ ProducersStop
         \/ UNCHANGED vars
  PROVE  /\ IInv'
         /\ UNCHANGED <<items, InHand>>
<1> USE DEF IInv
<1>1. UNCHANGED <<items, pending, hand>>
  BY DEF GetWait, WakeNotify, WakeCancelled, Cancel, ProducersStop, vars
<1>2. InHand' = InHand
  BY <1>1 DEF InHand
<1>3. TypeOK'
  BY DEF TypeOK, GetWait, WakeNotify, WakeCancelled, Cancel, ProducersStop, vars
<1>4. PendingExact' /\ SingleFlight'
  BY <1>1, <1>2 DEF PendingExact, SingleFlight
<1>5. NoLostWakeup'
  BY DEF NoLostWakeup, GetWait, WakeNotify, WakeCancelled, Cancel, ProducersStop, vars
<1>6. HandMatchesPc'
  BY DEF HandMatchesPc, TypeOK, GetWait, WakeNotify, WakeCancelled, Cancel,
         ProducersStop, vars
<1> QED
  BY <1>1, <1>2, <1>3, <1>4, <1>5, <1>6

\* Every step of the queue.
LEMMA NextInv == IInv /\ [Next]_vars => IInv'
<1> SUFFICES ASSUME IInv, [Next]_vars PROVE IInv'
  OBVIOUS
<1>1. CASE \E s \in Services : AddNew(s)
  BY <1>1, AddNewInv
<1>2. CASE \E w \in Workers : GetTake(w)
  BY <1>2, GetTakeInv
<1>3. CASE \E w \in Workers : Done(w)
  BY <1>3, DoneInv
<1>4. CASE \E w \in Workers : GetWait(w) \/ WakeNotify(w) \/ WakeCancelled(w)
  BY <1>4, QuietInv
<1>5. CASE Cancel \/ ProducersStop \/ UNCHANGED vars
  BY <1>5, QuietInv
<1> QED
  BY <1>1, <1>2, <1>3, <1>4, <1>5 DEF Next, Worker, AddMerged, Finished

-----------------------------------------------------------------------------
(***************************************************************************)
(* The inductive invariant holds throughout, whatever the numbers of       *)
(* services and workers.                                                   *)
(***************************************************************************)
THEOREM Invariant == Spec => []IInv
  BY InitInv, NextInv, PTL DEF Spec

\* The variables keep their types (queue.go's struct and the worker's local).
THEOREM TypeCorrect == Spec => []TypeOK
  BY Invariant, PTL DEF IInv

\* The pending map never keeps or loses a name it should not.
THEOREM PendingIsExact == Spec => []PendingExact
  BY Invariant, PTL DEF IInv

\* No service is processed by two workers, or queued while one processes it.
THEOREM OneWorkerPerService == Spec => []SingleFlight
  BY Invariant, PTL DEF IInv

\* No worker blocks on an open notify channel while the queue has an item.
THEOREM NoWorkerOversleeps == Spec => []NoLostWakeup
  BY Invariant, PTL DEF IInv

(***************************************************************************)
(* Each step of the concurrent queue is a step of the abstract queue or    *)
(* leaves its line and its busy set alone: Add, Get and Done behave as if  *)
(* each were one indivisible operation.                                    *)
(***************************************************************************)
THEOREM Refinement == Spec => ImplementsServiceQueue
<1>1. Init => Abstract!QueueInit
  BY DEF Init, InHand, Abstract!QueueInit
<1>2. ASSUME IInv, [Next]_vars
      PROVE  [Abstract!QueueNext]_Abstract!queueVars
  <2>1. CASE \E s \in Services : AddNew(s)
    <3>1. PICK s \in Services : AddNew(s)
      BY <2>1
    <3>2. /\ s \notin Range(items) /\ s \notin InHand
          /\ InHand' = InHand
      BY <1>2, <3>1, AddNewInv
    <3>3. ~Abstract!Known(s)
      BY <3>2 DEF Abstract!Known, Abstract!Range, Range
    <3>4. Abstract!Add(s)
      BY <3>1, <3>2, <3>3 DEF AddNew, Abstract!Add
    <3> QED
      BY <3>4 DEF Abstract!QueueNext
  <2>2. CASE \E w \in Workers : GetTake(w)
    <3>1. PICK w \in Workers : GetTake(w)
      BY <2>2
    <3>2. InHand' = InHand \union {Head(items)}
      BY <1>2, <3>1, GetTakeInv
    <3>3. Abstract!Take
      BY <3>1, <3>2 DEF GetTake, Abstract!Take
    <3> QED
      BY <3>3 DEF Abstract!QueueNext
  <2>3. CASE \E w \in Workers : Done(w)
    <3>1. PICK w \in Workers : Done(w)
      BY <2>3
    <3>2. PICK s \in Services : s \in InHand /\ InHand' = InHand \ {s}
      BY <1>2, <3>1, DoneInv
    <3>3. Abstract!Done(s)
      BY <3>1, <3>2 DEF Done, Abstract!Done
    <3> QED
      BY <3>3 DEF Abstract!QueueNext
  <2>4. CASE \/ \E w \in Workers : GetWait(w) \/ WakeNotify(w) \/ WakeCancelled(w)
             \/ Cancel
             \/ ProducersStop
             \/ UNCHANGED vars
    BY <1>2, <2>4, QuietInv DEF Abstract!queueVars
  <2>5. \/ \E s \in Services : AddNew(s)
        \/ \E w \in Workers : GetTake(w)
        \/ \E w \in Workers : Done(w)
        \/ \E w \in Workers : GetWait(w) \/ WakeNotify(w) \/ WakeCancelled(w)
        \/ Cancel \/ ProducersStop \/ UNCHANGED vars
    BY <1>2 DEF Next, Worker, AddMerged, Finished
  <2> QED
    BY <2>1, <2>2, <2>3, <2>4, <2>5
<1> QED
  BY <1>1, <1>2, Invariant, PTL DEF Spec, ImplementsServiceQueue, Abstract!QueueSpec
=============================================================================
