------------------------ MODULE ReconcileLoopProofs ------------------------
(***************************************************************************)
(* Proofs about ReconcileLoop for any replica counts and any service ids.  *)
(***************************************************************************)
EXTENDS ReconcileLoop, SequenceTheorems, TLAPS

-----------------------------------------------------------------------------
(* Decisions, requests and ECSM *)

(***************************************************************************)
(* How many rounds a service still needs.  Two are needed only when the    *)
(* first does nothing but scale, and leaves the service running although   *)
(* it should not, or stopped although it should run.                       *)
(***************************************************************************)
Needed(d, a) ==
  CASE CompareDesiredActual(d, a) = "none" -> 0
    [] CompareDesiredActual(d, a) \in {"need_create", "need_start", "need_stop"} -> 1
    [] CompareDesiredActual(d, a) \in {"need_scale_out", "need_scale_in"} ->
         IF d.action = "start" /\ ~a.running THEN 1 ELSE 2

-----------------------------------------------------------------------------
\* The fields of a desired state and of a service have their types.
LEMMA DesiredFields ==
  ASSUME NEW d \in DesiredState
  PROVE  /\ d.replicas \in Counts /\ d.replicas \in Nat
         /\ d.action \in {"start", "stop"}
<1>1. d.replicas \in Counts /\ d.action \in {"start", "stop"}
  BY DEF DesiredState
<1> QED
  BY <1>1, CountsAssumption

\* The fields of what ECSM reports, for a service and for a missing one.
LEMMA ActualFields ==
  ASSUME NEW a \in Actual
  PROVE  /\ a.id \in Ids \union {0}
         /\ a.active \in Counts /\ a.active \in Nat
         /\ a.factor \in Counts /\ a.factor \in Nat
         /\ a.running \in BOOLEAN /\ a.started \in BOOLEAN
         /\ Found(a) <=> a \in Service
         /\ ~Found(a) <=> a = Absent
         /\ Found(a) => a.factor > 0
<1>1. CASE a \in Service
  <2>1. /\ a.id \in Ids /\ a.factor \in Counts \ {0} /\ a.active \in Counts
        /\ a.running \in BOOLEAN /\ a.started \in BOOLEAN
    BY <1>1 DEF Service
  <2>2. Found(a) /\ a # Absent
    BY <2>1, IdsAssumption DEF Found, Absent
  <2>3. a.active \in Nat /\ a.factor \in Nat \ {0}
    BY <2>1, CountsAssumption
  <2>4. a.factor > 0
    BY <2>3
  <2> QED
    BY <1>1, <2>1, <2>2, <2>3, <2>4, Zenon
<1>2. CASE a = Absent
  <2>1. a.id = 0 /\ a.factor = 0 /\ a.active = 0 /\ a.running = FALSE /\ a.started = FALSE
    BY <1>2 DEF Absent
  <2>2. a \notin Service
    BY <2>1, IdsAssumption DEF Service
  <2> QED
    BY <1>2, <2>1, <2>2, CountsAssumption DEF Found
<1> QED
  BY <1>1, <1>2 DEF Actual

(***************************************************************************)
(* The decision, as a table.                                               *)
(***************************************************************************)
LEMMA DecisionTable ==
  ASSUME NEW d \in DesiredState, NEW a \in Actual
  PROVE  LET diff == CompareDesiredActual(d, a)
         IN  /\ diff \in DiffAction
             /\ diff = "none" <=> Satisfied(d, a)
             /\ diff = "need_create" => ~Found(a) /\ d.action = "start"
             /\ diff = "need_start" => Found(a) /\ d.action = "start" /\ ~a.running
             /\ diff = "need_stop" => Found(a) /\ d.action = "stop" /\ a.running
             /\ diff \in {"need_start", "need_stop"} /\ d.replicas > 0
                  => a.active = d.replicas
             /\ diff \in {"need_scale_out", "need_scale_in"}
                  => Found(a) /\ d.replicas > 0 /\ a.active # d.replicas
<1>1. /\ d.replicas \in Nat
      /\ d.action \in {"start", "stop"}
      /\ a.active \in Nat /\ a.running \in BOOLEAN
  BY DesiredFields, ActualFields
<1>2. CASE ~Found(a)
  <2>1. CompareDesiredActual(d, a) = IF d.action = "start" THEN "need_create" ELSE "none"
    BY <1>1, <1>2 DEF CompareDesiredActual
  <2>2. Satisfied(d, a) <=> d.action # "start"
    BY <1>1, <1>2 DEF Satisfied
  <2> QED
    BY <1>1, <1>2, <2>1, <2>2 DEF DiffAction
<1>3. CASE Found(a)
  <2>1. CompareDesiredActual(d, a) = IF ReplicaDiff(d, a) # "none" THEN ReplicaDiff(d, a)
                                                                  ELSE RunDiff(d, a)
    BY <1>1, <1>3 DEF CompareDesiredActual
  <2>2. \/ ReplicaDiff(d, a) = "none" /\ (d.replicas > 0 => a.active = d.replicas)
        \/ /\ ReplicaDiff(d, a) \in {"need_scale_out", "need_scale_in"}
           /\ d.replicas > 0 /\ a.active # d.replicas
    BY <1>1 DEF ReplicaDiff
  <2>3. \/ RunDiff(d, a) = "none" /\ (d.action = "start" <=> a.running)
        \/ RunDiff(d, a) = "need_start" /\ d.action = "start" /\ ~a.running
        \/ RunDiff(d, a) = "need_stop" /\ d.action = "stop" /\ a.running
    BY <1>1 DEF RunDiff
  <2> QED
    BY <1>1, <1>3, <2>1, <2>2, <2>3 DEF DiffAction, Satisfied
<1> QED
  BY <1>2, <1>3

(***************************************************************************)
(* The requests of a round, as a table: what makes it one or two requests. *)
(***************************************************************************)
OneCreate(d, a, reqs) ==
  /\ ~Found(a) /\ d.action = "start"
  /\ \E n \in Counts \ {0} : reqs = <<Create(n)>> /\ (d.replicas > 0 => n = d.replicas)

OneUpdate(d, a, reqs) ==
  /\ Found(a) /\ d.replicas > 0
  /\ d.action = "start" => a.running
  /\ reqs = <<Update(d.replicas)>>

OneAction(d, a, reqs) ==
  /\ Found(a)
  /\ reqs = (IF d.action = "start" THEN <<Start>> ELSE <<Stop>>)
  /\ d.replicas > 0 => a.factor = d.replicas

UpdateThenAction(d, a, reqs) ==
  /\ Found(a) /\ d.replicas > 0
  /\ reqs = (IF d.action = "start" THEN <<Update(d.replicas), Start>>
                                    ELSE <<Update(d.replicas), Stop>>)

\* Appending to a sequence of one request gives a sequence of two.
LEMMA TwoRequests ==
  ASSUME NEW x, NEW y
  PROVE  Append(<<x>>, y) = <<x, y>>
<1> DEFINE S == {x, y}
<1>1. <<x>> \in Seq(S) /\ <<x, y>> \in Seq(S)
  OBVIOUS
<1>2. /\ Append(<<x>>, y) \in Seq(S)
      /\ Len(Append(<<x>>, y)) = 2
      /\ Append(<<x>>, y)[1] = x
      /\ Append(<<x>>, y)[2] = y
  BY <1>1, AppendProperties
<1>3. \A i \in 1 .. 2 : Append(<<x>>, y)[i] = <<x, y>>[i]
  BY <1>2
<1> HIDE DEF S
<1> QED
  BY <1>1, <1>2, <1>3, SeqEqual

\* A decision other than "none" gives a round of one of the four shapes.
LEMMA RoundTable ==
  ASSUME NEW d \in DesiredState, NEW a \in Actual, CompareDesiredActual(d, a) # "none"
  PROVE  LET reqs == Apply(CompareDesiredActual(d, a), d, a)
         IN  \/ OneCreate(d, a, reqs) /\ Needed(d, a) = 1
             \/ OneUpdate(d, a, reqs) /\ Needed(d, a) = 2
             \/ OneAction(d, a, reqs) /\ Needed(d, a) = 1
             \/ UpdateThenAction(d, a, reqs) /\ Needed(d, a) = 1
<1> DEFINE diff == CompareDesiredActual(d, a)
<1> DEFINE reqs == Apply(diff, d, a)
<1>1. /\ d.replicas \in Counts /\ d.replicas \in Nat
      /\ d.action \in {"start", "stop"}
      /\ a.running \in BOOLEAN
  BY DesiredFields, ActualFields
<1>2. /\ diff \in DiffAction
      /\ diff = "need_create" => ~Found(a) /\ d.action = "start"
      /\ diff = "need_start" => Found(a) /\ d.action = "start" /\ ~a.running
      /\ diff = "need_stop" => Found(a) /\ d.action = "stop" /\ a.running
      /\ diff \in {"need_scale_out", "need_scale_in"}
           => Found(a) /\ d.replicas > 0 /\ a.active # d.replicas
  BY DecisionTable
<1>3. Accepted(diff, d, a)
  BY <1>2 DEF Accepted
<1>4. Found(a) => a.factor \in Nat /\ a.factor > 0
  BY ActualFields
<1>5. CASE diff = "need_create"
  <2>1. reqs = CreateService(d)
    BY <1>3, <1>5 DEF Apply
  <2>2. OneCreate(d, a, reqs)
    BY <1>1, <1>2, <1>5, <2>1, CountsAssumption DEF OneCreate, CreateService
  <2> QED
    BY <1>5, <2>2 DEF Needed
<1>6. CASE diff = "need_start"
  <2>1. reqs = Append(UpdateFirst(d, a), Start)
    BY <1>3, <1>6 DEF Apply, StartByID
  <2>2. CASE ReplicasDiffer(d, a)
    <3>1. UpdateFirst(d, a) = <<Update(d.replicas)>>
      BY <2>2 DEF UpdateFirst
    <3>2. Append(UpdateFirst(d, a), Start) = <<Update(d.replicas), Start>>
      BY <3>1, TwoRequests
    <3>3. UpdateThenAction(d, a, reqs)
      BY <1>2, <1>6, <2>1, <2>2, <3>2 DEF UpdateThenAction, ReplicasDiffer
    <3> QED
      BY <1>6, <3>3 DEF Needed
  <2>3. CASE ~ReplicasDiffer(d, a)
    BY <1>2, <1>4, <1>6, <2>1, <2>3 DEF UpdateFirst, OneAction, Needed, ReplicasDiffer
  <2> QED
    BY <2>2, <2>3
<1>7. CASE diff = "need_stop"
  <2>1. reqs = Append(UpdateFirst(d, a), Stop)
    BY <1>3, <1>7 DEF Apply, StopByID
  <2>2. CASE ReplicasDiffer(d, a)
    <3>1. UpdateFirst(d, a) = <<Update(d.replicas)>>
      BY <2>2 DEF UpdateFirst
    <3>2. Append(UpdateFirst(d, a), Stop) = <<Update(d.replicas), Stop>>
      BY <3>1, TwoRequests
    <3>3. UpdateThenAction(d, a, reqs)
      BY <1>2, <1>7, <2>1, <2>2, <3>2 DEF UpdateThenAction, ReplicasDiffer
    <3> QED
      BY <1>7, <3>3 DEF Needed
  <2>3. CASE ~ReplicasDiffer(d, a)
    BY <1>2, <1>4, <1>7, <2>1, <2>3 DEF UpdateFirst, OneAction, Needed, ReplicasDiffer
  <2> QED
    BY <2>2, <2>3
<1>8. CASE diff \in {"need_scale_out", "need_scale_in"}
  <2>1. reqs = ScaleByID(d, a)
    BY <1>3, <1>8 DEF Apply
  <2>2. CASE d.action = "start" /\ ~a.running
    BY <1>2, <1>8, <2>1, <2>2 DEF ScaleByID, UpdateThenAction, Needed
  <2>3. CASE ~(d.action = "start" /\ ~a.running)
    BY <1>1, <1>2, <1>8, <2>1, <2>3 DEF ScaleByID, OneUpdate, Needed
  <2> QED
    BY <2>2, <2>3
<1> QED
  BY <1>2, <1>5, <1>6, <1>7, <1>8 DEF DiffAction

\* No service needs more than two rounds, and one that needs none is satisfied.
LEMMA NeededBound ==
  ASSUME NEW d \in DesiredState, NEW a \in Actual
  PROVE  /\ Needed(d, a) \in 0 .. 2
         /\ Needed(d, a) = 0 <=> Satisfied(d, a)
         /\ Found(a) /\ (d.replicas > 0 => a.active = d.replicas) => Needed(d, a) <= 1
<1>1. /\ d.replicas \in Nat /\ a.running \in BOOLEAN
      /\ d.action \in {"start", "stop"}
  BY DesiredFields, ActualFields
<1> QED
  BY <1>1, DecisionTable DEF Needed, DiffAction

-----------------------------------------------------------------------------
(***************************************************************************)
(* What ECSM reports after each kind of request.                           *)
(***************************************************************************)
LEMMA SettledFields ==
  ASSUME NEW a \in Service
  PROVE  /\ Settled(a) \in Service
         /\ Settled(a).id = a.id
         /\ Settled(a).factor = a.factor
         /\ Settled(a).active = a.factor
         /\ Settled(a).running = a.started
         /\ Settled(a).started = a.started
<1>1. a.id \in Ids /\ a.factor \in Counts \ {0} /\ a.active \in Counts
  BY DEF Service
<1>2. a.running \in BOOLEAN /\ a.started \in BOOLEAN
  BY DEF Service
<1>3. Found(a)
  BY <1>1, IdsAssumption DEF Found
<1>4. Settled(a) = [a EXCEPT !.active = a.factor, !.running = a.started]
  BY <1>3 DEF Settled
<1> QED
  BY <1>1, <1>2, <1>4 DEF Service

\* A created service runs with the instances asked for.
LEMMA AfterCreate ==
  ASSUME NEW a, NEW n \in Counts \ {0}, NEW id \in Ids
  PROVE  LET b == Settled(Configured(a, Create(n), id))
         IN  b \in Service /\ b.id = id /\ b.active = n /\ b.running
<1> DEFINE c == Configured(a, Create(n), id)
<1>1. c = [id |-> id, factor |-> n, active |-> 0, running |-> FALSE, started |-> TRUE]
  BY DEF Configured, Create
<1>2. c \in Service /\ c.id = id /\ c.factor = n /\ c.started = TRUE
  BY <1>1, CountsAssumption DEF Service
<1> HIDE DEF c
<1>3. Settled(c) \in Service /\ Settled(c).id = id /\ Settled(c).active = n
  BY <1>2, SettledFields
<1>4. Settled(c).running = TRUE
  BY <1>2, SettledFields
<1> USE DEF c
<1> QED
  BY <1>3, <1>4

\* An updated service has the instances asked for and runs as before.
LEMMA AfterUpdate ==
  ASSUME NEW a \in Service, NEW n \in Counts \ {0}, NEW id \in Ids
  PROVE  LET b == Settled(Configured(a, Update(n), id))
         IN  /\ b \in Service /\ b.id = id
             /\ b.factor = n /\ b.active = n /\ b.running = a.started
<1> DEFINE c == Configured(a, Update(n), id)
<1>1. c = [a EXCEPT !.id = id, !.factor = n]
  BY DEF Configured, Update
<1>2. c \in Service /\ c.id = id /\ c.factor = n /\ c.started = a.started
  BY <1>1 DEF Service
<1> HIDE DEF c
<1>3. /\ Settled(c) \in Service /\ Settled(c).id = id
      /\ Settled(c).factor = n /\ Settled(c).active = n
  BY <1>2, SettledFields
<1>4. Settled(c).running = a.started
  BY <1>2, SettledFields
<1> USE DEF c
<1> QED
  BY <1>3, <1>4

\* A started service runs, a stopped one does not, with the instances it had.
LEMMA AfterAction ==
  ASSUME NEW a \in Service, NEW id, NEW r \in {Start, Stop}
  PROVE  LET b == Settled(Configured(a, r, id))
         IN  /\ b \in Service /\ b.id = a.id
             /\ b.active = a.factor /\ b.running = (r = Start)
<1> DEFINE c == Configured(a, r, id)
<1>1. Start # Stop /\ Start.op = "start" /\ Stop.op = "stop"
  BY DEF Start, Stop
<1>2. c = [a EXCEPT !.started = (r = Start)]
  BY <1>1 DEF Configured
<1>3. c \in Service /\ c.id = a.id /\ c.factor = a.factor /\ c.started = (r = Start)
  BY <1>2 DEF Service
<1> HIDE DEF c
<1>4. /\ Settled(c) \in Service /\ Settled(c).id = a.id
      /\ Settled(c).active = a.factor
  BY <1>3, SettledFields
<1>5. Settled(c).running = (r = Start)
  BY <1>3, SettledFields
<1> USE DEF c
<1> QED
  BY <1>4, <1>5

-----------------------------------------------------------------------------
\* Requests as Apply composes them: no service is given zero instances.
ValidRequest == {r \in Request : r.op \in {"create", "update"} => r.factor # 0}

\* The requests the client knows are valid.
LEMMA RequestTypes ==
  /\ Start \in ValidRequest /\ Stop \in ValidRequest
  /\ \A n \in Counts \ {0} : Create(n) \in ValidRequest /\ Update(n) \in ValidRequest
BY CountsAssumption DEF Start, Stop, Create, Update, Request, ValidRequest

\* A sequence of valid requests is a sequence of requests.
LEMMA ValidRequests ==
  ASSUME NEW q \in Seq(ValidRequest)
  PROVE  q \in Seq(Request)
BY DEF ValidRequest

\* Whatever shape a round has, it is a non-empty sequence of valid requests.
LEMMA RoundTypes ==
  ASSUME NEW d \in DesiredState, NEW a, NEW reqs,
         \/ OneCreate(d, a, reqs)
         \/ OneUpdate(d, a, reqs)
         \/ OneAction(d, a, reqs)
         \/ UpdateThenAction(d, a, reqs)
  PROVE  reqs \in Seq(ValidRequest) /\ reqs # <<>>
<1>1. d.replicas \in Counts /\ d.replicas \in Nat
  BY DesiredFields
<1>2. Start \in ValidRequest /\ Stop \in ValidRequest
  BY RequestTypes
<1>3. d.replicas > 0 => Update(d.replicas) \in ValidRequest
  BY <1>1, RequestTypes
<1>4. \A x \in ValidRequest : <<x>> \in Seq(ValidRequest) /\ <<x>> # <<>>
  OBVIOUS
<1>5. \A x, y \in ValidRequest : <<x, y>> \in Seq(ValidRequest) /\ <<x, y>> # <<>>
  OBVIOUS
<1>6. CASE OneCreate(d, a, reqs)
  <2>1. PICK n \in Counts \ {0} : reqs = <<Create(n)>>
    BY <1>6 DEF OneCreate
  <2> QED
    BY <1>4, <2>1, RequestTypes
<1>7. CASE OneUpdate(d, a, reqs)
  BY <1>3, <1>4, <1>7 DEF OneUpdate
<1>8. CASE OneAction(d, a, reqs)
  BY <1>2, <1>4, <1>8 DEF OneAction
<1>9. CASE UpdateThenAction(d, a, reqs)
  BY <1>2, <1>3, <1>5, <1>9 DEF UpdateThenAction
<1> QED
  BY <1>6, <1>7, <1>8, <1>9

\* With its instances right and running as asked, a service needs nothing.
LEMMA NeedsNothing ==
  ASSUME NEW d \in DesiredState, NEW b \in Service,
         d.replicas > 0 => b.active = d.replicas,
         b.running = (d.action = "start")
  PROVE  Needed(d, b) = 0
<1>1. b \in Actual
  BY DEF Actual
<1>2. Found(b)
  BY <1>1, ActualFields
<1>3. Satisfied(d, b)
  BY <1>2, DesiredFields DEF Satisfied
<1> QED
  BY <1>1, <1>3, NeededBound

-----------------------------------------------------------------------------
(* The loop *)

\* The last request of a round in which an update came first.
LastRequest ==
  /\ todo \in {<<Start>>, <<Stop>>}
  /\ desired.action = (IF todo = <<Start>> THEN "start" ELSE "stop")
  /\ Found(actual) /\ sid = actual.id
  /\ desired.replicas > 0
  /\ actual.factor = desired.replicas /\ actual.active = desired.replicas

\* All requests of a round are still to be sent.
WholeRound ==
  /\ Diff # "none"
  /\ todo = Apply(Diff, desired, actual)
  /\ sid = actual.id

IInv ==
  /\ TypeOK
  /\ todo = <<>> => rounds + Needed(desired, actual) <= 2
  /\ todo # <<>> => \/ WholeRound /\ rounds + Needed(desired, actual) <= 3
                    \/ LastRequest /\ rounds <= 2

-----------------------------------------------------------------------------
\* Before the first round the rounds needed are at most two.
LEMMA InitInv == Init => IInv
<1> SUFFICES ASSUME Init PROVE IInv
  OBVIOUS
<1>1. TypeOK
  BY EmptySeq DEF Init, TypeOK
<1>2. Needed(desired, actual) \in 0 .. 2
  BY <1>1, NeededBound DEF TypeOK
<1> QED
  BY <1>1, <1>2 DEF Init, IInv

\* A round that sends requests uses up one of the rounds needed.
LEMMA DecideInv ==
  ASSUME IInv, Decide
  PROVE  IInv'
<1> DEFINE reqs == Apply(Diff, desired, actual)
<1>1. desired \in DesiredState /\ actual \in Actual /\ rounds \in Nat
  BY DEF IInv, TypeOK
<1>2. /\ todo' = reqs /\ sid' = actual.id /\ rounds' = rounds + 1
      /\ UNCHANGED <<desired, actual>>
  BY DEF Decide
<1>3. rounds + Needed(desired, actual) <= 2
  BY DEF IInv, Decide
<1>4. Needed(desired, actual) \in 0 .. 2
  BY <1>1, NeededBound
<1>5. \/ OneCreate(desired, actual, reqs)
      \/ OneUpdate(desired, actual, reqs)
      \/ OneAction(desired, actual, reqs)
      \/ UpdateThenAction(desired, actual, reqs)
  BY <1>1, RoundTable DEF Decide, Diff
<1>6. reqs \in Seq(Request) /\ reqs # <<>>
  BY <1>1, <1>5, RoundTypes, ValidRequests
<1>7. actual.id \in Ids \union {0}
  BY <1>1, ActualFields
<1>8. TypeOK'
  BY <1>1, <1>2, <1>6, <1>7 DEF TypeOK
<1>9. WholeRound'
  BY <1>2 DEF WholeRound, Diff, Decide
<1>10. Needed(desired, actual)' = Needed(desired, actual)
  BY <1>2
<1>11. rounds' + Needed(desired, actual)' <= 3
  BY <1>1, <1>2, <1>3, <1>4, <1>10
<1> QED
  BY <1>2, <1>6, <1>8, <1>9, <1>11 DEF IInv

\* A new desired state or a drift starts the count again.
LEMMA DisturbInv ==
  ASSUME IInv,
         \/ \E d \in DesiredState : Rewrite(d)
         \/ \E a \in Actual : Drift(a)
  PROVE  IInv'
<1>1. TypeOK'
  BY DEF IInv, TypeOK, Rewrite, Drift
<1>2. todo' = <<>> /\ rounds' = 0
  BY DEF Rewrite, Drift
<1>3. Needed(desired, actual)' \in 0 .. 2
  <2>1. desired' \in DesiredState /\ actual' \in Actual
    BY <1>1 DEF TypeOK
  <2> QED
    BY <2>1, NeededBound
<1> QED
  BY <1>1, <1>2, <1>3 DEF IInv

\* The last request of a round: nothing more is needed afterwards.
LEMMA LastSendInv ==
  ASSUME IInv, NEW id \in Ids, Send(id), LastRequest, rounds <= 2
  PROVE  IInv'
<1> DEFINE b == Settled(Configured(actual, Head(todo), id))
<1>1. desired \in DesiredState /\ actual \in Actual /\ rounds \in Nat
  BY DEF IInv, TypeOK
<1>2. /\ todo # <<>> /\ actual' = b /\ todo' = Tail(todo) /\ sid' = id
      /\ desired' = desired /\ rounds' = rounds
  BY DEF Send
<1>3. PICK r \in {Start, Stop} : todo = <<r>> /\ (r = Start <=> desired.action = "start")
  <2>1. Start # Stop
    BY DEF Start, Stop
  <2>2. <<Start>> # <<Stop>>
    BY <2>1
  <2>3. CASE todo = <<Start>>
    BY <2>3 DEF LastRequest
  <2>4. CASE todo = <<Stop>>
    BY <2>1, <2>2, <2>4 DEF LastRequest
  <2> QED
    BY <2>3, <2>4 DEF LastRequest
<1>4. Head(todo) = r /\ Tail(todo) = <<>>
  BY <1>3
<1>5. actual \in Service
  BY <1>1, ActualFields DEF LastRequest
<1>6. b \in Service /\ b.active = actual.factor /\ b.running = (r = Start)
  BY <1>4, <1>5, AfterAction
<1> HIDE DEF b
<1>7. b.running = (desired.action = "start")
  BY <1>3, <1>6, Zenon
<1>8. b.active = desired.replicas
  BY <1>6 DEF LastRequest
<1>9. Needed(desired, b) = 0
  BY <1>1, <1>6, <1>7, <1>8, NeedsNothing
<1>10. TypeOK'
  BY <1>1, <1>2, <1>4, <1>6, EmptySeq DEF TypeOK, Actual
<1>11. rounds' + Needed(desired, actual)' <= 2
  BY <1>1, <1>2, <1>9
<1> QED
  BY <1>2, <1>4, <1>10, <1>11 DEF IInv

\* The first request of a round, by the shape of the round.
LEMMA FirstSendInv ==
  ASSUME IInv, NEW id \in Ids, Send(id), WholeRound,
         rounds + Needed(desired, actual) <= 3
  PROVE  IInv'
<1> DEFINE b == Settled(Configured(actual, Head(todo), id))
<1>1. desired \in DesiredState /\ actual \in Actual /\ rounds \in Nat
  BY DEF IInv, TypeOK
<1>2. /\ todo # <<>> /\ actual' = b /\ todo' = Tail(todo) /\ sid' = id
      /\ desired' = desired /\ rounds' = rounds
  BY DEF Send
<1>3. /\ desired.replicas \in Counts /\ desired.replicas \in Nat
      /\ desired.action \in {"start", "stop"}
      /\ actual.running \in BOOLEAN
  BY <1>1, DesiredFields, ActualFields
<1>4. Found(actual) => actual \in Service
  BY <1>1, ActualFields
<1>5. desired.replicas > 0 => desired.replicas \in Counts \ {0}
  BY <1>3
<1>6. ASSUME b \in Service, Tail(todo) = <<>>, rounds + Needed(desired, b) <= 2
      PROVE  IInv'
  <2> HIDE DEF b
  <2>1. TypeOK'
    BY <1>1, <1>2, <1>6, EmptySeq DEF TypeOK, Actual
  <2>2. todo' = <<>> /\ rounds' + Needed(desired, actual)' <= 2
    BY <1>2, <1>6
  <2> QED
    BY <2>1, <2>2 DEF IInv
<1>7. CASE OneCreate(desired, actual, todo) /\ Needed(desired, actual) = 1
  <2>1. PICK n \in Counts \ {0} : todo = <<Create(n)>> /\ (desired.replicas > 0 => n = desired.replicas)
    BY <1>7 DEF OneCreate
  <2>2. Head(todo) = Create(n) /\ Tail(todo) = <<>>
    BY <2>1
  <2>3. b \in Service /\ b.active = n /\ b.running
    BY <2>2, AfterCreate
  <2>4. b.running = (desired.action = "start")
    <3>1. desired.action = "start"
      BY <1>7 DEF OneCreate
    <3>2. b.running \in BOOLEAN
      BY <2>3 DEF Service
    <3> QED
      BY <2>3, <3>1, <3>2
  <2>5. desired.replicas > 0 => b.active = desired.replicas
    BY <2>1, <2>3
  <2>6. Needed(desired, b) = 0
    BY <1>1, <2>3, <2>4, <2>5, NeedsNothing
  <2> QED
    BY <1>1, <1>6, <1>7, <2>2, <2>3, <2>6
<1>8. CASE OneUpdate(desired, actual, todo) /\ Needed(desired, actual) = 2
  <2>1. todo = <<Update(desired.replicas)>> /\ desired.replicas > 0 /\ Found(actual)
    BY <1>8 DEF OneUpdate
  <2>2. Head(todo) = Update(desired.replicas) /\ Tail(todo) = <<>>
    BY <2>1
  <2>3. b \in Service /\ b.active = desired.replicas
    BY <1>4, <1>5, <2>1, <2>2, AfterUpdate
  <2> HIDE DEF b
  <2>4. b \in Actual /\ Found(b)
    BY <2>3, ActualFields DEF Actual
  <2>5. Needed(desired, b) \in 0 .. 2 /\ Needed(desired, b) <= 1
    BY <1>1, <2>3, <2>4, NeededBound
  <2> USE DEF b
  <2>6. rounds + Needed(desired, b) <= 2
    <3> HIDE DEF b
    <3> QED
      BY <1>1, <1>8, <2>5
  <2> QED
    BY <1>6, <2>2, <2>3, <2>6
<1>9. CASE OneAction(desired, actual, todo) /\ Needed(desired, actual) = 1
  <2>1. PICK r \in {Start, Stop} : todo = <<r>> /\ (r = Start <=> desired.action = "start")
    <3>1. Start # Stop
      BY DEF Start, Stop
    <3> QED
      BY <1>9, <3>1 DEF OneAction
  <2>2. Head(todo) = r /\ Tail(todo) = <<>>
    BY <2>1
  <2>3. actual \in Service /\ (desired.replicas > 0 => actual.factor = desired.replicas)
    BY <1>4, <1>9 DEF OneAction
  <2>4. b \in Service /\ b.active = actual.factor /\ b.running = (r = Start)
    BY <2>2, <2>3, AfterAction
  <2>5. b.running = (desired.action = "start")
    <3> HIDE DEF b
    <3> QED
      BY <2>1, <2>4, Zenon
  <2>6. Needed(desired, b) = 0
    <3> HIDE DEF b
    <3> QED
      BY <1>1, <2>3, <2>4, <2>5, NeedsNothing
  <2> QED
    BY <1>1, <1>6, <1>9, <2>2, <2>4, <2>6
<1>10. CASE UpdateThenAction(desired, actual, todo) /\ Needed(desired, actual) = 1
  <2>1. /\ desired.replicas > 0 /\ Found(actual)
        /\ todo = (IF desired.action = "start" THEN <<Update(desired.replicas), Start>>
                                                ELSE <<Update(desired.replicas), Stop>>)
    BY <1>10 DEF UpdateThenAction
  <2>2. /\ Head(todo) = Update(desired.replicas)
        /\ Tail(todo) = (IF desired.action = "start" THEN <<Start>> ELSE <<Stop>>)
    BY <2>1
  <2>3. /\ b \in Service /\ b.id = id
        /\ b.factor = desired.replicas /\ b.active = desired.replicas
    BY <1>4, <1>5, <2>1, <2>2, AfterUpdate
  <2> HIDE DEF b
  <2>4. b \in Actual /\ Found(b)
    BY <2>3, ActualFields DEF Actual
  <2>5. Tail(todo) \in Seq(Request)
    <3>1. Start \in Request /\ Stop \in Request
      BY RequestTypes DEF ValidRequest
    <3>2. <<Start>> \in Seq(Request) /\ <<Stop>> \in Seq(Request)
      BY <3>1
    <3> QED
      BY <2>2, <3>2
  <2>6. TypeOK'
    BY <1>1, <1>2, <2>4, <2>5 DEF TypeOK
  <2>7. LastRequest'
    <3>1. <<Start>> # <<Stop>>
      BY DEF Start, Stop
    <3>2. todo' \in {<<Start>>, <<Stop>>}
      BY <1>2, <2>2
    <3>3. desired'.action = (IF todo' = <<Start>> THEN "start" ELSE "stop")
      BY <1>2, <1>3, <2>2, <3>1
    <3>4. Found(actual') /\ sid' = actual'.id
      BY <1>2, <2>3, <2>4
    <3>5. /\ desired'.replicas > 0
          /\ actual'.factor = desired'.replicas
          /\ actual'.active = desired'.replicas
      BY <1>2, <2>1, <2>3
    <3> QED
      BY <3>2, <3>3, <3>4, <3>5 DEF LastRequest
  <2>8. rounds' <= 2 /\ todo' # <<>>
    BY <1>1, <1>2, <1>10, <2>2
  <2> QED
    BY <2>6, <2>7, <2>8 DEF IInv
<1> QED
  BY <1>1, <1>7, <1>8, <1>9, <1>10, RoundTable DEF WholeRound, Diff

\* Every step of the loop.
LEMMA NextInv == IInv /\ [Next]_vars => IInv'
<1> SUFFICES ASSUME IInv, [Next]_vars PROVE IInv'
  OBVIOUS
<1>1. CASE Decide
  BY <1>1, DecideInv
<1>2. ASSUME NEW id \in Ids, Send(id) PROVE IInv'
  <2>1. todo # <<>>
    BY <1>2 DEF Send
  <2>2. CASE LastRequest /\ rounds <= 2
    BY <1>2, <2>2, LastSendInv
  <2>3. CASE WholeRound /\ rounds + Needed(desired, actual) <= 3
    BY <1>2, <2>3, FirstSendInv
  <2> QED
    BY <2>1, <2>2, <2>3 DEF IInv
<1>3. CASE \E d \in DesiredState : Rewrite(d)
  BY <1>3, DisturbInv
<1>4. CASE \E a \in Actual : Drift(a)
  BY <1>4, DisturbInv
<1>5. CASE UNCHANGED vars
  BY <1>5 DEF vars, IInv, TypeOK, WholeRound, LastRequest, Diff
<1> QED
  BY <1>1, <1>2, <1>3, <1>4, <1>5 DEF Next

-----------------------------------------------------------------------------
(***************************************************************************)
(* The inductive invariant: counting the rounds already used and those the *)
(* service still needs, at no point more than two rounds are in play; and  *)
(* the requests of an unfinished round belong to the state ECSM is in.     *)
(***************************************************************************)
THEOREM Invariant == Spec => []IInv
<1> QED
  BY InitInv, NextInv, PTL DEF Spec

\* Every request Apply composes, and every id it is sent with, is well formed.
THEOREM TypeCorrect == Spec => []TypeOK
<1>1. IInv => TypeOK
  BY DEF IInv
<1> QED
  BY <1>1, Invariant, PTL

(***************************************************************************)
(* From any desired state and anything ECSM reports, the reconciler of     *)
(* reconciler.go and client.go sends requests in at most two rounds.       *)
(***************************************************************************)
THEOREM TwoRoundsSuffice == Spec => []AtMostTwoRounds
<1>1. IInv => AtMostTwoRounds
  <2> SUFFICES ASSUME IInv PROVE AtMostTwoRounds
    OBVIOUS
  <2>1. desired \in DesiredState /\ actual \in Actual /\ rounds \in Nat
    BY DEF IInv, TypeOK
  <2>2. Needed(desired, actual) \in 0 .. 2
    BY <2>1, NeededBound
  <2>3. CASE todo = <<>>
    BY <2>1, <2>2, <2>3 DEF IInv, AtMostTwoRounds
  <2>4. CASE LastRequest /\ rounds <= 2
    BY <2>4 DEF AtMostTwoRounds
  <2>5. CASE WholeRound /\ rounds + Needed(desired, actual) <= 3
    <3>1. Needed(desired, actual) >= 1
      BY <2>1, <2>5, RoundTable DEF WholeRound, Diff
    <3> QED
      BY <2>1, <2>2, <2>5, <3>1 DEF AtMostTwoRounds
  <2> QED
    BY <2>3, <2>4, <2>5 DEF IInv
<1> QED
  BY <1>1, Invariant, PTL

(***************************************************************************)
(* CompareDesiredActual returns "none" exactly when the desired state is   *)
(* satisfied: it neither overlooks a difference nor finds one in vain.     *)
(***************************************************************************)
THEOREM QuietMeansSatisfied == Spec => []QuietIffSatisfied
<1>1. IInv => QuietIffSatisfied
  BY DecisionTable DEF IInv, TypeOK, QuietIffSatisfied, Diff
<1> QED
  BY <1>1, Invariant, PTL

(***************************************************************************)
(* Every request goes out with an id ECSM still knows, also after the      *)
(* update that comes before a start or a stop replaced it.                 *)
(***************************************************************************)
THEOREM RequestsAccepted == Spec => []NeverRefused
<1>1. IInv => NeverRefused
  <2> SUFFICES ASSUME IInv, todo # <<>> PROVE Accepts(actual, Head(todo), sid)
    BY DEF NeverRefused
  <2>1. desired \in DesiredState /\ actual \in Actual
    BY DEF IInv, TypeOK
  <2>2. ASSUME Head(todo).op # "create", Found(actual), sid = actual.id
        PROVE  Accepts(actual, Head(todo), sid)
    BY <2>2 DEF Accepts
  <2>3. CASE LastRequest
    BY <2>2, <2>3 DEF LastRequest, Start, Stop
  <2>4. CASE WholeRound /\ OneCreate(desired, actual, todo)
    BY <2>1, <2>4, ActualFields DEF Accepts, OneCreate, Create
  <2>5. CASE WholeRound /\ OneUpdate(desired, actual, todo)
    BY <2>2, <2>5 DEF WholeRound, OneUpdate, Update
  <2>6. CASE WholeRound /\ OneAction(desired, actual, todo)
    BY <2>2, <2>6 DEF WholeRound, OneAction, Start, Stop
  <2>7. CASE WholeRound /\ UpdateThenAction(desired, actual, todo)
    BY <2>2, <2>7 DEF WholeRound, UpdateThenAction, Update
  <2> QED
    BY <2>1, <2>3, <2>4, <2>5, <2>6, <2>7, RoundTable DEF IInv, WholeRound, Diff
<1> QED
  BY <1>1, Invariant, PTL

(***************************************************************************)
(* What the reconciler decides the client carries out: its guards never    *)
(* turn a decision into a round that sends nothing.                        *)
(***************************************************************************)
THEOREM Executable == Spec => []DecisionsExecutable
<1>1. IInv => DecisionsExecutable
  <2> SUFFICES ASSUME IInv, Diff # "none" PROVE Apply(Diff, desired, actual) # <<>>
    BY DEF DecisionsExecutable
  <2> DEFINE reqs == Apply(Diff, desired, actual)
  <2>1. desired \in DesiredState /\ actual \in Actual
    BY DEF IInv, TypeOK
  <2>2. \/ OneCreate(desired, actual, reqs)
        \/ OneUpdate(desired, actual, reqs)
        \/ OneAction(desired, actual, reqs)
        \/ UpdateThenAction(desired, actual, reqs)
    BY <2>1, RoundTable DEF Diff
  <2> QED
    BY <2>1, <2>2, RoundTypes
<1> QED
  BY <1>1, Invariant, PTL
=============================================================================
