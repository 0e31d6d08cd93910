-------------------------- MODULE ControllerProofs --------------------------
(***************************************************************************)
(* Proofs about Controller for any services, desired states, counts, ids,  *)
(* sizes of the event buffers and numbers of faults.                       *)
(***************************************************************************)
EXTENDS Controller, SequenceTheorems, TLAPS

-----------------------------------------------------------------------------
(* Queues of names *)

\* What appending a new name does to a sequence without repetitions.
LEMMA AppendNew ==
  ASSUME NEW S, NEW q \in Seq(S), NEW s \in S
  PROVE  /\ Append(q, s) \in Seq(S)
         /\ Append(q, s) # <<>>
         /\ Len(Append(q, s)) = Len(q) + 1
         /\ Range(Append(q, s)) = Range(q) \union {s}
         /\ s \notin Range(q) /\ IsInjective(q) => IsInjective(Append(q, s))
<1>1. /\ Append(q, s) \in Seq(S)
      /\ Append(q, s) # <<>>
      /\ Len(Append(q, s)) = Len(q) + 1
      /\ \A i \in 1 .. Len(q) : Append(q, s)[i] = q[i]
      /\ Append(q, s)[Len(q) + 1] = s
  BY AppendProperties
<1>2. /\ DOMAIN q = 1 .. Len(q)
      /\ DOMAIN Append(q, s) = 1 .. (Len(q) + 1)
      /\ Len(q) \in Nat
  BY <1>1
<1>3. Range(Append(q, s)) = Range(q) \union {s}
  BY <1>1, <1>2 DEF Range
<1>4. ASSUME s \notin Range(q), IsInjective(q)
      PROVE  IsInjective(Append(q, s))
  BY <1>1, <1>2, <1>4 DEF Range, IsInjective
<1> QED
  BY <1>1, <1>3, <1>4

\* What taking the head off a sequence without repetitions does to it.
LEMMA TakeHead ==
  ASSUME NEW S, NEW q \in Seq(S), q # <<>>
  PROVE  /\ Head(q) \in S
         /\ Head(q) \in Range(q)
         /\ Tail(q) \in Seq(S)
         /\ Len(Tail(q)) = Len(q) - 1
         /\ Range(Tail(q)) \union {Head(q)} = Range(q)
         /\ IsInjective(q) => IsInjective(Tail(q)) /\ Head(q) \notin Range(Tail(q))
<1>1. /\ Head(q) \in S
      /\ Tail(q) \in Seq(S)
      /\ Len(Tail(q)) = Len(q) - 1
      /\ \A i \in 1 .. Len(Tail(q)) : Tail(q)[i] = q[i + 1]
  BY HeadTailProperties
<1>2. /\ Len(q) \in Nat \ {0}
      /\ DOMAIN q = 1 .. Len(q)
      /\ DOMAIN Tail(q) = 1 .. (Len(q) - 1)
      /\ Head(q) = q[1]
  BY <1>1
<1>3. Head(q) \in Range(q)
  BY <1>2 DEF Range
<1>4. ASSUME NEW x \in Range(q), x # Head(q)
      PROVE  x \in Range(Tail(q))
  <2>1. PICK i \in 1 .. Len(q) : q[i] = x
    BY <1>2, <1>4 DEF Range
  <2>2. i - 1 \in 1 .. (Len(q) - 1) /\ (i - 1) + 1 = i
    BY <2>1, <1>2, <1>4
  <2> QED
    BY <2>1, <2>2, <1>1, <1>2 DEF Range
<1>5. ASSUME NEW x \in Range(Tail(q))
      PROVE  x \in Range(q)
  BY <1>1, <1>2, <1>5 DEF Range
<1>6. ASSUME IsInjective(q)
      PROVE  IsInjective(Tail(q)) /\ Head(q) \notin Range(Tail(q))
  BY <1>1, <1>2, <1>6 DEF IsInjective, Range
<1> QED
  BY <1>1, <1>3, <1>4, <1>5, <1>6

-----------------------------------------------------------------------------
(* What ECSM reports, and the requests sent to it *)

\* The fields of what ECSM reports, for a service and for a missing one.
LEMMA ActualFields ==
  ASSUME NEW a \in Actual
  PROVE  /\ a.id \in Ids \union {0}
         /\ a.active \in Counts /\ a.active \in Nat
         /\ a.factor \in Counts /\ a.factor \in Nat
         /\ a.running \in BOOLEAN /\ a.started \in BOOLEAN
         /\ Found(a) <=> a \in Service
         /\ ~Found(a) <=> a = Absent
         /\ Found(a) => a.factor > 0
<1>1. CASE a \in Service
  <2>1. /\ a.id \in Ids /\ a.factor \in Counts \ {0} /\ a.active \in Counts
        /\ a.running \in BOOLEAN /\ a.started \in BOOLEAN
    BY <1>1 DEF Service
  <2>2. Found(a) /\ a # Absent
    BY <2>1, IdsAssumption DEF Found, Absent
  <2>3. a.active \in Nat /\ a.factor \in Nat \ {0}
    BY <2>1, CountsAssumption
  <2>4. a.factor > 0
    BY <2>3
  <2> QED
    BY <1>1, <2>1, <2>2, <2>3, <2>4, Zenon
<1>2. CASE a = Absent
  <2>1. a.id = 0 /\ a.factor = 0 /\ a.active = 0 /\ a.running = FALSE /\ a.started = FALSE
    BY <1>2 DEF Absent
  <2>2. a \notin Service
    BY <2>1, IdsAssumption DEF Service
  <2> QED
    BY <1>2, <2>1, <2>2, CountsAssumption DEF Found
<1> QED
  BY <1>1, <1>2 DEF Actual

\* Requests as Apply composes them: no service is given zero instances.
ValidRequest == {r \in Request : r.op \in {"create", "update"} => r.factor # 0}

\* A sequence of valid requests is a sequence of requests.
LEMMA ValidRequests ==
  ASSUME NEW q \in Seq(ValidRequest)
  PROVE  q \in Seq(Request)
BY DEF ValidRequest

\* The requests of any decision are valid: updates have a factor, creates at least one.
LEMMA ApplyTypes ==
  ASSUME NEW d \in DesiredState, NEW a \in Actual
  PROVE  Apply(CompareDesiredActual(d, a), d, a) \in Seq(ValidRequest)
<1> DEFINE diff == CompareDesiredActual(d, a)
<1>1. d.replicas \in Counts /\ d.replicas \in Nat /\ d.action \in {"start", "stop"}
  BY CountsAssumption DEF DesiredState
<1>2. diff \in DiffAction
  BY <1>1 DEF CompareDesiredActual, ReplicaDiff, RunDiff, DiffAction
<1>3. /\ Start \in ValidRequest /\ Stop \in ValidRequest
      /\ \A n \in Counts \ {0} : Create(n) \in ValidRequest /\ Update(n) \in ValidRequest
  BY CountsAssumption DEF Start, Stop, Create, Update, Request, ValidRequest
<1>4. CreateService(d) \in Seq(ValidRequest)
  <2>1. (IF d.replicas > 0 THEN d.replicas ELSE 1) \in Counts \ {0}
    BY <1>1, CountsAssumption
  <2> QED
    BY <1>3, <2>1 DEF CreateService
<1>5. d.replicas > 0 => <<Update(d.replicas)>> \in Seq(ValidRequest)
  BY <1>1, <1>3
<1>6. UpdateFirst(d, a) \in Seq(ValidRequest)
  BY <1>5, EmptySeq DEF UpdateFirst, ReplicasDiffer
<1>7. StartByID(d, a) \in Seq(ValidRequest) /\ StopByID(d, a) \in Seq(ValidRequest)
  BY <1>3, <1>6, AppendProperties DEF StartByID, StopByID
<1>8. d.replicas > 0 => ScaleByID(d, a) \in Seq(ValidRequest)
  BY <1>1, <1>3, <1>5 DEF ScaleByID
<1> HIDE DEF diff
<1>9. /\ ~Accepted(diff, d, a) \/ diff = "none" => Apply(diff, d, a) = <<>>
      /\ Accepted(diff, d, a) =>
           /\ diff = "need_create" => Apply(diff, d, a) = CreateService(d)
           /\ diff = "need_start" => Apply(diff, d, a) = StartByID(d, a)
           /\ diff = "need_stop" => Apply(diff, d, a) = StopByID(d, a)
           /\ diff \in {"need_scale_out", "need_scale_in"} =>
                d.replicas > 0 /\ Apply(diff, d, a) = ScaleByID(d, a)
  BY DEF Apply, Accepted
<1>10. Apply(diff, d, a) \in Seq(ValidRequest)
  BY <1>2, <1>4, <1>7, <1>8, <1>9, EmptySeq DEF DiffAction
<1> QED
  BY <1>10 DEF diff

\* A valid request that ECSM accepts leaves a service ECSM can report.
LEMMA ConfiguredType ==
  ASSUME NEW a \in Actual, NEW r \in ValidRequest, NEW old, Accepts(a, r, old),
         NEW id \in Ids \union {0}, r.op \in {"create", "update"} => id \in Ids
  PROVE  Configured(a, r, id) \in Service
<1>1. /\ r.op \in {"create", "update", "start", "stop"} /\ r.factor \in Counts
      /\ r.op \in {"create", "update"} => r.factor # 0
  BY DEF ValidRequest, Request
<1>2. r.op # "create" => a \in Service
  BY ActualFields DEF Accepts
<1>3. CASE r.op = "create"
  <2>1. Configured(a, r, id)
          = [id |-> id, factor |-> r.factor, active |-> 0, running |-> FALSE, started |-> TRUE]
    BY <1>3 DEF Configured
  <2> QED
    BY <1>1, <1>3, <2>1, CountsAssumption DEF Service
<1>4. CASE r.op = "update"
  <2>1. Configured(a, r, id) = [a EXCEPT !.id = id, !.factor = r.factor]
    BY <1>4 DEF Configured
  <2> QED
    BY <1>1, <1>2, <1>4, <2>1 DEF Service
<1>5. CASE r.op = "start"
  <2>1. Configured(a, r, id) = [a EXCEPT !.started = TRUE]
    BY <1>5 DEF Configured
  <2> QED
    BY <1>2, <1>5, <2>1 DEF Service
<1>6. CASE r.op = "stop"
  <2>1. Configured(a, r, id) = [a EXCEPT !.started = FALSE]
    BY <1>6 DEF Configured
  <2> QED
    BY <1>2, <1>6, <2>1 DEF Service
<1> QED
  BY <1>1, <1>3, <1>4, <1>5, <1>6

\* What ECSM reports once it has caught up is again something it can report.
LEMMA SettledType ==
  ASSUME NEW a \in Actual
  PROVE  Settled(a) \in Actual
<1>1. CASE Found(a)
  <2>1. a \in Service /\ Settled(a) = [a EXCEPT !.active = a.factor, !.running = a.started]
    BY <1>1, ActualFields DEF Settled
  <2> QED
    BY <2>1 DEF Service, Actual
<1>2. CASE ~Found(a)
  BY <1>2 DEF Settled
<1> QED
  BY <1>1, <1>2

-----------------------------------------------------------------------------
(* The invariant *)

\* What the worker holds fits where it is, and every request is valid.
WorkerHolds ==
  /\ wpc \in {"collect", "apply"} => want \in Writable
  /\ wpc = "apply" => todo # <<>>
  /\ todo \in Seq(ValidRequest)
  /\ \A l \in late : l.request \in ValidRequest

IInv ==
  /\ TypeOK
  /\ OneAtATime
  /\ IsInjective(line)
  /\ WorkerHolds
  /\ UpdateTracked
  /\ StaleOnlyIfOvertaken

-----------------------------------------------------------------------------
\* A spent budget is a budget.
LEMMA SpendType ==
  ASSUME budget \in Budget,
         NEW kind \in {"writes", "faults", "drifts", "crashes"}, Spend(kind)
  PROVE  budget' \in Budget
<1>1. budget[kind] \in Nat /\ budget[kind] - 1 \in Nat
  BY DEF Budget, Spend
<1>2. budget' = [budget EXCEPT ![kind] = budget[kind] - 1]
  BY DEF Spend
<1> QED
  BY <1>1, <1>2 DEF Budget

\* The fields of what the registry holds.
LEMMA WritableStates ==
  /\ Writable \subseteq DesiredState
  /\ NoState \notin Writable
<1>1. NoState \notin DesiredState
  BY DEF NoState, DesiredState
<1> QED
  BY <1>1, ControllerAssumption

\* A process that starts on any registry and any ECSM satisfies the invariant.
LEMMA InitInv == Init => IInv
<1> SUFFICES ASSUME Init PROVE IInv
  OBVIOUS
<1>1. /\ ring = <<>> /\ out = <<>> /\ line = <<>> /\ busy = {} /\ late = {}
      /\ wpc = "get" /\ want = NoState /\ todo = <<>> /\ sid = 0
      /\ spc = "idle" /\ repair = {} /\ page = {} /\ unread = {} /\ missed = {}
  BY DEF Init, Q!QueueInit
<1>2. Len(ring) <= RingSize /\ Len(out) <= OutSize
  BY <1>1, ControllerAssumption
<1>3. /\ ring \in Seq(Services) /\ out \in Seq(Services) /\ line \in Seq(Services)
      /\ todo \in Seq(Request) /\ todo \in Seq(ValidRequest)
  BY <1>1, EmptySeq
<1>4. /\ desired \in [Services -> Writable \union {NoState}]
      /\ listed \in [Services -> Writable \union {NoState}]
      /\ actual \in [Services -> Actual]
  BY ControllerAssumption DEF Init, Nothing
<1>5. budget \in Budget
  BY ControllerAssumption DEF Init, Budget
<1>6. TypeOK
  BY <1>1, <1>2, <1>3, <1>4, <1>5 DEF TypeOK
<1>7. OneAtATime /\ IsInjective(line)
  BY <1>1 DEF OneAtATime, IsInjective
<1> QED
  BY <1>1, <1>3, <1>6, <1>7
     DEF IInv, WorkerHolds, UpdateTracked, StaleOnlyIfOvertaken

-----------------------------------------------------------------------------
(***************************************************************************)
(* Steps that leave the registry, its events, the queue and the worker     *)
(* alone: those of the scanner before it adds, and those of ECSM.          *)
(***************************************************************************)
LEMMA Aside ==
  ASSUME IInv, TypeOK',
         UNCHANGED <<desired, eventVars, queueVars, workerVars, historyVars>>,
         \A l \in late' : l.request \in ValidRequest
  PROVE  IInv'
<1>1. /\ desired' = desired /\ ring' = ring /\ out' = out /\ line' = line /\ busy' = busy
      /\ wpc' = wpc /\ want' = want /\ todo' = todo /\ sid' = sid
      /\ unread' = unread /\ missed' = missed
  BY DEF eventVars, queueVars, workerVars, historyVars
<1>2. OneAtATime' /\ IsInjective(line)'
  BY <1>1 DEF IInv, OneAtATime
<1>3. WorkerHolds'
  BY <1>1 DEF IInv, WorkerHolds
<1>4. UpdateTracked'
  BY <1>1 DEF IInv, UpdateTracked, Queued
<1>5. StaleOnlyIfOvertaken'
  BY <1>1 DEF IInv, StaleOnlyIfOvertaken
<1> QED
  BY <1>2, <1>3, <1>4, <1>5 DEF IInv

(***************************************************************************)
(* Steps of the worker while it has a service: it may have read the        *)
(* registry (then nothing is unread, or the update counts as missed), it   *)
(* may go on with a state that is current or overtaken, or return.         *)
(***************************************************************************)
LEMMA Within ==
  ASSUME IInv, TypeOK',
         UNCHANGED <<desired, eventVars, queueVars>>,
         wpc # "get", wpc' \notin {"get", "query"},
         unread' \subseteq unread,
         \A t \in unread' : t \in missed => t \in missed',
         wpc = "query" => \A t \in busy : t \in unread' => t \in missed',
         wpc' \in {"collect", "apply"} =>
           want' \in Writable /\ \A t \in busy : want' = desired[t] \/ t \in unread',
         wpc' = "apply" => todo' # <<>>,
         todo' \in Seq(ValidRequest),
         \A l \in late' : l.request \in ValidRequest
  PROVE  IInv'
<1>1. desired' = desired /\ ring' = ring /\ out' = out /\ line' = line /\ busy' = busy
  BY DEF eventVars, queueVars
<1>2. OneAtATime' /\ IsInjective(line)'
  BY <1>1 DEF IInv, OneAtATime
<1>3. WorkerHolds'
  BY DEF WorkerHolds
<1>4. UpdateTracked'
  <2> SUFFICES ASSUME NEW s \in unread'
               PROVE  Queued(s)' \/ s \in missed'
    BY DEF UpdateTracked
  <2>1. Queued(s) \/ s \in missed
    BY DEF IInv, UpdateTracked
  <2>2. CASE s \in missed
    BY <2>2
  <2>3. CASE s \in busy /\ wpc = "query"
    BY <2>3
  <2>4. CASE s \in Range(ring) \/ s \in Range(out) \/ s \in Range(line)
    BY <1>1, <2>4 DEF Queued
  <2> QED
    BY <2>1, <2>2, <2>3, <2>4 DEF Queued
<1>5. StaleOnlyIfOvertaken'
  BY <1>1 DEF StaleOnlyIfOvertaken
<1> QED
  BY <1>2, <1>3, <1>4, <1>5 DEF IInv

-----------------------------------------------------------------------------
\* The registry and its events.
LEMMA WriteDesiredInv ==
  ASSUME IInv, NEW s \in Services, NEW d \in Writable \union {NoState}, WriteDesired(s, d)
  PROVE  IInv'
<1>1. TypeOK
  BY DEF IInv
<1>2. /\ desired' = [desired EXCEPT ![s] = d] /\ unread' = unread \union {s}
      /\ out' = out /\ line' = line /\ busy' = busy
      /\ wpc' = wpc /\ want' = want /\ todo' = todo /\ sid' = sid
      /\ spc' = spc /\ listed' = listed /\ repair' = repair /\ page' = page
      /\ actual' = actual /\ late' = late
      /\ Spend("writes") /\ Emit(s)
  BY DEF WriteDesired, queueVars, workerVars, scannerVars, ecsmVars
<1>3. budget' \in Budget
  BY <1>1, <1>2, SpendType DEF TypeOK
<1>4. ring \in Seq(Services) /\ Len(ring) <= RingSize
  BY <1>1 DEF TypeOK
<1>5. /\ ring' \in Seq(Services) /\ Len(ring') <= RingSize
      /\ s \in Range(ring')
      /\ missed \subseteq missed' /\ missed' \subseteq Services
      /\ \A t \in Range(ring) : t \in Range(ring') \/ t \in missed'
  <2>1. CASE Len(ring) < RingSize
    <3>1. ring' = Append(ring, s) /\ missed' = missed
      BY <1>2, <2>1 DEF Emit
    <3>2. Len(ring) + 1 <= RingSize
      BY <1>4, <2>1, ControllerAssumption
    <3>3. missed \subseteq Services
      BY <1>1 DEF TypeOK
    <3> QED
      BY <1>4, <3>1, <3>2, <3>3, AppendNew
  <2>2. CASE ~(Len(ring) < RingSize)
    <3>1. ring' = Append(Tail(ring), s) /\ missed' = missed \union {Head(ring)}
      BY <1>2, <2>2 DEF Emit
    <3>2. Len(ring) = RingSize /\ ring # <<>>
      BY <1>4, <2>2, ControllerAssumption
    <3>3. /\ Tail(ring) \in Seq(Services) /\ Head(ring) \in Services
          /\ Len(Tail(ring)) = Len(ring) - 1
          /\ Range(Tail(ring)) \union {Head(ring)} = Range(ring)
      BY <1>4, <3>2, TakeHead
    <3>4. ASSUME NEW q \in Seq(Services)
          PROVE  /\ Append(q, s) \in Seq(Services)
                 /\ Len(Append(q, s)) = Len(q) + 1
                 /\ Range(Append(q, s)) = Range(q) \union {s}
      BY AppendNew
    <3>5. Len(ring') <= RingSize
      BY <3>1, <3>2, <3>3, <3>4, ControllerAssumption
    <3>6. missed \subseteq Services
      BY <1>1 DEF TypeOK
    <3> QED
      BY <3>1, <3>3, <3>4, <3>5, <3>6
  <2> QED
    BY <2>1, <2>2
<1>6. desired' \in [Services -> Writable \union {NoState}] /\ unread' \subseteq Services
  BY <1>1, <1>2 DEF TypeOK
<1>7. TypeOK'
  BY <1>1, <1>2, <1>3, <1>5, <1>6 DEF TypeOK
<1>8. OneAtATime' /\ IsInjective(line)' /\ WorkerHolds'
  BY <1>2 DEF IInv, OneAtATime, WorkerHolds
<1>9. UpdateTracked'
  <2> SUFFICES ASSUME NEW t \in unread', t \notin missed'
               PROVE  Queued(t)'
    BY DEF UpdateTracked
  <2>1. CASE t = s
    BY <1>5, <2>1 DEF Queued
  <2>2. CASE t # s
    <3>1. Queued(t)
      BY <1>2, <1>5, <2>2 DEF IInv, UpdateTracked
    <3> QED
      BY <1>2, <1>5, <3>1 DEF Queued
  <2> QED
    BY <2>1, <2>2
<1>10. StaleOnlyIfOvertaken'
  <2> SUFFICES ASSUME NEW t \in busy, wpc \in {"collect", "apply"}, t # s
               PROVE  want = desired'[t] \/ t \in unread'
    BY <1>2 DEF StaleOnlyIfOvertaken
  <2>1. desired'[t] = desired[t]
    BY <1>1, <1>2 DEF TypeOK
  <2> QED
    BY <1>2, <2>1 DEF IInv, StaleOnlyIfOvertaken
<1> QED
  BY <1>7, <1>8, <1>9, <1>10 DEF IInv

\* Handing an event on neither loses nor invents one.
LEMMA ForwardInv ==
  ASSUME IInv, Forward
  PROVE  IInv'
<1>1. TypeOK
  BY DEF IInv
<1>2. /\ desired' = desired /\ line' = line /\ busy' = busy
      /\ wpc' = wpc /\ want' = want /\ todo' = todo /\ sid' = sid
      /\ spc' = spc /\ listed' = listed /\ repair' = repair /\ page' = page
      /\ actual' = actual /\ late' = late
      /\ unread' = unread /\ missed' = missed /\ budget' = budget
      /\ ring # <<>> /\ Len(out) < OutSize
      /\ out' = Append(out, Head(ring)) /\ ring' = Tail(ring)
  BY DEF Forward, queueVars, workerVars, scannerVars, ecsmVars, historyVars
<1>3. /\ ring \in Seq(Services) /\ Len(ring) <= RingSize
      /\ out \in Seq(Services) /\ Len(out) <= OutSize
  BY <1>1 DEF TypeOK
<1>4. /\ Head(ring) \in Services /\ ring' \in Seq(Services)
      /\ Len(ring') = Len(ring) - 1
      /\ Range(ring') \union {Head(ring)} = Range(ring)
  BY <1>2, <1>3, TakeHead
<1>5. /\ out' \in Seq(Services) /\ Len(out') = Len(out) + 1
      /\ Range(out') = Range(out) \union {Head(ring)}
  BY <1>2, <1>3, <1>4, AppendNew
<1>6. Len(ring') <= RingSize /\ Len(out') <= OutSize
  BY <1>2, <1>3, <1>4, <1>5, ControllerAssumption
<1>7. TypeOK'
  BY <1>1, <1>2, <1>4, <1>5, <1>6 DEF TypeOK
<1>8. OneAtATime' /\ IsInjective(line)' /\ WorkerHolds'
  BY <1>2 DEF IInv, OneAtATime, WorkerHolds
<1>9. UpdateTracked'
  BY <1>2, <1>4, <1>5 DEF IInv, UpdateTracked, Queued
<1>10. StaleOnlyIfOvertaken'
  BY <1>2 DEF IInv, StaleOnlyIfOvertaken
<1> QED
  BY <1>7, <1>8, <1>9, <1>10 DEF IInv

\* Adding a service to the queue.
LEMMA AddFacts ==
  ASSUME IInv, NEW s \in Services, Q!Add(s)
  PROVE  /\ busy' = busy
         /\ line' \in Seq(Services)
         /\ IsInjective(line')
         /\ Range(line) \subseteq Range(line')
         /\ Range(line') \subseteq Range(line) \union {s}
         /\ s \in busy \/ s \in Range(line')
         /\ busy \cap Range(line') = {}
<1>1. line \in Seq(Services) /\ IsInjective(line) /\ busy \cap Range(line) = {}
  BY DEF IInv, TypeOK, OneAtATime
<1>2. /\ busy' = busy
      /\ line' = IF s \in Range(line) \/ s \in busy THEN line ELSE Append(line, s)
  BY DEF Q!Add, Q!Known, Q!Range, Range
<1>3. CASE s \in Range(line) \/ s \in busy
  BY <1>1, <1>2, <1>3
<1>4. CASE ~(s \in Range(line) \/ s \in busy)
  <2>1. /\ line' \in Seq(Services) /\ IsInjective(line')
        /\ Range(line') = Range(line) \union {s}
    BY <1>1, <1>2, <1>4, AppendNew
  <2> QED
    BY <1>1, <1>2, <1>4, <2>1
<1> QED
  BY <1>3, <1>4

\* An event the queue does not take up is counted as missed or still to be read.
LEMMA WatchInv ==
  ASSUME IInv, Watch
  PROVE  IInv'
<1>1. TypeOK
  BY DEF IInv
<1>2. /\ desired' = desired /\ ring' = ring
      /\ wpc' = wpc /\ want' = want /\ todo' = todo /\ sid' = sid
      /\ spc' = spc /\ listed' = listed /\ repair' = repair /\ page' = page
      /\ actual' = actual /\ late' = late
      /\ unread' = unread /\ budget' = budget
      /\ out # <<>> /\ out' = Tail(out) /\ Q!Add(Head(out))
      /\ missed' = IF Head(out) \in busy /\ wpc # "query" THEN missed \union {Head(out)}
                                                          ELSE missed
  BY DEF Watch, workerVars, scannerVars, ecsmVars
<1>3. out \in Seq(Services) /\ Len(out) <= OutSize
  BY <1>1 DEF TypeOK
<1>4. /\ Head(out) \in Services /\ out' \in Seq(Services)
      /\ Len(out') = Len(out) - 1
      /\ Range(out') \union {Head(out)} = Range(out)
  BY <1>2, <1>3, TakeHead
<1>5. Len(out') <= OutSize
  BY <1>3, <1>4, ControllerAssumption
<1>6. /\ busy' = busy
      /\ line' \in Seq(Services)
      /\ IsInjective(line')
      /\ Range(line) \subseteq Range(line')
      /\ Head(out) \in busy \/ Head(out) \in Range(line')
      /\ busy \cap Range(line') = {}
  BY <1>2, <1>4, AddFacts
<1>7. missed' \subseteq Services
  BY <1>1, <1>2, <1>4 DEF TypeOK
<1>8. TypeOK'
  BY <1>1, <1>2, <1>4, <1>5, <1>6, <1>7 DEF TypeOK
<1>9. OneAtATime' /\ WorkerHolds'
  BY <1>2, <1>6 DEF IInv, OneAtATime, WorkerHolds
<1>10. UpdateTracked'
  BY <1>2, <1>4, <1>6 DEF IInv, UpdateTracked, Queued
<1>11. StaleOnlyIfOvertaken'
  BY <1>2, <1>6 DEF IInv, StaleOnlyIfOvertaken
<1> QED
  BY <1>6, <1>8, <1>9, <1>10, <1>11 DEF IInv

-----------------------------------------------------------------------------
\* The worker takes a service and is done with one.
LEMMA WorkerTakeInv ==
  ASSUME IInv, WorkerTake
  PROVE  IInv'
<1>1. TypeOK /\ WorkerHolds
  BY DEF IInv
<1>2. /\ desired' = desired /\ ring' = ring /\ out' = out
      /\ want' = want /\ todo' = todo /\ sid' = sid
      /\ spc' = spc /\ listed' = listed /\ repair' = repair /\ page' = page
      /\ actual' = actual /\ late' = late
      /\ unread' = unread /\ missed' = missed /\ budget' = budget
      /\ wpc = "get" /\ wpc' = "query"
      /\ line # <<>> /\ line' = Tail(line) /\ busy' = busy \union {Head(line)}
  BY DEF WorkerTake, Q!Take, eventVars, scannerVars, ecsmVars, historyVars
<1>3. busy = {} /\ line \in Seq(Services) /\ IsInjective(line)
  BY <1>2 DEF IInv, TypeOK, OneAtATime
<1>4. /\ Head(line) \in Services /\ line' \in Seq(Services)
      /\ Range(line') \union {Head(line)} = Range(line)
      /\ IsInjective(line') /\ Head(line) \notin Range(line')
  BY <1>2, <1>3, TakeHead
<1>5. busy' = {Head(line)}
  BY <1>2, <1>3
<1>6. TypeOK'
  BY <1>1, <1>2, <1>4, <1>5 DEF TypeOK
<1>7. OneAtATime'
  BY <1>2, <1>4, <1>5 DEF OneAtATime
<1>8. WorkerHolds' /\ StaleOnlyIfOvertaken'
  BY <1>1, <1>2 DEF WorkerHolds, StaleOnlyIfOvertaken
<1>9. UpdateTracked'
  BY <1>2, <1>4, <1>5 DEF IInv, UpdateTracked, Queued
<1> QED
  BY <1>4, <1>6, <1>7, <1>8, <1>9 DEF IInv

\* With the one service in process gone, nothing is in process.
LEMMA WorkerDoneInv ==
  ASSUME IInv, NEW s \in Services, WorkerDone(s)
  PROVE  IInv'
<1>1. TypeOK /\ WorkerHolds
  BY DEF IInv
<1>2. /\ desired' = desired /\ ring' = ring /\ out' = out /\ line' = line
      /\ want' = want /\ todo' = todo /\ sid' = sid
      /\ spc' = spc /\ listed' = listed /\ repair' = repair /\ page' = page
      /\ actual' = actual /\ late' = late
      /\ unread' = unread /\ missed' = missed /\ budget' = budget
      /\ wpc = "done" /\ wpc' = "get"
      /\ s \in busy /\ busy' = busy \ {s}
  BY DEF WorkerDone, Q!Done, eventVars, scannerVars, ecsmVars, historyVars
<1>3. busy' = {}
  BY <1>2 DEF IInv, OneAtATime
<1>4. TypeOK'
  BY <1>1, <1>2, <1>3 DEF TypeOK
<1>5. OneAtATime' /\ IsInjective(line)'
  BY <1>2, <1>3 DEF IInv, OneAtATime
<1>6. WorkerHolds' /\ StaleOnlyIfOvertaken'
  BY <1>1, <1>2 DEF WorkerHolds, StaleOnlyIfOvertaken
<1>7. UpdateTracked'
  BY <1>2 DEF IInv, UpdateTracked, Queued
<1> QED
  BY <1>4, <1>5, <1>6, <1>7 DEF IInv

-----------------------------------------------------------------------------
(***************************************************************************)
(* The steps of the worker in between.                                     *)
(***************************************************************************)

\* The variables such a step may change, when it leaves ECSM alone.
WorkerLeaves == UNCHANGED <<desired, eventVars, queueVars, scannerVars, actual>>

\* Reconcile may return from anywhere after Get.
LEMMA ReturnInv ==
  ASSUME IInv, WorkerLeaves, Return, wpc # "get",
         budget' \in Budget, unread' \subseteq unread,
         missed' \subseteq Services,
         \A t \in unread' : t \in missed => t \in missed',
         wpc = "query" => \A t \in busy : t \in unread' => t \in missed',
         late' \subseteq [service : Services, request : Request, id : Ids \union {0}],
         \A l \in late' : l.request \in ValidRequest
  PROVE  IInv'
<1>1. TypeOK
  BY DEF IInv
<1>2. wpc' = "done" /\ want' = NoState /\ todo' = <<>> /\ sid' = 0
  BY DEF Return
<1>3. todo' \in Seq(Request) /\ todo' \in Seq(ValidRequest)
  BY <1>2, EmptySeq
<1>4. TypeOK'
  BY <1>1, <1>2, <1>3 DEF TypeOK, WorkerLeaves, eventVars, queueVars, scannerVars
<1>5. UNCHANGED <<desired, eventVars, queueVars>>
  BY DEF WorkerLeaves
<1> QED
  BY <1>2, <1>3, <1>4, <1>5, Within

\* What the worker read is what the registry holds.
LEMMA WorkerQueryInv ==
  ASSUME IInv, NEW s \in Services, WorkerQuery(s)
  PROVE  IInv'
<1>1. TypeOK /\ WorkerHolds
  BY DEF IInv
<1>2. /\ UNCHANGED <<desired, eventVars, queueVars>> /\ WorkerLeaves
      /\ late' = late /\ budget' = budget
      /\ wpc = "query" /\ s \in busy
      /\ unread' = unread \ {s} /\ missed' = missed \ {s}
  BY DEF WorkerQuery, WorkerLeaves, ecsmVars
<1>3. \A t \in busy : t = s
  BY <1>2 DEF IInv, OneAtATime
<1>4. CASE desired[s] = NoState
  <2>1. Return
    BY <1>4 DEF WorkerQuery
  <2> QED
    BY <1>1, <1>2, <1>3, <2>1, ReturnInv DEF TypeOK, WorkerHolds
<1>5. CASE desired[s] # NoState
  <2>1. wpc' = "collect" /\ want' = desired[s] /\ todo' = todo /\ sid' = sid
    BY <1>5 DEF WorkerQuery
  <2>2. want' \in Writable
    BY <1>1, <1>5, <2>1 DEF TypeOK
  <2>3. TypeOK'
    BY <1>1, <1>2, <2>1, <2>2
       DEF TypeOK, WorkerLeaves, eventVars, queueVars, scannerVars
  <2>4. \A t \in busy : want' = desired[t]
    BY <1>3, <2>1
  <2> QED
    BY <1>1, <1>2, <1>3, <2>1, <2>2, <2>3, <2>4, Within DEF WorkerHolds
<1> QED
  BY <1>4, <1>5

\* A failed read counts the update of the service in hand as missed.
LEMMA WorkerQueryFailsInv ==
  ASSUME IInv, WorkerQueryFails
  PROVE  IInv'
<1>1. TypeOK /\ WorkerHolds
  BY DEF IInv
<1>2. /\ WorkerLeaves /\ Return /\ wpc = "query"
      /\ late' = late /\ unread' = unread /\ missed' = missed \union busy
      /\ Spend("faults")
  BY DEF WorkerQueryFails, WorkerLeaves, ecsmVars
<1>3. budget' \in Budget
  BY <1>1, <1>2, SpendType DEF TypeOK
<1> QED
  BY <1>1, <1>2, <1>3, ReturnInv DEF TypeOK, WorkerHolds

\* The requests of a decision are valid; the id is the collected one.
LEMMA WorkerCollectInv ==
  ASSUME IInv, NEW s \in Services, WorkerCollect(s)
  PROVE  IInv'
<1>1. TypeOK /\ WorkerHolds
  BY DEF IInv
<1> DEFINE requests == RequestsFor(s, want, actual[s])
<1>2. /\ UNCHANGED <<desired, eventVars, queueVars>> /\ WorkerLeaves
      /\ late' = late /\ unread' = unread /\ missed' = missed /\ budget' = budget
      /\ wpc = "collect" /\ s \in busy
  BY DEF WorkerCollect, WorkerLeaves, ecsmVars, historyVars
<1>3. want \in DesiredState /\ want \in Writable
  BY <1>1, <1>2, WritableStates DEF WorkerHolds
<1>4. actual[s] \in Actual
  BY <1>1 DEF TypeOK
<1>5. requests \in Seq(ValidRequest)
  <2>1. Apply(CompareDesiredActual(want, actual[s]), want, actual[s]) \in Seq(ValidRequest)
    BY <1>3, <1>4, ApplyTypes
  <2>2. <<>> \in Seq(ValidRequest)
    BY EmptySeq
  <2> QED
    BY <2>1, <2>2 DEF RequestsFor
<1>6. CASE requests = <<>>
  <2>1. Return
    BY <1>6 DEF WorkerCollect
  <2> QED
    BY <1>1, <1>2, <2>1, ReturnInv DEF TypeOK, WorkerHolds
<1>7. CASE requests # <<>>
  <2>1. /\ wpc' = "apply" /\ todo' = requests
        /\ sid' = actual[s].id /\ want' = want
    BY <1>7 DEF WorkerCollect
  <2>2. requests \in Seq(Request)
    BY <1>5, ValidRequests
  <2>3. actual[s].id \in Ids \union {0}
    BY <1>4, ActualFields
  <2> HIDE DEF requests
  <2>4. TypeOK'
    BY <1>1, <1>2, <2>1, <2>2, <2>3
       DEF TypeOK, WorkerLeaves, eventVars, queueVars, scannerVars
  <2>5. \A t \in busy : want' = desired[t] \/ t \in unread'
    BY <1>2, <2>1 DEF IInv, StaleOnlyIfOvertaken
  <2> QED
    BY <1>1, <1>2, <1>3, <1>5, <1>7, <2>1, <2>4, <2>5, Within DEF WorkerHolds
<1> QED
  BY <1>6, <1>7

\* A failed collection ends the reconciliation.
LEMMA WorkerCollectFailsInv ==
  ASSUME IInv, WorkerCollectFails
  PROVE  IInv'
<1>1. TypeOK /\ WorkerHolds
  BY DEF IInv
<1>2. /\ WorkerLeaves /\ Return /\ wpc = "collect"
      /\ late' = late /\ unread' = unread /\ missed' = missed
      /\ Spend("faults")
  BY DEF WorkerCollectFails, WorkerLeaves, ecsmVars, historyVars
<1>3. budget' \in Budget
  BY <1>1, <1>2, SpendType DEF TypeOK
<1> QED
  BY <1>1, <1>2, <1>3, ReturnInv DEF TypeOK, WorkerHolds

\* The next request the worker sends is valid, and so are those after it.
LEMMA NextRequest ==
  ASSUME IInv, wpc = "apply"
  PROVE  /\ Head(todo) \in ValidRequest /\ Head(todo) \in Request
         /\ Tail(todo) \in Seq(ValidRequest)
         /\ Len(todo) # 1 => Tail(todo) # <<>>
<1>1. todo \in Seq(ValidRequest) /\ todo # <<>>
  BY DEF IInv, WorkerHolds
<1>2. /\ Head(todo) \in ValidRequest
      /\ Tail(todo) \in Seq(ValidRequest)
      /\ Len(Tail(todo)) = Len(todo) - 1
  BY <1>1, TakeHead
<1>3. ASSUME Tail(todo) = <<>>
      PROVE  Len(todo) = 1
  <2>1. Len(Tail(todo)) = 0
    BY <1>3, EmptySeq
  <2>2. Len(todo) \in Nat
    BY <1>1, LenProperties
  <2>3. ASSUME NEW n \in Nat, n - 1 = 0 PROVE n = 1
    BY <2>3
  <2>4. Len(todo) - 1 = 0
    BY <1>2, <2>1, Zenon
  <2> QED
    BY <2>2, <2>3, <2>4, Zenon
<1> QED
  BY <1>2, <1>3 DEF ValidRequest

\* An id a service may have after a request is one ECSM gives.
LEMMA NextIdsType ==
  ASSUME NEW a \in Actual, NEW r, NEW id \in NextIds(a, r)
  PROVE  /\ id \in Ids \union {0}
         /\ r.op \in {"create", "update"} => id \in Ids
BY ActualFields DEF NextIds

\* An accepted request leaves a service ECSM can report, and the rest of the round.
LEMMA WorkerSendInv ==
  ASSUME IInv, NEW s \in Services, NEW id \in Ids, WorkerSend(s, id)
  PROVE  IInv'
<1>1. TypeOK /\ WorkerHolds
  BY DEF IInv
<1>2. /\ UNCHANGED <<desired, eventVars, queueVars>>
      /\ UNCHANGED scannerVars
      /\ late' = late /\ unread' = unread /\ missed' = missed /\ budget' = budget
      /\ wpc = "apply" /\ s \in busy
      /\ Accepts(actual[s], Head(todo), sid)
      /\ actual' = [actual EXCEPT ![s] = Configured(actual[s], Head(todo), id)]
  BY DEF WorkerSend, historyVars
<1>3. actual[s] \in Actual
  BY <1>1 DEF TypeOK
<1>4. Head(todo) \in ValidRequest
  BY <1>2, NextRequest
<1>5. Configured(actual[s], Head(todo), id) \in Service
  BY <1>2, <1>3, <1>4, ConfiguredType
<1>6. actual' \in [Services -> Actual]
  BY <1>1, <1>2, <1>5 DEF TypeOK, Actual
<1>7. \/ wpc' = "done" /\ want' = NoState /\ todo' = <<>> /\ sid' = 0
      \/ wpc' = wpc /\ want' = want /\ todo' = Tail(todo) /\ sid' = id /\ Len(todo) # 1
  BY DEF WorkerSend, Return
<1>8. todo' \in Seq(ValidRequest) /\ (wpc' = "apply" => todo' # <<>>)
  BY <1>2, <1>7, NextRequest, EmptySeq
<1>9. todo' \in Seq(Request)
  BY <1>8, ValidRequests
<1>10. TypeOK'
  BY <1>1, <1>2, <1>6, <1>7, <1>9 DEF TypeOK, eventVars, queueVars, scannerVars
<1>11. wpc' \in {"collect", "apply"} =>
         want' \in Writable /\ \A t \in busy : want' = desired[t] \/ t \in unread'
  BY <1>2, <1>7 DEF IInv, WorkerHolds, StaleOnlyIfOvertaken
<1> QED
  BY <1>1, <1>2, <1>7, <1>8, <1>10, <1>11, Within DEF WorkerHolds

\* A refused request ends the reconciliation.
LEMMA WorkerRefusedInv ==
  ASSUME IInv, NEW s \in Services, WorkerRefused(s)
  PROVE  IInv'
<1>1. TypeOK /\ WorkerHolds
  BY DEF IInv
<1>2. /\ WorkerLeaves /\ Return /\ wpc = "apply"
      /\ late' = late /\ unread' = unread /\ missed' = missed /\ budget' = budget
  BY DEF WorkerRefused, WorkerLeaves, ecsmVars, historyVars
<1> QED
  BY <1>1, <1>2, ReturnInv DEF TypeOK, WorkerHolds

\* A request that never arrives ends the reconciliation.
LEMMA WorkerSendFailsInv ==
  ASSUME IInv, WorkerSendFails
  PROVE  IInv'
<1>1. TypeOK /\ WorkerHolds
  BY DEF IInv
<1>2. /\ WorkerLeaves /\ Return /\ wpc = "apply"
      /\ late' = late /\ unread' = unread /\ missed' = missed
      /\ Spend("faults")
  BY DEF WorkerSendFails, WorkerLeaves, ecsmVars, historyVars
<1>3. budget' \in Budget
  BY <1>1, <1>2, SpendType DEF TypeOK
<1> QED
  BY <1>1, <1>2, <1>3, ReturnInv DEF TypeOK, WorkerHolds

\* A request that arrives later is still a valid one.
LEMMA WorkerSendLateInv ==
  ASSUME IInv, NEW s \in Services, WorkerSendLate(s)
  PROVE  IInv'
<1>1. TypeOK /\ WorkerHolds
  BY DEF IInv
<1> DEFINE l0 == [service |-> s, request |-> Head(todo), id |-> sid]
<1>2. /\ WorkerLeaves /\ Return /\ wpc = "apply"
      /\ late' = late \union {l0}
      /\ unread' = unread /\ missed' = missed
      /\ Spend("faults")
  BY DEF WorkerSendLate, WorkerLeaves, historyVars
<1>3. budget' \in Budget
  BY <1>1, <1>2, SpendType DEF TypeOK
<1>4. Head(todo) \in ValidRequest /\ Head(todo) \in Request
  BY <1>2, NextRequest
<1>5. sid \in Ids \union {0}
  BY <1>1 DEF TypeOK
<1>6. l0 \in [service : Services, request : Request, id : Ids \union {0}]
  BY <1>4, <1>5
<1>7. l0.request \in ValidRequest
  BY <1>4
<1> HIDE DEF l0
<1>8. /\ late' \subseteq [service : Services, request : Request, id : Ids \union {0}]
      /\ \A l \in late' : l.request \in ValidRequest
  BY <1>1, <1>2, <1>6, <1>7 DEF TypeOK, WorkerHolds
<1> QED
  BY <1>1, <1>2, <1>3, <1>8, ReturnInv DEF TypeOK

-----------------------------------------------------------------------------
\* The scanner.
LEMMA ScannerAddInv ==
  ASSUME IInv, NEW s \in Services, ScannerAdd(s)
  PROVE  IInv'
<1>1. TypeOK
  BY DEF IInv
<1>2. /\ desired' = desired /\ ring' = ring /\ out' = out
      /\ wpc' = wpc /\ want' = want /\ todo' = todo /\ sid' = sid
      /\ listed' = listed /\ page' = page /\ repair' = repair \ {s}
      /\ spc' \in {"idle", "add"}
      /\ actual' = actual /\ late' = late
      /\ unread' = unread /\ missed' = missed /\ budget' = budget
      /\ Q!Add(s)
  BY DEF ScannerAdd, eventVars, workerVars, ecsmVars, historyVars
<1>3. /\ busy' = busy
      /\ line' \in Seq(Services)
      /\ IsInjective(line')
      /\ Range(line) \subseteq Range(line')
      /\ busy \cap Range(line') = {}
  BY <1>2, AddFacts
<1>4. TypeOK'
  BY <1>1, <1>2, <1>3 DEF TypeOK
<1>5. OneAtATime' /\ WorkerHolds'
  BY <1>2, <1>3 DEF IInv, OneAtATime, WorkerHolds
<1>6. UpdateTracked'
  BY <1>2, <1>3 DEF IInv, UpdateTracked, Queued
<1>7. StaleOnlyIfOvertaken'
  BY <1>2, <1>3 DEF IInv, StaleOnlyIfOvertaken
<1> QED
  BY <1>3, <1>4, <1>5, <1>6, <1>7 DEF IInv

\* Comparing with a snapshot of ECSM keeps the scanner's variables in their types.
LEMMA CompareWithType ==
  ASSUME NEW p, CompareWith(p)
  PROVE  /\ repair' \subseteq Services
         /\ listed' \in [Services -> Writable \union {NoState}]
         /\ spc' \in {"idle", "collect", "add"}
BY DEF CompareWith, Differing, Nothing

\* The scanner's other steps, in one: they write no more than its variables.
LEMMA ScannerInv ==
  ASSUME IInv, \/ ScannerList
               \/ ScannerListFails
               \/ ScannerCollect
               \/ ScannerCollectFails
  PROVE  IInv'
<1>1. TypeOK /\ WorkerHolds
  BY DEF IInv
<1>2. /\ UNCHANGED <<desired, eventVars, queueVars, workerVars, historyVars>>
      /\ actual' = actual /\ late' = late
  BY DEF ScannerList, ScannerListFails, ScannerCollect, ScannerCollectFails, ecsmVars
<1>3. budget' \in Budget
  <2>1. CASE budget' = budget
    BY <1>1, <2>1 DEF TypeOK
  <2>2. CASE Spend("faults")
    BY <1>1, <2>2, SpendType DEF TypeOK
  <2> QED
    BY <2>1, <2>2 DEF ScannerList, ScannerListFails, ScannerCollect, ScannerCollectFails
<1>4. /\ repair' \subseteq Services
      /\ listed' \in [Services -> Writable \union {NoState}]
      /\ spc' \in {"idle", "collect", "add"}
      /\ page' \subseteq [Services -> Actual]
  <2>1. CASE ScannerList
    BY <1>1, <2>1 DEF ScannerList, TypeOK
  <2>2. CASE ScannerListFails
    BY <1>1, <2>2 DEF ScannerListFails, TypeOK, scannerVars
  <2>3. CASE ScannerCollect
    BY <1>1, <2>3, CompareWithType DEF ScannerCollect, TypeOK
  <2>4. CASE ScannerCollectFails
    <3>1. page' = page
      BY <2>4 DEF ScannerCollectFails
    <3>2. CASE spc' = "idle" /\ listed' = Nothing /\ repair' = repair
      BY <1>1, <3>1, <3>2 DEF TypeOK, Nothing
    <3>3. CASE \E p \in page : CompareWith(p)
      BY <1>1, <3>1, <3>3, CompareWithType DEF TypeOK
    <3> QED
      BY <2>4, <3>2, <3>3 DEF ScannerCollectFails
  <2> QED
    BY <2>1, <2>2, <2>3, <2>4
<1>5. TypeOK'
  BY <1>1, <1>2, <1>3, <1>4
     DEF TypeOK, eventVars, queueVars, workerVars, historyVars
<1> QED
  BY <1>1, <1>2, <1>5, Aside DEF WorkerHolds

-----------------------------------------------------------------------------
\* ECSM on its own.
LEMMA EcsmInv ==
  ASSUME IInv,
         UNCHANGED <<desired, eventVars, queueVars, workerVars, scannerVars, historyVars>>,
         budget' \in Budget,
         actual' \in [Services -> Actual],
         late' \subseteq late
  PROVE  IInv'
<1>1. TypeOK /\ WorkerHolds
  BY DEF IInv
<1>2. TypeOK'
  BY <1>1 DEF TypeOK, eventVars, queueVars, workerVars, scannerVars, historyVars
<1> QED
  BY <1>1, <1>2, Aside DEF WorkerHolds

\* What ECSM reports catches up.
LEMMA EcsmSettlesInv ==
  ASSUME IInv, NEW s \in Services, EcsmSettles(s)
  PROVE  IInv'
<1>1. budget \in Budget /\ actual \in [Services -> Actual]
  BY DEF IInv, TypeOK
<1>2. Settled(actual[s]) \in Actual
  BY <1>1, SettledType
<1>3. /\ UNCHANGED <<desired, eventVars, queueVars, workerVars, scannerVars, historyVars>>
      /\ late' = late /\ budget' = budget
      /\ actual' = [actual EXCEPT ![s] = Settled(actual[s])]
  BY DEF EcsmSettles
<1> QED
  BY <1>1, <1>2, <1>3, EcsmInv

\* A late request is carried out or refused like any other.
LEMMA EcsmReceivesLateInv ==
  ASSUME IInv, NEW l \in late, NEW id \in Ids, EcsmReceivesLate(l, id)
  PROVE  IInv'
<1>1. /\ budget \in Budget /\ actual \in [Services -> Actual]
      /\ l.service \in Services
      /\ l.request \in ValidRequest
  BY DEF IInv, TypeOK, WorkerHolds
<1>2. /\ UNCHANGED <<desired, eventVars, queueVars, workerVars, scannerVars, historyVars>>
      /\ late' = late \ {l} /\ budget' = budget
  BY DEF EcsmReceivesLate
<1>3. CASE Accepts(actual[l.service], l.request, l.id)
  <2>1. actual[l.service] \in Actual
    BY <1>1
  <2>2. Configured(actual[l.service], l.request, id) \in Service
    BY <1>1, <1>3, <2>1, ConfiguredType
  <2>3. actual' = [actual EXCEPT ![l.service] = Configured(actual[l.service], l.request, id)]
    BY <1>3 DEF EcsmReceivesLate
  <2>4. actual' \in [Services -> Actual]
    BY <1>1, <2>2, <2>3 DEF Actual
  <2> QED
    BY <1>1, <1>2, <2>4, EcsmInv
<1>4. CASE ~Accepts(actual[l.service], l.request, l.id)
  <2>1. actual' = actual
    BY <1>4 DEF EcsmReceivesLate
  <2> QED
    BY <1>1, <1>2, <2>1, EcsmInv
<1> QED
  BY <1>3, <1>4

\* A service that was stopped, started or scaled by hand can be reported.
LEMMA DriftTypes ==
  ASSUME NEW a \in Service
  PROVE  /\ [a EXCEPT !.started = ~@] \in Actual
         /\ \A n \in Counts \ {0} : [a EXCEPT !.factor = n] \in Actual
BY DEF Service, Actual

\* A change by somebody else leaves what ECSM can report.
LEMMA EcsmDriftsInv ==
  ASSUME IInv, NEW s \in Services, EcsmDrifts(s)
  PROVE  IInv'
<1>1. budget \in Budget /\ actual \in [Services -> Actual]
  BY DEF IInv, TypeOK
<1>2. /\ UNCHANGED <<desired, eventVars, queueVars, workerVars, scannerVars, historyVars>>
      /\ late' = late
      /\ Found(actual[s]) /\ Spend("drifts")
  BY DEF EcsmDrifts
<1>3. budget' \in Budget
  BY <1>1, <1>2, SpendType
<1>4. actual[s] \in Service
  BY <1>1, <1>2, ActualFields
<1>5. PICK b \in Actual : actual' = [actual EXCEPT ![s] = b]
  <2>1. CASE actual' = [actual EXCEPT ![s] = Absent]
    BY <2>1 DEF Actual
  <2>2. CASE actual' = [actual EXCEPT ![s].started = ~@]
    <3>1. actual' = [actual EXCEPT ![s] = [actual[s] EXCEPT !.started = ~@]]
      BY <2>2
    <3> QED
      BY <1>4, <3>1, DriftTypes
  <2>3. CASE \E n \in Counts \ {0} : actual' = [actual EXCEPT ![s].factor = n]
    <3>1. PICK n \in Counts \ {0} : actual' = [actual EXCEPT ![s].factor = n]
      BY <2>3
    <3>2. actual' = [actual EXCEPT ![s] = [actual[s] EXCEPT !.factor = n]]
      BY <3>1
    <3> QED
      BY <1>4, <3>2, DriftTypes
  <2> QED
    BY <2>1, <2>2, <2>3 DEF EcsmDrifts
<1>6. actual' \in [Services -> Actual]
  BY <1>1, <1>5
<1> QED
  BY <1>2, <1>3, <1>6, EcsmInv

-----------------------------------------------------------------------------
\* What the worker is sending is a valid request for the service it has.
LEMMA InHandType ==
  ASSUME IInv
  PROVE  /\ InHand \subseteq [service : Services, request : Request, id : Ids \union {0}]
         /\ \A l \in InHand : l.request \in ValidRequest
<1> SUFFICES ASSUME NEW l \in InHand
             PROVE  /\ l \in [service : Services, request : Request, id : Ids \union {0}]
                    /\ l.request \in ValidRequest
  OBVIOUS
<1>1. PICK s \in busy : /\ wpc = "apply"
                        /\ l = [service |-> s, request |-> Head(todo), id |-> sid]
  BY DEF InHand
<1>2. Head(todo) \in ValidRequest /\ Head(todo) \in Request
  BY <1>1, NextRequest
<1>3. s \in Services /\ sid \in Ids \union {0}
  BY DEF IInv, TypeOK
<1> QED
  BY <1>1, <1>2, <1>3

\* A restart forgets the events and counts every unread update as missed.
LEMMA CrashRestartInv ==
  ASSUME IInv, CrashRestart
  PROVE  IInv'
<1>1. TypeOK /\ WorkerHolds
  BY DEF IInv
<1>2. /\ ring' = <<>> /\ out' = <<>> /\ line' = <<>> /\ busy' = {}
      /\ wpc' = "get" /\ want' = NoState /\ todo' = <<>> /\ sid' = 0
      /\ spc' = "idle" /\ listed' = Nothing /\ repair' = {} /\ page' = {}
      /\ desired' = desired /\ actual' = actual
      /\ late' \in {late, late \union InHand}
      /\ unread' = unread /\ missed' = missed \union unread
      /\ Spend("crashes")
  BY DEF CrashRestart
<1>3. /\ ring' \in Seq(Services) /\ out' \in Seq(Services) /\ line' \in Seq(Services)
      /\ todo' \in Seq(Request) /\ todo' \in Seq(ValidRequest)
  BY <1>2, EmptySeq
<1>4. Len(ring') <= RingSize /\ Len(out') <= OutSize
  BY <1>2, ControllerAssumption
<1>5. budget' \in Budget
  BY <1>1, <1>2, SpendType DEF TypeOK
<1>6. listed' \in [Services -> Writable \union {NoState}]
  BY <1>2 DEF Nothing
<1>7. /\ late' \subseteq [service : Services, request : Request, id : Ids \union {0}]
      /\ \A l \in late' : l.request \in ValidRequest
  BY <1>1, <1>2, InHandType DEF TypeOK, WorkerHolds
<1>8. TypeOK'
  <2>1. /\ desired' \in [Services -> Writable \union {NoState}]
        /\ actual' \in [Services -> Actual]
        /\ unread' \subseteq Services /\ missed' \subseteq Services
    BY <1>1, <1>2 DEF TypeOK
  <2> QED
    BY <1>2, <1>3, <1>4, <1>5, <1>6, <1>7, <2>1 DEF TypeOK
<1>9. OneAtATime' /\ IsInjective(line')
  BY <1>2 DEF OneAtATime, IsInjective
<1>10. WorkerHolds' /\ UpdateTracked' /\ StaleOnlyIfOvertaken'
  BY <1>1, <1>2, <1>3, <1>7 DEF WorkerHolds, UpdateTracked, StaleOnlyIfOvertaken
<1> QED
  BY <1>8, <1>9, <1>10 DEF IInv

\* Every step of the controller and of what surrounds it.
LEMMA NextInv == IInv /\ [Next]_vars => IInv'
<1> SUFFICES ASSUME IInv, [Next]_vars PROVE IInv'
  OBVIOUS
<1>1. CASE Environment
  BY <1>1, WriteDesiredInv, EcsmSettlesInv, EcsmDriftsInv, EcsmReceivesLateInv,
     CrashRestartInv DEF Environment, LateArrival
<1>2. CASE Forward
  BY <1>2, ForwardInv
<1>3. CASE Watch
  BY <1>3, WatchInv
<1>4. CASE Worker
  BY <1>4, WorkerTakeInv, WorkerQueryInv, WorkerQueryFailsInv, WorkerCollectInv,
     WorkerCollectFailsInv, WorkerSendInv, WorkerRefusedInv, WorkerSendFailsInv,
     WorkerSendLateInv, WorkerDoneInv DEF Worker
<1>5. CASE Scanner
  BY <1>5, ScannerInv, ScannerAddInv DEF Scanner
<1>6. CASE UNCHANGED vars
  <2>1. TypeOK /\ WorkerHolds
    BY DEF IInv
  <2>2. /\ UNCHANGED <<desired, eventVars, queueVars, workerVars, scannerVars, historyVars>>
        /\ actual' = actual /\ late' = late /\ budget' = budget
    BY <1>6 DEF vars, ecsmVars
  <2> QED
    BY <2>1, <2>2, EcsmInv DEF TypeOK
<1> QED
  BY <1>1, <1>2, <1>3, <1>4, <1>5, <1>6 DEF Next

-----------------------------------------------------------------------------
\* IInv is invariant, for any services, states, buffers and budgets.
THEOREM Invariant == Spec => []IInv
BY InitInv, NextInv, PTL DEF Spec

\* Every variable of the controller keeps its type: the event buffers stay
\* within their sizes and ECSM is never asked for anything it cannot hold.
THEOREM TypeCorrect == Spec => []TypeOK
BY Invariant, PTL DEF IInv

(***************************************************************************)
(* One worker: at most one service is in process, exactly while the worker *)
(* is out of Get, and it is not waiting in the queue as well.              *)
(***************************************************************************)
THEOREM OneServiceAtATime == Spec => []OneAtATime
BY Invariant, PTL DEF IInv

(***************************************************************************)
(* A write that was not read is on its way to the worker, or its event was *)
(* lost in one of the four ways the scanner exists for.                    *)
(***************************************************************************)
THEOREM UpdatesTracked == Spec => []UpdateTracked
BY Invariant, PTL DEF IInv

(***************************************************************************)
(* The worker works on the desired state in the registry, unless that was  *)
(* written again since the worker read it.                                 *)
(***************************************************************************)
THEOREM NeverStale == Spec => []StaleOnlyIfOvertaken
BY Invariant, PTL DEF IInv

-----------------------------------------------------------------------------
(* What the worker sends, and what ECSM makes of it *)

\* Request r brings a service no further from desired state d.
Fits(d, r) ==
  /\ r.op = "create" => d.action = "start" /\ (d.replicas > 0 => r.factor = d.replicas)
  /\ r.op = "update" => d.replicas > 0 /\ r.factor = d.replicas
  /\ r.op = "start" => d.action = "start"
  /\ r.op = "stop" => d.action = "stop"

\* The elements of short sequences.
LEMMA ShortSequences ==
  ASSUME NEW x, NEW y
  PROVE  /\ Range(<<x>>) = {x} /\ Head(<<x>>) = x /\ Range(Tail(<<x>>)) = {}
         /\ Range(<<x, y>>) = {x, y} /\ Head(<<x, y>>) = x /\ Range(Tail(<<x, y>>)) = {y}
         /\ Append(<<>>, x) = <<x>> /\ Append(<<x>>, y) = <<x, y>>
<1>1. Tail(<<x>>) = <<>> /\ Tail(<<x, y>>) = <<y>>
  OBVIOUS
<1>2. \A z : DOMAIN <<z>> = {1} /\ <<z>>[1] = z
  OBVIOUS
<1>3. DOMAIN <<x, y>> = {1, 2} /\ <<x, y>>[1] = x /\ <<x, y>>[2] = y
  OBVIOUS
<1>4. Range(<<>>) = {} /\ \A z : Range(<<z>>) = {z}
  BY <1>2 DEF Range
<1>5. Range(<<x, y>>) = {x, y}
  BY <1>3 DEF Range
<1>6. Head(<<x>>) = x /\ Head(<<x, y>>) = x
  OBVIOUS
<1>7. Append(<<>>, x) = <<x>>
  OBVIOUS
<1>8. Append(<<x>>, y) = <<x, y>>
  <2>1. /\ <<x>> \in Seq({x, y}) /\ Len(<<x>>) = 1 /\ <<x>>[1] = x
        /\ <<x, y>> \in Seq({x, y}) /\ Len(<<x, y>>) = 2
    OBVIOUS
  <2>2. /\ Append(<<x>>, y) \in Seq({x, y})
        /\ Len(Append(<<x>>, y)) = 2
        /\ Append(<<x>>, y)[1] = x
        /\ Append(<<x>>, y)[2] = y
    BY <2>1, AppendProperties
  <2>3. \A i \in 1 .. 2 : Append(<<x>>, y)[i] = <<x, y>>[i]
    BY <1>3, <2>2
  <2> QED
    BY <2>1, <2>2, <2>3, SeqEqual
<1> QED
  BY <1>1, <1>4, <1>5, <1>6, <1>7, <1>8

\* Each request of a round fits; only the first of a missing service is a create.
LEMMA RoundFits ==
  ASSUME NEW d \in DesiredState, NEW a \in Actual,
         Apply(CompareDesiredActual(d, a), d, a) # <<>>
  PROVE  LET q == Apply(CompareDesiredActual(d, a), d, a)
         IN  /\ \A r \in Range(q) : Fits(d, r)
             /\ IF Found(a) THEN Head(q).op # "create" ELSE Head(q).op = "create"
             /\ \A r \in Range(Tail(q)) : r.op # "create"
<1> DEFINE diff == CompareDesiredActual(d, a)
           q == Apply(diff, d, a)
           Round == /\ \A r \in Range(q) : Fits(d, r)
                    /\ IF Found(a) THEN Head(q).op # "create" ELSE Head(q).op = "create"
                    /\ \A r \in Range(Tail(q)) : r.op # "create"
<1> SUFFICES Round
  OBVIOUS
<1>1. d.replicas \in Nat /\ d.action \in {"start", "stop"}
  BY CountsAssumption DEF DesiredState
<1>2. /\ diff = "need_create" => ~Found(a) /\ d.action = "start"
      /\ diff = "need_start" => Found(a) /\ d.action = "start"
      /\ diff = "need_stop" => Found(a) /\ d.action = "stop"
      /\ diff \in {"need_scale_out", "need_scale_in"} => Found(a) /\ d.replicas > 0
      /\ diff \in DiffAction
  BY <1>1 DEF CompareDesiredActual, ReplicaDiff, RunDiff, DiffAction
<1> HIDE DEF diff
<1>3. \/ diff = "need_create" /\ q = CreateService(d)
      \/ diff = "need_start" /\ q = StartByID(d, a)
      \/ diff = "need_stop" /\ q = StopByID(d, a)
      \/ diff \in {"need_scale_out", "need_scale_in"} /\ q = ScaleByID(d, a)
  BY <1>2 DEF Apply, Accepted, DiffAction, diff
<1>4. /\ d.action = "start" => Fits(d, Start)
      /\ d.action = "stop" => Fits(d, Stop)
      /\ d.replicas > 0 => Fits(d, Update(d.replicas))
      /\ Start.op # "create" /\ Stop.op # "create" /\ \A n : Update(n).op # "create"
  BY DEF Fits, Start, Stop, Update
<1>5. CASE diff = "need_create" /\ q = CreateService(d)
  <2> DEFINE n == IF d.replicas > 0 THEN d.replicas ELSE 1
  <2>1. q = <<Create(n)>>
    BY <1>5 DEF CreateService
  <2>2. Fits(d, Create(n)) /\ Create(n).op = "create"
    BY <1>2, <1>5 DEF Fits, Create
  <2> HIDE DEF q, n
  <2>3. Range(q) = {Create(n)} /\ Head(q) = Create(n) /\ Range(Tail(q)) = {}
    BY <2>1, ShortSequences
  <2> QED
    BY <1>2, <1>5, <2>2, <2>3
<1>6. ASSUME Found(a), NEW r, r.op # "create", Fits(d, r), q = <<r>>
      PROVE  Round
  <2> HIDE DEF q
  <2>1. Range(q) = {r} /\ Head(q) = r /\ Range(Tail(q)) = {}
    BY <1>6, ShortSequences
  <2> QED
    BY <1>6, <2>1
<1>7. ASSUME Found(a), NEW r, r.op # "create", Fits(d, r), d.replicas > 0,
             q = <<Update(d.replicas), r>>
      PROVE  Round
  <2> HIDE DEF q
  <2>1. /\ Range(q) = {Update(d.replicas), r} /\ Head(q) = Update(d.replicas)
        /\ Range(Tail(q)) = {r}
    BY <1>7, ShortSequences
  <2> QED
    BY <1>4, <1>7, <2>1
<1>8. \A r : \/ Append(UpdateFirst(d, a), r) = <<r>>
             \/ d.replicas > 0 /\ Append(UpdateFirst(d, a), r) = <<Update(d.replicas), r>>
  BY ShortSequences DEF UpdateFirst, ReplicasDiffer
<1>9. CASE diff = "need_start" /\ q = StartByID(d, a)
  <2>1. q = <<Start>> \/ (d.replicas > 0 /\ q = <<Update(d.replicas), Start>>)
    BY <1>8, <1>9 DEF StartByID
  <2> HIDE DEF q, Round
  <2> QED
    BY <1>2, <1>4, <1>6, <1>7, <1>9, <2>1
<1>10. CASE diff = "need_stop" /\ q = StopByID(d, a)
  <2>1. q = <<Stop>> \/ (d.replicas > 0 /\ q = <<Update(d.replicas), Stop>>)
    BY <1>8, <1>10 DEF StopByID
  <2> HIDE DEF q, Round
  <2> QED
    BY <1>2, <1>4, <1>6, <1>7, <1>10, <2>1
<1>11. CASE diff \in {"need_scale_out", "need_scale_in"} /\ q = ScaleByID(d, a)
  <2>1. \/ q = <<Update(d.replicas)>>
        \/ d.action = "start" /\ q = <<Update(d.replicas), Start>>
    BY <1>11 DEF ScaleByID
  <2> HIDE DEF q, Round
  <2> QED
    BY <1>2, <1>4, <1>6, <1>7, <1>11, <2>1
<1> QED
  BY <1>3, <1>5, <1>9, <1>10, <1>11 DEF diff

\* A request that fits keeps what ECSM comes to as desired.
LEMMA FitsKeeps ==
  ASSUME NEW d \in DesiredState, NEW a \in Actual, NEW r \in ValidRequest, Fits(d, r),
         NEW old, Accepts(a, r, old), NEW id \in Ids,
         Satisfied(d, Settled(a))
  PROVE  Satisfied(d, Settled(Configured(a, r, id)))
<1>1. /\ d.action \in {"start", "stop"} /\ d.replicas \in Nat
      /\ r.op \in {"create", "update", "start", "stop"}
  BY CountsAssumption DEF DesiredState, ValidRequest, Request
<1>2. r.op # "create" => Found(a) /\ a \in Service
  BY ActualFields DEF Accepts
<1>3. ASSUME r.op = "create"
      PROVE  FALSE
  <2>1. a = Absent /\ d.action = "start"
    BY <1>3 DEF Accepts, Fits
  <2>2. ~Found(a) /\ Settled(a) = a
    BY <2>1, ActualFields DEF Settled
  <2> QED
    BY <2>1, <2>2 DEF Satisfied
<1>4. ASSUME r.op # "create"
      PROVE  /\ Settled(a).running = a.started /\ Settled(a).active = a.factor
             /\ Found(Settled(a))
  <2>1. Settled(a) = [a EXCEPT !.active = a.factor, !.running = a.started]
    BY <1>2, <1>4 DEF Settled
  <2> QED
    BY <1>2, <1>4, <2>1 DEF Service, Found
<1> DEFINE c == Configured(a, r, id)
<1>5. ASSUME r.op # "create"
      PROVE  /\ c \in Service
             /\ c.factor = IF r.op = "update" THEN r.factor ELSE a.factor
             /\ c.started = IF r.op = "start" THEN TRUE
                            ELSE IF r.op = "stop" THEN FALSE ELSE a.started
  <2>1. c \in Service
    BY ConfiguredType
  <2>2. \/ r.op = "update" /\ c = [a EXCEPT !.id = id, !.factor = r.factor]
        \/ r.op = "start" /\ c = [a EXCEPT !.started = TRUE]
        \/ r.op = "stop" /\ c = [a EXCEPT !.started = FALSE]
    BY <1>1, <1>5 DEF Configured
  <2> QED
    BY <1>2, <1>5, <2>1, <2>2 DEF Service
<1> HIDE DEF c
<1>6. ASSUME c \in Service
      PROVE  /\ Settled(c).running = c.started /\ Settled(c).active = c.factor
             /\ Found(Settled(c))
  <2>1. Found(c) /\ c \in Actual
    BY <1>6, ActualFields DEF Actual
  <2>2. Settled(c) = [c EXCEPT !.active = c.factor, !.running = c.started]
    BY <2>1 DEF Settled
  <2> QED
    BY <1>6, <2>1, <2>2 DEF Service, Found
<1>7. ASSUME r.op # "create"
      PROVE  Satisfied(d, Settled(c))
  <2>1. /\ d.action = "start" => Settled(c).running
        /\ d.action = "stop" => ~Settled(c).running
    BY <1>1, <1>4, <1>5, <1>6, <1>7 DEF Satisfied, Fits
  <2>2. d.replicas > 0 => Settled(c).active = d.replicas
    BY <1>1, <1>4, <1>5, <1>6, <1>7 DEF Satisfied, Fits
  <2> QED
    BY <1>5, <1>6, <1>7, <2>1, <2>2 DEF Satisfied
<1> QED
  BY <1>3, <1>7 DEF c

-----------------------------------------------------------------------------
(* The requests in hand *)

\* The rest of a round fits the state it was made for, and its id.
RequestsFit == wpc = "apply" => \A r \in Range(todo) : Fits(want, r)

\* ECSM accepts the next request, and nothing after it is a create.
NextAccepted ==
  /\ \A s \in busy : Accepts(actual[s], Head(todo), sid)
  /\ \A r \in Range(Tail(todo)) : r.op # "create"

\* Undisturbed, no request is on its way by itself and the next is accepted.
AcceptedUndisturbed ==
  /\ budget.faults <= MaxFaults /\ budget.drifts <= MaxDrifts /\ budget.crashes <= MaxCrashes
  /\ Undisturbed => late = {} /\ (wpc = "apply" => NextAccepted)

\* The inductive invariant of the requests.
RequestsInv == IInv /\ RequestsFit /\ AcceptedUndisturbed

\* A budget that is spent is less by one; the others are what they were.
LEMMA SpendLess ==
  ASSUME budget \in Budget, NEW kind \in {"writes", "faults", "drifts", "crashes"}, Spend(kind)
  PROVE  /\ budget'.faults <= budget.faults /\ budget'.drifts <= budget.drifts
         /\ budget'.crashes <= budget.crashes
         /\ kind \in {"faults", "drifts", "crashes"} => budget'[kind] < budget[kind]
<1>1. /\ budget.faults \in Nat /\ budget.drifts \in Nat /\ budget.crashes \in Nat
      /\ budget' = [budget EXCEPT ![kind] = budget[kind] - 1]
  BY DEF Spend, Budget
<1> QED
  BY <1>1 DEF Budget

\* The worker keeps its requests, or ends the round, or makes one, or sends one.
LEMMA WorkerFrame ==
  ASSUME [Next]_vars
  PROVE  \/ UNCHANGED <<workerVars, busy>>
         \/ wpc' # "apply"
         \/ \E s \in Services : WorkerCollect(s) /\ wpc' = "apply"
         \/ \E s \in Services, id \in Ids : WorkerSend(s, id)
<1>1. CASE Environment
  BY <1>1 DEF Environment, WriteDesired, EcsmSettles, EcsmDrifts, LateArrival,
              EcsmReceivesLate, CrashRestart, queueVars
<1>2. CASE Forward \/ Watch
  BY <1>2 DEF Forward, Watch, Q!Add, queueVars
<1>3. CASE Worker
  BY <1>3 DEF Worker, WorkerTake, WorkerQueryFails, WorkerCollectFails, WorkerSendFails,
              WorkerQuery, WorkerRefused, WorkerSendLate, WorkerDone, Return
<1>4. CASE Scanner
  BY <1>4 DEF Scanner, ScannerList, ScannerListFails, ScannerCollect, ScannerCollectFails,
              ScannerAdd, Q!Add, queueVars
<1>5. CASE UNCHANGED vars
  BY <1>5 DEF vars, queueVars
<1> QED
  BY <1>1, <1>2, <1>3, <1>4, <1>5 DEF Next

\* What a round is when the worker has just made it.
LEMMA RoundMade ==
  ASSUME IInv, NEW s \in Services, WorkerCollect(s), wpc' = "apply"
  PROVE  /\ wpc = "collect" /\ want' = want /\ want \in DesiredState
         /\ busy' = busy /\ busy = {s} /\ sid' = actual[s].id /\ actual[s] \in Actual
         /\ UNCHANGED <<actual, late, budget>>
         /\ \A r \in Range(todo') : Fits(want, r)
         /\ IF Found(actual[s]) THEN Head(todo').op # "create" ELSE Head(todo').op = "create"
         /\ \A r \in Range(Tail(todo')) : r.op # "create"
<1> DEFINE q == Apply(CompareDesiredActual(want, actual[s]), want, actual[s])
<1>1. /\ wpc = "collect" /\ s \in busy /\ busy' = busy
      /\ UNCHANGED <<actual, late, budget>>
      /\ RequestsFor(s, want, actual[s]) # <<>>
      /\ todo' = RequestsFor(s, want, actual[s]) /\ sid' = actual[s].id /\ want' = want
  BY DEF WorkerCollect, Return, queueVars, ecsmVars
<1>2. busy = {s}
  BY <1>1 DEF IInv, OneAtATime
<1>3. want \in DesiredState /\ actual[s] \in Actual
  BY <1>1, WritableStates DEF IInv, WorkerHolds, TypeOK
<1>4. todo' = q /\ q # <<>>
  BY <1>1 DEF RequestsFor
<1> QED
  BY <1>1, <1>2, <1>3, <1>4, RoundFits

\* Before it sends, the worker has a valid request that fits.
LEMMA RequestSent ==
  ASSUME IInv, RequestsFit, NEW s \in Services, NEW id \in Ids, WorkerSend(s, id)
  PROVE  /\ wpc = "apply" /\ busy = {s} /\ busy' = busy
         /\ UNCHANGED <<desired, late, budget>>
         /\ want \in DesiredState /\ actual[s] \in Actual
         /\ Head(todo) \in ValidRequest /\ Fits(want, Head(todo))
         /\ Accepts(actual[s], Head(todo), sid) /\ id \in NextIds(actual[s], Head(todo))
         /\ actual' = [actual EXCEPT ![s] = Configured(actual[s], Head(todo), id)]
         /\ actual'[s] = Configured(actual[s], Head(todo), id)
         /\ wpc' = "apply" =>
              /\ want' = want /\ sid' = id /\ todo' = Tail(todo) /\ todo' # <<>>
              /\ Head(todo') \in Range(Tail(todo))
              /\ Range(Tail(todo')) \subseteq Range(Tail(todo))
              /\ Range(todo') \subseteq Range(todo)
<1>1. /\ wpc = "apply" /\ s \in busy /\ busy' = busy
      /\ UNCHANGED <<desired, late, budget>>
      /\ Accepts(actual[s], Head(todo), sid) /\ id \in NextIds(actual[s], Head(todo))
      /\ actual' = [actual EXCEPT ![s] = Configured(actual[s], Head(todo), id)]
      /\ wpc' = "apply" => want' = want /\ sid' = id /\ todo' = Tail(todo) /\ Len(todo) # 1
  BY DEF WorkerSend, Return, queueVars
<1>2. busy = {s}
  BY <1>1 DEF IInv, OneAtATime
<1>3. want \in DesiredState /\ actual \in [Services -> Actual]
  BY <1>1, WritableStates DEF IInv, WorkerHolds, TypeOK
<1>4. /\ todo \in Seq(ValidRequest) /\ todo # <<>>
      /\ Head(todo) \in ValidRequest
      /\ Tail(todo) \in Seq(ValidRequest)
      /\ Len(todo) # 1 => Tail(todo) # <<>>
  BY <1>1, NextRequest DEF IInv, WorkerHolds
<1>5. Head(todo) \in Range(todo) /\ Range(Tail(todo)) \subseteq Range(todo)
  BY <1>4, TakeHead
<1>6. Tail(todo) # <<>> =>
        /\ Head(Tail(todo)) \in Range(Tail(todo))
        /\ Range(Tail(Tail(todo))) \subseteq Range(Tail(todo))
  BY <1>4, TakeHead
<1>7. Fits(want, Head(todo))
  BY <1>1, <1>5 DEF RequestsFit
<1> QED
  BY <1>1, <1>2, <1>3, <1>4, <1>5, <1>6, <1>7

\* A step keeps the requests in hand fitting.
LEMMA RequestsFitNext ==
  ASSUME IInv, RequestsFit, [Next]_vars
  PROVE  RequestsFit'
<1>1. CASE UNCHANGED <<workerVars, busy>>
  BY <1>1 DEF RequestsFit, workerVars
<1>2. CASE wpc' # "apply"
  BY <1>2 DEF RequestsFit
<1>3. ASSUME NEW s \in Services, WorkerCollect(s), wpc' = "apply"
      PROVE  RequestsFit'
  BY <1>3, RoundMade DEF RequestsFit
<1>4. ASSUME NEW s \in Services, NEW id \in Ids, WorkerSend(s, id)
      PROVE  RequestsFit'
  BY <1>4, RequestSent DEF RequestsFit
<1> QED
  BY <1>1, <1>2, <1>3, <1>4, WorkerFrame

\* The service after an accepted request has the id it was given.
LEMMA IdAfter ==
  ASSUME NEW a \in Actual, NEW r \in ValidRequest, NEW old, Accepts(a, r, old),
         NEW id \in Ids, id \in NextIds(a, r)
  PROVE  Found(Configured(a, r, id)) /\ Configured(a, r, id).id = id
<1>1. /\ r.op \in {"create", "update", "start", "stop"}
      /\ id # 0
      /\ r.op # "create" => a \in Service
      /\ r.op \in {"start", "stop"} => a.id = id
  BY ActualFields, IdsAssumption DEF ValidRequest, Request, Accepts, NextIds
<1>2. Configured(a, r, id).id = id
  <2>1. CASE r.op = "create"
    BY <2>1 DEF Configured
  <2>2. CASE r.op = "update"
    <3>1. Configured(a, r, id) = [a EXCEPT !.id = id, !.factor = r.factor]
      BY <2>2 DEF Configured
    <3> QED
      BY <1>1, <2>2, <3>1 DEF Service
  <2>3. CASE r.op = "start"
    <3>1. Configured(a, r, id) = [a EXCEPT !.started = TRUE]
      BY <2>3 DEF Configured
    <3> QED
      BY <1>1, <2>3, <3>1 DEF Service
  <2>4. CASE r.op = "stop"
    <3>1. Configured(a, r, id) = [a EXCEPT !.started = FALSE]
      BY <2>4 DEF Configured
    <3> QED
      BY <1>1, <2>4, <3>1 DEF Service
  <2> QED
    BY <1>1, <2>1, <2>2, <2>3, <2>4
<1> QED
  BY <1>1, <1>2 DEF Found

\* Catching up leaves a service its id.
LEMMA SettledAccepts ==
  ASSUME NEW a \in Actual, NEW r, NEW id, Accepts(a, r, id)
  PROVE  Accepts(Settled(a), r, id)
<1>1. CASE Found(a)
  <2>1. a \in Service /\ a # Absent
    BY <1>1, ActualFields
  <2>2. Settled(a) = [a EXCEPT !.active = a.factor, !.running = a.started]
    BY <1>1 DEF Settled
  <2>3. Settled(a).id = a.id
    BY <2>1, <2>2 DEF Service
  <2> QED
    BY <1>1, <2>1, <2>3 DEF Accepts, Found
<1>2. CASE ~Found(a)
  BY <1>2 DEF Settled
<1> QED
  BY <1>1, <1>2

\* What a step does to the budgets of what disturbs.
NoneMore ==
  /\ budget'.faults <= budget.faults
  /\ budget'.drifts <= budget.drifts
  /\ budget'.crashes <= budget.crashes

OneLess ==
  \/ budget'.faults < budget.faults
  \/ budget'.drifts < budget.drifts
  \/ budget'.crashes < budget.crashes

\* Without a failure, a drift or a restart, ECSM changes only by catching up or by the worker.
LEMMA UndisturbedFrame ==
  ASSUME IInv, [Next]_vars
  PROVE  /\ NoneMore
         /\ \/ OneLess
            \/ late # {}
            \/ /\ late' = late
               /\ \/ UNCHANGED <<workerVars, busy, actual>>
                  \/ wpc' # "apply"
                  \/ \E s \in Services : WorkerCollect(s) /\ wpc' = "apply"
                  \/ \E s \in Services, id \in Ids : WorkerSend(s, id)
                  \/ UNCHANGED <<workerVars, busy>> /\ \E s \in Services : EcsmSettles(s)
<1>1. /\ budget \in Budget
      /\ budget.faults \in Nat /\ budget.drifts \in Nat /\ budget.crashes \in Nat
  BY DEF IInv, TypeOK, Budget
<1>2. budget' = budget => NoneMore
  BY <1>1 DEF NoneMore
<1>3. Spend("faults") \/ Spend("drifts") \/ Spend("crashes") => NoneMore /\ OneLess
  BY <1>1, SpendLess DEF NoneMore, OneLess
<1>4. Spend("writes") => NoneMore
  BY <1>1, SpendLess DEF NoneMore
<1>5. CASE Environment
  <2>1. CASE \E s \in Services, d \in Writable \union {NoState} : WriteDesired(s, d)
    BY <1>4, <2>1 DEF WriteDesired, queueVars, ecsmVars
  <2>2. CASE \E s \in Services : EcsmSettles(s)
    BY <1>2, <2>2 DEF EcsmSettles, queueVars
  <2>3. CASE \E s \in Services : EcsmDrifts(s)
    BY <1>3, <2>3 DEF EcsmDrifts
  <2>4. CASE LateArrival
    BY <1>2, <2>4 DEF LateArrival, EcsmReceivesLate
  <2>5. CASE CrashRestart
    BY <1>3, <2>5 DEF CrashRestart
  <2> QED
    BY <1>5, <2>1, <2>2, <2>3, <2>4, <2>5 DEF Environment
<1>6. CASE Forward \/ Watch
  BY <1>2, <1>6 DEF Forward, Watch, Q!Add, queueVars, ecsmVars
<1>7. CASE Worker
  <2>1. CASE WorkerTake \/ \E s \in Services : WorkerQuery(s) \/ WorkerRefused(s) \/ WorkerDone(s)
    BY <1>2, <2>1 DEF WorkerTake, WorkerQuery, WorkerRefused, WorkerDone, Return, ecsmVars
  <2>2. CASE \/ WorkerQueryFails \/ WorkerCollectFails \/ WorkerSendFails
             \/ \E s \in Services : WorkerSendLate(s)
    BY <1>3, <2>2
    DEF WorkerQueryFails, WorkerCollectFails, WorkerSendFails, WorkerSendLate
  <2>3. CASE \E s \in Services : WorkerCollect(s)
    BY <1>2, <2>3 DEF WorkerCollect, Return, ecsmVars
  <2>4. CASE \E s \in Services, id \in Ids : WorkerSend(s, id)
    BY <1>2, <2>4 DEF WorkerSend
  <2> QED
    BY <1>7, <2>1, <2>2, <2>3, <2>4 DEF Worker
<1>8. CASE Scanner
  <2>1. CASE ScannerListFails \/ ScannerCollectFails
    BY <1>3, <2>1 DEF ScannerListFails, ScannerCollectFails
  <2>2. CASE ScannerList \/ ScannerCollect \/ \E s \in Services : ScannerAdd(s)
    BY <1>2, <2>2 DEF ScannerList, ScannerCollect, ScannerAdd, Q!Add, queueVars, ecsmVars
  <2> QED
    BY <1>8, <2>1, <2>2 DEF Scanner
<1>9. CASE UNCHANGED vars
  BY <1>2, <1>9 DEF vars, queueVars, ecsmVars
<1> QED
  BY <1>5, <1>6, <1>7, <1>8, <1>9 DEF Next

\* A step keeps the next request accepted, as long as nothing disturbs.
LEMMA AcceptedNext ==
  ASSUME RequestsInv, [Next]_vars
  PROVE  AcceptedUndisturbed'
<1> USE DEF RequestsInv
<1>1. /\ budget.faults \in Nat /\ budget.drifts \in Nat /\ budget.crashes \in Nat
      /\ budget'.faults \in Nat /\ budget'.drifts \in Nat /\ budget'.crashes \in Nat
      /\ MaxFaults \in Nat /\ MaxDrifts \in Nat /\ MaxCrashes \in Nat
  <2>1. IInv'
    BY NextInv
  <2> QED
    BY <2>1, ControllerAssumption DEF IInv, TypeOK, Budget
<1>2. /\ budget'.faults <= MaxFaults /\ budget'.drifts <= MaxDrifts
      /\ budget'.crashes <= MaxCrashes
  BY <1>1, UndisturbedFrame DEF AcceptedUndisturbed, NoneMore
<1>3. SUFFICES ASSUME Undisturbed'
               PROVE  late' = {} /\ (wpc' = "apply" => NextAccepted')
  BY <1>2 DEF AcceptedUndisturbed
<1>4. Undisturbed /\ ~OneLess
  BY <1>1, <1>3, UndisturbedFrame DEF Undisturbed, AcceptedUndisturbed, NoneMore, OneLess
<1>5. late = {} /\ (wpc = "apply" => NextAccepted)
  BY <1>4 DEF AcceptedUndisturbed
<1>6. late' = {}
  BY <1>4, <1>5, UndisturbedFrame
<1>7. CASE UNCHANGED <<workerVars, busy, actual>>
  BY <1>5, <1>6, <1>7 DEF workerVars, NextAccepted
<1>8. ASSUME NEW s \in Services, WorkerCollect(s), wpc' = "apply"
      PROVE  NextAccepted'
  <2>1. Accepts(actual[s], Head(todo'), sid')
    BY <1>8, RoundMade, ActualFields DEF Accepts
  <2> QED
    BY <1>8, <2>1, RoundMade DEF NextAccepted
<1>9. ASSUME NEW s \in Services, NEW id \in Ids, WorkerSend(s, id), wpc' = "apply"
      PROVE  NextAccepted'
  <2>1. Found(actual'[s]) /\ actual'[s].id = id
    BY <1>9, RequestSent, IdAfter
  <2>2. /\ Head(todo').op # "create" /\ sid' = id
        /\ \A r \in Range(Tail(todo')) : r.op # "create"
    BY <1>5, <1>9, RequestSent DEF NextAccepted
  <2>3. Accepts(actual'[s], Head(todo'), sid')
    BY <2>1, <2>2 DEF Accepts
  <2>4. busy' = {s}
    BY <1>9, RequestSent
  <2> QED
    BY <2>2, <2>3, <2>4 DEF NextAccepted
<1>10. ASSUME UNCHANGED <<workerVars, busy>>, NEW s \in Services, EcsmSettles(s), wpc' = "apply"
       PROVE  NextAccepted'
  <2>1. NextAccepted /\ todo' = todo /\ sid' = sid /\ busy' = busy
    BY <1>5, <1>10 DEF workerVars
  <2>2. ASSUME NEW t \in busy
        PROVE  Accepts(actual'[t], Head(todo), sid)
    <3>1. /\ t \in Services /\ actual \in [Services -> Actual] /\ actual[t] \in Actual
      BY DEF IInv, TypeOK
    <3>2. actual'[t] = actual[t] \/ actual'[t] = Settled(actual[t])
      BY <1>10, <3>1 DEF EcsmSettles
    <3>3. Accepts(actual[t], Head(todo), sid)
      BY <2>1 DEF NextAccepted
    <3> QED
      BY <3>1, <3>2, <3>3, SettledAccepts
  <2> QED
    BY <2>1, <2>2 DEF NextAccepted
<1> QED
  BY <1>4, <1>5, <1>6, <1>7, <1>8, <1>9, <1>10, UndisturbedFrame

\* At the beginning there are no requests.
LEMMA RequestsInit == Init => RequestsInv
<1> SUFFICES ASSUME Init PROVE RequestsInv
  OBVIOUS
<1>1. RequestsFit
  BY DEF Init, RequestsFit
<1>2. AcceptedUndisturbed
  BY ControllerAssumption DEF Init, AcceptedUndisturbed
<1> QED
  BY <1>1, <1>2, InitInv DEF RequestsInv

\* The invariant of the requests holds in every reachable state.
THEOREM RequestsInvariant == Spec => []RequestsInv
<1>1. RequestsInv /\ [Next]_vars => RequestsInv'
  BY NextInv, RequestsFitNext, AcceptedNext DEF RequestsInv
<1> QED
  BY <1>1, RequestsInit, PTL DEF Spec

(***************************************************************************)
(* What the worker sends undoes nothing that the registry asks for, unless *)
(* that was written since the worker read it; for any reports of ECSM.     *)
(***************************************************************************)
THEOREM SendsUndoNothing == Spec => NothingUndone
<1> DEFINE Kept ==
      \A s \in Services, id \in Ids :
        WorkerSend(s, id) /\ s \notin unread =>
          (Satisfied(desired[s], Settled(actual[s])) => Satisfied(desired[s], Settled(actual'[s])))
<1>1. ASSUME RequestsInv, NEW s \in Services, NEW id \in Ids, WorkerSend(s, id),
             s \notin unread, Satisfied(desired[s], Settled(actual[s]))
      PROVE  Satisfied(desired[s], Settled(actual'[s]))
  <2>1. IInv /\ RequestsFit
    BY <1>1 DEF RequestsInv
  <2>2. want = desired[s]
    BY <1>1, <2>1, RequestSent DEF IInv, StaleOnlyIfOvertaken
  <2> QED
    BY <1>1, <2>1, <2>2, RequestSent, FitsKeeps
<1>2. RequestsInv /\ [Next]_vars => [Kept]_vars
  BY <1>1
<1>3. Spec => [][Next]_vars
  BY PTL DEF Spec
<1> HIDE DEF Kept
<1>4. Spec => [][Kept]_vars
  BY <1>2, <1>3, RequestsInvariant, PTL
<1> QED
  BY <1>4 DEF NothingUndone, Kept

(***************************************************************************)
(* ECSM refuses a request only after a failed call, a change by somebody   *)
(* else or a restart; for any ids, and however it changes them.            *)
(***************************************************************************)
THEOREM RefusalsExplained == Spec => []RefusedOnlyIfDisturbed
<1>1. RequestsInv => RefusedOnlyIfDisturbed
  BY DEF RequestsInv, AcceptedUndisturbed, Undisturbed, NextAccepted, RefusedOnlyIfDisturbed
<1> QED
  BY <1>1, RequestsInvariant, PTL

-----------------------------------------------------------------------------
(* Rest *)

\* The reconciler decides to do nothing about what is as desired.
LEMMA SatisfiedQuiet ==
  ASSUME NEW d \in DesiredState, NEW a \in Actual, Satisfied(d, a)
  PROVE  \A s : RequestsFor(s, d, a) = <<>>
<1>1. /\ d.replicas \in Nat /\ d.action \in {"start", "stop"} /\ a.active \in Nat
  BY CountsAssumption, ActualFields DEF DesiredState
<1>2. CompareDesiredActual(d, a) = "none"
  BY <1>1 DEF CompareDesiredActual, ReplicaDiff, RunDiff, Satisfied
<1> QED
  BY <1>2 DEF RequestsFor, Apply

\* The worker's place matters to rest only for the one service in process.
LEMMA RestWhere ==
  ASSUME NEW s \in Services, AtRest(s),
         desired'[s] = desired[s], actual'[s] = actual[s],
         \A l \in late' : l.service # s,
         s \in busy' => wpc' # "apply" /\ (wpc' = "collect" => want' = desired[s])
  PROVE  AtRest(s)'
BY DEF AtRest, Met

\* The worker leaves a service at rest alone.
LEMMA WorkerRest ==
  ASSUME IInv, NEW s \in Services, AtRest(s), Worker
  PROVE  AtRest(s)'
<1>1. TypeOK /\ OneAtATime
  BY DEF IInv
<1>2. \A t \in busy : s \in busy => t = s
  BY <1>1 DEF OneAtATime
<1>3. CASE WorkerTake
  BY <1>3, RestWhere DEF WorkerTake, ecsmVars, AtRest
<1>4. CASE WorkerQueryFails \/ WorkerCollectFails \/ WorkerSendFails
  BY <1>4, RestWhere DEF WorkerQueryFails, WorkerCollectFails, WorkerSendFails, Return,
                         ecsmVars, AtRest
<1>5. ASSUME NEW t \in Services, WorkerQuery(t)
      PROVE  AtRest(s)'
  BY <1>2, <1>5, RestWhere DEF WorkerQuery, Return, queueVars, ecsmVars, AtRest
<1>6. ASSUME NEW t \in Services, WorkerCollect(t)
      PROVE  AtRest(s)'
  <2>1. CASE s \in busy
    <3>1. t = s /\ wpc = "collect" /\ want = desired[s]
      BY <1>2, <1>6, <2>1 DEF WorkerCollect, AtRest
    <3>2. want \in DesiredState /\ want # NoState /\ actual[s] \in Actual
      BY <3>1, WritableStates DEF IInv, WorkerHolds, TypeOK
    <3>3. RequestsFor(s, want, actual[s]) = <<>>
      BY <3>1, <3>2, SatisfiedQuiet DEF AtRest, Met
    <3> QED
      BY <1>6, <3>1, <3>3, RestWhere DEF WorkerCollect, Return, ecsmVars, AtRest
  <2>2. CASE s \notin busy
    BY <1>6, <2>2, RestWhere DEF WorkerCollect, queueVars, ecsmVars, AtRest
  <2> QED
    BY <2>1, <2>2
<1>7. ASSUME NEW t \in Services, WorkerRefused(t) \/ WorkerDone(t)
      PROVE  AtRest(s)'
  BY <1>7, RestWhere DEF WorkerRefused, WorkerDone, Q!Done, Return, queueVars, ecsmVars, AtRest
<1>8. ASSUME NEW t \in Services, WorkerSendLate(t)
      PROVE  AtRest(s)'
  <2>1. t # s
    BY <1>8 DEF WorkerSendLate, AtRest
  <2> QED
    BY <1>8, <2>1, RestWhere DEF WorkerSendLate, Return, AtRest
<1>9. ASSUME NEW t \in Services, NEW id \in Ids, WorkerSend(t, id)
      PROVE  AtRest(s)'
  <2>1. t # s /\ s \notin busy
    BY <1>2, <1>9 DEF WorkerSend, AtRest
  <2>2. actual'[s] = actual[s] /\ desired' = desired /\ late' = late /\ busy' = busy
    BY <1>1, <1>9, <2>1 DEF WorkerSend, TypeOK, queueVars
  <2> QED
    BY <2>1, <2>2, RestWhere DEF AtRest
<1> QED
  BY <1>3, <1>4, <1>5, <1>6, <1>7, <1>8, <1>9 DEF Worker

\* What surrounds the worker leaves a service at rest alone, but for its callers and drift.
LEMMA EnvironmentRest ==
  ASSUME IInv, NEW s \in Services, AtRest(s), desired'[s] = desired[s], ~EcsmDrifts(s),
         Environment
  PROVE  AtRest(s)'
<1>1. actual \in [Services -> Actual] /\ \A l \in late : l.service \in Services
  BY DEF IInv, TypeOK
<1>2. ASSUME NEW t \in Services, NEW d \in Writable \union {NoState}, WriteDesired(t, d)
      PROVE  AtRest(s)'
  BY <1>2, RestWhere DEF WriteDesired, queueVars, workerVars, ecsmVars, AtRest
<1>3. ASSUME NEW t \in Services, EcsmSettles(t)
      PROVE  AtRest(s)'
  <2>1. t # s
    BY <1>3 DEF EcsmSettles, AtRest
  <2>2. actual'[s] = actual[s]
    BY <1>1, <1>3, <2>1 DEF EcsmSettles
  <2> QED
    BY <1>3, <2>2, RestWhere DEF EcsmSettles, queueVars, workerVars, AtRest
<1>4. ASSUME NEW t \in Services, EcsmDrifts(t)
      PROVE  AtRest(s)'
  <2>1. t # s
    BY <1>4
  <2>2. actual'[s] = actual[s]
    BY <1>1, <1>4, <2>1 DEF EcsmDrifts
  <2> QED
    BY <1>4, <2>2, RestWhere DEF EcsmDrifts, queueVars, workerVars, AtRest
<1>5. CASE LateArrival
  <2>1. PICK l \in late, id \in Ids : EcsmReceivesLate(l, id)
    BY <1>5 DEF LateArrival
  <2>2. l.service # s
    BY DEF AtRest
  <2>3. actual'[s] = actual[s] /\ late' \subseteq late
    BY <1>1, <2>1, <2>2 DEF EcsmReceivesLate
  <2> QED
    BY <2>1, <2>3, RestWhere DEF EcsmReceivesLate, queueVars, workerVars, AtRest
<1>6. CASE CrashRestart
  <2>1. \A l \in InHand : l.service # s
    BY DEF InHand, AtRest
  <2>2. \A l \in late' : l.service # s
    BY <1>6, <2>1 DEF CrashRestart, AtRest
  <2> QED
    BY <1>6, <2>2, RestWhere DEF CrashRestart
<1> QED
  BY <1>2, <1>3, <1>4, <1>5, <1>6 DEF Environment

(***************************************************************************)
(* A service at rest stays so until a caller writes another desired state  *)
(* for it or somebody changes it in ECSM; for any number of services.      *)
(***************************************************************************)
THEOREM RestIsKept == Spec => RestKept
<1> DEFINE Kept ==
      \A s \in Services :
        AtRest(s) /\ desired'[s] = desired[s] /\ ~EcsmDrifts(s) => AtRest(s)'
<1>1. ASSUME IInv, [Next]_vars, NEW s \in Services, AtRest(s),
             desired'[s] = desired[s], ~EcsmDrifts(s)
      PROVE  AtRest(s)'
  <2>1. CASE Environment
    BY <1>1, <2>1, EnvironmentRest
  <2>2. CASE Forward \/ Watch
    BY <1>1, <2>2, RestWhere DEF Forward, Watch, Q!Add, queueVars, workerVars, ecsmVars, AtRest
  <2>3. CASE Worker
    BY <1>1, <2>3, WorkerRest
  <2>4. CASE Scanner
    BY <1>1, <2>4, RestWhere
       DEF Scanner, ScannerList, ScannerListFails, ScannerCollect, ScannerCollectFails,
           ScannerAdd, Q!Add, queueVars, workerVars, ecsmVars, AtRest
  <2>5. CASE UNCHANGED vars
    BY <1>1, <2>5, RestWhere DEF vars, queueVars, workerVars, ecsmVars, AtRest
  <2> QED
    BY <1>1, <2>1, <2>2, <2>3, <2>4, <2>5 DEF Next
<1>2. IInv /\ [Next]_vars => [Kept]_vars
  BY <1>1
<1>3. Spec => [][Next]_vars
  BY PTL DEF Spec
<1> HIDE DEF Kept
<1>4. Spec => [][Kept]_vars
  BY <1>2, <1>3, Invariant, PTL
<1> QED
  BY <1>4 DEF RestKept, Kept
=============================================================================
