------------------------- MODULE AppLifecycleProofs -------------------------
(***************************************************************************)
(* Proofs about AppLifecycle, for a queue of any length.                   *)
(***************************************************************************)
EXTENDS AppLifecycle, SequenceTheorems, TLAPS

-----------------------------------------------------------------------------
\* Results that do not tell why the application ends.
Quiet == {"nil", "close failed"}

\* A component whose function has ended.
Over(c) == at[c] \in {"send", "returned"}

\* Nobody ends quietly before the shared context is done.
QuietOnlyIfStopped ==
  /\ \A c \in Component : Over(c) /\ outcome[c] \in Quiet => Stopped
  /\ \A i \in 1 .. Len(errs) : errs[i] \in Quiet => Stopped
  /\ forwarder = "ended" => Stopped
  /\ serveErrs \in Seq({"serve failed"})

\* The order of Run and of the closing.
RunOrder ==
  /\ stop <=> main \notin {"start", "select"}
  /\ main \in {"close server", "close store", "exited"}
       => \A c \in Component : at[c] = "returned"
  /\ main \in {"close store", "exited"} => srv # "open"
  /\ store = "closed" => main = "exited"

IInv ==
  /\ TypeOK
  /\ QuietOnlyIfStopped
  /\ RunOrder
  /\ CauseReported
-----------------------------------------------------------------------------
\* Before Run starts nothing has ended and nothing is closed.
LEMMA InitInv == Init => IInv
<1> SUFFICES ASSUME Init PROVE IInv
  OBVIOUS
<1>1. errs \in Seq(Result) /\ serveErrs \in Seq(Result) /\ serveErrs \in Seq({"serve failed"})
  BY EmptySeq DEF Init
<1>2. Len(errs) = 0 /\ Len(serveErrs) = 0
  BY DEF Init
<1>3. TypeOK
  <2>1. Len(errs) <= ErrSlots /\ Len(serveErrs) <= 1 /\ 0 \in 0 .. MaxQueued
    BY <1>2, QueuedAssumption DEF ErrSlots
  <2> QED
    BY <1>1, <2>1 DEF Init, TypeOK, Result
<1>4. QuietOnlyIfStopped /\ RunOrder /\ CauseReported
  BY <1>1, <1>2 DEF Init, QuietOnlyIfStopped, RunOrder, CauseReported, Over
<1> QED
  BY <1>3, <1>4 DEF IInv

\* What taking the head off a sequence of results does to it.
LEMMA Received ==
  ASSUME NEW S, NEW q \in Seq(S), q # <<>>
  PROVE  /\ Head(q) \in S /\ Head(q) = q[1] /\ 1 \in 1 .. Len(q)
         /\ Tail(q) \in Seq(S) /\ Len(Tail(q)) = Len(q) - 1
         /\ \A i \in 1 .. Len(Tail(q)) : i + 1 \in 1 .. Len(q) /\ Tail(q)[i] = q[i + 1]
BY HeadTailProperties

-----------------------------------------------------------------------------
\* Run takes a result that was sent before anybody was told to stop.
LEMMA RunInv ==
  ASSUME IInv, Run
  PROVE  IInv'
<1> USE DEF IInv
<1>1. CASE RunStart
  <2>1. at' \in [Component -> {"off", "begin", "get", "work", "scan", "wait", "send", "returned"}]
        /\ \A c \in Component : at'[c] \notin {"send", "returned"}
    BY <1>1 DEF RunStart, Component
  <2>2. TypeOK'
    BY <1>1, <2>1 DEF RunStart, TypeOK, serverVars
  <2>3. QuietOnlyIfStopped'
    BY <1>1, <2>1 DEF RunStart, QuietOnlyIfStopped, Over, Stopped, serverVars
  <2>4. RunOrder' /\ CauseReported'
    BY <1>1 DEF RunStart, RunOrder, CauseReported, serverVars
  <2> QED
    BY <2>2, <2>3, <2>4
<1>2. CASE RunAsked
  <2>1. TypeOK'
    BY <1>2 DEF RunAsked, TypeOK, Result, serverVars
  <2>2. QuietOnlyIfStopped'
    BY <1>2 DEF RunAsked, QuietOnlyIfStopped, Over, Stopped, serverVars
  <2>3. RunOrder' /\ CauseReported'
    BY <1>2 DEF RunAsked, RunOrder, CauseReported, serverVars
  <2> QED
    BY <2>1, <2>2, <2>3
<1>3. CASE RunResult
  <2>1. errs \in Seq(Result) /\ errs # <<>> /\ Len(errs) \in Nat
    BY <1>3, LenProperties DEF RunResult, TypeOK
  <2>2. /\ ret' \in Result /\ ret' = errs[1] /\ 1 \in 1 .. Len(errs)
        /\ errs' \in Seq(Result) /\ Len(errs') = Len(errs) - 1
        /\ \A i \in 1 .. Len(errs') : i + 1 \in 1 .. Len(errs) /\ errs'[i] = errs[i + 1]
    BY <1>3, <2>1, Received DEF RunResult
  <2>3. Len(errs') <= ErrSlots
    <3>1. Len(errs) <= ErrSlots /\ ErrSlots \in Nat
      BY DEF TypeOK, ErrSlots
    <3> QED
      BY <2>1, <2>2, <3>1
  <2>4. TypeOK'
    BY <1>3, <2>2, <2>3 DEF RunResult, TypeOK, serverVars
  <2>5. QuietOnlyIfStopped'
    BY <1>3, <2>2 DEF RunResult, QuietOnlyIfStopped, Over, Stopped, serverVars
  <2>6. RunOrder'
    BY <1>3 DEF RunResult, RunOrder, serverVars
  <2>7. ~stop
    BY <1>3 DEF RunResult, RunOrder
  <2>8. CauseReported'
    BY <1>3, <2>2, <2>7 DEF RunResult, QuietOnlyIfStopped, CauseReported, Stopped, Quiet
  <2> QED
    BY <2>4, <2>5, <2>6, <2>8
<1>4. CASE RunJoined
  <2>1. TypeOK'
    BY <1>4 DEF RunJoined, TypeOK, serverVars
  <2>2. QuietOnlyIfStopped'
    BY <1>4 DEF RunJoined, QuietOnlyIfStopped, Over, Stopped, serverVars
  <2>3. RunOrder' /\ CauseReported'
    BY <1>4 DEF RunJoined, RunOrder, CauseReported, serverVars
  <2> QED
    BY <2>1, <2>2, <2>3
<1>5. CASE CloseServer
  <2>1. TypeOK'
    BY <1>5 DEF CloseServer, ServerClose, TypeOK
  <2>2. QuietOnlyIfStopped'
    BY <1>5 DEF CloseServer, QuietOnlyIfStopped, Over, Stopped
  <2>3. RunOrder' /\ CauseReported'
    BY <1>5 DEF CloseServer, ServerClose, RunOrder, CauseReported
  <2> QED
    BY <2>1, <2>2, <2>3
<1>6. CASE CloseStore
  <2>1. TypeOK'
    BY <1>6 DEF CloseStore, TypeOK, serverVars
  <2>2. QuietOnlyIfStopped'
    BY <1>6 DEF CloseStore, QuietOnlyIfStopped, Over, Stopped, serverVars
  <2>3. RunOrder' /\ CauseReported'
    BY <1>6 DEF CloseStore, RunOrder, CauseReported, serverVars
  <2> QED
    BY <2>1, <2>2, <2>3
<1> QED
  BY <1>1, <1>2, <1>3, <1>4, <1>5, <1>6 DEF Run

-----------------------------------------------------------------------------
(***************************************************************************)
(* A step of component c while its function runs: it goes on, or ends, and *)
(* ends quietly only when the context is done.                             *)
(***************************************************************************)
Steps(c) ==
  /\ c \in Component
  /\ at[c] # "off" /\ ~Over(c)
  /\ UNCHANGED <<runVars, errs>>
  /\ \/ /\ at' = at
        /\ outcome' = outcome
     \/ \E to \in {"get", "work", "scan", "wait"} :
          /\ at' = [at EXCEPT ![c] = to]
          /\ outcome' = outcome
     \/ \E r \in Result : Return(c, r) /\ (r \in Quiet => Stopped)

LEMMA StepsInv ==
  ASSUME IInv, NEW c \in Component, Steps(c),
         queued' \in 0 .. MaxQueued,
         forwarder' \in {"off", "on", "ended"}, forwarder' = "ended" => Stopped,
         srv' \in {"none", "open", "closed"},
         serve' \in {"off", "launched", "listening", "failed", "ended"},
         serveErrs' \in Seq({"serve failed"}), serveErrs' \in Seq(Result), Len(serveErrs') <= 1
  PROVE  IInv'
<1> USE DEF IInv
<1>1. /\ asked' = asked /\ stop' = stop /\ main' = main /\ ret' = ret
      /\ store' = store /\ errs' = errs
  BY DEF Steps, runVars
<1>2. /\ at' \in [Component -> {"off", "begin", "get", "work", "scan", "wait", "send", "returned"}]
      /\ outcome' \in [Component -> Result]
      /\ \A d \in Component : Over(d)' /\ outcome'[d] \in Quiet => Stopped
  BY DEF Steps, Return, TypeOK, QuietOnlyIfStopped, Over
<1>3. TypeOK'
  BY <1>1, <1>2 DEF TypeOK
<1>4. QuietOnlyIfStopped'
  BY <1>1, <1>2 DEF QuietOnlyIfStopped, Stopped
<1>5. main \notin {"close server", "close store", "exited"}
  BY DEF Steps, RunOrder, Over
<1>6. RunOrder' /\ CauseReported'
  BY <1>1, <1>5 DEF RunOrder, CauseReported
<1> QED
  BY <1>3, <1>4, <1>6

\* The watcher returns nil only with the context done: so does its channel close.
LEMMA WatcherInv ==
  ASSUME IInv, Watcher
  PROVE  IInv'
<1>1. TypeOK /\ QuietOnlyIfStopped
  BY DEF IInv
<1>2. "watcher" \in Component /\ "nil" \in Result /\ "watch failed" \in Result \ Quiet
  BY DEF Component, Result, Quiet
<1>3. srv' = srv /\ serve' = serve /\ serveErrs' = serveErrs
  BY DEF Watcher, WatcherBegins, WatcherFails, WatcherAdds, WatcherStops, serverVars
<1>4. /\ queued' \in 0 .. MaxQueued
      /\ forwarder' \in {"off", "on", "ended"}
      /\ forwarder' = "ended" => Stopped
  <2>1. queued' = queued \/ (queued < MaxQueued /\ queued' = queued + 1)
    BY DEF Watcher, WatcherBegins, WatcherFails, WatcherAdds, WatcherStops
  <2>2. queued \in 0 .. MaxQueued
    BY <1>1 DEF TypeOK
  <2>3. queued' \in 0 .. MaxQueued
    BY <2>1, <2>2, QueuedAssumption
  <2>4. forwarder' = forwarder \/ forwarder' = "on"
    BY DEF Watcher, WatcherBegins, WatcherFails, WatcherAdds, WatcherStops
  <2> QED
    BY <1>1, <2>3, <2>4 DEF TypeOK, QuietOnlyIfStopped
<1>5. Steps("watcher")
  BY <1>1, <1>2
     DEF Watcher, WatcherBegins, WatcherFails, WatcherAdds, WatcherStops, Steps, Go, Over,
         QuietOnlyIfStopped
<1> QED
  BY <1>1, <1>2, <1>3, <1>4, <1>5, StepsInv DEF TypeOK, QuietOnlyIfStopped

\* The worker returns only with the context done.
LEMMA WorkerInv ==
  ASSUME IInv, Worker
  PROVE  IInv'
<1>1. TypeOK /\ QuietOnlyIfStopped
  BY DEF IInv
<1>2. "worker" \in Component /\ "nil" \in Result
  BY DEF Component, Result
<1>3. srv' = srv /\ serve' = serve /\ serveErrs' = serveErrs /\ forwarder' = forwarder
  BY DEF Worker, WorkerTakes, WorkerDone, WorkerWaits, WorkerWakes, WorkerStops, serverVars
<1>4. queued' \in 0 .. MaxQueued
  <2>1. queued' = queued \/ (queued > 0 /\ queued' = queued - 1)
    BY DEF Worker, WorkerTakes, WorkerDone, WorkerWaits, WorkerWakes, WorkerStops
  <2>2. queued \in 0 .. MaxQueued
    BY <1>1 DEF TypeOK
  <2> QED
    BY <2>1, <2>2, QueuedAssumption
<1>5. Steps("worker")
  BY <1>2 DEF Worker, WorkerTakes, WorkerDone, WorkerWaits, WorkerWakes, WorkerStops, Steps, Go,
              Over
<1> QED
  BY <1>1, <1>2, <1>3, <1>4, <1>5, StepsInv DEF TypeOK, QuietOnlyIfStopped

\* The scanner returns only with the context done.
LEMMA ScannerInv ==
  ASSUME IInv, Scanner
  PROVE  IInv'
<1>1. TypeOK /\ QuietOnlyIfStopped
  BY DEF IInv
<1>2. "scanner" \in Component /\ "nil" \in Result
  BY DEF Component, Result
<1>3. srv' = srv /\ serve' = serve /\ serveErrs' = serveErrs /\ forwarder' = forwarder
  BY DEF Scanner, ScannerScans, ScannerTicks, ScannerStops, serverVars
<1>4. queued' \in 0 .. MaxQueued
  <2>1. queued' = queued \/ queued' \in queued .. MaxQueued
    BY DEF Scanner, ScannerScans, ScannerTicks, ScannerStops
  <2>2. queued \in 0 .. MaxQueued
    BY <1>1 DEF TypeOK
  <2> QED
    BY <2>1, <2>2, QueuedAssumption
<1>5. Steps("scanner")
  BY <1>2 DEF Scanner, ScannerScans, ScannerTicks, ScannerStops, Steps, Go, Over
<1> QED
  BY <1>1, <1>2, <1>3, <1>4, <1>5, StepsInv DEF TypeOK, QuietOnlyIfStopped

\* The server returns its own failure, or what Close returns once it must stop.
LEMMA ServerInv ==
  ASSUME IInv, Server
  PROVE  IInv'
<1>1. TypeOK /\ QuietOnlyIfStopped
  BY DEF IInv
<1>2. /\ "server" \in Component
      /\ {"nil", "close failed"} \subseteq Result
      /\ {"start failed", "serve failed"} \subseteq Result \ Quiet
  BY DEF Component, Result, Quiet
<1>3. forwarder' = forwarder /\ queued' = queued
  BY DEF Server, ServerStartFails, ServerStarts, ServerStops, ServerFails
<1>4. /\ srv' \in {"none", "open", "closed"}
      /\ serve' \in {"off", "launched", "listening", "failed", "ended"}
  BY <1>1 DEF Server, ServerStartFails, ServerStarts, ServerStops, ServerFails, serverVars,
              ServerClose, TypeOK
<1>5. CASE ServerFails
  <2>1. serveErrs # <<>> /\ serveErrs' = Tail(serveErrs) /\ at["server"] = "wait"
    BY <1>5 DEF ServerFails
  <2> DEFINE F == {"serve failed"}
  <2>2. serveErrs \in Seq(F) /\ serveErrs \in Seq(Result) /\ Len(serveErrs) <= 1
    BY <1>1 DEF QuietOnlyIfStopped, TypeOK
  <2> HIDE DEF F
  <2>3. /\ Head(serveErrs) \in F
        /\ serveErrs' \in Seq(F) /\ Len(serveErrs') = Len(serveErrs) - 1
        /\ serveErrs' \in Seq(Result)
    BY <2>1, <2>2, Received
  <2>4. Len(serveErrs') <= 1
    <3>1. Len(serveErrs) \in Nat
      BY <2>2, LenProperties
    <3>2. ASSUME NEW n \in Nat, n <= 1 PROVE n - 1 <= 1
      BY <3>2
    <3>3. Len(serveErrs) - 1 <= 1
      BY <2>2, <3>1, <3>2
    <3> QED
      BY <2>3, <3>3, Zenon
  <2> USE DEF F
  <2>5. Steps("server")
    BY <1>2, <1>5, <2>3 DEF ServerFails, Steps, Over
  <2> QED
    BY <1>1, <1>2, <1>3, <1>4, <2>3, <2>4, <2>5, StepsInv DEF TypeOK, QuietOnlyIfStopped
<1>6. CASE ServerStartFails \/ ServerStarts \/ ServerStops
  <2>1. serveErrs' = serveErrs
    BY <1>6 DEF ServerStartFails, ServerStarts, ServerStops, serverVars
  <2>2. Steps("server")
    BY <1>2, <1>6 DEF ServerStartFails, ServerStarts, ServerStops, Steps, Go, Over
  <2> QED
    BY <1>1, <1>2, <1>3, <1>4, <2>1, <2>2, StepsInv DEF TypeOK, QuietOnlyIfStopped
<1> QED
  BY <1>5, <1>6 DEF Server

\* A result is sent as it was returned.
LEMMA SendInv ==
  ASSUME IInv, NEW c \in Component, Send(c)
  PROVE  IInv'
<1> USE DEF IInv
<1>1. /\ asked' = asked /\ stop' = stop /\ main' = main /\ ret' = ret /\ store' = store
      /\ outcome' = outcome /\ forwarder' = forwarder /\ queued' = queued
      /\ srv' = srv /\ serve' = serve /\ serveErrs' = serveErrs
      /\ at[c] = "send" /\ Len(errs) < ErrSlots
      /\ errs' = Append(errs, outcome[c]) /\ at' = [at EXCEPT ![c] = "returned"]
  BY DEF Send, runVars, serverVars
<1>2. errs \in Seq(Result) /\ outcome[c] \in Result
  BY DEF TypeOK
<1>3. /\ errs' \in Seq(Result) /\ Len(errs') = Len(errs) + 1
      /\ \A i \in 1 .. Len(errs) : errs'[i] = errs[i]
      /\ errs'[Len(errs) + 1] = outcome[c]
      /\ Len(errs) \in Nat
  BY <1>1, <1>2, AppendProperties, LenProperties
<1>4. Len(errs') <= ErrSlots
  BY <1>1, <1>3 DEF ErrSlots
<1>5. TypeOK'
  <2>1. at' \in [Component -> {"off", "begin", "get", "work", "scan", "wait", "send", "returned"}]
    BY <1>1 DEF TypeOK
  <2>2. errs' \in Seq(Result) /\ Len(errs') <= ErrSlots
    BY <1>3, <1>4
  <2>3. /\ asked' = asked /\ stop' = stop /\ main' = main /\ ret' = ret /\ store' = store
        /\ outcome' = outcome /\ forwarder' = forwarder /\ queued' = queued
        /\ srv' = srv /\ serve' = serve /\ serveErrs' = serveErrs
    BY <1>1
  <2>4. serveErrs' \in Seq(Result) /\ Len(serveErrs') <= 1
    BY <2>3, Zenon DEF TypeOK
  <2> QED
    BY <2>1, <2>2, <2>3, <2>4, ZenonT(40) DEF TypeOK
<1>6. \A d \in Component : Over(d)' => Over(d)
  BY <1>1 DEF TypeOK, Over
<1>7. \A i \in 1 .. Len(errs') : i \in 1 .. Len(errs) \/ i = Len(errs) + 1
  BY <1>3
<1>8. outcome[c] \in Quiet => Stopped
  BY <1>1 DEF QuietOnlyIfStopped, Over
<1>9. QuietOnlyIfStopped'
  BY <1>1, <1>3, <1>6, <1>7, <1>8 DEF QuietOnlyIfStopped, Stopped
<1>10. RunOrder' /\ CauseReported'
  BY <1>1 DEF TypeOK, RunOrder, CauseReported
<1> QED
  BY <1>5, <1>9, <1>10

\* Steps of nobody but the caller, the serving and the forwarding goroutine.
LEMMA OthersInv ==
  ASSUME IInv, Ask \/ ForwarderEnds \/ Serve
  PROVE  IInv'
<1> USE DEF IInv
<1>1. CASE Ask
  BY <1>1 DEF Ask, TypeOK, QuietOnlyIfStopped, RunOrder, CauseReported, Over, Stopped, serverVars
<1>2. CASE ForwarderEnds
  BY <1>2 DEF ForwarderEnds, TypeOK, QuietOnlyIfStopped, RunOrder, CauseReported, Over, Stopped,
              runVars, serverVars
<1>3. CASE Serve
  <2>1. /\ asked' = asked /\ stop' = stop /\ main' = main /\ ret' = ret /\ store' = store
        /\ errs' = errs /\ at' = at /\ outcome' = outcome /\ forwarder' = forwarder
        /\ queued' = queued /\ srv' = srv
        /\ serve' \in {"listening", "failed", "ended"}
        /\ serveErrs' = serveErrs \/ serveErrs' = <<"serve failed">>
    BY <1>3 DEF Serve, ServeListens, ServeFails, ServeEnds, runVars
  <2>2. /\ <<"serve failed">> \in Seq({"serve failed"})
        /\ <<"serve failed">> \in Seq(Result) /\ Len(<<"serve failed">>) = 1
    BY DEF Result
  <2>3. TypeOK'
    <3>1. serveErrs' \in Seq(Result) /\ Len(serveErrs') <= 1
      <4>1. CASE serveErrs' = serveErrs
        BY <4>1 DEF TypeOK
      <4>2. CASE serveErrs' = <<"serve failed">>
        <5>1. Len(serveErrs') = 1 /\ serveErrs' \in Seq(Result)
          BY <2>2, <4>2
        <5> QED
          BY <5>1
      <4> QED
        BY <2>1, <4>1, <4>2
    <3>2. serve' \in {"off", "launched", "listening", "failed", "ended"}
      BY <2>1
    <3>3. UNCHANGED <<asked, stop, main, ret, store, errs, at, outcome, forwarder, queued, srv>>
      BY <2>1
    <3> QED
      BY <3>1, <3>2, <3>3 DEF TypeOK
  <2>4. QuietOnlyIfStopped' /\ RunOrder' /\ CauseReported'
    BY <2>1, <2>2 DEF QuietOnlyIfStopped, RunOrder, CauseReported, Over, Stopped
  <2> QED
    BY <2>3, <2>4
<1> QED
  BY <1>1, <1>2, <1>3

\* Every step of the application.
LEMMA NextInv == IInv /\ [Next]_vars => IInv'
<1> SUFFICES ASSUME IInv, [Next]_vars PROVE IInv'
  OBVIOUS
<1>1. CASE UNCHANGED vars
  <2>1. /\ asked' = asked /\ stop' = stop /\ main' = main /\ ret' = ret /\ store' = store
        /\ errs' = errs /\ at' = at /\ outcome' = outcome /\ forwarder' = forwarder
        /\ queued' = queued /\ srv' = srv /\ serve' = serve /\ serveErrs' = serveErrs
    BY <1>1 DEF vars
  <2>2. TypeOK'
    <3>1. /\ errs' \in Seq(Result) /\ Len(errs') <= ErrSlots
          /\ serveErrs' \in Seq(Result) /\ Len(serveErrs') <= 1
      BY <2>1, Zenon DEF IInv, TypeOK
    <3> QED
      BY <2>1, <3>1, ZenonT(40) DEF IInv, TypeOK
  <2>3. QuietOnlyIfStopped' /\ RunOrder' /\ CauseReported'
    BY <2>1 DEF IInv, QuietOnlyIfStopped, RunOrder, CauseReported, Over, Stopped
  <2> QED
    BY <2>2, <2>3 DEF IInv
<1>2. CASE Finished
  BY <1>1, <1>2 DEF Finished
<1> QED
  BY <1>1, <1>2, RunInv, WatcherInv, WorkerInv, ScannerInv, ServerInv, SendInv, OthersInv DEF Next

-----------------------------------------------------------------------------
\* IInv is invariant.
THEOREM Invariant == Spec => []IInv
BY InitInv, NextInv, PTL DEF Spec

(***************************************************************************)
(* Types, among them: errCh has room for whatever is sent, and the serving *)
(* goroutine's channel never holds more than one error.                    *)
(***************************************************************************)
THEOREM TypeCorrect == Spec => []TypeOK
BY Invariant, PTL DEF IInv

\* Run returns nil, or an error of the closing, only when it was asked to stop.
THEOREM CausesReported == Spec => []CauseReported
BY Invariant, PTL DEF IInv

(***************************************************************************)
(* The store is closed only after the four goroutines of Run have returned *)
(* and the server was closed.  Handlers of the server may still run then.  *)
(***************************************************************************)
THEOREM StoreClosedAfterComponents == Spec => []StoreOutlivesComponents
<1>1. IInv => StoreOutlivesComponents
  BY DEF IInv, RunOrder, StoreOutlivesComponents
<1> QED
  BY <1>1, Invariant, PTL
=============================================================================
