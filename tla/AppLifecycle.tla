---------------------------- MODULE AppLifecycle ----------------------------
(***************************************************************************)
(* pkg/app: the four goroutines App.Run starts, the error channel they     *)
(* report to, the context they share, the VSOA server with its own serving *)
(* goroutine and error channel, and the closing of server and store.       *)
(*                                                                         *)
(* What the goroutines do while they run is in WorkQueue and Controller;   *)
(* here it counts only that they are busy, what makes them return, and     *)
(* with which result.                                                      *)
(***************************************************************************)
EXTENDS Integers, Sequences

CONSTANT MaxQueued    \* bound: services waiting in the queue

ASSUME QueuedAssumption == MaxQueued \in Nat

Component == {"watcher", "worker", "scanner", "server"}

\* What a goroutine returns: nil, or one of the errors it can end with.
Result == {"nil", "watch failed", "start failed", "serve failed", "close failed"}

\* The capacity of errCh.
ErrSlots == 4

VARIABLES
  asked,      \* the caller's context is cancelled (a signal arrived)
  stop,       \* Run has cancelled the context it shares with its goroutines
  main,       \* "start", "select", "join", "close server", "close store", "exited"
  ret,        \* the result Run took from the select
  errs,       \* errCh: results sent and not received
  at,         \* where each component's goroutine is
  outcome,    \* the result of a component that has one
  forwarder,  \* WatchDesired's goroutine: "off", "on", "ended"
  queued,     \* how many services wait in the queue
  srv,        \* s.server: "none" before Start, "open", "closed" after Close
  serve,      \* the serving goroutine: "off", "launched", "listening", "failed", "ended"
  serveErrs,  \* s.errCh: the error of the serving goroutine
  store       \* "open", "closed"

vars == <<asked, stop, main, ret, errs, at, outcome, forwarder, queued, srv, serve,
          serveErrs, store>>

runVars    == <<asked, stop, main, ret, store>>
serverVars == <<srv, serve, serveErrs>>

TypeOK ==
  /\ asked \in BOOLEAN
  /\ stop \in BOOLEAN
  /\ main \in {"start", "select", "join", "close server", "close store", "exited"}
  /\ ret \in Result
  /\ errs \in Seq(Result) /\ Len(errs) <= ErrSlots
  /\ at \in [Component -> {"off", "begin", "get", "work", "scan", "wait", "send", "returned"}]
  /\ outcome \in [Component -> Result]
  /\ forwarder \in {"off", "on", "ended"}
  /\ queued \in 0 .. MaxQueued
  /\ srv \in {"none", "open", "closed"}
  /\ serve \in {"off", "launched", "listening", "failed", "ended"}
  /\ serveErrs \in Seq(Result) /\ Len(serveErrs) <= 1
  /\ store \in {"open", "closed"}

\* New has opened the store and built everything else.
Init ==
  /\ asked = FALSE /\ stop = FALSE
  /\ main = "start" /\ ret = "nil" /\ errs = <<>>
  /\ at = [c \in Component |-> "off"]
  /\ outcome = [c \in Component |-> "nil"]
  /\ forwarder = "off"
  /\ queued = 0
  /\ srv = "none" /\ serve = "off" /\ serveErrs = <<>>
  /\ store = "open"

\* runCtx.Done: cancelled by Run, or with the context it was derived from.
Stopped == asked \/ stop

-----------------------------------------------------------------------------
(***************************************************************************)
(* App.Run and what follows it.                                            *)
(***************************************************************************)

\* A signal arrives.
Ask ==
  /\ ~asked
  /\ main # "exited"
  /\ asked' = TRUE
  /\ UNCHANGED <<stop, main, ret, errs, at, outcome, forwarder, queued, serverVars, store>>

RunStart ==
  /\ main = "start"
  /\ main' = "select"
  /\ at' = [watcher |-> "begin", worker |-> "get", scanner |-> "scan", server |-> "begin"]
  /\ UNCHANGED <<asked, stop, ret, errs, outcome, forwarder, queued, serverVars, store>>

\* The select sees the caller's context done.
RunAsked ==
  /\ main = "select"
  /\ asked
  /\ ret' = "nil"
  /\ stop' = TRUE
  /\ main' = "join"
  /\ UNCHANGED <<asked, errs, at, outcome, forwarder, queued, serverVars, store>>

\* The select receives the first result, whatever it is.
RunResult ==
  /\ main = "select"
  /\ errs # <<>>
  /\ ret' = Head(errs)
  /\ errs' = Tail(errs)
  /\ stop' = TRUE
  /\ main' = "join"
  /\ UNCHANGED <<asked, at, outcome, forwarder, queued, serverVars, store>>

\* Mutant: Run returns without waiting for doneCh.
RunJoinedNotWaiting ==
  /\ main = "join"
  /\ main' = "close server"
  /\ UNCHANGED <<asked, stop, ret, errs, at, outcome, forwarder, queued, serverVars, store>>

\* wg.Wait is over and doneCh closed: Run returns, the deferred Close begins.
RunJoined ==
  /\ main = "join"
  /\ \A c \in Component : at[c] = "returned"
  /\ main' = "close server"
  /\ UNCHANGED <<asked, stop, ret, errs, at, outcome, forwarder, queued, serverVars, store>>

\* Server.Close: a server that was never started, or is closed, stays so.
ServerClose == srv' = IF srv = "open" THEN "closed" ELSE srv

\* closeAll; an error of a Close is only logged.
CloseServer ==
  /\ main = "close server"
  /\ ServerClose
  /\ main' = "close store"
  /\ UNCHANGED <<asked, stop, ret, errs, at, outcome, forwarder, queued, serve, serveErrs,
                 store>>

CloseStore ==
  /\ main = "close store"
  /\ store' = "closed"
  /\ main' = "exited"
  /\ UNCHANGED <<asked, stop, ret, errs, at, outcome, forwarder, queued, serverVars>>

-----------------------------------------------------------------------------
(***************************************************************************)
(* The goroutines: c's function ends with result r, is about to send it.   *)
(***************************************************************************)
Return(c, r) ==
  /\ at' = [at EXCEPT ![c] = "send"]
  /\ outcome' = [outcome EXCEPT ![c] = r]

Go(c, from, to) ==
  /\ at[c] = from
  /\ at' = [at EXCEPT ![c] = to]
  /\ UNCHANGED outcome

\* errCh <- result, and the deferred wg.Done.
Send(c) ==
  /\ at[c] = "send"
  /\ Len(errs) < ErrSlots
  /\ errs' = Append(errs, outcome[c])
  /\ at' = [at EXCEPT ![c] = "returned"]
  /\ UNCHANGED <<runVars, outcome, forwarder, queued, serverVars>>

\* WatchDesired succeeds and starts the forwarding goroutine.
WatcherBegins ==
  /\ Go("watcher", "begin", "wait")
  /\ forwarder' = "on"
  /\ UNCHANGED <<runVars, errs, queued, serverVars>>

\* RoseDB's watch is disabled, or fails otherwise.
WatcherFails ==
  /\ at["watcher"] = "begin"
  /\ Return("watcher", "watch failed")
  /\ UNCHANGED <<runVars, errs, forwarder, queued, serverVars>>

WatcherAdds ==
  /\ at["watcher"] = "wait"
  /\ queued < MaxQueued
  /\ queued' = queued + 1
  /\ UNCHANGED <<runVars, errs, at, outcome, forwarder, serverVars>>

\* The context is done, or the forwarding goroutine has closed the channel.
WatcherStops ==
  /\ at["watcher"] = "wait"
  /\ Stopped \/ forwarder = "ended"
  /\ Return("watcher", "nil")
  /\ UNCHANGED <<runVars, errs, forwarder, queued, serverVars>>

\* Mutant: the goroutine returns at an event of a key that is no service's.
ForwarderEndsAtForeignKey ==
  /\ forwarder = "on"
  /\ forwarder' = "ended"
  /\ UNCHANGED <<runVars, errs, at, outcome, queued, serverVars>>

ForwarderEnds ==
  /\ forwarder = "on"
  /\ Stopped
  /\ forwarder' = "ended"
  /\ UNCHANGED <<runVars, errs, at, outcome, queued, serverVars>>

\* Get takes an item even when the context is done.
WorkerTakes ==
  /\ queued > 0
  /\ queued' = queued - 1
  /\ Go("worker", "get", "work")
  /\ UNCHANGED <<runVars, errs, forwarder, serverVars>>

WorkerDone ==
  /\ Go("worker", "work", "get")
  /\ UNCHANGED <<runVars, errs, forwarder, queued, serverVars>>

\* Nothing to take: Get unlocks and enters its select.
WorkerWaits ==
  /\ queued = 0
  /\ Go("worker", "get", "wait")
  /\ UNCHANGED <<runVars, errs, forwarder, queued, serverVars>>

\* An Add since then has closed the channel that Get captured.
WorkerWakes ==
  /\ queued > 0
  /\ Go("worker", "wait", "get")
  /\ UNCHANGED <<runVars, errs, forwarder, queued, serverVars>>

\* The select may see the context done although something was added.
WorkerStops ==
  /\ at["worker"] = "wait"
  /\ Stopped
  /\ Return("worker", "nil")
  /\ UNCHANGED <<runVars, errs, forwarder, queued, serverVars>>

\* A scan adds the services that differ, if any.
ScannerScans ==
  /\ Go("scanner", "scan", "wait")
  /\ queued' \in queued .. MaxQueued
  /\ UNCHANGED <<runVars, errs, forwarder, serverVars>>

ScannerTicks ==
  /\ Go("scanner", "wait", "scan")
  /\ UNCHANGED <<runVars, errs, forwarder, queued, serverVars>>

\* Mutant: the scanner waits for its ticker alone.
ScannerStopsNever == FALSE /\ UNCHANGED vars

ScannerStops ==
  /\ at["scanner"] = "wait"
  /\ Stopped
  /\ Return("scanner", "nil")
  /\ UNCHANGED <<runVars, errs, forwarder, queued, serverVars>>

\* Start: an empty address or a route that cannot be registered.
ServerStartFails ==
  /\ at["server"] = "begin"
  /\ Return("server", "start failed")
  /\ UNCHANGED <<runVars, errs, forwarder, queued, serverVars>>

ServerStarts ==
  /\ Go("server", "begin", "wait")
  /\ srv' = "open"
  /\ serve' = "launched"
  /\ UNCHANGED <<runVars, errs, forwarder, queued, serveErrs>>

\* Server.Run sees the context done and returns what Close returns.
ServerStops ==
  /\ at["server"] = "wait"
  /\ Stopped
  /\ ServerClose
  /\ \E r \in {"nil", "close failed"} : Return("server", r)
  /\ UNCHANGED <<runVars, errs, forwarder, queued, serve, serveErrs>>

\* Server.Run receives the error of the serving goroutine.
ServerFails ==
  /\ at["server"] = "wait"
  /\ serveErrs # <<>>
  /\ serveErrs' = Tail(serveErrs)
  /\ Return("server", Head(serveErrs))
  /\ UNCHANGED <<runVars, errs, forwarder, queued, srv, serve>>

ServeListens ==
  /\ serve = "launched"
  /\ srv = "open"
  /\ serve' = "listening"
  /\ UNCHANGED <<runVars, errs, at, outcome, forwarder, queued, srv, serveErrs>>

\* Mutant: the error of Serve is only logged.
ServeFailsLogged ==
  /\ serve \in {"launched", "listening"}
  /\ serve' = "failed"
  /\ UNCHANGED <<runVars, errs, at, outcome, forwarder, queued, srv, serveErrs>>

\* Serve returns an error that is not ErrServerClosed; without room in s.errCh
\* it is dropped.
ServeFails ==
  /\ serve \in {"launched", "listening"}
  /\ serve' = "failed"
  /\ serveErrs' = IF serveErrs = <<>> THEN <<"serve failed">> ELSE serveErrs
  /\ UNCHANGED <<runVars, errs, at, outcome, forwarder, queued, srv>>

\* Serve returns ErrServerClosed.
ServeEnds ==
  /\ serve \in {"launched", "listening"}
  /\ srv = "closed"
  /\ serve' = "ended"
  /\ UNCHANGED <<runVars, errs, at, outcome, forwarder, queued, srv, serveErrs>>

-----------------------------------------------------------------------------
Run == RunStart \/ RunAsked \/ RunResult \/ RunJoined \/ CloseServer \/ CloseStore

Watcher == WatcherBegins \/ WatcherFails \/ WatcherAdds \/ WatcherStops

Worker == WorkerTakes \/ WorkerDone \/ WorkerWaits \/ WorkerWakes \/ WorkerStops

Scanner == ScannerScans \/ ScannerTicks \/ ScannerStops

Server == ServerStartFails \/ ServerStarts \/ ServerStops \/ ServerFails

Serve == ServeListens \/ ServeFails \/ ServeEnds

\* Every goroutine has returned; nothing is left to happen.
Finished ==
  /\ main = "exited"
  /\ forwarder # "on"
  /\ serve \notin {"launched", "listening"}
  /\ UNCHANGED vars

Next ==
  \/ Ask
  \/ Run
  \/ Watcher
  \/ ForwarderEnds
  \/ Worker
  \/ Scanner
  \/ Server
  \/ Serve
  \/ \E c \in Component : Send(c)
  \/ Finished

Spec == Init /\ [][Next]_vars

(***************************************************************************)
(* A goroutine that can run is run.  Go's select chooses at random among   *)
(* the cases that are ready: a watcher or a scanner that comes back to its *)
(* select again and again sees the context done some time.                 *)
(***************************************************************************)
FairSpec ==
  /\ Spec
  /\ WF_vars(Run)
  /\ WF_vars(Watcher) /\ SF_vars(WatcherStops)
  /\ WF_vars(ForwarderEnds)
  /\ WF_vars(Worker)
  /\ WF_vars(Scanner) /\ SF_vars(ScannerStops)
  /\ WF_vars(Server)
  /\ WF_vars(ServeEnds)
  /\ \A c \in Component : WF_vars(Send(c))

-----------------------------------------------------------------------------
(***************************************************************************)
(* What Run returns tells why it ended: without an error, or with an error *)
(* of the closing that it itself brought about, only when the caller asked *)
(* it to stop.  The first goroutine to return ends the application, with   *)
(* exit code 0 if it returned nil, so none may return nil on its own.      *)
(***************************************************************************)
CauseReported ==
  main \notin {"start", "select"} /\ ret \in {"nil", "close failed"} => asked

(***************************************************************************)
(* The store is closed only after the four goroutines that Run started     *)
(* have returned and the server was closed.  That is not everything that   *)
(* uses the store: nobody waits for the handlers of the VSOA server, which *)
(* are in DesiredCalls, nor for WatchDesired's goroutine.                  *)
(***************************************************************************)
StoreOutlivesComponents ==
  store = "closed" => srv # "open" /\ \A c \in Component : at[c] = "returned"

(***************************************************************************)
(* TEST_REPORT.md, line 172 (FAULT-06): after the context is cancelled     *)
(* watcher, scanner, worker and server exit and no goroutine is left.      *)
(***************************************************************************)
NothingLeft ==
  /\ main = "exited"
  /\ \A c \in Component : at[c] = "returned"
  /\ forwarder # "on"
  /\ serve \notin {"launched", "listening"}

StopsWhenAsked == asked ~> NothingLeft

(***************************************************************************)
(* The application does not go on without one of its parts: a serving      *)
(* goroutine that failed, and a component that returned, end all of it.    *)
(***************************************************************************)
OneEndsAll ==
  (serve = "failed" \/ \E c \in Component : at[c] \in {"send", "returned"}) ~> NothingLeft
=============================================================================
