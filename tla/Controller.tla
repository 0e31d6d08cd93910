----------------------------- MODULE Controller -----------------------------
(***************************************************************************)
(* The controller as pkg/app assembles it: the registry with its watch     *)
(* events, the watcher, the work queue, one reconciler worker and the      *)
(* scanner, against an ECSM that lags, drifts, refuses, fails, answers     *)
(* nothing or carries a request out after the client has given up on it.   *)
(*                                                                         *)
(* Every read or write of the registry, of the queue and of ECSM is a step *)
(* of its own, so that whatever can happen between two of them does.       *)
(***************************************************************************)
EXTENDS Ecsm, FiniteSets, Functions

CONSTANTS
  Services,      \* service names
  Writable,      \* the desired states callers write
  Persisted,     \* what an earlier process may have left in the registry
  Broken,        \* services createService always fails for (no image config)
  RingSize,      \* events RoseDB keeps for a slow reader of its watch
  OutSize,       \* events between WatchDesired's goroutine and the watcher
  MaxWrites,     \* bound: writes of the registry
  MaxFaults,     \* bound: failed reads of the registry, failed calls of ECSM
  MaxDrifts,     \* bound: changes of ECSM by others
  MaxCrashes     \* bound: restarts of the controller process

\* The registry holds nothing for a service.
NoState == [action |-> "none", replicas |-> 0]

ASSUME ControllerAssumption ==
  /\ IsFiniteSet(Services)
  /\ Writable \subseteq DesiredState
  /\ Persisted \subseteq Writable \union {NoState}
  /\ Broken \subseteq Services
  /\ RingSize \in Nat \ {0}
  /\ OutSize \in Nat \ {0}
  /\ {MaxWrites, MaxFaults, MaxDrifts, MaxCrashes} \subseteq Nat

VARIABLES
  desired,    \* the registry: a desired state per service, or NoState
  ring,       \* watch events RoseDB has not handed out yet
  out,        \* watch events the watcher has not received yet
  line,       \* the queue: services waiting (ServiceQueue)
  busy,       \* the queue: services being processed (ServiceQueue)
  wpc,        \* where the worker is: "get", "query", "collect", "apply", "done"
  want,       \* the desired state Reconcile read, NoState outside of it
  todo,       \* requests Apply has not sent yet
  sid,        \* the service id Apply sends the next request with
  spc,        \* where the scanner is: "idle", "collect", "add"
  listed,     \* the desired states ScanOnce listed
  repair,     \* services ScanOnce found different and has not added yet
  page,       \* lastActualPage: {} or a set of one snapshot of ECSM
  actual,     \* ECSM: what is configured and what is reported, per service
  late,       \* requests nobody waits for any more and ECSM will still receive
  unread,     \* history: services written since the worker last queried them
  missed,     \* history: services an event of which was lost since that query
  budget      \* how many writes, faults, drifts and crashes are left

eventVars    == <<ring, out>>
queueVars    == <<line, busy>>
workerVars   == <<wpc, want, todo, sid>>
scannerVars  == <<spc, listed, repair, page>>
ecsmVars     == <<actual, late>>
historyVars  == <<unread, missed>>

vars == <<desired, eventVars, queueVars, workerVars, scannerVars, ecsmVars,
          historyVars, budget>>

Q == INSTANCE ServiceQueue

Budget == [writes : Nat, faults : Nat, drifts : Nat, crashes : Nat]

TypeOK ==
  /\ desired \in [Services -> Writable \union {NoState}]
  /\ ring \in Seq(Services) /\ Len(ring) <= RingSize
  /\ out \in Seq(Services) /\ Len(out) <= OutSize
  /\ line \in Seq(Services)
  /\ busy \subseteq Services
  /\ wpc \in {"get", "query", "collect", "apply", "done"}
  /\ want \in Writable \union {NoState}
  /\ todo \in Seq(Request)
  /\ sid \in Ids \union {0}
  /\ spc \in {"idle", "collect", "add"}
  /\ listed \in [Services -> Writable \union {NoState}]
  /\ repair \subseteq Services
  /\ page \subseteq [Services -> Actual]
  /\ actual \in [Services -> Actual]
  /\ late \subseteq [service : Services, request : Request, id : Ids \union {0}]
  /\ unread \subseteq Services
  /\ missed \subseteq Services
  /\ budget \in Budget

Nothing == [s \in Services |-> NoState]

\* A process starts on whatever an earlier one left in the registry and on
\* whatever ECSM runs; the histories begin here.
Init ==
  /\ desired \in [Services -> Persisted]
  /\ ring = <<>> /\ out = <<>>
  /\ Q!QueueInit
  /\ wpc = "get" /\ want = NoState /\ todo = <<>> /\ sid = 0
  /\ spc = "idle" /\ listed = Nothing /\ repair = {} /\ page = {}
  /\ actual \in [Services -> {a \in Actual : a = Settled(a)}]
  /\ late = {}
  /\ unread = {}
  /\ missed = {}
  /\ budget = [writes |-> MaxWrites, faults |-> MaxFaults,
               drifts |-> MaxDrifts, crashes |-> MaxCrashes]

Spend(kind) ==
  /\ budget[kind] > 0
  /\ budget' = [budget EXCEPT ![kind] = @ - 1]

-----------------------------------------------------------------------------
(***************************************************************************)
(* The registry and its watch.                                             *)
(***************************************************************************)

\* Mutant: the ring grows without limit.
EmitUnbounded(s) == ring' = Append(ring, s) /\ UNCHANGED missed

\* RoseDB queues the event of a write; when full it forgets the oldest.
Emit(s) ==
  IF Len(ring) < RingSize
    THEN /\ ring' = Append(ring, s)
         /\ UNCHANGED missed
    ELSE /\ ring' = Append(Tail(ring), s)
         /\ missed' = missed \union {Head(ring)}

\* PutDesired of d, or DeleteDesired when d is NoState; RoseDB may report the
\* delete of a key that does not exist, too.
WriteDesired(s, d) ==
  /\ Spend("writes")
  /\ desired' = [desired EXCEPT ![s] = d]
  /\ unread' = unread \union {s}
  /\ Emit(s)
  /\ UNCHANGED <<out, queueVars, workerVars, scannerVars, ecsmVars>>

\* WatchDesired's goroutine hands one event on.
Forward ==
  /\ ring # <<>>
  /\ Len(out) < OutSize
  /\ out' = Append(out, Head(ring))
  /\ ring' = Tail(ring)
  /\ UNCHANGED <<desired, queueVars, workerVars, scannerVars, ecsmVars,
                 historyVars, budget>>

\* Mutant: the watcher ignores the event of a delete.
WatchPutsOnly ==
  /\ out # <<>>
  /\ out' = Tail(out)
  /\ IF desired[Head(out)] = NoState THEN UNCHANGED queueVars ELSE Q!Add(Head(out))
  /\ missed' = IF Head(out) \in busy /\ wpc # "query" THEN missed \union {Head(out)}
                                                      ELSE missed
  /\ UNCHANGED <<desired, ring, workerVars, scannerVars, ecsmVars, unread, budget>>

\* Watcher.Run receives an event and adds its service to the queue.  The
\* queue ignores it while the service is being processed; it is lost when
\* the worker has already read the desired state.
Watch ==
  /\ out # <<>>
  /\ out' = Tail(out)
  /\ Q!Add(Head(out))
  /\ missed' = IF Head(out) \in busy /\ wpc # "query" THEN missed \union {Head(out)}
                                                      ELSE missed
  /\ UNCHANGED <<desired, ring, workerVars, scannerVars, ecsmVars, unread, budget>>

-----------------------------------------------------------------------------
(***************************************************************************)
(* The worker.                                                             *)
(***************************************************************************)

\* Reconcile returns: nothing it held survives.
Return ==
  /\ wpc' = "done"
  /\ want' = NoState
  /\ todo' = <<>>
  /\ sid' = 0

WorkerTake ==
  /\ wpc = "get"
  /\ Q!Take
  /\ wpc' = "query"
  /\ UNCHANGED <<desired, eventVars, want, todo, sid, scannerVars, ecsmVars,
                 historyVars, budget>>

\* Mutant: a state the scanner has at hand is used instead of the registry's.
WorkerQueryListed(s) ==
  /\ wpc = "query"
  /\ s \in busy
  /\ IF desired[s] = NoState
       THEN Return
       ELSE /\ wpc' = "collect"
            /\ want' = IF listed[s] # NoState THEN listed[s] ELSE desired[s]
            /\ UNCHANGED <<todo, sid>>
  /\ unread' = unread \ {s}
  /\ missed' = missed \ {s}
  /\ UNCHANGED <<desired, eventVars, queueVars, scannerVars, ecsmVars, budget>>

\* QueryDesired; a service without a desired state is skipped.
WorkerQuery(s) ==
  /\ wpc = "query"
  /\ s \in busy
  /\ IF desired[s] = NoState
       THEN Return
       ELSE /\ wpc' = "collect"
            /\ want' = desired[s]
            /\ UNCHANGED <<todo, sid>>
  /\ unread' = unread \ {s}
  /\ missed' = missed \ {s}
  /\ UNCHANGED <<desired, eventVars, queueVars, scannerVars, ecsmVars, budget>>

\* QueryDesired fails (RoseDB, or a value that does not decode).
WorkerQueryFails ==
  /\ wpc = "query"
  /\ Spend("faults")
  /\ Return
  /\ missed' = missed \union busy
  /\ UNCHANGED <<desired, eventVars, queueVars, scannerVars, ecsmVars, unread>>

\* The requests Apply sends; createService fails before the first for a
\* service whose image configuration ECSM does not have.
RequestsFor(s, d, a) ==
  LET diff == CompareDesiredActual(d, a)
  IN  IF diff = "need_create" /\ s \in Broken THEN <<>> ELSE Apply(diff, d, a)

\* Mutant: an Apply that sends nothing is tried again at once.
WorkerCollectRetries(s) ==
  /\ wpc = "collect"
  /\ s \in busy
  /\ LET requests == RequestsFor(s, want, actual[s])
     IN  IF requests = <<>>
           THEN IF CompareDesiredActual(want, actual[s]) = "none"
                  THEN Return
                  ELSE UNCHANGED workerVars
           ELSE /\ wpc' = "apply"
                /\ todo' = requests
                /\ sid' = actual[s].id
                /\ UNCHANGED want
  /\ UNCHANGED <<desired, eventVars, queueVars, scannerVars, ecsmVars, historyVars, budget>>

\* CollectServices and the comparison.
WorkerCollect(s) ==
  /\ wpc = "collect"
  /\ s \in busy
  /\ LET requests == RequestsFor(s, want, actual[s])
     IN  IF requests = <<>>
           THEN Return
           ELSE /\ wpc' = "apply"
                /\ todo' = requests
                /\ sid' = actual[s].id
                /\ UNCHANGED want
  /\ UNCHANGED <<desired, eventVars, queueVars, scannerVars, ecsmVars,
                 historyVars, budget>>

WorkerCollectFails ==
  /\ wpc = "collect"
  /\ Spend("faults")
  /\ Return
  /\ UNCHANGED <<desired, eventVars, queueVars, scannerVars, ecsmVars, historyVars>>

\* The ids a service may have after a request: a new one after a create,
\* possibly a new one after an update, otherwise the one it has.
NextIds(a, r) ==
  IF r.op \in {"create", "update"} THEN Ids ELSE {a.id}

\* Mutant: the id an update returns is not looked at.
WorkerSendOldId(s, id) ==
  /\ wpc = "apply"
  /\ s \in busy
  /\ Accepts(actual[s], Head(todo), sid)
  /\ id \in NextIds(actual[s], Head(todo))
  /\ actual' = [actual EXCEPT ![s] = Configured(@, Head(todo), id)]
  /\ IF Len(todo) = 1
       THEN Return
       ELSE todo' = Tail(todo) /\ UNCHANGED <<wpc, want, sid>>
  /\ UNCHANGED <<desired, eventVars, queueVars, scannerVars, late, historyVars, budget>>

\* ECSM carries the request out and answers.
WorkerSend(s, id) ==
  /\ wpc = "apply"
  /\ s \in busy
  /\ Accepts(actual[s], Head(todo), sid)
  /\ id \in NextIds(actual[s], Head(todo))
  /\ actual' = [actual EXCEPT ![s] = Configured(@, Head(todo), id)]
  /\ IF Len(todo) = 1
       THEN Return
       ELSE /\ todo' = Tail(todo)
            /\ sid' = id
            /\ UNCHANGED <<wpc, want>>
  /\ UNCHANGED <<desired, eventVars, queueVars, scannerVars, late, historyVars, budget>>

\* ECSM refuses the request: the service is not what the worker collected.
WorkerRefused(s) ==
  /\ wpc = "apply"
  /\ s \in busy
  /\ ~Accepts(actual[s], Head(todo), sid)
  /\ Return
  /\ UNCHANGED <<desired, eventVars, queueVars, scannerVars, ecsmVars,
                 historyVars, budget>>

\* The call fails and ECSM never sees the request.
WorkerSendFails ==
  /\ wpc = "apply"
  /\ Spend("faults")
  /\ Return
  /\ UNCHANGED <<desired, eventVars, queueVars, scannerVars, ecsmVars, historyVars>>

\* The call times out, and the request reaches ECSM at some later time.
WorkerSendLate(s) ==
  /\ wpc = "apply"
  /\ s \in busy
  /\ Spend("faults")
  /\ late' = late \union {[service |-> s, request |-> Head(todo), id |-> sid]}
  /\ Return
  /\ UNCHANGED <<desired, eventVars, queueVars, scannerVars, actual, historyVars>>

\* Mutant: the worker goes on to the next service without calling Done.
WorkerDoneForgets(s) ==
  /\ wpc = "done"
  /\ s \in busy
  /\ wpc' = "get"
  /\ UNCHANGED <<desired, eventVars, queueVars, want, todo, sid, scannerVars, ecsmVars,
                 historyVars, budget>>

\* Worker.Run logs an error if there was one and calls Done; it does not
\* put the service back into the queue.
WorkerDone(s) ==
  /\ wpc = "done"
  /\ Q!Done(s)
  /\ wpc' = "get"
  /\ UNCHANGED <<desired, eventVars, want, todo, sid, scannerVars, ecsmVars,
                 historyVars, budget>>

-----------------------------------------------------------------------------
(***************************************************************************)
(* The scanner.                                                            *)
(***************************************************************************)
ScannerList ==
  /\ spc = "idle"
  /\ listed' = desired
  /\ spc' = "collect"
  /\ UNCHANGED <<desired, eventVars, queueVars, workerVars, repair, page, ecsmVars,
                 historyVars, budget>>

\* ListDesired fails: ScanOnce returns before it has collected anything.
ScannerListFails ==
  /\ spc = "idle"
  /\ Spend("faults")
  /\ UNCHANGED <<desired, eventVars, queueVars, workerVars, scannerVars, ecsmVars,
                 historyVars>>

\* Mutant: only services that are missing from ECSM count as different.
DifferingMissing(p) ==
  {s \in Services : listed[s] # NoState /\ ~Found(p[s])
                      /\ CompareDesiredActual(listed[s], p[s]) # "none"}

\* The services whose listed state differs from snapshot p of ECSM.
Differing(p) ==
  {s \in Services : listed[s] # NoState /\ CompareDesiredActual(listed[s], p[s]) # "none"}

CompareWith(p) ==
  /\ repair' = Differing(p)
  /\ listed' = Nothing
  /\ spc' = IF Differing(p) = {} THEN "idle" ELSE "add"

ScannerCollect ==
  /\ spc = "collect"
  /\ page' = {actual}
  /\ CompareWith(actual)
  /\ UNCHANGED <<desired, eventVars, queueVars, workerVars, ecsmVars, historyVars, budget>>

\* CollectServices fails: use the last page, or give up if there is none.
ScannerCollectFails ==
  /\ spc = "collect"
  /\ Spend("faults")
  /\ \/ /\ page = {}
        /\ spc' = "idle"
        /\ listed' = Nothing
        /\ UNCHANGED repair
     \/ \E p \in page : CompareWith(p)
  /\ UNCHANGED <<desired, eventVars, queueVars, workerVars, page, ecsmVars, historyVars>>

ScannerAdd(s) ==
  /\ spc = "add"
  /\ s \in repair
  /\ Q!Add(s)
  /\ repair' = repair \ {s}
  /\ spc' = IF repair = {s} THEN "idle" ELSE "add"
  /\ UNCHANGED <<desired, eventVars, workerVars, listed, page, ecsmVars,
                 historyVars, budget>>

-----------------------------------------------------------------------------
(***************************************************************************)
(* ECSM on its own, and the process.                                       *)
(***************************************************************************)

\* What ECSM reports catches up with what is configured.
EcsmSettles(s) ==
  /\ actual[s] # Settled(actual[s])
  /\ actual' = [actual EXCEPT ![s] = Settled(@)]
  /\ UNCHANGED <<desired, eventVars, queueVars, workerVars, scannerVars, late,
                 historyVars, budget>>

\* A request the client gave up on, or a dead process had sent, arrives.
EcsmReceivesLate(l, id) ==
  /\ l \in late
  /\ late' = late \ {l}
  /\ IF Accepts(actual[l.service], l.request, l.id)
       THEN /\ id \in NextIds(actual[l.service], l.request)
            /\ actual' = [actual EXCEPT ![l.service] = Configured(@, l.request, id)]
       ELSE UNCHANGED actual
  /\ UNCHANGED <<desired, eventVars, queueVars, workerVars, scannerVars,
                 historyVars, budget>>

\* Somebody else removes, stops, starts or scales a service in ECSM.
EcsmDrifts(s) ==
  /\ Found(actual[s])
  /\ Spend("drifts")
  /\ actual' \in {[actual EXCEPT ![s] = Absent],
                  [actual EXCEPT ![s].started = ~@]}
                 \union {[actual EXCEPT ![s].factor = n] : n \in Counts \ {0}}
  /\ UNCHANGED <<desired, eventVars, queueVars, workerVars, scannerVars, late, historyVars>>

\* What the worker sends next, with the service it is for: {} or one request.
InHand == {[service |-> s, request |-> Head(todo), id |-> sid] :
             s \in {t \in busy : wpc = "apply"}}

\* The process dies and is started again: the registry and ECSM remain.  A
\* request may have left before, and ECSM carries it out then or later.
CrashRestart ==
  /\ Spend("crashes")
  /\ late' \in {late, late \union InHand}
  /\ ring' = <<>> /\ out' = <<>>
  /\ line' = <<>> /\ busy' = {}
  /\ wpc' = "get" /\ want' = NoState /\ todo' = <<>> /\ sid' = 0
  /\ spc' = "idle" /\ listed' = Nothing /\ repair' = {} /\ page' = {}
  /\ missed' = missed \union unread
  /\ UNCHANGED <<desired, actual, unread>>

-----------------------------------------------------------------------------
Worker ==
  \/ WorkerTake
  \/ WorkerQueryFails
  \/ WorkerCollectFails
  \/ WorkerSendFails
  \/ \E s \in Services :
       \/ WorkerQuery(s)
       \/ WorkerCollect(s)
       \/ WorkerRefused(s)
       \/ WorkerSendLate(s)
       \/ WorkerDone(s)
       \/ \E id \in Ids : WorkerSend(s, id)

Scanner ==
  \/ ScannerList
  \/ ScannerListFails
  \/ ScannerCollect
  \/ ScannerCollectFails
  \/ \E s \in Services : ScannerAdd(s)

LateArrival == \E l \in late, id \in Ids : EcsmReceivesLate(l, id)

Environment ==
  \/ \E s \in Services, d \in Writable \union {NoState} : WriteDesired(s, d)
  \/ \E s \in Services : EcsmSettles(s) \/ EcsmDrifts(s)
  \/ LateArrival
  \/ CrashRestart

Next == Environment \/ Forward \/ Watch \/ Worker \/ Scanner

Spec == Init /\ [][Next]_vars

(***************************************************************************)
(* Each goroutine that can run is run, the scanner's ticker keeps ticking, *)
(* ECSM catches up with each service and late requests arrive.  Nothing is *)
(* assumed of writes, faults, drifts and crashes but that they are finite. *)
(***************************************************************************)
Fairness ==
  /\ WF_vars(Forward)
  /\ WF_vars(Watch)
  /\ WF_vars(Worker)
  /\ WF_vars(Scanner)
  /\ WF_vars(LateArrival)
  /\ \A s \in Services : WF_vars(EcsmSettles(s))

FairSpec == Spec /\ Fairness

-----------------------------------------------------------------------------
\* Somewhere there is a reason to reconcile s that has not been acted on.
Queued(s) ==
  \/ s \in Range(ring)
  \/ s \in Range(out)
  \/ s \in Range(line)
  \/ s \in busy /\ wpc = "query"

(***************************************************************************)
(* A write that no reconciliation has read yet is still on its way to the  *)
(* worker, unless RoseDB dropped its event, the queue merged it into a     *)
(* reconciliation that had already read the registry, the read failed, or  *)
(* the process restarted.  There is no other way to lose an update: these  *)
(* four are what the scanner is for.                                       *)
(***************************************************************************)
UpdateTracked ==
  \A s \in unread : Queued(s) \/ s \in missed

(***************************************************************************)
(* The worker compares, and sends requests, for the desired state that is  *)
(* in the registry, unless that was written again after the worker read    *)
(* it; it then still has a reason to come back (or has missed it, above).  *)
(* In particular a service whose desired state was deleted is only touched *)
(* by a reconciliation that had begun before.                              *)
(***************************************************************************)
StaleOnlyIfOvertaken ==
  \A s \in busy :
    wpc \in {"collect", "apply"} => want = desired[s] \/ s \in unread

(***************************************************************************)
(* Nothing the worker sends undoes what the registry asks for, unless that *)
(* was written since the worker read it: where ECSM is configured to come  *)
(* to the desired state it stays so, although the worker may know only a   *)
(* report that has not caught up, and although others change the service   *)
(* between the report, the first request of a round and the next.          *)
(***************************************************************************)
NothingUndone ==
  [][\A s \in Services, id \in Ids :
       WorkerSend(s, id) /\ s \notin unread =>
         (Satisfied(desired[s], Settled(actual[s])) => Satisfied(desired[s], Settled(actual'[s])))]_vars

\* No read or call failed, nobody else changed ECSM, the process was not restarted.
Undisturbed ==
  /\ budget.faults = MaxFaults
  /\ budget.drifts = MaxDrifts
  /\ budget.crashes = MaxCrashes

(***************************************************************************)
(* As long as no call of ECSM failed, nobody else changed a service there  *)
(* and the process was not restarted, ECSM refuses no request: each names  *)
(* the id the service has when it arrives, however desired states are      *)
(* written and ECSM lags.  A restart has to be excepted: a request that    *)
(* the dying process had sent may arrive between those of the next one.    *)
(***************************************************************************)
RefusedOnlyIfDisturbed ==
  Undisturbed => \A s \in busy : wpc = "apply" => Accepts(actual[s], Head(todo), sid)

(***************************************************************************)
(* README.md, line 129: "Registry 发生变化后，Watcher 监听到事件，将对应服务名放入    *)
(* WorkQueue" (after a change the watcher puts the service into the queue).*)
(* With room for every event, no failure and no restart: an update that    *)
(* was not read is on its way to the worker, or the worker is just at work *)
(* on the same desired state.                                              *)
(***************************************************************************)
EveryUpdateQueued ==
  \A s \in unread : Queued(s) \/ (s \in busy /\ want = desired[s])

(***************************************************************************)
(* One worker: the queue has at most one service in process, and exactly   *)
(* while the worker is not in Get; no service is both there and waiting.   *)
(***************************************************************************)
OneAtATime ==
  /\ wpc = "get" <=> busy = {}
  /\ \A s, t \in busy : s = t
  /\ busy \cap Range(line) = {}

Met(s) == desired[s] # NoState => Satisfied(desired[s], actual[s])

\* ECSM is and stays as the registry asks, and the worker is about to find it so.
AtRest(s) ==
  /\ Met(s) /\ actual[s] = Settled(actual[s])
  /\ \A l \in late : l.service # s
  /\ s \in busy => wpc # "apply" /\ (wpc = "collect" => want = desired[s])

(***************************************************************************)
(* Only a caller who wants something else, or somebody who changes the     *)
(* service in ECSM, disturbs a service at rest: not the scanner with an    *)
(* old page, nor a lost event, a failed call, a restart or the requests of *)
(* another service.  It is what Converges and ComesToRest come to.         *)
(***************************************************************************)
RestKept ==
  [][\A s \in Services :
       AtRest(s) /\ desired'[s] = desired[s] /\ ~EcsmDrifts(s) => AtRest(s)']_vars

(***************************************************************************)
(* Once writes, faults, drifts and restarts come to an end, ECSM comes to  *)
(* agree with the registry and stays so, for every service ECSM is able to *)
(* create.  Lost events, stale pages, late requests and a service that can *)
(* never be created do not stand in the way (TEST_REPORT.md, lines 29, 30).*)
(***************************************************************************)
Converges == \A s \in Services \ Broken : <>[]Met(s)

(***************************************************************************)
(* And the controller comes to rest: it does not go on sending requests    *)
(* to a service that is as desired.                                        *)
(***************************************************************************)
ComesToRest == \A s \in Services \ Broken : <>[](s \notin busy \/ todo = <<>>)
=============================================================================
