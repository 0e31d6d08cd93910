# Verification of ecsm-controller

TLA+ specifications, model checking configurations and machine-checked proofs
for the controller in this repository. Paths such as `pkg/queue/queue.go` are
relative to the repository's source.

The controller keeps services of an ECSM platform in the state callers asked
for. A caller writes a *desired state* (start or stop, and a replica count) into
a registry; the controller compares it with what ECSM reports and sends ECSM the
requests that remove the difference.

    caller --VSOA--> registry --watch--> watcher --Add--> queue --Get--> worker --HTTP--> ECSM
                        |                                    ^              |
                        +--list--> scanner <--collect-- ECSM +--Add         +--query--> registry

## 1. Inventory

| Component | State | Operations | Interaction |
| --- | --- | --- | --- |
| Registry (`pkg/registry`) | RoseDB: one desired state and one status per service; RoseDB's bounded ring of watch events; a 64-place channel to the watcher | put, delete, query and list of both kinds, watch of desired states | written by the VSOA handlers, read by worker and scanner, watched by the watcher |
| Watcher (`pkg/desiredwatcher`) | none | receive an event, `Add` its service | one goroutine between the registry's channel and the queue |
| Work queue (`pkg/queue`) | `items`, `pending`, `notify` under one mutex | `Add`, `Get`, `Done` | producers: watcher, scanner; consumer: worker |
| Scanner (`pkg/scanner`) | `lastActualPage` | `ScanOnce` at start and at every tick | lists the registry, collects ECSM, adds to the queue |
| Worker, reconciler (`pkg/reconciler`) | the service in hand, what it read of it | `Get`, `Reconcile`, `Done` | reads registry and ECSM, calls the client |
| ECSM client (`pkg/ecsmclient/client.go`) | none | `Apply`: create, start, stop, scale; image reference and configuration | one to three HTTP requests after one another; sends back what it read |
| Collector (`pkg/ecsmclient/collector.go`) | none | `CollectServices` | reads the service list page by page |
| Application (`pkg/app`) | error channel, shared context | `New`, `Run`, `Close` | starts four goroutines; the first to return ends them all |
| VSOA service, server (`pkg/vsoa`) | server, its context and error channel | five request handlers; start, close | the callers' way to the registry |
| Desired state client (`pkg/desiredclient`) | a connection, a goroutine and a result channel for each call | calls with a context | abandons a call when its context ends |
| `cmd/rosedb-dump` | the database, while no controller has it | put, delete, clear of any keys | leaves what the registry finds later |
| `tools/testsummary` | results by package and test | reads events, writes a report | turns `go test -json` into a summary in CI |
| `cmd/ecsm-controller`, `cmd/desired-vsoa-client`, configuration | none | | start the above |

What is hard here, and what makes each component correct:

* **Queue.** `Get` releases the mutex between seeing an empty queue and waiting
  on the channel it captured. Correct: no lost wake-up, `pending` exact, each
  service with at most one worker, first come first served, shutdown reaches
  every waiter.
* **Reconciler and client.** Zero replicas mean three different things in three
  places; an update may replace the id the next request needs; a stop with a
  replica count takes two rounds. Correct: the decision is "none" exactly when
  the caller is satisfied, progress from every state, no request with a stale id,
  no decision the client rejects.
* **The composition.** Everything is read, then used later: a desired state may
  be overwritten or deleted, ECSM may change, a timed-out request may arrive
  later, an event may be dropped by RoseDB or merged by the queue, errors are not
  retried, a restart forgets the queue but not a request that was on its way. Correct: an update can be lost in known
  ways only; the worker never acts on a state it could know to be old; once
  disturbances end, ECSM agrees with the registry, stays so, and is left alone; a
  service that cannot be created does not hold up the others.
* **Scanner.** It repairs all of that, also from an old page of ECSM.
* **Collector.** It reads pages by number from a list that changes meanwhile, and
  trusts a total that may be missing or old. Correct: it ends, asks for no more
  than the list has, and misses nothing while the list grows only at its end.
* **Application.** Five goroutines and two error channels; Run reads one result and
  then waits for everybody. Correct: nobody blocks on a channel, one part that
  ends takes all the others with it, the store is closed after the four goroutines that
  Run started, the result that becomes the exit code tells why. The handlers of the API
  are not waited for; what they may do meanwhile is the next item.
* **The API, end to end.** A call may be given up while its request is on the way,
  the connection may break, the server closes while handlers run, the process
  restarts, and handlers run concurrently without a lock of their own. Correct: the
  registry is one map on which each call acts once, at one instant between its
  beginning and its answer; a call that ended in an error may act later or never;
  what was acknowledged stays; what handlers write can be acted upon; no goroutine is left
  behind. `rosedb-dump` may put any bytes into the same database.
* **The registry's records.** Two kinds and foreign keys share one ordered
  database and one event ring. Correct: lists and watch keep to their kind, and an
  undecodable record reaches no further than the list it is in.
* **Reading back and sending.** An update sends back what was read earlier, with
  defaults for what is missing. Correct: it undoes nothing but edits made in between.
* **Names.** The same text is a name for the registry and an image for ECSM, by
  different rules. Not everything that is stored can be created; it must be clear which
  names can.
* **Test summary.** The events of packages come mixed and may stop early. Correct:
  the figures are those of the run, and "passed" means that everything ended well.

The complete list of hazards, each at its line and with the properties that
cover it, is in `PROJECT.json`.

## 2. Modules

| Module | Models |
| --- | --- |
| `ServiceQueue` | what the queue promises: a FIFO of services, each known at most once, an `Add` of a known service without effect |
| `WorkQueue` | `queue.go` and the loop of `Worker.Run`; each critical section an action, the select a state; implements `ServiceQueue` |
| `Reconciler` | `CompareDesiredActual` as a table, and `Satisfied`, what a caller reads into a desired state |
| `EcsmClient` | the sequence of write requests `Apply` makes of a decision |
| `Ecsm` | the assumptions about ECSM (external) |
| `ReconcileLoop` | one service, reconciler, client and an ECSM that answers at once |
| `Controller` | everything together, with `ServiceQueue` as the queue |
| `Collector` | `CollectServices` against a list that changes between its requests |
| `AppLifecycle` | `App.Run` and what it starts, joins and closes; `Server.Start`, `Run`, `Close` |
| `DesiredApi` | the vocabulary of the API: names, requests, validation, stored values, replies |
| `AtomicRegistry` | what the API promises: one map, each call acting at one instant, later, or not at all |
| `DesiredCalls` | client, connection, handlers, registry, shutdown and restart, `rosedb-dump`; implements `AtomicRegistry` |
| `Registry` | both kinds of records over RoseDB's ordered keys, lists, watch, close and reopen, `rosedb-dump` |
| `ServiceUpdate` | create and update of a service beyond its factor: image configuration, detail read and sent back, edits by others |
| `ImageRef` | `validateServiceName` and `normalizeCreateImageRef` on texts of marks; operators that `ServiceUpdate` uses |
| `TestSummary` | `testsummary` on the events of packages tested at the same time |
| `MC...` | the small instances TLC checks, one for each module above that has runs |
| `...Proofs` | theorems and proofs about `WorkQueue`, `ReconcileLoop`, `Controller`, `AppLifecycle`, `DesiredCalls`, `ServiceUpdate`, `Registry` |
| `GatheringProofs` | theorems and proofs about `Collector` and `TestSummary`, the two programs that put together what comes in pieces |

Definitions marked *Mutant* in a comment are seeded faults: each is a plausible
bug in the definition below it, used to show that the property it belongs to
would notice. No specification uses them.

### Correspondence with the code

**WorkQueue.** `items` and `pending` are the fields of the struct. A captured
`notify` channel matters only while it is the current one, so `waiting` is the
set of workers whose captured channel nobody has closed; the close in `Add` empties
it. `pc` says whether a worker is about to lock in `Get`, in the select, in
`Reconcile`, or has returned. `Get` does not look at its context before taking an
item, and a select with both cases ready may take either; the model does the same.
Growth of the slice is left out, `producing` ends some time after cancellation.

**Reconciler, EcsmClient.** A service is `[id, factor, active, running, started]`:
`factor` is the configured count, `active` is `instanceActive`, `running` is
"`instanceOnline` positive or a container reports running", `started` is
ECSM's own record of whether the service should run, which the controller cannot
see. The missing service has id 0. The cases of `CompareDesiredActual` that differ
only in their order are merged; validated states are start or stop with replicas
not negative (`validateDesiredState`), so the default branch does not occur (unless
somebody put an invalid record with `rosedb-dump`, section 5).
`Apply` yields the requests in order. `updateReplicasByID` is a read of the
service's detail followed by a PUT of it with another factor; as none of the
other fields is modelled the two are one request, and a failure of the read is a
failure of the request. Where an update returns no id the client keeps the old
one, which is the update that does not change the id.

**Controller.** The variables are commented in the module. Each read or write of
the registry, the queue or ECSM is a step:

| Code | Actions |
| --- | --- |
| `PutDesired`, `DeleteDesired` | `WriteDesired`, with RoseDB's `Emit` |
| `WatchDesired`, `Watcher.Run` | `Forward`, `Watch` |
| `Worker.Run` | `WorkerTake` ... `WorkerDone` |
| `Reconcile`: query | `WorkerQuery`, `WorkerQueryFails` |
| collect, compare | `WorkerCollect`, `WorkerCollectFails` |
| `Apply`, request by request | `WorkerSend`, `WorkerRefused`, `WorkerSendFails`, `WorkerSendLate` |
| `ScanOnce` | `ScannerList`, `ScannerCollect`, `ScannerAdd`, and the two failures |
| process restart, `New` | `CrashRestart` |

`WorkerSendLate` is a call the client gave up on: the request reaches ECSM at
any later time (`EcsmReceivesLate`), immediately afterwards included, which is a request
that was carried out while its answer was lost. `CrashRestart` is a process that is
killed and started again: the request it was about to send or waiting for (`InHand`) may
have left, and then is in `late` like one that was given up. The scanner compares against a
page read after the list, and adds services one at a time; their order depends on
RoseDB's key order, the model allows any. `unread` and `missed` are history
variables: services written since the worker last queried them, and those of
which an event was lost since. Nothing depends on them.

**Collector.** `list` is ECSM's; an entry is a service's name. `ReadPage` is one
request and what the loop does with its answer: the total is taken at the same moment
as the page, and may be missing. `present` and `shifted` are history. The total
that `CollectServices` puts into its result is left out: nobody reads it.
`Controller` collects in one step; for the entry of one service that is what
`CompleteUnlessShifted` justifies, while a service missed because the list was
shifted is outside it (section 6).

**AppLifecycle.** `at` says where each of the four goroutines is; `outcome` is what
its function returned, `errs` is `errCh`. Starting the goroutines is one step: what
one of them does before the next is started it may as well do afterwards. A send to a full channel blocks, in the model
as in Go; that nobody is blocked for ever is part of `StopsWhenAsked`. What
they do while they run is in the other modules, so the queue is a count and a
reconciliation or a scan is a step that ends (their HTTP requests time out). The worker
waits ("wait") from the moment `Get` unlocks; the closed context may win over an `Add`
that came since. `srv`
is the field `s.server` and, once "closed", the state of the VSOA library's
server; `serve` the goroutine that calls `Serve`, which the library is assumed to
return from after `Close` with `ErrServerClosed` or another error, also when it is called
only then. Handlers use the store as well and nobody waits for them; they are not in this
module but in `DesiredCalls`, which has them run while server and store are closed. A watch channel
closes only with the database, after everything else, so the forwarding goroutine
ends with the context.

**DesiredApi, DesiredCalls.** A name is a service and whether white space surrounds
it; `Trim` is `strings.TrimSpace`, which validation applies to a copy. A call goes
through `Ask` (the method, `call`, the goroutine), then either case of the
`select`: `GiveUp` or `TakeResult`. The goroutine ends with `Delivered` or
`CallFails`, which stands for a lost connection, `Close` and every error of
`rpc.Call`. `resultCh` is the channel; a result that nobody will receive is not kept.

| Code | Actions |
| --- | --- |
| `Client` methods, `call` | `Ask`, `GiveUp`, `TakeResult`; goroutine: `Delivered`, `CallFails` |
| `handle...`, decode, validate, context | `HandlerRefuses`, `HandlerChecks` |
| `RoseDBStore`'s one operation, response | `HandlerActs` (one disjunct for each handler); on a closed store `HandlerFindsClosed` |
| `Server.Run`, `App.Close` | `Shutdown`, in three steps; `ContextDone` only in the first |
| process end and start | `ProcessEnds`, `Restart` |
| `rosedb-dump` | `Dump` |

A handler is two steps: what it does before the one operation on the database, and
the operation with the answer. What is under a key is nothing, bytes that do not decode, or
a record, which holds a name and a state of its own: the handlers write valid states under
their names, `rosedb-dump` may put a record of any name and any state of `Decodable` under
any key. On a closed store `Get`, `Put` and `Delete` fail; the health check does not touch
it; of a list, `ascendPrefix` returns only its callback's error, so that the answer is ok
with what was seen before, usually nothing. The client trims every name
before it sends it, so `KeyOf` does; a VSOA client that does not is outside the
model (section 6). `settled` and `edited` are history.
In `AtomicRegistry` a reply is the call's `result`; the request's way is not there, and of
the closing there is that a controller may be "ending", when a list may miss records.

**Registry.** A key is its kind and name in the order of bytes; the bare prefix has
no name. A list is the set of keys whose records it returns: that they come in the
order of the keys is the scan itself. `Write` is put or delete of either kind; the events of all go into one
ring. `hand` is the event the goroutine is about to send in the inner select.
`received`, `log` and `dropped` are history. A reopened database is another
process, so nothing is left of the watch. A `clear` of `rosedb-dump` deletes one
key after another, so that one that fails is some of its deletes.

**ServiceUpdate.** A part of the detail has one of a few values, `Blank` for absent
and `Default` for what the client fills in; the sub-structures of
`EcsImageConfig` are all treated alike and are the part "other", except the memory
limit, which is always set. `raced` is history: the parts changed since the detail was read,
under the same id. A new id makes a request that names the old one fail.

**ImageRef.** Texts are sequences of the marks both functions look at, and one that
stands for everything else ("sylixos" included). `CreateService` may create a
service of any name that both accept. `NoText` is the empty text that comes with an error.

**TestSummary.** `Read` is the body of the scanner loop for one event, taken as
go test writes it; the operators below are the report. A line that is not JSON is
one that changes nothing. Its initial states, steps and specification are called `RunInit`,
`RunNext` and `TestRun`, so that one module can extend it together with `Collector`.

### Assumptions about what is not in the repository

* **RoseDB** keeps a bounded ring of watch events and overwrites the oldest. It
  may report the delete of a key that does not exist (to the watch; its caller gets
  no error, `registry_coverage_test.go:93`). Reads see the last write, and a write that
  returned survives the end of the process. Operations on a closed database fail; a scan
  just ends. Only one process has a database open.
* **VSOA's library** runs handlers concurrently. `Call` returns what the server
  answered or, when the connection is gone, an error; a request may get lost, and is not
  sent twice. `Close` may cut off replies. `Serve` returns after `Close`, also when it is
  called only after it.
* **ECSM** (module `Ecsm`, from the client code and the fake servers of the tests):
  accepted requests change what is configured, the report follows later. An
  update may change the id and keeps a service started or stopped. A stop leaves
  the instances in place (the tests' stopped services have `instanceActive` 1 and
  `instanceOnline` 0); would a stop take `instanceActive` to 0, a desired stop
  with replicas would be scaled at every scan. Unknown ids and creating an
  existing service are refused. A request that has left may be carried out after the client
  gave up or its process died. Every service ECSM lists has an id (for one without the
  client sends nothing and returns an error, REC-12). ECSM does catch up with what is configured. What
  it holds of a service besides the fields of `ServiceDetail` is not looked at.
* **go test -json** names the package in every event, and exits with an error if a package
  failed.

## 3. Runs

| Run | Instance | Result |
| --- | --- | --- |
| `work_queue` | 3 services, 3 workers, shutdown at any time; 2603 states | safety, `ImplementsServiceQueue`, `EveryItemTaken`, `WorkersStop` hold |
| `reconcile_loop` | replica counts 0 to 3, ids 1 and 2, any rewrite and any drift between rounds; 3004 states | `AtMostTwoRounds`, `QuietIffSatisfied`, `NeverRefused`, `DecisionsExecutable` hold |
| `controller_safety` | 1 service, two writes or deletes, one fault, one drift, one restart, ring and channel of one place; 3.9 million states | `OneAtATime`, `UpdateTracked`, `StaleOnlyIfOvertaken`, `NothingUndone`, `RestKept` hold |
| `controller_converges` | 1 service, any start, one write, one fault, ids changing with every update; 320 thousand states | `RefusedOnlyIfDisturbed`, `Converges`, `ComesToRest` hold |
| `controller_isolation` | 2 services, one of which cannot be created, one fault, drift and restart; 675 thousand states | `Converges` holds |
| `collector` | 5 services, pages of two, every initial order, 2 changes during the collection; 170 thousand states | `CompleteUnlessShifted`, `PagesBounded`, `CollectionEnds` hold |
| `app_lifecycle` | two places in the queue, every failure, a signal at any time; 53 thousand states | `CauseReported`, `StoreOutlivesComponents`, `StopsWhenAsked`, `OneEndsAll` hold |
| `every_update_queued` | 1 service, two writes, room for all events, no faults | violated, see section 6 |
| `desired_calls` | 2 calls, each of six requests (the five operations, typed names with and without white space, an invalid state), one restart, meanwhile any bytes put by `rosedb-dump`, valid, invalid, under a foreign name or undecodable; 1.1 million states | `OnlyUsableWritten`, `AcknowledgedStands`, `ImplementsAtomicRegistry`, `GoroutinesEnd` hold |
| `registry` | 6 keys (both kinds, a bare prefix, keys before and between the prefixes), ring of two, channel of one, 4 writes; 361 thousand states | `ListsSeparate`, `WatchFaithful`, `WatchEnds` hold |
| `service_update` | 2 updates, 2 edits of any part to anything, 5 image configurations, as names all texts of up to 6 of 6 marks; 777 thousand states | `ImageConfigKept`, `CreatableNames`, `UndoesOnlyRacing` hold |
| `test_summary` | 2 packages whose tests have the same 2 names; 6146 states | `PassedMeansAllEnded`, `StatsExact` hold |

`reconcile_loop` and `controller_safety` also check `TypeOK`. The types of
the other specifications are not repeated in the runs; they are proved, as part of the
inductive invariants (`TypeCorrect`, `SummaryTypes`).

Bounds. All are named constants. *Queue:* a lost wake-up takes a waiter, an adder and a taker;
three workers allow two waiters and one that works. *Counts:* comparisons need a
count below, one equal, one above and zero. *Writes:* two of one service are
needed for one to overtake the other; with a ring and a channel of one place the
second already pushes events out. *Faults, drifts, restarts:* `MaxFaults`,
`MaxDrifts` and `MaxCrashes` bound how many happen, not when; one of each already
interleaves with every step. *Services:* the worker's and scanner's
steps for different services share nothing but the queue, whose behaviour with
several services is what `work_queue` checks; the second service of
`controller_isolation` is there to occupy the worker. The liveness runs use
smaller budgets because they need the whole behaviour graph at once. *Pages:* five
services on pages of two make lists of none to three pages, with a full last page and
with one that is not; `MaxChanges` is two, for a growth to compensate a removal.
*Shutdown:* `MaxQueued` of two lets the worker drain while watcher and scanner still add;
every other variable is bounded by the code. *Calls:* one call against each other
kind of call; each makes one request, so
everything is finite, and `MaxRestarts` is one because a call that outlives two
processes is in no other state than after one. One service suffices: calls on
different services share nothing but the list, which is one read. The database is
empty at first (`StoredBefore`); whatever a caller did not write comes from
`rosedb-dump` at the restart. *Ring:* two events, so
that one of the other kind pushes one out; four writes fill hand, channel and ring.
*Updates:* one request may arrive between both requests of the other; the edits
come before, between and after. *Texts:* a name, a tag and a system of one mark,
the two marks between them, and one mark more.

Fairness. `WF` of each goroutine: the Go scheduler runs every goroutine that can
run. In `WorkQueue` per worker; in `Controller` for the forwarding goroutine, the watcher,
the worker and the scanner, whose ticker fires for ever, and for ECSM
(`EcsmSettles`, `LateArrival`); in `Collector` for the next request, which ends
if only by its timeout; in `AppLifecycle` for each goroutine, with `SF` for the two that
return to a select which also has other cases (`WatcherStops`, `ScannerStops`): Go
chooses at random among the cases that are ready, so a select that is reached for
ever sees the finished context. `Serve` need not fail, and the signal need not
come. In `DesiredCalls` a handler comes to its end, a goroutine whose answer is there or
whose connection is broken goes on, and a caller takes a result that is there; nobody
has to give up, and neither server nor process has to end. In `Registry` the goroutine of
`WatchDesired` runs when it can; its receiver need not receive. Nothing is assumed about writes, drifts, restarts or
failures except that each budget is finite: "eventually" means once they have
stopped.

## 4. What the properties say

* `PendingExact`, `SingleFlight`, `NoLostWakeup`: section 1, the queue.
* `EveryItemTaken`: unless the application shuts down a queued service reaches a
  worker. `WorkersStop`: after cancellation all workers return, including those
  asleep in `Get`, and including draining what is still queued, since `Get` prefers
  an item to the cancelled context.
* `AtMostTwoRounds`: undisturbed, no more than two rounds send anything.
  `QuietIffSatisfied`: none is decided exactly for satisfied states.
* `UpdateTracked`: a write the worker has not read is in the ring, the channel
  or the queue, or about to be read, unless RoseDB dropped the event, the queue
  merged it into a reconciliation that had read before, the read failed, or the
  process restarted.
* `StaleOnlyIfOvertaken`: while comparing and applying, the worker holds the
  registry's current state, or one that was current when it read it and has been
  overwritten since.
* `NothingUndone`: where ECSM is configured to come to what the registry asks for, no
  request of the worker changes that, unless the desired state was written since the
  worker read it. The worker decides on a report that may lag behind the configuration,
  and its second request is sent after others may have changed the service; it may
  send what is superfluous, not what is wrong. A request that arrives late
  is not covered: it may undo what was done meanwhile, and the scanner repairs that.
* `RefusedOnlyIfDisturbed`: while no call failed, nobody else changed a service and the
  process was not restarted, ECSM refuses no request. This is `NeverRefused` for the
  assembled controller, with ids that change, writes and an ECSM that lags. A restart is
  excepted, for a request which the dying process had sent may change an id between two
  requests of the next one; what follows a restart is repaired (`Converges` in
  `controller_isolation`) and does not touch a service at rest (`RestKept` in
  `controller_safety`).
* `RestKept`: a service that is as desired, with nothing under way for it, stays so until a
  caller writes something else or somebody changes it in ECSM: the safety half of
  `Converges` and `ComesToRest`.
* `CompleteUnlessShifted`: a collection during which the list only grew at its end
  has every service that was there from the beginning, once. `PagesBounded`: it
  reads no further than the first total, however the list grows. `CollectionEnds`.
* `CauseReported`: Run returns without an error, or with an error of the closing it
  brought about, only if it was asked to stop; no goroutine may return nil on its
  own. `StoreOutlivesComponents`: the store is closed after the four goroutines of Run have
  returned and the server was closed; handlers and the forwarding goroutine are not joined.
  `StopsWhenAsked`, `OneEndsAll`: after a signal, a failure or the return of any
  part, every goroutine ends and the process exits.
* `ImplementsAtomicRegistry`: section 1, the API. It says in particular that a call
  that was answered acted exactly once before, that a call that was given up acts at
  most once, and that nothing else writes. A list that is answered while the database is
  closed may be short. `OnlyUsableWritten`: while a controller has the database nothing
  reaches it that the worker cannot act upon, whatever is asked, however late, and whatever
  `rosedb-dump` left there; what `rosedb-dump` itself puts is not checked by anybody.
* `AcknowledgedStands`: an acknowledged update is in the registry until a call that
  overlaps it, follows it, or ended in an error. `GoroutinesEnd`: also after its caller gave up.
* `ListsSeparate`, `WatchFaithful`, `WatchEnds`: each list has its kind exactly, or fails
  for a record of its own; the watch passes on the events of desired states in
  order, until the ring has dropped one; it ends though nobody receives.
* `UndoesOnlyRacing`: what an update changes besides the factor was empty, or was edited
  after the detail was read and under the same id. `ImageConfigKept`: until somebody edits a service
  it has its image's configuration.
* `CreatableNames`: of the valid names those can be created whose "@" comes before any
  "#", or which have a name and a version in Docker's form (`name:version`) before it; all
  others are stored and fail in every round. A name without "#" is its own image.
* `PassedMeansAllEnded`, `StatsExact`: section 1.
* `Converges`, `ComesToRest`: after the disturbances ECSM agrees with the registry for
  good, and no more requests are sent.

## 5. Proofs

Checked with TLAPS for any number of services, workers, calls, counts, ids, keys, names,
buffer sizes and disturbances. The assumptions, named in the modules that declare the constants:

| Assumption | Says | Because |
| --- | --- | --- |
| `CountsAssumption`, `IdsAssumption` | counts are natural numbers and include 0 and 1; ids are positive | the code's own 0 and 1 (`CompareDesiredActual`, `CreateService`); 0 stands for no service |
| `ControllerAssumption` | what is stored is validated; ring and channel have a place; budgets are natural numbers | `validateDesiredState` at every write (`OnlyUsableWritten`); nobody put an invalid or wrongly named record with `rosedb-dump` |
| `QueuedAssumption`, `CallsAssumption` | the bound of the model's queue and the number of restarts are natural numbers, the database begins with storable values | |
| `ApiAssumption` | a request has the parts its handler decodes; "no replicas given" is not a number; what is asked for decodes when it was written; replicas that decode are a number | `pkg/vsoa/types.go`, `pkg/registry/types.go` |
| `CollectorAssumption` | services are finitely many, a page has a place | `defaultServicePageSize` is 50 |
| `UpdateAssumption` | names are texts; `Blank` and `Default` are not values somebody sets, and an absent configuration is not one | |
| `SummaryAssumption` | a package has finitely many tests, none of them named like an event of the package itself | an event without a test's name is about its package |
| `RegistryAssumption` | keys with a common prefix follow one another; ring and channel have a place | the order of bytes; RoseDB's watch needs a queue |

**WorkQueueProofs.** `NoLostWakeup`, `SingleFlight` and `PendingExact` need each
other: `Add` may append a service because it is not in `pending`, which says it
is neither queued nor in hand only if `pending` is exact. `IInv` adds
`HandMatchesPc` (a worker holds exactly one service between `Get` and `Done`, and
waits only in the select). One lemma per action that touches the sequence; the
others are one lemma (`QuietInv`). `Refinement` maps `line` to `items` and `busy`
to the services in hand: `GetTake` is `Take`, `Done` is `Done`, both critical
sections of `Add` are `Add`, all else stutters.

**ReconcileLoopProofs.** `AtMostTwoRounds` is not inductive. `Needed` says how many
rounds a state still needs (0, 1 or 2), and `IInv` that rounds used plus rounds
needed stay within two, and that unsent requests are either the whole round
computed for the present state (`WholeRound`) or the one after an update whose
effect is known (`LastRequest`). `DecisionTable` and `RoundTable` prove the tables of
`CompareDesiredActual` and `Apply` once; four round shapes remain (`OneCreate`,
`OneUpdate`, `OneAction`, `UpdateThenAction`), and `FirstSendInv` and `LastSendInv`
go through them.

**ControllerProofs.** `UpdateTracked` and `StaleOnlyIfOvertaken` need the queue's own
facts. An event that `Add` ignores is safe only if the service is already in the queue,
or in the hands of the one worker, who then either is about to read the registry or
makes the event count as missed; so `IInv` contains `OneAtATime`, and an injective
`line` so that a service taken is not also waiting. `WorkerHolds` says that the worker
compares and applies a written state, and that every request it still has to send, or
that is still on its way to ECSM, is a valid one (`ValidRequest`: no service is given
zero instances); type correctness of ECSM's state rests on it. Each action has its
lemma; the steps that leave queue and registry alone go through two general ones,
`Within` (the worker between `Get` and `Done`) and `Aside` (scanner and ECSM). What the
worker sends has an invariant on top of that, `RequestsInv`: every request it still
holds fits the state it read (`RequestsFit`, from the shape of a round, `RoundFits`),
and undisturbed nothing is on its way by itself, the next request is accepted, and no
later one is a create (`AcceptedUndisturbed`). A request that fits keeps what ECSM comes
to as desired (`FitsKeeps`); as the state that was read is the registry's
(`StaleOnlyIfOvertaken`), that is `NothingUndone`. `RefusedOnlyIfDisturbed` follows
since the id an accepted request leaves (`IdAfter`) is the one the next is sent with,
and catching up leaves it alone (`SettledAccepts`). `RestKept` needs no more than
`IInv`: the state the worker compares with is the registry's, and of what is satisfied
it makes no requests (`SatisfiedQuiet`); a request that a killed process leaves behind belongs to
a service that was not at rest. For every other step `RestWhere` says what
matters. `WorkerFrame` and `UndisturbedFrame` say once which steps touch the requests,
and which touch ECSM without spending a fault or a drift.

**AppLifecycleProofs.** `CauseReported` needs `QuietOnlyIfStopped`
(a result without an error, kept, in the channel or received, exists only once
the context is done) and the fact that until the select ended only the caller can
have ended it. `RunOrder` says what each stage of Run implies for the goroutines, which gives
`StoreOutlivesComponents`. The components differ only in what they return, so one lemma
(`StepsInv`) carries the invariant over any step of one of them.

**GatheringProofs, Collector.** `CompleteUnlessShifted` is about a finished collection
only. `IInv` says what is true on the way, as long as the list was not shifted: what has
been collected is how the list still begins (`CollectedIsPrefix`), and what was there at
first is within the total that was reported (`PresentWithinTotal`), since the list was
no shorter when the total was taken. `PagesBounded` is part of `IInv`: all pages before
the last were full, so the next page is cut out of the list right behind what was
collected (`PageProperties`). A collection that ends with a short page, or at the total,
has everything (`DoneIsComplete`).

**GatheringProofs, TestSummary.** `ResultIsState`: what was read of a test is how far it
got, which one event keeps because the key is the package with the name (`ReadEvent`).
`PackageIsState`: a package that was tested was read of, and one that ended well left no
test running. With both, "passed" leaves no place for a failed, running or stopped test,
since a package that broke makes the exit code. `StatsExact` compares a count of results
with a count of names: a name with its package is a bijection between the two
(`CountedByName`).

**DesiredCallsProofs.** `AcknowledgedStands` starts too late to be inductive: the update
is in the registry from the instant its handler wrote, long before the caller knows.
`WrittenStands` says that, with "disturbed" in the place of a later change;
`SettledStay` that a call which was over stays over, so that no call which began
afterwards can be taken for an older one. `RespondsOnce` and `ToldOnce` relate the
three places where an answer can be (`reply`, `resultCh`, `answer`): each is empty, an error, or
that one response. With them `Refinement` maps `HandlerActs` to the instant at which a call acts,
`HandlerRefuses` to one at which it does not, `HandlerFindsClosed` to `Act` for a health
check, to `ListPart` for a list and to `Refuse` for all else, `TakeResult` and `GiveUp` to
its end, the closing of the store, the end and the start of the process to `Serve`; the
goroutine, the connection, the handler's checks and the rest of `Shutdown` stutter.

**ServiceUpdateProofs.** `UndoesOnlyRacing` is an action property; it needs of the state
before that a copy which can still arrive differs from the service only in parts that
raced or were blank (`ChangesOnlyRacing`), which holds because a new id makes a pending
request fail and because defaults fill only blank parts. `CopiesFromImage`
says the same for the image's configuration. `NamesCreatable` is about the text of a name
of any length: that `TrimText` takes the white space of both ends and nothing else rests on
the least and the greatest place of a mark (`LeastNumber`, by well-founded induction over
the naturals as the library states it for sets, `GreatestNumber`). What is before the "#"
has an "@", or Docker's form, exactly if it has them without the white space around it
(`TrimmedHas`, `TrimmedColon`); without a slash, which a valid name has not, Docker's form
is a text on both sides of the last colon (`DockerForm`).

**RegistryProofs.** `WatchFaithful` is inductive together with the types. It is used in the form
`Faithful`: the log is what was passed on and then a sequence chosen from the ring. The lemmas
about `Chosen` say what an event at the end of the ring and one taken from its head do to the
choice; each needs the strictly increasing places of the new choice, made from those of
the old. Ring, hand, channel and receiver share one sequence (`Passed`), so that `Send` and
`Receive` leave it alone. `ListsAreSeparate`: the scan from the prefix on finds
exactly the keys that have it, since these follow one another.

Model-checked only: every safety property of the runs is proved, except
`EveryUpdateQueued`, which is false. What is left to TLC is liveness, which TLAPS does not prove under fairness:
`EveryItemTaken`, `WorkersStop`, `Converges`, `ComesToRest`, `CollectionEnds`,
`StopsWhenAsked`, `OneEndsAll`, `GoroutinesEnd`, `WatchEnds`.

## 6. Where documents and code disagree

* `README.md`, line 129: after a change the watcher puts the service into the
  queue. An event that arrives while the worker is busy with the older state is
  ignored by `Add`, nothing is queued, and the change waits for the next scan.
  Run `every_update_queued`; `Converges` shows the scanner does repair it.

The following were met while translating the code; the models follow the code, and
no run is kept for them.

* `KV_STORAGE_DESIGN.md`, line 45: a stop ignores replicas. `ReplicaDiff` comes
  before the action in `CompareDesiredActual`, so a service that is to be stopped,
  with a count that differs, is scaled first and stopped in a later round.
  (`TEST_REPORT.md`, UT-10, describes what the code does.)
* `pkg/ecsmclient/collector.go`, line 65: the complete list is collected. A service
  removed between two requests moves the first service of the next page to a page
  already read: `CompleteUnlessShifted` has to exclude that. The service that was
  missed looks like one to be created, and ECSM refuses to create it twice.
* `VSOA_API.md`, line 118, and `TEST_REPORT.md`, API-07: deleting a service that does not
  exist is answered with "registry: not found". `HandlerDeletes` answers ok, as
  RoseDB's `Delete` reports no error.
* `TEST_REPORT.md`, API-02: what an update has stored can be queried. With white
  space around the name, which validation accepts, the handler of `update` trims
  and those of `query` and `delete` do not. `pkg/desiredclient` trims everywhere;
  another VSOA client meets this.
* `pkg/ecsmclient/client.go`, line 436: the details are to be preserved by an update.
  An edit between the two requests of an update is lost; `UndoesOnlyRacing` says
  which.
* `pkg/ecsmclient/client.go`, line 397: an image needs a version. The valid name `a#x@1` is
  the image `a` of the system `x@1` for the client, which has none, so the service is stored
  and fails in every round; `CreatableNames` says which names do. The reference made of the
  valid name `a@#x` has an empty version and is sent to ECSM.
* `VSOA_API.md`, line 21: a list is of all desired states. While the controller closes its
  store a list may be answered ok without them, as `ascendPrefix`
  (`pkg/registry/rosedb.go`, line 228) does not learn that the scan could not read on.
* `tools/testsummary/main.go`, line 155: a passed run's report says that no test was
  skipped; `Status` does not look at skipped tests. Line 177: packages listed as
  without tests have none; `PackagesWithoutTests` also has one whose test binary
  stopped during its first test.

## 7. Plan

Done: every component that has state is modelled, every safety property of the runs is
proved, and both abstract specifications (`ServiceQueue`, `AtomicRegistry`) are proved to be
implemented.

Not done: `AtMostTwoRounds` for the composition. `ReconcileLoop` counts rounds against an
ECSM that reports at once what it was told. In `Controller` reports lag, and until
ECSM has caught up every scan may make the worker send the same requests again, so no
number of rounds bounds them; that this comes to an end is `ComesToRest`, that it does no
harm `NothingUndone`.

## 8. Not modelled

* `pkg/config`: reads one YAML file into a record; no state and no decisions.
* Flag parsing, printing and exit codes of the commands.
* The loss of acknowledged writes when the machine stops and RoseDB's `Sync` is
  off: RoseDB's files are not in the repository.
* Layout, durations and the coverage figure of the test summary.
