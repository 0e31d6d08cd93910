----------------------------- MODULE WorkQueue -----------------------------
(***************************************************************************)
(* pkg/queue/queue.go, with the worker loop of pkg/reconciler that calls   *)
(* it. Every critical section of q.mu is one action.                       *)
(*                                                                         *)
(* A Get that finds the queue empty captures q.notify, releases the mutex  *)
(* and then selects on ctx.Done() and that channel. The Add that makes the *)
(* queue non-empty closes the channel and installs a new one, so the only  *)
(* thing that matters about a captured channel is whether it is still the  *)
(* current one: `waiting` holds the workers whose channel is.              *)
(***************************************************************************)
EXTENDS Sequences, FiniteSets, Functions

CONSTANTS
  Services,    \* service names
  Workers      \* goroutines that run Worker.Run

VARIABLES
  items,       \* q.items
  pending,     \* q.pending
  waiting,     \* workers whose captured notify channel has not been closed
  pc,          \* "get", "select", "work" or "stopped", per worker
  hand,        \* the services a worker took and has not finished: {} or {s}
  cancelled,   \* the context given to Get is done
  producing    \* the watcher or the scanner may still call Add

vars == <<items, pending, waiting, pc, hand, cancelled, producing>>

TypeOK ==
  /\ items \in Seq(Services)
  /\ pending \subseteq Services
  /\ waiting \subseteq Workers
  /\ pc \in [Workers -> {"get", "select", "work", "stopped"}]
  /\ hand \in [Workers -> SUBSET Services]
  /\ cancelled \in BOOLEAN
  /\ producing \in BOOLEAN

Init ==
  /\ items = <<>>
  /\ pending = {}
  /\ waiting = {}
  /\ pc = [w \in Workers |-> "get"]
  /\ hand = [w \in Workers |-> {}]
  /\ cancelled = FALSE
  /\ producing = TRUE

-----------------------------------------------------------------------------
\* Add, first critical section taken when the service is already pending.
AddMerged(s) ==
  /\ producing
  /\ s \in pending
  /\ UNCHANGED vars

\* Mutant: Add never closes the channel.
CloseNothing == UNCHANGED waiting

\* Close the current notify channel and install a fresh one.
CloseNotify == waiting' = {}

\* Mutant: Add puts the service at the front.
AddNewInFront(s) ==
  /\ producing
  /\ s \notin pending
  /\ pending' = pending \union {s}
  /\ items' = <<s>> \o items
  /\ IF items = <<>> THEN CloseNotify ELSE UNCHANGED waiting
  /\ UNCHANGED <<pc, hand, cancelled, producing>>

\* Mutant: the emptiness test that decides about closing is inverted.
AddNewWakesWrongly(s) ==
  /\ producing
  /\ s \notin pending
  /\ pending' = pending \union {s}
  /\ items' = Append(items, s)
  /\ IF items # <<>> THEN CloseNotify ELSE UNCHANGED waiting
  /\ UNCHANGED <<pc, hand, cancelled, producing>>

\* Add of a service that is not pending.
AddNew(s) ==
  /\ producing
  /\ s \notin pending
  /\ pending' = pending \union {s}
  /\ items' = Append(items, s)
  /\ IF items = <<>> THEN CloseNotify ELSE UNCHANGED waiting
  /\ UNCHANGED <<pc, hand, cancelled, producing>>

\* Mutant: the name leaves pending when it is taken, not when it is done.
GetTakeForgets(w) ==
  /\ pc[w] = "get"
  /\ items # <<>>
  /\ items' = Tail(items)
  /\ hand' = [hand EXCEPT ![w] = {Head(items)}]
  /\ pc' = [pc EXCEPT ![w] = "work"]
  /\ pending' = pending \ {Head(items)}
  /\ UNCHANGED <<waiting, cancelled, producing>>

\* Get finds an item. It does not look at the context first.
GetTake(w) ==
  /\ pc[w] = "get"
  /\ items # <<>>
  /\ items' = Tail(items)
  /\ hand' = [hand EXCEPT ![w] = {Head(items)}]
  /\ pc' = [pc EXCEPT ![w] = "work"]
  /\ UNCHANGED <<pending, waiting, cancelled, producing>>

\* Get finds the queue empty, captures notify and releases the mutex.
GetWait(w) ==
  /\ pc[w] = "get"
  /\ items = <<>>
  /\ waiting' = waiting \union {w}
  /\ pc' = [pc EXCEPT ![w] = "select"]
  /\ UNCHANGED <<items, pending, hand, cancelled, producing>>

\* The select sees the captured channel closed: go round the loop.
WakeNotify(w) ==
  /\ pc[w] = "select"
  /\ w \notin waiting
  /\ pc' = [pc EXCEPT ![w] = "get"]
  /\ UNCHANGED <<items, pending, waiting, hand, cancelled, producing>>

\* Mutant: the context is only looked at after the channel was closed.
WakeCancelledLate(w) ==
  /\ pc[w] = "select"
  /\ cancelled
  /\ w \notin waiting
  /\ pc' = [pc EXCEPT ![w] = "stopped"]
  /\ UNCHANGED <<items, pending, waiting, hand, cancelled, producing>>

\* The select sees the context done: Get returns false and Worker.Run returns.
WakeCancelled(w) ==
  /\ pc[w] = "select"
  /\ cancelled
  /\ pc' = [pc EXCEPT ![w] = "stopped"]
  /\ waiting' = waiting \ {w}
  /\ UNCHANGED <<items, pending, hand, cancelled, producing>>

\* Mutant: the worker never tells the queue it is done.
DoneKeepsPending(w) ==
  /\ pc[w] = "work"
  /\ hand' = [hand EXCEPT ![w] = {}]
  /\ pc' = [pc EXCEPT ![w] = "get"]
  /\ UNCHANGED <<items, pending, waiting, cancelled, producing>>

\* Reconcile has returned, with or without an error; the worker calls Done.
Done(w) ==
  /\ pc[w] = "work"
  /\ pending' = pending \ hand[w]
  /\ hand' = [hand EXCEPT ![w] = {}]
  /\ pc' = [pc EXCEPT ![w] = "get"]
  /\ UNCHANGED <<items, waiting, cancelled, producing>>

-----------------------------------------------------------------------------
\* The application cancels the context its goroutines share.
Cancel ==
  /\ ~cancelled
  /\ cancelled' = TRUE
  /\ UNCHANGED <<items, pending, waiting, pc, hand, producing>>

\* The watcher and the scanner have both seen the context done and returned.
ProducersStop ==
  /\ cancelled
  /\ producing
  /\ producing' = FALSE
  /\ UNCHANGED <<items, pending, waiting, pc, hand, cancelled>>

Worker(w) ==
  \/ GetTake(w)
  \/ GetWait(w)
  \/ WakeNotify(w)
  \/ WakeCancelled(w)
  \/ Done(w)

\* Every goroutine has returned; nothing is left to happen.
Finished ==
  /\ ~producing
  /\ \A w \in Workers : pc[w] = "stopped"
  /\ UNCHANGED vars

Next ==
  \/ \E s \in Services : AddMerged(s) \/ AddNew(s)
  \/ \E w \in Workers : Worker(w)
  \/ Cancel
  \/ ProducersStop
  \/ Finished

Spec == Init /\ [][Next]_vars

\* A goroutine that can run is run; producers notice the cancelled context.
FairSpec ==
  /\ Spec
  /\ \A w \in Workers : WF_vars(Worker(w))
  /\ WF_vars(ProducersStop)

-----------------------------------------------------------------------------
\* The services some worker is processing.
InHand == UNION {hand[w] : w \in Workers}

(***************************************************************************)
(* The pending set is exactly the queued services and the ones being       *)
(* processed: a name that stayed behind would block every later event of   *)
(* its service for ever, one missing would let the service be queued       *)
(* twice.  (queue.go: Add and Done are the only writers of pending, Get    *)
(* moves a name from items to the worker without touching it.)             *)
(***************************************************************************)
PendingExact == pending = Range(items) \union InHand

(***************************************************************************)
(* One service is never reconciled by two workers at once, nor queued      *)
(* while a worker is on it, nor queued twice: what keeps two read-modify-  *)
(* write rounds against ECSM for one service from overlapping.             *)
(***************************************************************************)
SingleFlight ==
  /\ \A w, x \in Workers : w # x => hand[w] \cap hand[x] = {}
  /\ InHand \cap Range(items) = {}
  /\ IsInjective(items)

(***************************************************************************)
(* No worker sleeps on a channel nobody has closed while there is work:    *)
(* the check of len(q.items) and the capture of q.notify are one critical  *)
(* section, and Add closes the channel only when the queue was empty.      *)
(***************************************************************************)
NoLostWakeup == items # <<>> => waiting = {}

\* A worker holds a service exactly while it is between Get and Done.
HandMatchesPc ==
  \A w \in Workers :
    /\ pc[w] = "work" <=> hand[w] # {}
    /\ \A s, t \in hand[w] : s = t
    /\ w \in waiting => pc[w] = "select"

\* The inductive invariant of the proofs.
IInv == TypeOK /\ PendingExact /\ SingleFlight /\ NoLostWakeup /\ HandMatchesPc

(***************************************************************************)
(* The queue with its mutex, its channels and its blocked workers is a     *)
(* ServiceQueue: FIFO, each service at most once, an Add of a service in   *)
(* process without effect.                                                 *)
(***************************************************************************)
Abstract == INSTANCE ServiceQueue WITH line <- items, busy <- InHand

ImplementsServiceQueue == Abstract!QueueSpec

\* Unless the application shuts down, a queued service reaches a worker.
EveryItemTaken ==
  \A s \in Services : s \in Range(items) ~> (s \notin Range(items) \/ cancelled)

\* After cancellation every worker returns, whatever it was doing.
WorkersStop == cancelled ~> \A w \in Workers : pc[w] = "stopped"
=============================================================================
