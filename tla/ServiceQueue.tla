---------------------------- MODULE ServiceQueue ----------------------------
(***************************************************************************)
(* What the controller's work queue promises to its callers, without       *)
(* mutexes, channels or blocked goroutines: services are processed in the  *)
(* order they were added, each is in the queue at most once, and while a   *)
(* service is being processed a further Add of it changes nothing.         *)
(*                                                                         *)
(* WorkQueue implements this module; Controller uses it as its queue.      *)
(***************************************************************************)
EXTENDS Sequences, FiniteSets, Functions

CONSTANT Services    \* the service names that may be queued

VARIABLES
  line,    \* services waiting to be processed, oldest first
  busy     \* services taken by a worker and not yet Done

queueVars == <<line, busy>>

QueueTypeOK ==
  /\ line \in Seq(Services)
  /\ busy \subseteq Services

QueueInit ==
  /\ line = <<>>
  /\ busy = {}

\* A service the queue already knows: waiting or being processed.
Known(s) == s \in Range(line) \/ s \in busy

Add(s) ==
  /\ line' = IF Known(s) THEN line ELSE Append(line, s)
  /\ UNCHANGED busy

Take ==
  /\ line # <<>>
  /\ line' = Tail(line)
  /\ busy' = busy \union {Head(line)}

Done(s) ==
  /\ s \in busy
  /\ busy' = busy \ {s}
  /\ UNCHANGED line

QueueNext ==
  \/ Take
  \/ \E s \in Services : Add(s) \/ Done(s)

QueueSpec == QueueInit /\ [][QueueNext]_queueVars
=============================================================================
