--------------------------- MODULE MCDesiredCalls ---------------------------
(***************************************************************************)
(* Two calls on one service, each with anything the API can be asked: a    *)
(* name that is typed with and without white space, a state that is valid  *)
(* and one that is not.  rosedb-dump brings the bytes that do not decode,  *)
(* and records with either state under either form of the name.            *)
(***************************************************************************)
EXTENDS DesiredCalls

CONSTANTS c1, c2

MCServiceNames == {"worker@1"}

Typed(p) == [text |-> "worker@1", padded |-> p]

UpdateTo(n, action, replicas) ==
  [op |-> "update", name |-> n, state |-> [action |-> action, replicas |-> replicas]]

MCRequests ==
  {[op |-> "healthz"], [op |-> "list"],
   [op |-> "query", name |-> Typed(TRUE)], [op |-> "delete", name |-> Typed(TRUE)],
   UpdateTo(Typed(TRUE), "start", 1), UpdateTo(Typed(FALSE), "start", -1)}

MCDecodable ==
  {[action |-> "start", replicas |-> 1], [action |-> "start", replicas |-> -1]}

MCStoredBefore == {Nothing}

Twice == {c1, c2}
=============================================================================
