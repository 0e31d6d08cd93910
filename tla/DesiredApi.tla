----------------------------- MODULE DesiredApi -----------------------------
(***************************************************************************)
(* The vocabulary of the desired state API (pkg/vsoa/types.go, service.go  *)
(* and pkg/registry/keys.go): service names, requests, their validation,   *)
(* and replies.                                                            *)
(*                                                                         *)
(* A name is what a caller types: a service, with or without white space   *)
(* around it.  Only names of ServiceNames pass validation; the others      *)
(* stand for every name that has no tag, two tags or a slash.              *)
(***************************************************************************)
EXTENDS Integers

CONSTANTS
  Texts,           \* the names callers use, white space taken off
  ServiceNames,    \* those of the form name@tag
  Requests,        \* the requests callers make
  Decodable,       \* the states that bytes in the database decode to, valid or not
  NoReplicas,      \* an update request without a replica count
  Calls            \* identifies the calls

Name == [text : Texts, padded : BOOLEAN]

Trim(n) == [n EXCEPT !.padded = FALSE]

\* Validation trims for itself; the key is made of the name as it is.
ValidName(n) == n.text \in ServiceNames

ValidState(st) ==
  /\ st.replicas # NoReplicas
  /\ st.action \in {"start", "stop"}
  /\ st.replicas >= 0

\* The state field is there for an update only.
Valid(r) ==
  CASE r.op \in {"healthz", "list"} -> TRUE
    [] r.op \in {"query", "delete"} -> ValidName(r.name)
    [] r.op = "update" -> ValidName(r.name) /\ ValidState(r.state)

Writes(r) == r.op \in {"update", "delete"}

-----------------------------------------------------------------------------
(***************************************************************************)
(* What is stored under a key: nothing, bytes that decode to a state with  *)
(* a name of its own, or bytes that do not decode.  The API writes valid   *)
(* states under their names; rosedb-dump puts any bytes under any key.  A  *)
(* reply says how the request ended and, when ok, which records it found.  *)
(***************************************************************************)
Nothing == [kind |-> "nothing"]
Garbage == [kind |-> "garbage"]
Record(n, st) == [kind |-> "state", name |-> n, state |-> st]

Records == {Record(n, st) : n \in Name, st \in Decodable}

Storable == {Nothing, Garbage} \union Records

\* The names under which something may be stored.
Key == {n \in Name : ValidName(n) /\ n = Trim(n)}

Reply(how, found) == [found |-> found, how |-> how]

\* The reply to a list that came by these values: one that does not decode fails it.
Listed(values) ==
  IF Garbage \in values THEN Reply("undecodable", {}) ELSE Reply("ok", values)

NoRequest == [op |-> "none"]

\* Nobody has answered yet; the caller was told of an error of the call itself.
Pending == Reply("pending", {})
Error == Reply("error", {})
Refused == Reply("refused", {})

\* The caller knows how its request ended.
Told(reply) == reply \notin {Pending, Error}

ASSUME ApiAssumption ==
  /\ ServiceNames \subseteq Texts
  /\ NoReplicas \notin Int
  /\ \A r \in Requests :
       /\ r.op \in {"healthz", "update", "delete", "query", "list"}
       /\ r.op \in {"update", "delete", "query"} => r.name \in Name
       /\ r.op = "update" /\ r.state.replicas # NoReplicas => r.state \in Decodable
  /\ \A st \in Decodable : st.replicas \in Int
=============================================================================
