----------------------------- MODULE MCRegistry -----------------------------
(***************************************************************************)
(* Two services with a desired state, one with a status, a bare prefix, a  *)
(* key between the prefixes and one before them.  A ring of two events and *)
(* a channel of one: the goroutine waits on the channel while the ring     *)
(* overflows.                                                              *)
(***************************************************************************)
EXTENDS Registry

K(kind, name) == [kind |-> kind, name |-> name]

MCKeyOrder ==
  <<K("other", "a"), K("desired", NoName), K("desired", "v"), K("desired", "w"),
    K("other", "e"), K("status", "v")>>
=============================================================================
