-------------------------- MODULE MCServiceUpdate --------------------------
(***************************************************************************)
(* Two updates, so that one may arrive late between the other's requests,  *)
(* and two edits, each of any part of the service to anything.  As names,  *)
(* all texts of up to six marks: a name, a tag and a system of one mark    *)
(* each, the two marks between them, and white space or a second mark.     *)
(***************************************************************************)
EXTENDS ServiceUpdate

CONSTANT v1

MCNames == SeqOf(Marks, 6)
MCValues == {v1}
MCTries == 1 .. 2
=============================================================================
