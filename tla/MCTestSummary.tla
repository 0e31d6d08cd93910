--------------------------- MODULE MCTestSummary ---------------------------
(***************************************************************************)
(* Two packages whose tests have the same two names.                       *)
(***************************************************************************)
EXTENDS TestSummary

CONSTANTS p1, p2, n1, n2

MCPackages == {p1, p2}
MCNames == {n1, n2}
=============================================================================
