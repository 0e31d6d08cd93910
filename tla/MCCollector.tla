---------------------------- MODULE MCCollector -----------------------------
(***************************************************************************)
(* Five services on pages of two: lists that end with a full page, lists   *)
(* that do not, and a third page.                                          *)
(***************************************************************************)
EXTENDS Collector

CONSTANTS s1, s2, s3, s4, s5

MCServices == {s1, s2, s3, s4, s5}
MCPageSize == 2
MCMaxChanges == 2
=============================================================================
