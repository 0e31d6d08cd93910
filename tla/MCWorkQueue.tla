---------------------------- MODULE MCWorkQueue ----------------------------
(***************************************************************************)
(* Three services and three workers. The application starts one worker;    *)
(* nothing in the queue depends on that, and several workers make the      *)
(* wake-up of blocked getters and the single-flight guarantee meaningful.  *)
(***************************************************************************)
EXTENDS WorkQueue

CONSTANTS s1, s2, s3, w1, w2, w3

MCServices == {s1, s2, s3}
MCWorkers == {w1, w2, w3}
=============================================================================
