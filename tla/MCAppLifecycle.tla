--------------------------- MODULE MCAppLifecycle ---------------------------
(***************************************************************************)
(* The application with up to two services waiting in the queue, so that   *)
(* the worker drains while the producers still add.                        *)
(***************************************************************************)
EXTENDS AppLifecycle

MCMaxQueued == 2
=============================================================================
