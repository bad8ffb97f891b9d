---------------------------- MODULE MCThreadPool ----------------------------
(***************************************************************************)
(* Instances of ThreadPool for TLC: as many workers as jobs, since each    *)
(* worker is created for one submitted job.                                *)
(***************************************************************************)
EXTENDS ThreadPool

CONSTANTS main, j1, j2, j3, w1, w2, w3, none
=============================================================================
