----------------------------- MODULE MCTransact -----------------------------
(***************************************************************************)
(* Names for TLC's instances of Transact: one site with a compensate slot  *)
(* and one without, a build that has both and one that dropped the first.  *)
(***************************************************************************)
EXTENDS Transact

CONSTANTS x, y, a, b, full, bare
=============================================================================
