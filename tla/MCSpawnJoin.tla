----------------------------- MODULE MCSpawnJoin -----------------------------
(***************************************************************************)
(* Instances of SpawnJoin for TLC. One channel carries words, the other    *)
(* thread handles.                                                         *)
(***************************************************************************)
EXTENDS SpawnJoin

CONSTANTS t1, t2, main, words, threads, word, none, lost
=============================================================================
