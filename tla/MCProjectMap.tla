----------------------------- MODULE MCProjectMap -----------------------------
(* Values for checking ProjectMap with TLC. *)
EXTENDS ProjectMap

CONSTANTS t1, t2

MCTrees == {NoFiles, t1, t2}
=============================================================================
