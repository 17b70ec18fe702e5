--------------------------- MODULE MCProcessTree ---------------------------
(* Small instances of ProcessTree. *)
EXTENDS ProcessTree, TLC

\* Leaders and kids are interchangeable.
Symmetry == Permutations(Leaders) \union Permutations(Kids)
=============================================================================
