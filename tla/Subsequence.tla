----------------------------- MODULE Subsequence -----------------------------
(***************************************************************************)
(* A list comprehension with a condition.  It is a recursive function, and *)
(* not SelectSeq, because the proofs need its definition.                  *)
(***************************************************************************)
LOCAL INSTANCE Naturals
LOCAL INSTANCE Sequences

(* The elements of seq that are in S, in their order. *)
KeepIn(seq, S) ==
  LET kept[n \in 0..Len(seq)] ==
        IF n = 0 THEN <<>>
        ELSE IF seq[n] \in S THEN Append(kept[n - 1], seq[n]) ELSE kept[n - 1]
  IN kept[Len(seq)]
=============================================================================
