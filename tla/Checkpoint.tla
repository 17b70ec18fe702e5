----------------------------- MODULE Checkpoint -----------------------------
(***************************************************************************)
(* The checkpoint file of checkloop/checkpoint.py: what a run leaves on    *)
(* disk so that a later run can continue it.                               *)
(*                                                                         *)
(* The record keeps the fields that a resumed run acts on.  "run" stands   *)
(* for started_at, the one field that identifies the run a checkpoint      *)
(* belongs to; "plan" for check_ids (active_check_ids is the same list:    *)
(* every check is active in every cycle).  The threshold, the change       *)
(* percentage of the last cycle and the ids changed in it are saved and    *)
(* printed, never acted on, and are left out.                              *)
(***************************************************************************)
EXTENDS Repo, Sequences

VARIABLE disk  \* the checkpoint file; NoCheckpoint when there is none

CheckpointData(Runs, Plans, Cycles, Ids) ==
  [run : Runs, plan : Plans, cycle : Cycles, index : Nat,
   changed : SUBSET Ids,
   scratch : Branches \union {NoBranch}, fork : Nat \union {NoSha},
   orig : Branches \union {NoBranch}]

NoCheckpoint ==
  [run |-> 0, plan |-> <<>>, cycle |-> 1, index |-> 0, changed |-> {},
   scratch |-> NoBranch, fork |-> NoSha, orig |-> NoBranch]

\* The write is a temporary file and a rename: a crash leaves the file that was
\* there.  A failed write is logged and leaves it too.
SaveCheckpoint(data) == disk' = data

ClearCheckpoint == disk' = NoCheckpoint

\* What validation refuses, beyond the types: an index past the end of the
\* active list.
LoadCheckpoint ==
  IF disk.index > Len(disk.plan) THEN NoCheckpoint ELSE disk

\* Variation: any checkpoint is resumed.
MatchesAnything(selected) == selected # <<>>

\* Compared in order: the same checks in another order are another selection.
CheckpointMatches(selected) == LoadCheckpoint.plan = selected
=============================================================================
