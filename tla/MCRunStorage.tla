----------------------------- MODULE MCRunStorage -----------------------------
(* Values for checking RunStorage with TLC. *)
EXTENDS RunStorage

CONSTANTS p1, p2

MCProcesses == {p1, p2}

MCBranches == {"main", "dev"}

MCFirstTips == [b \in MCBranches |-> IF b = "main" THEN 1 ELSE 2]

Ref(branch, remote) == [branch |-> branch, remote |-> remote]

MCPushed == {{"main"}}

Clone(review, fetch) ==
  [in_place |-> FALSE, dir |-> Source, review |-> review, fetch_upstream |-> fetch]

InPlace(d) == [in_place |-> TRUE, dir |-> d, review |-> NoRef, fetch_upstream |-> TRUE]

Launch(a, b) == [p \in MCProcesses |-> IF p = p1 THEN a ELSE b]

MCLaunches ==
  {Launch(Clone(Ref("dev", FALSE), TRUE), Clone(Ref("main", TRUE), FALSE)),
   Launch(Clone(Ref("dev", FALSE), TRUE), InPlace(0)),
   Launch(Clone(Ref("main", TRUE), TRUE), [InPlace(Source) EXCEPT !.in_place = FALSE])}
=============================================================================
