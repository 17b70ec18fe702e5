------------------------------- MODULE MCSuite -------------------------------
(* Values for checking Suite with TLC. *)
EXTENDS Suite

CONSTANTS c1, c2

MCChecks     == {c1, c2}
MCArtifacts  == {"build"}
MCAuthors    == MCChecks \union {"user", "memory-fix"} \union MCArtifacts
MCSelections == {<<c1, c2>>, <<c2>>}
MCBranches   == 0..MaxSessions
MCBoolean    == BOOLEAN
=============================================================================
