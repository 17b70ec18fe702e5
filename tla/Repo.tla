-------------------------------- MODULE Repo --------------------------------
(***************************************************************************)
(* The git repository a run works on, as checkloop/git.py drives it.       *)
(*                                                                         *)
(* The program compares commits only within a session and while HEAD stays *)
(* on a branch, so a commit is named by the number of commits made since   *)
(* the session began or HEAD came to its branch.  Each changes one unit of *)
(* lines; what git diff shows between two commits is net: the units of the *)
(* commits between them, less what the later ones undo of the earlier.     *)
(***************************************************************************)
EXTENDS Integers, FiniteSets

CONSTANTS
  Authors,     \* whoever can leave edits in the working tree
  Artifacts,   \* the generated paths (build/, dist/, coverage.xml): what changes
               \* there is an author of its own
  Branches     \* the names a branch can have, Main among them

Main     == 0
NoBranch == -1     \* None where the code expects a branch name
NoSha    == -1     \* None where the code expects a commit

ASSUME RepoAssumption ==
  /\ Artifacts \subseteq Authors
  /\ Branches \subseteq Nat
  /\ Main \in Branches

VARIABLES
  head,        \* the branch checked out
  branches,    \* the branches that exist
  sha,         \* the commit HEAD is at
  dirty        \* authors of the edits not committed yet

repoVars == <<head, branches, sha, dirty>>

RepoTypeOK ==
  /\ head \in branches
  /\ branches \subseteq Branches
  /\ sha \in Nat
  /\ dirty \subseteq Authors

RepoInit ==
  /\ head = Main /\ branches = {Main} /\ sha = 0
  /\ dirty \in SUBSET ({"user"} \union Artifacts)

HeadSha == sha

\* The naming of commits begins anew; the repository stays as it is.
RenameCommits ==
  /\ sha' = 0
  /\ UNCHANGED <<head, branches, dirty>>

BranchExists(b) == b \in branches

CheckoutBranch(b) ==
  /\ head' = b /\ sha' = 0
  /\ UNCHANGED <<branches, dirty>>

\* Variation: HEAD is on the branch although it was never created.
CheckoutUnborn(b) ==
  /\ head' = b /\ sha' = 0
  /\ UNCHANGED <<branches, dirty>>

\* Uncommitted work stays in place across `git checkout -b`.
CreateScratchBranch(b) ==
  /\ head' = b /\ sha' = 0
  /\ branches' = branches \union {b}
  /\ UNCHANGED dirty

HasUncommittedChanges == dirty # {}

\* A commit on the branch checked out.
NewCommit == sha' = sha + 1

\* Generated paths are unstaged and stay in the tree: with nothing else staged there
\* is no commit, unless HEAD has such a path, for `git rm --cached` removes it.
GitCommitAll ==
  /\ dirty' = dirty \intersect Artifacts
  /\ NewCommit \/ (dirty \subseteq Artifacts /\ UNCHANGED sha)
  /\ UNCHANGED <<head, branches>>

\* Unstaging fails, or the commit does.
GitCommitFails ==
  /\ UNCHANGED <<head, branches>>
  /\ \/ NewCommit /\ dirty' = {}
     \/ UNCHANGED <<sha, dirty>>

\* The lines changed between a commit of this stay on the branch and HEAD, when
\* "undone" of the units committed between them do not show.
ChangeStats(base, undone) == HeadSha - base - undone
=============================================================================
