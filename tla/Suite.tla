-------------------------------- MODULE Suite --------------------------------
(***************************************************************************)
(* Runs of checkloop on one repository (--in-place), one session after     *)
(* another.  A session is one process: cli.main decides whether it starts  *)
(* a run or resumes one, suite._run_check_suite executes the cycles, and   *)
(* check_runner.run_single_check executes a check and commits its work.    *)
(* A session can be interrupted or killed between any two steps; the       *)
(* repository and the checkpoint file are all that survives it.            *)
(***************************************************************************)
EXTENDS Checkpoint

CONSTANTS
  Checks,       \* check ids
  Selections,   \* the check lists a session may be started with
  CycleCounts,  \* the values --cycles may have
  DryRuns,      \* whether a session may be a --dry-run
  Threshold,    \* --convergence-threshold, in units of change; 0 disables it
  MaxSessions,  \* bound: sessions started
  MaxFaults     \* bound: operations of git or the file system that fail

Sessions == 1..MaxSessions

ASSUME SuiteAssumption ==
  /\ Authors = Checks \union {"user", "memory-fix"} \union Artifacts
  /\ "user" \notin Checks \union Artifacts
  /\ IsFiniteSet(Checks)
  /\ Selections \subseteq Seq(Checks) \ {<<>>}
  /\ CycleCounts \subseteq Nat \ {0}
  /\ DryRuns \subseteq BOOLEAN
  /\ Threshold \in Nat
  /\ MaxSessions \in Nat
  /\ MaxFaults \in Nat
  /\ Sessions \subseteq Branches

VARIABLES
  (* the command line and the directory of the session *)
  isGit,        \* the directory is a git repository
  plan,         \* the checks selected
  cycles,       \* num_cycles
  dry,          \* --dry-run
  (* the suite's state *)
  pc,           \* where the session is; "off" when no process runs
  run,          \* started_at: the run this session starts or continues
  scratch,      \* scratch_branch, scratch_base_sha and original_branch
  fork,
  orig,
  resume,       \* resume_active_check_ids, start_check_index, resume_changed
  cycle,        \* the cycle the loop is in, or enters next
  base,         \* base_sha of the cycle
  index,        \* how many checks of the cycle are behind
  changed,      \* changed_this_cycle
  before,       \* sha_before of the check being run
  cycleOutcomes,\* how many outcomes the cycle has collected
  outcomes,     \* how many all_outcomes holds
  converged,    \* "no", or how the loop was left early: "measured", or
                \* "unmeasured" when the change could not be computed
  (* what the session tells the operator when it ends *)
  report,
  (* bounds and history *)
  session, faults,
  attachFailed, \* the session could not get onto a scratch branch
  completed,    \* checks completed by this session
  ran,          \* <<run, cycle, check>>: the loop body ran for it; kept for the
                \* runs that can go on, this one and the checkpoint's
  previewed,    \* those of them that only a dry run went through
  landed,       \* checks whose commits the session saw land in this cycle
  undone        \* units of a cycle that converged which its diff does not show

optVars     == <<isGit, plan, cycles, dry>>
branchVars  == <<scratch, fork, orig, attachFailed>>
cycleVars   == <<cycle, base>>
outcomeVars == <<cycleOutcomes, outcomes, completed>>
measureVars == <<landed, undone>>
ghostVars   == <<ran, previewed>>
vars == <<repoVars, disk, optVars, pc, run, branchVars, resume, cycleVars,
          index, changed, before, outcomeVars, converged, report, session,
          faults, measureVars, ghostVars>>

\* What stays when a session is over, beside the repository and the report.
survives == <<isGit, disk, session, faults, ghostVars>>

PC == {"off", "attach", "snapshot", "cycle", "check", "memfix", "commitfix",
       "commit", "save", "clear"}

NotResuming == [active |-> FALSE, index |-> 0, changed |-> {}]

NoReport == [kind |-> "none", missing |-> 0]

\* A process that does not run holds nothing in memory.
NoProcess ==
  /\ pc = "off" /\ plan = <<>> /\ cycles = 0 /\ dry = FALSE /\ run = 0
  /\ scratch = NoBranch /\ fork = NoSha /\ orig = NoBranch /\ attachFailed = FALSE
  /\ resume = NotResuming
  /\ cycle = 1 /\ base = NoSha /\ index = 0 /\ changed = {} /\ before = NoSha
  /\ cycleOutcomes = 0 /\ outcomes = 0 /\ completed = 0 /\ converged = "no"
  /\ landed = {} /\ undone = 0

ProcessEnds ==
  /\ pc' = "off" /\ plan' = <<>> /\ cycles' = 0 /\ dry' = FALSE /\ run' = 0
  /\ scratch' = NoBranch /\ fork' = NoSha /\ orig' = NoBranch
  /\ attachFailed' = FALSE
  /\ resume' = NotResuming
  /\ cycle' = 1 /\ base' = NoSha /\ index' = 0 /\ changed' = {} /\ before' = NoSha
  /\ cycleOutcomes' = 0 /\ outcomes' = 0 /\ completed' = 0 /\ converged' = "no"
  /\ landed' = {} /\ undone' = 0

Init ==
  /\ RepoInit
  /\ disk = NoCheckpoint
  /\ isGit \in BOOLEAN
  /\ ~isGit => dirty = {}
  /\ NoProcess
  /\ report = NoReport
  /\ session = 0 /\ faults = 0
  /\ ran = {} /\ previewed = {}

Fault   == faults < MaxFaults /\ faults' = faults + 1
NoFault == UNCHANGED faults

-----------------------------------------------------------------------------
(* cli.main: starting a session                                            *)

\* Variation: the dry run is treated like any other run.
FirstStepIgnoringDry(d) == IF isGit THEN "attach" ELSE "cycle"

\* A dry run touches no branch, nor does a run outside git.
FirstStep(d) == IF isGit /\ ~d THEN "attach" ELSE "cycle"

\* What every session begins with, whether it resumes or not.
Launch(selected, n, d) ==
  /\ pc = "off"
  /\ session < MaxSessions
  /\ session' = session + 1
  /\ plan' = selected /\ cycles' = n /\ dry' = d
  /\ pc' = FirstStep(d)
  /\ report' = NoReport
  /\ RenameCommits
  /\ UNCHANGED <<isGit, attachFailed, base, index, changed, before,
                 outcomeVars, converged, measureVars, ghostVars>>

\* _build_suite_state(None)
BuildFreshState ==
  /\ run' = session + 1
  /\ cycle' = 1
  /\ resume' = NotResuming
  /\ scratch' = NoBranch /\ fork' = NoSha /\ orig' = NoBranch

\* Variation: the saved cycle is taken for a finished one.
BuildNextCycleState(ckpt) ==
  /\ run' = ckpt.run
  /\ cycle' = ckpt.cycle + 1
  /\ resume' = NotResuming
  /\ scratch' = ckpt.scratch /\ fork' = ckpt.fork /\ orig' = ckpt.orig

\* _build_suite_state(resume_from)
BuildResumedState(ckpt) ==
  /\ run' = ckpt.run
  /\ cycle' = ckpt.cycle
  /\ resume' = [active |-> TRUE, index |-> ckpt.index, changed |-> ckpt.changed]
  /\ scratch' = ckpt.scratch /\ fork' = ckpt.fork /\ orig' = ckpt.orig

\* No usable checkpoint, or --no-resume or --dry-run, which never look at it.
StartFresh ==
  \E selected \in Selections, n \in CycleCounts, d \in DryRuns :
    /\ Launch(selected, n, d)
    /\ BuildFreshState
    /\ NoFault
    /\ UNCHANGED disk

\* The checkpoint is of another selection, or the operator declines it.
StartAfterDiscarding ==
  \E selected \in Selections, n \in CycleCounts :
    /\ LoadCheckpoint # NoCheckpoint
    /\ Launch(selected, n, FALSE)
    /\ BuildFreshState
    /\ \/ ClearCheckpoint /\ NoFault
       \/ UNCHANGED disk /\ Fault

\* The number of cycles is this session's own: only the selection must match.
StartResumed ==
  \E selected \in Selections, n \in CycleCounts :
    /\ LoadCheckpoint # NoCheckpoint
    /\ CheckpointMatches(selected)
    /\ Launch(selected, n, FALSE)
    /\ BuildResumedState(LoadCheckpoint)
    /\ NoFault
    /\ UNCHANGED disk

-----------------------------------------------------------------------------
(* suite._attach_to_scratch_branch and the snapshot of uncommitted work    *)

suiteRest == <<disk, optVars, run, resume, cycleVars, index, changed, before,
               outcomeVars, converged, report, session, measureVars, ghostVars>>

\* Variation: the branch is taken for checked out because it exists.
ReattachByName ==
  /\ pc = "attach" /\ pc' = "snapshot"
  /\ BranchExists(scratch)
  /\ NoFault /\ UNCHANGED <<repoVars, branchVars, suiteRest>>

Reattach ==
  /\ pc = "attach" /\ pc' = "snapshot"
  /\ BranchExists(scratch)
  /\ UNCHANGED <<scratch, fork, orig, suiteRest>>
  /\ \/ CheckoutBranch(scratch) /\ NoFault /\ UNCHANGED attachFailed
     \/ UNCHANGED repoVars /\ Fault /\ attachFailed' = TRUE

\* There is none to return to, or git fails to say so: it is taken for gone.
ForkScratch ==
  /\ pc = "attach" /\ pc' = "snapshot"
  /\ UNCHANGED suiteRest
  /\ \/ /\ CreateScratchBranch(session)
        /\ scratch' = session /\ fork' = HeadSha /\ orig' = head
        /\ IF BranchExists(scratch) THEN Fault ELSE NoFault
        /\ UNCHANGED attachFailed
     \/ /\ ~BranchExists(scratch)
        /\ UNCHANGED <<repoVars, scratch, fork, orig>>
        /\ Fault /\ attachFailed' = TRUE

\* git_commit_all, as those who want the tree committed use it: whatever becomes of
\* it, they go on.
CommitUncommitted ==
  \/ HasUncommittedChanges /\ GitCommitAll /\ NoFault
  \/ HasUncommittedChanges /\ GitCommitFails /\ Fault
  \/ ~HasUncommittedChanges /\ UNCHANGED repoVars /\ NoFault

\* Variation: only a fresh run takes the snapshot.
SnapshotWhenFresh ==
  /\ pc = "snapshot" /\ pc' = "cycle"
  /\ IF HasUncommittedChanges /\ ~resume.active THEN GitCommitAll ELSE UNCHANGED repoVars
  /\ NoFault
  /\ UNCHANGED <<suiteRest, branchVars>>

\* _commit_uncommitted_changes
Snapshot ==
  /\ pc = "snapshot" /\ pc' = "cycle"
  /\ CommitUncommitted
  /\ UNCHANGED <<suiteRest, branchVars>>

\* --require-base-fresh: fatal before anything is committed.
RefuseStaleBase ==
  /\ pc = "snapshot" /\ fork # NoSha
  /\ ProcessEnds
  /\ UNCHANGED <<repoVars, report, survives>>

-----------------------------------------------------------------------------
(* suite._run_check_suite: the loop over the cycles                        *)

\* Variation: the resumed position is not consumed.
ResolveEveryCycle ==
  /\ index' = IF resume.active THEN resume.index ELSE 0
  /\ changed' = IF resume.active THEN resume.changed ELSE {}
  /\ UNCHANGED resume

\* Variation: the changed set is carried from cycle to cycle.
ResolveKeepingChanged ==
  /\ index' = IF resume.active THEN resume.index ELSE 0
  /\ changed' = IF resume.active THEN resume.changed ELSE changed
  /\ resume' = NotResuming

\* The checkpoint's position counts for the first cycle of the session alone.
ResolveCycleChecks ==
  /\ index' = IF resume.active THEN resume.index ELSE 0
  /\ changed' = IF resume.active THEN resume.changed ELSE {}
  /\ resume' = NotResuming

BeginCycle ==
  /\ pc = "cycle" /\ cycle <= cycles
  /\ pc' = "check"
  /\ \/ base' = (IF isGit THEN HeadSha ELSE NoSha) /\ NoFault
     \/ isGit /\ base' = NoSha /\ Fault
  /\ ResolveCycleChecks
  /\ cycleOutcomes' = 0
  /\ landed' = {}
  /\ UNCHANGED <<repoVars, disk, optVars, run, branchVars, cycle, before, outcomes,
                 completed, converged, report, session, undone, ghostVars>>

NoMoreCycles ==
  /\ pc = "cycle" /\ cycle > cycles
  /\ pc' = "clear"
  /\ NoFault
  /\ UNCHANGED <<repoVars, branchVars, suiteRest>>

ConvergenceEnabled == Threshold > 0 /\ isGit /\ base # NoSha /\ ~dry

\* What of the cycle's change may not show in its diff.
Undoable == 0..ChangeStats(base, 0)

\* Variation: the threshold itself counts as converged.
AtMostThreshold(hidden) == ChangeStats(base, hidden) <= Threshold

\* Equal commits are no change at all, and so below any threshold.
BelowThreshold(hidden) == ChangeStats(base, hidden) < Threshold

\* Variation: the loop is left before the outcomes of the cycle are collected.
FinishCycleBeforeCollecting ==
  /\ pc = "check" /\ index >= Len(plan)
  /\ \/ /\ ConvergenceEnabled /\ BelowThreshold(0) /\ NoFault
        /\ converged' = "measured" /\ pc' = "clear" /\ UNCHANGED <<cycle, outcomes>>
     \/ /\ (ConvergenceEnabled => ~BelowThreshold(0)) /\ NoFault
        /\ cycle' = cycle + 1 /\ pc' = "cycle" /\ UNCHANGED converged
        /\ outcomes' = outcomes + cycleOutcomes
  /\ UNCHANGED <<repoVars, disk, optVars, run, branchVars, resume, base, index,
                 changed, before, cycleOutcomes, completed, report, session,
                 measureVars, ghostVars>>

Converges(how) == converged' = how /\ pc' = "clear" /\ UNCHANGED cycle

GoesOn == cycle' = cycle + 1 /\ pc' = "cycle" /\ UNCHANGED <<converged, undone>>

FinishCycle ==
  /\ pc = "check" /\ index >= Len(plan)
  /\ outcomes' = outcomes + cycleOutcomes
  /\ \/ /\ ConvergenceEnabled /\ Converges("measured") /\ NoFault
        /\ undone' \in {u \in Undoable : BelowThreshold(u)}
     \/ /\ ConvergenceEnabled    \* git diff fails: no change, it says
        /\ Converges("unmeasured") /\ Fault /\ UNCHANGED undone
     \/ ConvergenceEnabled /\ ~BelowThreshold(0) /\ GoesOn /\ NoFault
     \/ ConvergenceEnabled /\ GoesOn /\ Fault    \* HEAD cannot be read
     \/ ~ConvergenceEnabled /\ GoesOn /\ NoFault
  /\ UNCHANGED <<repoVars, disk, optVars, run, branchVars, resume, base, index,
                 changed, before, cycleOutcomes, completed, report, session,
                 landed, ghostVars>>

-----------------------------------------------------------------------------
(* check_runner.run_single_check                                           *)

Current == plan[index + 1]

runRest == <<disk, optVars, run, branchVars, resume, cycleVars, outcomes,
             converged, report, session, undone>>

\* The outcome is appended and, if it made changes, the check is marked.
EndCheck(made) ==
  /\ pc' = "save" /\ before' = NoSha
  /\ cycleOutcomes' = cycleOutcomes + 1
  /\ completed' = completed + 1
  /\ changed' = IF made THEN changed \union {Current} ELSE changed
  /\ ran' = {x \in ran : x[1] \in {run, disk.run}} \union {<<run, cycle, Current>>}
  /\ UNCHANGED index

Executed == previewed' = (previewed \ {<<run, cycle, Current>>}) \cap ran'

\* _report_check_changes: unreadable commits count as a change.
MadeChanges(shaBefore, shaAfter) ==
  shaBefore = NoSha \/ shaAfter = NoSha \/ shaAfter # shaBefore

\* looks_dangerous(prompt): no process is started.
SkipCheck ==
  /\ pc = "check" /\ index < Len(plan)
  /\ EndCheck(FALSE)
  /\ NoFault
  /\ previewed' = previewed \cap ran'
  /\ UNCHANGED <<repoVars, runRest, landed>>

\* run_claude prints what it would run; nothing is committed.
PreviewCheck ==
  /\ pc = "check" /\ index < Len(plan) /\ dry
  /\ EndCheck(~isGit)
  /\ previewed' = (previewed \union ({<<run, cycle, Current>>} \ ran)) \cap ran'
  /\ NoFault
  /\ UNCHANGED <<repoVars, runRest, landed>>

\* What Claude may do to the repository while it works for an author: leave edits,
\* its own or in generated paths, or commit them itself.
ClaudeWorks(author) ==
  /\ UNCHANGED <<head, branches>>
  /\ \/ UNCHANGED <<sha, dirty>>
     \/ /\ isGit /\ UNCHANGED sha
        /\ \E edits \in SUBSET ({author} \union Artifacts) : dirty' = dirty \union edits
     \/ isGit /\ NewCommit /\ UNCHANGED dirty

\* Claude's process ends, by itself or killed by a watchdog.  An exception on the
\* way is an outcome of its own: what the check did so far is not committed.
RunCheck ==
  /\ pc = "check" /\ index < Len(plan) /\ ~dry
  /\ ClaudeWorks(Current)
  /\ \/ /\ pc' \in {"commit", "memfix"}
        /\ \/ before' = (IF isGit THEN HeadSha ELSE NoSha) /\ NoFault
           \/ isGit /\ before' = NoSha /\ Fault
        /\ UNCHANGED <<index, changed, cycleOutcomes, completed, ran, previewed>>
     \/ EndCheck(FALSE) /\ Executed /\ NoFault
  /\ UNCHANGED <<runRest, landed>>

\* _run_memory_fix: a second Claude, whose failures are swallowed, the one before
\* its commit included.
MemoryFix ==
  /\ pc = "memfix" /\ pc' \in {"commitfix", "commit"}
  /\ ClaudeWorks("memory-fix")
  /\ NoFault
  /\ UNCHANGED <<index, changed, before, cycleOutcomes, completed, runRest,
                 landed, ghostVars>>

\* The commit after it takes the killed check's edits as well.
CommitFix ==
  /\ pc = "commitfix" /\ pc' = "commit"
  /\ IF isGit THEN CommitUncommitted ELSE UNCHANGED repoVars /\ NoFault
  /\ UNCHANGED <<index, changed, before, cycleOutcomes, completed, runRest,
                 landed, ghostVars>>

\* _commit_with_generated_message and _report_check_changes.
CommitCheck ==
  /\ pc = "commit"
  /\ IF isGit THEN CommitUncommitted ELSE UNCHANGED repoVars /\ NoFault
  /\ EndCheck(MadeChanges(before, IF isGit THEN HeadSha' ELSE NoSha))
  /\ landed' = IF isGit /\ before # NoSha /\ HeadSha' # before
               THEN landed \union {Current}
               ELSE landed
  /\ Executed
  /\ UNCHANGED runRest

-----------------------------------------------------------------------------
(* Saving, finishing, stopping                                             *)

\* Variation: started_at is that of the session, not of the run it continues.
BuildRestampedCheckpoint(checkIndex, changedIds) ==
  [run |-> session, plan |-> plan, cycle |-> cycle, index |-> checkIndex,
   changed |-> changedIds, scratch |-> scratch, fork |-> fork, orig |-> orig]

BuildCheckpoint(checkIndex, changedIds) ==
  [run |-> run, plan |-> plan, cycle |-> cycle, index |-> checkIndex,
   changed |-> changedIds, scratch |-> scratch, fork |-> fork, orig |-> orig]

\* _save_after_check: it does not ask whether this is a dry run.
SaveAfterCheck ==
  /\ pc = "save" /\ pc' = "check"
  /\ index' = index + 1
  /\ \/ SaveCheckpoint(BuildCheckpoint(index + 1, changed)) /\ NoFault
     \/ UNCHANGED disk /\ Fault
  /\ UNCHANGED <<repoVars, optVars, run, branchVars, resume, cycleVars, changed,
                 before, outcomeVars, converged, report, session, measureVars,
                 ghostVars>>

\* "missing" is how many of the checks the session completed are not among the
\* outcomes it sums up.
Summary(kind) == [kind |-> kind, missing |-> completed - outcomes]

Finish ==
  /\ pc = "clear"
  /\ \/ ClearCheckpoint /\ NoFault
     \/ UNCHANGED disk /\ Fault
  /\ report' = Summary("done")
  /\ ProcessEnds
  /\ UNCHANGED <<repoVars, isGit, session, ghostVars>>

\* A check or memory fix that is cut short leaves what it did so far.
PartialEdits ==
  \/ UNCHANGED repoVars
  \/ pc = "check" /\ index < Len(plan) /\ ~dry /\ ClaudeWorks(Current)
  \/ pc = "memfix" /\ ClaudeWorks("memory-fix")

\* Ctrl+C, or an unexpected exception: the summary is printed.
Interrupt ==
  /\ pc # "off"
  /\ PartialEdits
  /\ report' = Summary("interrupted")
  /\ ProcessEnds
  /\ UNCHANGED survives

\* SIGTERM, SIGHUP, SIGKILL, power loss: no summary.
Kill ==
  /\ pc # "off"
  /\ PartialEdits
  /\ ProcessEnds
  /\ UNCHANGED <<report, survives>>

-----------------------------------------------------------------------------
(* The operator, between two sessions                                      *)

processVars == <<plan, cycles, dry, pc, run, branchVars, resume, cycleVars, index,
                 changed, before, outcomeVars, converged, measureVars>>

operatorRest == <<survives, processVars>>

OperatorEdits ==
  /\ pc = "off" /\ session < MaxSessions /\ isGit
  /\ \E a \in {"user"} \union Artifacts : dirty' = dirty \union {a}
  /\ report' = NoReport
  /\ UNCHANGED <<head, branches, sha, operatorRest>>

OperatorSwitches ==
  /\ pc = "off" /\ session < MaxSessions /\ isGit
  /\ \E b \in Branches \ {head} : BranchExists(b) /\ CheckoutBranch(b)
  /\ report' = NoReport
  /\ UNCHANGED operatorRest

OperatorDeletesScratch ==
  /\ pc = "off" /\ session < MaxSessions /\ isGit
  /\ \E b \in Branches \ {head, Main} :
       BranchExists(b) /\ branches' = branches \ {b}
  /\ report' = NoReport
  /\ UNCHANGED <<head, sha, dirty, operatorRest>>

-----------------------------------------------------------------------------
SessionStep ==
  \/ Reattach \/ ForkScratch \/ Snapshot \/ BeginCycle \/ NoMoreCycles
  \/ FinishCycle \/ SkipCheck \/ PreviewCheck \/ RunCheck \/ MemoryFix
  \/ CommitFix \/ CommitCheck \/ SaveAfterCheck \/ Finish

Next ==
  \/ StartFresh \/ StartAfterDiscarding \/ StartResumed
  \/ SessionStep
  \/ RefuseStaleBase \/ Interrupt \/ Kill
  \/ OperatorEdits \/ OperatorSwitches \/ OperatorDeletesScratch

Spec == Init /\ [][Next]_vars

-----------------------------------------------------------------------------
(* Properties                                                              *)

CheckpointTypeOK ==
  disk \in CheckpointData(0..MaxSessions, Seq(Checks), Nat \ {0}, Checks)

FlagsTypeOK == isGit \in BOOLEAN /\ dry \in BOOLEAN /\ attachFailed \in BOOLEAN

SuiteTypeOK ==
  /\ plan \in Seq(Checks) /\ cycles \in Nat
  /\ pc \in PC /\ run \in 0..MaxSessions
  /\ scratch \in Branches \union {NoBranch}
  /\ fork \in Nat \union {NoSha} /\ orig \in Branches \union {NoBranch}
  /\ resume \in [active : BOOLEAN, index : Nat, changed : SUBSET Checks]
  /\ cycle \in Nat \ {0} /\ base \in Nat \union {NoSha}
  /\ index \in Nat /\ changed \subseteq Checks /\ before \in Nat \union {NoSha}
  /\ cycleOutcomes \in Nat /\ outcomes \in Nat /\ completed \in Nat
  /\ converged \in {"no", "measured", "unmeasured"}

ReportTypeOK ==
  report \in [kind : {"none", "done", "interrupted"}, missing : Int]

HistoryTypeOK ==
  /\ session \in 0..MaxSessions /\ faults \in 0..MaxFaults
  /\ ran \subseteq Sessions \X (Nat \ {0}) \X Checks
  /\ previewed \subseteq ran

MeasureTypeOK == landed \subseteq Checks /\ undone \in Nat

\* Every variable holds a value the code can give it; the branch checked out exists.
TypeOK ==
  RepoTypeOK /\ CheckpointTypeOK /\ FlagsTypeOK /\ SuiteTypeOK /\ ReportTypeOK
    /\ HistoryTypeOK /\ MeasureTypeOK

\* What lies before position i of cycle c in run r of the checks p.
Behind(r, p, c, i) ==
  {<<r, k, p[j]>> : k \in 1..(c - 1), j \in DOMAIN p}
  \union {<<r, c, p[j]>> : j \in 1..i}

\* How many checks of the cycle the session counts as done.
Position ==
  CASE pc \in {"attach", "snapshot", "cycle"} -> IF resume.active THEN resume.index ELSE 0
    [] pc = "save" -> index + 1
    [] pc = "clear" /\ converged = "no" -> 0
    [] OTHER -> index

\* A checkpoint never points past a check its run has not been through, however
\* often the run was interrupted and whichever saves failed (checkpoint.py,
\* suite._save_after_check).
ResumePointReached ==
  Behind(disk.run, disk.plan, disk.cycle, disk.index) \subseteq ran

\* A session never stands past a check its run has not been through: resuming
\* skips only what an earlier session completed (suite._resolve_cycle_checks).
NothingSkipped ==
  pc # "off" => Behind(run, plan, cycle, Position) \subseteq ran

\* A session that leaves the loop has been through every check of every cycle up
\* to num_cycles, or up to the cycle that converged (suite._run_check_suite).
LeavesCompleteCycles ==
  pc = "clear" =>
    \A k \in 1..(IF converged = "no" THEN cycles ELSE cycle), j \in DOMAIN plan :
      <<run, k, plan[j]>> \in ran

\* Where the session stands within a cycle.
Checking == {"check", "memfix", "commitfix", "commit", "save"}

\* changed_this_cycle names only checks that ran in this cycle of this run, and
\* every check whose commits the session saw land in it (the resumed set is
\* consumed once and not carried into later cycles).
ChangedIsOfThisCycle ==
  pc \in Checking =>
    landed \subseteq changed /\ \A c \in changed : <<run, cycle, c>> \in ran

\* When a cycle the session ran from its first check converges, the checks whose
\* commits landed in it are fewer than the threshold once those are taken off that
\* the rest of the cycle undid (suite._check_cycle_convergence measures the net
\* change from the start of the cycle: checks that undo each other converge).
WholeCycleConverges ==
  pc = "clear" /\ converged = "measured" /\ cycleOutcomes = Len(plan) =>
    Cardinality(landed) - undone < Threshold

\* What the operator left uncommitted outside the generated paths is in a commit of
\* its own before any check works, unless an operation failed
\* (_commit_uncommitted_changes).
OperatorEditsSnapshotted ==
  isGit /\ pc \in Checking /\ faults = 0 /\ ~dry => "user" \notin dirty

\* A completed run reports every outcome of the session, once (all_outcomes).
DoneReportsEverything == report.kind = "done" => report.missing = 0

\* Where a session commits is its own scratch branch, unless it could not be put on
\* one (_attach_to_scratch_branch before anything commits).
CommitsStayOnScratch ==
  [][pc # "off" /\ ~attachFailed /\ head' = head /\ HeadSha' # HeadSha
       => head = scratch]_vars

\* A dry run leaves the repository as it found it.
DryRunLeavesRepository == [][pc # "off" /\ dry => UNCHANGED repoVars]_vars

\* Sessions, whatever happens to them, keep the promise of CheckPlan.
Promise == INSTANCE CheckPlan WITH
  Runs <- Sessions, Plans <- Selections,
  Cycles <- UNION {1..n : n \in CycleCounts},
  current <- IF pc = "off" THEN 0 ELSE run,
  plan <- IF pc = "off" THEN <<>> ELSE plan,
  done <- report.kind = "done"

KeepsPromise == Promise!PlanSpec

-----------------------------------------------------------------------------
(* Statements of the documentation that the program does not keep          *)

\* README, Checkpoint & Resume: a checkpoint is saved "after each completed check"
\* - what resuming passes over was more than previewed.
ResumePassesOverRealWork ==
  pc # "off" /\ ~dry => Behind(run, plan, cycle, Position) \cap previewed = {}
=============================================================================
