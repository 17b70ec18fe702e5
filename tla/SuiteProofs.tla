---------------------------- MODULE SuiteProofs ----------------------------
(***************************************************************************)
(* What holds of the runs of checkloop for every set of checks, every      *)
(* number of sessions, cycles and faults, and every threshold.             *)
(***************************************************************************)
EXTENDS Suite, FiniteSetTheorems, TLAPS

-----------------------------------------------------------------------------
(* Types                                                                   *)

\* A process works for a session and a run that exist, and so does a checkpoint.
RunsExist ==
  /\ pc # "off" => run \in Sessions /\ session \in Sessions
  /\ disk # NoCheckpoint => disk.run \in Sessions

\* Between the start of a check and its save the index is that of a check.
CheckChosen == pc \in {"memfix", "commitfix", "commit", "save"} => index < Len(plan)

TypeInv == TypeOK /\ RunsExist /\ CheckChosen

\* The check being run is one of the selection's.
LEMMA CurrentIsCheck ==
  ASSUME plan \in Seq(Checks), index \in Nat, index < Len(plan)
  PROVE  Current \in Checks
BY DEF Current

\* Every check, the operator, the memory fix and what is generated are authors.
LEMMA AuthorsAre ==
  /\ Checks \subseteq Authors /\ "user" \in Authors /\ "memory-fix" \in Authors
  /\ Artifacts \subseteq Authors
BY SuiteAssumption

LEMMA TypeInit == Init => TypeInv
<1> SUFFICES ASSUME Init PROVE TypeInv
  OBVIOUS
<1>1. RepoTypeOK
  BY RepoAssumption, AuthorsAre DEF Init, RepoInit, RepoTypeOK, Main
<1>2. CheckpointTypeOK
  BY SuiteAssumption, RepoAssumption
  DEF Init, CheckpointTypeOK, CheckpointData, NoCheckpoint, NoBranch, NoSha
<1>3. FlagsTypeOK
  BY DEF Init, NoProcess, FlagsTypeOK
<1>4. SuiteTypeOK
  BY SuiteAssumption DEF Init, NoProcess, SuiteTypeOK, PC, NotResuming, NoSha, NoBranch
<1>5. ReportTypeOK /\ HistoryTypeOK
  BY SuiteAssumption DEF Init, NoReport, ReportTypeOK, HistoryTypeOK
<1>6. RunsExist /\ CheckChosen /\ MeasureTypeOK
  BY DEF Init, NoProcess, RunsExist, CheckChosen, NoCheckpoint, MeasureTypeOK
<1>7. QED BY <1>1, <1>2, <1>3, <1>4, <1>5, <1>6 DEF TypeInv, TypeOK

-----------------------------------------------------------------------------
(* What an operation does to the types, stated once for the actions that    *)
(* perform it.                                                              *)

LEMMA RepoFrame == RepoTypeOK /\ UNCHANGED repoVars => RepoTypeOK'
BY DEF RepoTypeOK, repoVars

LEMMA CheckoutTypes ==
  ASSUME RepoTypeOK, NEW b, BranchExists(b), CheckoutBranch(b)
  PROVE  RepoTypeOK'
BY DEF RepoTypeOK, BranchExists, CheckoutBranch

LEMMA CreateTypes ==
  ASSUME RepoTypeOK, NEW b \in Branches, CreateScratchBranch(b)
  PROVE  RepoTypeOK'
BY DEF RepoTypeOK, CreateScratchBranch

LEMMA RenameTypes == RepoTypeOK /\ RenameCommits => RepoTypeOK'
BY DEF RepoTypeOK, RenameCommits

\* Whatever becomes of a commit.
LEMMA CommitTypes ==
  ASSUME RepoTypeOK,
         \/ CommitUncommitted
         \/ IF isGit THEN CommitUncommitted ELSE UNCHANGED repoVars /\ NoFault
  PROVE  RepoTypeOK' /\ (Fault \/ NoFault)
<1>1. ASSUME GitCommitAll PROVE RepoTypeOK'
  BY <1>1 DEF RepoTypeOK, GitCommitAll, NewCommit
<1>2. ASSUME GitCommitFails PROVE RepoTypeOK'
  BY <1>2 DEF RepoTypeOK, GitCommitFails, NewCommit
<1>3. QED BY <1>1, <1>2, RepoFrame DEF CommitUncommitted

LEMMA ClaudeTypes ==
  ASSUME RepoTypeOK, NEW a \in Authors, ClaudeWorks(a)
  PROVE  RepoTypeOK'
<1>1. CASE UNCHANGED <<sha, dirty>>
  BY <1>1 DEF ClaudeWorks, RepoTypeOK
<1>2. CASE /\ UNCHANGED sha
           /\ \E edits \in SUBSET ({a} \union Artifacts) : dirty' = dirty \union edits
  BY <1>2, AuthorsAre DEF ClaudeWorks, RepoTypeOK
<1>3. CASE NewCommit /\ UNCHANGED dirty
  BY <1>3 DEF ClaudeWorks, NewCommit, RepoTypeOK
<1>4. QED BY <1>1, <1>2, <1>3 DEF ClaudeWorks

LEMMA PartialEditsTypes ==
  ASSUME RepoTypeOK, SuiteTypeOK, PartialEdits
  PROVE  RepoTypeOK'
<1>1. (index < Len(plan)) => Current \in Authors
  BY CurrentIsCheck, AuthorsAre DEF SuiteTypeOK
<1>2. QED BY <1>1, AuthorsAre, RepoFrame, ClaudeTypes DEF PartialEdits

LEMMA CheckpointFrame == CheckpointTypeOK /\ UNCHANGED disk => CheckpointTypeOK'
BY DEF CheckpointTypeOK

LEMMA NoCheckpointTypes == disk' = NoCheckpoint => CheckpointTypeOK'
BY SuiteAssumption
DEF CheckpointTypeOK, CheckpointData, NoCheckpoint, NoBranch, NoSha

LEMMA FlagsFrame ==
  FlagsTypeOK /\ UNCHANGED <<isGit, dry, attachFailed>> => FlagsTypeOK'
BY DEF FlagsTypeOK

LEMMA ReportFrame == ReportTypeOK /\ UNCHANGED report => ReportTypeOK'
BY DEF ReportTypeOK

LEMMA NoReportTypes == report' = NoReport => ReportTypeOK'
BY DEF ReportTypeOK, NoReport

LEMMA SummaryTypes ==
  ASSUME SuiteTypeOK, NEW k \in {"done", "interrupted"},
         report' = Summary(k)
  PROVE  ReportTypeOK'
<1>1. completed - outcomes \in Int
  BY DEF SuiteTypeOK
<1>2. QED BY <1>1 DEF SuiteTypeOK, ReportTypeOK, Summary

LEMMA FaultsBounded ==
  ASSUME HistoryTypeOK, Fault \/ NoFault
  PROVE  faults' \in 0..MaxFaults
BY SuiteAssumption DEF HistoryTypeOK, Fault, NoFault

LEMMA HistoryFrame ==
  ASSUME HistoryTypeOK, Fault \/ NoFault, UNCHANGED <<session, ghostVars>>
  PROVE  HistoryTypeOK'
BY FaultsBounded DEF HistoryTypeOK, ghostVars

LEMMA ProcessEndsTypes == ProcessEnds => SuiteTypeOK'
BY SuiteAssumption
DEF ProcessEnds, SuiteTypeOK, PC, NotResuming, NoSha, NoBranch

LEMMA ProcessEndsFlags == FlagsTypeOK /\ UNCHANGED isGit /\ ProcessEnds => FlagsTypeOK'
BY DEF ProcessEnds, FlagsTypeOK

LEMMA ProcessEndsRuns ==
  ASSUME RunsExist, ProcessEnds, disk' \in {disk, NoCheckpoint}
  PROVE  RunsExist' /\ CheckChosen'
BY DEF ProcessEnds, RunsExist, CheckChosen

\* What appending an outcome does to the suite's state and to the history.
LEMMA EndCheckTypes ==
  ASSUME TypeInv, pc # "off", index < Len(plan), NEW made, EndCheck(made),
         UNCHANGED runRest
  PROVE  /\ SuiteTypeOK' /\ CheckChosen' /\ RunsExist'
         /\ ran' \subseteq Sessions \X (Nat \ {0}) \X Checks
<1>1. Current \in Checks
  BY CurrentIsCheck DEF TypeInv, TypeOK, SuiteTypeOK
<1>2. SuiteTypeOK'
  BY <1>1 DEF TypeInv, TypeOK, SuiteTypeOK, EndCheck, runRest, optVars, branchVars,
              cycleVars, NoSha, PC
<1>3. CheckChosen' /\ RunsExist'
  BY DEF TypeInv, RunsExist, CheckChosen, EndCheck, runRest, optVars
<1>4. ran' \subseteq Sessions \X (Nat \ {0}) \X Checks
  BY <1>1 DEF TypeInv, TypeOK, SuiteTypeOK, HistoryTypeOK, RunsExist, EndCheck
<1>5. QED BY <1>2, <1>3, <1>4

-----------------------------------------------------------------------------
(* Every action keeps the types.                                            *)

LEMMA MeasureStep == TypeInv /\ Next => MeasureTypeOK'
<1> SUFFICES ASSUME TypeInv, Next PROVE MeasureTypeOK'
  OBVIOUS
<1> USE DEF MeasureTypeOK, measureVars
<1>0. SuiteTypeOK /\ landed \subseteq Checks /\ undone \in Nat /\ HeadSha \in Nat
  BY DEF TypeInv, TypeOK, RepoTypeOK, HeadSha
<1>1. CASE StartFresh \/ StartAfterDiscarding \/ StartResumed
  BY <1>0, <1>1 DEF StartFresh, StartAfterDiscarding, StartResumed, Launch
<1>2. CASE Reattach \/ ForkScratch \/ Snapshot \/ NoMoreCycles
  BY <1>0, <1>2 DEF Reattach, ForkScratch, Snapshot, NoMoreCycles, suiteRest
<1>3. CASE BeginCycle
  BY <1>0, <1>3 DEF BeginCycle
<1>4. CASE FinishCycle
  <2>1. landed' = landed /\ (undone' = undone \/ undone' \in Undoable)
    BY <1>4 DEF FinishCycle, GoesOn
  <2>2. Undoable \subseteq Nat
    BY <1>0 DEF Undoable
  <2>3. QED BY <1>0, <2>1, <2>2
<1>5. CASE SkipCheck \/ PreviewCheck \/ RunCheck \/ MemoryFix \/ CommitFix
  BY <1>0, <1>5 DEF SkipCheck, PreviewCheck, RunCheck, MemoryFix, CommitFix, runRest
<1>6. CASE CommitCheck
  <2>1. Current \in Checks
    BY <1>0, <1>6, CurrentIsCheck DEF CommitCheck, TypeInv, CheckChosen, SuiteTypeOK
  <2>2. QED BY <1>0, <1>6, <2>1 DEF CommitCheck, runRest
<1>7. CASE SaveAfterCheck
  BY <1>0, <1>7 DEF SaveAfterCheck
<1>8. CASE Finish \/ RefuseStaleBase \/ Interrupt \/ Kill
  BY <1>8 DEF Finish, RefuseStaleBase, Interrupt, Kill, ProcessEnds
<1>9. CASE OperatorEdits \/ OperatorSwitches \/ OperatorDeletesScratch
  BY <1>0, <1>9 DEF OperatorEdits, OperatorSwitches, OperatorDeletesScratch, operatorRest,
                    processVars
<1>10. QED BY <1>1, <1>2, <1>3, <1>4, <1>5, <1>6, <1>7, <1>8, <1>9 DEF Next, SessionStep

LEMMA TypeStep == TypeInv /\ Next => TypeInv'
<1> SUFFICES ASSUME TypeInv, Next PROVE TypeInv'
  OBVIOUS
<1>0. MeasureTypeOK'
  BY MeasureStep
<1> USE <1>0 DEF TypeInv, TypeOK
<1>1. ASSUME StartFresh PROVE TypeInv'
  <2>1. RepoTypeOK' /\ CheckpointTypeOK'
    BY <1>1, RenameTypes, CheckpointFrame DEF StartFresh, Launch
  <2>2. FlagsTypeOK' /\ ReportTypeOK'
    BY <1>1, NoReportTypes, SuiteAssumption DEF StartFresh, Launch, FlagsTypeOK
  <2>3. SuiteTypeOK' /\ CheckChosen'
    BY <1>1, SuiteAssumption
    DEF StartFresh, Launch, FirstStep, BuildFreshState, NotResuming, SuiteTypeOK,
        CheckChosen, HistoryTypeOK, PC, outcomeVars, NoBranch, NoSha
  <2>4. session' = session + 1 /\ session' \in Sessions
    BY <1>1, SuiteAssumption DEF StartFresh, Launch, HistoryTypeOK, Sessions
  <2>5. HistoryTypeOK'
    BY <1>1, <2>4 DEF StartFresh, Launch, NoFault, HistoryTypeOK, Sessions, ghostVars
  <2>6. RunsExist'
    BY <1>1, <2>4 DEF StartFresh, Launch, BuildFreshState, RunsExist
  <2>7. QED BY <2>1, <2>2, <2>3, <2>5, <2>6
<1>2. ASSUME StartAfterDiscarding PROVE TypeInv'
  <2>1. RepoTypeOK' /\ CheckpointTypeOK'
    BY <1>2, RenameTypes, CheckpointFrame, NoCheckpointTypes
    DEF StartAfterDiscarding, Launch, ClearCheckpoint
  <2>2. FlagsTypeOK' /\ ReportTypeOK'
    BY <1>2, NoReportTypes DEF StartAfterDiscarding, Launch, FlagsTypeOK
  <2>3. SuiteTypeOK' /\ CheckChosen'
    BY <1>2, SuiteAssumption
    DEF StartAfterDiscarding, Launch, FirstStep, BuildFreshState, NotResuming,
        SuiteTypeOK, CheckChosen, HistoryTypeOK, PC, outcomeVars, NoBranch, NoSha
  <2>4. faults' \in 0..MaxFaults
    BY <1>2, FaultsBounded DEF StartAfterDiscarding
  <2>5. session' = session + 1 /\ session' \in Sessions
    BY <1>2, SuiteAssumption DEF StartAfterDiscarding, Launch, HistoryTypeOK, Sessions
  <2>6. HistoryTypeOK'
    BY <1>2, <2>4, <2>5
    DEF StartAfterDiscarding, Launch, HistoryTypeOK, Sessions, ghostVars
  <2>7. RunsExist'
    BY <1>2, <2>5
    DEF StartAfterDiscarding, Launch, BuildFreshState, ClearCheckpoint, RunsExist
  <2>8. QED BY <2>1, <2>2, <2>3, <2>6, <2>7
<1>3. ASSUME StartResumed PROVE TypeInv'
  <2>1. RepoTypeOK' /\ CheckpointTypeOK'
    BY <1>3, RenameTypes, CheckpointFrame DEF StartResumed, Launch
  <2>2. FlagsTypeOK' /\ ReportTypeOK'
    BY <1>3, NoReportTypes DEF StartResumed, Launch, FlagsTypeOK
  <2>3. disk # NoCheckpoint /\ LoadCheckpoint = disk
    BY <1>3 DEF StartResumed, LoadCheckpoint
  <2>4. disk.run \in Sessions
    BY <2>3 DEF RunsExist
  <2>5. SuiteTypeOK' /\ CheckChosen'
    BY <1>3, <2>3, <2>4, SuiteAssumption
    DEF StartResumed, Launch, FirstStep, BuildResumedState, SuiteTypeOK, Sessions,
        CheckpointTypeOK, CheckpointData, CheckChosen, PC, outcomeVars
  <2>6. session' = session + 1 /\ session' \in Sessions
    BY <1>3, SuiteAssumption DEF StartResumed, Launch, HistoryTypeOK, Sessions
  <2>7. HistoryTypeOK'
    BY <1>3, <2>6 DEF StartResumed, Launch, NoFault, HistoryTypeOK, Sessions, ghostVars
  <2>8. RunsExist'
    BY <1>3, <2>3, <2>4, <2>6 DEF StartResumed, Launch, BuildResumedState, RunsExist
  <2>9. QED BY <2>1, <2>2, <2>5, <2>7, <2>8
<1>4. ASSUME Reattach PROVE TypeInv'
  <2>1. RepoTypeOK'
    BY <1>4, RepoFrame, CheckoutTypes DEF Reattach
  <2>2. CheckpointTypeOK' /\ ReportTypeOK'
    BY <1>4, CheckpointFrame, ReportFrame DEF Reattach, suiteRest
  <2>3. FlagsTypeOK'
    BY <1>4 DEF Reattach, suiteRest, optVars, FlagsTypeOK
  <2>4. SuiteTypeOK' /\ RunsExist' /\ CheckChosen'
    BY <1>4 DEF Reattach, suiteRest, optVars, cycleVars, outcomeVars, SuiteTypeOK,
                RunsExist, CheckChosen, PC
  <2>5. HistoryTypeOK'
    BY <1>4, HistoryFrame DEF Reattach, suiteRest
  <2>6. QED BY <2>1, <2>2, <2>3, <2>4, <2>5
<1>5. ASSUME ForkScratch PROVE TypeInv'
  <2>1. session \in Branches
    BY <1>5, SuiteAssumption DEF ForkScratch, RunsExist
  <2>2. RepoTypeOK'
    BY <1>5, <2>1, RepoFrame, CreateTypes DEF ForkScratch
  <2>3. CheckpointTypeOK' /\ ReportTypeOK'
    BY <1>5, CheckpointFrame, ReportFrame DEF ForkScratch, suiteRest
  <2>4. FlagsTypeOK'
    BY <1>5 DEF ForkScratch, suiteRest, optVars, FlagsTypeOK
  <2>5. HeadSha \in Nat /\ head \in Branches
    BY DEF RepoTypeOK, HeadSha
  <2>6. SuiteTypeOK' /\ RunsExist' /\ CheckChosen'
    BY <1>5, <2>1, <2>5
    DEF ForkScratch, suiteRest, optVars, cycleVars, outcomeVars, SuiteTypeOK,
        RunsExist, CheckChosen, PC
  <2>7. HistoryTypeOK'
    BY <1>5, HistoryFrame DEF ForkScratch, suiteRest
  <2>8. QED BY <2>2, <2>3, <2>4, <2>6, <2>7
<1>6. ASSUME Snapshot PROVE TypeInv'
  <2>1. RepoTypeOK'
    BY <1>6, CommitTypes DEF Snapshot
  <2>2. CheckpointTypeOK' /\ ReportTypeOK'
    BY <1>6, CheckpointFrame, ReportFrame DEF Snapshot, suiteRest
  <2>3. FlagsTypeOK'
    BY <1>6 DEF Snapshot, suiteRest, optVars, branchVars, FlagsTypeOK
  <2>4. SuiteTypeOK' /\ RunsExist' /\ CheckChosen'
    BY <1>6 DEF Snapshot, suiteRest, optVars, branchVars, cycleVars, outcomeVars,
                SuiteTypeOK, RunsExist, CheckChosen, PC
  <2>5. HistoryTypeOK'
    BY <1>6, CommitTypes, HistoryFrame DEF Snapshot, suiteRest
  <2>6. QED BY <2>1, <2>2, <2>3, <2>4, <2>5
<1>7. ASSUME RefuseStaleBase PROVE TypeInv'
  <2>1. RepoTypeOK' /\ CheckpointTypeOK' /\ ReportTypeOK'
    BY <1>7, RepoFrame, CheckpointFrame, ReportFrame DEF RefuseStaleBase, survives
  <2>2. FlagsTypeOK' /\ SuiteTypeOK'
    BY <1>7, ProcessEndsFlags, ProcessEndsTypes DEF RefuseStaleBase, survives
  <2>3. RunsExist' /\ CheckChosen'
    BY <1>7, ProcessEndsRuns DEF RefuseStaleBase, survives
  <2>4. HistoryTypeOK'
    BY <1>7 DEF RefuseStaleBase, survives, HistoryTypeOK, ghostVars
  <2>5. QED BY <2>1, <2>2, <2>3, <2>4
<1>8. ASSUME BeginCycle PROVE TypeInv'
  <2>1. RepoTypeOK' /\ CheckpointTypeOK' /\ ReportTypeOK'
    BY <1>8, RepoFrame, CheckpointFrame, ReportFrame DEF BeginCycle
  <2>2. FlagsTypeOK'
    BY <1>8 DEF BeginCycle, optVars, branchVars, FlagsTypeOK
  <2>3. HeadSha \in Nat
    BY DEF RepoTypeOK, HeadSha
  <2>4. SuiteTypeOK' /\ RunsExist' /\ CheckChosen'
    BY <1>8, <2>3
    DEF BeginCycle, ResolveCycleChecks, NotResuming, optVars, branchVars, SuiteTypeOK,
        RunsExist, CheckChosen, PC, NoSha
  <2>5. HistoryTypeOK'
    BY <1>8, FaultsBounded DEF BeginCycle, HistoryTypeOK, ghostVars
  <2>6. QED BY <2>1, <2>2, <2>4, <2>5
<1>9. ASSUME NoMoreCycles PROVE TypeInv'
  <2>1. RepoTypeOK' /\ CheckpointTypeOK' /\ ReportTypeOK'
    BY <1>9, RepoFrame, CheckpointFrame, ReportFrame DEF NoMoreCycles, suiteRest
  <2>2. FlagsTypeOK'
    BY <1>9 DEF NoMoreCycles, suiteRest, optVars, branchVars, FlagsTypeOK
  <2>3. SuiteTypeOK' /\ RunsExist' /\ CheckChosen'
    BY <1>9 DEF NoMoreCycles, suiteRest, optVars, branchVars, cycleVars, outcomeVars,
                SuiteTypeOK, RunsExist, CheckChosen, PC
  <2>4. HistoryTypeOK'
    BY <1>9, HistoryFrame DEF NoMoreCycles, suiteRest
  <2>5. QED BY <2>1, <2>2, <2>3, <2>4
<1>10. ASSUME FinishCycle PROVE TypeInv'
  <2>1. RepoTypeOK' /\ CheckpointTypeOK' /\ ReportTypeOK'
    BY <1>10, RepoFrame, CheckpointFrame, ReportFrame DEF FinishCycle
  <2>2. FlagsTypeOK'
    BY <1>10 DEF FinishCycle, optVars, branchVars, FlagsTypeOK
  <2>3. SuiteTypeOK'
    <3>1. cycle' \in Nat \ {0} /\ outcomes' \in Nat
      BY <1>10 DEF FinishCycle, Converges, GoesOn, SuiteTypeOK
    <3>2. pc' \in PC /\ converged' \in {"no", "measured", "unmeasured"}
      BY <1>10 DEF FinishCycle, Converges, GoesOn, SuiteTypeOK, PC
    <3>3. QED BY <1>10, <3>1, <3>2 DEF FinishCycle, optVars, branchVars, SuiteTypeOK
  <2>4. RunsExist' /\ CheckChosen'
    BY <1>10 DEF FinishCycle, Converges, GoesOn, RunsExist, CheckChosen
  <2>5. HistoryTypeOK'
    BY <1>10, HistoryFrame DEF FinishCycle
  <2>6. QED BY <2>1, <2>2, <2>3, <2>4, <2>5
<1>11. ASSUME SkipCheck PROVE TypeInv'
  <2>1. RepoTypeOK' /\ CheckpointTypeOK' /\ ReportTypeOK'
    BY <1>11, RepoFrame, CheckpointFrame, ReportFrame DEF SkipCheck, runRest
  <2>2. FlagsTypeOK'
    BY <1>11 DEF SkipCheck, runRest, optVars, branchVars, FlagsTypeOK
  <2>3. /\ SuiteTypeOK' /\ CheckChosen' /\ RunsExist'
        /\ ran' \subseteq Sessions \X (Nat \ {0}) \X Checks
    BY <1>11, EndCheckTypes DEF SkipCheck
  <2>4. HistoryTypeOK'
    BY <1>11, <2>3 DEF SkipCheck, NoFault, runRest, HistoryTypeOK
  <2>5. QED BY <2>1, <2>2, <2>3, <2>4
<1>12. ASSUME PreviewCheck PROVE TypeInv'
  <2>1. RepoTypeOK' /\ CheckpointTypeOK' /\ ReportTypeOK'
    BY <1>12, RepoFrame, CheckpointFrame, ReportFrame DEF PreviewCheck, runRest
  <2>2. FlagsTypeOK'
    BY <1>12 DEF PreviewCheck, runRest, optVars, branchVars, FlagsTypeOK
  <2>3. /\ SuiteTypeOK' /\ CheckChosen' /\ RunsExist'
        /\ ran' \subseteq Sessions \X (Nat \ {0}) \X Checks
    BY <1>12, EndCheckTypes DEF PreviewCheck
  <2>4. HistoryTypeOK'
    BY <1>12, <2>3 DEF PreviewCheck, NoFault, runRest, HistoryTypeOK
  <2>5. QED BY <2>1, <2>2, <2>3, <2>4
<1>13. ASSUME RunCheck PROVE TypeInv'
  <2>1. Current \in Checks
    BY <1>13, CurrentIsCheck DEF RunCheck, SuiteTypeOK
  <2>2. RepoTypeOK'
    BY <1>13, <2>1, ClaudeTypes, AuthorsAre DEF RunCheck
  <2>3. CheckpointTypeOK' /\ ReportTypeOK'
    BY <1>13, CheckpointFrame, ReportFrame DEF RunCheck, runRest
  <2>4. FlagsTypeOK'
    BY <1>13 DEF RunCheck, runRest, optVars, branchVars, FlagsTypeOK
  <2>5. HeadSha \in Nat
    BY DEF RepoTypeOK, HeadSha
  <2>6. CASE EndCheck(FALSE) /\ Executed /\ NoFault
    <3>1. /\ SuiteTypeOK' /\ CheckChosen' /\ RunsExist'
          /\ ran' \subseteq Sessions \X (Nat \ {0}) \X Checks
      BY <1>13, <2>6, EndCheckTypes DEF RunCheck
    <3>2. HistoryTypeOK'
      BY <1>13, <2>6, <3>1
      DEF RunCheck, Executed, NoFault, runRest, HistoryTypeOK
    <3>3. QED BY <2>2, <2>3, <2>4, <3>1, <3>2
  <2>7. CASE /\ pc' \in {"commit", "memfix"}
             /\ before' \in Nat \union {NoSha} /\ (NoFault \/ Fault)
             /\ UNCHANGED <<index, changed, cycleOutcomes, completed, ran, previewed>>
    <3>1. SuiteTypeOK' /\ RunsExist' /\ CheckChosen'
      BY <1>13, <2>7
      DEF RunCheck, runRest, optVars, branchVars, cycleVars, SuiteTypeOK,
          RunsExist, CheckChosen, PC
    <3>2. HistoryTypeOK'
      BY <1>13, <2>7, HistoryFrame DEF RunCheck, runRest, ghostVars
    <3>3. QED BY <2>2, <2>3, <2>4, <3>1, <3>2
  <2>8. QED BY <1>13, <2>5, <2>6, <2>7 DEF RunCheck
<1>14. ASSUME MemoryFix \/ CommitFix PROVE TypeInv'
  <2>1. RepoTypeOK' /\ (Fault \/ NoFault)
    BY <1>14, ClaudeTypes, CommitTypes, AuthorsAre DEF MemoryFix, CommitFix
  <2>2. CheckpointTypeOK' /\ ReportTypeOK'
    BY <1>14, CheckpointFrame, ReportFrame DEF MemoryFix, CommitFix, runRest
  <2>3. FlagsTypeOK'
    BY <1>14 DEF MemoryFix, CommitFix, runRest, optVars, branchVars, FlagsTypeOK
  <2>4. SuiteTypeOK' /\ RunsExist' /\ CheckChosen'
    BY <1>14 DEF MemoryFix, CommitFix, runRest, optVars, branchVars, cycleVars,
                 SuiteTypeOK, RunsExist, CheckChosen, PC
  <2>5. HistoryTypeOK'
    BY <1>14, <2>1, HistoryFrame DEF MemoryFix, CommitFix, runRest
  <2>6. QED BY <2>1, <2>2, <2>3, <2>4, <2>5
<1>15. ASSUME CommitCheck PROVE TypeInv'
  <2>1. RepoTypeOK'
    BY <1>15, CommitTypes DEF CommitCheck
  <2>2. CheckpointTypeOK' /\ ReportTypeOK'
    BY <1>15, CheckpointFrame, ReportFrame DEF CommitCheck, runRest
  <2>3. FlagsTypeOK'
    BY <1>15 DEF CommitCheck, runRest, optVars, branchVars, FlagsTypeOK
  <2>4. Current \in Checks /\ index < Len(plan)
    BY <1>15, CurrentIsCheck DEF CommitCheck, CheckChosen, SuiteTypeOK
  <2>5. /\ SuiteTypeOK' /\ CheckChosen' /\ RunsExist'
        /\ ran' \subseteq Sessions \X (Nat \ {0}) \X Checks
    BY <1>15, <2>4, EndCheckTypes DEF CommitCheck
  <2>6. faults' \in 0..MaxFaults
    BY <1>15, CommitTypes, FaultsBounded DEF CommitCheck
  <2>7. HistoryTypeOK'
    BY <1>15, <2>5, <2>6 DEF CommitCheck, Executed, runRest, HistoryTypeOK
  <2>8. QED BY <2>1, <2>2, <2>3, <2>5, <2>7
<1>16. ASSUME SaveAfterCheck PROVE TypeInv'
  <2>1. RepoTypeOK' /\ ReportTypeOK'
    BY <1>16, RepoFrame, ReportFrame DEF SaveAfterCheck
  <2>2. BuildCheckpoint(index + 1, changed) \in
          CheckpointData(0..MaxSessions, Seq(Checks), Nat \ {0}, Checks)
    BY DEF SuiteTypeOK, BuildCheckpoint, CheckpointData
  <2>3. CheckpointTypeOK'
    BY <1>16, <2>2, CheckpointFrame DEF SaveAfterCheck, SaveCheckpoint, CheckpointTypeOK
  <2>4. FlagsTypeOK'
    BY <1>16 DEF SaveAfterCheck, optVars, branchVars, FlagsTypeOK
  <2>5. SuiteTypeOK' /\ CheckChosen'
    BY <1>16 DEF SaveAfterCheck, optVars, branchVars, cycleVars, outcomeVars,
                 SuiteTypeOK, CheckChosen, PC
  <2>6. RunsExist'
    <3>1. run \in Sessions /\ session \in Sessions
      BY <1>16 DEF SaveAfterCheck, RunsExist
    <3>2. disk' = disk \/ disk'.run = run
      BY <1>16 DEF SaveAfterCheck, SaveCheckpoint, BuildCheckpoint
    <3>3. QED BY <1>16, <3>1, <3>2 DEF SaveAfterCheck, RunsExist
  <2>7. HistoryTypeOK'
    BY <1>16, HistoryFrame DEF SaveAfterCheck
  <2>8. QED BY <2>1, <2>3, <2>4, <2>5, <2>6, <2>7
<1>17. ASSUME Finish PROVE TypeInv'
  <2>1. RepoTypeOK' /\ CheckpointTypeOK'
    BY <1>17, RepoFrame, CheckpointFrame, NoCheckpointTypes DEF Finish, ClearCheckpoint
  <2>2. ReportTypeOK'
    BY <1>17, SummaryTypes DEF Finish
  <2>3. FlagsTypeOK' /\ SuiteTypeOK'
    BY <1>17, ProcessEndsFlags, ProcessEndsTypes DEF Finish
  <2>4. RunsExist' /\ CheckChosen'
    BY <1>17, ProcessEndsRuns DEF Finish, ClearCheckpoint
  <2>5. HistoryTypeOK'
    BY <1>17, HistoryFrame DEF Finish
  <2>6. QED BY <2>1, <2>2, <2>3, <2>4, <2>5
<1>18. ASSUME Interrupt PROVE TypeInv'
  <2>1. RepoTypeOK' /\ CheckpointTypeOK'
    BY <1>18, PartialEditsTypes, CheckpointFrame DEF Interrupt, survives
  <2>2. ReportTypeOK'
    BY <1>18, SummaryTypes DEF Interrupt
  <2>3. FlagsTypeOK' /\ SuiteTypeOK'
    BY <1>18, ProcessEndsFlags, ProcessEndsTypes DEF Interrupt, survives
  <2>4. RunsExist' /\ CheckChosen'
    BY <1>18, ProcessEndsRuns DEF Interrupt, survives
  <2>5. HistoryTypeOK'
    BY <1>18 DEF Interrupt, survives, HistoryTypeOK, ghostVars
  <2>6. QED BY <2>1, <2>2, <2>3, <2>4, <2>5
<1>19. ASSUME Kill PROVE TypeInv'
  <2>1. RepoTypeOK' /\ CheckpointTypeOK' /\ ReportTypeOK'
    BY <1>19, PartialEditsTypes, CheckpointFrame, ReportFrame DEF Kill, survives
  <2>2. FlagsTypeOK' /\ SuiteTypeOK'
    BY <1>19, ProcessEndsFlags, ProcessEndsTypes DEF Kill, survives
  <2>3. RunsExist' /\ CheckChosen'
    BY <1>19, ProcessEndsRuns DEF Kill, survives
  <2>4. HistoryTypeOK'
    BY <1>19 DEF Kill, survives, HistoryTypeOK, ghostVars
  <2>5. QED BY <2>1, <2>2, <2>3, <2>4
<1>20. ASSUME RepoTypeOK', report' = NoReport, operatorRest' = operatorRest
       PROVE  TypeInv'
  <2>1. CheckpointTypeOK' /\ ReportTypeOK'
    BY <1>20, CheckpointFrame, NoReportTypes DEF operatorRest, survives
  <2>2. FlagsTypeOK'
    BY <1>20 DEF operatorRest, survives, processVars, branchVars, FlagsTypeOK
  <2>3. SuiteTypeOK' /\ RunsExist' /\ CheckChosen'
    BY <1>20 DEF operatorRest, survives, processVars, branchVars, cycleVars,
                 outcomeVars, SuiteTypeOK, RunsExist, CheckChosen
  <2>4. HistoryTypeOK'
    BY <1>20 DEF operatorRest, survives, ghostVars, HistoryTypeOK
  <2>5. QED BY <1>20, <2>1, <2>2, <2>3, <2>4
<1>21. ASSUME OperatorEdits PROVE TypeInv'
  BY <1>20, <1>21, AuthorsAre DEF OperatorEdits, RepoTypeOK
<1>22. ASSUME OperatorSwitches PROVE TypeInv'
  BY <1>20, <1>22, CheckoutTypes DEF OperatorSwitches
<1>23. ASSUME OperatorDeletesScratch PROVE TypeInv'
  BY <1>20, <1>23 DEF OperatorDeletesScratch, RepoTypeOK
<1>24. QED BY <1>1, <1>2, <1>3, <1>4, <1>5, <1>6, <1>7, <1>8, <1>9, <1>10, <1>11, <1>12,
              <1>13, <1>14, <1>15, <1>16, <1>17, <1>18, <1>19, <1>21, <1>22, <1>23
           DEF Next, SessionStep

LEMMA TypeStutter == TypeInv /\ UNCHANGED vars => TypeInv'
<1> SUFFICES ASSUME TypeInv, UNCHANGED vars PROVE TypeInv'
  OBVIOUS
<1> USE DEF TypeInv, TypeOK, vars, optVars, branchVars, cycleVars, outcomeVars, measureVars,
            ghostVars
<1>1. RepoTypeOK' /\ CheckpointTypeOK' /\ ReportTypeOK'
  BY RepoFrame, CheckpointFrame, ReportFrame
<1>2. FlagsTypeOK'
  BY DEF FlagsTypeOK
<1>3. SuiteTypeOK' /\ RunsExist' /\ CheckChosen'
  BY DEF SuiteTypeOK, RunsExist, CheckChosen
<1>4. HistoryTypeOK' /\ MeasureTypeOK'
  BY DEF HistoryTypeOK, MeasureTypeOK
<1>5. QED BY <1>1, <1>2, <1>3, <1>4

THEOREM TypeInvariance == Spec => []TypeInv
<1>1. Init => TypeInv
  BY TypeInit
<1>2. TypeInv /\ [Next]_vars => TypeInv'
  BY TypeStep, TypeStutter
<1>3. QED BY <1>1, <1>2, PTL DEF Spec

\* Every variable of the suite, the repository and the checkpoint keeps to its
\* type, whatever fails and wherever a session is stopped.
THEOREM TypesHold == Spec => []TypeOK
<1>1. TypeInv => TypeOK
  BY DEF TypeInv
<1>2. QED BY <1>1, TypeInvariance, PTL

-----------------------------------------------------------------------------
(* Nothing is passed over.                                                  *)
(*                                                                          *)
(* That the position of the session, and the checkpoint, have only checks   *)
(* behind them that ran is not inductive alone: a resumed position must be  *)
(* used up by the first cycle, nothing is resumed while a check runs, and   *)
(* the loop is left early only by the end of a cycle.                       *)

\* A resumed position waits for the first cycle only, and only the end of a cycle
\* can be a convergence.
Phase ==
  /\ resume.active => pc \in {"attach", "snapshot", "cycle", "clear"}
  /\ pc # "clear" => converged = "no"

\* How the loop is left.
LoopLeft ==
  pc = "clear" =>
    IF converged = "no" THEN cycle > cycles ELSE index >= Len(plan)

ProgressInv ==
  TypeInv /\ Phase /\ LoopLeft /\ ResumePointReached /\ NothingSkipped

\* A position with fewer checks behind it.
LEMMA BehindSmaller ==
  ASSUME NEW r, NEW p, NEW c \in Nat, NEW i \in Nat, NEW j \in Nat, j <= i
  PROVE  Behind(r, p, c, j) \subseteq Behind(r, p, c, i)
BY DEF Behind

\* The start of a cycle has behind it what the end of the cycle before has.
LEMMA BehindNextCycle ==
  ASSUME NEW r, NEW p \in Seq(Checks), NEW c \in Nat \ {0}, NEW i \in Nat, i >= Len(p)
  PROVE  Behind(r, p, c + 1, 0) \subseteq Behind(r, p, c, i)
<1> SUFFICES ASSUME NEW x \in Behind(r, p, c + 1, 0) PROVE x \in Behind(r, p, c, i)
  OBVIOUS
<1>1. PICK k \in 1..c, j \in DOMAIN p : x = <<r, k, p[j]>>
  BY DEF Behind
<1>2. j \in 1..i
  BY <1>1
<1>3. CASE k = c
  BY <1>1, <1>2, <1>3 DEF Behind
<1>4. CASE k \in 1..(c - 1)
  BY <1>1, <1>4 DEF Behind
<1>5. QED BY <1>3, <1>4

\* One check more.
LEMMA BehindOneMore ==
  ASSUME NEW r, NEW p, NEW c \in Nat, NEW i \in Nat
  PROVE  Behind(r, p, c, i + 1) = Behind(r, p, c, i) \union {<<r, c, p[i + 1]>>}
<1>1. 1..(i + 1) = (1..i) \union {i + 1}
  OBVIOUS
<1>2. QED BY <1>1 DEF Behind

\* Nothing lies before the first check of the first cycle.
LEMMA BehindStart ==
  ASSUME NEW r, NEW p
  PROVE  Behind(r, p, 1, 0) = {}
BY DEF Behind

\* Everything behind a position of a run is of that run.
LEMMA BehindOfRun ==
  ASSUME NEW r, NEW p, NEW c, NEW i, NEW x \in Behind(r, p, c, i)
  PROVE  x[1] = r
BY DEF Behind

\* A check that ends is one more behind the session, and nothing that can still be
\* gone on with is forgotten.
LEMMA EndCheckProgress ==
  ASSUME ProgressInv, pc \in {"check", "commit"},
         index < Len(plan), NEW made, EndCheck(made), UNCHANGED runRest
  PROVE  Phase' /\ LoopLeft' /\ ResumePointReached' /\ NothingSkipped'
<1>1. /\ pc' = "save" /\ index' = index
      /\ disk' = disk /\ run' = run /\ plan' = plan /\ cycle' = cycle
      /\ resume' = resume /\ converged' = converged
  BY DEF EndCheck, runRest, optVars, cycleVars
<1>2. Phase' /\ LoopLeft'
  BY <1>1 DEF ProgressInv, Phase, LoopLeft
<1>3. \A x \in ran : x[1] \in {run, disk.run} => x \in ran'
  BY DEF EndCheck
<1>4. ResumePointReached'
  BY <1>1, <1>3, BehindOfRun DEF ProgressInv, ResumePointReached, Behind
<1>5. Behind(run, plan, cycle, index) \subseteq ran
  BY DEF ProgressInv, NothingSkipped, Position
<1>6. <<run, cycle, plan[index + 1]>> \in ran'
  BY DEF EndCheck, Current
<1>7. Behind(run, plan, cycle, index + 1) \subseteq ran'
  <2>1. cycle \in Nat /\ index \in Nat
    BY DEF ProgressInv, TypeInv, TypeOK, SuiteTypeOK
  <2>2. Behind(run, plan, cycle, index + 1)
          = Behind(run, plan, cycle, index) \union {<<run, cycle, plan[index + 1]>>}
    BY <2>1, BehindOneMore
  <2>3. \A x \in Behind(run, plan, cycle, index) : x \in ran'
    BY <1>3, <1>5, BehindOfRun
  <2>4. QED BY <1>6, <2>2, <2>3
<1>8. Position' = index + 1
  BY <1>1 DEF Position
<1>9. NothingSkipped'
  BY <1>1, <1>7, <1>8 DEF NothingSkipped, Behind
<1>10. QED BY <1>2, <1>4, <1>9

\* A session that is over stands nowhere.
LEMMA EndsProgress ==
  ASSUME ProgressInv, ProcessEnds, disk' \in {disk, NoCheckpoint}, ran' = ran
  PROVE  Phase' /\ LoopLeft' /\ ResumePointReached' /\ NothingSkipped'
<1>1. Phase' /\ LoopLeft' /\ NothingSkipped'
  BY DEF ProcessEnds, Phase, LoopLeft, NothingSkipped, NotResuming
<1>2. CASE disk' = disk
  BY <1>1, <1>2 DEF ProgressInv, ResumePointReached, Behind
<1>3. CASE disk' = NoCheckpoint
  BY <1>1, <1>3, BehindStart DEF ResumePointReached, NoCheckpoint, Behind
<1>4. QED BY <1>1, <1>2, <1>3

\* A step that leaves the checkpoint, the history and the position alone.
LEMMA StandsStill ==
  ASSUME ProgressInv, pc # "off", UNCHANGED <<disk, ran, run, plan, cycle>>,
         Position' \in Nat, Position' <= Position
  PROVE  ResumePointReached' /\ NothingSkipped'
<1>1. cycle \in Nat /\ Position \in Nat
  BY DEF ProgressInv, TypeInv, TypeOK, SuiteTypeOK, Position
<1>2. Behind(run, plan, cycle, Position') \subseteq Behind(run, plan, cycle, Position)
  BY <1>1, BehindSmaller
<1>3. NothingSkipped'
  BY <1>2 DEF ProgressInv, NothingSkipped, Behind
<1>4. QED BY <1>3 DEF ProgressInv, ResumePointReached, Behind

LEMMA ProgressInit == Init => ProgressInv
<1> SUFFICES ASSUME Init PROVE ProgressInv
  OBVIOUS
<1>1. TypeInv
  BY TypeInit
<1>2. Phase /\ LoopLeft /\ NothingSkipped
  BY DEF Init, NoProcess, Phase, LoopLeft, NothingSkipped, NotResuming
<1>3. ResumePointReached
  BY BehindStart DEF Init, ResumePointReached, NoCheckpoint
<1>4. QED BY <1>1, <1>2, <1>3 DEF ProgressInv

LEMMA ProgressStep == ProgressInv /\ Next => ProgressInv'
<1> SUFFICES ASSUME ProgressInv, Next
             PROVE  Phase' /\ LoopLeft' /\ ResumePointReached' /\ NothingSkipped'
  BY TypeStep DEF ProgressInv
<1>0. SuiteTypeOK /\ CheckpointTypeOK
  BY DEF ProgressInv, TypeInv, TypeOK
<1>1. ASSUME NEW selected, NEW n, NEW d, Launch(selected, n, d), BuildFreshState,
             disk' \in {disk, NoCheckpoint}
      PROVE  Phase' /\ LoopLeft' /\ ResumePointReached' /\ NothingSkipped'
  <2>1. /\ pc' \in {"attach", "cycle"} /\ converged' = "no" /\ ran' = ran
        /\ cycle' = 1 /\ Position' = 0
    BY <1>1 DEF ProgressInv, Phase, Launch, FirstStep, BuildFreshState, NotResuming,
                ghostVars, Position
  <2>2. Phase' /\ LoopLeft'
    BY <1>1, <2>1 DEF BuildFreshState, NotResuming, Phase, LoopLeft
  <2>3. NothingSkipped'
    BY <2>1 DEF NothingSkipped, Behind
  <2>4. ResumePointReached'
    BY <1>1, <2>1 DEF ProgressInv, ResumePointReached, NoCheckpoint, Behind
  <2>5. QED BY <2>2, <2>3, <2>4
<1>2. CASE StartFresh
  <2>1. PICK selected \in Selections, n \in CycleCounts, d \in DryRuns :
          Launch(selected, n, d) /\ BuildFreshState /\ disk' = disk
    BY <1>2 DEF StartFresh
  <2>2. QED BY <1>1, <2>1
<1>3. CASE StartAfterDiscarding
  <2>1. PICK selected \in Selections, n \in CycleCounts :
          Launch(selected, n, FALSE) /\ BuildFreshState /\ disk' \in {disk, NoCheckpoint}
    BY <1>3 DEF StartAfterDiscarding, ClearCheckpoint
  <2>2. QED BY <1>1, <2>1
<1>4. CASE StartResumed
  <2>1. LoadCheckpoint = disk
    BY <1>4 DEF StartResumed, LoadCheckpoint
  <2>2. /\ pc' \in {"attach", "cycle"} /\ converged' = "no"
        /\ ran' = ran /\ disk' = disk
        /\ run' = disk.run /\ plan' = disk.plan /\ cycle' = disk.cycle
        /\ resume'.index = disk.index /\ resume'.active
    BY <1>4, <2>1 DEF ProgressInv, Phase, StartResumed, Launch, FirstStep,
                BuildResumedState, CheckpointMatches, ghostVars
  <2>3. Phase' /\ LoopLeft'
    BY <2>2 DEF Phase, LoopLeft
  <2>4. Position' = disk.index
    BY <2>2 DEF Position
  <2>5. QED BY <2>2, <2>3, <2>4 DEF ProgressInv, NothingSkipped, ResumePointReached, Behind
<1>5. CASE Reattach \/ ForkScratch \/ Snapshot
  <2>1. /\ pc \in {"attach", "snapshot"} /\ pc' \in {"snapshot", "cycle"}
        /\ UNCHANGED <<disk, ran, run, plan, cycle, resume, converged>>
    BY <1>5 DEF Reattach, ForkScratch, Snapshot, suiteRest, optVars, cycleVars, ghostVars
  <2>2. Phase' /\ LoopLeft'
    BY <2>1 DEF ProgressInv, Phase, LoopLeft
  <2>3. Position' = Position /\ Position \in Nat
    BY <1>0, <2>1 DEF Position, SuiteTypeOK
  <2>4. QED BY <2>1, <2>2, <2>3, StandsStill
<1>6. CASE BeginCycle
  <2>1. /\ pc = "cycle" /\ pc' = "check" /\ ~resume'.active
        /\ UNCHANGED <<disk, ran, run, plan, cycle, converged>>
        /\ index' = Position /\ Position \in Nat
    BY <1>0, <1>6 DEF BeginCycle, ResolveCycleChecks, NotResuming, optVars, ghostVars,
                      Position, SuiteTypeOK
  <2>2. Phase' /\ LoopLeft' /\ Position' = Position
    BY <2>1 DEF ProgressInv, Phase, LoopLeft, Position
  <2>3. QED BY <2>1, <2>2, StandsStill
<1>7. CASE NoMoreCycles
  <2>1. /\ pc = "cycle" /\ pc' = "clear" /\ cycle > cycles /\ converged = "no"
        /\ UNCHANGED <<disk, ran, run, plan, cycle, cycles, converged>>
    BY <1>7 DEF ProgressInv, Phase, NoMoreCycles, suiteRest, optVars, cycleVars, ghostVars
  <2>2. Phase' /\ LoopLeft'
    BY <2>1 DEF Phase, LoopLeft
  <2>3. Position' = 0 /\ Position \in Nat
    BY <1>0, <2>1 DEF Position, SuiteTypeOK
  <2>4. QED BY <2>1, <2>2, <2>3, StandsStill
<1>8. CASE FinishCycle
  <2>1. /\ pc = "check" /\ index >= Len(plan) /\ ~resume.active /\ Position = index
        /\ UNCHANGED <<disk, ran, run, plan, resume, index>>
    BY <1>8 DEF ProgressInv, Phase, FinishCycle, optVars, ghostVars, Position
  <2>2. CASE pc' = "clear" /\ converged' \in {"measured", "unmeasured"} /\ cycle' = cycle
    <3>1. Phase' /\ LoopLeft' /\ Position' = index
      BY <2>1, <2>2 DEF Phase, LoopLeft, Position
    <3>2. QED BY <1>0, <2>1, <2>2, <3>1, StandsStill DEF SuiteTypeOK
  <2>3. CASE pc' = "cycle" /\ converged' = converged /\ cycle' = cycle + 1
    <3>1. Phase' /\ LoopLeft' /\ Position' = 0
      BY <2>1, <2>3 DEF ProgressInv, Phase, LoopLeft, Position
    <3>2. Behind(run, plan, cycle + 1, 0) \subseteq Behind(run, plan, cycle, index)
      BY <1>0, <2>1, BehindNextCycle DEF SuiteTypeOK
    <3>3. NothingSkipped'
      BY <2>1, <2>3, <3>1, <3>2 DEF ProgressInv, NothingSkipped, Behind
    <3>4. QED BY <2>1, <3>1, <3>3 DEF ProgressInv, ResumePointReached, Behind
  <2>4. QED BY <1>8, <2>2, <2>3 DEF FinishCycle, Converges, GoesOn
<1>9. CASE SkipCheck \/ PreviewCheck
  <2>1. /\ pc = "check" /\ index < Len(plan) /\ UNCHANGED runRest
        /\ \E made : EndCheck(made)
    BY <1>9 DEF SkipCheck, PreviewCheck
  <2>2. QED BY <2>1, EndCheckProgress
<1>10. CASE RunCheck
  <2>1. CASE EndCheck(FALSE)
    BY <1>10, <2>1, EndCheckProgress DEF RunCheck
  <2>2. CASE pc' \in {"commit", "memfix"} /\ UNCHANGED <<index, ran>>
    <3>1. /\ pc = "check"
          /\ UNCHANGED <<disk, ran, run, plan, cycle, resume, converged>>
      BY <1>10, <2>2 DEF RunCheck, runRest, optVars, cycleVars
    <3>2. Phase' /\ LoopLeft' /\ Position' = Position /\ Position \in Nat
      BY <1>0, <2>2, <3>1 DEF ProgressInv, Phase, LoopLeft, Position, SuiteTypeOK
    <3>3. QED BY <3>1, <3>2, StandsStill
  <2>3. QED BY <1>10, <2>1, <2>2 DEF RunCheck
<1>11. CASE MemoryFix \/ CommitFix
  <2>1. /\ pc \in {"memfix", "commitfix"} /\ pc' \in {"commitfix", "commit"}
        /\ UNCHANGED <<disk, ran, run, plan, cycle, resume, converged, index>>
    BY <1>11 DEF MemoryFix, CommitFix, runRest, optVars, cycleVars, ghostVars
  <2>2. Phase' /\ LoopLeft' /\ Position' = Position /\ Position \in Nat
    BY <1>0, <2>1 DEF ProgressInv, Phase, LoopLeft, Position, SuiteTypeOK
  <2>3. QED BY <2>1, <2>2, StandsStill
<1>12. CASE CommitCheck
  <2>1. pc = "commit" /\ index < Len(plan) /\ UNCHANGED runRest
    BY <1>12 DEF ProgressInv, TypeInv, CheckChosen, CommitCheck
  <2>2. \E made : EndCheck(made)
    BY <1>12 DEF CommitCheck
  <2>3. QED BY <2>1, <2>2, EndCheckProgress
<1>13. CASE SaveAfterCheck
  <2>1. /\ pc = "save" /\ pc' = "check" /\ index' = index + 1
        /\ UNCHANGED <<ran, run, plan, cycle, resume, converged>>
    BY <1>13 DEF SaveAfterCheck, optVars, cycleVars, ghostVars
  <2>2. Phase' /\ LoopLeft' /\ Position' = index + 1 /\ Position = index + 1
    BY <2>1 DEF ProgressInv, Phase, LoopLeft, Position
  <2>3. Behind(run, plan, cycle, index + 1) \subseteq ran
    BY <2>1, <2>2 DEF ProgressInv, NothingSkipped
  <2>4. NothingSkipped'
    BY <2>1, <2>2, <2>3 DEF NothingSkipped, Behind
  <2>5. CASE disk' = disk
    BY <2>1, <2>2, <2>4, <2>5 DEF ProgressInv, ResumePointReached, Behind
  <2>6. CASE disk' = BuildCheckpoint(index + 1, changed)
    <3>1. /\ disk'.run = run /\ disk'.plan = plan
          /\ disk'.cycle = cycle /\ disk'.index = index + 1
      BY <2>6 DEF BuildCheckpoint
    <3>2. QED BY <2>1, <2>2, <2>3, <2>4, <3>1 DEF ResumePointReached, Behind
  <2>7. QED BY <1>13, <2>5, <2>6 DEF SaveAfterCheck, SaveCheckpoint
<1>14. CASE RefuseStaleBase \/ Finish \/ Interrupt \/ Kill
  <2>1. ProcessEnds /\ disk' \in {disk, NoCheckpoint} /\ ran' = ran
    BY <1>14 DEF RefuseStaleBase, Finish, Interrupt, Kill, ClearCheckpoint, survives,
                 ghostVars
  <2>2. QED BY <2>1, EndsProgress
<1>15. CASE OperatorEdits \/ OperatorSwitches \/ OperatorDeletesScratch
  <2>1. /\ pc = "off" /\ pc' = "off"
        /\ UNCHANGED <<disk, ran, resume, converged>>
    BY <1>15 DEF OperatorEdits, OperatorSwitches, OperatorDeletesScratch, operatorRest,
                 survives, processVars, ghostVars
  <2>2. Phase' /\ LoopLeft' /\ NothingSkipped'
    BY <2>1 DEF ProgressInv, Phase, LoopLeft, NothingSkipped
  <2>3. QED BY <2>1, <2>2 DEF ProgressInv, ResumePointReached, Behind
<1>16. QED BY <1>2, <1>3, <1>4, <1>5, <1>6, <1>7, <1>8, <1>9, <1>10, <1>11, <1>12,
              <1>13, <1>14, <1>15 DEF Next, SessionStep

LEMMA ProgressStutter == ProgressInv /\ UNCHANGED vars => ProgressInv'
<1> SUFFICES ASSUME ProgressInv, UNCHANGED vars PROVE ProgressInv'
  OBVIOUS
<1>1. TypeInv'
  BY TypeStutter DEF ProgressInv
<1>2. UNCHANGED <<pc, disk, ran, run, plan, cycle, cycles, resume, converged, index>>
  BY DEF vars, optVars, cycleVars, ghostVars
<1>3. Phase' /\ LoopLeft' /\ Position' = Position
  BY <1>2 DEF ProgressInv, Phase, LoopLeft, Position
<1>4. ResumePointReached' /\ NothingSkipped'
  BY <1>2, <1>3 DEF ProgressInv, ResumePointReached, NothingSkipped, Behind
<1>5. QED BY <1>1, <1>3, <1>4 DEF ProgressInv

THEOREM ProgressInvariance == Spec => []ProgressInv
<1>1. Init => ProgressInv
  BY ProgressInit
<1>2. ProgressInv /\ [Next]_vars => ProgressInv'
  BY ProgressStep, ProgressStutter
<1>3. QED BY <1>1, <1>2, PTL DEF Spec

\* A checkpoint never points past a check its run has not been through.
THEOREM CheckpointsAreReached == Spec => []ResumePointReached
<1>1. ProgressInv => ResumePointReached
  BY DEF ProgressInv
<1>2. QED BY <1>1, ProgressInvariance, PTL

\* However often a run is stopped and resumed, it never stands past a check it has
\* not been through.
THEOREM NothingIsSkipped == Spec => []NothingSkipped
<1>1. ProgressInv => NothingSkipped
  BY DEF ProgressInv
<1>2. QED BY <1>1, ProgressInvariance, PTL

\* The loop is left only after whole cycles: all num_cycles of them, or those up to
\* the one that converged.
THEOREM CyclesAreComplete == Spec => []LeavesCompleteCycles
<1>1. ProgressInv => LeavesCompleteCycles
  <2> SUFFICES ASSUME ProgressInv, pc = "clear",
                      NEW k \in 1..(IF converged = "no" THEN cycles ELSE cycle),
                      NEW j \in DOMAIN plan
               PROVE  <<run, k, plan[j]>> \in ran
    BY DEF LeavesCompleteCycles
  <2>1. plan \in Seq(Checks) /\ cycle \in Nat /\ cycles \in Nat /\ index \in Nat
    BY DEF ProgressInv, TypeInv, TypeOK, SuiteTypeOK
  <2>2. CASE k \in 1..(cycle - 1)
    BY <2>2 DEF ProgressInv, NothingSkipped, Behind
  <2>3. CASE converged # "no" /\ k = cycle
    <3>1. index >= Len(plan) /\ Position = index
      BY <2>3 DEF ProgressInv, LoopLeft, Position
    <3>2. j \in 1..index
      BY <2>1, <3>1
    <3>3. QED BY <2>3, <3>1, <3>2 DEF ProgressInv, NothingSkipped, Behind
  <2>4. QED BY <2>1, <2>2, <2>3 DEF ProgressInv, LoopLeft
<1>2. QED BY <1>1, ProgressInvariance, PTL

-----------------------------------------------------------------------------
(* What a run does to the repository: where its commits land, what becomes *)
(* of the operator's uncommitted edits, and that a dry run changes nothing. *)

\* Branches are named by the session that makes them, so the one a session is about
\* to make does not exist.
BranchesAreOld ==
  /\ \A b \in branches : b <= session
  /\ pc = "attach" => session \notin branches

\* A dry run, or a run outside git, never gets to what only the others do.
StepsTaken ==
  /\ pc \in {"attach", "snapshot"} => isGit
  /\ pc \in {"attach", "snapshot", "memfix", "commitfix", "commit"} => ~dry

Working == {"cycle", "check", "memfix", "commitfix", "commit", "save", "clear"}

\* Past the attachment HEAD is on the scratch branch, unless git refused.
OnScratch ==
  isGit /\ ~dry /\ ~attachFailed /\ pc \in Working \union {"snapshot"} => head = scratch

\* Past the snapshot the operator's edits are committed, unless something failed.
EditsAreCommitted ==
  isGit /\ ~dry /\ faults = 0 /\ pc \in Working => "user" \notin dirty

BranchInv ==
  TypeInv /\ BranchesAreOld /\ StepsTaken /\ OnScratch /\ EditsAreCommitted

LEMMA BranchInit == Init => BranchInv
<1> SUFFICES ASSUME Init PROVE BranchInv
  OBVIOUS
<1>1. BranchesAreOld
  BY DEF Init, NoProcess, RepoInit, BranchesAreOld, Main
<1>2. StepsTaken /\ OnScratch /\ EditsAreCommitted
  BY DEF Init, NoProcess, StepsTaken, OnScratch, EditsAreCommitted, Working
<1>3. QED BY <1>1, <1>2, TypeInit DEF BranchInv

\* A commit leaves HEAD on its branch and adds nothing to what is uncommitted; the
\* operator's edits go with it unless it fails.
LEMMA CommitEffect ==
  ASSUME \/ CommitUncommitted
         \/ IF isGit THEN CommitUncommitted ELSE UNCHANGED repoVars /\ NoFault
  PROVE  /\ UNCHANGED <<head, branches>> /\ dirty' \subseteq dirty
         /\ faults' \in {faults, faults + 1}
         /\ CommitUncommitted => "user" \notin dirty' \/ faults' = faults + 1
<1>1. CASE ~CommitUncommitted
  BY <1>1 DEF repoVars, NoFault
<1>2. CASE CommitUncommitted
  BY <1>2, SuiteAssumption
  DEF CommitUncommitted, GitCommitAll, GitCommitFails, HasUncommittedChanges, Fault, NoFault,
      repoVars
<1>3. QED BY <1>1, <1>2

LEMMA BranchStep == BranchInv /\ Next => BranchInv'
<1> SUFFICES ASSUME BranchInv, Next
             PROVE  BranchesAreOld' /\ StepsTaken' /\ OnScratch' /\ EditsAreCommitted'
  BY TypeStep DEF BranchInv
<1>0. /\ RepoTypeOK /\ FlagsTypeOK /\ SuiteTypeOK /\ HistoryTypeOK /\ RunsExist
      /\ CheckChosen /\ session \in Nat /\ faults \in Nat
  BY SuiteAssumption DEF BranchInv, TypeInv, TypeOK, HistoryTypeOK
<1>1. ASSUME NEW selected, NEW n, NEW d, Launch(selected, n, d)
      PROVE  BranchesAreOld' /\ StepsTaken' /\ OnScratch' /\ EditsAreCommitted'
  <2>1. /\ session' = session + 1 /\ branches' = branches /\ isGit' = isGit /\ dry' = d
        /\ pc' = FirstStep(d)
    BY <1>1 DEF Launch, RenameCommits
  <2>2. branches \subseteq Nat
    BY <1>0, RepoAssumption DEF RepoTypeOK
  <2>3. BranchesAreOld'
    BY <1>0, <2>1, <2>2 DEF BranchInv, BranchesAreOld
  <2>4. StepsTaken' /\ OnScratch' /\ EditsAreCommitted'
    BY <2>1 DEF FirstStep, StepsTaken, OnScratch, EditsAreCommitted, Working
  <2>5. QED BY <2>3, <2>4
<1>2. CASE StartFresh \/ StartAfterDiscarding \/ StartResumed
  <2>1. PICK selected, n, d : Launch(selected, n, d)
    BY <1>2 DEF StartFresh, StartAfterDiscarding, StartResumed
  <2>2. QED BY <1>1, <2>1
<1>3. CASE Reattach
  <2>1. /\ pc = "attach" /\ pc' = "snapshot" /\ branches' = branches
        /\ UNCHANGED <<session, isGit, dry, scratch>>
        /\ head' = scratch \/ attachFailed'
    BY <1>3 DEF Reattach, CheckoutBranch, repoVars, suiteRest, optVars
  <2>2. BranchesAreOld' /\ StepsTaken'
    BY <2>1 DEF BranchInv, BranchesAreOld, StepsTaken
  <2>3. OnScratch' /\ EditsAreCommitted'
    BY <2>1 DEF OnScratch, EditsAreCommitted, Working
  <2>4. QED BY <2>2, <2>3
<1>4. CASE ForkScratch
  <2>1. /\ pc = "attach" /\ pc' = "snapshot"
        /\ UNCHANGED <<session, isGit, dry>>
        /\ head' = scratch' \/ attachFailed'
        /\ branches' \subseteq branches \union {session}
    BY <1>4 DEF ForkScratch, CreateScratchBranch, repoVars, suiteRest, optVars
  <2>2. BranchesAreOld' /\ StepsTaken'
    BY <1>0, <2>1 DEF BranchInv, BranchesAreOld, StepsTaken
  <2>3. OnScratch' /\ EditsAreCommitted'
    BY <2>1 DEF OnScratch, EditsAreCommitted, Working
  <2>4. QED BY <2>2, <2>3
<1>5. CASE Snapshot
  <2>1. /\ pc = "snapshot" /\ pc' = "cycle"
        /\ UNCHANGED <<session, isGit, dry, scratch, attachFailed>>
    BY <1>5 DEF Snapshot, suiteRest, branchVars, optVars
  <2>2. /\ UNCHANGED <<head, branches>>
        /\ "user" \notin dirty' \/ faults' = faults + 1
    BY <1>5, CommitEffect DEF Snapshot
  <2>3. BranchesAreOld' /\ StepsTaken'
    BY <2>1, <2>2 DEF BranchInv, BranchesAreOld, StepsTaken
  <2>4. OnScratch'
    BY <2>1, <2>2 DEF BranchInv, OnScratch, Working
  <2>5. EditsAreCommitted'
    BY <1>0, <2>2 DEF EditsAreCommitted
  <2>6. QED BY <2>3, <2>4, <2>5
<1>6. ASSUME pc' = "off", branches' = branches, session' = session
      PROVE  BranchesAreOld' /\ StepsTaken' /\ OnScratch' /\ EditsAreCommitted'
  BY <1>6 DEF BranchInv, BranchesAreOld, StepsTaken, OnScratch, EditsAreCommitted, Working
<1>7. CASE RefuseStaleBase \/ Finish \/ Interrupt \/ Kill
  BY <1>6, <1>7 DEF RefuseStaleBase, Finish, Interrupt, Kill, PartialEdits, ClaudeWorks,
                    ProcessEnds, survives, repoVars
<1>8. ASSUME pc \in Working, pc' \in Working,
             pc' \in {"commitfix", "commit", "memfix"} => ~dry,
             UNCHANGED <<isGit, dry, scratch, attachFailed, session, head, branches>>,
             "user" \in dirty' => "user" \in dirty, faults' \in {faults, faults + 1}
      PROVE  BranchesAreOld' /\ StepsTaken' /\ OnScratch' /\ EditsAreCommitted'
  <2>1. BranchesAreOld' /\ StepsTaken'
    BY <1>8 DEF BranchInv, BranchesAreOld, StepsTaken, Working
  <2>2. OnScratch'
    BY <1>8 DEF BranchInv, OnScratch, Working
  <2>3. faults' = 0 => faults = 0
    BY <1>0, <1>8
  <2>4. EditsAreCommitted'
    BY <1>8, <2>3 DEF BranchInv, EditsAreCommitted, Working
  <2>5. QED BY <2>1, <2>2, <2>4
<1>9. CASE BeginCycle \/ NoMoreCycles \/ FinishCycle \/ SaveAfterCheck
           \/ SkipCheck \/ PreviewCheck
  <2>1. /\ pc \in Working /\ pc' \in {"check", "cycle", "clear", "save"}
        /\ UNCHANGED <<isGit, dry, scratch, attachFailed, session, head, branches, dirty>>
    BY <1>9 DEF BeginCycle, NoMoreCycles, FinishCycle, Converges, GoesOn, SaveAfterCheck,
                SkipCheck, PreviewCheck, EndCheck, suiteRest, runRest, repoVars, optVars,
                branchVars, Working
  <2>2. faults' \in {faults, faults + 1}
    BY <1>9 DEF BeginCycle, NoMoreCycles, FinishCycle, SaveAfterCheck, SkipCheck,
                PreviewCheck, Fault, NoFault
  <2>3. QED BY <1>8, <2>1, <2>2 DEF Working
<1>10. CASE RunCheck
  <2>1. /\ pc \in Working /\ pc' \in {"commit", "memfix", "save"} /\ ~dry
        /\ UNCHANGED <<isGit, dry, scratch, attachFailed, session, head, branches>>
        /\ faults' \in {faults, faults + 1}
    BY <1>10 DEF RunCheck, EndCheck, ClaudeWorks, runRest, optVars, branchVars, Fault,
                 NoFault, Working
  <2>2. Current \in Checks
    BY <1>0, <1>10, CurrentIsCheck DEF RunCheck, SuiteTypeOK
  <2>3. "user" \in dirty' => "user" \in dirty
    BY <1>10, <2>2, SuiteAssumption DEF RunCheck, ClaudeWorks
  <2>4. QED BY <1>8, <2>1, <2>3 DEF Working
<1>11. CASE MemoryFix
  <2>1. /\ pc = "memfix" /\ pc' \in {"commitfix", "commit"}
        /\ UNCHANGED <<isGit, dry, scratch, attachFailed, session, head, branches, faults>>
    BY <1>11 DEF MemoryFix, ClaudeWorks, runRest, optVars, branchVars, NoFault
  <2>2. "user" \in dirty' => "user" \in dirty
    BY <1>11, SuiteAssumption DEF MemoryFix, ClaudeWorks
  <2>3. ~dry
    BY <2>1 DEF BranchInv, StepsTaken
  <2>4. QED BY <1>8, <2>1, <2>2, <2>3 DEF Working
<1>12. CASE CommitFix \/ CommitCheck
  <2>1. /\ pc \in {"commitfix", "commit"} /\ pc' \in {"commit", "save"}
        /\ UNCHANGED <<isGit, dry, scratch, attachFailed, session>>
    BY <1>12 DEF CommitFix, CommitCheck, EndCheck, runRest, optVars, branchVars
  <2>2. /\ UNCHANGED <<head, branches>> /\ faults' \in {faults, faults + 1}
        /\ dirty' \subseteq dirty
    BY <1>12, CommitEffect DEF CommitFix, CommitCheck
  <2>3. ~dry
    BY <2>1 DEF BranchInv, StepsTaken
  <2>4. QED BY <1>8, <2>1, <2>2, <2>3 DEF Working
<1>13. CASE OperatorEdits \/ OperatorSwitches \/ OperatorDeletesScratch
  <2>1. /\ pc = "off" /\ pc' = "off" /\ session' = session
        /\ branches' \subseteq branches
    BY <1>13
    DEF OperatorEdits, OperatorSwitches, OperatorDeletesScratch, CheckoutBranch,
        operatorRest, survives, processVars
  <2>2. QED BY <2>1 DEF BranchInv, BranchesAreOld, StepsTaken, OnScratch,
                        EditsAreCommitted, Working
<1>14. QED BY <1>2, <1>3, <1>4, <1>5, <1>7, <1>9, <1>10, <1>11, <1>12, <1>13
           DEF Next, SessionStep

LEMMA BranchStutter == BranchInv /\ UNCHANGED vars => BranchInv'
<1> SUFFICES ASSUME BranchInv, UNCHANGED vars PROVE BranchInv'
  OBVIOUS
<1>1. TypeInv'
  BY TypeStutter DEF BranchInv
<1>2. UNCHANGED <<head, branches, dirty, session, pc, isGit, dry, attachFailed, scratch, faults>>
  BY DEF vars, repoVars, optVars, branchVars
<1>3. BranchesAreOld' /\ StepsTaken'
  BY <1>2 DEF BranchInv, BranchesAreOld, StepsTaken
<1>4. OnScratch' /\ EditsAreCommitted'
  BY <1>2 DEF BranchInv, OnScratch, EditsAreCommitted
<1>5. QED BY <1>1, <1>3, <1>4 DEF BranchInv

THEOREM BranchInvariance == Spec => []BranchInv
<1>1. Init => BranchInv
  BY BranchInit
<1>2. BranchInv /\ [Next]_vars => BranchInv'
  BY BranchStep, BranchStutter
<1>3. QED BY <1>1, <1>2, PTL DEF Spec

\* What the operator had not committed when the session began, outside the generated
\* paths, is in a commit of its own before a check works, unless an operation failed.
THEOREM EditsAreSnapshotted == Spec => []OperatorEditsSnapshotted
<1>1. BranchInv => OperatorEditsSnapshotted
  BY DEF BranchInv, EditsAreCommitted, OperatorEditsSnapshotted, Checking, Working
<1>2. QED BY <1>1, BranchInvariance, PTL

\* A session that commits where it stands does so on its scratch branch.
LEMMA CommitsStep ==
  ASSUME BranchInv, Next, pc # "off", ~attachFailed, head' = head, HeadSha' # HeadSha
  PROVE  head = scratch
<1>1. CASE Reattach
  BY <1>1 DEF Reattach, CheckoutBranch, HeadSha, repoVars
<1>2. CASE ForkScratch
  <2>1. session # head
    BY <1>2 DEF BranchInv, BranchesAreOld, ForkScratch, TypeInv, TypeOK, RepoTypeOK
  <2>2. QED BY <1>2, <2>1 DEF ForkScratch, CreateScratchBranch, HeadSha, repoVars
<1>3. CASE isGit /\ ~dry /\ pc \in Working \union {"snapshot"}
  BY <1>3 DEF BranchInv, OnScratch
<1>4. CASE Snapshot \/ MemoryFix \/ CommitFix \/ CommitCheck
  <2>1. /\ pc \in {"snapshot", "memfix", "commitfix", "commit"}
        /\ isGit \/ UNCHANGED <<sha, dirty>> \/ UNCHANGED repoVars
    BY <1>4 DEF BranchInv, StepsTaken, Snapshot, MemoryFix, CommitFix, CommitCheck, ClaudeWorks
  <2>2. QED BY <1>3, <2>1 DEF BranchInv, StepsTaken, Working, HeadSha, repoVars
<1>5. CASE RunCheck
  BY <1>3, <1>5 DEF RunCheck, ClaudeWorks, Working, HeadSha
<1>6. CASE Interrupt \/ Kill
  <2>1. \/ UNCHANGED sha
        \/ isGit /\ pc = "check" /\ ~dry
        \/ isGit /\ pc = "memfix"
    BY <1>6 DEF Interrupt, Kill, PartialEdits, ClaudeWorks, repoVars
  <2>2. QED BY <1>3, <2>1 DEF BranchInv, StepsTaken, Working, HeadSha
<1>7. CASE BeginCycle \/ NoMoreCycles \/ FinishCycle \/ SkipCheck \/ PreviewCheck
           \/ SaveAfterCheck \/ Finish \/ RefuseStaleBase
  BY <1>7 DEF BeginCycle, NoMoreCycles, FinishCycle, SkipCheck, PreviewCheck,
              SaveAfterCheck, Finish, RefuseStaleBase, repoVars, HeadSha
<1>8. CASE StartFresh \/ StartAfterDiscarding \/ StartResumed
           \/ OperatorEdits \/ OperatorSwitches \/ OperatorDeletesScratch
  BY <1>8 DEF StartFresh, StartAfterDiscarding, StartResumed, Launch, OperatorEdits,
              OperatorSwitches, OperatorDeletesScratch
<1>9. QED BY <1>1, <1>2, <1>4, <1>5, <1>6, <1>7, <1>8 DEF Next, SessionStep

\* No session commits to a branch that is not its scratch branch, unless git did not
\* let it onto one.
THEOREM CommitsAreOnScratch == Spec => CommitsStayOnScratch
<1>1. BranchInv /\ [Next]_vars =>
        [pc # "off" /\ ~attachFailed /\ head' = head /\ HeadSha' # HeadSha
           => head = scratch]_vars
  BY CommitsStep
<1>2. QED BY <1>1, BranchInvariance, PTL DEF Spec, CommitsStayOnScratch

\* A dry run leaves every branch, HEAD and the working tree as they are.
THEOREM DryRunsLeaveRepository == Spec => DryRunLeavesRepository
<1>1. BranchInv /\ [Next]_vars => [pc # "off" /\ dry => UNCHANGED repoVars]_vars
  <2> SUFFICES ASSUME BranchInv, Next, pc # "off", dry
               PROVE  UNCHANGED repoVars
    OBVIOUS
  <2>1. pc \notin {"attach", "snapshot", "memfix", "commitfix", "commit"}
    BY DEF BranchInv, StepsTaken
  <2>2. CASE BeginCycle \/ NoMoreCycles \/ FinishCycle \/ SkipCheck \/ PreviewCheck
             \/ SaveAfterCheck \/ Finish \/ RefuseStaleBase
    BY <2>2 DEF BeginCycle, NoMoreCycles, FinishCycle, SkipCheck, PreviewCheck,
                SaveAfterCheck, Finish, RefuseStaleBase
  <2>3. CASE Interrupt \/ Kill
    BY <2>1, <2>3 DEF Interrupt, Kill, PartialEdits, repoVars
  <2>4. QED
    BY <2>1, <2>2, <2>3
    DEF Next, SessionStep, Reattach, ForkScratch, Snapshot, RunCheck, MemoryFix,
        CommitFix, CommitCheck, StartFresh, StartAfterDiscarding, StartResumed, Launch,
        OperatorEdits, OperatorSwitches, OperatorDeletesScratch
<1>2. QED BY <1>1, BranchInvariance, PTL DEF Spec, DryRunLeavesRepository
=============================================================================
