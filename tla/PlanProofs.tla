------------------------------ MODULE PlanProofs ------------------------------
(***************************************************************************)
(* The sessions of Suite keep the promise of CheckPlan: whatever fails and *)
(* wherever a session is stopped, each step of a session is one of the     *)
(* promise or none.  And what a completed session reports, and what its    *)
(* cycles remember as changed, is what it did.                             *)
(***************************************************************************)
EXTENDS SuiteProofs

-----------------------------------------------------------------------------
(* The invariant                                                            *)

\* The cycles a run can reach.
PlanCycles == UNION {1..n : n \in CycleCounts}

\* What a run has been through.
OfRun(r) == {x \in ran : x[1] = r}

\* The run got to some point of this plan, and did nothing outside it.
Follows(r, p) ==
  \E c \in PlanCycles, i \in 0..Len(p) : OfRun(r) = Behind(r, p, c, i)

\* Plans are selections, and nothing is reported complete while a session works.
Chosen ==
  /\ pc # "off" => cycles \in CycleCounts /\ plan \in Selections /\ report.kind # "done"
  /\ disk # NoCheckpoint => disk.plan \in Selections

\* A fresh run's number is new.
Numbered ==
  /\ \A x \in ran : x[1] <= session
  /\ pc # "off" => run <= session
  /\ disk # NoCheckpoint => disk.run <= session

\* A checkpoint of the run in progress has its plan.
SamePlan == pc # "off" /\ disk.run = run => disk.plan = plan

\* Checks are run, and a convergence is found, in a cycle that was asked for.
WithinCycles ==
  \/ pc \in Checking
  \/ pc = "clear" /\ converged # "no"
  => cycle <= cycles

\* The runs that can go on have followed their plans.
OnPlan ==
  /\ pc # "off" => Follows(run, plan)
  /\ disk # NoCheckpoint => Follows(disk.run, disk.plan)

PlanInv ==
  ProgressInv /\ Chosen /\ Numbered /\ SamePlan /\ WithinCycles /\ OnPlan

\* The parts of PlanInv that this module proves.
PlanParts == Chosen /\ Numbered /\ SamePlan /\ WithinCycles /\ OnPlan

-----------------------------------------------------------------------------
(* Positions                                                                *)

LEMMA PromiseBefore ==
  ASSUME NEW r, NEW p, NEW c, NEW i
  PROVE  Promise!Before(r, p, c, i) = Behind(r, p, c, i)
BY DEF Promise!Before, Behind

LEMMA CyclesReached ==
  ASSUME NEW n \in CycleCounts, NEW c \in Nat \ {0}, c <= n
  PROVE  c \in PlanCycles
<1>1. n \in Nat /\ c \in 1..n
  BY SuiteAssumption
<1>2. QED BY <1>1 DEF PlanCycles

LEMMA CyclesAreNumbers == PlanCycles \subseteq Nat \ {0}
<1> SUFFICES ASSUME NEW c \in PlanCycles PROVE c \in Nat \ {0}
  OBVIOUS
<1>1. PICK n \in CycleCounts : c \in 1..n
  BY DEF PlanCycles
<1>2. n \in Nat
  BY SuiteAssumption
<1>3. QED BY <1>1, <1>2

\* What is behind a position, one at a time.
LEMMA BehindEarlier ==
  ASSUME NEW r, NEW p, NEW c, NEW i, NEW l \in 1..(c - 1), NEW m \in DOMAIN p
  PROVE  <<r, l, p[m]>> \in Behind(r, p, c, i)
BY DEF Behind

LEMMA BehindHere ==
  ASSUME NEW r, NEW p, NEW c, NEW i, NEW m \in 1..i
  PROVE  <<r, c, p[m]>> \in Behind(r, p, c, i)
BY DEF Behind

\* A run that has been through all that is before a check, and goes through the
\* check, has still followed its plan, whether it was there before or not.
LEMMA OneMoreFollows ==
  ASSUME NEW r, NEW p \in Seq(Checks),
         NEW k \in Nat \ {0}, NEW j \in Nat, j < Len(p),
         NEW c \in Nat \ {0}, NEW i \in 0..Len(p),
         Behind(r, p, k, j) \subseteq Behind(r, p, c, i)
  PROVE  Behind(r, p, c, i) \union {<<r, k, p[j + 1]>>}
           \in {Behind(r, p, c, i), Behind(r, p, k, j + 1)}
<1> DEFINE e == <<r, k, p[j + 1]>>
<1>1. CASE e \in Behind(r, p, c, i)
  BY <1>1
<1>2. CASE e \notin Behind(r, p, c, i)
  <2>1. 1 \in DOMAIN p /\ j + 1 \in DOMAIN p /\ Len(p) \in Nat /\ i \in Nat
    OBVIOUS
  <2>2. k >= c
    <3>1. SUFFICES ASSUME k < c PROVE FALSE
      OBVIOUS
    <3>2. k \in 1..(c - 1)
      BY <3>1
    <3>3. e \in Behind(r, p, c, i)
      BY <2>1, <3>2 DEF Behind
    <3>4. QED BY <1>2, <3>3
  <2>3. CASE k = c
    <3>1. j >= i
      <4>1. SUFFICES ASSUME j < i PROVE FALSE
        BY <2>1
      <4>2. j + 1 \in 1..i
        BY <2>1, <4>1
      <4>3. QED BY <1>2, <2>3, <4>2 DEF Behind
    <3>2. Behind(r, p, c, i) \subseteq Behind(r, p, k, j)
      BY <2>1, <2>3, <3>1, BehindSmaller
    <3>3. Behind(r, p, c, i) = Behind(r, p, k, j)
      BY <3>2
    <3>4. QED BY <3>3, BehindOneMore
  <2>4. CASE k > c
    <3> DEFINE f == <<r, c + 1, p[1]>>
    <3>1. f \notin Behind(r, p, c, i)
      BY DEF Behind
    <3>2. k = c + 1
      <4>1. SUFFICES ASSUME k # c + 1 PROVE FALSE
        OBVIOUS
      <4>2. c + 1 \in 1..(k - 1)
        BY <2>4, <4>1
      <4>3. f \in Behind(r, p, k, j)
        BY <2>1, <4>2, BehindEarlier
      <4>4. QED BY <3>1, <4>3
    <3>3. j = 0
      <4>1. SUFFICES ASSUME j # 0 PROVE FALSE
        OBVIOUS
      <4>2. 1 \in 1..j
        BY <4>1
      <4>3. f \in Behind(r, p, k, j)
        BY <3>2, <4>2, BehindHere
      <4>4. QED BY <3>1, <4>3
    <3>4. Behind(r, p, c, i) \subseteq Behind(r, p, k, j)
      <4>1. SUFFICES ASSUME NEW x \in Behind(r, p, c, i) PROVE x \in Behind(r, p, k, j)
        OBVIOUS
      <4>2. CASE \E l \in 1..(c - 1), m \in DOMAIN p : x = <<r, l, p[m]>>
        <5>1. PICK l \in 1..(c - 1), m \in DOMAIN p : x = <<r, l, p[m]>>
          BY <4>2
        <5>2. l \in 1..(k - 1)
          BY <3>2
        <5>3. QED BY <5>1, <5>2, BehindEarlier
      <4>3. CASE \E m \in 1..i : x = <<r, c, p[m]>>
        <5>1. PICK m \in 1..i : x = <<r, c, p[m]>>
          BY <4>3
        <5>2. c \in 1..(k - 1) /\ m \in DOMAIN p
          BY <2>1, <3>2
        <5>3. QED BY <5>1, <5>2, BehindEarlier
      <4>4. QED BY <4>1, <4>2, <4>3 DEF Behind
    <3>5. Behind(r, p, c, i) = Behind(r, p, k, j)
      BY <3>4
    <3>6. QED BY <3>5, BehindOneMore
  <2>5. QED BY <2>2, <2>3, <2>4
<1>3. QED BY <1>1, <1>2

\* What it is to have followed a plan after a step.
LEMMA FollowsThen ==
  Follows(run, plan)' <=>
    \E c \in PlanCycles, i \in 0..Len(plan') : OfRun(run)' = Behind(run', plan', c, i)
BY DEF Follows, Behind, PlanCycles, OfRun

LEMMA FollowsLater ==
  ASSUME UNCHANGED <<run, plan>>,
         \E c \in PlanCycles, i \in 0..Len(plan) : OfRun(run)' = Behind(run, plan, c, i)
  PROVE  Follows(run, plan)'
BY FollowsThen

LEMMA DiskFollowsThen ==
  Follows(disk.run, disk.plan)' <=>
    \E c \in PlanCycles, i \in 0..Len(disk.plan') :
      OfRun(disk.run)' = Behind(disk.run', disk.plan', c, i)
BY DEF Follows, Behind, PlanCycles, OfRun

LEMMA DiskFollowsLater ==
  ASSUME UNCHANGED disk,
         \E c \in PlanCycles, i \in 0..Len(disk.plan) :
           OfRun(disk.run)' = Behind(disk.run, disk.plan, c, i)
  PROVE  Follows(disk.run, disk.plan)'
BY DiskFollowsThen

-----------------------------------------------------------------------------
(* A check that ends                                                        *)

\* What PlanInv says of a session in the middle of a check.
LEMMA InCheck ==
  ASSUME PlanInv, pc \in {"check", "commit"}, index < Len(plan)
  PROVE  /\ run \in Sessions /\ session \in Sessions /\ run <= session
         /\ plan \in Seq(Checks) /\ index \in Nat /\ index + 1 \in DOMAIN plan
         /\ cycle \in Nat \ {0} /\ cycle \in PlanCycles
         /\ Behind(run, plan, cycle, index) \subseteq ran
<1>1. SuiteTypeOK /\ RunsExist
  BY DEF PlanInv, ProgressInv, TypeInv, TypeOK
<1>2. /\ run \in Sessions /\ session \in Sessions
      /\ plan \in Seq(Checks) /\ index \in Nat /\ cycle \in Nat \ {0}
  BY <1>1 DEF SuiteTypeOK, RunsExist
<1>3. cycles \in CycleCounts /\ cycle <= cycles /\ run <= session
  BY DEF PlanInv, Chosen, WithinCycles, Checking, Numbered
<1>4. cycle \in PlanCycles
  BY <1>2, <1>3, CyclesReached
<1>5. Position = index
  BY DEF Position, PlanInv, ProgressInv, Phase
<1>6. Behind(run, plan, cycle, index) \subseteq ran
  BY <1>5 DEF PlanInv, ProgressInv, NothingSkipped
<1>7. index + 1 \in DOMAIN plan
  BY <1>2
<1>8. QED BY <1>2, <1>3, <1>4, <1>6, <1>7

LEMMA EndCheckFollows ==
  ASSUME PlanInv, pc \in {"check", "commit"}, index < Len(plan),
         NEW made, EndCheck(made), UNCHANGED runRest
  PROVE  PlanParts' /\ Promise!Attempt
<1> DEFINE e == <<run, cycle, plan[index + 1]>>
<1>1. /\ pc' = "save" /\ index' = index /\ disk' = disk /\ run' = run /\ plan' = plan
      /\ cycle' = cycle /\ cycles' = cycles /\ converged' = converged
      /\ report' = report /\ session' = session
  BY DEF EndCheck, runRest, optVars, cycleVars
<1>2. ran' = {x \in ran : x[1] \in {run, disk.run}} \union {e}
  BY DEF EndCheck, Current
<1>3. /\ run \in Sessions /\ session \in Sessions /\ run <= session
      /\ plan \in Seq(Checks) /\ index \in Nat /\ index + 1 \in DOMAIN plan
      /\ cycle \in Nat \ {0} /\ cycle \in PlanCycles
      /\ Behind(run, plan, cycle, index) \subseteq ran
  BY InCheck
<1>4. Chosen' /\ SamePlan' /\ WithinCycles'
  BY <1>1 DEF PlanInv, Chosen, SamePlan, WithinCycles, Checking
<1>5. Numbered'
  <2>1. \A x \in ran' : x[1] <= session
    BY <1>2, <1>3 DEF PlanInv, Numbered
  <2>2. QED BY <1>1, <2>1 DEF PlanInv, Numbered
<1>6. Follows(run, plan)'
  <2>1. PICK c \in PlanCycles, i \in 0..Len(plan) : OfRun(run) = Behind(run, plan, c, i)
    BY DEF PlanInv, OnPlan, Follows
  <2>2. Behind(run, plan, cycle, index) \subseteq OfRun(run)
    BY <1>3, BehindOfRun DEF OfRun
  <2>3. OfRun(run)' = OfRun(run) \union {e}
    BY <1>1, <1>2 DEF OfRun
  <2>4. c \in Nat \ {0}
    BY CyclesAreNumbers
  <2>5. OfRun(run)' \in {Behind(run, plan, c, i), Behind(run, plan, cycle, index + 1)}
    BY <1>3, <2>1, <2>2, <2>3, <2>4, OneMoreFollows
  <2>6. index + 1 \in 0..Len(plan)
    BY <1>3
  <2>7. \E k \in PlanCycles, m \in 0..Len(plan) : OfRun(run)' = Behind(run, plan, k, m)
    BY <1>3, <2>5, <2>6
  <2>8. QED BY <1>1, <2>7, FollowsLater
<1>7. disk # NoCheckpoint => Follows(disk.run, disk.plan)'
  <2>1. SUFFICES ASSUME disk # NoCheckpoint PROVE Follows(disk.run, disk.plan)'
    OBVIOUS
  <2>2. CASE disk.run = run
    <3>1. disk.plan = plan
      BY <2>2, <1>1 DEF PlanInv, SamePlan
    <3>2. \E c \in PlanCycles, i \in 0..Len(plan) : OfRun(run)' = Behind(run, plan, c, i)
      BY <1>1, <1>6, FollowsThen
    <3>3. OfRun(disk.run)' = OfRun(run)'
      BY <1>1, <2>2 DEF OfRun
    <3>4. QED BY <1>1, <2>2, <3>1, <3>2, <3>3, DiskFollowsLater
  <2>3. CASE disk.run # run
    <3>1. OfRun(disk.run)' = OfRun(disk.run)
      BY <1>1, <1>2, <2>3 DEF OfRun
    <3>2. PICK c \in PlanCycles, i \in 0..Len(disk.plan) :
            OfRun(disk.run) = Behind(disk.run, disk.plan, c, i)
      BY <2>1 DEF PlanInv, OnPlan, Follows
    <3>3. QED BY <1>1, <3>1, <3>2, DiskFollowsLater
  <2>4. QED BY <2>2, <2>3
<1>8. OnPlan'
  BY <1>1, <1>6, <1>7 DEF OnPlan
<1>9. Promise!Attempt
  <2> DEFINE others == {disk.run} \cap Sessions
  <2>1. ran' = {x \in ran : x[1] \in others \union {run}} \union {e}
    <3>1. \A x \in ran : x[1] \in Sessions
      BY DEF PlanInv, ProgressInv, TypeInv, TypeOK, HistoryTypeOK
    <3>2. QED BY <1>2, <3>1
  <2>2. Promise!Before(run, plan, cycle, (index + 1) - 1) \subseteq ran
    BY <1>3, PromiseBefore
  <2>3. others \in SUBSET Sessions /\ run # 0
    BY <1>3 DEF Sessions
  <2>4. cycle \in UNION {1..n : n \in CycleCounts} /\ index + 1 \in DOMAIN plan
    BY <1>3 DEF PlanCycles
  <2>5. pc # "off" /\ pc' # "off" /\ report' = report /\ run' = run /\ plan' = plan
    BY <1>1
  <2> DEFINE current == IF pc = "off" THEN 0 ELSE run
             path    == IF pc = "off" THEN <<>> ELSE plan
  <2>6. current = run /\ path = plan
    BY <2>5
  <2>7. UNCHANGED <<current, path, report.kind = "done">>
    BY <2>5
  <2>8. \E c \in UNION {1..n : n \in CycleCounts}, i \in DOMAIN path :
          /\ <<current, c, path[i]>> \in ran'
          /\ Promise!Before(current, path, c, i - 1) \subseteq ran
          /\ \E s \in SUBSET Sessions :
               ran' = {x \in ran : x[1] \in s \union {current}} \union {<<current, c, path[i]>>}
    <3> HIDE DEF current, path, others
    <3>1. <<current, cycle, path[index + 1]>> = e
      BY <2>6
    <3>2. ran' = {x \in ran : x[1] \in others \union {current}}
                 \union {<<current, cycle, path[index + 1]>>}
      BY <2>1, <2>6, <3>1
    <3>3. <<current, cycle, path[index + 1]>> \in ran'
      BY <3>2
    <3>4. Promise!Before(current, path, cycle, (index + 1) - 1) \subseteq ran
      BY <2>2, <2>6
    <3>5. index + 1 \in DOMAIN path
      BY <2>4, <2>6
    <3>6. QED BY <2>3, <2>4, <3>2, <3>3, <3>4, <3>5
  <2>9. current # 0
    BY <2>3, <2>5
  <2>10. QED BY <2>7, <2>8, <2>9, Zenon DEF Promise!Attempt
<1>10. QED BY <1>4, <1>5, <1>8, <1>9 DEF PlanParts

-----------------------------------------------------------------------------
(* The steps of the promise                                                 *)

\* A session starts on a run that has followed its plan so far.
LEMMA OpensPromise ==
  ASSUME pc = "off", pc' # "off", run' \in Sessions, plan' \in Selections,
         ran' = ran, report'.kind # "done",
         \E c \in PlanCycles, i \in 0..Len(plan') : OfRun(run') = Behind(run', plan', c, i)
  PROVE  Promise!Open
<1> DEFINE current == IF pc = "off" THEN 0 ELSE run
           path    == IF pc = "off" THEN <<>> ELSE plan
<1>1. current = 0 /\ current' = run' /\ path' = plan'
  OBVIOUS
<1>2. (report.kind = "done")' = FALSE
  OBVIOUS
<1>3. PICK c \in PlanCycles, i \in 0..Len(plan') : OfRun(run') = Behind(run', plan', c, i)
  OBVIOUS
<1>4. Promise!FollowsPlan(run', plan')
  <2>1. {x \in ran : x[1] = run'} = Promise!Before(run', plan', c, i)
    BY <1>3, PromiseBefore DEF OfRun
  <2>2. c \in UNION {1..n : n \in CycleCounts}
    BY DEF PlanCycles
  <2>3. QED BY <2>1, <2>2 DEF Promise!FollowsPlan
<1>5. \E r \in Sessions, p \in Selections :
        Promise!FollowsPlan(r, p) /\ current' = r /\ path' = p
  <2> HIDE DEF current, path
  <2> QED BY <1>1, <1>4
<1>6. QED BY <1>1, <1>2, <1>5, Zenon DEF Promise!Open

\* A session is over, and says nothing new.
LEMMA ClosesPromise ==
  ASSUME pc # "off", pc' = "off", run # 0, ran' = ran,
         report.kind # "done", report'.kind # "done"
  PROVE  Promise!Close
<1>1. (IF pc = "off" THEN 0 ELSE run) # 0 /\ (IF pc = "off" THEN 0 ELSE run)' = 0
  OBVIOUS
<1>2. (IF pc = "off" THEN <<>> ELSE plan)' = <<>>
  OBVIOUS
<1>3. UNCHANGED (report.kind = "done")
  OBVIOUS
<1>4. QED BY <1>1, <1>2, <1>3, Zenon DEF Promise!Close

\* A session is over and reported complete.
LEMMA CompletesPromise ==
  ASSUME pc # "off", pc' = "off", run # 0, ran' = ran, report'.kind = "done",
         \E c \in PlanCycles : Behind(run, plan, c, Len(plan)) \subseteq ran
  PROVE  Promise!Complete
<1> DEFINE current == IF pc = "off" THEN 0 ELSE run
           path    == IF pc = "off" THEN <<>> ELSE plan
<1>1. current = run /\ current' = 0 /\ path = plan /\ path' = <<>>
  OBVIOUS
<1>2. (report.kind = "done")' = TRUE
  OBVIOUS
<1>3. \E c \in UNION {1..n : n \in CycleCounts} :
        Promise!Before(current, path, c, Len(path)) \subseteq ran
  <2>1. PICK c \in PlanCycles : Behind(run, plan, c, Len(plan)) \subseteq ran
    OBVIOUS
  <2>2. c \in UNION {1..n : n \in CycleCounts}
    BY DEF PlanCycles
  <2>3. Promise!Before(run, plan, c, Len(plan)) \subseteq ran
    BY <2>1, PromiseBefore
  <2> HIDE DEF current, path
  <2>4. QED BY <1>1, <2>2, <2>3
<1>4. current # 0
  OBVIOUS
<1>5. QED BY <1>1, <1>2, <1>3, <1>4, Zenon DEF Promise!Complete

\* A step the promise does not see.
LEMMA StuttersPromise ==
  ASSUME pc = "off" <=> pc' = "off", pc # "off" => UNCHANGED <<run, plan>>,
         ran' = ran, report.kind = "done" <=> report'.kind = "done"
  PROVE  UNCHANGED Promise!planVars
<1>1. UNCHANGED (IF pc = "off" THEN 0 ELSE run)
  OBVIOUS
<1>2. UNCHANGED (IF pc = "off" THEN <<>> ELSE plan)
  OBVIOUS
<1>3. UNCHANGED (report.kind = "done")
  OBVIOUS
<1>4. QED BY <1>1, <1>2, <1>3 DEF Promise!planVars

\* The operator has seen the report.
LEMMA AcknowledgesPromise ==
  ASSUME pc = "off", pc' = "off", ran' = ran, report.kind = "done", report'.kind # "done"
  PROVE  Promise!Acknowledge
<1>1. UNCHANGED (IF pc = "off" THEN 0 ELSE run)
  OBVIOUS
<1>2. UNCHANGED (IF pc = "off" THEN <<>> ELSE plan)
  OBVIOUS
<1>3. (report.kind = "done") = TRUE /\ (report.kind = "done")' = FALSE
  OBVIOUS
<1>4. QED BY <1>1, <1>2, <1>3, Zenon DEF Promise!Acknowledge

-----------------------------------------------------------------------------
(* The steps of a session                                                   *)

Kept == Promise!PlanNext \/ UNCHANGED Promise!planVars

\* A step inside a session that moves neither the run nor the checkpoint.
LEMMA InsideKeeps ==
  ASSUME PlanInv, pc # "off", pc' # "off",
         UNCHANGED <<disk, ran, run, plan, cycles, report, session>>, WithinCycles'
  PROVE  PlanParts' /\ Kept
<1>1. Chosen' /\ Numbered' /\ SamePlan'
  BY DEF PlanInv, Chosen, Numbered, SamePlan
<1>2. OnPlan'
  BY FollowsThen, DiskFollowsThen DEF PlanInv, OnPlan, Follows, OfRun
<1>3. QED BY <1>1, <1>2, StuttersPromise DEF PlanParts, Kept

\* The end of a session, whatever it reports.
LEMMA EndsParts ==
  ASSUME PlanInv, pc' = "off", disk' \in {disk, NoCheckpoint}, UNCHANGED <<ran, session>>
  PROVE  PlanParts'
<1>1. Chosen' /\ Numbered' /\ SamePlan' /\ WithinCycles'
  BY DEF PlanInv, Chosen, Numbered, SamePlan, WithinCycles, Checking
<1>2. CASE disk' = NoCheckpoint
  BY <1>1, <1>2 DEF PlanParts, OnPlan
<1>3. CASE disk' = disk
  <2>1. disk' # NoCheckpoint => Follows(disk.run, disk.plan)'
    BY <1>3, DiskFollowsThen DEF PlanInv, OnPlan, Follows, OfRun
  <2>2. QED BY <1>1, <2>1 DEF PlanParts, OnPlan
<1>4. QED BY <1>2, <1>3

LEMMA RunIsNumbered ==
  ASSUME PlanInv, pc # "off"
  PROVE  run \in Sessions /\ run # 0
BY DEF PlanInv, ProgressInv, TypeInv, RunsExist, Sessions

\* A run that starts has been through nothing.
LEMMA FreshKeeps ==
  ASSUME PlanInv, NEW selected \in Selections, NEW n \in CycleCounts, NEW d,
         Launch(selected, n, d), BuildFreshState, disk' \in {disk, NoCheckpoint}
  PROVE  PlanParts' /\ Kept
<1>1. /\ pc = "off" /\ pc' \in {"attach", "cycle"} /\ plan' = selected /\ cycles' = n
      /\ report' = NoReport /\ ran' = ran /\ run' = session + 1 /\ session' = session + 1
      /\ session < MaxSessions
  BY DEF Launch, FirstStep, BuildFreshState, ghostVars
<1>2. session \in Nat /\ session' \in Sessions
  BY <1>1, SuiteAssumption DEF PlanInv, ProgressInv, TypeInv, TypeOK, HistoryTypeOK, Sessions
<1>3. \A x \in ran : x[1] \in Nat
  BY DEF PlanInv, ProgressInv, TypeInv, TypeOK, HistoryTypeOK, Sessions
<1>4. disk # NoCheckpoint => disk.run \in Sessions /\ disk.run <= session
  BY DEF PlanInv, ProgressInv, TypeInv, RunsExist, Numbered
<1>5. Chosen' /\ WithinCycles'
  BY <1>1 DEF PlanInv, Chosen, WithinCycles, Checking, NoReport
<1>6. Numbered'
  BY <1>1, <1>2, <1>3, <1>4 DEF PlanInv, Numbered, Sessions
<1>7. disk'.run # run'
  <2>1. NoCheckpoint.run = 0
    BY DEF NoCheckpoint
  <2>2. disk.run # session + 1
    BY <1>2, <1>4, <2>1 DEF Sessions
  <2>3. QED BY <1>1, <1>2, <2>1, <2>2
<1>8. SamePlan'
  BY <1>7 DEF SamePlan
<1>9. \E c \in PlanCycles, i \in 0..Len(plan') : OfRun(run') = Behind(run', plan', c, i)
  <2>1. OfRun(run') = {}
    BY <1>1, <1>2, <1>3 DEF OfRun, PlanInv, Numbered
  <2>2. Behind(run', plan', 1, 0) = {}
    BY BehindStart
  <2>3. 1 \in PlanCycles
    BY CyclesReached, SuiteAssumption
  <2>4. 0 \in 0..Len(plan')
    BY <1>1, SuiteAssumption
  <2>5. QED BY <2>1, <2>2, <2>3, <2>4
<1>10. Follows(run, plan)'
  BY <1>1, <1>9, FollowsThen DEF OfRun
<1>11. disk' # NoCheckpoint => Follows(disk.run, disk.plan)'
  BY <1>1, DiskFollowsThen DEF PlanInv, OnPlan, Follows, OfRun
<1>12. Promise!Open
  <2>1. run' \in Sessions /\ plan' \in Selections /\ report'.kind # "done"
    BY <1>1, <1>2 DEF NoReport
  <2>2. QED BY <1>1, <1>9, <2>1, OpensPromise
<1>13. QED BY <1>5, <1>6, <1>8, <1>10, <1>11, <1>12 DEF PlanParts, OnPlan, Kept, Promise!PlanNext

\* A run that is resumed has followed the plan of its checkpoint.
LEMMA ResumedKeeps ==
  ASSUME PlanInv, StartResumed
  PROVE  PlanParts' /\ Kept
<1>1. LoadCheckpoint = disk /\ disk # NoCheckpoint
  BY DEF StartResumed, LoadCheckpoint
<1>2. PICK selected \in Selections, n \in CycleCounts :
        /\ CheckpointMatches(selected) /\ Launch(selected, n, FALSE)
        /\ BuildResumedState(disk) /\ disk' = disk
  BY <1>1 DEF StartResumed
<1>3. /\ pc = "off" /\ pc' \in {"attach", "cycle"} /\ plan' = selected /\ cycles' = n
      /\ report' = NoReport /\ ran' = ran /\ run' = disk.run /\ session' = session + 1
      /\ disk.plan = selected /\ session < MaxSessions
  BY <1>1, <1>2 DEF Launch, FirstStep, BuildResumedState, CheckpointMatches, ghostVars
<1>4. disk.run \in Sessions /\ disk.run <= session /\ session \in Nat
  BY <1>1 DEF PlanInv, ProgressInv, TypeInv, TypeOK, HistoryTypeOK, RunsExist, Numbered
<1>5. \A x \in ran : x[1] \in Nat
  BY DEF PlanInv, ProgressInv, TypeInv, TypeOK, HistoryTypeOK, Sessions
<1>6. Chosen' /\ WithinCycles' /\ SamePlan'
  BY <1>2, <1>3 DEF PlanInv, Chosen, WithinCycles, Checking, SamePlan, NoReport
<1>7. Numbered'
  BY <1>2, <1>3, <1>4, <1>5 DEF PlanInv, Numbered, Sessions
<1>8. \E c \in PlanCycles, i \in 0..Len(disk.plan) :
        OfRun(disk.run) = Behind(disk.run, disk.plan, c, i)
  BY <1>1 DEF PlanInv, OnPlan, Follows
<1>9. Follows(run, plan)'
  BY <1>3, <1>8, FollowsThen DEF OfRun
<1>10. Follows(disk.run, disk.plan)'
  BY <1>2, <1>3, <1>8, DiskFollowsThen DEF OfRun
<1>11. Promise!Open
  <2>1. run' \in Sessions /\ plan' \in Selections /\ report'.kind # "done"
    BY <1>3, <1>4 DEF NoReport
  <2>2. \E c \in PlanCycles, i \in 0..Len(plan') : OfRun(run') = Behind(run', plan', c, i)
    BY <1>3, <1>8
  <2>3. QED BY <1>3, <2>1, <2>2, OpensPromise
<1>12. QED BY <1>6, <1>7, <1>9, <1>10, <1>11 DEF PlanParts, OnPlan, Kept, Promise!PlanNext

\* The end of a run is the end of whole cycles.
LEMMA FinishKeeps ==
  ASSUME PlanInv, Finish
  PROVE  PlanParts' /\ Kept
<1>1. /\ pc = "clear" /\ pc' = "off" /\ disk' \in {disk, NoCheckpoint}
      /\ UNCHANGED <<ran, session>> /\ report'.kind = "done"
  BY DEF Finish, ProcessEnds, ClearCheckpoint, Summary, ghostVars
<1>2. PlanParts'
  BY <1>1, EndsParts
<1>3. run \in Sessions /\ run # 0
  BY <1>1, RunIsNumbered
<1>4. /\ plan \in Seq(Checks) /\ cycle \in Nat \ {0} /\ cycles \in Nat \ {0} /\ index \in Nat
      /\ cycles \in CycleCounts
  BY <1>1, SuiteAssumption
  DEF PlanInv, ProgressInv, TypeInv, TypeOK, SuiteTypeOK, Chosen
<1>5. \E c \in PlanCycles : Behind(run, plan, c, Len(plan)) \subseteq ran
  <2>1. CASE converged = "no"
    <3>1. cycle > cycles /\ Position = 0
      BY <1>1, <2>1 DEF PlanInv, ProgressInv, LoopLeft, Position
    <3>2. Behind(run, plan, cycle, 0) \subseteq ran
      BY <1>1, <3>1 DEF PlanInv, ProgressInv, NothingSkipped
    <3>3. Behind(run, plan, cycles, Len(plan)) \subseteq Behind(run, plan, cycle, 0)
      <4>1. cycles \in 1..(cycle - 1) /\ 1..Len(plan) = DOMAIN plan
        BY <1>4, <3>1
      <4>2. \A k \in 1..(cycles - 1) : k \in 1..(cycle - 1)
        BY <1>4, <3>1
      <4>3. QED BY <4>1, <4>2 DEF Behind
    <3>4. cycles \in PlanCycles
      BY <1>4, CyclesReached
    <3>5. QED BY <3>2, <3>3, <3>4
  <2>2. CASE converged # "no"
    <3>1. index >= Len(plan) /\ Position = index /\ cycle <= cycles
      BY <1>1, <2>2 DEF PlanInv, ProgressInv, LoopLeft, Position, WithinCycles, Checking
    <3>2. Behind(run, plan, cycle, index) \subseteq ran
      BY <1>1, <3>1 DEF PlanInv, ProgressInv, NothingSkipped
    <3>3. Behind(run, plan, cycle, Len(plan)) \subseteq Behind(run, plan, cycle, index)
      BY <1>4, <3>1, BehindSmaller
    <3>4. cycle \in PlanCycles
      BY <1>4, <3>1, CyclesReached
    <3>5. QED BY <3>2, <3>3, <3>4
  <2>3. QED BY <2>1, <2>2
<1>6. Promise!Complete
  BY <1>1, <1>3, <1>5, CompletesPromise
<1>7. QED BY <1>2, <1>6 DEF Kept, Promise!PlanNext

\* Saving the checkpoint of the run in progress.
LEMMA SaveKeeps ==
  ASSUME PlanInv, SaveAfterCheck
  PROVE  PlanParts' /\ Kept
<1>1. /\ pc = "save" /\ pc' = "check" /\ cycle' = cycle
      /\ UNCHANGED <<ran, run, plan, cycles, report, session>>
  BY DEF SaveAfterCheck, optVars, cycleVars, ghostVars
<1>2. WithinCycles'
  BY <1>1 DEF PlanInv, WithinCycles, Checking
<1>3. CASE disk' = disk
  BY <1>1, <1>2, <1>3, InsideKeeps
<1>4. CASE disk' = BuildCheckpoint(index + 1, changed)
  <2>1. disk'.run = run /\ disk'.plan = plan
    BY <1>4 DEF BuildCheckpoint
  <2>2. Chosen' /\ Numbered' /\ SamePlan'
    BY <1>1, <2>1 DEF PlanInv, Chosen, Numbered, SamePlan
  <2>3. Follows(run, plan)' /\ Follows(disk.run, disk.plan)'
    BY <1>1, <2>1, FollowsThen, DiskFollowsThen DEF PlanInv, OnPlan, Follows, OfRun
  <2>4. Kept
    BY <1>1, StuttersPromise DEF Kept
  <2>5. QED BY <1>2, <2>2, <2>3, <2>4 DEF PlanParts, OnPlan
<1>5. QED BY <1>3, <1>4 DEF SaveAfterCheck, SaveCheckpoint

-----------------------------------------------------------------------------
(* All steps                                                                *)

LEMMA PlanInit == Init => PlanInv /\ Promise!PlanInit
<1> SUFFICES ASSUME Init PROVE PlanInv /\ Promise!PlanInit
  OBVIOUS
<1>1. pc = "off" /\ disk = NoCheckpoint /\ ran = {} /\ report = NoReport
  BY DEF Init, NoProcess
<1>2. Chosen /\ Numbered /\ SamePlan /\ WithinCycles /\ OnPlan
  BY <1>1 DEF Chosen, Numbered, SamePlan, WithinCycles, Checking, OnPlan
<1>3. (IF pc = "off" THEN 0 ELSE run) = 0 /\ (IF pc = "off" THEN <<>> ELSE plan) = <<>>
  BY <1>1
<1>4. (report.kind = "done") = FALSE
  BY <1>1 DEF NoReport
<1>5. Promise!PlanInit
  BY <1>1, <1>3, <1>4, Zenon DEF Promise!PlanInit
<1>6. QED BY <1>2, <1>5, ProgressInit DEF PlanInv

LEMMA PlanStep == PlanInv /\ Next => PlanInv' /\ Kept
<1> SUFFICES ASSUME PlanInv, Next PROVE PlanParts' /\ Kept
  BY ProgressStep DEF PlanInv, PlanParts
<1>1. CASE StartFresh
  <2>1. PICK selected \in Selections, n \in CycleCounts, d \in DryRuns :
          Launch(selected, n, d) /\ BuildFreshState /\ disk' = disk
    BY <1>1 DEF StartFresh
  <2>2. QED BY <2>1, FreshKeeps
<1>2. CASE StartAfterDiscarding
  <2>1. PICK selected \in Selections, n \in CycleCounts :
          Launch(selected, n, FALSE) /\ BuildFreshState /\ disk' \in {disk, NoCheckpoint}
    BY <1>2 DEF StartAfterDiscarding, ClearCheckpoint
  <2>2. QED BY <2>1, FreshKeeps
<1>3. CASE StartResumed
  BY <1>3, ResumedKeeps
<1>4. CASE Reattach \/ ForkScratch \/ Snapshot
  <2>1. /\ pc \in {"attach", "snapshot"} /\ pc' \in {"snapshot", "cycle"}
        /\ UNCHANGED <<disk, ran, run, plan, cycles, report, session>>
    BY <1>4 DEF Reattach, ForkScratch, Snapshot, suiteRest, optVars, ghostVars
  <2>2. WithinCycles'
    BY <2>1 DEF WithinCycles, Checking
  <2>3. QED BY <2>1, <2>2, InsideKeeps
<1>5. CASE BeginCycle
  <2>1. /\ pc = "cycle" /\ pc' = "check" /\ cycle <= cycles /\ cycle' = cycle
        /\ UNCHANGED <<disk, ran, run, plan, cycles, report, session>>
    BY <1>5 DEF BeginCycle, optVars, ghostVars
  <2>2. WithinCycles'
    BY <2>1 DEF WithinCycles, Checking
  <2>3. QED BY <2>1, <2>2, InsideKeeps
<1>6. CASE NoMoreCycles
  <2>1. /\ pc = "cycle" /\ pc' = "clear" /\ converged' = converged
        /\ UNCHANGED <<disk, ran, run, plan, cycles, report, session>>
    BY <1>6 DEF NoMoreCycles, suiteRest, optVars, ghostVars
  <2>2. WithinCycles'
    BY <2>1 DEF PlanInv, ProgressInv, Phase, WithinCycles, Checking
  <2>3. QED BY <2>1, <2>2, InsideKeeps
<1>7. CASE FinishCycle
  <2>1. /\ pc = "check" /\ pc' \in {"clear", "cycle"} /\ (pc' = "clear" => cycle' = cycle)
        /\ UNCHANGED <<disk, ran, run, plan, cycles, report, session>>
    BY <1>7 DEF FinishCycle, Converges, GoesOn, optVars, ghostVars
  <2>2. WithinCycles'
    BY <2>1 DEF PlanInv, WithinCycles, Checking
  <2>3. QED BY <2>1, <2>2, InsideKeeps
<1>8. CASE SkipCheck \/ PreviewCheck
  <2>1. /\ pc = "check" /\ index < Len(plan) /\ UNCHANGED runRest
        /\ \E made : EndCheck(made)
    BY <1>8 DEF SkipCheck, PreviewCheck
  <2>2. QED BY <2>1, EndCheckFollows DEF Kept, Promise!PlanNext
<1>9. CASE RunCheck
  <2>1. CASE EndCheck(FALSE)
    BY <1>9, <2>1, EndCheckFollows DEF RunCheck, Kept, Promise!PlanNext
  <2>2. CASE pc' \in {"commit", "memfix"} /\ UNCHANGED <<index, ran>>
    <3>1. /\ pc = "check" /\ cycle' = cycle
          /\ UNCHANGED <<disk, ran, run, plan, cycles, report, session>>
      BY <1>9, <2>2 DEF RunCheck, runRest, optVars, cycleVars
    <3>2. WithinCycles'
      BY <2>2, <3>1 DEF PlanInv, WithinCycles, Checking
    <3>3. QED BY <2>2, <3>1, <3>2, InsideKeeps
  <2>3. QED BY <1>9, <2>1, <2>2 DEF RunCheck
<1>10. CASE MemoryFix \/ CommitFix
  <2>1. /\ pc \in {"memfix", "commitfix"} /\ pc' \in {"commitfix", "commit"}
        /\ cycle' = cycle /\ UNCHANGED <<disk, ran, run, plan, cycles, report, session>>
    BY <1>10 DEF MemoryFix, CommitFix, runRest, optVars, cycleVars, ghostVars
  <2>2. WithinCycles'
    BY <2>1 DEF PlanInv, WithinCycles, Checking
  <2>3. QED BY <2>1, <2>2, InsideKeeps
<1>11. CASE CommitCheck
  <2>1. pc = "commit" /\ index < Len(plan) /\ UNCHANGED runRest
    BY <1>11 DEF PlanInv, ProgressInv, TypeInv, CheckChosen, CommitCheck
  <2>2. \E made : EndCheck(made)
    BY <1>11 DEF CommitCheck
  <2>3. QED BY <2>1, <2>2, EndCheckFollows DEF Kept, Promise!PlanNext
<1>12. CASE SaveAfterCheck
  BY <1>12, SaveKeeps
<1>13. CASE Finish
  BY <1>13, FinishKeeps
<1>14. CASE RefuseStaleBase \/ Interrupt \/ Kill
  <2>1. /\ pc # "off" /\ pc' = "off" /\ disk' = disk /\ UNCHANGED <<ran, session>>
        /\ (report' = report \/ report'.kind = "interrupted")
    BY <1>14 DEF RefuseStaleBase, Interrupt, Kill, ProcessEnds, survives, ghostVars, Summary
  <2>2. PlanParts'
    BY <2>1, EndsParts
  <2>3. run # 0 /\ report.kind # "done" /\ report'.kind # "done"
    BY <2>1, RunIsNumbered DEF PlanInv, Chosen
  <2>4. QED BY <2>1, <2>2, <2>3, ClosesPromise DEF Kept, Promise!PlanNext
<1>15. CASE OperatorEdits \/ OperatorSwitches \/ OperatorDeletesScratch
  <2>1. /\ pc = "off" /\ pc' = "off" /\ disk' = disk /\ UNCHANGED <<ran, session>>
        /\ report'.kind # "done"
    BY <1>15 DEF OperatorEdits, OperatorSwitches, OperatorDeletesScratch, operatorRest,
                 survives, processVars, ghostVars, NoReport
  <2>2. PlanParts'
    BY <2>1, EndsParts
  <2>3. CASE report.kind = "done"
    BY <2>1, <2>2, <2>3, AcknowledgesPromise DEF Kept, Promise!PlanNext
  <2>4. CASE report.kind # "done"
    BY <2>1, <2>2, <2>4, StuttersPromise DEF Kept
  <2>5. QED BY <2>3, <2>4
<1>16. QED BY <1>1, <1>2, <1>3, <1>4, <1>5, <1>6, <1>7, <1>8, <1>9, <1>10, <1>11, <1>12,
              <1>13, <1>14, <1>15 DEF Next, SessionStep

LEMMA PlanStutter == PlanInv /\ UNCHANGED vars => PlanInv' /\ UNCHANGED Promise!planVars
<1> SUFFICES ASSUME PlanInv, UNCHANGED vars PROVE PlanInv' /\ UNCHANGED Promise!planVars
  OBVIOUS
<1>1. UNCHANGED <<pc, disk, ran, run, plan, cycle, cycles, converged, report, session>>
  BY DEF vars, optVars, cycleVars, ghostVars
<1>2. Chosen' /\ Numbered' /\ SamePlan' /\ WithinCycles'
  BY <1>1 DEF PlanInv, Chosen, Numbered, SamePlan, WithinCycles, Checking
<1>3. OnPlan'
  BY <1>1, FollowsThen, DiskFollowsThen DEF PlanInv, OnPlan, Follows, OfRun
<1>4. UNCHANGED Promise!planVars
  BY <1>1, StuttersPromise
<1>5. QED BY <1>2, <1>3, <1>4, ProgressStutter DEF PlanInv

THEOREM PlanInvariance == Spec => []PlanInv
<1>1. Init => PlanInv
  BY PlanInit
<1>2. PlanInv /\ [Next]_vars => PlanInv'
  BY PlanStep, PlanStutter
<1>3. QED BY <1>1, <1>2, PTL DEF Spec

\* Suite implements CheckPlan: a run goes through its plan in order, stopped and
\* resumed however often, passes over no check, and is done only after whole cycles.
THEOREM SuiteKeepsPromise == Spec => KeepsPromise
<1>1. Init => Promise!PlanInit
  BY PlanInit
<1>2. PlanInv /\ [Next]_vars => [Promise!PlanNext]_(Promise!planVars)
  BY PlanStep, PlanStutter DEF Kept
<1>3. QED BY <1>1, <1>2, PlanInvariance, PTL DEF Spec, KeepsPromise, Promise!PlanSpec

-----------------------------------------------------------------------------
(* What a cycle is remembered by                                           *)

\* The session is in the middle of a cycle.
InCycle == pc \in Checking

-----------------------------------------------------------------------------
(* The report                                                               *)

\* Outcomes are collected when a cycle is over.
Counted == completed = outcomes + (IF InCycle THEN cycleOutcomes ELSE 0)

ReportInv == ProgressInv /\ Counted /\ DoneReportsEverything

LEMMA ReportInit == Init => ReportInv
BY ProgressInit DEF Init, NoProcess, NoReport, ReportInv, Counted, InCycle, DoneReportsEverything, Checking

\* The end of a check is one outcome more.
LEMMA EndCheckReport ==
  ASSUME ReportInv, pc \in {"check", "commit"},
         NEW made, EndCheck(made), UNCHANGED runRest
  PROVE  (Counted /\ DoneReportsEverything)'
<1>1. /\ pc' = "save" /\ outcomes' = outcomes /\ report' = report
      /\ completed' = completed + 1 /\ cycleOutcomes' = cycleOutcomes + 1
  BY DEF EndCheck, runRest
<1>2. completed \in Nat /\ outcomes \in Nat /\ cycleOutcomes \in Nat
  BY DEF ReportInv, ProgressInv, TypeInv, TypeOK, SuiteTypeOK
<1>3. QED BY <1>1, <1>2 DEF ReportInv, Counted, InCycle, DoneReportsEverything, Checking

\* A step that counts nothing.
LEMMA StillReport ==
  ASSUME ReportInv, UNCHANGED <<completed, outcomes, report, cycleOutcomes>>, InCycle <=> InCycle'
  PROVE  (Counted /\ DoneReportsEverything)'
BY DEF ReportInv, Counted, InCycle, DoneReportsEverything, Checking

LEMMA ReportStep == ReportInv /\ Next => ReportInv'
<1> SUFFICES ASSUME ReportInv, Next PROVE (Counted /\ DoneReportsEverything)'
  BY ProgressStep DEF ReportInv
<1>0. completed \in Nat /\ outcomes \in Nat /\ cycleOutcomes \in Nat
  BY DEF ReportInv, ProgressInv, TypeInv, TypeOK, SuiteTypeOK
<1>1. CASE StartFresh \/ StartAfterDiscarding \/ StartResumed
  <2>1. /\ pc = "off" /\ pc' \in {"attach", "cycle"} /\ report' = NoReport
        /\ UNCHANGED <<completed, outcomes>>
    BY <1>1 DEF StartFresh, StartAfterDiscarding, StartResumed, Launch, FirstStep, outcomeVars
  <2>2. QED BY <2>1 DEF ReportInv, Counted, InCycle, DoneReportsEverything, NoReport, Checking
<1>2. CASE Reattach \/ ForkScratch \/ Snapshot \/ NoMoreCycles
  BY <1>2, StillReport
  DEF Reattach, ForkScratch, Snapshot, NoMoreCycles, suiteRest, outcomeVars, InCycle, Checking
<1>3. CASE BeginCycle
  <2>1. /\ pc = "cycle" /\ pc' = "check" /\ cycleOutcomes' = 0
        /\ UNCHANGED <<completed, outcomes, report>>
    BY <1>3 DEF BeginCycle
  <2>2. QED BY <1>0, <2>1 DEF ReportInv, Counted, InCycle, DoneReportsEverything, Checking
<1>4. CASE FinishCycle
  <2>1. /\ pc = "check" /\ pc' \in {"clear", "cycle"} /\ outcomes' = outcomes + cycleOutcomes
        /\ UNCHANGED <<completed, report>>
    BY <1>4 DEF FinishCycle, Converges, GoesOn
  <2>2. QED BY <1>0, <2>1 DEF ReportInv, Counted, InCycle, DoneReportsEverything, Checking
<1>5. CASE SkipCheck \/ PreviewCheck \/ CommitCheck
  <2>1. pc \in {"check", "commit"} /\ UNCHANGED runRest /\ \E made : EndCheck(made)
    BY <1>5 DEF SkipCheck, PreviewCheck, CommitCheck
  <2>2. QED BY <2>1, EndCheckReport
<1>6. CASE RunCheck
  <2>1. CASE EndCheck(FALSE)
    BY <1>6, <2>1, EndCheckReport DEF RunCheck
  <2>2. CASE pc' \in {"commit", "memfix"} /\ UNCHANGED <<cycleOutcomes, completed>>
    BY <1>6, <2>2, StillReport DEF RunCheck, runRest, InCycle, Checking
  <2>3. QED BY <1>6, <2>1, <2>2 DEF RunCheck
<1>7. CASE MemoryFix \/ CommitFix
  BY <1>7, StillReport DEF MemoryFix, CommitFix, runRest, InCycle, Checking
<1>8. CASE SaveAfterCheck
  BY <1>8, StillReport DEF SaveAfterCheck, outcomeVars, InCycle, Checking
<1>9. CASE Finish
  <2>1. pc = "clear" /\ pc' = "off" /\ report' = Summary("done") /\ completed' = 0 /\ outcomes' = 0
    BY <1>9 DEF Finish, ProcessEnds
  <2>2. completed = outcomes
    BY <1>0, <2>1 DEF ReportInv, Counted, InCycle, Checking
  <2>3. QED BY <1>0, <2>1, <2>2 DEF Counted, InCycle, DoneReportsEverything, Summary, Checking
<1>10. CASE RefuseStaleBase \/ Interrupt \/ Kill
  <2>1. /\ pc' = "off" /\ completed' = 0 /\ outcomes' = 0
        /\ (report' = report \/ report'.kind = "interrupted")
    BY <1>10 DEF RefuseStaleBase, Interrupt, Kill, ProcessEnds, Summary
  <2>2. QED BY <2>1 DEF ReportInv, Counted, InCycle, DoneReportsEverything, Checking
<1>11. CASE OperatorEdits \/ OperatorSwitches \/ OperatorDeletesScratch
  <2>1. /\ pc = "off" /\ pc' = "off" /\ report' = NoReport
        /\ UNCHANGED <<completed, outcomes>>
    BY <1>11 DEF OperatorEdits, OperatorSwitches, OperatorDeletesScratch, operatorRest,
                 processVars, outcomeVars
  <2>2. QED BY <2>1 DEF ReportInv, Counted, InCycle, DoneReportsEverything, NoReport, Checking
<1>12. QED BY <1>1, <1>2, <1>3, <1>4, <1>5, <1>6, <1>7, <1>8, <1>9, <1>10, <1>11
           DEF Next, SessionStep

\* A session that is reported complete has summed up every check it completed.
THEOREM ReportsAreWhole == Spec => []DoneReportsEverything
<1>1. ReportInv /\ UNCHANGED vars => ReportInv'
  <2> SUFFICES ASSUME ReportInv, UNCHANGED vars PROVE ReportInv'
    OBVIOUS
  <2>1. UNCHANGED <<pc, completed, outcomes, cycleOutcomes, report>>
    BY DEF vars, outcomeVars
  <2>2. QED BY <2>1, StillReport, ProgressStutter DEF ReportInv, InCycle, Checking
<1>2. ReportInv => DoneReportsEverything
  BY DEF ReportInv
<1>3. QED BY <1>1, <1>2, ReportInit, ReportStep, PTL DEF Spec

-----------------------------------------------------------------------------
(* The checks that changed something                                        *)

\* A resumed position, and a checkpoint, name only checks that ran in their cycle.
ChangedRan ==
  /\ resume.active => \A c \in resume.changed : <<run, cycle, c>> \in ran
  /\ \A c \in disk.changed : <<disk.run, disk.cycle, c>> \in ran

ChangedParts == ChangedRan /\ ChangedIsOfThisCycle

ChangedInv == ProgressInv /\ ChangedParts

LEMMA ChangedInit == Init => ChangedInv
BY ProgressInit
DEF Init, NoProcess, NoCheckpoint, NotResuming, ChangedInv, ChangedParts, ChangedRan,
    ChangedIsOfThisCycle, Checking

\* The end of a check: it is marked if the session saw commits of it.
LEMMA EndCheckChanged ==
  ASSUME ChangedInv, pc \in {"check", "commit"}, index < Len(plan),
         NEW made, EndCheck(made), UNCHANGED runRest,
         \/ landed' = landed
         \/ made /\ landed' = landed \union {Current}
  PROVE  ChangedParts'
<1>1. /\ UNCHANGED <<disk, run, cycle, resume, session>> /\ pc' = "save"
      /\ <<run, cycle, Current>> \in ran'
      /\ \A x \in ran : x[1] \in {run, disk.run} => x \in ran'
      /\ changed' = IF made THEN changed \union {Current} ELSE changed
  BY DEF EndCheck, runRest, cycleVars
<1>2. ~resume.active
  BY DEF ChangedInv, ProgressInv, Phase
<1>3. ChangedRan'
  BY <1>1, <1>2 DEF ChangedInv, ChangedParts, ChangedRan
<1>4. \A c \in changed' : <<run, cycle, c>> \in ran'
  BY <1>1 DEF ChangedInv, ChangedParts, ChangedIsOfThisCycle, Checking
<1>5. landed' \subseteq changed'
  BY <1>1 DEF ChangedInv, ChangedParts, ChangedIsOfThisCycle, Checking
<1>6. QED BY <1>1, <1>3, <1>4, <1>5 DEF ChangedParts, ChangedIsOfThisCycle, Checking

\* A step that remembers nothing new, inside or outside a cycle.
LEMMA StillChanged ==
  ASSUME ChangedInv, pc # "off",
         UNCHANGED <<disk, run, resume, session, ran, landed>>, resume.active => cycle' = cycle,
         InCycle' => InCycle /\ UNCHANGED <<cycle, changed>>
  PROVE  ChangedParts'
<1>1. ChangedRan'
  BY DEF ChangedInv, ChangedParts, ChangedRan
<1>2. ChangedIsOfThisCycle'
  BY DEF ChangedInv, ChangedParts, ChangedIsOfThisCycle, InCycle, Checking
<1>3. QED BY <1>1, <1>2 DEF ChangedParts

LEMMA ChangedStep == ChangedInv /\ Next => ChangedInv'
<1> SUFFICES ASSUME ChangedInv, Next PROVE ChangedParts'
  BY ProgressStep DEF ChangedInv
<1>1. ASSUME NEW selected, NEW n, NEW d, Launch(selected, n, d),
             disk' \in {disk, NoCheckpoint},
             \/ BuildFreshState
             \/ BuildResumedState(disk)
      PROVE  ChangedParts'
  <2>1. pc' \in {"attach", "cycle"} /\ ran' = ran
    BY <1>1 DEF Launch, FirstStep, ghostVars
  <2>2. ChangedIsOfThisCycle'
    BY <2>1 DEF ChangedIsOfThisCycle, Checking
  <2>3. \A c \in disk'.changed : <<disk'.run, disk'.cycle, c>> \in ran'
    BY <1>1, <2>1 DEF ChangedInv, ChangedParts, ChangedRan, NoCheckpoint
  <2>4. resume'.active => \A c \in resume'.changed : <<run', cycle', c>> \in ran'
    BY <1>1, <2>1 DEF BuildFreshState, BuildResumedState, NotResuming, ChangedInv,
                      ChangedParts, ChangedRan
  <2>5. QED BY <2>2, <2>3, <2>4 DEF ChangedParts, ChangedRan
<1>2. CASE StartFresh
  <2>1. PICK selected \in Selections, n \in CycleCounts, d \in DryRuns :
          Launch(selected, n, d) /\ BuildFreshState /\ disk' = disk
    BY <1>2 DEF StartFresh
  <2>2. QED BY <1>1, <2>1
<1>3. CASE StartAfterDiscarding
  <2>1. PICK selected \in Selections, n \in CycleCounts :
          Launch(selected, n, FALSE) /\ BuildFreshState /\ disk' \in {disk, NoCheckpoint}
    BY <1>3 DEF StartAfterDiscarding, ClearCheckpoint
  <2>2. QED BY <1>1, <2>1
<1>4. CASE StartResumed
  <2>1. LoadCheckpoint = disk
    BY <1>4 DEF StartResumed, LoadCheckpoint
  <2>2. PICK selected \in Selections, n \in CycleCounts :
          Launch(selected, n, FALSE) /\ BuildResumedState(disk) /\ disk' = disk
    BY <1>4, <2>1 DEF StartResumed
  <2>3. QED BY <1>1, <2>2
<1>5. CASE Reattach \/ ForkScratch \/ Snapshot \/ NoMoreCycles
  <2>1. /\ pc \in {"attach", "snapshot", "cycle"} /\ pc' \in {"snapshot", "cycle", "clear"}
        /\ UNCHANGED <<disk, run, resume, session, ran, landed, cycle>>
    BY <1>5 DEF Reattach, ForkScratch, Snapshot, NoMoreCycles, suiteRest, cycleVars, ghostVars,
                 measureVars
  <2>2. QED BY <2>1, StillChanged DEF InCycle, Checking
<1>6. CASE BeginCycle
  <2>1. /\ pc = "cycle" /\ pc' = "check" /\ UNCHANGED <<disk, run, cycle, session, ran>>
        /\ resume' = NotResuming
        /\ changed' = IF resume.active THEN resume.changed ELSE {}
        /\ landed' = {}
    BY <1>6 DEF BeginCycle, ResolveCycleChecks, ghostVars
  <2>2. ChangedRan'
    BY <2>1 DEF ChangedInv, ChangedParts, ChangedRan, NotResuming
  <2>3. \A c \in changed' : <<run, cycle, c>> \in ran
    BY <2>1 DEF ChangedInv, ChangedParts, ChangedRan
  <2>4. QED BY <2>1, <2>2, <2>3 DEF ChangedParts, ChangedIsOfThisCycle, Checking
<1>7. CASE FinishCycle
  <2>1. /\ pc = "check" /\ pc' \in {"clear", "cycle"}
        /\ UNCHANGED <<disk, run, resume, session, ran, landed>> /\ ~resume.active
    BY <1>7 DEF FinishCycle, Converges, GoesOn, ghostVars, ChangedInv, ProgressInv, Phase
  <2>2. QED BY <2>1, StillChanged DEF InCycle, Checking
<1>8. CASE SkipCheck \/ PreviewCheck
  <2>1. /\ pc = "check" /\ index < Len(plan) /\ UNCHANGED runRest /\ landed' = landed
        /\ \E made : EndCheck(made)
    BY <1>8 DEF SkipCheck, PreviewCheck
  <2>2. QED BY <2>1, EndCheckChanged
<1>9. CASE RunCheck
  <2>1. CASE EndCheck(FALSE)
    BY <1>9, <2>1, EndCheckChanged DEF RunCheck
  <2>2. CASE pc' \in {"commit", "memfix"} /\ UNCHANGED <<changed, ran>>
    <3>1. pc = "check" /\ UNCHANGED <<disk, run, resume, session, ran, landed, cycle, changed>>
      BY <1>9, <2>2 DEF RunCheck, runRest, cycleVars
    <3>2. QED BY <2>2, <3>1, StillChanged DEF InCycle, Checking
  <2>3. QED BY <1>9, <2>1, <2>2 DEF RunCheck
<1>10. CASE MemoryFix \/ CommitFix
  <2>1. /\ pc \in {"memfix", "commitfix"}
        /\ UNCHANGED <<disk, run, resume, session, ran, landed, cycle, changed>>
    BY <1>10 DEF MemoryFix, CommitFix, runRest, cycleVars, ghostVars
  <2>2. QED BY <2>1, StillChanged DEF InCycle, Checking
<1>11. CASE CommitCheck
  <2>1. pc = "commit" /\ index < Len(plan) /\ UNCHANGED runRest
    BY <1>11 DEF ChangedInv, ProgressInv, TypeInv, CheckChosen, CommitCheck
  <2> DEFINE after == IF isGit THEN HeadSha' ELSE NoSha
  <2>2. /\ EndCheck(MadeChanges(before, after))
        /\ \/ landed' = landed
           \/ /\ isGit /\ HeadSha' # before
              /\ landed' = landed \union {Current}
    BY <1>11 DEF CommitCheck
  <2>3. isGit /\ HeadSha' # before => MadeChanges(before, after)
    BY DEF MadeChanges
  <2>4. QED BY <2>1, <2>2, <2>3, EndCheckChanged
<1>12. CASE SaveAfterCheck
  <2>1. /\ pc = "save" /\ pc' = "check"
        /\ UNCHANGED <<run, resume, session, ran, landed, cycle, changed>>
    BY <1>12 DEF SaveAfterCheck, cycleVars, ghostVars, measureVars
  <2>2. ChangedIsOfThisCycle'
    BY <2>1 DEF ChangedInv, ChangedParts, ChangedIsOfThisCycle, Checking
  <2>3. CASE disk' = disk
    BY <2>1, <2>2, <2>3 DEF ChangedInv, ChangedParts, ChangedRan
  <2>4. CASE disk' = BuildCheckpoint(index + 1, changed)
    <3>1. disk'.run = run /\ disk'.cycle = cycle /\ disk'.changed = changed
      BY <2>4 DEF BuildCheckpoint
    <3>2. QED BY <2>1, <2>2, <3>1
              DEF ChangedInv, ChangedParts, ChangedRan, ChangedIsOfThisCycle, Checking
  <2>5. QED BY <1>12, <2>3, <2>4 DEF SaveAfterCheck, SaveCheckpoint
<1>13. CASE Finish \/ RefuseStaleBase \/ Interrupt \/ Kill
  <2>1. /\ pc' = "off" /\ disk' \in {disk, NoCheckpoint} /\ ~resume'.active
        /\ ran' = ran
    BY <1>13 DEF Finish, RefuseStaleBase, Interrupt, Kill, ProcessEnds, ClearCheckpoint,
                 survives, ghostVars, NotResuming
  <2>2. QED BY <2>1 DEF ChangedInv, ChangedParts, ChangedRan,
                        ChangedIsOfThisCycle, NoCheckpoint, Checking
<1>14. CASE OperatorEdits \/ OperatorSwitches \/ OperatorDeletesScratch
  <2>1. pc = "off" /\ pc' = "off" /\ UNCHANGED <<disk, ran, resume, run, cycle>>
    BY <1>14 DEF OperatorEdits, OperatorSwitches, OperatorDeletesScratch, operatorRest,
                 survives, processVars, ghostVars, cycleVars
  <2>2. QED BY <2>1 DEF ChangedInv, ChangedParts, ChangedRan,
                        ChangedIsOfThisCycle, Checking
<1>15. QED BY <1>2, <1>3, <1>4, <1>5, <1>6, <1>7, <1>8, <1>9, <1>10, <1>11, <1>12, <1>13,
              <1>14 DEF Next, SessionStep

LEMMA ChangedStutter == ChangedInv /\ UNCHANGED vars => ChangedInv'
<1> SUFFICES ASSUME ChangedInv, UNCHANGED vars PROVE ChangedInv'
  OBVIOUS
<1>1. UNCHANGED <<pc, disk, run, resume, session, ran, landed, cycle, changed>>
  BY DEF vars, cycleVars, ghostVars, measureVars
<1>2. ChangedParts'
  BY <1>1 DEF ChangedInv, ChangedParts, ChangedRan, ChangedIsOfThisCycle, Checking
<1>3. QED BY <1>2, ProgressStutter DEF ChangedInv

THEOREM ChangedInvariance == Spec => []ChangedInv
BY ChangedInit, ChangedStep, ChangedStutter, PTL DEF Spec

\* changed_this_cycle names checks that ran in this cycle of this run, and every
\* check whose commits the session saw land in it.
THEOREM ChangedIsRemembered == Spec => []ChangedIsOfThisCycle
<1>1. ChangedInv => ChangedIsOfThisCycle
  BY DEF ChangedInv, ChangedParts
<1>2. QED BY <1>1, ChangedInvariance, PTL

-----------------------------------------------------------------------------
(* Convergence                                                              *)

\* The commit that everything seen to land came before: where the check began while
\* it works, and HEAD otherwise.
Mark == IF pc \in {"memfix", "commitfix", "commit"} /\ before # NoSha THEN before ELSE HeadSha

\* What has been seen to land in a cycle is counted in the change since its start.
Measured ==
  /\ InCycle /\ isGit /\ base # NoSha =>
       base + Cardinality(landed) <= Mark /\ Mark <= HeadSha
  /\ pc = "clear" /\ converged = "measured" => Cardinality(landed) - undone < Threshold

MeasuredInv == ChangedInv /\ Measured

LEMMA LandingsCounted ==
  ASSUME NEW S \in SUBSET Checks
  PROVE  /\ IsFiniteSet(S) /\ Cardinality(S) \in Nat
         /\ \A c \in Checks : Cardinality(S \union {c}) \in {Cardinality(S), Cardinality(S) + 1}
<1>1. IsFiniteSet(S)
  BY SuiteAssumption, FS_Subset
<1>2. QED BY <1>1, FS_CardinalityType, FS_AddElement

\* HEAD stays on its branch and goes forward while a check works.
HeadForward == head' = head /\ HeadSha' \in Nat /\ HeadSha <= HeadSha'

LEMMA HeadType ==
  ASSUME ChangedInv
  PROVE  HeadSha \in Nat
BY DEF ChangedInv, ProgressInv, TypeInv, TypeOK, RepoTypeOK, HeadSha

LEMMA StillForward ==
  ASSUME ChangedInv, UNCHANGED <<head, sha>>
  PROVE  HeadForward
BY HeadType DEF HeadForward, HeadSha

LEMMA CommitForward ==
  ASSUME ChangedInv, head' = head, NewCommit
  PROVE  HeadForward
BY HeadType DEF HeadForward, HeadSha, NewCommit

LEMMA ClaudeForward ==
  ASSUME ChangedInv, NEW a, ClaudeWorks(a)
  PROVE  HeadForward
BY StillForward, CommitForward DEF ClaudeWorks

LEMMA CommitsForward ==
  ASSUME ChangedInv, CommitUncommitted
  PROVE  HeadForward
<1>1. CASE GitCommitAll
  BY <1>1, StillForward, CommitForward DEF GitCommitAll
<1>2. CASE GitCommitFails
  BY <1>2, StillForward, CommitForward DEF GitCommitFails
<1>3. CASE UNCHANGED repoVars
  BY <1>3, StillForward DEF repoVars
<1>4. QED BY <1>1, <1>2, <1>3 DEF CommitUncommitted

\* A step inside a cycle in which nothing lands.
LEMMA ForwardMeasured ==
  ASSUME MeasuredInv, InCycle, InCycle', HeadForward,
         UNCHANGED <<isGit, base, landed>>,
         Mark' >= Mark, Mark' <= HeadSha', Mark' \in Nat
  PROVE  Measured'
<1>1. base \in Nat \union {NoSha} /\ landed \in SUBSET Checks /\ Mark \in Nat
  BY HeadType DEF MeasuredInv, ChangedInv, ProgressInv, TypeInv, TypeOK, SuiteTypeOK,
                  MeasureTypeOK, Mark
<1>2. Cardinality(landed) \in Nat
  BY <1>1, LandingsCounted
<1>3. isGit /\ base # NoSha => base + Cardinality(landed) <= Mark'
  BY <1>1, <1>2 DEF MeasuredInv, Measured, NoSha
<1>4. pc' # "clear"
  BY DEF InCycle, Checking
<1>5. QED BY <1>3, <1>4 DEF Measured

LEMMA CountedIsMeasured ==
  ASSUME NEW start \in Nat, NEW end \in Nat, NEW seen \in Nat, NEW hidden \in Int,
         NEW bound \in Nat, start + seen <= end, end - start - hidden < bound
  PROVE  seen - hidden < bound
OBVIOUS

LEMMA MeasuredStep == MeasuredInv /\ Next => MeasuredInv'
<1> SUFFICES ASSUME MeasuredInv, Next PROVE Measured'
  BY ChangedStep DEF MeasuredInv
<1>0. /\ base \in Nat \union {NoSha} /\ before \in Nat \union {NoSha} /\ HeadSha \in Nat
      /\ ChangedInv /\ Mark \in Nat
      /\ landed \in SUBSET Checks /\ Cardinality(landed) \in Nat
  <2>1. ChangedInv /\ SuiteTypeOK /\ landed \in SUBSET Checks
    BY DEF MeasuredInv, ChangedInv, ProgressInv, TypeInv, TypeOK, MeasureTypeOK
  <2>2. HeadSha \in Nat
    BY <2>1, HeadType
  <2>3. Cardinality(landed) \in Nat
    BY <2>1, LandingsCounted
  <2>4. base \in Nat \union {NoSha} /\ before \in Nat \union {NoSha}
    BY <2>1 DEF SuiteTypeOK
  <2>5. Mark \in Nat
    BY <2>2, <2>4 DEF Mark
  <2>6. QED BY <2>1, <2>2, <2>3, <2>4, <2>5
<1>1. CASE StartFresh \/ StartAfterDiscarding \/ StartResumed
  <2>1. pc' \in {"attach", "cycle"}
    BY <1>1 DEF StartFresh, StartAfterDiscarding, StartResumed, Launch, FirstStep
  <2>2. QED BY <2>1 DEF Measured, InCycle, Checking
<1>2. CASE Reattach \/ ForkScratch \/ Snapshot
  <2>1. pc' \in {"snapshot", "cycle"}
    BY <1>2 DEF Reattach, ForkScratch, Snapshot
  <2>2. QED BY <2>1 DEF Measured, InCycle, Checking
<1>3. CASE NoMoreCycles
  <2>1. pc = "cycle" /\ pc' = "clear" /\ converged' = converged
    BY <1>3 DEF NoMoreCycles, suiteRest
  <2>2. converged' = "no"
    BY <1>0, <2>1 DEF ChangedInv, ProgressInv, Phase
  <2>3. QED BY <2>1, <2>2 DEF Measured, InCycle, Checking
<1>4. CASE BeginCycle
  <2>1. /\ pc = "cycle" /\ pc' = "check" /\ UNCHANGED <<sha, isGit>>
        /\ landed' = {} /\ base' \in {HeadSha, NoSha}
    BY <1>4 DEF BeginCycle, repoVars, optVars
  <2>2. Cardinality(landed') = 0
    BY <2>1, FS_EmptySet
  <2>3. HeadSha' = HeadSha /\ Mark' = HeadSha
    BY <2>1 DEF HeadSha, Mark
  <2>4. base' # NoSha => base' + Cardinality(landed') <= HeadSha
    <3>1. HeadSha + 0 <= HeadSha
      BY <1>0
    <3>2. QED BY <2>1, <2>2, <3>1
  <2>5. HeadSha <= HeadSha
    BY <1>0
  <2>6. QED BY <2>1, <2>3, <2>4, <2>5 DEF Measured
<1>5. CASE FinishCycle
  <2>1. pc = "check" /\ pc' \in {"clear", "cycle"} /\ landed' = landed
    BY <1>5 DEF FinishCycle, Converges, GoesOn
  <2>2. ASSUME pc' = "clear", converged' = "measured"
        PROVE  Cardinality(landed') - undone' < Threshold
    <3>1. ConvergenceEnabled /\ undone' \in {u \in Undoable : BelowThreshold(u)}
      BY <1>5, <2>2 DEF FinishCycle, Converges, GoesOn
    <3>2. isGit /\ base # NoSha
      BY <3>1 DEF ConvergenceEnabled
    <3>3. undone' \in Int /\ HeadSha - base - undone' < Threshold
      BY <3>1 DEF BelowThreshold, ChangeStats, Undoable
    <3>4. base + Cardinality(landed) <= HeadSha
      <4>1. Mark = HeadSha
        BY <2>1 DEF Mark
      <4>2. InCycle
        BY <2>1 DEF InCycle, Checking
      <4>3. QED BY <3>2, <4>1, <4>2 DEF MeasuredInv, Measured
    <3>5. /\ base \in Nat /\ HeadSha \in Nat /\ Threshold \in Nat
          /\ Cardinality(landed) \in Nat
      BY <1>0, <3>2, SuiteAssumption DEF NoSha
    <3>6. Cardinality(landed) - undone' < Threshold
      BY <3>3, <3>4, <3>5, CountedIsMeasured
    <3>7. QED BY <2>1, <3>6
  <2>3. ~InCycle'
    BY <2>1 DEF InCycle, Checking
  <2>4. QED BY <2>2, <2>3 DEF Measured
<1>6. CASE SkipCheck \/ PreviewCheck
  <2>1. /\ pc = "check" /\ pc' = "save" /\ UNCHANGED <<head, sha>>
        /\ UNCHANGED <<isGit, base, landed>>
    BY <1>6 DEF SkipCheck, PreviewCheck, EndCheck, repoVars, runRest, optVars, cycleVars
  <2>2. Mark' = HeadSha' /\ Mark = HeadSha /\ InCycle /\ InCycle'
    BY <2>1 DEF Mark, InCycle, Checking
  <2>3. QED BY <1>0, <2>1, <2>2, StillForward, ForwardMeasured DEF HeadForward
<1>7. CASE RunCheck
  <2>1. /\ pc = "check" /\ pc' \in {"commit", "memfix", "save"} /\ ClaudeWorks(Current)
        /\ UNCHANGED <<isGit, base, landed>>
    BY <1>7 DEF RunCheck, EndCheck, runRest, optVars, cycleVars
  <2>2. HeadForward
    BY <1>0, <2>1, ClaudeForward
  <2>3. Mark = HeadSha /\ InCycle /\ InCycle'
    BY <2>1 DEF Mark, InCycle, Checking
  <2>4. Mark' \in {HeadSha, HeadSha'}
    <3>1. before' \in {HeadSha, NoSha}
      BY <1>7 DEF RunCheck, EndCheck
    <3>2. QED BY <3>1 DEF Mark
  <2>5. QED BY <1>0, <2>1, <2>2, <2>3, <2>4, ForwardMeasured DEF HeadForward
<1>8. CASE MemoryFix \/ CommitFix
  <2>1. /\ pc \in {"memfix", "commitfix"} /\ pc' \in {"commitfix", "commit"}
        /\ before' = before /\ UNCHANGED <<isGit, base, landed>>
    BY <1>8 DEF MemoryFix, CommitFix, runRest, optVars, cycleVars
  <2>2. HeadForward
    BY <1>0, <1>8, ClaudeForward, CommitsForward, StillForward
    DEF MemoryFix, CommitFix, repoVars
  <2>3. InCycle /\ InCycle'
    BY <2>1 DEF InCycle, Checking
  <2>4. IF before # NoSha THEN Mark = before /\ Mark' = before
                          ELSE Mark = HeadSha /\ Mark' = HeadSha'
    BY <2>1 DEF Mark
  <2>5. CASE ~(isGit /\ base # NoSha)
    BY <2>1, <2>5 DEF Measured
  <2>6. CASE isGit /\ base # NoSha
    <3>1. Mark <= HeadSha
      BY <2>3, <2>6 DEF MeasuredInv, Measured
    <3>2. Mark' >= Mark /\ Mark' <= HeadSha' /\ Mark' \in Nat
      BY <1>0, <2>2, <2>4, <3>1 DEF HeadForward
    <3>3. QED BY <2>1, <2>2, <2>3, <3>2, ForwardMeasured
  <2>7. QED BY <2>5, <2>6
<1>9. CASE CommitCheck
  <2>1. /\ pc = "commit" /\ pc' = "save"
        /\ UNCHANGED <<isGit, base>>
        /\ landed' = IF isGit /\ before # NoSha /\ HeadSha' # before
                     THEN landed \union {Current}
                     ELSE landed
    BY <1>9 DEF CommitCheck, EndCheck, runRest, optVars, cycleVars
  <2>2. HeadForward
    BY <1>0, <1>9, CommitsForward, StillForward DEF CommitCheck, repoVars
  <2>3. InCycle /\ InCycle' /\ Mark' = HeadSha'
    BY <2>1 DEF InCycle, Mark, Checking
  <2>4. CASE ~(isGit /\ base # NoSha)
    BY <2>1, <2>4 DEF Measured
  <2>5. CASE isGit /\ base # NoSha
    <3>1. base + Cardinality(landed) <= Mark /\ Mark <= HeadSha
      BY <2>3, <2>5 DEF MeasuredInv, Measured
    <3>2. CASE landed' = landed
      BY <1>0, <2>1, <2>2, <2>3, <3>1, <3>2, ForwardMeasured DEF HeadForward
    <3>3. CASE before # NoSha /\ HeadSha' # before /\ landed' = landed \union {Current}
      <4>1. Mark = before /\ HeadSha' >= before + 1
        BY <1>0, <2>1, <2>2, <3>1, <3>3 DEF Mark, HeadForward
      <4>2. Current \in Checks
        <5>1. index < Len(plan)
          BY <1>0, <2>1 DEF ChangedInv, ProgressInv, TypeInv, CheckChosen
        <5>2. plan \in Seq(Checks) /\ index \in Nat
          BY <1>0 DEF ChangedInv, ProgressInv, TypeInv, TypeOK, SuiteTypeOK
        <5>3. QED BY <5>1, <5>2, CurrentIsCheck
      <4>3. Cardinality(landed') \in {Cardinality(landed), Cardinality(landed) + 1}
        BY <1>0, <3>3, <4>2, LandingsCounted
      <4>4. base + Cardinality(landed') <= HeadSha'
        BY <1>0, <2>2, <2>5, <3>1, <4>1, <4>3 DEF HeadForward, NoSha
      <4>5. QED BY <1>0, <2>1, <2>2, <2>3, <4>4 DEF Measured, HeadForward
    <3>4. QED BY <2>1, <3>2, <3>3
  <2>6. QED BY <2>4, <2>5
<1>10. CASE SaveAfterCheck
  <2>1. /\ pc = "save" /\ pc' = "check" /\ UNCHANGED <<head, sha>>
        /\ UNCHANGED <<isGit, base, landed>>
    BY <1>10 DEF SaveAfterCheck, repoVars, optVars, cycleVars, measureVars
  <2>2. Mark' = HeadSha' /\ Mark = HeadSha /\ InCycle /\ InCycle'
    BY <2>1 DEF Mark, InCycle, Checking
  <2>3. QED BY <1>0, <2>1, <2>2, StillForward, ForwardMeasured DEF HeadForward
<1>11. CASE Finish \/ RefuseStaleBase \/ Interrupt \/ Kill
  BY <1>11 DEF Finish, RefuseStaleBase, Interrupt, Kill, ProcessEnds, Measured, InCycle, Checking
<1>12. CASE OperatorEdits \/ OperatorSwitches \/ OperatorDeletesScratch
  <2>1. pc' = "off"
    BY <1>12 DEF OperatorEdits, OperatorSwitches, OperatorDeletesScratch, operatorRest, processVars
  <2>2. QED BY <2>1 DEF Measured, InCycle, Checking
<1>13. QED BY <1>1, <1>2, <1>3, <1>4, <1>5, <1>6, <1>7, <1>8, <1>9, <1>10, <1>11, <1>12
           DEF Next, SessionStep

LEMMA MeasuredStutter == MeasuredInv /\ UNCHANGED vars => MeasuredInv'
<1> SUFFICES ASSUME MeasuredInv, UNCHANGED vars PROVE MeasuredInv'
  OBVIOUS
<1>1. UNCHANGED <<pc, sha, isGit, base, before, landed, undone, converged>>
  BY DEF vars, repoVars, optVars, cycleVars, measureVars
<1>2. Mark' = Mark /\ HeadSha' = HeadSha
  BY <1>1 DEF Mark, HeadSha
<1>3. Measured'
  BY <1>1, <1>2 DEF MeasuredInv, Measured, InCycle, Checking
<1>4. QED BY <1>3, ChangedStutter DEF MeasuredInv

\* When a cycle converges, the checks the session saw committing in it are fewer than
\* the threshold, once what the cycle undid is taken off: what landed is counted in
\* what is measured.
THEOREM ConvergenceIsDeserved == Spec => []WholeCycleConverges
<1>1. Init => MeasuredInv
  BY ChangedInit DEF Init, NoProcess, MeasuredInv, Measured, InCycle, Checking
<1>2. MeasuredInv => WholeCycleConverges
  BY DEF MeasuredInv, Measured, WholeCycleConverges
<1>3. QED BY <1>1, <1>2, MeasuredStep, MeasuredStutter, PTL DEF Spec
=============================================================================
