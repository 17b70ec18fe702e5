--------------------------- MODULE WatchdogProofs ---------------------------
(***************************************************************************)
(* The limits of the watchdog hold for every timeout, every sampling       *)
(* interval and any number of events around the process.                   *)
(***************************************************************************)
EXTENDS Watchdog, TLAPS

-----------------------------------------------------------------------------
(* Types *)

LEMMA CapType == PartialCap \in Nat /\ PartialCap > IdleTimeout + Lag + 1
BY WatchdogAssumption, ScaleAssumption DEF PartialCap

LEMMA TypeInit == Init => TypeOK
<1> SUFFICES ASSUME Init PROVE TypeOK
  OBVIOUS
<1> USE WatchdogAssumption DEF Init
<1>1. FlagsTypeOK
  BY DEF FlagsTypeOK
<1>2. SupervisorTypeOK
  BY DEF SupervisorTypeOK, Time, Never, None
<1>3. TreeTypeOK
  BY DEF TreeTypeOK, Time, Never, Processes
<1>4. OutputTypeOK
  BY DEF OutputTypeOK, Time, Output
<1>5. QED BY <1>1, <1>2, <1>3, <1>4 DEF TypeOK

\* What a pass over the limits may name as the reason is a reason.
LEMMA ReasonType ==
  LimitExceeded \in {None, "idle_timeout", "check_timeout", "memory_limit",
                     "system_memory_pressure"}
BY DEF LimitExceeded

\* The flags change to flags.
LEMMA FlagsStep == FlagsTypeOK /\ [Next]_vars => FlagsTypeOK'
<1> SUFFICES ASSUME FlagsTypeOK, [Next]_vars PROVE FlagsTypeOK'
  OBVIOUS
<1> USE DEF FlagsTypeOK
<1>1. CASE KillForLimit \/ EndOfOutput \/ WaitForExit \/ Teardown \/ ReadFails \/ Interrupt
  BY <1>1 DEF KillForLimit, EndOfOutput, WaitForExit, Teardown, ReadFails, Interrupt,
              supervisorEnv, treeVars
<1>2. CASE KeepWithinLimits
  BY <1>2, ZenonT(30) DEF KeepWithinLimits, supervisorEnv
<1>3. CASE ReadChunk \/ Drain
  BY <1>3 DEF ReadChunk, Drain, Observed, treeVars
<1>4. CASE SelectTimesOut
  BY <1>4 DEF SelectTimesOut, supervisorEnv
<1>5. CASE Environment
  BY <1>5, ZenonT(30)
  DEF Environment, Write, ChildStarts, ChildExits, ActivityChanges, LeaderExits,
      LeaderClosesOutput, InputCloses, MemoryChanges, Happens, superVars, treeVars
<1>6. CASE UNCHANGED vars
  BY <1>6 DEF vars, superVars, treeVars
<1>7. QED
  BY <1>1, <1>2, <1>3, <1>4, <1>5, <1>6 DEF Next, Supervise, Over

\* The supervisor's own state.
LEMMA SupervisorStep ==
  SupervisorTypeOK /\ [Next]_vars => SupervisorTypeOK'
<1> SUFFICES ASSUME SupervisorTypeOK, [Next]_vars PROVE SupervisorTypeOK'
  OBVIOUS
<1> USE WatchdogAssumption DEF SupervisorTypeOK
<1>1. CASE KillForLimit
  BY <1>1, ReasonType DEF KillForLimit, SendNudge, NudgeIf
<1>2. CASE KeepWithinLimits
  BY <1>2 DEF KeepWithinLimits, SendNudge, NudgeIf, Time
<1>3. CASE ReadChunk \/ EndOfOutput \/ Drain \/ ReadFails \/ Interrupt
  BY <1>3 DEF ReadChunk, EndOfOutput, Drain, ReadFails, Interrupt
<1>4. CASE SelectTimesOut
  BY <1>4 DEF SelectTimesOut, Time
<1>5. CASE WaitForExit \/ Teardown
  BY <1>5 DEF WaitForExit, Teardown
<1>6. CASE Environment
  BY <1>6
  DEF Environment, Write, ChildStarts, ChildExits, ActivityChanges, LeaderExits,
      LeaderClosesOutput, InputCloses, MemoryChanges, Happens, superVars
<1>7. CASE UNCHANGED vars
  BY <1>7 DEF vars, superVars
<1>8. QED
  BY <1>1, <1>2, <1>3, <1>4, <1>5, <1>6, <1>7 DEF Next, Supervise, Over

\* The process tree and the machine.
LEMMA TreeStep ==
  SupervisorTypeOK /\ TreeTypeOK /\ [Next]_vars => TreeTypeOK'
<1> SUFFICES ASSUME now \in Time, TreeTypeOK, [Next]_vars PROVE TreeTypeOK'
  BY DEF SupervisorTypeOK
<1> USE WatchdogAssumption DEF TreeTypeOK
<1>1. CASE KillForLimit \/ Teardown
  BY <1>1 DEF KillForLimit, Teardown, KillProcessGroup, supervisorEnv,
              historyVars, Processes
<1>2. CASE KeepWithinLimits
  BY <1>2 DEF KeepWithinLimits, supervisorEnv, historyVars
<1>3. CASE ReadChunk \/ EndOfOutput \/ Drain \/ ReadFails \/ Interrupt
  BY <1>3 DEF ReadChunk, EndOfOutput, Drain, ReadFails, Interrupt, treeVars, historyVars
<1>4. CASE SelectTimesOut
  BY <1>4 DEF SelectTimesOut, supervisorEnv, historyVars
<1>5. CASE WaitForExit
  BY <1>5 DEF WaitForExit, supervisorEnv, historyVars, Processes
<1>6. CASE Environment
  <2>1. events' \in 0..MaxEvents
    <3>1. events < MaxEvents /\ events' = events + 1
      BY <1>6, Zenon
      DEF Environment, Write, ChildStarts, ChildExits, ActivityChanges,
          LeaderExits, LeaderClosesOutput, InputCloses, MemoryChanges, Happens
    <3>2. QED BY <3>1
  <2>2. CASE Write
    BY <1>6, <2>1, <2>2 DEF Write, treeVars
  <2>3. CASE ChildStarts
    BY <2>1, <2>3 DEF ChildStarts, Processes
  <2>4. CASE ChildExits
    BY <2>1, <2>4 DEF ChildExits, Processes
  <2>5. CASE ActivityChanges
    <3>1. /\ UNCHANGED <<leader, kid, holders, overSince, lowSince>>
          /\ steadySince' = now
      BY <2>5, Zenon DEF ActivityChanges
    <3>2. QED BY <2>1, <3>1
  <2>6. CASE LeaderExits
    BY <2>1, <2>6 DEF LeaderExits, Processes
  <2>7. CASE LeaderClosesOutput \/ InputCloses
    BY <2>1, <2>7 DEF LeaderClosesOutput, InputCloses, Processes
  <2>8. CASE MemoryChanges
    BY <2>1, <2>8 DEF MemoryChanges, Toggled
  <2>9. QED BY <1>6, <2>2, <2>3, <2>4, <2>5, <2>6, <2>7, <2>8 DEF Environment
<1>7. CASE UNCHANGED vars
  BY <1>7 DEF vars, treeVars, historyVars
<1>8. QED
  BY <1>1, <1>2, <1>3, <1>4, <1>5, <1>6, <1>7 DEF Next, Supervise, Over

\* The output.
LEMMA OutputStep ==
  SupervisorTypeOK /\ OutputTypeOK /\ [Next]_vars => OutputTypeOK'
<1> SUFFICES ASSUME now \in Time, OutputTypeOK, [Next]_vars PROVE OutputTypeOK'
  BY DEF SupervisorTypeOK
<1> USE DEF OutputTypeOK
<1>1. CASE Write
  <2>1. PICK o \in Output :
          /\ pipe' = Append(pipe, o)
          /\ lastWritten' =
               [what |-> IF o = "partial" THEN lastWritten.what ELSE o, at |-> now]
    BY <1>1 DEF Write
  <2>2. pipe' \in Seq(Output)
    BY <2>1
  <2>3. lastWritten' \in [what : {"event", "compacting"}, at : Time]
    BY <2>1 DEF Output
  <2>4. QED BY <2>2, <2>3
<1>2. CASE KillForLimit \/ KeepWithinLimits \/ SelectTimesOut \/ WaitForExit \/ Teardown
  BY <1>2 DEF KillForLimit, KeepWithinLimits, SelectTimesOut, WaitForExit, Teardown,
              supervisorEnv, historyVars
<1>3. CASE ReadChunk \/ Drain
  <2>1. pipe' = <<>> /\ lastWritten' = lastWritten
    BY <1>3, Zenon DEF ReadChunk, Drain, historyVars
  <2>2. QED BY <2>1
<1>4. CASE EndOfOutput \/ ReadFails \/ Interrupt
  BY <1>4 DEF EndOfOutput, ReadFails, Interrupt, historyVars
<1>5. CASE \/ ChildStarts \/ ChildExits \/ ActivityChanges
           \/ LeaderExits \/ LeaderClosesOutput \/ InputCloses \/ MemoryChanges
  <2>1. pipe' = pipe /\ lastWritten' = lastWritten
    BY <1>5, Zenon DEF ChildStarts, ChildExits, ActivityChanges, LeaderExits,
                       LeaderClosesOutput, InputCloses, MemoryChanges
  <2>2. QED BY <2>1
<1>6. CASE UNCHANGED vars
  BY <1>6 DEF vars, historyVars
<1>7. QED
  BY <1>1, <1>2, <1>3, <1>4, <1>5, <1>6 DEF Next, Supervise, Environment, Over

LEMMA TypeStep == TypeOK /\ [Next]_vars => TypeOK'
BY FlagsStep, SupervisorStep, TreeStep, OutputStep DEF TypeOK

\* Every variable of the watchdog keeps to its type, and time to its bound.
THEOREM TypesHold == Spec => []TypeOK
BY TypeInit, TypeStep, PTL DEF Spec
-----------------------------------------------------------------------------
(* The limits that are not about silence *)

\* A pass that ends with no reason found no limit exceeded.
LEMMA NothingExceeded ==
  LimitExceeded = None =>
    ~IdleExceeded /\ ~HardTimeoutExceeded /\ ~MemoryExceeded /\ ~PressureExceeded
BY DEF LimitExceeded, None

\* The wall clock: a pass lets now through only up to check_timeout.
WallInv ==
  limits.check_timeout > 0 =>
    /\ pc = "limits" => now <= limits.check_timeout + Lag + 1
    /\ pc = "select" => now <= limits.check_timeout + Lag

\* The cadence: memory is looked at once in every MemInterval, and what a pass and
\* a round of select take.
CadenceInv ==
  /\ last_memory_check <= now
  /\ pc = "limits" => now <= last_memory_check + MemInterval + Lag
  /\ pc = "select" => now < last_memory_check + MemInterval + Lag

\* What is over its limit became so after the last look at it.
OverInv ==
  overSince # Never =>
    /\ limits.max_memory
    /\ InLoop => overSince >= last_memory_check

LowInv ==
  lowSince # Never =>
    /\ limits.floor
    /\ InLoop => lowSince >= last_memory_check

LimitsInv == TypeOK /\ WallInv /\ CadenceInv /\ OverInv /\ LowInv

LEMMA LimitsInit == Init => LimitsInv
<1> SUFFICES ASSUME Init PROVE LimitsInv
  OBVIOUS
<1>1. TypeOK
  BY TypeInit
<1>2. WallInv /\ CadenceInv /\ OverInv /\ LowInv
  BY <1>1, WatchdogAssumption
  DEF Init, WallInv, CadenceInv, OverInv, LowInv, TypeOK, SupervisorTypeOK
<1>3. QED BY <1>1, <1>2 DEF LimitsInv

\* What the steps of the loop do to the clock.
LEMMA KeepFacts ==
  ASSUME KeepWithinLimits
  PROVE  /\ pc = "limits" /\ pc' = "select"
         /\ UNCHANGED <<limits, overSince, lowSince>>
         /\ \E d \in 0..Lag : now' = now + d
         /\ last_memory_check' = IF IntervalElapsed THEN now ELSE last_memory_check
         /\ LimitExceeded = None
BY DEF KeepWithinLimits, supervisorEnv

LEMMA TimeoutFacts ==
  ASSUME SelectTimesOut
  PROVE  /\ pc = "select" /\ pc' \in {"limits", "drain"}
         /\ now' = now + 1
         /\ UNCHANGED <<limits, last_memory_check, overSince, lowSince>>
BY DEF SelectTimesOut, supervisorEnv

LEMMA ReadFacts ==
  ASSUME ReadChunk
  PROVE  /\ pc = "select" /\ pc' = "limits"
         /\ UNCHANGED <<limits, now, last_memory_check, overSince, lowSince>>
BY DEF ReadChunk, treeVars

\* The steps that leave the loop, or are taken outside it.
Leaving ==
  KillForLimit \/ EndOfOutput \/ Drain \/ WaitForExit \/ Teardown \/ ReadFails \/ Interrupt

LEMMA LeaveFacts ==
  ASSUME Leaving
  PROVE  /\ pc' \in {"drain", "wait", "teardown", "done"}
         /\ UNCHANGED <<limits, now, last_memory_check, overSince, lowSince>>
BY DEF Leaving, KillForLimit, EndOfOutput, Drain, WaitForExit, Teardown, ReadFails, Interrupt,
       supervisorEnv, treeVars

LEMMA EnvironmentFacts ==
  ASSUME Environment
  PROVE  UNCHANGED <<limits, pc, now, last_output_time, last_memory_check,
                     last_nudge_time, nudge_refused, compacting,
                     kill_reason>>
BY Zenon DEF Environment, Write, ChildStarts, ChildExits, ActivityChanges, LeaderExits,
             LeaderClosesOutput, InputCloses, MemoryChanges, Happens, superVars

\* Every step is one of these.
LEMMA Steps ==
  [Next]_vars =>
    \/ KeepWithinLimits \/ SelectTimesOut \/ ReadChunk \/ Leaving
    \/ Environment \/ UNCHANGED vars
BY DEF Next, Supervise, Over, Leaving

LEMMA WallStep == TypeOK /\ WallInv /\ [Next]_vars => WallInv'
<1> SUFFICES ASSUME SupervisorTypeOK, WallInv, [Next]_vars PROVE WallInv'
  BY DEF TypeOK
<1> USE WatchdogAssumption DEF SupervisorTypeOK, WallInv, Time
<1>1. CASE KeepWithinLimits
  <2>1. ~HardTimeoutExceeded
    BY <1>1, KeepFacts, NothingExceeded
  <2>2. QED BY <1>1, <2>1, KeepFacts DEF HardTimeoutExceeded
<1>2. CASE SelectTimesOut
  BY <1>2, TimeoutFacts
<1>3. CASE ReadChunk
  BY <1>3, ReadFacts
<1>4. CASE Leaving
  BY <1>4, LeaveFacts
<1>5. CASE Environment
  BY <1>5, EnvironmentFacts
<1>6. CASE UNCHANGED vars
  BY <1>6 DEF vars, superVars
<1>7. QED BY <1>1, <1>2, <1>3, <1>4, <1>5, <1>6, Steps

LEMMA CadenceStep == TypeOK /\ CadenceInv /\ [Next]_vars => CadenceInv'
<1> SUFFICES ASSUME SupervisorTypeOK, CadenceInv, [Next]_vars PROVE CadenceInv'
  BY DEF TypeOK
<1> USE WatchdogAssumption DEF SupervisorTypeOK, CadenceInv, Time
<1>1. CASE KeepWithinLimits
  BY <1>1, KeepFacts DEF IntervalElapsed
<1>2. CASE SelectTimesOut
  BY <1>2, TimeoutFacts
<1>3. CASE ReadChunk
  BY <1>3, ReadFacts
<1>4. CASE Leaving
  BY <1>4, LeaveFacts
<1>5. CASE Environment
  BY <1>5, EnvironmentFacts
<1>6. CASE UNCHANGED vars
  BY <1>6 DEF vars, superVars
<1>7. QED BY <1>1, <1>2, <1>3, <1>4, <1>5, <1>6, Steps

\* The environment may start or end an excess now, and only where it is limited.
LEMMA MemoryFacts ==
  ASSUME Environment
  PROVE  /\ overSince' \in {overSince, Never} \/ (overSince' = now /\ limits.max_memory)
         /\ lowSince' \in {lowSince, Never} \/ (lowSince' = now /\ limits.floor)
<1>1. CASE \/ Write \/ ChildStarts \/ ChildExits \/ ActivityChanges \/ LeaderClosesOutput
           \/ InputCloses
  <2>1. UNCHANGED <<overSince, lowSince>>
    BY <1>1, Zenon DEF Write, ChildStarts, ChildExits, ActivityChanges,
                       LeaderClosesOutput, InputCloses, treeVars
  <2>2. QED BY <2>1
<1>2. CASE LeaderExits
  BY <1>2, Zenon DEF LeaderExits
<1>3. CASE MemoryChanges
  BY <1>3, Zenon DEF MemoryChanges, Toggled
<1>4. QED BY <1>1, <1>2, <1>3 DEF Environment

LEMMA OverStep ==
  TypeOK /\ CadenceInv /\ OverInv /\ LowInv /\ [Next]_vars => OverInv' /\ LowInv'
<1> SUFFICES ASSUME SupervisorTypeOK, last_memory_check <= now, OverInv, LowInv,
                    [Next]_vars
             PROVE  OverInv' /\ LowInv'
  BY DEF TypeOK, CadenceInv
<1> USE WatchdogAssumption DEF OverInv, LowInv, InLoop
<1>1. CASE KeepWithinLimits
  <2>1. IntervalElapsed => overSince = Never /\ lowSince = Never
    BY <1>1, KeepFacts, NothingExceeded
    DEF MemoryExceeded, MemoryRan, PressureExceeded
  <2>2. QED BY <1>1, <2>1, KeepFacts
<1>2. CASE SelectTimesOut
  BY <1>2, TimeoutFacts
<1>3. CASE ReadChunk
  BY <1>3, ReadFacts
<1>4. CASE Leaving
  BY <1>4, LeaveFacts
<1>5. CASE Environment
  <2>1. OverInv'
    BY <1>5, EnvironmentFacts, MemoryFacts DEF SupervisorTypeOK, Time
  <2>2. LowInv'
    BY <1>5, EnvironmentFacts, MemoryFacts DEF SupervisorTypeOK, Time
  <2>3. QED BY <2>1, <2>2
<1>6. CASE UNCHANGED vars
  BY <1>6 DEF vars, superVars, treeVars
<1>7. QED BY <1>1, <1>2, <1>3, <1>4, <1>5, <1>6, Steps

THEOREM LimitsInvariance == Spec => []LimitsInv
<1>1. LimitsInv /\ [Next]_vars => LimitsInv'
  BY TypeStep, WallStep, CadenceStep, OverStep DEF LimitsInv
<1>2. QED BY LimitsInit, <1>1, PTL DEF Spec

\* The wall-clock limit: however much a process writes, the loop never reads on
\* past check_timeout, one pass and one round of select (_check_hard_timeout).
THEOREM HardTimeoutIsKept == Spec => []HardTimeoutHolds
<1>1. LimitsInv => HardTimeoutHolds
  BY WatchdogAssumption
  DEF LimitsInv, TypeOK, SupervisorTypeOK, WallInv, HardTimeoutHolds, InLoop, Time
<1>2. QED BY <1>1, LimitsInvariance, PTL

\* The memory limit: an excess is met within the sampling interval and one pass
\* (_check_memory_limit).
THEOREM MemoryLimitIsKept == Spec => []MemoryLimitHolds
<1>1. LimitsInv => MemoryLimitHolds
  BY WatchdogAssumption
  DEF LimitsInv, TypeOK, SupervisorTypeOK, TreeTypeOK, CadenceInv, OverInv,
      MemoryLimitHolds, InLoop, Time
<1>2. QED BY <1>1, LimitsInvariance, PTL

\* The floor of free memory: the same, whether or not there is a memory limit to
\* drive the cadence (_check_system_pressure).
THEOREM PressureIsKept == Spec => []PressureIsNoticed
<1>1. LimitsInv => PressureIsNoticed
  BY WatchdogAssumption
  DEF LimitsInv, TypeOK, SupervisorTypeOK, TreeTypeOK, CadenceInv, LowInv,
      PressureIsNoticed, InLoop, Time
<1>2. QED BY <1>1, LimitsInvariance, PTL
-----------------------------------------------------------------------------
(* The kill for silence *)

\* What is known of the output while the loop runs: what is unread came after the
\* last read, and in the very moment of a pass over the limits.
SilenceInv ==
  /\ last_output_time <= now /\ lastWritten.at <= now
  /\ InLoop => kill_reason = None
  /\ InLoop /\ pipe = <<>> => lastWritten.at <= last_output_time
  /\ pc = "limits" /\ pipe # <<>> => lastWritten.at = now

\* A compaction that was announced is known, or what announces it is unread.
AnnouncedInv == InLoop /\ lastWritten.what = "compacting" => Observed

LEMMA SilenceInit == Init => SilenceInv /\ AnnouncedInv
<1> SUFFICES ASSUME Init PROVE SilenceInv /\ AnnouncedInv
  OBVIOUS
<1>1. SilenceInv
  BY WatchdogAssumption DEF Init, SilenceInv, InLoop
<1>2. AnnouncedInv
  BY DEF Init, AnnouncedInv
<1>3. QED BY <1>1, <1>2

LEMMA WriteFacts ==
  ASSUME Write
  PROVE  \E o \in Output :
           /\ pipe' = Append(pipe, o)
           /\ lastWritten'.at = now
           /\ lastWritten'.what = IF o = "partial" THEN lastWritten.what ELSE o
<1>1. PICK o \in Output :
        /\ pipe' = Append(pipe, o)
        /\ lastWritten' =
             [what |-> IF o = "partial" THEN lastWritten.what ELSE o, at |-> now]
  BY DEF Write
<1>2. QED BY <1>1

\* All else that happens around the supervisor leaves the output alone.
LEMMA OtherFacts ==
  ASSUME Environment, ~Write
  PROVE  UNCHANGED <<pipe, lastWritten>>
BY Zenon DEF Environment, ChildStarts, ChildExits, ActivityChanges, LeaderExits,
             LeaderClosesOutput, InputCloses, MemoryChanges

LEMMA LeaveOutput ==
  ASSUME Leaving
  PROVE  UNCHANGED <<last_output_time, lastWritten>>
BY DEF Leaving, KillForLimit, EndOfOutput, Drain, WaitForExit, Teardown, ReadFails, Interrupt,
       supervisorEnv, historyVars

LEMMA KeepOutput ==
  ASSUME KeepWithinLimits \/ SelectTimesOut
  PROVE  UNCHANGED <<last_output_time, kill_reason, compacting, pipe, lastWritten>>
BY DEF KeepWithinLimits, SelectTimesOut, supervisorEnv, historyVars

LEMMA ReadOutput ==
  ASSUME ReadChunk
  PROVE  /\ last_output_time' = now /\ pipe' = <<>>
         /\ compacting' = Observed
         /\ UNCHANGED <<kill_reason, lastWritten>>
BY DEF ReadChunk, historyVars

LEMMA SilenceStep ==
  TypeOK /\ SilenceInv /\ [Next]_vars => SilenceInv'
<1> SUFFICES ASSUME SupervisorTypeOK, OutputTypeOK, SilenceInv, [Next]_vars
             PROVE  SilenceInv'
  BY DEF TypeOK
<1> USE WatchdogAssumption DEF SilenceInv, InLoop, SupervisorTypeOK, OutputTypeOK, Time
<1>1. CASE KeepWithinLimits
  <2>1. PICK d \in 0..Lag : now' = now + d
    BY <1>1, KeepFacts
  <2>2. QED BY <1>1, <2>1, KeepFacts, KeepOutput
<1>2. CASE SelectTimesOut
  <2>1. pipe = <<>>
    BY <1>2 DEF SelectTimesOut
  <2>2. QED BY <1>2, <2>1, TimeoutFacts, KeepOutput
<1>3. CASE ReadChunk
  BY <1>3, ReadFacts, ReadOutput
<1>4. CASE Leaving
  BY <1>4, LeaveFacts, LeaveOutput
<1>5. CASE Environment
  <2>1. CASE Write
    <3>1. pipe' # <<>> /\ lastWritten'.at = now
      BY <2>1, WriteFacts
    <3>2. QED BY <3>1, <1>5, EnvironmentFacts
  <2>2. CASE ~Write
    BY <2>2, <1>5, OtherFacts, EnvironmentFacts
  <2>3. QED BY <2>1, <2>2
<1>6. CASE UNCHANGED vars
  BY <1>6 DEF vars, superVars, historyVars
<1>7. QED BY <1>1, <1>2, <1>3, <1>4, <1>5, <1>6, Steps

\* A line without an end changes nothing; a complete one replaces what was known.
LEMMA AppendObserved ==
  ASSUME NEW o \in Output, pipe \in Seq(Output), pipe' = Append(pipe, o),
         compacting' = compacting,
         o = "compacting" \/ (o = "partial" /\ Observed)
  PROVE  Observed'
<1>0. DOMAIN pipe' = 1..(Len(pipe) + 1) /\ DOMAIN pipe = 1..Len(pipe)
  OBVIOUS
<1>1. CASE o = "compacting"
  <2>1. pipe'[Len(pipe) + 1] = "compacting"
    BY <1>1
  <2>2. \A j \in DOMAIN pipe' : ~(j > Len(pipe) + 1)
    BY <1>0
  <2>3. Len(pipe) + 1 \in DOMAIN pipe'
    BY <1>0
  <2>4. QED BY <2>1, <2>2, <2>3 DEF Observed
<1>2. CASE o = "partial" /\ compacting /\ NoLine(pipe)
  <2>1. \A i \in DOMAIN pipe' : pipe'[i] = "partial"
    BY <1>0, <1>2 DEF NoLine
  <2>2. compacting'
    BY <1>2, Zenon
  <2>3. QED BY <2>1, <2>2, Zenon DEF Observed, NoLine
<1>3. CASE o = "partial" /\ ~(compacting /\ NoLine(pipe))
  <2>1. PICK i \in DOMAIN pipe :
          /\ pipe[i] = "compacting"
          /\ \A j \in DOMAIN pipe : j > i => pipe[j] = "partial"
    BY <1>3, Zenon DEF Observed
  <2>2. i \in DOMAIN pipe' /\ pipe'[i] = "compacting"
    BY <2>1, <1>0
  <2>3. \A j \in DOMAIN pipe' : j > i => pipe'[j] = "partial"
    BY <2>1, <1>0, <1>3
  <2>4. QED BY <2>2, <2>3, Zenon DEF Observed
<1>4. QED BY <1>1, <1>2, <1>3, Zenon

\* The announcement is not lost by any step.
LEMMA AnnouncedStep ==
  TypeOK /\ AnnouncedInv /\ [Next]_vars => AnnouncedInv'
<1> SUFFICES ASSUME OutputTypeOK, AnnouncedInv, [Next]_vars,
                    InLoop', lastWritten'.what = "compacting"
             PROVE  Observed'
  BY DEF TypeOK, AnnouncedInv
<1>1. CASE KeepWithinLimits \/ SelectTimesOut
  <2>1. InLoop
    BY <1>1, KeepFacts, TimeoutFacts DEF InLoop
  <2>2. UNCHANGED <<compacting, pipe, lastWritten>>
    BY <1>1, KeepOutput
  <2>3. QED BY <2>1, <2>2 DEF AnnouncedInv, Observed, NoLine
<1>2. CASE ReadChunk
  <2>1. Observed
    BY <1>2, ReadFacts, ReadOutput DEF AnnouncedInv, InLoop
  <2>2. compacting' /\ pipe' = <<>>
    BY <1>2, <2>1, ReadOutput
  <2>3. NoLine(pipe')
    BY <2>2 DEF NoLine
  <2>4. QED BY <2>2, <2>3, Zenon DEF Observed, NoLine
<1>3. CASE Leaving
  BY <1>3, LeaveFacts DEF InLoop
<1>4. CASE Environment
  <2>1. InLoop /\ compacting' = compacting
    BY <1>4, EnvironmentFacts DEF InLoop
  <2>2. CASE Write
    <3>1. PICK o \in Output :
            /\ pipe' = Append(pipe, o)
            /\ lastWritten'.what = IF o = "partial" THEN lastWritten.what ELSE o
      BY <2>2, WriteFacts
    <3>2. o = "compacting" \/ (o = "partial" /\ Observed)
      BY <3>1, <2>1 DEF AnnouncedInv
    <3>3. pipe \in Seq(Output)
      BY DEF OutputTypeOK
    <3>4. QED BY <3>1, <3>2, <3>3, <2>1, AppendObserved
  <2>3. CASE ~Write
    <3>1. UNCHANGED <<pipe, lastWritten>>
      BY <1>4, <2>3, OtherFacts
    <3>2. QED BY <3>1, <2>1 DEF AnnouncedInv, Observed, NoLine
  <2>4. QED BY <2>2, <2>3
<1>5. CASE UNCHANGED vars
  <2>1. InLoop /\ UNCHANGED <<compacting, pipe, lastWritten>>
    BY <1>5 DEF vars, superVars, historyVars, InLoop
  <2>2. QED BY <2>1 DEF AnnouncedInv, Observed, NoLine
<1>6. QED BY <1>1, <1>2, <1>3, <1>4, <1>5, Steps

OutputInv == TypeOK /\ SilenceInv /\ AnnouncedInv

THEOREM OutputInvariance == Spec => []OutputInv
<1>1. Init => OutputInv
  BY TypeInit, SilenceInit DEF OutputInv
<1>2. OutputInv /\ [Next]_vars => OutputInv'
  BY TypeStep, SilenceStep, AnnouncedStep DEF OutputInv
<1>3. QED BY <1>1, <1>2, PTL DEF Spec

\* A kill for silence is the pass over the limits that finds the silence too long.
LEMMA IdleKillFacts ==
  ASSUME SilenceInv, [Next]_vars, IdleKill
  PROVE  IdleExceeded
<1>1. kill_reason = None /\ kill_reason' # None
  BY DEF SilenceInv, InLoop, IdleKill, None
<1>2. KillForLimit
  BY <1>1, EnvironmentFacts
  DEF IdleKill, vars, superVars, Next, Supervise, Over, KeepWithinLimits,
      SelectTimesOut, ReadChunk, EndOfOutput, Drain, WaitForExit, Teardown, ReadFails, Interrupt
<1>3. QED
  BY <1>2 DEF KillForLimit, IdleKill, LimitExceeded, None

\* A process killed for silence had written nothing for the whole extended timeout,
\* read or unread, complete lines or not (_stream_process_output).
THEOREM SilenceIsReal == Spec => SilenceWasReal
<1>1. OutputInv /\ [Next]_vars =>
        [IdleKill => \/ lastWritten.at = now
                     \/ now - lastWritten.at >= PartialCap]_vars
  <2> SUFFICES ASSUME OutputInv, [Next]_vars, IdleKill, lastWritten.at # now
               PROVE  now - lastWritten.at >= PartialCap
    OBVIOUS
  <2>1. lastWritten.at <= last_output_time
    BY DEF OutputInv, SilenceInv, IdleKill, InLoop
  <2>2. Idle >= PartialCap
    BY IdleKillFacts DEF OutputInv, IdleExceeded
  <2>3. QED
    BY <2>1, <2>2, CapType
    DEF OutputInv, TypeOK, SupervisorTypeOK, OutputTypeOK, Time, Idle
<1>2. QED BY <1>1, OutputInvariance, PTL DEF Spec, SilenceWasReal

\* A process that announced a compaction is left alone until its next event, also
\* when the announcement has not been read yet (_update_observer).
THEOREM CompactionIsSafe == Spec => CompactionIsForgiven
<1>1. OutputInv /\ [Next]_vars =>
        [IdleKill /\ lastWritten.what = "compacting" => lastWritten.at = now]_vars
  <2> SUFFICES ASSUME OutputInv, [Next]_vars, IdleKill,
                      lastWritten.what = "compacting", lastWritten.at # now
               PROVE  FALSE
    OBVIOUS
  <2>1. pipe = <<>> /\ InLoop
    BY DEF OutputInv, SilenceInv, IdleKill, InLoop
  <2>2. Observed
    BY <2>1 DEF OutputInv, AnnouncedInv
  <2>3. compacting
    BY <2>1, <2>2 DEF Observed
  <2>4. QED BY <2>3, IdleKillFacts DEF OutputInv, IdleExceeded
<1>2. QED BY <1>1, OutputInvariance, PTL DEF Spec, CompactionIsForgiven
-----------------------------------------------------------------------------
(* The nudge *)

\* While nothing was sent in this silence, the silence is still short; what was sent
\* in it was sent as soon as it was long enough.
NudgeInv ==
  IdleTimeout > NudgeBefore =>
    /\ pc = "limits" /\ last_nudge_time = Never /\ nudge_refused = Never
         => Idle <= IdleTimeout - NudgeBefore + Lag
    /\ pc = "select" /\ last_nudge_time = Never /\ nudge_refused = Never
         => Idle < IdleTimeout - NudgeBefore + Lag
    /\ InLoop /\ nudge_refused # Never
         => nudge_refused <= last_output_time + (IdleTimeout - NudgeBefore) + Lag
    /\ InLoop /\ last_nudge_time # Never /\ nudge_refused = Never
         => last_nudge_time <= last_output_time + (IdleTimeout - NudgeBefore) + Lag

NudgedInv == OutputInv /\ NudgeInv

LEMMA NudgeInit == Init => NudgeInv
BY WatchdogAssumption DEF Init, NudgeInv, InLoop, Idle


LEMMA NudgeStep == OutputInv /\ NudgeInv /\ [Next]_vars => NudgeInv'
<1> SUFFICES ASSUME SupervisorTypeOK, TreeTypeOK, last_output_time <= now,
                    IdleTimeout > NudgeBefore, NudgeInv, [Next]_vars
             PROVE  NudgeInv'
  BY DEF OutputInv, SilenceInv, TypeOK, NudgeInv
<1> USE WatchdogAssumption DEF NudgeInv, InLoop, Idle, SupervisorTypeOK, Time, Never
<1>1. CASE KeepWithinLimits
  <2>1. PICK d \in 0..Lag : now' = now + d
    BY <1>1, KeepFacts
  <2>2. /\ pc = "limits" /\ pc' = "select"
        /\ last_output_time' = last_output_time
        /\ last_nudge_time' = IF NudgeDue /\ last_nudge_time = Never /\ ~deaf
                              THEN now ELSE last_nudge_time
        /\ nudge_refused' = IF NudgeDue /\ last_nudge_time = Never /\ deaf
                                 /\ nudge_refused = Never
                            THEN now ELSE nudge_refused
    BY <1>1, Zenon DEF KeepWithinLimits, SendNudge, NudgeIf
  <2>3. CASE last_nudge_time # Never
    BY <2>1, <2>2, <2>3
  <2>4. CASE last_nudge_time = Never /\ nudge_refused # Never
    BY <2>1, <2>2, <2>4
  <2>5. CASE last_nudge_time = Never /\ nudge_refused = Never /\ NudgeDue
    BY <2>1, <2>2, <2>5
  <2>6. CASE last_nudge_time = Never /\ nudge_refused = Never /\ ~NudgeDue
    BY <2>1, <2>2, <2>6 DEF NudgeDue
  <2>7. QED BY <2>3, <2>4, <2>5, <2>6
<1>2. CASE SelectTimesOut
  <2>1. /\ pc = "select" /\ now' = now + 1
        /\ UNCHANGED <<last_output_time, last_nudge_time, nudge_refused>>
        /\ pc' \in {"drain", "limits"}
    BY <1>2 DEF SelectTimesOut
  <2>2. QED BY <2>1
<1>3. CASE ReadChunk
  <2>1. /\ pc = "select" /\ pc' = "limits" /\ now' = now
        /\ last_output_time' = now /\ last_nudge_time' = Never
        /\ nudge_refused' = Never
    BY <1>3 DEF ReadChunk
  <2>2. QED BY <2>1
<1>4. CASE Leaving
  BY <1>4, LeaveFacts
<1>5. CASE Environment
  BY <1>5, EnvironmentFacts
<1>6. CASE UNCHANGED vars
  BY <1>6 DEF vars, superVars, treeVars
<1>7. QED BY <1>1, <1>2, <1>3, <1>4, <1>5, <1>6, Steps

THEOREM NudgedInvariance == Spec => []NudgedInv
<1>1. Init => NudgedInv
  BY TypeInit, SilenceInit, NudgeInit DEF NudgedInv, OutputInv
<1>2. NudgedInv /\ [Next]_vars => NudgedInv'
  BY TypeStep, SilenceStep, AnnouncedStep, NudgeStep DEF NudgedInv, OutputInv
<1>3. QED BY <1>1, <1>2, PTL DEF Spec

\* A process killed for silence was nudged in that silence, with the rest of the
\* extended timeout to answer, or the nudges failed for that long
\* (_check_resource_limits, _send_nudge).
THEOREM NudgeIsInTime == Spec => NudgedInTime
<1>1. NudgedInv /\ [Next]_vars =>
        [IdleKill /\ IdleTimeout > NudgeBefore =>
           \E since \in {last_nudge_time, nudge_refused} :
             /\ since # Never
             /\ now - since >= PartialCap - (IdleTimeout - NudgeBefore) - Lag]_vars
  <2> SUFFICES ASSUME NudgedInv, [Next]_vars, IdleKill, IdleTimeout > NudgeBefore
               PROVE  \E since \in {last_nudge_time, nudge_refused} :
                        /\ since # Never
                        /\ now - since >= PartialCap - (IdleTimeout - NudgeBefore) - Lag
    OBVIOUS
  <2>1. Idle >= PartialCap
    BY IdleKillFacts DEF NudgedInv, OutputInv, IdleExceeded
  <2>2. SupervisorTypeOK /\ pc = "limits"
    BY DEF NudgedInv, OutputInv, TypeOK, IdleKill
  <2>3. last_nudge_time # Never \/ nudge_refused # Never
    BY <2>1, <2>2, CapType, WatchdogAssumption
    DEF NudgedInv, NudgeInv, SupervisorTypeOK, Time, Idle
  <2>4. PICK since \in {last_nudge_time, nudge_refused} :
          since # Never /\ since <= last_output_time + (IdleTimeout - NudgeBefore) + Lag
    BY <2>2, <2>3 DEF NudgedInv, NudgeInv, InLoop
  <2>5. now - since >= PartialCap - (IdleTimeout - NudgeBefore) - Lag
    <3>1. since \in Nat
      BY <2>2, <2>4, WatchdogAssumption DEF SupervisorTypeOK, Time, Never
    <3>2. QED
      BY <2>1, <2>2, <2>4, <3>1, CapType, WatchdogAssumption
      DEF SupervisorTypeOK, Time, Idle
  <2>6. QED BY <2>4, <2>5
<1>2. QED BY <1>1, NudgedInvariance, PTL DEF Spec, NudgedInTime
-----------------------------------------------------------------------------
(* The children that do nothing *)

\* A child below the leader, and no CPU in use, since the last output.
Resting ==
  HasDescendants /\ ~burning /\ steadySince <= last_output_time

\* CPU that was used before the tree came to rest counts as use at most once: the
\* first pass over the timeout takes a new baseline.
StaleCpuInv ==
  Resting /\ grown =>
    /\ pc = "limits" => Idle <= IdleTimeout + Lag + 1
    /\ pc = "select" => Idle <= IdleTimeout + Lag

\* From then on the extended timeout ends every pass that reaches it.
RestInv ==
  Resting /\ ~compacting =>
    /\ pc = "limits" => Idle <= PartialCap + Lag
    /\ pc = "select" => Idle < PartialCap + Lag

QuietInv == OutputInv /\ StaleCpuInv /\ RestInv

LEMMA QuietInit == Init => StaleCpuInv /\ RestInv
BY DEF Init, StaleCpuInv, RestInv, Resting, HasDescendants

\* What changes a resting tree is noted: after it, the tree has been resting no
\* longer than the silence lasts only if the silence begins now.
LEMMA RestFacts ==
  ASSUME Environment, Resting'
  PROVE  \/ Resting /\ (grown' => grown)
         \/ steadySince' = now
<1>1. CASE Write \/ LeaderClosesOutput \/ InputCloses \/ MemoryChanges
  BY <1>1, EnvironmentFacts, Zenon
  DEF Write, LeaderClosesOutput, InputCloses, MemoryChanges, treeVars, Resting, HasDescendants
<1>2. CASE ChildStarts \/ ChildExits \/ ActivityChanges \/ LeaderExits
  BY <1>2, Zenon DEF ChildStarts, ChildExits, ActivityChanges, LeaderExits
<1>3. QED BY <1>1, <1>2 DEF Environment

LEMMA QuietStep ==
  OutputInv /\ StaleCpuInv /\ RestInv /\ [Next]_vars => StaleCpuInv' /\ RestInv'
<1> SUFFICES ASSUME SupervisorTypeOK, TreeTypeOK, last_output_time <= now,
                    StaleCpuInv, RestInv, [Next]_vars, Resting'
             PROVE  /\ grown' =>
                         /\ pc' = "limits" => Idle' <= IdleTimeout + Lag + 1
                         /\ pc' = "select" => Idle' <= IdleTimeout + Lag
                    /\ ~compacting' =>
                         /\ pc' = "limits" => Idle' <= PartialCap + Lag
                         /\ pc' = "select" => Idle' < PartialCap + Lag
  BY DEF OutputInv, SilenceInv, TypeOK, StaleCpuInv, RestInv
<1>0. /\ now \in Nat /\ last_output_time \in Nat /\ steadySince \in Nat
      /\ IdleTimeout \in Nat /\ Lag \in Nat
      /\ PartialCap \in Nat /\ PartialCap > IdleTimeout + Lag + 1
      /\ PartialCap' = PartialCap
  BY WatchdogAssumption, CapType DEF SupervisorTypeOK, TreeTypeOK, Time, PartialCap
<1>1. CASE KeepWithinLimits
  <2>1. PICK d \in 0..Lag :
          now' = now + d /\ grown' = ((grown /\ ~Resampled) \/ (burning /\ d > 0))
    BY <1>1 DEF KeepWithinLimits
  <2>2. pc = "limits" /\ pc' = "select" /\ UNCHANGED <<last_output_time, compacting>>
    BY <1>1, KeepFacts, KeepOutput
  <2>3. Resting
    BY <1>1, Zenon
    DEF KeepWithinLimits, supervisorEnv, historyVars, Resting, HasDescendants
  <2>4. ~burning /\ HasDescendants
    BY <2>3 DEF Resting
  <2>5. Idle \in Nat /\ Idle' = Idle + d
    BY <1>0, <2>1, <2>2 DEF Idle
  <2>6. grown' => grown /\ ~Overdue
    BY <2>1, <2>4, Zenon DEF Resampled
  <2>7. grown' => Idle' <= IdleTimeout + Lag
    BY <1>0, <2>1, <2>5, <2>6 DEF Overdue
  <2>8. ~compacting => Idle < PartialCap
    <3>1. SUFFICES ASSUME ~compacting, Idle >= PartialCap PROVE FALSE
      BY <1>0, <2>5
    <3>2. Overdue
      BY <1>0, <3>1, <2>5 DEF Overdue
    <3>3. ~grown
      BY <1>0, <3>1, <2>2, <2>3, <2>5 DEF StaleCpuInv
    <3>4. HasDescendants # TreeBusy
      BY <2>4, <3>3, Zenon DEF TreeBusy
    <3>5. IdleExceeded
      BY <3>1, <3>2, <3>4, Zenon DEF IdleExceeded
    <3>6. QED BY <3>5, <1>1, KeepFacts, NothingExceeded
  <2>9. ~compacting' => Idle' < PartialCap + Lag
    BY <1>0, <2>1, <2>2, <2>5, <2>8
  <2>10. QED BY <2>2, <2>7, <2>9
<1>2. CASE SelectTimesOut
  <2>1. /\ pc = "select" /\ pc' # "select" /\ now' = now + 1
        /\ UNCHANGED <<last_output_time, compacting>>
    BY <1>2, TimeoutFacts, KeepOutput
  <2>2. Resting /\ (grown' => grown)
    <3>1. /\ UNCHANGED <<kid, burning, steadySince, last_output_time>>
          /\ grown' = (grown \/ burning)
          /\ leader' = IF leader = "exited" THEN "reaped" ELSE leader
      BY <1>2, Zenon DEF SelectTimesOut, supervisorEnv, historyVars
    <3>2. leader' = "running"
      BY Zenon DEF Resting, HasDescendants
    <3>3. leader = "running"
      BY <3>1, <3>2
    <3>4. QED BY <3>1, <3>3, Zenon DEF Resting, HasDescendants
  <2>3. Idle \in Nat /\ Idle' = Idle + 1
    BY <1>0, <2>1 DEF Idle
  <2>4. grown' => Idle <= IdleTimeout + Lag
    BY <2>1, <2>2, Zenon DEF StaleCpuInv
  <2>5. ~compacting' => Idle < PartialCap + Lag
    BY <2>1, <2>2, Zenon DEF RestInv
  <2>6. grown' => Idle' <= IdleTimeout + Lag + 1
    BY <1>0, <2>3, <2>4
  <2>7. ~compacting' => Idle' <= PartialCap + Lag
    BY <1>0, <2>3, <2>5
  <2>8. QED BY <2>1, <2>6, <2>7, Zenon
<1>3. CASE ReadChunk
  <2>1. Idle' = 0
    BY <1>0, <1>3, ReadFacts, ReadOutput DEF Idle
  <2>2. pc' = "limits"
    BY <1>3, ReadFacts
  <2>3. 0 <= IdleTimeout + Lag + 1 /\ 0 <= PartialCap + Lag
    BY <1>0
  <2>4. QED BY <2>1, <2>2, <2>3
<1>4. CASE Leaving
  BY <1>4, LeaveFacts
<1>5. CASE Environment
  <2>1. UNCHANGED <<pc, now, last_output_time, compacting>> /\ Idle' = Idle
    BY <1>5, EnvironmentFacts DEF Idle
  <2>2. CASE Resting /\ (grown' => grown)
    BY <2>1, <2>2, Zenon DEF StaleCpuInv, RestInv
  <2>3. CASE steadySince' = now
    <3>1. now <= last_output_time
      BY <2>1, <2>3 DEF Resting
    <3>2. Idle = 0
      BY <1>0, <3>1 DEF Idle
    <3>3. /\ 0 <= IdleTimeout + Lag /\ 0 <= IdleTimeout + Lag + 1
          /\ 0 < PartialCap + Lag /\ 0 <= PartialCap + Lag
      BY <1>0
    <3>4. QED BY <2>1, <3>2, <3>3
  <2>4. QED BY <1>5, <2>2, <2>3, RestFacts
<1>6. CASE UNCHANGED vars
  <2>1. /\ UNCHANGED <<pc, now, last_output_time, compacting, grown>>
        /\ Resting /\ Idle' = Idle
    BY <1>6, Zenon DEF vars, superVars, treeVars, historyVars, Resting,
                       HasDescendants, Idle
  <2>2. QED BY <2>1, Zenon DEF StaleCpuInv, RestInv
<1>7. QED BY <1>1, <1>2, <1>3, <1>4, <1>5, <1>6, Steps

\* A child that hangs keeps a silent process alive for the extended timeout and no
\* longer, also when the tree was busy before (_check_idle_timeout).
THEOREM QuietTreeIsKilled == Spec => []QuiescentTreeIsKilled
<1>1. Init => QuietInv
  BY TypeInit, SilenceInit, QuietInit DEF QuietInv, OutputInv
<1>2. QuietInv /\ [Next]_vars => QuietInv'
  BY TypeStep, SilenceStep, AnnouncedStep, QuietStep DEF QuietInv, OutputInv
<1>3. QuietInv => QuiescentTreeIsKilled
  <2> SUFFICES ASSUME SupervisorTypeOK, last_output_time <= now, RestInv,
                      InLoop, Resting, ~compacting
               PROVE  Idle <= PartialCap + Lag
    BY DEF QuietInv, OutputInv, SilenceInv, TypeOK, QuiescentTreeIsKilled, Resting
  <2>1. CASE pc = "limits"
    BY <2>1, Zenon DEF RestInv
  <2>2. CASE pc = "select"
    <3>1. Idle < PartialCap + Lag
      BY <2>2, Zenon DEF RestInv
    <3>2. Idle \in Nat /\ PartialCap + Lag \in Nat
      BY CapType, WatchdogAssumption DEF SupervisorTypeOK, Time, Idle
    <3>3. QED BY <3>1, <3>2
  <2>3. QED BY <2>1, <2>2 DEF InLoop
<1>4. QED BY <1>1, <1>2, <1>3, PTL DEF Spec
=============================================================================
