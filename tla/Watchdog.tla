------------------------------ MODULE Watchdog ------------------------------
(***************************************************************************)
(* One Claude process under supervision: process._execute_claude_process   *)
(* and the loop _stream_process_output, which reads the process's output   *)
(* and kills it when it is silent, late or uses too much memory.           *)
(*                                                                         *)
(* Time is counted in rounds of select (_stream_process_output waits one   *)
(* second), so the intervals of the code are scaled down; the measuring    *)
(* itself may take up to Lag.  The process tree is the leader, which is    *)
(* the claude process, and one child of it; what the operating system,     *)
(* Claude and its children do is an environment that may act at any        *)
(* moment, a bounded number of times.  Telling which processes a kill      *)
(* reaches is left to the process tree; here a kill ends the leader and    *)
(* the children that are still below it.                                   *)
(***************************************************************************)
EXTENDS Naturals, Sequences

CONSTANTS
  Limits,        \* command lines: [check_timeout, max_memory, floor]
  IdleTimeout,   \* --idle-timeout
  NudgeBefore,   \* _NUDGE_BEFORE_TIMEOUT
  GraceMultiplier, \* _CPU_GRACE_MULTIPLIER
  MemInterval,   \* _MEMORY_CHECK_INTERVAL
  MinWall,       \* the shortest wall time over which CPU use is measured
  Lag,           \* bound: time the measurements of one round may take
  MaxTime,       \* bound: time
  MaxEvents      \* bound: what happens around the supervisor

None == "none"
Never == MaxTime + 1
Time == 0..MaxTime

ASSUME WatchdogAssumption ==
  /\ IdleTimeout \in Nat \ {0} /\ NudgeBefore \in Nat /\ GraceMultiplier \in Nat
  /\ MemInterval \in Nat \ {0} /\ MinWall \in Nat \ {0} /\ Lag \in Nat
  /\ MaxTime \in Nat /\ MaxEvents \in Nat
  /\ Limits \subseteq [check_timeout : Nat, max_memory : BOOLEAN, floor : BOOLEAN]

\* The extended timeout is longer than the timeout by more than one pass over the
\* limits and one round of select.
ASSUME ScaleAssumption == GraceMultiplier * IdleTimeout > IdleTimeout + Lag + 1

VARIABLES
  limits,            \* the limits of this run; max_memory and floor say whether
                     \* they are enabled
  (* the supervisor *)
  pc,                \* "limits", "select", "drain", "wait", "teardown", "done"
  last_output_time, last_memory_check,
  last_nudge_time,   \* Never when no nudge was sent since the last output
  nudge_refused,     \* when the first one failed since then, or Never (history)
  last_cpu_sample,   \* the wall time of the CPU baseline, Never without one
  compacting,        \* observer.compacting
  kill_reason,
  (* the process tree and the machine *)
  now,
  leader,            \* "running", "exited" (a zombie) or "reaped"
  kid,               \* "none", "child" of the leader, or "orphan"
  holders,           \* who holds the write end of stdout
  deaf,              \* nobody reads what is written to stdin
  pipe,              \* output not yet read, oldest first
  burning,           \* some process of the tree is using CPU
  grown,             \* the tree's CPU seconds grew since the baseline
  overSince,         \* since when the tree is over the memory limit, or Never
  lowSince,          \* since when free memory is under the floor, or Never
  (* bounds and history *)
  events,
  steadySince,       \* since when kid and burning are what they are
  lastWritten        \* the last event written, and when

superVars == <<pc, last_output_time, last_memory_check, last_nudge_time,
               nudge_refused, last_cpu_sample, compacting, kill_reason>>
treeVars  == <<leader, kid, holders, deaf, burning, overSince, lowSince>>
historyVars == <<events, steadySince, lastWritten>>
vars == <<limits, superVars, now, treeVars, pipe, grown, historyVars>>

Processes == {"leader", "child"}

\* What arrives on stdout: a complete event, the event that announces a
\* compaction, or bytes that end no line.
Output == {"event", "compacting", "partial"}

Init ==
  /\ limits \in Limits
  /\ pc = "limits"
  /\ last_output_time = 0 /\ last_memory_check = 0
  /\ last_nudge_time = Never /\ nudge_refused = Never /\ last_cpu_sample = Never
  /\ compacting = FALSE /\ kill_reason = None
  /\ now = 0
  /\ leader = "running" /\ kid = "none" /\ holders = {"leader"} /\ pipe = <<>>
  /\ deaf = FALSE
  /\ burning = FALSE /\ grown = FALSE
  /\ overSince = Never /\ lowSince = Never
  /\ events = 0 /\ steadySince = 0
  /\ lastWritten = [what |-> "event", at |-> 0]

-----------------------------------------------------------------------------
(* The measurements. *)

Idle    == now - last_output_time
Overdue == Idle > IdleTimeout
\* partial_cap
PartialCap == GraceMultiplier * IdleTimeout
InLoop  == pc \in {"limits", "select"}

\* find_all_descendant_pids walks down from the leader: a child whose leader has
\* exited is no longer below it.
HasDescendants == leader = "running" /\ kid = "child"

\* _measure_busy_ratio: no ratio without a baseline that is old enough.  Any CPU
\* use in that time is above the ratio that counts as busy.
TreeBusy == last_cpu_sample # Never /\ now - last_cpu_sample >= MinWall /\ grown

IntervalElapsed == now - last_memory_check >= MemInterval

\* Whichever measurement runs, it takes a new baseline.
Resampled == Overdue \/ IntervalElapsed

-----------------------------------------------------------------------------
(* The limits. *)

\* Variation: a compaction is not forgiven.
IdleExceededCompacting ==
  /\ Overdue
  /\ HasDescendants # TreeBusy
  /\ Idle >= PartialCap

\* Variation: children are waited for without a cap.
IdleExceededWithoutChildren ==
  /\ Overdue
  /\ ~compacting
  /\ ~HasDescendants /\ TreeBusy
  /\ Idle >= PartialCap

\* A silent process is killed when it shows exactly one sign of work and has had
\* the extended time; both signs, no sign, or a compaction suppress the kill.
IdleExceeded ==
  /\ Overdue
  /\ ~compacting
  /\ HasDescendants # TreeBusy
  /\ Idle >= PartialCap

\* Variation: the wall-clock limit counts silence, not time.
HardTimeoutOfSilence ==
  limits.check_timeout > 0 /\ Idle > limits.check_timeout

HardTimeoutExceeded == limits.check_timeout > 0 /\ now > limits.check_timeout

\* Variation: a process that is writing is not measured.
MemoryRanWhenQuiet == limits.max_memory /\ IntervalElapsed /\ Idle > 0

MemoryRan      == limits.max_memory /\ IntervalElapsed
MemoryExceeded == MemoryRan /\ overSince # Never

\* Variation: the pressure check runs when the memory check does.
PressureWithMemory == limits.floor /\ MemoryRan /\ lowSince # Never

\* The pressure check keeps the memory cadence also when there is no memory limit.
PressureExceeded == limits.floor /\ IntervalElapsed /\ lowSince # Never

\* Variation: a reason of another name.
LimitExceededUnnamed ==
  IF HardTimeoutExceeded THEN "timeout" ELSE None

\* In this order; the first that is exceeded is the reason.
LimitExceeded ==
  CASE IdleExceeded        -> "idle_timeout"
    [] ~IdleExceeded /\ HardTimeoutExceeded -> "check_timeout"
    [] ~IdleExceeded /\ ~HardTimeoutExceeded /\ MemoryExceeded -> "memory_limit"
    [] ~IdleExceeded /\ ~HardTimeoutExceeded /\ ~MemoryExceeded /\ PressureExceeded
         -> "system_memory_pressure"
    [] OTHER -> None

NudgeDue ==
  /\ IdleTimeout > NudgeBefore
  /\ Idle >= IdleTimeout - NudgeBefore

\* A nudge fails (a broken pipe) when nobody reads stdin; it is then tried again in
\* every pass.
NudgeIf(due) ==
  LET try == due /\ last_nudge_time = Never IN
  /\ last_nudge_time' = IF try /\ ~deaf THEN now ELSE last_nudge_time
  /\ nudge_refused' = IF try /\ deaf /\ nudge_refused = Never THEN now ELSE nudge_refused

\* Variation: nudge only when the timeout has passed.
SendNudgeWhenOverdue == NudgeIf(NudgeDue /\ Overdue)

\* Once in every silence.
SendNudge == NudgeIf(NudgeDue)

\* _kill_process_group.  A leader already reaped: nothing below it is found, and
\* nothing is killed.  Otherwise the leader is reaped and its children are killed;
\* a child orphaned by a leader that had exited may escape.
KillProcessGroup ==
  /\ leader' = "reaped"
  /\ \/ leader = "reaped" /\ UNCHANGED <<kid, holders>>
     \/ leader # "reaped" /\ kid' = "none" /\ holders' = {}
     \/ leader = "exited" /\ UNCHANGED <<kid, holders>>

-----------------------------------------------------------------------------
(* The supervisor. *)

supervisorEnv == <<pipe, deaf, burning, overSince, lowSince, historyVars>>

\* A limit is exceeded: the tree is killed and the loop left.
KillForLimit ==
  /\ pc = "limits"
  /\ LimitExceeded # None
  /\ SendNudge
  /\ kill_reason' = LimitExceeded
  /\ KillProcessGroup
  /\ pc' = "wait"
  /\ UNCHANGED <<limits, last_output_time, last_memory_check, last_cpu_sample,
                 compacting, now, grown, supervisorEnv>>

\* None is: the cadence and the CPU baseline move on.
KeepWithinLimits ==
  /\ pc = "limits"
  /\ LimitExceeded = None
  /\ SendNudge
  /\ last_memory_check' = IF IntervalElapsed THEN now ELSE last_memory_check
  /\ last_cpu_sample' = IF Resampled THEN now ELSE last_cpu_sample
  /\ \E d \in 0..Lag :
       /\ now + d <= MaxTime
       /\ now' = now + d
       /\ grown' = \/ grown /\ ~Resampled
                   \/ burning /\ d > 0
  /\ pc' = "select"
  /\ UNCHANGED <<limits, last_output_time, compacting, kill_reason, leader, kid,
                 holders, supervisorEnv>>

NoLine(output) == \A i \in DOMAIN output : output[i] = "partial"

\* observer.compacting after what is in the pipe was read: what the last complete
\* line says, and nothing new without one.
Observed ==
  \/ compacting /\ NoLine(pipe)
  \/ \E i \in DOMAIN pipe :
       /\ pipe[i] = "compacting"
       /\ \A j \in DOMAIN pipe : j > i => pipe[j] = "partial"

\* Variation: only a complete line counts as output.
ReadChunkOfLines ==
  /\ pc = "select" /\ pipe # <<>>
  /\ last_output_time' = IF NoLine(pipe) THEN last_output_time ELSE now
  /\ last_nudge_time' = Never /\ nudge_refused' = Never
  /\ compacting' = Observed
  /\ pipe' = <<>>
  /\ pc' = "limits"
  /\ UNCHANGED <<limits, last_memory_check, last_cpu_sample, kill_reason, now,
                 treeVars, grown, historyVars>>

\* Whatever is there is read; any of it ends the silence.
ReadChunk ==
  /\ pc = "select" /\ pipe # <<>>
  /\ last_output_time' = now
  /\ last_nudge_time' = Never /\ nudge_refused' = Never
  /\ compacting' = Observed
  /\ pipe' = <<>>
  /\ pc' = "limits"
  /\ UNCHANGED <<limits, last_memory_check, last_cpu_sample, kill_reason, now,
                 treeVars, grown, historyVars>>

EndOfOutput ==
  /\ pc = "select" /\ pipe = <<>> /\ holders = {}
  /\ pc' = "wait"
  /\ UNCHANGED <<limits, last_output_time, last_memory_check, last_nudge_time,
                 nudge_refused, last_cpu_sample, compacting, kill_reason, now, treeVars, pipe,
                 grown, historyVars>>

\* Nothing to read for a round.  poll() reaps a leader that has exited, and then
\* only what is left on stdout is read.
SelectTimesOut ==
  /\ pc = "select" /\ pipe = <<>> /\ holders # {}
  /\ now < MaxTime
  /\ now' = now + 1
  /\ grown' = (grown \/ burning)
  /\ leader' = IF leader = "exited" THEN "reaped" ELSE leader
  /\ pc' = IF leader = "exited" THEN "drain" ELSE "limits"
  /\ UNCHANGED <<limits, last_output_time, last_memory_check, last_nudge_time,
                 nudge_refused, last_cpu_sample, compacting, kill_reason, kid, holders,
                 supervisorEnv>>

\* _drain_remaining_stdout reads until the end of the output, without a timeout
\* and without looking at the limits.
Drain ==
  /\ pc = "drain"
  /\ pipe # <<>> \/ holders = {}
  /\ compacting' = Observed
  /\ pipe' = <<>>
  /\ pc' = IF holders = {} THEN "wait" ELSE "drain"
  /\ UNCHANGED <<limits, last_output_time, last_memory_check, last_nudge_time,
                 nudge_refused, last_cpu_sample, kill_reason, now, treeVars, grown, historyVars>>

\* Variation: process.wait() without a timeout.
WaitWithoutTimeout ==
  /\ pc = "wait"
  /\ leader' = IF leader = "running" THEN "running" ELSE "reaped"
  /\ pc' = IF leader = "running" THEN "wait" ELSE "teardown"
  /\ UNCHANGED <<limits, last_output_time, last_memory_check, last_nudge_time,
                 nudge_refused, last_cpu_sample, compacting, kill_reason, now, kid, holders,
                 grown, supervisorEnv>>

\* A leader that outlives its output is given a moment to exit, and then counts as
\* idle.
WaitForExit ==
  /\ pc = "wait"
  /\ \/ /\ leader' = "reaped" /\ UNCHANGED kill_reason
        /\ kid' = IF kid = "child" THEN "orphan" ELSE kid
        /\ holders' = holders \ {"leader"}
     \/ /\ leader = "running" /\ UNCHANGED <<leader, kid, holders>>
        /\ kill_reason' = IF kill_reason = None THEN "idle_timeout" ELSE kill_reason
  /\ pc' = "teardown"
  /\ UNCHANGED <<limits, last_output_time, last_memory_check, last_nudge_time,
                 nudge_refused, last_cpu_sample, compacting, now, grown,
                 supervisorEnv>>

\* The kill on every exit path.
Teardown ==
  /\ pc = "teardown"
  /\ KillProcessGroup
  /\ pc' = "done"
  /\ UNCHANGED <<limits, last_output_time, last_memory_check, last_nudge_time,
                 nudge_refused, last_cpu_sample, compacting, kill_reason, now, grown,
                 supervisorEnv>>

\* select or a read fails (OSError): the output is given up.
ReadFails ==
  /\ pc \in {"select", "drain"}
  /\ pc' = "wait"
  /\ UNCHANGED <<limits, last_output_time, last_memory_check, last_nudge_time,
                 nudge_refused, last_cpu_sample, compacting, kill_reason, now, treeVars, pipe,
                 grown, historyVars>>

\* Ctrl-C, or a signal whose handler exits, wherever the supervisor is.
Interrupt ==
  /\ pc \in {"limits", "select", "drain", "wait"}
  /\ pc' = "teardown"
  /\ UNCHANGED <<limits, last_output_time, last_memory_check, last_nudge_time,
                 nudge_refused, last_cpu_sample, compacting, kill_reason, now, treeVars, pipe,
                 grown, historyVars>>

Supervise ==
  \/ KillForLimit \/ KeepWithinLimits
  \/ ReadChunk \/ EndOfOutput \/ SelectTimesOut
  \/ Drain \/ WaitForExit \/ Teardown

-----------------------------------------------------------------------------
(* The environment. *)

Happens ==
  /\ pc \in {"limits", "select", "drain"}
  /\ events < MaxEvents
  /\ events' = events + 1
  /\ UNCHANGED <<limits, superVars, now>>

Write ==
  /\ Happens
  /\ holders # {}
  /\ Len(pipe) < 2
  /\ \E o \in Output :
       /\ pipe' = Append(pipe, o)
       /\ lastWritten' =
            [what |-> IF o = "partial" THEN lastWritten.what ELSE o, at |-> now]
  /\ UNCHANGED <<treeVars, grown, steadySince>>

ChildStarts ==
  /\ Happens
  /\ leader = "running" /\ kid = "none"
  /\ kid' = "child"
  /\ \E inherited \in SUBSET {"child"} : holders' = holders \union inherited
  /\ steadySince' = now
  /\ UNCHANGED <<leader, deaf, burning, overSince, lowSince, pipe, grown,
                 lastWritten>>

\* The CPU seconds of a child that is gone are gone from the sum, and with the
\* last process stdin closes.
ChildExits ==
  /\ Happens
  /\ kid # "none"
  /\ kid' = "none" /\ holders' = holders \ {"child"}
  /\ deaf' = (deaf \/ leader # "running")
  /\ grown' \in {grown, FALSE}
  /\ steadySince' = now
  /\ UNCHANGED <<leader, burning, overSince, lowSince, pipe, lastWritten>>

ActivityChanges ==
  /\ Happens
  /\ leader = "running"
  /\ burning' = ~burning
  /\ steadySince' = now
  /\ UNCHANGED <<leader, kid, holders, deaf, overSince, lowSince, pipe, grown,
                 lastWritten>>

\* A child may have inherited stdin.
LeaderExits ==
  /\ Happens
  /\ leader = "running"
  /\ leader' = "exited"
  /\ kid' = IF kid = "child" THEN "orphan" ELSE kid
  /\ holders' = holders \ {"leader"}
  /\ deaf' \in {TRUE} \union (IF kid = "none" THEN {} ELSE {deaf})
  /\ burning' = FALSE
  /\ overSince' \in {overSince, Never}
  /\ steadySince' = now
  /\ UNCHANGED <<lowSince, pipe, grown, lastWritten>>

LeaderClosesOutput ==
  /\ Happens
  /\ "leader" \in holders
  /\ holders' = holders \ {"leader"}
  /\ UNCHANGED <<leader, kid, deaf, burning, overSince, lowSince, pipe, grown,
                 steadySince, lastWritten>>

InputCloses ==
  /\ Happens
  /\ ~deaf
  /\ deaf' = TRUE
  /\ UNCHANGED <<leader, kid, holders, burning, overSince, lowSince, pipe, grown,
                 steadySince, lastWritten>>

Toggled(since) == IF since = Never THEN now ELSE Never

MemoryChanges ==
  /\ Happens
  /\ \/ /\ limits.max_memory
        /\ overSince' = Toggled(overSince)
        /\ UNCHANGED lowSince
     \/ /\ limits.floor
        /\ lowSince' = Toggled(lowSince)
        /\ UNCHANGED overSince
  /\ UNCHANGED <<leader, kid, holders, deaf, burning, pipe, grown, steadySince,
                 lastWritten>>

Environment ==
  \/ Write \/ ChildStarts \/ ChildExits \/ ActivityChanges
  \/ LeaderExits \/ LeaderClosesOutput \/ InputCloses \/ MemoryChanges

Over == pc = "done" /\ UNCHANGED vars

Next == Supervise \/ ReadFails \/ Interrupt \/ Environment \/ Over

\* The supervisor's own steps are taken; nothing is assumed of the operator or of
\* the processes it supervises.
Spec == Init /\ [][Next]_vars /\ WF_vars(Supervise)

-----------------------------------------------------------------------------
(* Properties. *)

FlagsTypeOK ==
  compacting \in BOOLEAN /\ burning \in BOOLEAN /\ grown \in BOOLEAN /\ deaf \in BOOLEAN

SupervisorTypeOK ==
  /\ limits \in Limits
  /\ pc \in {"limits", "select", "drain", "wait", "teardown", "done"}
  /\ last_output_time \in Time /\ last_memory_check \in Time
  /\ last_nudge_time \in Time \union {Never} /\ nudge_refused \in Time \union {Never}
  /\ last_cpu_sample \in Time \union {Never}
  /\ kill_reason \in {None, "idle_timeout", "check_timeout", "memory_limit",
                      "system_memory_pressure"}
  /\ now \in Time

TreeTypeOK ==
  /\ leader \in {"running", "exited", "reaped"}
  /\ kid \in {"none", "child", "orphan"}
  /\ holders \subseteq Processes
  /\ overSince \in Time \union {Never} /\ lowSince \in Time \union {Never}
  /\ events \in 0..MaxEvents /\ steadySince \in Time

OutputTypeOK ==
  /\ pipe \in Seq(Output)
  /\ lastWritten \in [what : {"event", "compacting"}, at : Time]

TypeOK == FlagsTypeOK /\ SupervisorTypeOK /\ TreeTypeOK /\ OutputTypeOK

IdleKill == pc = "limits" /\ kill_reason' = "idle_timeout"

\* No process is killed for silence when its output, whether or not it completed
\* a line, was read within the extended timeout; what came in the very moment of
\* the kill is the only output that is overlooked.
SilenceWasReal ==
  [][IdleKill => \/ lastWritten.at = now
                 \/ now - lastWritten.at >= PartialCap]_vars

\* A process that announced a compaction is not killed for silence until its next
\* event, wherever the announcement still is: in the pipe or read.
CompactionIsForgiven ==
  [][IdleKill /\ lastWritten.what = "compacting" => lastWritten.at = now]_vars

\* A process killed for silence was nudged, NudgeBefore ahead of the timeout, and
\* has had the rest of the extended timeout to answer; when nobody read its stdin,
\* that is how long nudges have failed.  (With a timeout that is not longer than
\* NudgeBefore there are no nudges.)
NudgedInTime ==
  [][IdleKill /\ IdleTimeout > NudgeBefore =>
       \E since \in {last_nudge_time, nudge_refused} :
         /\ since # Never
         /\ now - since >= PartialCap - (IdleTimeout - NudgeBefore) - Lag]_vars

\* Children that do nothing do not keep a silent process alive beyond the extended
\* timeout.
QuiescentTreeIsKilled ==
  InLoop /\ HasDescendants /\ ~burning /\ steadySince <= last_output_time
    /\ ~compacting
  => Idle <= PartialCap + Lag

\* While output is read, the tree is never over its memory limit for longer than
\* the sampling interval and one pass of the loop.
MemoryLimitHolds ==
  InLoop /\ overSince # Never => now - overSince <= MemInterval + Lag

\* The same of the machine's free memory, with and without a memory limit.
PressureIsNoticed ==
  InLoop /\ lowSince # Never => now - lowSince <= MemInterval + Lag

\* While output is read, no process runs past the wall-clock limit by more than
\* one pass of the loop, however much it writes.
HardTimeoutHolds ==
  InLoop /\ limits.check_timeout > 0 => now <= limits.check_timeout + Lag + 1

\* A supervised process with a wall-clock limit comes to its end, unless a child
\* that outlives it keeps its output open.
SupervisionEnds == <>[](pc = "done" \/ (pc = "drain" /\ "child" \in holders))

\* README.md:436: with children alive and CPU in use, the kill for silence is
\* suppressed entirely.
BusyTreeSurvives ==
  [][IdleKill => ~(HasDescendants /\ burning /\ steadySince <= last_output_time)]_vars
=============================================================================
