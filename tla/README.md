# A specification of checkloop

checkloop runs a list of review checks over a repository. For each check it starts
a Claude process that edits the working tree, watches over that process, commits
what it did to a scratch branch, and saves a checkpoint so that an interrupted run
can be resumed. The list can be repeated for several cycles, until the repository
stops changing.

This directory models that behaviour in TLA+. TLC checks the models on small
instances, and the TLA+ proof system proves their main safety properties for every
value of the constants. `PROJECT.json` relates every definition to the lines of the
source it stands for.

## The system

### Components

All of it is under `src/src/checkloop/`.

| Component | Source | State it keeps | Operations |
|---|---|---|---|
| suite | `suite.py`, `check_runner.py`, `cli.py` | `_SuiteState`: plan, cycle, position, `changed_this_cycle`, scratch branch, outcomes | start or resume, attach to a scratch branch, snapshot, cycle, check, memory fix, commit, converge, summarise, stop |
| checkpoint file | `checkpoint.py` | `.checkloop-checkpoint.json` | save (atomically), load and validate, match, clear |
| git repository | `git.py` | HEAD, branches, commits, working tree | checkout, create scratch branch, commit all, measure change |
| base freshness | `base_freshness.py` | - | refuse a base that is too old |
| watchdog | `process.py`, `streaming.py` | the locals of `_stream_process_output`: last output, nudge, memory check, CPU baseline; `observer.compacting` | read, nudge, check the limits, kill, drain, wait |
| process trees | `process.py`, `monitoring.py` | `known_descendants`, `previous_session_ids`, `previous_descendant_pids` | start, scan, kill a group, sweep after a check, clean up at exit |
| telemetry | `telemetry.py` | `_SamplerState`: thread, file, label | start, sample, record an event, stop, prune |
| model fallback | `process.py` (`run_claude`) | the unavailable-model marker of the last attempt | attempts in order while a model is unavailable |
| JSONL stream | `streaming.py` | the line buffer, the stream observer | append, take complete lines, truncate at the cap, flush |
| clone and run storage | `clone.py`, `run_storage.py` | directories below `~/.checkloop/runs` | prune, reserve, clone, fetch, resolve the review ref, check out |
| project map and rules | `project_map.py`, `project_rules.py` | a cached map with its fingerprint | fingerprint, read, generate, save, fall back |
| selection of checks | `cli_args.py`, `tier_config.py`, `checks.py` | - | validate, resolve the plan, select, order, settings per check |
| commit messages | `commit_message.py` | - | ask Claude, sanitise, fall back |
| sleep prevention | `power.py` | one `caffeinate` child | start |
| terminal output | `terminal.py`, `__init__.py` | - | wording |

### How they interact

`cli.main` selects the checks, starts telemetry and sleep prevention, offers to
resume, and calls the suite. For every check the suite calls `run_single_check`,
which calls `run_claude`, which starts a process and hands it to the watchdog. The
watchdog decides *when* to kill; `_kill_process_group` and `monitoring` decide
*whom*. After a check the suite commits through `git`, saves the checkpoint, and
`monitoring` sweeps what the check left running. Signals and `atexit` handlers can
cut in anywhere. The repository, the checkpoint file and the processes that were
missed are all that outlives checkloop.

Selection decides which calls are made and with which model; the clone decides which
commit is reviewed, and in which directory; the project map is added to the prompt of
every check.

The program's own control is sequential, with one sampler thread beside it. What is
concurrent is the rest: Claude and the processes it starts, the operator, the people
who push to the upstream repository, other checkloop processes with their runs in the
same directory, and the operating system, which may end checkloop between any two
steps.

### What is hard

* **Stopping and resuming.** A run is several processes. A kill between a check and
  its checkpoint, a save or a clear that fails, a checkpoint of another selection, a
  resumed position used twice: each can pass over a check or spoil a cycle.
* **Which branch gets the commits.** Attaching to the scratch branch involves
  several git commands that may each fail, and the operator uses the same repository
  between sessions.
* **What a cycle changed.** Convergence is decided from a commit that a resumed
  session no longer remembers.
* **Silence.** A Claude process is silent for good reasons; five sources of evidence
  (output, nudges, children, CPU, a compaction), sampled at different rates, decide.
* **Limits that are looked at in passing.** Time, memory and free memory are checked
  only between two reads, on cadences that share variables.
* **Processes that get away.** Descendants leave the group, ignore SIGTERM, outlive
  the parent they would be found by, and hold stdout open.

* **Two threads, one file.** The sampler reads a label, spends seconds in `ps`, and
  writes a line; meanwhile the main thread changes the label, writes the end marker
  and closes the file, and may be interrupted in each of these steps.
* **Chunks and models.** Output is cut anywhere, a line can exceed the cap, and what is
  parsed decides whether the call is repeated with another model.
* **Shared directories.** Runs prune what other runs have made, between their looking
  and their deleting; a clone is fetched twice, from two repositories, and each fetch
  prunes what the other brought.
* **A cache that is not replaced atomically.** The project map is written in place,
  while the files it describes change and Claude may fail.

`PROJECT.json` lists each of these hazards at its line, with the properties that
would show it going wrong, or why there is none.

## The modules

| Module | Models | Extends |
|---|---|---|
| `Repo` | the git repository as `git.py` uses it | |
| `Checkpoint` | the checkpoint file | `Repo` |
| `Suite` | runs of checkloop, session after session | `Checkpoint` |
| `CheckPlan` | what resuming promises; the abstract specification of `Suite` | |
| `Watchdog` | one Claude process under supervision | |
| `ProcessTree` | who is killed when, over several checks | |
| `Telemetry` | the main thread and the sampler thread over one telemetry file | |
| `Subsequence` | a list comprehension with a condition | |
| `Selection` | which checks a command line selects, with which settings | `Subsequence` |
| `LineBuffer` | from bytes in chunks to events | `Subsequence` |
| `ClaudeCall` | the calls of a run and the attempts of each call | `Selection`, `LineBuffer` |
| `RunStorage` | several processes over the directory of runs, the source and its upstream | |
| `ProjectMap` | the cached project map | |
| `SuiteProofs`, `PlanProofs` | the theorems about `Suite` | `Suite`, `SuiteProofs` |
| `WatchdogProofs`, `ProcessTreeProofs`, `TelemetryProofs`, `ClaudeCallProofs`, `RunStorageProofs`, `ProjectMapProofs` | the theorems about each | the module |
| `MC...` | values of the constants for TLC | the module |

Operators and variables have the names of the code where there is one. A definition
whose comment begins with "Variation" is the form a plausible bug would give the
operator after it; no action uses it, and it serves to test the properties.

### Repo, Checkpoint, Suite

A **session** is one checkloop process on one directory (`--in-place`), a **run** is
what a fresh session starts and later sessions resume. `pc` is the place in
`_run_check_suite`:

| `pc` | Code |
|---|---|
| `off` | no process |
| `attach`, `snapshot` | `_attach_to_scratch_branch`, `_commit_uncommitted_changes`, `enforce_base_freshness` |
| `cycle` | the head of the loop over cycles, `_resolve_cycle_checks` |
| `check` | `run_single_check`: skip, preview or run |
| `memfix`, `commitfix` | `_run_memory_fix`, and the commit of what it did |
| `commit` | the commit of what the check did |
| `save` | `_save_after_check` |
| `clear` | after the loop: `clear_checkpoint`, the summary |

`Repo` has the branch checked out, the branches that exist, the commit HEAD is at, and
`dirty`, whose edits are uncommitted. The program compares commits only within a session
and while HEAD stays on a branch, so a commit is named by how many were made since the
session began or HEAD came to its branch (`RenameCommits`). Each changes one unit of
lines, and `compute_change_stats` is `git diff` between two commits, which is net:
`undone` of the units committed since the first of them are taken back by later ones.
Generated paths (`Artifacts`) are unstaged before every commit and stay in the tree, and
a commit with nothing else in it is not made, unless one of them was tracked and is
committed as deleted (`GitCommitAll`). Unstaging or committing can fail
(`GitCommitFails`). A branch is named by the session that created it, which is what the
timestamp in the code's name does; branch 0 is the operator's.

`Checkpoint` keeps the fields that a resume uses. Saving replaces the file at once or
not at all (`os.replace` of a temporary file). `CheckpointMatches` compares checks
and their order, and not the number of cycles, as `_validate_checkpoint_match` does.

In `Suite` a session may be interrupted (`Interrupt`, which reports) or killed
(`Kill`) at any step, and any git or file operation may fail, `MaxFaults` times in a
behaviour. Between sessions the operator edits, switches branches, or deletes the
scratch branch. Claude may do nothing, edit, also in generated paths, or commit by
itself: in a check, in a memory fix, and before it is interrupted in one. `ran`,
`previewed`, `landed` (the checks whose commits the session saw in this cycle) and
`completed` are history that no action reads; `undone` is known to `git diff` alone.

`CheckPlan` says what all this is for. A run goes through its plan in order; it may
stop anywhere and be taken up again, perhaps repeating checks, but it never passes
over one and is done only after whole cycles. There are no files, faults or commits
in it. `Suite!KeepsPromise` is the refinement: `current` and `plan` are hidden while
no process runs, and `done` is the report.

### Watchdog

`_stream_process_output` is a loop: look at the limits, wait one second for output,
read. The supervisor's `pc` is `limits` or `select` in the loop and then `drain`,
`wait`, `teardown`, `done`. The limits are evaluated in the code's order
(`LimitExceeded`), and one pass over them is one action, since nothing of what it
decides is visible in between. While it runs the clock may advance by `Lag`: that is
the time `ps` and `vm_stat` take in one round, all of it charged to the pass.

| Action | Code |
|---|---|
| `KillForLimit`, `KeepWithinLimits` | `_check_resource_limits` with everything it calls |
| `ReadChunk`, `EndOfOutput`, `SelectTimesOut`, `ReadFails` | the rest of the loop body |
| `Drain` | `_drain_remaining_stdout` |
| `WaitForExit`, `Teardown` | the end of `_execute_claude_process` |
| `Interrupt` | Ctrl-C or a signal, in or after the loop |

The environment writes output (events, the announcement of a compaction, or bytes
that end no line), starts and ends a child, uses CPU or stops, exits, closes stdout,
closes its stdin, and exceeds or returns below the memory limits, `MaxEvents` times. A
nudge fails when the process is gone, or has closed its stdin (`deaf`) and so breaks the
pipe, though it lives; `nudge_refused` is since when. Waiting for output or reading it
may fail, which ends the loop (`ReadFails`). Time is counted in rounds of select. `grown` says whether the tree's CPU seconds grew since the
baseline, which is all that the busy ratio is compared for; a child that exits takes
its CPU seconds with it, so `grown` may become false.

### ProcessTree

Each pid has a state, a parent and a process group. `find_all_descendant_pids` walks
down from a pid, so a process whose parent has ended is below init and found by
nothing but a list of remembered pids. The actions follow `_kill_process_group`
statement by statement (`SnapshotTree`, `SignalTerm`, `SignalKill`, `KillRemaining`,
or `KillGone` when the leader was already reaped), because children fork, leave the
group and exit between them, and Ctrl-C can interrupt any of them. So are the sweep
after a check, and the cleanup at exit, which goes through the remembered sessions, walks
down from each and ends what it found, and turns to the children of checkloop last.
Between the start of a process and the `try` that looks after it (`spawned`), and
between two checks (`between`), an interrupt leaves a process to that cleanup. A walk
may return nothing, since `ps` and `pgrep` may fail or exceed their timeouts (`Walk`,
`ChildPids`). When the watchdog kills is left open here: it may at any time.

`doomed` is history: whoever was below a live leader, or had been found by a scan, when
the kill *began*, not when it walks; and at exit, whoever was then below a Claude
process that lives.

### Telemetry

A line is made in two steps, by either thread: `_collect_sample` reads the label first
and then runs `ps` for a long time; `_write_sample` appends the line under a lock, or
finds the file closed. Everything else may happen in between. `pc` is the main thread's
place in `main`, `record_event`, `run_single_check` and `stop`; `thread` is the
sampler's. `join` may time out while the sampler is in `ps`. An interrupt can hit the
main thread at every step, also in `stop`, which the exit handler then calls again; a
kill ends everything. The disk may refuse a line, and the code swallows the `OSError`:
`missing` says which lines of `log` are not in the file, and a later write or the close
may still take them along. `labelNo` numbers the labels so that an older one can be told
from a newer one with the same text.

### Selection, LineBuffer, ClaudeCall

`Selection` holds the pure functions of `cli_args` and `tier_config`: a plan is the
sequence of its entries, the canonical order of the checks comes from the
super-exhaustive plan, and each setting has its own precedence. `LineBuffer` is the
buffer of `process_jsonl_buffer` over bytes: an event is a line that opens with a
brace and ends with the byte of its kind; `ProcessJsonlBuffer` takes the complete lines
and cuts what exceeds the cap. `ClaudeCall` puts them in motion.
`ResolveSelectedChecks` starts from a command line, `RunSingleCheck` takes the checks in
order, `Spawn` starts a process that writes one of the `Scripts`, `ReadChunk` reads some
of its bytes, and the process may end (`Eof`), die (`Crash`), be killed
(`LimitStrikes`) or fail at each. `NextModel` and `Return` read `observer` and decide,
as `run_claude` does, whether the next model is tried; a kill for memory is followed by
the memory fix. Its own definitions of what should come out (`Asked`, `Fitting`,
`SaysUnavailable`) are stated over the command line and the bytes, and share nothing
with the functions they judge.

### RunStorage

Any number of checkloop processes share the directory of runs. The clock names new
directories, and its tick is the second of the timestamp in the name, so two runs may
want the same one. Pruning reads the cutoff, lists, and then looks at and removes one
directory at a time, while the others go on. A run in place works in the directory it
was given, which may be the clone of another run (`Work`). A clone is made in the code's
steps: reserve, `git clone --local`, fetch from the source, rewrite `origin`, fetch from
upstream, resolve the review ref, check it out; each may fail. When looking up the
branch of origin fails, the code cannot tell that from there being none, and takes the
clone's local branch (`seen.overlooked`). People commit in the source, push, and delete
branches, `MaxEdits` times.

### ProjectMap

One variable of the module is the file, and a map records of which tree it was made
and how much of it is there: the header line with the fingerprint, half of the body,
all of it. `ensure_project_map` is taken apart where the world can change: fingerprint,
cached file, `git ls-files` for the prompt, Claude, and the two writes. A kill in the
middle leaves what was written: a header, half a map, or one that is cut inside a
character (`torn`), which raises when it is read and ends the run. A file that cannot
be read at all passes for none (`unread`).

## What TLC checks

| Run | Configuration | Instance | Question |
|---|---|---|---|
| `suite` | `MCSuite.cfg` | 2 checks, 2 selections, 1-2 cycles, real and dry, 2 sessions, 1 fault, 1 generated path | resuming, convergence, reports, branches, dry runs, refinement of `CheckPlan` |
| `watchdog` | `MCWatchdog.cfg` | 3 sets of limits, 9 units of time, 3 events | the limits, silence, nudges, termination |
| `process_tree` | `MCProcessTree.cfg` | 2 checks, 3 further processes, `ps` and `pgrep` that fail | kills, sweeps, exit |
| `telemetry` | `MCTelemetry.cfg` | 2 checks, 2 samples, 1 interrupt, 1 line missing at a time | end marker, labels, brackets, exit order, termination |
| `claude_call` | `MCClaudeCall.cfg` | 10 command lines, 4 checks, 7 outputs, cap 3 | settings, order, model fallback, chunks |
| `run_storage` | `MCRunStorage.cfg` | 2 processes, 2 branches, 5 moments, 1 edit, any git command failing | pruning, what is reviewed |
| `project_map` | `MCProjectMap.cfg` | 3 trees, 2 edits, unreadable and torn files | which map a check gets |
| `dry_resume`, `busy_tree`, `process_leak`, `power_assertion`, `manual_checks` | one cfg each | as above | a statement of the documentation that the program does not keep |

### Properties that hold

*Suite.* `ResumePointReached`, `NothingSkipped` and `LeavesCompleteCycles` together
say that a run never passes over a check: not the file, not the session, not the end.
`ChangedIsOfThisCycle`: `changed_this_cycle`, which is saved, logged and printed (the
program no longer re-checks selectively by it), is of the cycle in progress.
`WholeCycleConverges`: when a cycle that was run in one session converges, the checks
whose commits landed in it are fewer than the threshold once those are taken off whose
change the rest of the cycle undid. Two checks that undo each other do converge, since
the code measures the net change. `DoneReportsEverything` is about the summary.
`OperatorEditsSnapshotted`: what the operator left outside the generated paths is
committed before a check works. `CommitsStayOnScratch` and `DryRunLeavesRepository` are
about branches and dry runs, and `KeepsPromise` is the refinement.

*Watchdog.* `HardTimeoutHolds`, `MemoryLimitHolds` and `PressureIsNoticed` bound how
long a limit can be exceeded while output is read. `QuiescentTreeIsKilled` bounds
silence with children that do nothing. `SilenceWasReal`, `CompactionIsForgiven` and
`NudgedInTime` are about the kill for silence: what was written before it, what was
announced, and how long ago the process was nudged, or, when nobody read its stdin, how
long nudges have failed. `SupervisionEnds` is termination, except where a child holds
the output open.

*ProcessTree.* `OneLeader`: two Claude processes never work at once.
`KilledTreeIsGone`: who was below a live Claude process when its kill began, or had been
found by a scan, is gone when the kill is over, whatever it does meanwhile, and so is
what the walk finds. Excepted are those no scan had found and the walk does not find,
because their parents end before it or `ps` fails. `ExitEndsTree`: a Claude process that
no kill got to, and who was below it when the cleanup began, are gone when checkloop has
exited; excepted are those whose parents end before the walk, sessions not yet
remembered, and what a failing `ps` or `pgrep` does not show. Neither says that nothing
is left: `process_leak` shows what is.

*Telemetry.* `EndIsMarked`: the file of a run that was not killed has an end marker,
unless the disk refused that very line, and after it come at most one late sample (only
if the join timed out) and a second marker (only if the first stop was interrupted).
`LabelsLagByOne`: of all samples after an event only the first can carry an older label.
`StartsAreClosed`: checks are bracketed in the file, but for one that raised an
exception. `SamplerStopsBeforeCleanup`: the exit handlers run in the wrong order, and it
is the `finally` clause of `main` that makes it come out right once a check was started.
`ProcessEnds`: also when `ps` hangs.

*ClaudeCall.* `EventsSurviveChunks`: however output is cut, what is parsed is what was
written, in order, and only an event longer than the cap can be missing.
`FallbackFollowsUnavailability`: another model is tried exactly when this attempt's own
process said that its model is not available. `CallsFollowSelection`: every check asked
for is called once, in canonical order, with the model and the effort that the command
line gives it, or the plan, or for a check outside the plan the super-exhaustive plan,
and with the idle timeout of the plan that lists it; the memory fix follows a memory
kill of a check and nothing else, at once, and has the settings of the command line
alone. Which idle timeout a check outside the plan has is left open: code and comment
disagree (see below).

*RunStorage.* `YoungRunsAreKept`: from the clone on until the maximal age after it was
planned a run has its clone, whole; neither a pruner whose list or look is old nor a run
that ended up with the same directory takes it. An older run can lose it, however busy
it is, when nothing changes the directory itself, and so can a run in the clone of
another. `ReviewIsOfUpstream`: a run reviews upstream's commit of the branch it was given
if upstream could be asked and has the branch, and the source's otherwise, or when git
failed to look the branch up. It excepts a clone that a pruner removed, since a third
run, which planned the same directory and stalled for longer than the maximal age, may
then clone into it; `removed` remembers those directories.

*ProjectMap.* `MapFitsTree`: a map taken for current has the fingerprint of the tree and
was made from it, unless files changed between fingerprint and list, though it may be
half a map; a generated one is whole; when none could be made, the file holds what it
held, and the check gets that if it could be read and has a text, else none.

### Statements that do not hold

Each of these is a run that TLC refutes, with its finding in `PROJECT.json`.

| Run | The code | What is said of it |
|---|---|---|
| `dry_resume` | `--dry-run` saves and clears the real checkpoint; a real run then resumes after checks that were only previewed | README:309, 385 |
| `busy_tree` | the CPU baseline is replaced each second, and one younger than five seconds gives no ratio, so a busy tree never counts as busy after the first pass | README:356, 436 |
| `process_leak` | a process that exits by itself is reaped before its group is killed, and the kill returns early | `process.py:1229` |
| `power_assertion` | the sweep after a check kills every direct child of checkloop, `caffeinate` among them | README:432 |
| `manual_checks` | `--checks` adds to the checks of `--plan` | README:348, `cli_args.py:76` |

The following were found while modelling. They have no run of their own; the models
contain the behaviour, and the property named says what does hold.

* `suite.py:233`: when the scratch branch cannot be checked out on resume, the run goes
  on where HEAD is and still reports that the original branch was not modified
  (README:431). `CommitsStayOnScratch` is about the other cases.
* `suite.py:483`: a resumed cycle measures its change from the commit at resumption,
  not from the start of the cycle (README:326). `WholeCycleConverges` is about cycles
  run in one session.
* `suite.py:496`: outcomes reach the caller at the end of a cycle, although the
  docstring (`suite.py:388`) promises them progressively. `DoneReportsEverything` is
  about completed sessions.
* `process.py:946`: after the process has exited its output is drained without looking
  at the limits (README:367); `SupervisionEnds` excepts an orphan that keeps stdout
  open.
* A busy process without children is, for the reason of `busy_tree`, not held to the 2x
  timeout: it counts as idle without any sign of work, and that tier never kills.
* The sweep of *previous sessions* walks down from pids that are dead, so it finds
  nothing; what it finds are the remembered descendants.
* `cli_args.py:440`: a check outside the plan, or without an idle timeout in a custom
  plan, gets the one of the super-exhaustive plan, not the global value that the comment
  (436) announces, and likewise its effort (453); and a plan's timeout comes before
  `--idle-timeout`. `CallsFollowSelection` is silent on these idle timeouts.
* `git.py:527` says that the operator's edits are preserved "exactly as-is" by the
  snapshot; those in generated paths stay uncommitted, and a generated file that was
  tracked is committed as deleted (`git.py:261`). `OperatorEditsSnapshotted` is about
  the other edits.
* `git.py:353`: when `git diff --shortstat` fails, the change counts as none, and the
  cycle converges. `FinishCycle` has this as `converged = "unmeasured"`;
  `WholeCycleConverges` is about changes that were measured.
* `telemetry.py:417` says that the last line tells a clean exit from a stall, but a
  sample can come after the marker when `join` timed out (`EndIsMarked` allows it), and a
  full disk can refuse the marker.
* `process.py:310`: a process that closed its stdin cannot be nudged. It is tried again
  every second, and killed for silence without ever having been asked.
* `clone.py:277`: the second fetch prunes the branches the first one brought from the
  source, so a branch that was never pushed can be reviewed only if it is checked out
  there, although the docstring (`clone.py:231`) says the clone has all local branches.
* `cli.py:267`: each run makes a new clone, in which there is no checkpoint: only
  `--in-place` runs are ever resumed. `cleanup_empty_clone` is called by nobody.
* `project_map.py:190`: the fingerprint is the first line written, so a map whose write
  was cut short is taken for current by the next run.
* `check_runner.py:351`: the prompt is searched for dangerous words after the project
  rules and the map were added to it; one of these words in either makes every check be
  skipped.
* `cli.py:257`: old runs are pruned first, so `--dir` with an old run directory can
  lose it to the run itself; nothing protects a directory given that way.
* `project_map.py:77`: a map that was cut inside a character raises a
  `UnicodeDecodeError` that nobody catches (`suite.py:344`), so every later run in that
  directory ends at once, until the file is removed.

### Bounds, and why they are enough

*Suite.* Two checks are the fewest with an order, two cycles the fewest in which the
state of one can leak into the next, two sessions the fewest with a resume. Two
selections let a checkpoint meet one that it does not match. One fault reaches each
single failure at each step; the proofs cover any number. Each session is real or dry,
so a real run meets a dry run's checkpoint, and a dry run replaces a real one's. One generated path
is enough to be edited by the operator or by Claude, be left out of a commit, and be all
there is to commit. The threshold of 2 makes both sides of the comparison, and the
boundary, reachable, with and without commits that undo each other.

*Watchdog.* The idle timeout is 3 rounds, so that a nudge (2), the timeout (3) and the
extended timeout (6) are different moments; `MemInterval` and `MinWall` of 3 keep the
code's order (5 s and 10 s against rounds of 1 s) in that a baseline can be too young.
Nine units of time go past the largest limit in use and `Lag`. Three events are enough
for a child to start, CPU to be used, and output to arrive, or for stdin to be closed
after a nudge that was delivered. Scaling is the one thing a small instance could get
wrong; the theorems hold for all timeouts that satisfy `ScaleAssumption`.

*ProcessTree.* Two leaders show what one check does to the next. Three further
processes give a chain below Claude in which the middle one ends. `ps` and `pgrep` fail
as often as they like. The proofs cover any number of both.

*Telemetry.* Two checks have a boundary between them; two samples can fall before and
after it, or both after the end; one interrupt at each step is what the code handles;
one line that is missing at a time can be the end marker, or any other, and be written
later or never. The proofs cover any number of these.

*ClaudeCall.* The cap of 3 bytes and chunks of 2 put every event on both sides of a
chunk boundary and at, below and above the cap. Outputs have no, one, two or three
events, with a refusal first, last, or hidden by a later result. The chain of two
models is exhausted from either end. The command lines name a plan, a plan file (with
an unknown check, with another order, invalid), single checks, all, and overriding
settings.

*RunStorage.* Two processes are the fewest that can collide; five moments are enough to
be pruned twice the maximal age later; two branches distinguish the checked-out one
from another, and upstream has only the first to begin with. Three pairs of command
lines cover a clone against a clone, with local and remote review refs, against a run in
place in the other's clone, and against a run without a review ref. Both properties are
proved for any number of processes.

*ProjectMap.* Two trees besides the empty one: one before and one after a change; two
edits reach a change in each gap of one call, and a change back. A read can fail, and a
write can be cut, in every call.

### Fairness

`Watchdog!Spec` assumes weak fairness of the supervisor's steps (`Supervise`): `select`
and `wait` have timeouts. Nothing is assumed of the processes it supervises; that `Drain`
needs one to end is why `SupervisionEnds` has its exception. `Telemetry!Spec` assumes it of the main thread (`MainStep`) only: the
checks return, and `join` has a timeout; nothing is assumed of the sampler, whose `ps`
may hang, which is what `ProcessEnds` is about. The other modules, `Suite` among them,
have safety properties only.

`CHECK_DEADLOCK FALSE` is set for the suite, which stops when its sessions are used
up. The other models end in an explicit stuttering step, or, as `ProjectMap`, do not
end, and their runs find no state without a successor.

## What is proved

All proofs are checked by TLAPS. Nothing is assumed but the named assumptions on the
constants (`RepoAssumption`, `SuiteAssumption`, and so on, one for a module), which
give their types and say which of them are distinct, and `Watchdog!ScaleAssumption`. That
one says that the extended timeout is longer than the timeout by more than a pass over
the limits and a round of select (in the code 2 x 600 s against 600 s and some
seconds). TLC evaluates all of them in the runs.

**SuiteProofs.** `TypesHold`: the type invariant. It is not inductive alone: the
checkpoint's run must have started (`RunsExist`) and an index must point at a check
while one is chosen (`CheckChosen`). `CheckpointsAreReached`, `NothingIsSkipped` and
`CyclesAreComplete` come from one invariant, `ProgressInv`. The position of the
session and the checkpoint support each other, so neither property is inductive
without the other; beside them it needs that a resumed position is used up before a
check runs (`Phase`) and how the loop is left (`LoopLeft`). The lemmas on `Behind`
say that what is behind a position grows by one check at a time and that the end of a
cycle is the beginning of the next.

`CommitsAreOnScratch`, `EditsAreSnapshotted` and `DryRunsLeaveRepository` come from
`BranchInv`: a session's own branch does not exist before it makes it
(`BranchesAreOld`), a dry run gets to no step that writes
(`StepsTaken`), HEAD is on the scratch branch once attached (`OnScratch`), and the
operator's edits outside the generated paths are committed from the snapshot on
(`EditsAreCommitted`).

**WatchdogProofs.** All safety properties of the watchdog, one invariant per concern,
each stated for `limits` and for `select`, because a pass and a round add to the clock
in turn:

| Theorem | From | Because |
|---|---|---|
| `HardTimeoutIsKept` | `WallInv` | a pass lets the clock through only up to the limit |
| `MemoryLimitIsKept`, `PressureIsKept` | `CadenceInv`, `OverInv`, `LowInv` | the last look is recent, and what is over its limit became so after it |
| `SilenceIsReal` | `SilenceInv` | unread output at a pass was written in that very moment |
| `CompactionIsSafe` | `AnnouncedInv` | the announcement is known or still in the pipe (`AppendObserved`) |
| `NudgeIsInTime` | `NudgeInv` | without a nudge, sent or refused, the silence is short, and one is tried as soon as it is long enough |
| `QuietTreeIsKilled` | `StaleCpuInv`, `RestInv` | CPU used before the rest counts once only; then the pass at the extended timeout kills |

`busy_tree` is the other side of the last row: the same replacement of the baseline
that bounds a resting tree makes a busy one look at rest.

**PlanProofs.** `SuiteKeepsPromise`: the refinement. `CheckPlan`'s variables are
functions of `Suite`'s, so the proof shows for each action that it is the step of the
promise it stands for, or leaves the abstract variables alone. It needs, beside
`ProgressInv`, that what a run has done is exactly what is behind some position of its
plan (`OnPlan`), that a fresh run's number is new (`Numbered`), that a checkpoint of
the run in progress has its plan (`SamePlan`), and that checks run only in cycles that
were asked for (`WithinCycles`): a run is then taken up where the promise is. The rest
of the module is about what a cycle is remembered by. `ReportsAreWhole` follows from
`Counted` (outcomes are the completed checks, less those of the cycle in progress),
`ChangedIsRemembered` from `ChangedRan` (what a resumed position and a checkpoint name as
changed has run in their cycle), and `ConvergenceIsDeserved` from `Measured`: HEAD only
goes forward while a check works (`CommitsForward`), and every check whose commits landed
moved it by at least one since the cycle's start (`CountedIsMeasured`). So there are no
more of them than commits since then, and the diff, which shows all of these but those
that were undone, was below the threshold.

**ProcessTreeProofs.** `OneLeaderOnly`, `KilledTreesAreGone` and `ExitEndsTrees` from
`TreeInv`. Walking down a tree is the least set closed under children; two closed sets
are enough for the proofs: the running kids (what is found runs) and the empty set (a
process without children has no descendants). `OsInv` says what the operating system
keeps: a parent is a running process, a Claude process leads its group and is a child
of checkloop. `CheckInv` follows the leader through the kill: it is dead before the
kill comes to what remains. `DoomInv` follows the doomed through every place: those who
live are below the leader or were found by a scan before the walk, and are in what the
walk found or the scans had found after it; at exit they are children of checkloop,
below a session that is still to be swept, or among those found below the one that is
being swept. A step that takes one of them out of reach, by its parent's end, a walk
that fails, or the order of the cleanup, takes it out of `doomed` only where the
property excepts it. Whoever has ended does not come back.

**TelemetryProofs.** The control of the two threads comes first (`ControlInv`): which
phase the main thread is in and what that says of the file, the stop event and the
sampler. `EndInv`, `LagInv` and `CloseInv` are the invariants on the lines; they rest
on it, and only two of all steps add a line. `LagInv` must speak of the line the
sampler holds, not only of those in the file. The end marker is in the log when the file
is closed, so it is in the file unless it is itself among the missing lines.

**ClaudeCallProofs.** The functions on sequences come first. `KeepIn` and `EndOf` are
recursive functions, and the library's induction theorems cannot be used (they take an
operator); the module goes back to the order of the numbers being well-founded, which
is stated for sets, and gets from it the least and the greatest element of a set of
numbers (`NatMin`, `NatMax`), induction over a set (`NatInd`) and the definition of a
function by recursion (`Recursion`). What `KeepIn` keeps is then a subsequence given by
increasing indices (`KeepInIs`), and the lines of a script end where they should
(`EndsAre`).

| Theorem | From | Because |
|---|---|---|
| `TypesHold` | `CallInv` | an accepted plan and the defaults give settings of the right kind (`CheckSettingsAre`); the attempts so far are the beginning of the models (`Underway`) |
| `NoEventIsLostBetweenChunks` | `StreamInv` | after line `k`, the buffer holds the output from some byte `s` of line `k + 1` on; `s` is the start of the line unless what was before was cut, and then the line is longer than the cap. The events parsed are drawn from lines `1..k`, without gaps but for those (`Drawn`) |
| `FallbackIsDeserved` | both | the observer holds the kind of the last result that was parsed (`Observes`), which is one that was written; the records of calls follow the chain (`FollowsChain`) |
| `CallsAreTheSelection` | `SelectionInv` | the calls of checks are the first `d` selected ones (`Placed`), what is to come is the rest (`Follows`), and a memory fix is in progress exactly while the last record needs one (`Pending`) |

`AskedIsSelected` and `SettingsFollow` join the last one to the functions of
`Selection`: the selection is exactly what the command line asks for, and the setting
that an entry gives to its check, when it is the only entry of that check, is the one
the check is called with.

The proof attempt corrected the property. It used to judge the memory fix by the plan as
well, which is false for a plan with an entry of that name; the model checker's plans
have none. It now says what holds of the memory fix separately, and it says of the
checks outside the plan, which it had left open, where their model and effort come from.

**RunStorageProofs.** `YoungRunsKeepTheirClones`: no step of any process takes a clone
whose name is younger than the maximal age (`ClonesKept`, `RemovedIsOld`), because no
directory is older than its name says (`AgesOK`), the cutoff of a pruner is at least the
maximal age in the past, and what it is removing was older when it looked (`AgeInv`);
and no process is past its clone without one having been made (`ClonesAreMade`), which
needs `ReviewInv`. `ReviewsAreOfUpstream` from `ReviewInv`: a process that is
past its clone holds the directory alone until a pruner removes it (`HoldInv`), because
`git clone` refuses a directory that is not empty; and what the clone then holds is what
its process has fetched so far (`ProgressOf`), step by step.

**ProjectMapProofs.** `MapsFitTheTree` from `CallInv`, which says at each line of
`ensure_project_map` what is known of the file and of the list, and `Honest`: whatever
is in the file was made from the tree of its fingerprint, or the tree had moved. An
invariant about the file is needed because a killed program leaves half a map behind,
and the next call may take it for current, or fail to read it and overwrite it.

### Only model-checked

* `SupervisionEnds`, `ProcessEnds`: liveness, which TLAPS does not prove here.

Every other property that a run checks is also the statement of a theorem.

## What is not modelled

Of the modelled components:

* *Suite*: log rotation, the printed tables and hints; commits have no authors, so which
  edits a commit attributes to whom is not stated (a hazard is listed for it). Claude
  calls for the project map and for commit messages are part of the step they are made
  in. Clones are in `RunStorage`, and a run in one is a fresh session.
* *Git*: diff texts, file counts, the search for the default branch; how many lines a
  commit changes (each changes one unit), and commits across sessions and branches,
  which the program never compares.
* *Base freshness*: the arithmetic of ages; whether a base is stale is a choice.
* *Watchdog*: a `ps` or `vm_stat` that fails (the code then keeps running), the
  accounting of memory per process, status lines. CPU use of any amount is busy.
* *ProcessTree*: pids are not reused, SIGKILL always works, and children of Claude are
  reaped by their parents at once.
* *Telemetry*: what is measured, and the pruning of old files. A write that hangs, in
  `fsync` and so with the lock held, would make the main thread wait for the lock; in the
  model a write ends, and `ProcessEnds` is about a sampler that hangs in `ps`. Part of a
  line is no line.
* *Selection*: reading TOML and Markdown, the printed summary, the mypy hint.
* *LineBuffer*: decoding of UTF-8; how events are printed.
* *RunStorage*: tags and commit ids as review refs, the import of Claude's memory,
  runs of several source repositories.
* *ProjectMap*: project rules, which are read once, and `load_project_map`, which
  nothing calls.

Commit messages, terminal output and the rendering of events are wording. Sleep
prevention is one child process, which `ProcessTree` has (`Caffeinate`).

## Plan

The modules planned at first are written. What would add most from here:

1. **Composition**: `Suite` takes a check's outcome as a choice; an abstract *supervised
   call* (a process ends with one outcome and reason, at most once), which `Watchdog`
   and `ClaudeCall` implement, would join the three.
2. **Authors of commits** in `Repo`, so that the memory fix, and an exception after
   Claude has run, can be stated.
3. **Termination of a call** in `ClaudeCall` under fairness, as `Watchdog` has it for
   one process: every call of a run is over after at most as many attempts as there are
   models.
