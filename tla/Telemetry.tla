------------------------------ MODULE Telemetry ------------------------------
(***************************************************************************)
(* The telemetry file of one run (telemetry.py): the main thread records   *)
(* events in it while a sampler thread adds a sample every few seconds.    *)
(*                                                                         *)
(* A line is made in two steps, by either thread: _collect_sample reads    *)
(* the label of the current activity first and then runs ps for a long     *)
(* time; _write_sample appends the line, under a lock.  Anything may       *)
(* happen in between: the other thread writes, the label changes, the file *)
(* is closed.  Ctrl-C and SIGTERM can interrupt the main thread at every   *)
(* step, and the process can be killed.                                    *)
(*                                                                         *)
(* The disk may refuse a line, which is swallowed: the line stays in the   *)
(* buffer of the file object, and a later write or the close takes it      *)
(* along, in its place, or it is lost.  So the file is the log without the *)
(* lines that are missing; part of a line is no line.                      *)
(***************************************************************************)
EXTENDS Naturals, Sequences, FiniteSets

CONSTANTS
  ActiveChecks,   (* the checks that main runs, in order                    *)
  NoCheck,        (* no check                                               *)
  MaxSamples,     (* bound on the samples of the sampler thread             *)
  MaxInterrupts,  (* bound on the interrupts of the main thread             *)
  MaxMissing      (* bound on the refused lines that are missing at a time  *)

Checks      == {ActiveChecks[i] : i \in DOMAIN ActiveChecks}
EndEvents   == {"run_end", "atexit"}
CheckEvents == {"check_start", "check_end"}
MainEvents  == CheckEvents \union EndEvents \union {"run_start"}
Labels      == Checks \union {"startup", "between-checks"}

ASSUME TelemetryAssumption ==
  /\ {"startup", "between-checks", NoCheck} \intersect Checks = {}
  /\ MaxSamples \in Nat /\ MaxInterrupts \in Nat /\ MaxMissing \in Nat

VARIABLES
  pc,          (* where the main thread is                                  *)
  event,       (* the event it is recording, or the one it stops with       *)
  check,       (* the check it runs                                         *)
  mine,        (* the line it has collected                                 *)
  label,       (* _state.current_label                                      *)
  labelNo,     (* how often the label was set (history)                     *)
  handle,      (* _state.file_handle is not None                            *)
  file,        (* the file itself: "none", "open" or "closed"               *)
  stopping,    (* _state.stop_event is set                                  *)
  thread,      (* the sampler: "none", "loop", "collect" or "ended"         *)
  held,        (* the line the sampler has collected                        *)
  log,         (* the lines given to the file object                        *)
  missing,     (* those of them (indices) that are not in the file          *)
  samples,     (* samples collected so far                                  *)
  started,     (* checks that were started                                  *)
  raised,      (* checks that ended with an exception (history)             *)
  timedOut,    (* stop gave up waiting for the sampler (history)            *)
  interrupts,  (* interrupts so far                                         *)
  cut          (* the events with which stop was interrupted (history)      *)

main    == <<pc, event, check, mine>>
state   == <<label, labelNo, handle, file, stopping>>
sampler == <<thread, held, samples>>
history == <<started, raised, timedOut, interrupts, cut>>
vars    == <<main, state, sampler, log, missing, history>>

Line == [kind : MainEvents \union {"sample"}, label : Labels, check : Checks \union {NoCheck},
         no : Nat]

(* A local variable that holds no line. *)
NoLine == [kind |-> "sample", label |-> "startup", check |-> NoCheck, no |-> 0]

(* Variation: the sampler keeps the label it was started with. *)
CollectSampleOnce(kind, c) ==
  IF kind = "sample" THEN NoLine ELSE [kind |-> kind, label |-> label, check |-> c, no |-> labelNo]

(* What _collect_sample puts in a line; `check` is a field of the event. *)
CollectSample(kind, c) == [kind |-> kind, label |-> label, check |-> c, no |-> labelNo]

(* The buffer is flushed, with what is left of earlier lines in it. *)
Flush == missing' \in SUBSET missing

(* Write or flush raises an OSError: the disk is full. *)
Refuse ==
  /\ Cardinality(missing) < MaxMissing
  /\ missing' = missing \union {Len(log) + 1}

(* _write_sample.  Its OSErrors are swallowed, and so is the ValueError of a *)
(* closed file.                                                              *)
WriteSample(line) ==
  \/ file # "open" /\ UNCHANGED <<log, missing>>
  \/ file = "open" /\ log' = Append(log, line) /\ (Flush \/ Refuse)

Init ==
  /\ pc = "start" /\ event = "run_start" /\ check = NoCheck
  /\ label = "startup" /\ labelNo = 0
  /\ mine = NoLine /\ held = NoLine
  /\ handle = FALSE /\ file = "none" /\ stopping = FALSE
  /\ thread = "none" /\ samples = 0
  /\ log = <<>> /\ missing = {}
  /\ started = {} /\ raised = {} /\ timedOut = FALSE /\ interrupts = 0 /\ cut = {}

Over    == pc \in {"exited", "killed"}
InStop  == pc \in {"join", "close", "clear"} \/ (pc \in {"collect", "write"} /\ event \in EndEvents)
(* main is not yet in the try statement whose finally clause calls stop.     *)
Prelude == pc \in {"start", "spawn", "prelude"} \/ (pc \in {"collect", "write"} /\ event = "run_start")

-----------------------------------------------------------------------------
(* The main thread *)

(* start, up to the state it sets up.  If the directory or the file cannot   *)
(* be made, the run goes on without telemetry.                               *)
OpenFile ==
  /\ pc = "start"
  /\ \/ pc' = "prelude" /\ UNCHANGED <<state, event>>
     \/ /\ pc' = "collect"
        /\ event' = "run_start"
        /\ handle' = TRUE /\ file' = "open" /\ stopping' = FALSE
        /\ label' = "startup"
        /\ UNCHANGED labelNo
  /\ UNCHANGED <<check, mine, sampler, log, missing, history>>

(* Where the main thread goes on after it recorded an event. *)
After(e) == CASE e = "run_start"                       -> "spawn"
              [] e = "check_start"                     -> "working"
              [] e = "check_end"                       -> "unlabel"
              [] e \in EndEvents                       -> "close"

(* record_event, and the marker of start and stop: nothing without a file.   *)
Collect ==
  /\ pc = "collect"
  /\ IF handle THEN pc' = "write" /\ mine' = CollectSample(event, check)
               ELSE pc' = After(event) /\ UNCHANGED mine
  /\ UNCHANGED <<event, check, state, sampler, log, missing, history>>

Write ==
  /\ pc = "write"
  /\ WriteSample(mine)
  /\ mine' = NoLine
  /\ pc' = After(event)
  /\ UNCHANGED <<event, check, state, sampler, history>>

(* The end of start. *)
SpawnSampler ==
  /\ pc = "spawn"
  /\ pc' = "prelude"
  /\ thread' = "loop"
  /\ UNCHANGED <<event, check, mine, state, held, samples, log, missing, history>>

(* main chooses and announces the checks; then the suite begins, or fatal    *)
(* ends the program.                                                         *)
EnterSuite ==
  /\ pc = "prelude"
  /\ pc' \in {"between", "cleanup"}
  /\ UNCHANGED <<event, check, mine, state, sampler, log, missing, history>>

SetCurrentLabel(l) == label' = l /\ labelNo' = labelNo + 1 /\ UNCHANGED <<handle, file, stopping>>

(* The checks come one after the other. *)
Following(c) ==
  /\ c \notin started
  /\ \E i \in DOMAIN ActiveChecks :
       ActiveChecks[i] = c /\ \A j \in 1..(i - 1) : ActiveChecks[j] \in started

BeginCheck(c) ==
  /\ pc = "between" /\ Following(c)
  /\ started' = started \union {c}
  /\ check' = c
  /\ SetCurrentLabel(c)
  /\ pc' = "collect" /\ event' = "check_start"
  /\ UNCHANGED <<mine, sampler, log, missing, raised, timedOut, interrupts, cut>>

(* Variation: a check that is skipped is not recorded. *)
EndCheckSilently ==
  /\ pc = "working"
  /\ \/ pc' = "collect" /\ event' = "check_end"
     \/ pc' = "unlabel" /\ UNCHANGED event
  /\ UNCHANGED <<check, mine, state, sampler, log, missing, history>>

(* Variation: the event has another name. *)
EndCheckUnnamed ==
  /\ pc = "working"
  /\ pc' = "collect" /\ event' = "check_done"
  /\ UNCHANGED <<check, mine, state, sampler, log, missing, history>>

(* run_single_check skips a dangerous prompt, or runs Claude, after which it *)
(* records the end of the check, "check_skipped" or "check_end" ...          *)
EndCheck ==
  /\ pc = "working"
  /\ pc' = "collect" /\ event' = "check_end"
  /\ UNCHANGED <<check, mine, state, sampler, log, missing, history>>

(* ... but an exception returns before that, and before the label is reset.  *)
RaiseInCheck ==
  /\ pc = "working"
  /\ pc' = "between"
  /\ raised' = raised \union {check}
  /\ UNCHANGED <<event, check, mine, state, sampler, log, missing, started, timedOut, interrupts, cut>>

ResetLabel ==
  /\ pc = "unlabel"
  /\ pc' = "between"
  /\ SetCurrentLabel("between-checks")
  /\ UNCHANGED <<event, check, mine, sampler, log, missing, history>>

-----------------------------------------------------------------------------
(* stop *)

(* stop begins: it sets the stop event, if start made one. *)
Stop(e) ==
  /\ pc' = "join" /\ event' = e
  /\ check' = NoCheck
  /\ stopping' = (stopping \/ handle)
  /\ UNCHANGED <<label, labelNo, handle, file>>

EndRun ==
  /\ pc = "between"
  /\ Stop("run_end")
  /\ UNCHANGED <<mine, sampler, log, missing, history>>

Running == thread \in {"loop", "collect"}

(* The marker is written if there is a file to write it to. *)
Joined == IF handle THEN "collect" ELSE "clear"

(* thread.join(timeout=2.0).  The reference to the thread goes with the one  *)
(* to the file: once they are dropped a second stop does not join.           *)
Join ==
  /\ pc = "join" /\ (~handle \/ ~Running)
  /\ pc' = Joined
  /\ UNCHANGED <<event, check, mine, state, sampler, log, missing, history>>

(* Variation: join waits for as long as it takes. *)
JoinTimesOutNever == FALSE /\ pc = "join" /\ UNCHANGED vars

JoinTimesOut ==
  /\ pc = "join" /\ handle /\ Running
  /\ pc' = Joined
  /\ timedOut' = TRUE
  /\ UNCHANGED <<event, check, mine, state, sampler, log, missing, started, raised, interrupts, cut>>

(* The close flushes the buffer once more, or raises an OSError. *)
CloseFile ==
  /\ pc = "close"
  /\ pc' = "clear"
  /\ file' = IF file = "open" THEN "closed" ELSE file
  /\ IF file = "open" THEN Flush ELSE UNCHANGED missing
  /\ UNCHANGED <<event, check, mine, label, labelNo, handle, stopping, sampler, log, history>>

(* The references are dropped, and stop returns: to the end of main and its  *)
(* exit handlers, or from the last of them.                                  *)
ClearState ==
  /\ pc = "clear"
  /\ pc' = IF event = "run_end" THEN "cleanup" ELSE "exited"
  /\ handle' = FALSE
  /\ UNCHANGED <<event, check, mine, label, labelNo, file, stopping, sampler, log, missing, history>>

(* Exit handlers run in the reverse of the order in which they were          *)
(* registered: first cleanup_all_sessions, then stop("atexit").              *)
CleanupAllSessions ==
  /\ pc = "cleanup"
  /\ Stop("atexit")
  /\ UNCHANGED <<mine, sampler, log, missing, history>>

-----------------------------------------------------------------------------
(* Ctrl-C or SIGTERM in the main thread.  In the suite it unwinds to the     *)
(* finally clause; before the suite, and in stop, to the exit handlers; an   *)
(* exit handler ends, and the next one runs.                                 *)

(* Variation: the suite's finally clause is missing. *)
InterruptToExit ==
  /\ ~Over /\ interrupts < MaxInterrupts
  /\ interrupts' = interrupts + 1
  /\ cut' = IF InStop THEN cut \union {event} ELSE cut
  /\ pc' = IF InStop /\ event = "atexit" THEN "exited" ELSE "cleanup"
  /\ UNCHANGED <<event, check, state, mine, sampler, log, missing, started, raised, timedOut>>

Interrupt ==
  /\ ~Over /\ interrupts < MaxInterrupts
  /\ interrupts' = interrupts + 1
  /\ cut' = IF InStop THEN cut \union {event} ELSE cut
  /\ \/ /\ InStop \/ Prelude
        /\ pc' = IF InStop /\ event = "atexit" THEN "exited" ELSE "cleanup"
        /\ UNCHANGED <<event, check, state>>
     \/ /\ ~InStop /\ ~Prelude
        /\ Stop(IF pc = "cleanup" THEN "atexit" ELSE "run_end")
  /\ mine' = NoLine
  /\ UNCHANGED <<sampler, log, missing, started, raised, timedOut>>

(* SIGKILL, or the machine stops: the memory of both threads is gone, and the*)
(* lines, each of them synced, stay.                                         *)
Kill ==
  /\ ~Over
  /\ pc' = "killed" /\ thread' = "none"
  /\ event' = "run_start" /\ check' = NoCheck /\ label' = "startup" /\ labelNo' = 0
  /\ mine' = NoLine /\ held' = NoLine
  /\ handle' = FALSE /\ stopping' = FALSE
  /\ file' = IF file = "open" THEN "closed" ELSE file
  /\ UNCHANGED <<samples, log, missing, history>>

-----------------------------------------------------------------------------
(* The sampler thread, a daemon: it ends with the process. *)

(* Variation: the loop does not look at the stop event. *)
SamplerCollectAlways ==
  /\ ~Over /\ thread = "loop" /\ samples < MaxSamples
  /\ thread' = "collect"
  /\ held' = CollectSample("sample", NoCheck)
  /\ samples' = samples + 1
  /\ UNCHANGED <<main, state, log, missing, history>>

SamplerCollect ==
  /\ ~Over /\ thread = "loop" /\ ~stopping /\ samples < MaxSamples
  /\ thread' = "collect"
  /\ held' = CollectSample("sample", NoCheck)
  /\ samples' = samples + 1
  /\ UNCHANGED <<main, state, log, missing, history>>

SamplerWrite ==
  /\ ~Over /\ thread = "collect"
  /\ thread' = "loop"
  /\ WriteSample(held)
  /\ held' = NoLine
  /\ UNCHANGED <<main, state, samples, history>>

SamplerEnds ==
  /\ ~Over /\ thread = "loop" /\ stopping
  /\ thread' = "ended"
  /\ UNCHANGED <<main, state, held, samples, log, missing, history>>

-----------------------------------------------------------------------------

MainStep ==
  \/ OpenFile \/ Collect \/ Write \/ SpawnSampler \/ EnterSuite
  \/ \E c \in Checks : BeginCheck(c)
  \/ EndCheck \/ RaiseInCheck \/ ResetLabel
  \/ EndRun \/ Join \/ JoinTimesOut \/ CloseFile \/ ClearState \/ CleanupAllSessions

SamplerStep == SamplerCollect \/ SamplerWrite \/ SamplerEnds

Done == Over /\ UNCHANGED vars

Next == MainStep \/ SamplerStep \/ Interrupt \/ Kill \/ Done

(* Claude's process ends (Watchdog), and join has a timeout.  Nothing is     *)
(* assumed of the sampler: its ps may hang.                                  *)
Spec == Init /\ [][Next]_vars /\ WF_vars(MainStep)
-----------------------------------------------------------------------------
(* Properties *)

(* Every variable keeps to its type, for all of the code above. *)
TypeOK ==
  /\ pc \in {"start", "collect", "write", "spawn", "prelude", "between", "working", "unlabel",
             "join", "close", "clear", "cleanup", "exited", "killed"}
  /\ event \in MainEvents /\ check \in Checks \union {NoCheck}
  /\ mine \in Line /\ held \in Line
  /\ label \in Labels /\ labelNo \in Nat
  /\ handle \in BOOLEAN /\ file \in {"none", "open", "closed"} /\ stopping \in BOOLEAN
  /\ thread \in {"none", "loop", "collect", "ended"}
  /\ log \in Seq(Line) /\ missing \in SUBSET DOMAIN log
  /\ samples \in Nat /\ interrupts \in Nat
  /\ started \in SUBSET Checks /\ raised \in SUBSET Checks
  /\ timedOut \in BOOLEAN /\ cut \in SUBSET EndEvents

IsEnd(i)    == log[i].kind \in EndEvents
IsSample(i) == log[i].kind = "sample"
IsStart(i)  == log[i].kind = "check_start"
IsClose(i)  == log[i].kind = "check_end"

(* Nothing follows an end marker but a second marker, from the exit handler,  *)
(* when the first stop was interrupted, and one sample, when the sampler      *)
(* outlived the join.  (With that sample the last line of a clean exit is no  *)
(* marker, although the docstring of stop takes that for the sign of a stall.)*)
NothingAfterTheEnd ==
  \A i, j \in DOMAIN log : i < j /\ IsEnd(i) =>
    \/ IsEnd(j) /\ "run_end" \in cut
    \/ /\ IsSample(j) /\ timedOut
       /\ \A k \in DOMAIN log : j < k => ~IsSample(k)

(* A run that had a file and was not killed has an end marker in it, however *)
(* it ended, unless the exit handler that writes the last one is interrupted *)
(* or the disk refused the marker itself: a line refused earlier, or an      *)
(* unfinished stop, is no excuse.                                            *)
EndIsWritten ==
  pc = "exited" /\ file # "none" /\ "atexit" \notin cut =>
    \/ \E i \in DOMAIN log \ missing : IsEnd(i)
    \/ \E i \in missing : IsEnd(i)

(* The end marker tells a clean exit from a stall, whose last line is a      *)
(* sample (stop, telemetry.py:417).                                          *)
EndIsMarked == EndIsWritten /\ NothingAfterTheEnd

(* Samples are told apart by the label read when they were begun, and written*)
(* later: after an event, at most one sample can carry a label that is older *)
(* than the event's (_collect_sample, telemetry.py:185).  A line that is     *)
(* missing only makes a gap.                                                 *)
LabelsLagByOne ==
  \A i, j, k \in DOMAIN log :
    i < j /\ j < k /\ ~IsSample(i) /\ IsSample(j) /\ IsSample(k) => log[i].no <= log[k].no

(* The log can be read as a sequence of checks: one is closed, by an end or  *)
(* a skip, before the next starts, unless it raised an exception; and what is*)
(* closed is the check that was started last (run_single_check).  In the     *)
(* file a start or a close can be absent only if the disk refused it.        *)
StartsAreClosed ==
  /\ \A i, j \in DOMAIN log : i < j /\ IsStart(i) /\ IsStart(j) =>
       \/ log[i].check \in raised
       \/ \E k \in DOMAIN log : i < k /\ k < j /\ IsClose(k) /\ log[k].check = log[i].check
  /\ \A k \in DOMAIN log : IsClose(k) =>
       \E i \in DOMAIN log :
         /\ i < k /\ IsStart(i) /\ log[i].check = log[k].check
         /\ \A j \in DOMAIN log : i < j /\ j < k => ~IsStart(j)

(* The sampler is stopped before cleanup_all_sessions clears the lists it    *)
(* reads (cli.py:216).  The exit handlers are in the wrong order for that;   *)
(* it holds thanks to the finally clause of main, once a check was started,  *)
(* unless that was interrupted or the sampler outlived the join.             *)
SamplerStopsBeforeCleanup ==
  pc = "cleanup" /\ Running => timedOut \/ "run_end" \in cut \/ started = {}

(* The process ends, also when ps hangs and the sampler never returns.       *)
ProcessEnds == <>Over
=============================================================================
