------------------------------ MODULE ClaudeCall ------------------------------
(***************************************************************************)
(* How a run calls Claude: the checks the command line selects, one after  *)
(* the other, each with its settings; the follow-up after a memory kill;   *)
(* the attempts of process.run_claude, which goes on to another model when *)
(* one is unavailable; and the stream each attempt is judged by.           *)
(*                                                                         *)
(* What Claude writes, how the output is cut into chunks, when a limit     *)
(* strikes and when a process dies is not known: each may happen at any    *)
(* byte.                                                                   *)
(***************************************************************************)
EXTENDS Selection, LineBuffer

CONSTANTS
  CommandLines,    (* the command lines a run can have                      *)
  FallbackChain,   (* DEFAULT_MODEL_FALLBACK_CHAIN                          *)
  Scripts,         (* what a process may write: sequences of events         *)
  ReadChunkSize,   (* _READ_CHUNK_SIZE                                      *)
  ResultKinds,     (* the kinds of the event that ends a session            *)
  GatedKinds,      (* those with is_error and a marker of a model that is   *)
                   (* not available                                         *)
  LimitReasons     (* why the watchdog kills                                *)

MemoryFix == "memory-fix"
NoCall    == [check |-> NoValue, model |-> NoValue, effort |-> NoValue,
              idle_timeout |-> 0, fallbacks |-> <<>>]

(* What a command line can be: validate_arguments and argparse refuse others. *)
Commands ==
  [plan : DOMAIN PLAN_CONFIGS \union DOMAIN PlanFiles \union {NoValue}, checks : SUBSET Ids,
   all_checks : BOOLEAN, model : STRING \union {NoValue}, effort : ValidEfforts \union {NoValue},
   idle_timeout : Nat, dry_run : BOOLEAN]

ASSUME ClaudeCallAssumption ==
  /\ CommandLines \subseteq Commands
  /\ FallbackChain \in Seq(STRING)
  /\ \A i, j \in DOMAIN FallbackChain : i # j => FallbackChain[i] # FallbackChain[j]
  /\ Scripts \subseteq Seq([kind : Kinds, size : Nat \ {0, 1}])
  /\ GatedKinds \subseteq ResultKinds /\ ResultKinds \subseteq Kinds /\ NoValue \notin Kinds
  /\ {"memory", "idle"} \subseteq LimitReasons /\ NoValue \notin LimitReasons
  /\ LimitReasons \intersect {"unavailable", "finished", "raised", "skipped", "dry"} = {}
  /\ ReadChunkSize \in Nat \ {0}
  /\ MemoryFix \notin Ids

VARIABLES
  args,       (* the command line                                           *)
  rest,       (* the checks still to come                                   *)
  pc,         (* "choose", "next", "spawn", "stream", "judge" or "done"     *)
  call,       (* the call in progress, as _invoke_claude makes it           *)
  tried,      (* its attempts so far: model and end                         *)
  pipe,       (* what the process has yet to write                          *)
  buffer,     (* output_buffer                                              *)
  observer,   (* the kind of the last result event, or NoValue              *)
  kill,       (* kill_reason                                                *)
  written,    (* the events of the attempt's process (history)              *)
  arrived,    (* how many bytes of them were read (history)                 *)
  parsed,     (* the events taken from the buffer (history)                 *)
  calls       (* the calls that are over, with their attempts (history)     *)

streamVars == <<pipe, buffer, observer, kill, written, arrived, parsed>>
vars == <<args, rest, pc, call, tried, streamVars, calls>>

(* Where line i of a script ends, with its newline. *)
EndOf(script, i) ==
  LET end[n \in 0..Len(script)] == IF n = 0 THEN 0 ELSE end[n - 1] + script[n].size + 1
  IN end[i]

(* What the process writes: one line after the other. *)
ScriptBytes(script) ==
  [b \in 1..EndOf(script, Len(script)) |->
     LET i == CHOOSE n \in DOMAIN script : EndOf(script, n - 1) < b /\ b <= EndOf(script, n)
     IN CASE b = EndOf(script, i)         -> Newline
          [] b = EndOf(script, i) - 1     -> script[i].kind
          [] b = EndOf(script, i - 1) + 1 -> Open
          [] OTHER                        -> Fill]

NoStream ==
  /\ pipe' = <<>> /\ buffer' = <<>> /\ observer' = NoValue /\ kill' = NoValue
  /\ written' = <<>> /\ arrived' = 0 /\ parsed' = <<>>

Init ==
  /\ args \in CommandLines
  /\ rest = <<>> /\ pc = "choose" /\ call = NoCall /\ tried = <<>>
  /\ pipe = <<>> /\ buffer = <<>> /\ observer = NoValue /\ kill = NoValue
  /\ written = <<>> /\ arrived = 0 /\ parsed = <<>>
  /\ calls = <<>>

(* resolve_selected_checks.  A plan file that cannot be parsed and a         *)
(* selection that is empty end the program.                                  *)
ResolveSelectedChecks ==
  /\ pc = "choose"
  /\ \/ /\ ResolvePlanConfig(args) # NoPlan => ValidPlan(ResolvePlanConfig(args))
        /\ SelectedChecks(args) # <<>>
        /\ rest' = SelectedChecks(args)
        /\ pc' = "next"
     \/ /\ \/ ResolvePlanConfig(args) # NoPlan /\ ~ValidPlan(ResolvePlanConfig(args))
           \/ SelectedChecks(args) = <<>>
        /\ pc' = "done"
        /\ UNCHANGED rest
  /\ UNCHANGED <<args, call, tried, streamVars, calls>>

(* default_model_fallbacks *)
DefaultModelFallbacks(model) ==
  IF model = NoValue THEN <<>> ELSE KeepIn(FallbackChain, STRING \ {model})

(* _invoke_claude: the global --model and --effort come first, --idle-timeout *)
(* last; a model the user asked for has no fallbacks.                        *)
InvokeClaude(check, model, effort, idle_timeout) ==
  LET effective == IF args.model # NoValue THEN args.model ELSE model IN
  [check |-> check, model |-> effective, idle_timeout |-> idle_timeout,
   effort |-> IF args.effort # NoValue THEN args.effort ELSE effort,
   fallbacks |-> IF args.model # NoValue THEN <<>> ELSE DefaultModelFallbacks(effective)]

(* The call is over; nothing of it is left but its record. *)
Record(c, attempts, outcome) ==
  calls' = Append(calls, [call |-> c, attempts |-> attempts, outcome |-> outcome])

(* run_single_check; a dry run calls nothing. *)
RunSingleCheck ==
  /\ pc = "next" /\ rest # <<>>
  /\ LET c    == Head(rest)
         made == InvokeClaude(c, CheckModel(args, c), CheckEffort(args, c),
                              CheckIdleTimeout(args, c))
     IN IF args.dry_run THEN Record(made, <<>>, "dry") /\ UNCHANGED <<pc, call>>
                        ELSE call' = made /\ pc' = "spawn" /\ UNCHANGED calls
  /\ rest' = Tail(rest)
  /\ UNCHANGED <<args, tried, streamVars>>

(* A prompt that looks dangerous is skipped: its check, the project's rules  *)
(* and the map are in it.                                                    *)
SkipDangerous ==
  /\ pc = "next" /\ rest # <<>>
  /\ Record([NoCall EXCEPT !.check = Head(rest)], <<>>, "skipped")
  /\ rest' = Tail(rest)
  /\ UNCHANGED <<args, pc, call, tried, streamVars>>

EndOfChecks ==
  /\ pc = "next" /\ rest = <<>>
  /\ pc' = "done"
  /\ UNCHANGED <<args, rest, call, tried, streamVars, calls>>

-----------------------------------------------------------------------------
(* One attempt *)

(* The models run_claude tries. *)
Attempts == <<call.model>> \o KeepIn(call.fallbacks, STRING \ {call.model})

(* Variation: the observer of the call serves every attempt. *)
SpawnKeepingObserver ==
  /\ pc = "spawn"
  /\ \E script \in Scripts :
       /\ written' = script
       /\ pipe' = ScriptBytes(script)
  /\ buffer' = <<>> /\ kill' = NoValue
  /\ arrived' = 0 /\ parsed' = <<>>
  /\ pc' = "stream"
  /\ UNCHANGED <<args, rest, call, tried, observer, calls>>

(* A process for the next model, with an observer of its own. *)
Spawn ==
  /\ pc = "spawn"
  /\ \E script \in Scripts :
       /\ written' = script
       /\ pipe' = ScriptBytes(script)
  /\ buffer' = <<>> /\ observer' = NoValue /\ kill' = NoValue
  /\ arrived' = 0 /\ parsed' = <<>>
  /\ pc' = "stream"
  /\ UNCHANGED <<args, rest, call, tried, calls>>

(* fatal: claude cannot be started. *)
SpawnFails ==
  /\ pc = "spawn"
  /\ pc' = "done"
  /\ UNCHANGED <<args, rest, call, tried, streamVars, calls>>

(* _update_observer over the events of a chunk: the last result counts. *)
UpdateObserver(events) ==
  LET results == KeepIn(events, ResultKinds)
  IN observer' = IF results = <<>> THEN observer ELSE results[Len(results)]

Process(bytes, max) ==
  LET done == ProcessJsonlBuffer(bytes, max) IN
  /\ buffer' = done.rest
  /\ parsed' = parsed \o done.events
  /\ UpdateObserver(done.events)

(* A chunk ends anywhere. *)
ReadChunk ==
  /\ pc = "stream" /\ pipe # <<>>
  /\ \E n \in 1..ReadChunkSize :
       /\ n <= Len(pipe)
       /\ Process(buffer \o SubSeq(pipe, 1, n), MaxBufferSize)
       /\ pipe' = SubSeq(pipe, n + 1, Len(pipe))
       /\ arrived' = arrived + n
  /\ UNCHANGED <<args, rest, pc, call, tried, kill, written, calls>>

(* The process dies in the middle of its output. *)
Crash ==
  /\ pc = "stream" /\ pipe # <<>>
  /\ pipe' = <<>>
  /\ UNCHANGED <<args, rest, pc, call, tried, buffer, observer, kill, written, arrived, parsed,
                 calls>>

(* _flush_and_close_stdout: what is left is taken for a line, without a cap. *)
Flush == Process(Append(buffer, Newline), 0)

(* The output is over; a process that does not exit then is killed, which is *)
(* recorded as idle.                                                         *)
Eof ==
  /\ pc = "stream" /\ pipe = <<>>
  /\ Flush
  /\ kill' \in {NoValue, "idle"}
  /\ pc' = "judge"
  /\ UNCHANGED <<args, rest, call, tried, pipe, written, arrived, calls>>

(* _check_resource_limits kills the process; what it has written but nobody  *)
(* has read is not looked at.                                                *)
LimitStrikes ==
  /\ pc = "stream"
  /\ kill' \in LimitReasons
  /\ Flush
  /\ pc' = "judge"
  /\ UNCHANGED <<args, rest, call, tried, pipe, written, arrived, calls>>

(* The attempt in progress, with the end it comes to. *)
Tried(end) == Append(tried, [model |-> Attempts[Len(tried) + 1], end |-> end])

(* An exception, such as a raw log that cannot be written, ends the call; the *)
(* process is killed and the suite goes on.                                  *)
RaiseInCall ==
  /\ pc = "stream"
  /\ Record(call, Tried("raised"), "raised")
  /\ pc' = "next" /\ call' = NoCall /\ tried' = <<>>
  /\ NoStream
  /\ UNCHANGED <<args, rest>>

(* model_unavailable of the CheckResult, with _is_model_unavailable_result. *)
ModelUnavailable == kill = NoValue /\ observer \in GatedKinds

Verdict == CASE ModelUnavailable              -> "unavailable"
             [] kill # NoValue                -> kill
             [] kill = NoValue /\ ~ModelUnavailable -> "finished"

MoreModels == Len(tried) + 1 < Len(Attempts)

(* Only a model that is unavailable is followed by the next one. *)
NextModel ==
  /\ pc = "judge"
  /\ ModelUnavailable /\ MoreModels
  /\ tried' = Tried("unavailable")
  /\ pc' = "spawn"
  /\ UNCHANGED <<args, rest, call, streamVars, calls>>

(* run_claude returns; after a memory kill run_single_check calls Claude once *)
(* more, with the settings of the command line alone.                        *)
Return ==
  /\ pc = "judge"
  /\ ~(ModelUnavailable /\ MoreModels)
  /\ Record(call, Tried(Verdict), Verdict)
  /\ IF kill = "memory" /\ call.check # MemoryFix
     THEN /\ call' = InvokeClaude(MemoryFix, NoValue, NoValue, args.idle_timeout)
          /\ pc' = "spawn"
     ELSE call' = NoCall /\ pc' = "next"
  /\ tried' = <<>>
  /\ NoStream
  /\ UNCHANGED <<args, rest>>

Finished == pc = "done" /\ UNCHANGED vars

Next ==
  \/ ResolveSelectedChecks \/ RunSingleCheck \/ SkipDangerous \/ EndOfChecks
  \/ Spawn \/ SpawnFails \/ ReadChunk \/ Crash \/ Eof \/ LimitStrikes \/ RaiseInCall
  \/ NextModel \/ Return \/ Finished

Spec == Init /\ [][Next]_vars

-----------------------------------------------------------------------------
(* Properties *)

Settings == [check : Ids \union {MemoryFix, NoValue}, model : STRING \union {NoValue},
             effort : ValidEfforts \union {NoValue}, idle_timeout : Nat, fallbacks : Seq(STRING)]

Ends == LimitReasons \union {"unavailable", "finished", "raised"}

(* Every variable keeps to its type; only kinds of events are parsed. *)
TypeOK ==
  /\ args \in CommandLines
  /\ rest \in Seq(Ids)
  /\ pc \in {"choose", "next", "spawn", "stream", "judge", "done"}
  /\ call \in Settings
  /\ tried \in Seq([model : STRING \union {NoValue}, end : Ends])
  /\ pipe \in Seq(Bytes) /\ buffer \in Seq(Bytes)
  /\ observer \in ResultKinds \union {NoValue}
  /\ kill \in LimitReasons \union {NoValue}
  /\ written \in Scripts \union {<<>>} /\ arrived \in Nat /\ parsed \in Seq(Kinds)

(* The events of the process that have arrived, up to their last byte, and   *)
(* those of them that the buffer can hold.                                   *)
Arrived == {i \in DOMAIN written : EndOf(written, i) - 1 <= arrived}
Fitting == {i \in Arrived : written[i].size <= MaxBufferSize}

(* However the output is cut into chunks, and wherever it breaks off: the    *)
(* events taken from it are events that were written, in their order, each   *)
(* at most once; only those longer than the cap can be missing, and the rest *)
(* of such a line is never taken for an event.                               *)
EventsSurviveChunks ==
  pc = "judge" =>
    \E from \in [DOMAIN parsed -> Arrived] :
      /\ \A j, k \in DOMAIN parsed : j < k => from[j] < from[k]
      /\ \A j \in DOMAIN parsed : parsed[j] = written[from[j]].kind
      /\ \A i \in Fitting : \E j \in DOMAIN parsed : from[j] = i

(* A process that was not killed and whose last result says that the model is *)
(* not available, which nothing longer than the cap hides.                   *)
SaysUnavailable ==
  /\ kill = NoValue
  /\ Arrived = Fitting
  /\ \E i \in Arrived : /\ written[i].kind \in GatedKinds
                        /\ \A j \in Arrived : j > i => written[j].kind \notin ResultKinds

(* A model is given up for the next one exactly when its own process said    *)
(* that it is not available: not for a failure, not for a kill, not for what *)
(* an earlier process said.  The models come in the order of the chain, none *)
(* twice, and a call ends as unavailable only when the chain is exhausted; a *)
(* model that the user asked for is never replaced.                          *)
FallbackFollowsUnavailability ==
  /\ pc = "judge" => (SaysUnavailable => ModelUnavailable)
  /\ pc = "judge" => (ModelUnavailable =>
        kill = NoValue /\ \E i \in Arrived : written[i].kind \in GatedKinds)
  /\ \A n \in DOMAIN calls : LET made == calls[n].call  attempts == calls[n].attempts IN
       /\ \A i \in DOMAIN attempts : i < Len(attempts) => attempts[i].end = "unavailable"
       /\ \A i, j \in DOMAIN attempts : i # j => attempts[i].model # attempts[j].model
       /\ attempts # <<>> => attempts[1].model = made.model
       /\ \A i \in 2..Len(attempts) : attempts[i].model = made.fallbacks[i - 1]
       /\ calls[n].outcome = "unavailable" =>
            \/ made.model \in {args.model, NoValue} /\ Len(attempts) = 1
            \/ \A i \in DOMAIN FallbackChain : \E j \in DOMAIN attempts :
                 attempts[j].model = FallbackChain[i]

(* What the user selected, from the command line. *)
Asked(c) ==
  \/ c \in args.checks
  \/ args.all_checks /\ c \in CheckIds(PLAN_CONFIGS["exhaustive"])
  \/ ~args.all_checks /\ args.plan # NoValue /\ c \in CheckIds(ResolvePlanConfig(args))
  \/ ~args.all_checks /\ args.plan = NoValue /\ args.checks = {}
     /\ c \in CheckIds(PLAN_CONFIGS["basic"])

(* The calls of checks, without the follow-ups. *)
CheckCalls == {n \in DOMAIN calls : calls[n].call.check # MemoryFix}

(* The call of a check that a call of the memory fix must follow. *)
NeedsFix(record) == record.outcome = "memory" /\ record.call.check # MemoryFix

(* The plan lists the check of a call once, in entry i. *)
SoleEntry(plan, i, made) ==
  plan[i].id = made.check /\ \A j \in DOMAIN plan : j # i => plan[j].id # made.check

(* What a plan gives to a check that it lists once. *)
HasModelAndEffort(made, plan) ==
  \A i \in DOMAIN plan : SoleEntry(plan, i, made) =>
    /\ args.model = NoValue /\ plan[i].model # NoValue => made.model = plan[i].model
    /\ args.effort = NoValue /\ plan[i].effort # NoValue => made.effort = plan[i].effort

HasIdleTimeout(made, plan) ==
  \A i \in DOMAIN plan : SoleEntry(plan, i, made) /\ plan[i].idle_timeout # NoValue =>
    made.idle_timeout = plan[i].idle_timeout

(* Every check the user asked for is called once, or skipped, in canonical   *)
(* order whatever the order of the plan; a memory kill, and nothing else, is *)
(* followed by one call of the memory fix before the next check; and each    *)
(* call of a check has the model and effort of the command line, else of the *)
(* plan, else, if the plan does not list it, of the super-exhaustive plan,   *)
(* and the idle timeout that a plan lists it with; the memory fix has the    *)
(* settings of the command line alone (resolve_selected_checks,              *)
(* _invoke_claude).                                                          *)
CallsFollowSelection ==
  /\ \A n \in CheckCalls : Asked(calls[n].call.check)
  /\ \A m, n \in CheckCalls : m < n =>
       \E i, j \in DOMAIN CHECKS : i < j /\ CHECKS[i] = calls[m].call.check
                                        /\ CHECKS[j] = calls[n].call.check
  /\ pc = "next" /\ rest = <<>> =>
       \A c \in Ids : Asked(c) => \E n \in CheckCalls : calls[n].call.check = c
  /\ \A n \in DOMAIN calls : calls[n].call.check = MemoryFix <=> n > 1 /\ NeedsFix(calls[n - 1])
  /\ pc = "next" /\ calls # <<>> => ~NeedsFix(calls[Len(calls)])
  /\ \A n \in DOMAIN calls : calls[n].outcome # "skipped" =>
       LET made == calls[n].call  plan == ResolvePlanConfig(args) IN
       /\ args.model # NoValue => made.model = args.model
       /\ args.effort # NoValue => made.effort = args.effort
       /\ made.check # MemoryFix => HasModelAndEffort(made, plan) /\ HasIdleTimeout(made, plan)
       /\ made.check # MemoryFix /\ made.check \notin CheckIds(plan) =>
            HasModelAndEffort(made, PLAN_CONFIGS["super-exhaustive"])
       /\ made.check = MemoryFix =>
            /\ made.model = args.model /\ made.effort = args.effort
            /\ made.idle_timeout = args.idle_timeout

-----------------------------------------------------------------------------
(* Statements of the documentation that the program does not keep            *)

(* README, the options: "--checks  Manually select checks (overrides         *)
(* --plan)" - given both, a run calls no check of the plan but those named.  *)
ManualChecksOverridePlan ==
  args.checks # {} /\ args.plan # NoValue /\ ~args.all_checks =>
    \A n \in CheckCalls : calls[n].call.check \in args.checks
=============================================================================
