------------------------------ MODULE Selection ------------------------------
(***************************************************************************)
(* Which checks a command line selects, and with which model, effort and   *)
(* idle timeout each of them runs: cli_args.resolve_selected_checks over   *)
(* the plans of tier_config.                                               *)
(*                                                                         *)
(* A plan is the sequence of its [[checks]] entries; an entry that leaves  *)
(* a setting out has NoValue there.                                        *)
(***************************************************************************)
EXTENDS Naturals, Sequences, Subsequence

CONSTANTS
  CheckFiles,    (* the ids of the check files, sorted                      *)
  PLAN_CONFIGS,  (* the built-in plans by name                              *)
  PlanFiles,     (* the plan files of the user by path                      *)
  DefaultModel,  (* "sonnet"                                                *)
  ValidEfforts,  (* VALID_EFFORT_LEVELS                                     *)
  NoValue

(* An entry of a plan, as it is read from the file. *)
Entries == [id : STRING, model : STRING \union {NoValue}, idle_timeout : Nat \union {NoValue},
            effort : STRING \union {NoValue}]

(* _parse_plan_toml refuses a plan without entries and unknown efforts.      *)
ValidPlan(plan) ==
  /\ plan # <<>>
  /\ \A i \in DOMAIN plan : plan[i].effort \in ValidEfforts \union {NoValue}

(* An entry without a model gets the default model. *)
ParsePlanToml(plan) ==
  [i \in DOMAIN plan |-> [plan[i] EXCEPT !.model = IF @ = NoValue THEN DefaultModel ELSE @]]

CheckIds(plan) == {plan[i].id : i \in DOMAIN plan}

(* The built-in plans parse, or the program does not start. *)
ASSUME SelectionAssumption ==
  /\ CheckFiles \in Seq(STRING) /\ DefaultModel \in STRING
  /\ {"basic", "exhaustive", "super-exhaustive"} \subseteq DOMAIN PLAN_CONFIGS
  /\ \A name \in DOMAIN PLAN_CONFIGS :
       PLAN_CONFIGS[name] \in Seq(Entries) /\ ValidPlan(PLAN_CONFIGS[name])
  /\ \A path \in DOMAIN PlanFiles : PlanFiles[path] \in Seq(Entries)
  /\ NoValue \notin DOMAIN PLAN_CONFIGS

(* _load_all_checks: the canonical order is that of the super-exhaustive     *)
(* plan, and the checks that are not in it come last.                        *)
CHECKS ==
  LET canonical == PLAN_CONFIGS["super-exhaustive"]
      ordered   == [i \in DOMAIN canonical |-> canonical[i].id]
      files     == {CheckFiles[i] : i \in DOMAIN CheckFiles}
  IN KeepIn(ordered, files) \o KeepIn(CheckFiles, STRING \ CheckIds(canonical))

Ids == {CHECKS[i] : i \in DOMAIN CHECKS}

(* model_map, idle_timeout_map and effort_map: the last entry of a check     *)
(* that gives the setting.                                                   *)
SettingMap(plan, setting) ==
  LET Given(id) == {i \in DOMAIN plan : plan[i].id = id /\ plan[i][setting] # NoValue}
      Last(id)  == CHOOSE i \in Given(id) : \A j \in Given(id) : j <= i
  IN [id \in {c \in CheckIds(plan) : Given(c) # {}} |-> plan[Last(id)][setting]]

NoPlan == <<>>

(* _resolve_plan_config.  load_builtin_plan or load_plan_file. *)
ResolvePlanConfig(args) ==
  LET name == CASE args.all_checks                          -> "exhaustive"
                [] ~args.all_checks /\ args.plan # NoValue  -> args.plan
                [] ~args.all_checks /\ args.plan = NoValue
                     /\ args.checks = {}                    -> "basic"
                [] OTHER                                    -> NoValue
  IN IF name = NoValue THEN NoPlan
     ELSE IF name \in DOMAIN PLAN_CONFIGS THEN PLAN_CONFIGS[name] ELSE PlanFiles[name]

Plan(args) == ParsePlanToml(ResolvePlanConfig(args))

SelectedIds(args) == CheckIds(Plan(args)) \union args.checks

(* Variation: the checks in the order in which the plan lists them. *)
SelectedAsListed(args) ==
  LET plan   == Plan(args)
      listed == [i \in DOMAIN plan |-> plan[i].id]
  IN listed \o KeepIn(CHECKS, args.checks)

(* The checks a run goes through; an unknown id in a plan selects nothing.   *)
SelectedChecks(args) == KeepIn(CHECKS, SelectedIds(args))

DefaultsPlan == ParsePlanToml(PLAN_CONFIGS["super-exhaustive"])

(* A setting the plan does not give comes from the super-exhaustive plan if  *)
(* that gives it.                                                            *)
WithDefaults(args, setting) ==
  LET map      == SettingMap(Plan(args), setting)
      fallback == SettingMap(DefaultsPlan, setting)
      ids      == DOMAIN map \union (SelectedIds(args) \intersect DOMAIN fallback)
  IN [id \in ids |-> IF id \in DOMAIN map THEN map[id] ELSE fallback[id]]

Get(map, id, default) == IF id \in DOMAIN map THEN map[id] ELSE default

CheckModel(args, id)       == Get(WithDefaults(args, "model"), id, DefaultModel)
CheckEffort(args, id)      == Get(WithDefaults(args, "effort"), id, NoValue)
CheckIdleTimeout(args, id) == Get(WithDefaults(args, "idle_timeout"), id, args.idle_timeout)
=============================================================================
