----------------------------- MODULE MCClaudeCall -----------------------------
(* Values for checking ClaudeCall with TLC: four checks, plans that list     *)
(* them in another order, twice, or with an unknown id, and processes that   *)
(* write up to three events.                                                 *)
EXTENDS ClaudeCall

Entry(id, model, timeout, effort) ==
  [id |-> id, model |-> model, idle_timeout |-> timeout, effort |-> effort]

MCCheckFiles == <<"docs", "extra", "lint", "meta">>

MCPlans == [name \in {"basic", "exhaustive", "super-exhaustive"} |->
  CASE name = "basic"      -> <<Entry("docs", "sonnet", 6, "medium")>>
    [] name = "exhaustive" -> <<Entry("docs", "sonnet", 6, "medium"), Entry("lint", "opus", 6, "high")>>
    [] OTHER -> <<Entry("docs", "sonnet", 6, "medium"), Entry("meta", "fable", 9, "xhigh"),
                  Entry("lint", "opus", 6, "high")>>]

None == NoValue

MCPlanFiles == [path \in {"own", "empty", "wrong"} |->
  CASE path = "own"   -> <<Entry("meta", None, None, None), Entry("unknown", "opus", None, None),
                           Entry("docs", "fable", None, "low")>>
    [] path = "empty" -> <<>>
    [] OTHER          -> <<Entry("docs", "opus", None, "extreme")>>]

CommandLine(plan, checks, all, model, effort, dry) ==
  [plan |-> plan, checks |-> checks, all_checks |-> all, model |-> model, effort |-> effort,
   idle_timeout |-> 3, dry_run |-> dry]

MCCommandLines ==
  {CommandLine(None, {}, FALSE, None, None, FALSE),
   CommandLine(None, {"extra", "meta"}, FALSE, None, None, FALSE),
   CommandLine(None, {"meta"}, FALSE, "fable", "max", FALSE),
   CommandLine("own", {}, FALSE, None, None, FALSE),
   CommandLine("own", {"lint"}, TRUE, None, None, TRUE),
   CommandLine("own", {"lint", "extra"}, FALSE, None, "max", TRUE),
   CommandLine("exhaustive", {"meta"}, FALSE, "opus", None, TRUE),
   CommandLine("basic", {"docs"}, FALSE, None, None, TRUE),
   CommandLine("empty", {}, FALSE, None, None, FALSE),
   CommandLine("wrong", {"lint"}, FALSE, None, None, FALSE)}

Event(kind, size) == [kind |-> kind, size |-> size]

MCScripts ==
  {<<>>,
   <<Event("done", 2)>>,
   <<Event("gated", 3)>>,
   <<Event("text", 2), Event("failed", 3)>>,
   <<Event("gated", 3), Event("done", 2)>>,
   <<Event("text", 5), Event("gated", 2), Event("text", 2)>>,
   <<Event("text", 2), Event("gated", 5)>>}

MCChain == <<"opus", "sonnet">>

MCEfforts == {"low", "medium", "high", "xhigh", "max"}
=============================================================================
