------------------------------ MODULE CheckPlan ------------------------------
(***************************************************************************)
(* What checkpoint and resume promise, without files, commits or faults:   *)
(* a run goes through its plan in order, cycle after cycle.  It may stop   *)
(* anywhere and be taken up again later, perhaps repeating checks, but it  *)
(* never passes over one, and it is done only after whole cycles.          *)
(***************************************************************************)
EXTENDS Integers, Sequences

CONSTANTS
  Runs,      \* the runs there can be
  Plans,     \* the check lists a run can have
  Cycles     \* the cycles a run can reach

VARIABLES
  ran,       \* <<run, cycle, check>> the run has been through
  current,   \* the run in progress, 0 when there is none
  plan,      \* its checks
  done       \* the last run was reported complete

planVars == <<ran, current, plan, done>>

\* Everything before position i of cycle c.
Before(r, p, c, i) ==
  {<<r, k, p[j]>> : k \in 1..(c - 1), j \in DOMAIN p}
  \union {<<r, c, p[j]>> : j \in 1..i}

\* The run got to some point of this plan, and did nothing outside it.
FollowsPlan(r, p) ==
  \E c \in Cycles, i \in 0..Len(p) : {x \in ran : x[1] = r} = Before(r, p, c, i)

PlanInit == ran = {} /\ current = 0 /\ plan = <<>> /\ done = FALSE

\* A run is started, or taken up again with the plan it has followed so far.
Open ==
  /\ current = 0
  /\ done' = FALSE /\ UNCHANGED ran
  /\ \E r \in Runs, p \in Plans :
       current' = r /\ plan' = p /\ FollowsPlan(r, p)

\* The run goes on to any check whose predecessors it has been through.  Runs that
\* will not be taken up again may be forgotten on the way.
Attempt ==
  /\ current # 0
  /\ UNCHANGED <<current, plan, done>>
  /\ \E c \in Cycles, i \in DOMAIN plan :
       /\ <<current, c, plan[i]>> \in ran'
       /\ Before(current, plan, c, i - 1) \subseteq ran
       /\ \E others \in SUBSET Runs :
            ran' = {x \in ran : x[1] \in others \union {current}}
                   \union {<<current, c, plan[i]>>}

Close ==
  /\ current # 0
  /\ current' = 0 /\ plan' = <<>>
  /\ UNCHANGED <<ran, done>>

Complete ==
  /\ current # 0
  /\ current' = 0 /\ plan' = <<>>
  /\ done' = TRUE /\ UNCHANGED ran
  /\ \E c \in Cycles : Before(current, plan, c, Len(plan)) \subseteq ran

Acknowledge ==
  /\ done /\ done' = FALSE /\ UNCHANGED <<ran, current, plan>>

PlanNext == Open \/ Attempt \/ Close \/ Complete \/ Acknowledge

PlanSpec == PlanInit /\ [][PlanNext]_planVars
=============================================================================
