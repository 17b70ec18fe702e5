---------------------------- MODULE ProcessTree ----------------------------
(***************************************************************************)
(* Who is killed when.  checkloop starts one Claude process per check, the *)
(* leader of a process group and a session of its own; Claude starts       *)
(* children, which start children, leave the group or the session, ignore  *)
(* SIGTERM, and outlive their parents.  process._kill_process_group ends a *)
(* tree, monitoring.log_memory_usage sweeps after every check, and         *)
(* monitoring.cleanup_all_sessions when checkloop exits.                   *)
(*                                                                         *)
(* checkloop finds processes by walking down from a pid, so a process      *)
(* whose parent has ended, and which init has adopted, is in no tree but   *)
(* init's; and it finds nothing when ps or pgrep fails.  Pids are not      *)
(* reused in this model, and SIGKILL always ends a process.  When the      *)
(* watchdog kills and when streaming ends is the business of Watchdog;     *)
(* here either may happen at any moment.                                   *)
(***************************************************************************)
CONSTANTS
  Leaders,     \* Claude processes, one for each check that is run
  Kids,        \* what they and their children start
  Caffeinate,  \* the process that holds the power assertion
  Checkloop, InitProcess, Nobody

Pids == Leaders \union Kids \union {Caffeinate}

ASSUME ProcessTreeAssumption ==
  /\ Leaders \intersect Kids = {} /\ Caffeinate \notin Leaders \union Kids
  /\ {Checkloop, InitProcess, Nobody} \intersect Pids = {}
  /\ Checkloop # InitProcess /\ Checkloop # Nobody /\ InitProcess # Nobody

VARIABLES
  (* the operating system *)
  state,     \* of every pid: "unused", "running", "zombie" or "gone"
  parent,
  group,     \* the leader whose process group a process is in, or Nobody
  (* checkloop *)
  pc,        \* where checkloop is; in _kill_process_group also
  then,      \* where it goes from there
  leader,    \* the process of the check, Nobody before the first
  known_descendants, extra_pids, teardown_descendants,
  previous_session_ids, previous_descendant_pids,
  unswept, stragglers,  \* at exit: sessions to clean up, and what is in this one
  (* history *)
  doomed     \* whom the kill, or the cleanup at exit, is to end

osVars    == <<state, parent, group>>
killVars  == <<extra_pids, teardown_descendants>>
watchVars == <<previous_session_ids, previous_descendant_pids>>
exitVars  == <<unswept, stragglers>>
vars == <<osVars, pc, then, leader, known_descendants, killVars, watchVars,
          exitVars, doomed>>

Alive(p) == state[p] \in {"running", "zombie"}

\* What Claude and its children start are kids; checkloop starts all others.
ChildrenOf(pids) == {k \in Kids : state[k] = "running" /\ parent[k] \in pids}

\* find_all_descendant_pids: what is in every set that holds the children of root
\* and the children of its own members.
FindAllDescendants(root) ==
  LET closed == {pids \in SUBSET Kids : ChildrenOf({root} \union pids) \subseteq pids}
  IN {k \in Kids : \A pids \in closed : k \in pids}

\* What a walk may return: ps may fail, or exceed its timeout.
Walk(root) == {FindAllDescendants(root), {}}

\* _find_child_pids, and what it may return: pgrep may fail too.
ChildrenOfCheckloop == {p \in Pids : Alive(p) /\ parent[p] = Checkloop}
ChildPids == {ChildrenOfCheckloop, {}}

\* Processes end; init adopts their children.
After(ended) ==
  /\ state' = [p \in Pids |-> IF p \in ended /\ Alive(p) THEN "gone" ELSE state[p]]
  /\ parent' = [p \in Pids |->
                  IF parent[p] \in ended THEN InitProcess ELSE parent[p]]
  /\ UNCHANGED group

Init ==
  /\ state = [p \in Pids |-> IF p = Caffeinate THEN "running" ELSE "unused"]
  /\ parent = [p \in Pids |-> IF p = Caffeinate THEN Checkloop ELSE Nobody]
  /\ group = [p \in Pids |-> Nobody]
  /\ pc = "between" /\ then = "between"
  /\ leader = Nobody
  /\ known_descendants = {} /\ extra_pids = {} /\ teardown_descendants = {}
  /\ previous_session_ids = {} /\ previous_descendant_pids = {}
  /\ unswept = {} /\ stragglers = {}
  /\ doomed = {}

-----------------------------------------------------------------------------
(* _execute_claude_process *)

\* Variation: Claude is started in the process group of checkloop.
StartCheckInOwnGroup ==
  /\ pc = "between"
  /\ \E l \in Leaders :
       /\ state[l] = "unused"
       /\ state' = [state EXCEPT ![l] = "running"]
       /\ parent' = [parent EXCEPT ![l] = Checkloop]
       /\ group' = [group EXCEPT ![l] = Checkloop]
       /\ leader' = l
  /\ known_descendants' = {} /\ doomed' = {}
  /\ pc' = "spawned"
  /\ UNCHANGED <<then, killVars, watchVars, exitVars>>

\* With start_new_session: the leader of a group and of a session.
StartCheck ==
  /\ pc = "between"
  /\ \E l \in Leaders :
       /\ state[l] = "unused"
       /\ state' = [state EXCEPT ![l] = "running"]
       /\ parent' = [parent EXCEPT ![l] = Checkloop]
       /\ group' = [group EXCEPT ![l] = l]
       /\ leader' = l
  /\ known_descendants' = {} /\ doomed' = {}
  /\ pc' = "spawned"
  /\ UNCHANGED <<then, killVars, watchVars, exitVars>>

\* The session is remembered, and only then the try block entered.
TrackSession ==
  /\ pc = "spawned" /\ leader \notin previous_session_ids
  /\ previous_session_ids' = previous_session_ids \union {leader}
  /\ UNCHANGED <<osVars, pc, then, leader, known_descendants, killVars,
                 previous_descendant_pids, exitVars, doomed>>

EnterTry ==
  /\ pc = "spawned" /\ leader \in previous_session_ids
  /\ pc' = "stream"
  /\ UNCHANGED <<osVars, then, leader, known_descendants, killVars, watchVars,
                 exitVars, doomed>>

\* The scan _stream_process_output makes every _MEMORY_CHECK_INTERVAL.
ScanDescendants ==
  /\ pc = "stream"
  /\ \E found \in Walk(leader) : known_descendants' = known_descendants \union found
  /\ UNCHANGED <<osVars, pc, then, leader, killVars, watchVars, exitVars, doomed>>

\* A call of _kill_process_group, which returns to "next" and is to end "ending".
CallKill(extra, next, ending) ==
  /\ extra_pids' = extra
  /\ doomed' = ending
  /\ pc' = "kill"
  /\ then' = next
  /\ teardown_descendants' = {}
  /\ UNCHANGED <<leader, known_descendants, watchVars, exitVars>>

\* The tree of a leader that is still there.
TreeOfLeader(extra) ==
  IF Alive(leader) THEN FindAllDescendants(leader) \union extra ELSE {}

\* A limit is exceeded: the kill inside the loop knows no extra_pids.
WatchdogKills ==
  /\ pc = "stream" /\ Alive(leader)
  /\ CallKill({}, "wait", TreeOfLeader({}))
  /\ UNCHANGED osVars

\* The end of the output, or a leader that poll() finds exited and reaps.
StreamEnds ==
  /\ pc = "stream"
  /\ \E reaped \in SUBSET {leader} :
       /\ \A l \in reaped : state[l] = "zombie"
       /\ After(reaped)
  /\ pc' = "wait"
  /\ UNCHANGED <<then, leader, known_descendants, killVars, watchVars, exitVars,
                 doomed>>

\* process.wait reaps the leader, unless it still runs after the timeout; in
\* either case the finally block kills.
WaitForExit ==
  /\ pc = "wait"
  /\ \/ /\ state[leader] = "zombie"
        /\ After({leader})
        /\ CallKill(known_descendants, "report", {})
     \/ /\ state[leader] # "zombie"
        /\ UNCHANGED osVars
        /\ CallKill(known_descendants, "report", TreeOfLeader(known_descendants))

InKill == pc \in {"kill", "sigterm", "sigkill", "remaining"}

\* Ctrl-C or a signal, before or in a kill made by the watchdog: the finally block
\* kills, and checkloop goes on to exit.  After any other exception it goes on to
\* the next check, past the sweep.
Interrupt ==
  /\ pc \in {"stream", "wait"} \/ (InKill /\ then = "wait")
  /\ \E next \in {"exit", "between"} :
       CallKill(known_descendants, next, TreeOfLeader(known_descendants))
  /\ UNCHANGED osVars

\* Before the try block there is no kill; that of the finally block, and the sweep,
\* are cut short.
InterruptCleanup ==
  /\ (InKill /\ then # "wait") \/ pc \in {"spawned", "report", "sweep"}
  /\ pc' = "exit"
  /\ extra_pids' = {} /\ teardown_descendants' = {} /\ doomed' = {}
  /\ UNCHANGED <<osVars, then, leader, known_descendants, watchVars, exitVars>>

-----------------------------------------------------------------------------
(* _kill_process_group *)

\* The leader is gone: only its session is looked at, and that is a walk down from
\* the leader's pid.
KillGone ==
  /\ pc = "kill" /\ ~Alive(leader)
  /\ \E found \in Walk(leader) : After(found)
  /\ pc' = then
  /\ extra_pids' = {}
  /\ UNCHANGED <<then, leader, known_descendants, teardown_descendants, watchVars,
                 exitVars, doomed>>

\* Variation: the tree is not looked at before the group is signalled.
SnapshotNothing ==
  /\ pc = "kill" /\ Alive(leader)
  /\ pc' = "sigterm"
  /\ UNCHANGED <<osVars, then, leader, known_descendants, killVars, watchVars,
                 exitVars, doomed>>

\* Before anything is signalled: who is below the leader now may not be later.  A
\* walk that fails leaves the kill with what the scans had found.
SnapshotTree ==
  /\ pc = "kill" /\ Alive(leader)
  /\ \E found \in Walk(leader) :
       /\ teardown_descendants' = found
       /\ doomed' = found \union
            {p \in doomed : found = FindAllDescendants(leader) \/ p \in extra_pids}
  /\ pc' = "sigterm"
  /\ UNCHANGED <<osVars, then, leader, known_descendants, extra_pids, watchVars,
                 exitVars>>

Group == {p \in Pids : Alive(p) /\ group[p] = leader}

\* Variation: SIGTERM, and no more when it has no effect.
SignalTermOnly ==
  /\ pc = "sigterm"
  /\ \E ended \in SUBSET Group : After(ended)
  /\ pc' = "remaining"
  /\ UNCHANGED <<then, leader, known_descendants, killVars, watchVars, exitVars,
                 doomed>>

\* SIGTERM to the group; any process may ignore it.  A zombie is reaped by the
\* wait that follows.
SignalTerm ==
  /\ pc = "sigterm"
  /\ \E ended \in SUBSET Group :
       /\ state[leader] = "zombie" => leader \in ended
       /\ After(ended)
       /\ pc' = IF leader \in ended \/ ~Alive(leader) THEN "remaining" ELSE "sigkill"
  /\ UNCHANGED <<then, leader, known_descendants, killVars, watchVars, exitVars,
                 doomed>>

\* Only if the leader is still there.
SignalKill ==
  /\ pc = "sigkill"
  /\ After(Group)
  /\ pc' = "remaining"
  /\ UNCHANGED <<then, leader, known_descendants, killVars, watchVars, exitVars,
                 doomed>>

\* kill_session_stragglers and _kill_remaining_descendants.
KillRemaining ==
  LET targets == (teardown_descendants \union extra_pids) \ {leader}
  IN /\ pc = "remaining"
     /\ \E found \in Walk(leader) : After(found \union targets)
     /\ previous_descendant_pids' = previous_descendant_pids \union targets
     /\ pc' = then
     /\ extra_pids' = {} /\ teardown_descendants' = {}
     /\ UNCHANGED <<then, leader, known_descendants, previous_session_ids,
                    exitVars, doomed>>

-----------------------------------------------------------------------------
(* monitoring *)

\* Who is in the sessions.
InSessions(sids) == UNION {FindAllDescendants(s) : s \in sids}

\* log_memory_usage after a check: every child of checkloop,
SweepChildren ==
  /\ pc = "report"
  /\ \E pids \in ChildPids : After(pids)
  /\ pc' = "sweep"
  /\ UNCHANGED <<then, leader, known_descendants, killVars, watchVars, exitVars,
                 doomed>>

\* then the sessions and the descendants that are tracked.  Only a session in which
\* something was killed stays tracked.
SweepSessions ==
  /\ pc = "sweep"
  /\ \E walked \in SUBSET previous_session_ids :
       /\ After(InSessions(walked) \union previous_descendant_pids)
       /\ previous_session_ids' = {s \in walked : FindAllDescendants(s) # {}}
  /\ previous_descendant_pids' = {}
  /\ pc' = "between"
  /\ UNCHANGED <<then, leader, known_descendants, killVars, exitVars, doomed>>

-----------------------------------------------------------------------------
(* cleanup_all_sessions, at exit *)

\* Variation: the children of checkloop are ended before what is below them.
BeginCleanupWithChildren ==
  /\ pc \in {"between", "exit"}
  /\ After(ChildrenOfCheckloop)
  /\ unswept' = previous_session_ids
  /\ doomed' = InSessions(previous_session_ids) \union (ChildrenOfCheckloop \ {Caffeinate})
  /\ pc' = "cleanup"
  /\ UNCHANGED <<then, leader, known_descendants, killVars, watchVars, stragglers>>

\* The handlers run last in, first out: the power assertion is released before.
BeginCleanup ==
  /\ pc \in {"between", "exit"}
  /\ After({Caffeinate})
  /\ unswept' = previous_session_ids
  /\ doomed' = InSessions(previous_session_ids) \union (ChildrenOfCheckloop \ {Caffeinate})
  /\ pc' = "cleanup"
  /\ UNCHANGED <<then, leader, known_descendants, killVars, watchVars, stragglers>>

\* kill_session_stragglers: a walk down from the session, and the signals.
FindStragglers ==
  /\ pc = "cleanup"
  /\ \E s \in unswept : \E found \in Walk(s) :
       /\ unswept' = unswept \ {s}
       /\ stragglers' = found
       /\ doomed' = IF found = FindAllDescendants(s) THEN doomed
                    ELSE doomed \ FindAllDescendants(s)
  /\ pc' = "straggle"
  /\ UNCHANGED <<osVars, then, leader, known_descendants, killVars, watchVars>>

KillStragglers ==
  /\ pc = "straggle"
  /\ After(stragglers)
  /\ stragglers' = {}
  /\ pc' = "cleanup"
  /\ UNCHANGED <<then, leader, known_descendants, killVars, watchVars, unswept,
                 doomed>>

CleanupTracked ==
  /\ pc = "cleanup" /\ unswept = {}
  /\ After(previous_descendant_pids)
  /\ previous_descendant_pids' = {}
  /\ pc' = "children"
  /\ UNCHANGED <<then, leader, known_descendants, killVars, previous_session_ids,
                 exitVars, doomed>>

\* Last, Claude itself if it is still there.
CleanupChildren ==
  /\ pc = "children"
  /\ \E pids \in ChildPids :
       /\ After(pids)
       /\ doomed' = IF pids = ChildrenOfCheckloop THEN doomed
                    ELSE doomed \ ChildrenOfCheckloop
  /\ previous_session_ids' = {}
  /\ pc' = "exited"
  /\ UNCHANGED <<then, leader, known_descendants, killVars,
                 previous_descendant_pids, exitVars>>

InCleanup == pc \in {"cleanup", "straggle", "children"}

\* Ctrl-C once more: the handler is left where it is.
InterruptExit ==
  /\ InCleanup
  /\ pc' = "exited"
  /\ unswept' = {} /\ stragglers' = {} /\ doomed' = {}
  /\ UNCHANGED <<osVars, then, leader, known_descendants, killVars, watchVars>>

-----------------------------------------------------------------------------
(* The processes themselves. *)

Processes == UNCHANGED <<pc, then, leader, known_descendants, killVars,
                         watchVars, exitVars>>

KidStarts ==
  /\ Processes /\ UNCHANGED doomed
  /\ \E k \in Kids, p \in Leaders \union Kids :
       /\ state[k] = "unused" /\ state[p] = "running"
       /\ state' = [state EXCEPT ![k] = "running"]
       /\ parent' = [parent EXCEPT ![k] = p]
       /\ group' = [group EXCEPT ![k] = group[p]]

\* setsid or setpgid.
KidLeavesGroup ==
  /\ Processes /\ UNCHANGED doomed
  /\ \E k \in Kids :
       /\ state[k] = "running" /\ group[k] # Nobody
       /\ group' = [group EXCEPT ![k] = Nobody]
  /\ UNCHANGED <<state, parent>>

\* Who is below a process that ends can no longer be found by walking down: unless
\* checkloop has its pid already, it is not to be ended any more.
LosesTree(p) ==
  doomed' = doomed \ (FindAllDescendants(p) \
                         (extra_pids \union teardown_descendants \union stragglers))

KidExits ==
  /\ Processes
  /\ \E k \in Kids : state[k] = "running" /\ After({k}) /\ LosesTree(k)

\* The leader is a zombie until checkloop waits for it.
LeaderExits ==
  /\ Processes
  /\ \E l \in Leaders :
       /\ state[l] = "running"
       /\ state' = [state EXCEPT ![l] = "zombie"]
       /\ parent' = [p \in Pids |->
                       IF parent[p] = l THEN InitProcess ELSE parent[p]]
       /\ UNCHANGED group
       /\ LosesTree(l)

Over == pc = "exited" /\ UNCHANGED vars

Next ==
  \/ StartCheck \/ TrackSession \/ EnterTry
  \/ ScanDescendants \/ WatchdogKills \/ StreamEnds \/ WaitForExit
  \/ Interrupt \/ InterruptCleanup
  \/ KillGone \/ SnapshotTree \/ SignalTerm \/ SignalKill \/ KillRemaining
  \/ SweepChildren \/ SweepSessions
  \/ BeginCleanup \/ FindStragglers \/ KillStragglers \/ CleanupTracked
  \/ CleanupChildren \/ InterruptExit
  \/ KidStarts \/ KidLeavesGroup \/ KidExits \/ LeaderExits
  \/ Over

Spec == Init /\ [][Next]_vars

-----------------------------------------------------------------------------
(* Properties. *)

TypeOK ==
  /\ state \in [Pids -> {"unused", "running", "zombie", "gone"}]
  /\ \A k \in Kids : state[k] # "zombie"
  /\ parent \in [Pids -> Pids \union {Checkloop, InitProcess, Nobody}]
  /\ group \in [Pids -> Leaders \union {Nobody}]
  /\ pc \in {"between", "spawned", "stream", "wait", "kill", "sigterm", "sigkill",
             "remaining", "report", "sweep", "exit", "cleanup", "straggle",
             "children", "exited"}
  /\ then \in {"between", "wait", "report", "exit"}
  /\ leader \in Leaders \union {Nobody}
  /\ known_descendants \subseteq Pids /\ extra_pids \subseteq Pids
  /\ teardown_descendants \subseteq Pids
  /\ previous_session_ids \subseteq Leaders /\ unswept \subseteq Leaders
  /\ previous_descendant_pids \subseteq Pids /\ stragglers \subseteq Pids
  /\ doomed \subseteq Pids

\* At most one Claude process at a time works on the repository: when a check
\* starts, the process of every check before it has ended, however it was stopped.
OneLeader ==
  /\ pc \in {"between", "report", "sweep"} => \A l \in Leaders : ~Alive(l)
  /\ pc \in {"spawned", "stream"} => \A l \in Leaders \ {leader} : ~Alive(l)

\* A kill of a process that is still there ends every process below it when the
\* kill begins and every one its walk finds, and, if the kill is the last of the
\* check, every one the scans had found, whatever these do meanwhile: leave the
\* group, ignore SIGTERM, or lose the parent they were found by.  Excepted are those
\* no scan had found and the walk cannot find: their parents end before it, or ps
\* fails.
KilledTreeIsGone ==
  ~InKill /\ ~InCleanup /\ pc # "exited" => \A p \in doomed : ~Alive(p)

\* A Claude process that a kill did not get to, because a signal came before it or
\* in it, is ended at exit, and so is every process that was below it when the
\* cleanup began: these first, since nothing finds them when Claude has ended.
\* Excepted are those whose parents end before the walk, sessions not yet
\* remembered, and what a failing ps or pgrep does not show.
ExitEndsTree ==
  pc = "exited" => \A p \in doomed : ~Alive(p)

\* process.py:1229: the entire process group is dead on every exit path.
EntireGroupDead == pc = "report" => Group = {}

\* README.md:432: the power assertion is there until checkloop exits.
HostStaysAwake == ~InCleanup /\ pc # "exited" => Alive(Caffeinate)
=============================================================================
