-------------------------- MODULE ProcessTreeProofs --------------------------
(***************************************************************************)
(* Two Claude processes never work at once, a kill ends the tree of the    *)
(* process it kills, and the cleanup at exit what a kill did not get to,   *)
(* for any number of checks and processes.                                 *)
(***************************************************************************)
EXTENDS ProcessTree, TLAPS

-----------------------------------------------------------------------------
(* Walking down a tree                                                      *)

\* What a walk finds is running: the running kids are closed under children.
LEMMA FoundIsRunning ==
  ASSUME NEW root
  PROVE  FindAllDescendants(root) \subseteq {k \in Kids : state[k] = "running"}
<1> DEFINE running == {k \in Kids : state[k] = "running"}
<1>1. running \in SUBSET Kids /\ ChildrenOf({root} \union running) \subseteq running
  BY DEF ChildrenOf
<1>2. QED BY <1>1 DEF FindAllDescendants

\* A process without children has no descendants: nothing is closed.
LEMMA ChildlessHasNone ==
  ASSUME NEW root, \A k \in Kids : state[k] = "running" => parent[k] # root
  PROVE  FindAllDescendants(root) = {}
<1>1. {} \in SUBSET Kids /\ ChildrenOf({root} \union {}) \subseteq {}
  BY DEF ChildrenOf
<1>2. QED BY <1>1 DEF FindAllDescendants

\* A walk does not stop before the end: whose parent it finds, it finds.
LEMMA FoundIsClosed ==
  ASSUME NEW root
  PROVE  ChildrenOf({root} \union FindAllDescendants(root)) \subseteq FindAllDescendants(root)
<1> SUFFICES ASSUME NEW c \in ChildrenOf({root} \union FindAllDescendants(root)),
                    NEW pids \in SUBSET Kids, ChildrenOf({root} \union pids) \subseteq pids
             PROVE  c \in pids
  BY DEF FindAllDescendants, ChildrenOf
<1>1. FindAllDescendants(root) \subseteq pids
  BY DEF FindAllDescendants
<1>2. c \in ChildrenOf({root} \union pids)
  BY <1>1 DEF ChildrenOf
<1>3. QED BY <1>2

\* Where every child stays with its parent, or is lost with all that is below it,
\* the next walk finds all but the lost.
LEMMA TreeKept ==
  ASSUME NEW root, NEW lost \in SUBSET Kids,
         \A c \in Kids : state[c] = "running" /\ parent[c] \in {root} \union Kids =>
           c \in lost \/ (state'[c] = "running" /\ parent'[c] = parent[c]),
         ChildrenOf(lost) \subseteq lost
  PROVE  FindAllDescendants(root) \subseteq FindAllDescendants(root)' \union lost
<1> DEFINE next == FindAllDescendants(root)'
           pids == next \union lost
<1>1. next \subseteq Kids /\ pids \in SUBSET Kids
  BY DEF FindAllDescendants
<1>2. ASSUME NEW c \in ChildrenOf({root} \union pids), c \notin lost
      PROVE  c \in next
  <2>1. c \in Kids /\ state[c] = "running" /\ parent[c] \in {root} \union pids
    BY <1>2 DEF ChildrenOf
  <2>2. parent[c] \notin lost
    BY <1>2, <2>1 DEF ChildrenOf
  <2>3. state'[c] = "running" /\ parent'[c] \in {root} \union next
    BY <1>1, <1>2, <2>1, <2>2
  <2>4. SUFFICES ASSUME NEW closed \in SUBSET Kids,
                        (ChildrenOf({root} \union closed) \subseteq closed)'
                 PROVE  c \in closed
    BY <2>1 DEF FindAllDescendants
  <2>5. next \subseteq closed
    BY <2>4 DEF FindAllDescendants
  <2>6. QED BY <2>1, <2>3, <2>4, <2>5 DEF ChildrenOf
<1>3. ChildrenOf({root} \union pids) \subseteq pids
  BY <1>2
<1>4. QED BY <1>1, <1>3 DEF FindAllDescendants

-----------------------------------------------------------------------------
(* The processes                                                            *)

States == {"unused", "running", "zombie", "gone"}
Parents == Pids \union {Checkloop, InitProcess, Nobody}

OsTypes ==
  /\ state \in [Pids -> States]
  /\ parent \in [Pids -> Parents]
  /\ group \in [Pids -> Leaders \union {Nobody}]
  /\ \A k \in Kids : state[k] # "zombie"

\* The children of a process that ends are no longer its children.
ParentsRun == \A p \in Pids : parent[p] \in Pids => state[parent[p]] = "running"

\* checkloop finds a Claude process among its own children, and in its group.
LeadersLead ==
  \A l \in Leaders : /\ state[l] # "unused" => group[l] = l
                     /\ Alive(l) => parent[l] = Checkloop

OsInv == OsTypes /\ ParentsRun /\ LeadersLead

LEMMA PidFacts ==
  /\ Leaders \subseteq Pids /\ Kids \subseteq Pids /\ Caffeinate \in Pids
  /\ Leaders \intersect Kids = {}
  /\ Caffeinate \notin Leaders /\ Caffeinate \notin Kids
  /\ Checkloop \notin Pids /\ InitProcess \notin Pids /\ Nobody \notin Pids
  /\ Checkloop # InitProcess /\ Checkloop # Nobody /\ InitProcess # Nobody
BY ProcessTreeAssumption DEF Pids

LEMMA OsInit == Init => OsInv
<1> SUFFICES ASSUME Init PROVE OsInv
  OBVIOUS
<1>1. OsTypes
  BY PidFacts DEF Init, OsTypes, States, Parents
<1>2. ParentsRun
  BY PidFacts DEF Init, ParentsRun
<1>3. LeadersLead
  BY PidFacts DEF Init, LeadersLead, Alive
<1>4. QED BY <1>1, <1>2, <1>3 DEF OsInv

\* What the ends of processes do to each process, and what they leave alone.
LEMMA AfterEnds ==
  ASSUME OsInv, NEW ended \in SUBSET Pids, After(ended)
  PROVE  /\ OsInv'
         /\ \A p \in Pids : /\ Alive(p)' <=> Alive(p) /\ p \notin ended
                            /\ state'[p] = "unused" <=> state[p] = "unused"
         /\ ChildrenOfCheckloop' = ChildrenOfCheckloop \ ended
<1>1. /\ state \in [Pids -> States] /\ parent \in [Pids -> Parents]
      /\ state' = [p \in Pids |-> IF p \in ended /\ Alive(p) THEN "gone" ELSE state[p]]
      /\ parent' = [p \in Pids |-> IF parent[p] \in ended THEN InitProcess ELSE parent[p]]
      /\ group' = group
  BY DEF After, OsInv, OsTypes
<1>2. \A p \in Pids : /\ Alive(p)' <=> Alive(p) /\ p \notin ended
                      /\ state'[p] = "unused" <=> state[p] = "unused"
  BY <1>1 DEF Alive
<1>3. OsTypes'
  BY <1>1, PidFacts DEF OsInv, OsTypes, States, Parents, Alive
<1>4. ParentsRun'
  <2> SUFFICES ASSUME NEW p \in Pids, parent'[p] \in Pids
               PROVE  state'[parent'[p]] = "running"
    BY DEF ParentsRun
  <2>1. parent'[p] = parent[p] /\ parent[p] \notin ended
    BY <1>1, PidFacts
  <2>2. state[parent[p]] = "running"
    BY <2>1 DEF OsInv, ParentsRun
  <2>3. QED BY <1>1, <2>1, <2>2
<1>5. LeadersLead'
  <2> SUFFICES ASSUME NEW l \in Leaders
               PROVE  /\ state'[l] # "unused" => group'[l] = l
                      /\ Alive(l)' => parent'[l] = Checkloop
    BY DEF LeadersLead
  <2>1. l \in Pids
    BY PidFacts
  <2>2. state'[l] # "unused" => group'[l] = l
    BY <1>1, <1>2, <2>1 DEF OsInv, LeadersLead
  <2>3. Alive(l)' => parent'[l] = Checkloop
    BY <1>1, <1>2, <2>1, PidFacts DEF OsInv, LeadersLead
  <2>4. QED BY <2>2, <2>3
<1>6. ChildrenOfCheckloop' = ChildrenOfCheckloop \ ended
  BY <1>1, <1>2, PidFacts DEF ChildrenOfCheckloop
<1>7. QED BY <1>2, <1>3, <1>4, <1>5, <1>6 DEF OsInv

LEMMA StillOs == OsInv /\ UNCHANGED osVars => OsInv'
BY DEF OsInv, OsTypes, ParentsRun, LeadersLead, Alive, osVars

-----------------------------------------------------------------------------
(* Every step, as the processes see it                                      *)

Places == {"between", "spawned", "stream", "wait", "kill", "sigterm", "sigkill", "remaining",
           "report", "sweep", "exit", "cleanup", "straggle", "children", "exited"}
Returns == {"between", "wait", "report", "exit"}
Working == {"spawned", "stream", "wait", "kill", "sigterm", "sigkill", "remaining"}

\* The kids there are or have been.
Used == {k \in Kids : state[k] # "unused"}

\* What checkloop remembers.
Tracked ==
  /\ pc \in Places /\ then \in Returns
  /\ leader \in Leaders \union {Nobody}
  /\ pc \in Working => leader \in Leaders
  /\ known_descendants \subseteq Used /\ extra_pids \subseteq Used
  /\ teardown_descendants \subseteq Used /\ stragglers \subseteq Used
  /\ doomed \subseteq Used \union Leaders
  /\ previous_session_ids \subseteq Leaders /\ unswept \subseteq Leaders
  /\ previous_descendant_pids \subseteq Pids

LEMMA FoundIsUsed ==
  ASSUME NEW root
  PROVE  FindAllDescendants(root) \subseteq Used /\ FindAllDescendants(root) \subseteq Pids
BY FoundIsRunning, PidFacts DEF Used

LEMMA WalkIsUsed ==
  ASSUME NEW root, NEW found \in Walk(root)
  PROVE  found \subseteq Used /\ found \in SUBSET Pids
BY FoundIsUsed DEF Walk

LEMMA SessionsAreUsed ==
  ASSUME NEW sids
  PROVE  InSessions(sids) \subseteq Used /\ InSessions(sids) \in SUBSET Pids
BY FoundIsUsed DEF InSessions

LEMMA ChildPidsArePids == ASSUME NEW pids \in ChildPids PROVE pids \in SUBSET Pids
BY DEF ChildPids, ChildrenOfCheckloop

\* Processes end.
EndsSome == \E ended \in SUBSET Pids : After(ended)

\* They end or are left alone; or one starts, leaves its group, or becomes a zombie.
LEMMA StepKinds ==
  ASSUME Tracked, Next
  PROVE  \/ UNCHANGED osVars \/ EndsSome
         \/ StartCheck \/ KidStarts \/ KidLeavesGroup \/ LeaderExits
<1>1. CASE \/ TrackSession \/ EnterTry \/ ScanDescendants \/ WatchdogKills \/ Interrupt
           \/ InterruptCleanup \/ SnapshotTree \/ FindStragglers \/ InterruptExit \/ Over
  BY <1>1 DEF TrackSession, EnterTry, ScanDescendants, WatchdogKills, Interrupt, InterruptCleanup,
              SnapshotTree, FindStragglers, InterruptExit, Over, osVars, vars
<1>2. CASE StreamEnds \/ WaitForExit
  <2>1. leader \in Pids
    BY <1>2, PidFacts DEF StreamEnds, WaitForExit, Tracked, Working
  <2>2. QED BY <1>2, <2>1 DEF StreamEnds, WaitForExit, EndsSome
<1>3. CASE KillGone
  BY <1>3, WalkIsUsed DEF KillGone, EndsSome
<1>4. CASE SignalTerm \/ SignalKill
  BY <1>4 DEF SignalTerm, SignalKill, EndsSome, Group
<1>5. CASE KillRemaining
  <2>1. PICK found \in Walk(leader) :
          After(found \union ((teardown_descendants \union extra_pids) \ {leader}))
    BY <1>5 DEF KillRemaining
  <2>2. found \union ((teardown_descendants \union extra_pids) \ {leader}) \in SUBSET Pids
    BY WalkIsUsed, PidFacts DEF Tracked, Used
  <2>3. QED BY <2>1, <2>2 DEF EndsSome
<1>6. CASE SweepChildren \/ CleanupChildren
  BY <1>6, ChildPidsArePids DEF SweepChildren, CleanupChildren, EndsSome
<1>7. CASE SweepSessions
  <2>1. PICK walked \in SUBSET previous_session_ids :
          After(InSessions(walked) \union previous_descendant_pids)
    BY <1>7 DEF SweepSessions
  <2>2. InSessions(walked) \union previous_descendant_pids \in SUBSET Pids
    BY SessionsAreUsed DEF Tracked
  <2>3. QED BY <2>1, <2>2 DEF EndsSome
<1>8. CASE BeginCleanup \/ KillStragglers \/ CleanupTracked
  BY <1>8, PidFacts DEF BeginCleanup, KillStragglers, CleanupTracked, EndsSome, Tracked, Used
<1>9. CASE KidExits
  BY <1>9, PidFacts DEF KidExits, EndsSome
<1>10. CASE StartCheck \/ KidStarts \/ KidLeavesGroup \/ LeaderExits
  BY <1>10
<1>11. QED BY <1>1, <1>2, <1>3, <1>4, <1>5, <1>6, <1>7, <1>8, <1>9, <1>10 DEF Next

\* The start of a Claude process.
LEMMA StartOs ==
  ASSUME OsInv, StartCheck
  PROVE  OsInv' /\ \A k \in Kids : state'[k] = state[k]
<1>1. PICK l \in Leaders :
        /\ state[l] = "unused"
        /\ state' = [state EXCEPT ![l] = "running"]
        /\ parent' = [parent EXCEPT ![l] = Checkloop]
        /\ group' = [group EXCEPT ![l] = l]
  BY DEF StartCheck
<1>2. l \in Pids /\ l \notin Kids
  BY PidFacts
<1>3. state \in [Pids -> States] /\ parent \in [Pids -> Parents] /\ group \in [Pids -> Leaders \union {Nobody}]
  BY DEF OsInv, OsTypes
<1>4. OsTypes'
  BY <1>1, <1>2, <1>3, PidFacts DEF OsInv, OsTypes, States, Parents
<1>5. ParentsRun'
  BY <1>1, <1>2, <1>3, PidFacts DEF OsInv, ParentsRun
<1>6. LeadersLead'
  BY <1>1, <1>2, <1>3, PidFacts DEF OsInv, LeadersLead, Alive
<1>7. QED BY <1>1, <1>2, <1>3, <1>4, <1>5, <1>6, PidFacts DEF OsInv

\* A kid starts below a process that runs.
LEMMA KidStartsOs ==
  ASSUME OsInv, KidStarts
  PROVE  /\ OsInv' /\ Used \subseteq Used'
         /\ \A k \in Used : state'[k] = state[k]
         /\ \A l \in Leaders : state'[l] = state[l]
         /\ ChildrenOfCheckloop' \subseteq ChildrenOfCheckloop
<1>1. PICK k \in Kids, q \in Leaders \union Kids :
        /\ state[k] = "unused" /\ state[q] = "running"
        /\ state' = [state EXCEPT ![k] = "running"]
        /\ parent' = [parent EXCEPT ![k] = q]
        /\ group' = [group EXCEPT ![k] = group[q]]
  BY DEF KidStarts
<1>2. k \in Pids /\ q \in Pids /\ q # Checkloop
  BY PidFacts
<1>3. state \in [Pids -> States] /\ parent \in [Pids -> Parents] /\ group \in [Pids -> Leaders \union {Nobody}]
  BY DEF OsInv, OsTypes
<1>4. OsTypes'
  BY <1>1, <1>2, <1>3, PidFacts DEF OsInv, OsTypes, States, Parents
<1>5. ParentsRun'
  BY <1>1, <1>2, <1>3, PidFacts DEF OsInv, ParentsRun
<1>6. LeadersLead'
  BY <1>1, <1>2, <1>3, PidFacts DEF OsInv, LeadersLead, Alive
<1>7. Used \subseteq Used' /\ (\A u \in Used : state'[u] = state[u])
      /\ (\A l \in Leaders : state'[l] = state[l])
  BY <1>1, <1>2, <1>3, PidFacts DEF Used
<1>8. ChildrenOfCheckloop' \subseteq ChildrenOfCheckloop
  BY <1>1, <1>2, <1>3 DEF ChildrenOfCheckloop, Alive
<1>9. QED BY <1>4, <1>5, <1>6, <1>7, <1>8 DEF OsInv

LEMMA KidLeavesGroupOs ==
  ASSUME OsInv, KidLeavesGroup
  PROVE  OsInv' /\ state' = state /\ parent' = parent
<1>1. PICK k \in Kids : group' = [group EXCEPT ![k] = Nobody] /\ state' = state /\ parent' = parent
  BY DEF KidLeavesGroup
<1>2. OsTypes' /\ ParentsRun'
  BY <1>1, PidFacts DEF OsInv, OsTypes, ParentsRun
<1>3. LeadersLead'
  BY <1>1, PidFacts DEF OsInv, OsTypes, LeadersLead, Alive
<1>4. QED BY <1>1, <1>2, <1>3 DEF OsInv

\* A Claude process becomes a zombie, which its children leave.
LEMMA LeaderExitsOs ==
  ASSUME OsInv, LeaderExits
  PROVE  /\ OsInv' /\ \A k \in Kids : state'[k] = state[k]
         /\ \A p \in Pids : Alive(p)' <=> Alive(p)
         /\ ChildrenOfCheckloop' \subseteq ChildrenOfCheckloop
<1>1. PICK l \in Leaders :
        /\ state[l] = "running"
        /\ state' = [state EXCEPT ![l] = "zombie"]
        /\ parent' = [p \in Pids |-> IF parent[p] = l THEN InitProcess ELSE parent[p]]
        /\ group' = group
  BY DEF LeaderExits
<1>2. l \in Pids /\ l \notin Kids
  BY PidFacts
<1>3. state \in [Pids -> States] /\ parent \in [Pids -> Parents]
  BY DEF OsInv, OsTypes
<1>4. OsTypes'
  BY <1>1, <1>2, <1>3, PidFacts DEF OsInv, OsTypes, States, Parents
<1>5. ParentsRun'
  <2> SUFFICES ASSUME NEW p \in Pids, parent'[p] \in Pids
               PROVE  state'[parent'[p]] = "running"
    BY DEF ParentsRun
  <2>1. parent'[p] = parent[p] /\ parent[p] # l
    BY <1>1, PidFacts
  <2>2. QED BY <1>1, <1>3, <2>1 DEF OsInv, ParentsRun
<1>6. \A p \in Pids : Alive(p)' <=> Alive(p)
  BY <1>1, <1>2, <1>3 DEF Alive
<1>7. LeadersLead'
  <2> SUFFICES ASSUME NEW m \in Leaders
               PROVE  /\ state'[m] # "unused" => group'[m] = m
                      /\ Alive(m)' => parent'[m] = Checkloop
    BY DEF LeadersLead
  <2>1. m \in Pids
    BY PidFacts
  <2>2. state'[m] # "unused" => group'[m] = m
    BY <1>1, <1>3, <2>1 DEF OsInv, LeadersLead
  <2>3. Alive(m)' => parent'[m] = Checkloop
    BY <1>1, <1>2, <1>6, <2>1, PidFacts DEF OsInv, LeadersLead
  <2>4. QED BY <2>2, <2>3
<1>8. \A k \in Kids : state'[k] = state[k]
  BY <1>1, <1>2, <1>3, PidFacts
<1>9. ChildrenOfCheckloop' \subseteq ChildrenOfCheckloop
  BY <1>1, <1>6, PidFacts DEF ChildrenOfCheckloop
<1>10. QED BY <1>4, <1>5, <1>6, <1>7, <1>8, <1>9 DEF OsInv

\* Whatever happens, who has ended stays so.
LEMMA OsStep ==
  ASSUME OsInv, Tracked, Next
  PROVE  OsInv' /\ Used \subseteq Used' /\ \A k \in Used : Alive(k)' => Alive(k)
<1>1. CASE UNCHANGED osVars
  BY <1>1, StillOs DEF osVars, Used, Alive
<1>2. CASE EndsSome
  <2>1. PICK ended \in SUBSET Pids : After(ended)
    BY <1>2 DEF EndsSome
  <2>2. QED BY <2>1, AfterEnds, PidFacts DEF Used
<1>3. CASE StartCheck
  BY <1>3, StartOs DEF Used, Alive
<1>4. CASE KidStarts
  BY <1>4, KidStartsOs DEF Alive
<1>5. CASE KidLeavesGroup
  BY <1>5, KidLeavesGroupOs DEF Used, Alive
<1>6. CASE LeaderExits
  BY <1>6, LeaderExitsOs DEF Used, Alive
<1>7. QED BY <1>1, <1>2, <1>3, <1>4, <1>5, <1>6, StepKinds

\* Only a check that starts brings a Claude process to life.
LEMMA LeadersStep ==
  ASSUME OsInv, Tracked, Next, ~StartCheck
  PROVE  /\ \A l \in Leaders : Alive(l)' => Alive(l)
         /\ ChildrenOfCheckloop' \subseteq ChildrenOfCheckloop
<1>1. CASE UNCHANGED osVars
  BY <1>1 DEF osVars, Alive, ChildrenOfCheckloop
<1>2. CASE EndsSome
  <2>1. PICK ended \in SUBSET Pids : After(ended)
    BY <1>2 DEF EndsSome
  <2>2. QED BY <2>1, AfterEnds, PidFacts
<1>3. CASE KidStarts
  BY <1>3, KidStartsOs DEF Alive
<1>4. CASE KidLeavesGroup
  BY <1>4, KidLeavesGroupOs DEF Alive, ChildrenOfCheckloop
<1>5. CASE LeaderExits
  BY <1>5, LeaderExitsOs, PidFacts
<1>6. QED BY <1>1, <1>2, <1>3, <1>4, <1>5, StepKinds

-----------------------------------------------------------------------------
(* Where checkloop is, and which Claude process may be there                *)

NoLeader == \A l \in Leaders : ~Alive(l)

CheckInv ==
  /\ InKill => then \in {"wait", "report", "exit", "between"}
  /\ \A l \in Leaders \ {leader} : ~Alive(l)
  /\ pc = "remaining" => ~Alive(leader)
  /\ pc \in {"between", "report", "sweep"} => NoLeader
  /\ stragglers # {} => pc = "straggle" /\ leader \notin unswept

\* What a kill has been told and has found, it forgets when it is over.
LocalInv ==
  /\ extra_pids # {} => InKill
  /\ teardown_descendants # {} => pc \in {"sigterm", "sigkill", "remaining"}

\* Where no process is being ended.
Quiet == {"between", "spawned", "stream", "wait", "report", "sweep", "exit", "exited"}

\* Whoever is to be ended and lives is still in reach.
DoomInv ==
  /\ pc = "kill" =>
       /\ ~Alive(leader) => doomed = {}
       /\ \A p \in doomed : Alive(p) => p \in FindAllDescendants(leader) \union extra_pids
  /\ pc \in {"sigterm", "sigkill", "remaining"} =>
       \A p \in doomed : Alive(p) => p \in teardown_descendants \union extra_pids
  /\ pc \in {"cleanup", "straggle"} =>
       \A p \in doomed : Alive(p) =>
         p \in ChildrenOfCheckloop \union stragglers \union InSessions(unswept)
  /\ pc = "children" => \A p \in doomed : Alive(p) => p \in ChildrenOfCheckloop
  /\ pc \in Quiet => \A p \in doomed : ~Alive(p)

TreeInv == OsInv /\ Tracked /\ CheckInv /\ LocalInv /\ DoomInv

LEMMA TreeInit == Init => TreeInv
<1> SUFFICES ASSUME Init PROVE TreeInv
  OBVIOUS
<1>1. OsInv
  BY OsInit
<1>2. Tracked
  BY DEF Init, Tracked, Places, Returns, Working
<1>3. NoLeader
  BY PidFacts DEF Init, NoLeader, Alive
<1>4. CheckInv /\ LocalInv /\ DoomInv
  BY <1>3 DEF Init, CheckInv, LocalInv, DoomInv, NoLeader, InKill
<1>5. QED BY <1>1, <1>2, <1>4 DEF TreeInv

LEMMA TrackedStep ==
  ASSUME TreeInv, Next
  PROVE  Tracked'
<1>0. OsInv /\ Tracked /\ CheckInv /\ Used \subseteq Used'
  BY OsStep DEF TreeInv
<1>a. \A root : FindAllDescendants(root) \subseteq Used
  BY FoundIsUsed
<1>1. CASE StartCheck
  BY <1>0, <1>1 DEF StartCheck, Tracked, Places, Returns, Working, killVars, watchVars, exitVars
<1>2. CASE TrackSession \/ EnterTry
  BY <1>0, <1>2
  DEF TrackSession, EnterTry, Tracked, Places, Returns, Working, killVars, watchVars, exitVars
<1>3. CASE ScanDescendants
  <2>1. PICK found \in Walk(leader) : known_descendants' = known_descendants \union found
    BY <1>3 DEF ScanDescendants
  <2>2. known_descendants' \subseteq Used
    BY <1>0, <2>1, WalkIsUsed DEF Tracked
  <2>3. QED
    BY <1>0, <1>3, <2>2
    DEF ScanDescendants, Tracked, Places, Returns, Working, killVars, watchVars, exitVars
<1>4. CASE WatchdogKills \/ WaitForExit \/ Interrupt
  <2>1. doomed' \subseteq Used /\ extra_pids' \subseteq Used
    BY <1>0, <1>4, <1>a DEF WatchdogKills, WaitForExit, Interrupt, CallKill, TreeOfLeader, Tracked
  <2>2. QED
    BY <1>0, <1>4, <2>1 DEF WatchdogKills, WaitForExit, Interrupt, CallKill, InKill, Tracked, Places,
                            Returns, Working, watchVars, exitVars
<1>5. CASE StreamEnds \/ InterruptCleanup \/ SignalTerm \/ SignalKill \/ KillGone
  BY <1>0, <1>5 DEF StreamEnds, InterruptCleanup, SignalTerm, SignalKill, KillGone, Tracked, Places,
                    Returns, Working, killVars, watchVars, exitVars
<1>6. CASE SnapshotTree
  <2>1. PICK found \in Walk(leader) :
          /\ teardown_descendants' = found
          /\ doomed' = found \union
               {p \in doomed : found = FindAllDescendants(leader) \/ p \in extra_pids}
    BY <1>6 DEF SnapshotTree
  <2>2. teardown_descendants' \subseteq Used /\ doomed' \subseteq Used \union Leaders
    BY <1>0, <2>1, WalkIsUsed DEF Tracked
  <2>3. QED
    BY <1>0, <1>6, <2>2 DEF SnapshotTree, Tracked, Places, Returns, Working, watchVars, exitVars
<1>7. CASE KillRemaining
  <2>1. previous_descendant_pids' \subseteq Pids
    BY <1>0, <1>7, PidFacts DEF KillRemaining, Tracked, Used
  <2>2. QED
    BY <1>0, <1>7, <2>1 DEF KillRemaining, Tracked, Places, Returns, Working, exitVars
<1>8. CASE SweepChildren \/ SweepSessions \/ KillStragglers \/ CleanupTracked \/ InterruptExit
  BY <1>0, <1>8 DEF SweepChildren, SweepSessions, KillStragglers, CleanupTracked, InterruptExit,
                    InCleanup, Tracked, Places, Returns, Working, killVars, watchVars, exitVars
<1>9. CASE BeginCleanup
  <2>1. \A p \in ChildrenOfCheckloop \ {Caffeinate} : p \in Leaders \union Used
    BY <1>0, PidFacts DEF ChildrenOfCheckloop, Alive, Used, Pids
  <2>2. doomed' \subseteq Used \union Leaders
    BY <1>9, <2>1, SessionsAreUsed DEF BeginCleanup
  <2>3. QED
    BY <1>0, <1>9, <2>2 DEF BeginCleanup, Tracked, Places, Returns, Working, killVars, watchVars
<1>10. CASE FindStragglers
  <2>1. PICK s \in unswept : \E found \in Walk(s) :
          /\ unswept' = unswept \ {s} /\ stragglers' = found
          /\ doomed' = IF found = FindAllDescendants(s) THEN doomed
                       ELSE doomed \ FindAllDescendants(s)
    BY <1>10 DEF FindStragglers
  <2>2. /\ unswept' \subseteq Leaders /\ stragglers' \subseteq Used
        /\ doomed' \subseteq Used \union Leaders
    BY <1>0, <2>1, WalkIsUsed DEF Tracked
  <2>3. QED
    BY <1>0, <1>10, <2>2 DEF FindStragglers, Tracked, Places, Returns, Working, killVars, watchVars
<1>11. CASE CleanupChildren
  <2>1. doomed' \subseteq doomed
    BY <1>11 DEF CleanupChildren
  <2>2. QED
    BY <1>0, <1>11, <2>1 DEF CleanupChildren, Tracked, Places, Returns, Working, killVars, exitVars
<1>12. CASE KidStarts \/ KidLeavesGroup \/ KidExits \/ LeaderExits \/ Over
  <2>1. /\ UNCHANGED <<pc, then, leader, known_descendants, killVars, watchVars, exitVars>>
        /\ doomed' \subseteq doomed
    BY <1>12
    DEF KidStarts, KidLeavesGroup, KidExits, LeaderExits, LosesTree, Over, Processes, vars
  <2>2. QED BY <1>0, <2>1 DEF Tracked, killVars, watchVars, exitVars
<1>13. QED
  BY <1>1, <1>2, <1>3, <1>4, <1>5, <1>6, <1>7, <1>8, <1>9, <1>10, <1>11, <1>12 DEF Next

\* Nothing is below a process that has ended.
LEMMA DeadHaveNone ==
  ASSUME OsInv, NEW s \in Leaders, ~Alive(s)
  PROVE  FindAllDescendants(s) = {}
<1>1. \A k \in Kids : state[k] = "running" => parent[k] # s
  BY PidFacts DEF OsInv, ParentsRun, Alive
<1>2. QED BY <1>1, ChildlessHasNone

\* A session in which there is something is that of the leader.
LEMMA OnlyTheLeader ==
  ASSUME OsInv, CheckInv, NEW s \in Leaders, NEW p \in FindAllDescendants(s)
  PROVE  s = leader /\ Alive(leader)
BY DeadHaveNone DEF CheckInv

LEMMA CheckStep ==
  ASSUME TreeInv, Next
  PROVE  CheckInv'
<1>0. OsInv /\ Tracked /\ CheckInv
  BY DEF TreeInv
<1>1. CASE StartCheck
  <2>1. PICK l \in Leaders :
          state' = [state EXCEPT ![l] = "running"] /\ leader' = l
    BY <1>1 DEF StartCheck
  <2>2. pc = "between" /\ pc' = "spawned" /\ stragglers' = stragglers
    BY <1>1 DEF StartCheck, exitVars
  <2>3. \A m \in Leaders \ {l} : ~Alive(m)'
    BY <1>0, <2>1, <2>2, PidFacts DEF OsInv, OsTypes, CheckInv, NoLeader, Alive
  <2>4. QED BY <1>0, <2>1, <2>2, <2>3 DEF CheckInv, InKill
<1> SUFFICES ASSUME ~StartCheck PROVE CheckInv'
  BY <1>1
<1>2. \A l \in Leaders : Alive(l)' => Alive(l)
  BY <1>0, LeadersStep
<1>3. CASE TrackSession \/ EnterTry \/ ScanDescendants \/ StreamEnds \/ SnapshotTree
  <2>1. /\ pc' \in {"spawned", "stream", "wait", "sigterm"} /\ pc \in Working /\ leader' = leader
        /\ then' = then /\ (pc' = "sigterm" => InKill) /\ stragglers' = stragglers
    BY <1>3 DEF TrackSession, EnterTry, ScanDescendants, StreamEnds, SnapshotTree, InKill, Working,
                exitVars
  <2>2. QED BY <1>0, <1>2, <2>1 DEF CheckInv, InKill, Working
<1>4. CASE WatchdogKills \/ WaitForExit \/ Interrupt
  <2>1. /\ pc' = "kill" /\ pc \in Working /\ leader' = leader /\ stragglers' = stragglers
        /\ then' \in {"wait", "report", "exit", "between"}
    BY <1>4 DEF WatchdogKills, WaitForExit, Interrupt, CallKill, InKill, Working, exitVars
  <2>2. QED BY <1>0, <1>2, <2>1 DEF CheckInv, InKill, Working
<1>5. CASE InterruptCleanup \/ InterruptExit
  <2>1. /\ pc' \in {"exit", "exited"} /\ leader' = leader
        /\ stragglers' = {} \/ (stragglers' = stragglers /\ pc # "straggle")
    BY <1>5 DEF InterruptCleanup, InterruptExit, InKill, exitVars
  <2>2. QED BY <1>0, <1>2, <2>1 DEF CheckInv, InKill
<1>6. CASE KillGone \/ KillRemaining
  <2>1. /\ pc \in {"kill", "remaining"} /\ pc' = then /\ leader' = leader
        /\ stragglers' = stragglers
        /\ then \in {"wait", "report", "exit", "between"} /\ ~Alive(leader)
    BY <1>0, <1>6 DEF KillGone, KillRemaining, CheckInv, InKill, exitVars
  <2>2. NoLeader'
    BY <1>0, <1>2, <2>1 DEF CheckInv, NoLeader
  <2>3. QED BY <1>0, <2>1, <2>2 DEF CheckInv, NoLeader, InKill
<1>7. CASE SignalTerm
  <2>1. PICK ended \in SUBSET Group :
          /\ After(ended)
          /\ pc' = IF leader \in ended \/ ~Alive(leader) THEN "remaining" ELSE "sigkill"
    BY <1>7 DEF SignalTerm
  <2>2. /\ pc = "sigterm" /\ leader' = leader /\ then' = then /\ leader \in Leaders
        /\ stragglers' = stragglers
    BY <1>0, <1>7 DEF SignalTerm, Tracked, Working, exitVars
  <2>3. ended \in SUBSET Pids
    BY DEF Group
  <2>4. pc' = "remaining" => ~Alive(leader)'
    BY <1>0, <2>1, <2>2, <2>3, AfterEnds, PidFacts
  <2>5. QED BY <1>0, <1>2, <2>1, <2>2, <2>4 DEF CheckInv, InKill, Alive
<1>8. CASE SignalKill
  <2>1. pc = "sigkill" /\ pc' = "remaining" /\ leader' = leader /\ then' = then /\ leader \in Leaders
        /\ After(Group) /\ Group \in SUBSET Pids /\ stragglers' = stragglers
    BY <1>0, <1>8 DEF SignalKill, Tracked, Working, Group, exitVars
  <2>2. Alive(leader) => leader \in Group
    BY <1>0, <2>1, PidFacts DEF OsInv, LeadersLead, Group, Alive
  <2>3. ~Alive(leader)'
    BY <1>0, <2>1, <2>2, AfterEnds, PidFacts
  <2>4. QED BY <1>0, <1>2, <2>1, <2>3 DEF CheckInv, InKill, Alive
<1>9. CASE SweepChildren \/ SweepSessions
  BY <1>0, <1>2, <1>9 DEF SweepChildren, SweepSessions, CheckInv, NoLeader, InKill, exitVars
<1>10. CASE \/ BeginCleanup \/ KillStragglers \/ CleanupTracked \/ CleanupChildren
  <2>1. /\ pc' \in {"cleanup", "children", "exited"} /\ leader' = leader
        /\ stragglers' = {} \/ (stragglers' = stragglers /\ pc # "straggle")
    BY <1>10 DEF BeginCleanup, KillStragglers, CleanupTracked, CleanupChildren, exitVars
  <2>2. QED BY <1>0, <1>2, <2>1 DEF CheckInv, InKill
<1>11. CASE FindStragglers
  <2>1. PICK s \in unswept : unswept' = unswept \ {s} /\ stragglers' \in Walk(s)
    BY <1>11 DEF FindStragglers
  <2>2. pc' = "straggle" /\ leader' = leader /\ s \in Leaders
    BY <1>0, <1>11 DEF FindStragglers, Tracked
  <2>3. stragglers' # {} => s = leader
    BY <1>0, <2>1, <2>2, OnlyTheLeader DEF Walk
  <2>4. QED BY <1>0, <1>2, <2>1, <2>2, <2>3 DEF CheckInv, InKill
<1>12. CASE KidStarts \/ KidLeavesGroup \/ KidExits \/ LeaderExits \/ Over
  <2>1. UNCHANGED <<pc, then, leader, stragglers, unswept>>
    BY <1>12 DEF KidStarts, KidLeavesGroup, KidExits, LeaderExits, Over, Processes, vars, exitVars
  <2>2. pc = "remaining" => leader \in Leaders
    BY <1>0 DEF Tracked, Working
  <2>3. QED BY <1>0, <1>2, <2>1, <2>2 DEF CheckInv, NoLeader, InKill
<1>13. QED
  BY <1>3, <1>4, <1>5, <1>6, <1>7, <1>8, <1>9, <1>10, <1>11, <1>12 DEF Next

LEMMA LocalStep ==
  ASSUME LocalInv, Next
  PROVE  LocalInv'
<1>1. CASE \/ StartCheck \/ TrackSession \/ EnterTry \/ ScanDescendants \/ StreamEnds
           \/ SweepChildren \/ SweepSessions \/ BeginCleanup \/ FindStragglers \/ KillStragglers
           \/ CleanupTracked \/ CleanupChildren \/ InterruptExit
  <2>1. ~InKill /\ UNCHANGED killVars
    BY <1>1 DEF StartCheck, TrackSession, EnterTry, ScanDescendants, StreamEnds, SweepChildren,
                SweepSessions, BeginCleanup, FindStragglers, KillStragglers, CleanupTracked,
                CleanupChildren, InterruptExit, InCleanup, InKill
  <2>2. QED BY <2>1 DEF LocalInv, InKill, killVars
<1>2. CASE WatchdogKills \/ WaitForExit \/ Interrupt
  BY <1>2 DEF WatchdogKills, WaitForExit, Interrupt, CallKill, LocalInv, InKill
<1>3. CASE InterruptCleanup \/ KillGone \/ KillRemaining
  <2>1. extra_pids' = {} /\ teardown_descendants' = {}
    BY <1>3 DEF InterruptCleanup, KillGone, KillRemaining, LocalInv
  <2>2. QED BY <2>1 DEF LocalInv
<1>4. CASE SnapshotTree \/ SignalTerm \/ SignalKill
  BY <1>4 DEF SnapshotTree, SignalTerm, SignalKill, killVars, LocalInv, InKill
<1>5. CASE KidStarts \/ KidLeavesGroup \/ KidExits \/ LeaderExits \/ Over
  <2>1. UNCHANGED <<pc, killVars>>
    BY <1>5 DEF KidStarts, KidLeavesGroup, KidExits, LeaderExits, Over, Processes, vars
  <2>2. QED BY <2>1 DEF LocalInv, InKill, killVars
<1>6. QED BY <1>1, <1>2, <1>3, <1>4, <1>5 DEF Next

\* Who is below a Claude process and does not lose its parent stays below it, as
\* far as the processes themselves can change that.
LEMMA BelowStays ==
  ASSUME OsInv, NEW root \in Leaders,
         KidStarts \/ KidLeavesGroup \/ KidExits \/ LeaderExits,
         NEW p \in FindAllDescendants(root), p \in doomed', Alive(p)'
  PROVE  \/ p \in FindAllDescendants(root)'
         \/ p \in extra_pids \union teardown_descendants \union stragglers
<1>0. p \in Kids /\ root \notin Kids
  BY FoundIsRunning, PidFacts
<1>1. CASE KidStarts \/ KidLeavesGroup
  <2>1. \A c \in Kids : state[c] = "running" => state'[c] = "running" /\ parent'[c] = parent[c]
    <3>1. CASE KidStarts
      BY <3>1, PidFacts DEF KidStarts, OsInv, OsTypes, States
    <3>2. CASE KidLeavesGroup
      BY <3>2, KidLeavesGroupOs
    <3>3. QED BY <1>1, <3>1, <3>2
  <2>2. ChildrenOf({}) \subseteq {}
    BY DEF ChildrenOf
  <2>3. FindAllDescendants(root) \subseteq FindAllDescendants(root)' \union {}
    BY <2>1, <2>2, TreeKept
  <2>4. QED BY <2>3
<1>2. CASE KidExits
  <2>1. PICK k \in Kids : state[k] = "running" /\ After({k}) /\ LosesTree(k)
    BY <1>2 DEF KidExits
  <2> DEFINE lost == {k} \union FindAllDescendants(k)
  <2>2. lost \in SUBSET Kids
    BY FoundIsRunning
  <2>3. ChildrenOf(lost) \subseteq lost
    BY FoundIsClosed
  <2>4. \A c \in Kids : state[c] = "running" /\ parent[c] \in {root} \union Kids =>
          c \in lost \/ (state'[c] = "running" /\ parent'[c] = parent[c])
    <3> SUFFICES ASSUME NEW c \in Kids, state[c] = "running", c \notin lost
                 PROVE  state'[c] = "running" /\ parent'[c] = parent[c]
      OBVIOUS
    <3>1. parent[c] # k
      BY <2>3 DEF ChildrenOf
    <3>2. c # k /\ c \in Pids
      BY PidFacts
    <3>3. QED BY <2>1, <3>1, <3>2 DEF After
  <2> HIDE DEF lost
  <2>5. FindAllDescendants(root) \subseteq FindAllDescendants(root)' \union lost
    BY <2>2, <2>3, <2>4, TreeKept
  <2>6. k \in Pids /\ {k} \in SUBSET Pids
    BY PidFacts
  <2>7. p # k
    BY <2>1, <2>6, AfterEnds
  <2>8. QED BY <2>1, <2>5, <2>7 DEF LosesTree, lost
<1>3. CASE LeaderExits
  <2>1. PICK l \in Leaders :
          /\ state[l] = "running"
          /\ state' = [state EXCEPT ![l] = "zombie"]
          /\ parent' = [q \in Pids |-> IF parent[q] = l THEN InitProcess ELSE parent[q]]
          /\ LosesTree(l)
    BY <1>3 DEF LeaderExits
  <2>2. CASE l = root
    BY <2>1, <2>2 DEF LosesTree
  <2>3. CASE l # root
    <3>1. \A c \in Kids : state[c] = "running" /\ parent[c] \in {root} \union Kids =>
            state'[c] = "running" /\ parent'[c] = parent[c]
      BY <2>1, <2>3, PidFacts DEF OsInv, OsTypes
    <3>2. ChildrenOf({}) \subseteq {}
      BY DEF ChildrenOf
    <3>3. FindAllDescendants(root) \subseteq FindAllDescendants(root)' \union {}
      BY <3>1, <3>2, TreeKept
    <3>4. QED BY <3>3
  <2>4. QED BY <2>2, <2>3
<1>4. QED BY <1>1, <1>2, <1>3

\* A child of checkloop stays one as long as it is there.
LEMMA ChildStays ==
  ASSUME OsInv, KidStarts \/ KidLeavesGroup \/ KidExits \/ LeaderExits,
         NEW p \in ChildrenOfCheckloop, Alive(p)'
  PROVE  p \in ChildrenOfCheckloop'
<1>0. p \in Pids /\ parent[p] = Checkloop /\ Alive(p)
  BY DEF ChildrenOfCheckloop
<1>1. parent'[p] = Checkloop
  <2>1. CASE KidStarts
    BY <1>0, <2>1, PidFacts DEF KidStarts, OsInv, OsTypes, Alive
  <2>2. CASE KidLeavesGroup
    BY <1>0, <2>2, KidLeavesGroupOs
  <2>3. CASE KidExits
    BY <1>0, <2>3, PidFacts DEF KidExits, After
  <2>4. CASE LeaderExits
    BY <1>0, <2>4, PidFacts DEF LeaderExits
  <2>5. QED BY <2>1, <2>2, <2>3, <2>4
<1>2. QED BY <1>0, <1>1 DEF ChildrenOfCheckloop

\* What the processes do between two steps of checkloop.
LEMMA DoomOfProcesses ==
  ASSUME TreeInv, KidStarts \/ KidLeavesGroup \/ KidExits \/ LeaderExits
  PROVE  DoomInv'
<1>0. OsInv /\ Tracked /\ CheckInv /\ LocalInv /\ DoomInv
  BY DEF TreeInv
<1>1. /\ UNCHANGED <<pc, leader, extra_pids, teardown_descendants, unswept, stragglers>>
      /\ doomed' \subseteq doomed
  BY DEF KidStarts, KidLeavesGroup, KidExits, LeaderExits, LosesTree, Processes, killVars, exitVars
<1>2. \A p \in Used \union Leaders : Alive(p)' => Alive(p)
  <2>1. ~StartCheck \/ UNCHANGED pc
    BY <1>1
  <2>2. Next
    BY DEF Next
  <2>3. \A k \in Used : Alive(k)' => Alive(k)
    BY <1>0, <2>2, OsStep
  <2>4. ~StartCheck
    BY <1>1 DEF StartCheck
  <2>5. QED BY <1>0, <2>2, <2>3, <2>4, LeadersStep
<1>3. \A p \in doomed' : Alive(p)' => p \in doomed /\ Alive(p)
  BY <1>0, <1>1, <1>2 DEF Tracked
<1>4. ASSUME pc = "kill", ~Alive(leader)'
      PROVE  ~Alive(leader)
  <2>1. leader \in Leaders
    BY <1>0, <1>4 DEF Tracked, Working
  <2>2. CASE KidStarts
    BY <1>0, <1>1, <1>4, <2>1, <2>2, KidStartsOs DEF Alive
  <2>3. CASE KidLeavesGroup
    BY <1>0, <1>1, <1>4, <2>1, <2>3, KidLeavesGroupOs DEF Alive
  <2>4. CASE KidExits
    <3>1. PICK k \in Kids : After({k})
      BY <2>4 DEF KidExits
    <3>2. {k} \in SUBSET Pids /\ leader # k /\ leader \in Pids
      BY <2>1, PidFacts
    <3>3. Alive(leader)' <=> Alive(leader)
      <4>1. \A q \in Pids : (Alive(q)' <=> Alive(q) /\ q \notin {k})
        BY <1>0, <3>1, <3>2, AfterEnds
      <4>2. QED BY <1>1, <3>2, <4>1 DEF Alive
    <3>4. QED BY <1>4, <3>3
  <2>5. CASE LeaderExits
    BY <1>0, <1>1, <1>4, <2>1, <2>5, LeaderExitsOs, PidFacts DEF Alive
  <2>6. QED BY <2>2, <2>3, <2>4, <2>5
<1>5. ASSUME pc = "kill", NEW p \in doomed', Alive(p)'
      PROVE  p \in FindAllDescendants(leader)' \union extra_pids
  <2>1. p \in FindAllDescendants(leader) \union extra_pids /\ leader \in Leaders
    BY <1>0, <1>3, <1>5 DEF DoomInv, Tracked, Working
  <2>2. teardown_descendants = {} /\ stragglers = {}
    BY <1>0, <1>5 DEF CheckInv, LocalInv
  <2>3. QED BY <1>0, <1>1, <1>5, <2>1, <2>2, BelowStays
<1>6. ASSUME pc \in {"cleanup", "straggle"}, NEW p \in doomed', Alive(p)'
      PROVE  p \in (ChildrenOfCheckloop \union stragglers \union InSessions(unswept))'
  <2>1. p \in ChildrenOfCheckloop \union stragglers \union InSessions(unswept)
    BY <1>0, <1>3, <1>6 DEF DoomInv
  <2>2. CASE p \in ChildrenOfCheckloop
    BY <1>0, <1>6, <2>2, ChildStays
  <2>3. CASE p \in stragglers
    BY <1>1, <2>3
  <2>4. CASE p \in InSessions(unswept)
    <3>1. PICK s \in unswept : p \in FindAllDescendants(s)
      BY <2>4 DEF InSessions
    <3>2. extra_pids = {} /\ teardown_descendants = {} /\ s \in Leaders
      BY <1>0, <1>6 DEF LocalInv, InKill, Tracked
    <3>3. p \in FindAllDescendants(s)' \/ p \in stragglers
      BY <1>0, <1>6, <3>1, <3>2, BelowStays
    <3>4. s \in unswept' /\ stragglers' = stragglers
      BY <1>1
    <3>5. QED BY <3>3, <3>4 DEF InSessions
  <2>5. QED BY <2>1, <2>2, <2>3, <2>4
<1>7. ASSUME pc = "children", NEW p \in doomed', Alive(p)'
      PROVE  p \in ChildrenOfCheckloop'
  BY <1>0, <1>3, <1>7, ChildStays DEF DoomInv
<1>8. ASSUME pc \in Quiet, NEW p \in doomed'
      PROVE  ~Alive(p)'
  BY <1>0, <1>3, <1>8 DEF DoomInv
<1>9. ASSUME pc \in {"sigterm", "sigkill", "remaining"}, NEW p \in doomed', Alive(p)'
      PROVE  p \in teardown_descendants \union extra_pids
  BY <1>0, <1>3, <1>9 DEF DoomInv
<1>10. pc = "kill" /\ ~Alive(leader)' => doomed' = {}
  BY <1>0, <1>1, <1>4 DEF DoomInv
<1>11. pc' = pc /\ leader' = leader /\ extra_pids' = extra_pids
       /\ teardown_descendants' = teardown_descendants
  BY <1>1
<1>12. pc' = "kill" => /\ ~Alive(leader)' => doomed' = {}
                       /\ \A p \in doomed' : Alive(p)' =>
                            p \in (FindAllDescendants(leader) \union extra_pids)'
  BY <1>5, <1>10, <1>11
<1>13. QED BY <1>6, <1>7, <1>8, <1>9, <1>11, <1>12 DEF DoomInv

LEMMA DoomStep ==
  ASSUME TreeInv, Next
  PROVE  DoomInv'
<1>0. OsInv /\ Tracked /\ CheckInv /\ LocalInv /\ DoomInv
  BY DEF TreeInv
<1>a. doomed \subseteq Used \union Leaders /\ doomed \subseteq Pids
  BY <1>0, PidFacts DEF Tracked, Used
<1>b. ASSUME ~StartCheck PROVE \A p \in doomed : Alive(p)' => Alive(p)
  BY <1>0, <1>a, <1>b, OsStep, LeadersStep
<1>1. CASE StartCheck \/ InterruptCleanup \/ InterruptExit
  <2>1. doomed' = {} /\ pc' \in Quiet
    BY <1>1 DEF StartCheck, InterruptCleanup, InterruptExit, Quiet
  <2>2. QED BY <2>1 DEF DoomInv, Quiet
<1>2. CASE WatchdogKills \/ WaitForExit \/ Interrupt
  <2>1. pc' = "kill" /\ leader' = leader
    BY <1>2 DEF WatchdogKills, WaitForExit, Interrupt, CallKill
  <2>2. CASE doomed' = {}
    BY <2>1, <2>2 DEF DoomInv, Quiet
  <2>3. CASE doomed' # {}
    <3>1. UNCHANGED osVars /\ doomed' = TreeOfLeader(extra_pids')
      BY <1>2, <2>3 DEF WatchdogKills, WaitForExit, Interrupt, CallKill
    <3>2. FindAllDescendants(leader)' = FindAllDescendants(leader) /\ (Alive(leader)' <=> Alive(leader))
      BY <2>1, <3>1 DEF osVars, FindAllDescendants, ChildrenOf, Alive
    <3>3. QED BY <2>1, <3>1, <3>2 DEF DoomInv, Quiet, TreeOfLeader
  <2>4. QED BY <2>2, <2>3
<1>3. CASE KillGone
  <2>1. doomed' = {} /\ pc' \in Quiet
    BY <1>0, <1>3 DEF KillGone, DoomInv, CheckInv, InKill, Quiet
  <2>2. QED BY <2>1 DEF DoomInv, Quiet
<1>4. CASE SnapshotTree
  <2>1. PICK found \in Walk(leader) :
          /\ teardown_descendants' = found
          /\ doomed' = found \union
               {p \in doomed : found = FindAllDescendants(leader) \/ p \in extra_pids}
    BY <1>4 DEF SnapshotTree
  <2>2. pc = "kill" /\ pc' = "sigterm" /\ extra_pids' = extra_pids /\ UNCHANGED osVars
    BY <1>4 DEF SnapshotTree
  <2>3. \A p \in doomed : Alive(p) => p \in FindAllDescendants(leader) \union extra_pids
    BY <1>0, <2>2 DEF DoomInv
  <2>4. \A p : Alive(p)' <=> Alive(p)
    BY <2>2 DEF osVars, Alive
  <2>5. \A p \in doomed' : Alive(p)' => p \in teardown_descendants' \union extra_pids'
    BY <2>1, <2>2, <2>3, <2>4
  <2>6. QED BY <2>2, <2>5 DEF DoomInv, Quiet
<1>5. CASE SignalTerm \/ SignalKill
  <2>1. /\ pc \in {"sigterm", "sigkill"} /\ pc' \in {"sigkill", "remaining"}
        /\ UNCHANGED <<doomed, extra_pids, teardown_descendants>> /\ ~StartCheck
    BY <1>5 DEF SignalTerm, SignalKill, killVars, StartCheck
  <2>2. QED BY <1>0, <1>b, <2>1 DEF DoomInv, Quiet
<1>6. CASE KillRemaining
  <2>1. PICK found \in Walk(leader) :
          After(found \union ((teardown_descendants \union extra_pids) \ {leader}))
    BY <1>6 DEF KillRemaining
  <2> DEFINE ended == found \union ((teardown_descendants \union extra_pids) \ {leader})
  <2>2. ended \in SUBSET Pids
    BY <1>0, WalkIsUsed, PidFacts DEF Tracked, Used
  <2>3. /\ leader \in Leaders /\ leader \notin teardown_descendants \union extra_pids
        /\ \A p \in doomed : Alive(p) => p \in teardown_descendants \union extra_pids
    BY <1>0, <1>6, PidFacts DEF KillRemaining, Tracked, Working, Used, DoomInv
  <2>4. \A p \in doomed : Alive(p) => p \in ended
    BY <2>3
  <2> HIDE DEF ended
  <2>5. After(ended)
    BY <2>1 DEF ended
  <2>6. \A p \in doomed : ~Alive(p)'
    BY <1>0, <1>a, <2>2, <2>4, <2>5, AfterEnds
  <2>7. doomed' = doomed /\ pc' \in Quiet
    BY <1>0, <1>6 DEF KillRemaining, CheckInv, InKill, Quiet
  <2>8. QED BY <2>6, <2>7 DEF DoomInv, Quiet, Alive
<1>7. CASE \/ TrackSession \/ EnterTry \/ ScanDescendants \/ StreamEnds
           \/ SweepChildren \/ SweepSessions
  <2>1. doomed' = doomed /\ pc \in Quiet /\ pc' \in Quiet /\ ~StartCheck
    BY <1>7 DEF TrackSession, EnterTry, ScanDescendants, StreamEnds, SweepChildren, SweepSessions,
                Quiet, StartCheck
  <2>2. \A p \in doomed : ~Alive(p)'
    BY <1>0, <1>b, <2>1 DEF DoomInv
  <2>3. QED BY <2>1, <2>2 DEF DoomInv, Quiet, Alive
<1>8. CASE BeginCleanup
  <2>1. /\ After({Caffeinate}) /\ {Caffeinate} \in SUBSET Pids /\ pc' = "cleanup"
        /\ unswept' = previous_session_ids /\ previous_session_ids \subseteq Leaders
        /\ doomed' = InSessions(previous_session_ids) \union (ChildrenOfCheckloop \ {Caffeinate})
    BY <1>0, <1>8, PidFacts DEF BeginCleanup, Tracked
  <2>2. ChildrenOfCheckloop' = ChildrenOfCheckloop \ {Caffeinate}
    BY <1>0, <2>1, AfterEnds
  <2>3. ASSUME NEW s \in Leaders
        PROVE  FindAllDescendants(s) \subseteq FindAllDescendants(s)'
    <3>1. \A c \in Kids : state[c] = "running" /\ parent[c] \in {s} \union Kids =>
            state'[c] = "running" /\ parent'[c] = parent[c]
      BY <2>1, PidFacts DEF After
    <3>2. ChildrenOf({}) \subseteq {}
      BY DEF ChildrenOf
    <3>3. FindAllDescendants(s) \subseteq FindAllDescendants(s)' \union {}
      BY <3>1, <3>2, TreeKept
    <3>4. QED BY <3>3
  <2>4. InSessions(previous_session_ids) \subseteq InSessions(unswept)'
    BY <2>1, <2>3 DEF InSessions
  <2>5. \A p \in doomed' : p \in (ChildrenOfCheckloop \union stragglers \union InSessions(unswept))'
    BY <2>1, <2>2, <2>4
  <2>6. QED BY <2>1, <2>5 DEF DoomInv, Quiet
<1>9. CASE FindStragglers
  <2>1. PICK s \in unswept : \E found \in Walk(s) :
          /\ unswept' = unswept \ {s} /\ stragglers' = found
          /\ doomed' = IF found = FindAllDescendants(s) THEN doomed
                       ELSE doomed \ FindAllDescendants(s)
    BY <1>9 DEF FindStragglers
  <2>2. pc = "cleanup" /\ pc' = "straggle" /\ UNCHANGED osVars /\ stragglers = {}
    BY <1>0, <1>9 DEF FindStragglers, CheckInv
  <2>3. /\ ChildrenOfCheckloop' = ChildrenOfCheckloop /\ \A p : Alive(p)' <=> Alive(p)
        /\ \A r : FindAllDescendants(r)' = FindAllDescendants(r)
    BY <2>2 DEF osVars, ChildrenOfCheckloop, FindAllDescendants, ChildrenOf, Alive
  <2>4. ASSUME NEW p \in doomed', Alive(p)'
        PROVE  p \in ChildrenOfCheckloop' \union stragglers' \union InSessions(unswept)'
    <3>1. p \in doomed /\ Alive(p)
      BY <2>1, <2>3, <2>4
    <3>2. p \in ChildrenOfCheckloop \union InSessions(unswept)
      BY <1>0, <2>2, <3>1 DEF DoomInv
    <3>3. CASE p \in ChildrenOfCheckloop
      BY <2>3, <3>3
    <3>4. CASE p \in FindAllDescendants(s)
      BY <2>1, <2>4, <3>4
    <3>5. CASE p \in InSessions(unswept) /\ p \notin FindAllDescendants(s)
      <4>1. PICK r \in unswept : p \in FindAllDescendants(r)
        BY <3>5 DEF InSessions
      <4>2. r \in unswept' /\ p \in FindAllDescendants(r)'
        BY <2>1, <2>3, <3>5, <4>1
      <4>3. QED BY <4>2 DEF InSessions
    <3>6. QED BY <3>2, <3>3, <3>4, <3>5
  <2>5. QED BY <2>2, <2>4 DEF DoomInv, Quiet
<1>10. CASE KillStragglers
  <2>1. /\ pc = "straggle" /\ pc' = "cleanup" /\ After(stragglers) /\ stragglers \in SUBSET Pids
        /\ doomed' = doomed /\ unswept' = unswept /\ ~StartCheck
    BY <1>0, <1>10, PidFacts DEF KillStragglers, Tracked, Used, StartCheck
  <2>2. ASSUME NEW p \in doomed, Alive(p)'
        PROVE  p \in ChildrenOfCheckloop' \union InSessions(unswept)'
    <3>1. Alive(p) /\ p \notin stragglers
      BY <1>0, <1>a, <2>1, <2>2, AfterEnds
    <3>2. p \in ChildrenOfCheckloop \union InSessions(unswept)
      BY <1>0, <2>1, <3>1 DEF DoomInv
    <3>3. CASE p \in ChildrenOfCheckloop
      BY <1>0, <2>1, <3>1, <3>3, AfterEnds
    <3>4. CASE p \in InSessions(unswept)
      <4>1. PICK s \in unswept : p \in FindAllDescendants(s)
        BY <3>4 DEF InSessions
      <4>2. s = leader /\ s \in Leaders
        BY <1>0, <4>1, OnlyTheLeader DEF Tracked
      <4>3. stragglers = {}
        BY <1>0, <4>1, <4>2 DEF CheckInv
      <4>4. \A c \in Kids : state[c] = "running" /\ parent[c] \in {s} \union Kids =>
              state'[c] = "running" /\ parent'[c] = parent[c]
        BY <2>1, <4>3, PidFacts DEF After
      <4>5. ChildrenOf({}) \subseteq {}
        BY DEF ChildrenOf
      <4>6. FindAllDescendants(s) \subseteq FindAllDescendants(s)' \union {}
        BY <4>4, <4>5, TreeKept
      <4>7. QED BY <2>1, <4>1, <4>6 DEF InSessions
    <3>5. QED BY <3>2, <3>3, <3>4
  <2>3. QED BY <2>1, <2>2 DEF DoomInv, Quiet, Alive
<1>11. CASE CleanupTracked
  <2>1. /\ pc = "cleanup" /\ unswept = {} /\ stragglers = {} /\ pc' = "children" /\ doomed' = doomed
        /\ After(previous_descendant_pids) /\ previous_descendant_pids \in SUBSET Pids
    BY <1>0, <1>11 DEF CleanupTracked, CheckInv, Tracked
  <2>2. InSessions(unswept) = {}
    BY <2>1 DEF InSessions
  <2>3. ASSUME NEW p \in doomed, Alive(p)'
        PROVE  p \in ChildrenOfCheckloop'
    <3>1. Alive(p) /\ p \notin previous_descendant_pids
      BY <1>0, <1>a, <2>1, <2>3, AfterEnds
    <3>2. p \in ChildrenOfCheckloop
      BY <1>0, <2>1, <2>2, <3>1 DEF DoomInv
    <3>3. QED BY <1>0, <2>1, <3>1, <3>2, AfterEnds
  <2>4. QED BY <2>1, <2>3 DEF DoomInv, Quiet, Alive
<1>12. CASE CleanupChildren
  <2>1. PICK pids \in ChildPids :
          /\ After(pids)
          /\ doomed' = IF pids = ChildrenOfCheckloop THEN doomed ELSE doomed \ ChildrenOfCheckloop
    BY <1>12 DEF CleanupChildren
  <2>2. pc = "children" /\ pc' = "exited" /\ pids \in SUBSET Pids
    BY <1>12, ChildPidsArePids DEF CleanupChildren
  <2>3. ASSUME NEW p \in doomed' PROVE ~Alive(p)'
    <3>1. p \in doomed /\ p \in Pids /\ (Alive(p) => p \in ChildrenOfCheckloop)
      BY <1>0, <1>a, <2>1, <2>2, <2>3 DEF DoomInv
    <3>2. Alive(p) => p \in pids
      BY <2>1, <2>3, <3>1
    <3>3. QED BY <1>0, <2>1, <2>2, <3>1, <3>2, AfterEnds
  <2>4. QED BY <2>2, <2>3 DEF DoomInv, Quiet
<1>13. CASE KidStarts \/ KidLeavesGroup \/ KidExits \/ LeaderExits
  BY <1>13, DoomOfProcesses
<1>14. CASE Over
  BY <1>0, <1>14 DEF Over, vars, osVars, killVars, exitVars, DoomInv, Quiet, Alive,
                     ChildrenOfCheckloop, InSessions, FindAllDescendants, ChildrenOf
<1>15. QED
  BY <1>1, <1>2, <1>3, <1>4, <1>5, <1>6, <1>7, <1>8, <1>9, <1>10, <1>11, <1>12, <1>13, <1>14
  DEF Next

LEMMA TreeStep == TreeInv /\ [Next]_vars => TreeInv'
<1> SUFFICES ASSUME TreeInv, [Next]_vars PROVE TreeInv'
  OBVIOUS
<1>1. CASE Next
  BY <1>1, OsStep, TrackedStep, CheckStep, LocalStep, DoomStep DEF TreeInv
<1>2. CASE UNCHANGED vars
  <2>1. OsInv'
    BY <1>2, StillOs DEF TreeInv, vars
  <2>2. Tracked' /\ CheckInv' /\ LocalInv'
    BY <1>2 DEF TreeInv, vars, osVars, killVars, watchVars, exitVars, Tracked, Used, CheckInv,
                LocalInv, NoLeader, InKill, Alive
  <2>3. DoomInv'
    BY <1>2 DEF TreeInv, vars, osVars, killVars, watchVars, exitVars, DoomInv, Quiet, Alive,
                ChildrenOfCheckloop, InSessions, FindAllDescendants, ChildrenOf
  <2>4. QED BY <2>1, <2>2, <2>3 DEF TreeInv
<1>3. QED BY <1>1, <1>2

LEMMA TreeInvariance == Spec => []TreeInv
BY TreeInit, TreeStep, PTL DEF Spec

-----------------------------------------------------------------------------
(* The theorems                                                             *)

\* Every variable keeps to its type; no kid is ever a zombie.
THEOREM TypesHold == Spec => []TypeOK
<1>1. TreeInv => TypeOK
  BY PidFacts DEF TreeInv, OsInv, OsTypes, States, Parents, Tracked, Used, Places, Returns, TypeOK
<1>2. QED BY <1>1, TreeInvariance, PTL

\* process._execute_claude_process: the Claude process of a check has ended before
\* the next one is started, whoever killed it.
THEOREM OneLeaderOnly == Spec => []OneLeader
<1>1. TreeInv => OneLeader
  BY DEF TreeInv, CheckInv, NoLeader, OneLeader
<1>2. QED BY <1>1, TreeInvariance, PTL

\* process._kill_process_group: who was below a live leader when the kill began, or
\* had been found, is gone when it is over, but for those no walk could show it.
\* What lives and is to be ended stays in reach of the kill until it signals.
THEOREM KilledTreesAreGone == Spec => []KilledTreeIsGone
<1>1. TreeInv => KilledTreeIsGone
  BY DEF TreeInv, Tracked, Places, DoomInv, Quiet, InKill, InCleanup, KilledTreeIsGone
<1>2. QED BY <1>1, TreeInvariance, PTL

\* monitoring.cleanup_all_sessions: so is, at exit, who was below a Claude process
\* that no kill got to, and that process: its session is walked before it is ended.
THEOREM ExitEndsTrees == Spec => []ExitEndsTree
<1>1. TreeInv => ExitEndsTree
  BY DEF TreeInv, DoomInv, Quiet, ExitEndsTree
<1>2. QED BY <1>1, TreeInvariance, PTL
=============================================================================
