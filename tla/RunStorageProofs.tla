--------------------------- MODULE RunStorageProofs ---------------------------
(***************************************************************************)
(* Proofs about RunStorage, for any number of processes.  That no pruner   *)
(* takes a young run's clone rests on two facts (AgeInv): no directory     *)
(* changed before the time that names it, and the cutoff of a process that *)
(* prunes is at least MaxAge in the past.  That a run reviews what it      *)
(* was asked to rests on who writes a clone (ReviewInv): until a pruner    *)
(* removes it, the process that made it alone, and it holds what that      *)
(* process has fetched so far.                                             *)
(***************************************************************************)
EXTENDS RunStorage, TLAPS

DirStates == {"empty", "run", "clone", "damaged"}
Clones == [origin : Tips, branch : Branches \union {NoDir}, tip : Commits,
           url : {"source", "upstream"}, head : Commits]
ToClone == {"plan", "clone", "fetch", "rewrite", "fetch2", "resolve"}
InDir  == {"clone", "fetch", "rewrite", "fetch2", "resolve", "suite"}
Labels == {"idle", "prune", "rmtree", "mkdir", "plan", "clone", "fetch", "rewrite",
           "fetch2", "resolve", "suite", "ended", "failed"}

(* The parts of the type invariant. *)
WorldOK ==
  /\ source \in [head : Branches, tips : Tips] /\ upstream \in Tips
  /\ edits \in [count : 0..MaxEdits, last : Commits]

DirsOK ==
  /\ DOMAIN dirs \subseteq Names
  /\ \A d \in DOMAIN dirs : dirs[d] \in [mtime : Times, state : DirStates]

CloneOK == clone \in [Names -> Clones]

ProcessOK ==
  /\ pc \in [Processes -> Labels]
  /\ args \in Launches
  /\ dir \in [Processes -> Names \union {NoDir}]
  /\ cutoff \in [Processes -> Times]
  /\ listed \in [Processes -> SUBSET Names]
  /\ target \in [Processes -> Names \union {NoDir}]

PlaceOK ==
  \A p \in Processes :
    /\ pc[p] = "rmtree" <=> target[p] # NoDir
    /\ pc[p] \in InDir => dir[p] # NoDir
    /\ pc[p] \in {"prune", "rmtree"} => (args[p].in_place <=> args[p].review = NoRef)
    /\ pc[p] \in ToClone => args[p].review # NoRef

(* No directory changed before it was named, and none in the future. *)
AgesOK == \A d \in DOMAIN dirs : d <= dirs[d].mtime /\ dirs[d].mtime <= now

AgeInv ==
  /\ now \in Times /\ MaxAge < now
  /\ edits.last <= LastCommit + edits.count
  /\ AgesOK
  /\ \A p \in Processes : cutoff[p] + MaxAge <= now
  /\ \A p \in Processes : dir[p] # NoDir => dir[p] <= now
  /\ \A p \in Processes : pc[p] = "rmtree" => target[p] + MaxAge < now

Inv == WorldOK /\ DirsOK /\ CloneOK /\ ProcessOK /\ PlaceOK /\ AgeInv

LEMMA InvTypes == Inv /\ removed \subseteq Names => TypeOK
BY DEF Inv, WorldOK, DirsOK, CloneOK, ProcessOK, PlaceOK, AgeInv, TypeOK, DirStates, Clones,
       InDir, Labels

-----------------------------------------------------------------------------
(* The initial states *)

LEMMA ConstantTypes ==
  /\ MaxAge \in Nat /\ MaxAge # 0 /\ MaxTime \in Nat /\ MaxAge < MaxTime
  /\ MaxEdits \in Nat /\ LastCommit \in Nat
  /\ NoDir \notin Names /\ Names = Times /\ Times \subseteq Nat /\ 0 \in Times
BY RunStorageAssumption DEF Names, Times

LEMMA TipTypes == NoTips \in Tips /\ FirstTips \in Tips /\ NoClone \in Clones
<1>1. 0 \in Commits /\ 1..LastCommit \subseteq Commits
  BY ConstantTypes DEF Commits
<1>2. NoTips \in Tips
  BY <1>1 DEF NoTips, Tips
<1>3. FirstTips \in Tips
  BY <1>1, RunStorageAssumption DEF Tips
<1>4. QED BY <1>1, <1>2, <1>3 DEF NoClone, Clones

LEMMA InitHolds == Init => Inv
<1> SUFFICES ASSUME Init PROVE Inv
  OBVIOUS
<1>1. WorldOK
  <2>1. PICK head \in Branches, pushed \in Pushed :
          /\ source = [head |-> head, tips |-> FirstTips]
          /\ upstream = [b \in Branches |-> IF b \in pushed THEN FirstTips[b] ELSE 0]
    BY DEF Init
  <2>2. source \in [head : Branches, tips : Tips]
    BY <2>1, TipTypes
  <2>3. upstream \in Tips
    BY <2>1, TipTypes, ConstantTypes DEF Tips, Commits
  <2>4. edits \in [count : 0..MaxEdits, last : Commits]
    BY ConstantTypes DEF Init, Commits
  <2>5. QED BY <2>2, <2>3, <2>4 DEF WorldOK
<1>2. PICK old \in {{}, {0}} : dirs = [d \in old |-> [mtime |-> 0, state |-> "clone"]]
  BY DEF Init
<1>3. DirsOK
  BY <1>2, ConstantTypes DEF DirsOK, DirStates
<1>4. CloneOK
  BY TipTypes DEF Init, CloneOK
<1>5. ProcessOK /\ PlaceOK
  BY ConstantTypes DEF Init, ProcessOK, PlaceOK, Labels, InDir, ToClone
<1>6. AgeInv
  <2>1. now \in Times /\ MaxAge < now
    BY ConstantTypes, RunStorageAssumption DEF Init, Times
  <2>2. edits.last <= LastCommit + edits.count
    BY ConstantTypes DEF Init
  <2>3. AgesOK
    <3>1. now \in Nat
      BY <2>1, ConstantTypes
    <3>2. QED BY <1>2, <3>1 DEF AgesOK
  <2>4. \A p \in Processes : dir[p] = NoDir /\ pc[p] = "idle"
    BY DEF Init
  <2>5. \A p \in Processes : cutoff[p] + MaxAge <= now
    <3>1. SUFFICES ASSUME NEW p \in Processes
                   PROVE  cutoff[p] + MaxAge <= now
      OBVIOUS
    <3>2. now = MaxAge + 1 /\ cutoff[p] = 0
      BY DEF Init
    <3>3. MaxAge \in Nat
      BY ConstantTypes
    <3>4. 0 + MaxAge <= MaxAge + 1
      BY <3>3
    <3>5. QED BY <3>2, <3>4
  <2>6. QED BY <2>1, <2>2, <2>3, <2>4, <2>5 DEF AgeInv
<1>7. QED BY <1>1, <1>3, <1>4, <1>5, <1>6 DEF Inv

-----------------------------------------------------------------------------
(* The steps *)

LEMMA GotoTypes ==
  ASSUME ProcessOK, NEW p \in Processes, NEW l \in Labels, Goto(p, l)
  PROVE  /\ pc' \in [Processes -> Labels] /\ pc'[p] = l
         /\ \A q \in Processes : q # p => pc'[q] = pc[q]
BY DEF ProcessOK, Goto

LEMMA LeaveTypes ==
  ASSUME ProcessOK, NEW p \in Processes, NEW l \in Labels, Leave(p, l)
  PROVE  /\ pc' \in [Processes -> Labels] /\ pc'[p] = l
         /\ \A q \in Processes : q # p => pc'[q] = pc[q] /\ dir'[q] = dir[q]
         /\ dir' \in [Processes -> Names \union {NoDir}]
BY DEF ProcessOK, Leave, Goto

LEMMA Numbers ==
  ASSUME Inv
  PROVE  /\ now \in Nat /\ MaxAge \in Nat
         /\ \A d \in DOMAIN dirs : d \in Nat /\ dirs[d].mtime \in Nat
         /\ \A p \in Processes : cutoff[p] \in Nat
         /\ \A p \in Processes : dir[p] # NoDir => dir[p] \in Nat
         /\ \A p \in Processes : pc[p] = "rmtree" => target[p] \in Nat
BY ConstantTypes DEF Inv, DirsOK, ProcessOK, PlaceOK, AgeInv

(* No directory that has a clone loses it. *)
ClonesKept ==
  \A d \in DOMAIN dirs :
    dirs[d].state = "clone" => d \in DOMAIN dirs' /\ dirs'[d].state = "clone"

LEMMA SameDirs == UNCHANGED dirs => ClonesKept
BY DEF ClonesKept

(* A directory a run puts there has changed just now. *)
LEMMA PutDirTypes ==
  ASSUME DirsOK, AgesOK, now \in Times, UNCHANGED now,
         NEW d \in Names, d <= now, NEW state \in DirStates, PutDir(d, state),
         IsClone(d) => state = "clone"
  PROVE  DirsOK' /\ AgesOK' /\ ClonesKept
<1>1. /\ DOMAIN dirs' = DOMAIN dirs \union {d} /\ dirs'[d] = [mtime |-> now, state |-> state]
      /\ \A e \in DOMAIN dirs : e # d => dirs'[e] = dirs[e]
  BY DEF PutDir
<1>2. DirsOK'
  BY <1>1 DEF DirsOK
<1>3. now \in Nat
  BY ConstantTypes
<1>4. AgesOK'
  BY <1>1, <1>3 DEF AgesOK
<1>5. ClonesKept
  BY <1>1 DEF ClonesKept, IsClone, Exists
<1>6. QED BY <1>2, <1>4, <1>5

LEMMA TickHolds ==
  ASSUME Inv, Tick
  PROVE  Inv' /\ ClonesKept
<1> USE DEF Inv
<1>1. now' \in Times /\ now \in Nat /\ now' = now + 1
  BY ConstantTypes DEF Tick, AgeInv, Times
<1>2. UNCHANGED <<source, upstream, edits, dirs, clone, pc, args, dir, cutoff, listed,
                  target, seen>>
  BY DEF Tick, repositories, storage, processes
<1>3. WorldOK' /\ DirsOK' /\ CloneOK' /\ ProcessOK' /\ PlaceOK'
  BY <1>2 DEF WorldOK, DirsOK, CloneOK, ProcessOK, PlaceOK
<1>4. AgeInv'
  <2>1. MaxAge < now' /\ AgesOK'
    BY <1>1, <1>2, Numbers DEF AgeInv, AgesOK
  <2>4. \A p \in Processes : dir'[p] # NoDir => dir'[p] <= now'
    BY <1>1, <1>2, Numbers DEF AgeInv
  <2>5. \A p \in Processes : pc'[p] = "rmtree" => target'[p] + MaxAge < now'
    BY <1>1, <1>2, Numbers DEF AgeInv
  <2>2. \A p \in Processes : cutoff'[p] + MaxAge <= now'
    BY <1>1, <1>2, Numbers DEF AgeInv
  <2>3. QED BY <1>1, <1>2, <2>1, <2>2, <2>4, <2>5 DEF AgeInv
<1>5. QED BY <1>2, <1>3, <1>4, SameDirs

LEMMA CommitInSourceHolds ==
  ASSUME Inv, NEW b \in Branches, CommitInSource(b)
  PROVE  Inv' /\ ClonesKept
<1> USE DEF Inv
<1>1. UNCHANGED <<now, dirs, clone, pc, args, dir, cutoff, listed, target, seen>>
  BY DEF CommitInSource, storage, processes
<1>2. edits' \in [count : 0..MaxEdits, last : Commits] /\ edits.last + 1 \in Commits
      /\ edits'.last <= LastCommit + edits'.count
  BY ConstantTypes DEF CommitInSource, Edit, WorldOK, AgeInv, Commits
<1>3. WorldOK'
  BY <1>2 DEF CommitInSource, WorldOK, Tips
<1>4. DirsOK' /\ CloneOK' /\ ProcessOK' /\ PlaceOK' /\ AgeInv'
  BY <1>1, <1>2 DEF DirsOK, CloneOK, ProcessOK, PlaceOK, AgeInv, AgesOK
<1>5. QED BY <1>1, <1>3, <1>4, SameDirs

LEMMA PushToUpstreamHolds ==
  ASSUME Inv, NEW b \in Branches, PushToUpstream(b)
  PROVE  Inv' /\ ClonesKept
<1> USE DEF Inv
<1>1. UNCHANGED <<now, dirs, clone, pc, args, dir, cutoff, listed, target, seen>>
  BY DEF PushToUpstream, storage, processes
<1>2. edits' \in [count : 0..MaxEdits, last : Commits] /\ edits.last + 1 \in Commits
      /\ edits'.last <= LastCommit + edits'.count
  BY ConstantTypes DEF PushToUpstream, Edit, WorldOK, AgeInv, Commits
<1>3. WorldOK'
  BY <1>2 DEF PushToUpstream, WorldOK, Tips
<1>4. DirsOK' /\ CloneOK' /\ ProcessOK' /\ PlaceOK' /\ AgeInv'
  BY <1>1, <1>2 DEF DirsOK, CloneOK, ProcessOK, PlaceOK, AgeInv, AgesOK
<1>5. QED BY <1>1, <1>3, <1>4, SameDirs

LEMMA DeleteUpstreamHolds ==
  ASSUME Inv, NEW b \in Branches, DeleteUpstream(b)
  PROVE  Inv' /\ ClonesKept
<1> USE DEF Inv
<1>1. UNCHANGED <<now, dirs, clone, pc, args, dir, cutoff, listed, target, seen>>
  BY DEF DeleteUpstream, storage, processes
<1>2. edits' \in [count : 0..MaxEdits, last : Commits]
      /\ edits'.last <= LastCommit + edits'.count
  BY ConstantTypes DEF DeleteUpstream, Edit, WorldOK, AgeInv, Commits
<1>3. WorldOK'
  BY <1>2, ConstantTypes DEF DeleteUpstream, WorldOK, Tips, Commits
<1>4. DirsOK' /\ CloneOK' /\ ProcessOK' /\ PlaceOK' /\ AgeInv'
  BY <1>1, <1>2 DEF DirsOK, CloneOK, ProcessOK, PlaceOK, AgeInv, AgesOK
<1>5. QED BY <1>1, <1>3, <1>4, SameDirs

-----------------------------------------------------------------------------
(* The steps of a process *)

(* A step that moves one process between places that say nothing of target   *)
(* and cutoff, and keeps the directories.                                    *)
LEMMA MoveHolds ==
  ASSUME Inv, NEW p \in Processes, NEW l \in Labels \ {"rmtree"},
         pc[p] # "rmtree", Goto(p, l), l \in InDir => dir'[p] # NoDir,
         l = "prune" => (args[p].in_place <=> args[p].review = NoRef),
         l \in ToClone => args[p].review # NoRef,
         dir' \in [Processes -> Names \union {NoDir}],
         \A q \in Processes : q # p => dir'[q] = dir[q],
         UNCHANGED <<args, cutoff, listed, target>>
  PROVE  /\ ProcessOK' /\ PlaceOK'
         /\ \A q \in Processes : pc'[q] = "rmtree" => pc[q] = "rmtree"
<1> USE DEF Inv
<1>1. /\ pc' \in [Processes -> Labels] /\ pc'[p] = l
      /\ \A q \in Processes : q # p => pc'[q] = pc[q]
  BY GotoTypes
<1>2. ProcessOK'
  BY <1>1 DEF ProcessOK
<1>3. PlaceOK'
  BY <1>1 DEF PlaceOK
<1>4. QED BY <1>1, <1>2, <1>3

(* What pruners know stays true while the directories do. *)
LEMMA AgesStay ==
  ASSUME Inv, UNCHANGED <<now, edits, cutoff, target>>, AgesOK',
         \A q \in Processes : pc'[q] = "rmtree" => pc[q] = "rmtree",
         \A q \in Processes : dir'[q] \in {dir[q], now, NoDir}
  PROVE  AgeInv'
<1>1. now \in Nat
  BY Numbers
<1>2. \A q \in Processes : dir'[q] # NoDir => dir'[q] <= now'
  BY <1>1 DEF Inv, AgeInv
<1>3. QED BY <1>2 DEF Inv, AgeInv

LEMMA AgesHold == Inv => AgesOK /\ now \in Times
BY DEF Inv, AgeInv

LEMMA SameAges == ASSUME AgesOK, UNCHANGED <<now, dirs>> PROVE AgesOK'
BY DEF AgesOK

LEMMA StartHolds ==
  ASSUME Inv, NEW p \in Processes, Start(p)
  PROVE  Inv' /\ ClonesKept
<1> USE DEF Inv
<1>1. UNCHANGED <<now, source, upstream, edits, dirs, clone, args, dir, target>>
      /\ pc[p] = "idle"
  BY DEF Start, repositories, storage
<1>2. WorldOK' /\ DirsOK' /\ CloneOK'
  BY <1>1 DEF WorldOK, DirsOK, CloneOK
<1>3. CASE Valid(args[p])
  <2>1. /\ cutoff' = [cutoff EXCEPT ![p] = now - MaxAge]
        /\ listed' = [listed EXCEPT ![p] = DOMAIN dirs]
        /\ Goto(p, "prune")
    BY <1>3 DEF Start
  <2>2. now - MaxAge \in Times /\ (now - MaxAge) + MaxAge <= now
    BY ConstantTypes, Numbers DEF AgeInv, Times
  <2>3. /\ pc' \in [Processes -> Labels] /\ pc'[p] = "prune"
        /\ \A q \in Processes : q # p => pc'[q] = pc[q]
    BY <2>1, GotoTypes DEF Labels
  <2>4. cutoff' \in [Processes -> Times] /\ cutoff'[p] = now - MaxAge
        /\ \A q \in Processes : q # p => cutoff'[q] = cutoff[q]
    BY <2>1, <2>2 DEF ProcessOK
  <2>5. listed' \in [Processes -> SUBSET Names]
    BY <2>1 DEF ProcessOK, DirsOK
  <2>6. ProcessOK' /\ PlaceOK'
    BY <1>1, <1>3, <2>3, <2>4, <2>5 DEF ProcessOK, PlaceOK, InDir, ToClone, Valid
  <2>7. \A q \in Processes : cutoff'[q] + MaxAge <= now'
    BY <1>1, <2>2, <2>4 DEF AgeInv
  <2>8. \A q \in Processes : pc'[q] = "rmtree" => target'[q] + MaxAge < now'
    BY <1>1, <2>3 DEF AgeInv
  <2>9. AgeInv'
    BY <1>1, <2>7, <2>8 DEF AgeInv, AgesOK
  <2>10. QED BY <1>1, <1>2, <2>6, <2>9, SameDirs
<1>4. CASE ~Valid(args[p])
  <2>1. Goto(p, "failed") /\ UNCHANGED <<cutoff, listed>>
    BY <1>4 DEF Start
  <2>2. ProcessOK' /\ PlaceOK'
        /\ \A q \in Processes : pc'[q] = "rmtree" => pc[q] = "rmtree"
    BY <1>1, <2>1, MoveHolds DEF Labels, InDir, ToClone, ProcessOK
  <2>3. AgeInv'
    BY <1>1, <2>1, <2>2, AgesHold, SameAges, AgesStay
  <2>4. QED BY <1>1, <1>2, <2>2, <2>3, SameDirs
<1>5. QED BY <1>3, <1>4

(* A pruner takes a directory that was named more than MaxAge ago. *)
LEMMA LookAtEntryHolds ==
  ASSUME Inv, NEW p \in Processes, LookAtEntry(p)
  PROVE  Inv' /\ ClonesKept
<1> USE DEF Inv
<1>1. UNCHANGED <<now, source, upstream, edits, dirs, clone, args, dir, cutoff>>
      /\ pc[p] = "prune"
  BY DEF LookAtEntry, repositories, storage
<1>2. WorldOK' /\ DirsOK' /\ CloneOK'
  BY <1>1 DEF WorldOK, DirsOK, CloneOK
<1>3. PICK d \in listed[p] :
        /\ listed' = [listed EXCEPT ![p] = @ \ {d}]
        /\ IF Exists(d) /\ dirs[d].mtime < cutoff[p]
           THEN target' = [target EXCEPT ![p] = d] /\ Goto(p, "rmtree")
           ELSE UNCHANGED <<pc, target>>
  BY DEF LookAtEntry
<1>4. d \in Names /\ listed' \in [Processes -> SUBSET Names]
  BY <1>3 DEF ProcessOK
<1>5. CASE Exists(d) /\ dirs[d].mtime < cutoff[p]
  <2>1. d + MaxAge < now
    <3>1. d \in DOMAIN dirs /\ d <= dirs[d].mtime /\ dirs[d].mtime < cutoff[p]
          /\ cutoff[p] + MaxAge <= now
      BY <1>5 DEF AgeInv, AgesOK, Exists
    <3>2. QED BY <3>1, Numbers
  <2>2. /\ pc' \in [Processes -> Labels] /\ pc'[p] = "rmtree"
        /\ \A q \in Processes : q # p => pc'[q] = pc[q]
    BY <1>3, <1>5, GotoTypes DEF Labels
  <2>3. target' \in [Processes -> Names \union {NoDir}] /\ target'[p] = d /\ d # NoDir
        /\ \A q \in Processes : q # p => target'[q] = target[q]
    BY <1>3, <1>4, <1>5, ConstantTypes DEF ProcessOK
  <2>5. ProcessOK' /\ PlaceOK'
    BY <1>1, <1>4, <2>2, <2>3 DEF ProcessOK, PlaceOK, InDir, ToClone
  <2>6. \A q \in Processes : cutoff'[q] + MaxAge <= now'
    BY <1>1 DEF AgeInv
  <2>7. \A q \in Processes : pc'[q] = "rmtree" => target'[q] + MaxAge < now'
    BY <1>1, <2>1, <2>2, <2>3 DEF AgeInv
  <2>8. AgeInv'
    BY <1>1, <2>6, <2>7 DEF AgeInv, AgesOK
  <2>9. QED BY <1>1, <1>2, <2>5, <2>8, SameDirs
<1>6. CASE ~(Exists(d) /\ dirs[d].mtime < cutoff[p])
  <2>1. UNCHANGED <<pc, target>>
    BY <1>3, <1>6
  <2>2. ProcessOK' /\ PlaceOK' /\ AgeInv'
    BY <1>1, <1>4, <2>1 DEF ProcessOK, PlaceOK, AgeInv, AgesOK
  <2>3. QED BY <1>1, <1>2, <2>2, SameDirs
<1>7. QED BY <1>5, <1>6

LEMMA RemoveTreeHolds ==
  ASSUME Inv, NEW p \in Processes, RemoveTree(p)
  PROVE  Inv' /\ target[p] + MaxAge < now
<1> USE DEF Inv
<1>1. UNCHANGED <<now, source, upstream, edits, clone, args, dir, cutoff, listed>>
      /\ pc[p] = "rmtree"
  BY DEF RemoveTree, repositories
<1>2. WorldOK' /\ CloneOK'
  BY <1>1 DEF WorldOK, CloneOK
<1>3. DirsOK' /\ AgesOK'
  <2> DEFINE d == target[p]
  <2>1. CASE dirs' = [e \in DOMAIN dirs \ {d} |-> dirs[e]]
    BY <1>1, <2>1, AgesHold DEF DirsOK, AgesOK
  <2>2. CASE Exists(d) /\ dirs' = [dirs EXCEPT ![d] = [mtime |-> now, state |-> "damaged"]]
    <3>1. d \in DOMAIN dirs /\ DOMAIN dirs' = DOMAIN dirs
          /\ dirs'[d] = [mtime |-> now, state |-> "damaged"]
          /\ \A e \in DOMAIN dirs : e # d => dirs'[e] = dirs[e]
      BY <2>2 DEF Exists
    <3>2. DirsOK'
      BY <1>1, <3>1, AgesHold DEF DirsOK, DirStates
    <3>3. AgesOK'
      BY <1>1, <3>1, AgesHold, Numbers DEF AgesOK
    <3>4. QED BY <3>2, <3>3
  <2>3. CASE UNCHANGED dirs
    BY <1>1, <2>3, AgesHold DEF DirsOK, AgesOK
  <2>4. QED BY <2>1, <2>2, <2>3 DEF RemoveTree
<1>4. /\ pc' \in [Processes -> Labels] /\ pc'[p] = "prune"
      /\ \A q \in Processes : q # p => pc'[q] = pc[q]
  BY GotoTypes DEF RemoveTree, Labels
<1>5. target' \in [Processes -> Names \union {NoDir}] /\ target'[p] = NoDir
      /\ \A q \in Processes : q # p => target'[q] = target[q]
  BY DEF RemoveTree, ProcessOK
<1>7. ProcessOK' /\ PlaceOK'
  BY <1>1, <1>4, <1>5 DEF ProcessOK, PlaceOK, InDir, ToClone
<1>8. \A q \in Processes : pc'[q] = "rmtree" => target'[q] + MaxAge < now'
  BY <1>1, <1>4, <1>5 DEF AgeInv
<1>9. AgeInv'
  BY <1>1, <1>3, <1>8 DEF AgeInv
<1>10. QED BY <1>1, <1>2, <1>3, <1>7, <1>9 DEF AgeInv

LEMMA EndOfPruneHolds ==
  ASSUME Inv, NEW p \in Processes, EndOfPrune(p)
  PROVE  Inv' /\ ClonesKept
<1> USE DEF Inv
<1>1. UNCHANGED <<now, source, upstream, edits, dirs, clone, args, dir, listed, target>> /\ pc[p] = "prune"
  BY DEF EndOfPrune, repositories, storage
<1>2. WorldOK' /\ DirsOK' /\ CloneOK'
  BY <1>1 DEF WorldOK, DirsOK, CloneOK
<1>3. cutoff' \in [Processes -> Times] /\ cutoff'[p] = 0
      /\ \A q \in Processes : q # p => cutoff'[q] = cutoff[q]
  BY ConstantTypes DEF EndOfPrune, ProcessOK
<1>4. /\ pc' \in [Processes -> Labels] /\ pc'[p] \in {"mkdir", "plan"}
      /\ pc'[p] = "plan" => ~args[p].in_place
      /\ \A q \in Processes : q # p => pc'[q] = pc[q]
  BY DEF EndOfPrune, Goto, ProcessOK, Labels
<1>5. ProcessOK' /\ PlaceOK'
  BY <1>1, <1>3, <1>4 DEF ProcessOK, PlaceOK, InDir, ToClone
<1>6. \A q \in Processes : cutoff'[q] + MaxAge <= now'
  BY <1>1, <1>3, Numbers DEF AgeInv
<1>7. AgeInv'
  BY <1>1, <1>4, <1>6 DEF AgeInv, AgesOK
<1>8. QED BY <1>1, <1>2, <1>5, <1>7, SameDirs

LEMMA CreateRunDirHolds ==
  ASSUME Inv, NEW p \in Processes, CreateRunDir(p)
  PROVE  Inv' /\ ClonesKept
<1> USE DEF Inv
<1>1. /\ UNCHANGED <<now, source, upstream, edits, clone, args, cutoff, listed, target>>
      /\ pc[p] = "mkdir" /\ Goto(p, "suite") /\ dir' = [dir EXCEPT ![p] = now]
  BY DEF CreateRunDir, repositories
<1>2. WorldOK' /\ CloneOK'
  BY <1>1 DEF WorldOK, CloneOK
<1>3. now \in Names /\ now # NoDir
  BY ConstantTypes DEF AgeInv
<1>4. dir' \in [Processes -> Names \union {NoDir}] /\ dir'[p] # NoDir
      /\ \A q \in Processes : q # p => dir'[q] = dir[q]
  BY <1>1, <1>3 DEF ProcessOK
<1>5. ProcessOK' /\ PlaceOK' /\ \A q \in Processes : pc'[q] = "rmtree" => pc[q] = "rmtree"
  BY <1>1, <1>4, MoveHolds DEF Labels, ToClone, PlaceOK
<1>6. DirsOK' /\ AgesOK' /\ ClonesKept
  <2>1. CASE ~Exists(now) /\ PutDir(now, "empty")
    <3>1. now <= now
      BY Numbers
    <3>2. QED BY <1>1, <1>3, <2>1, <3>1, AgesHold, PutDirTypes DEF DirStates, IsClone
  <2>2. CASE UNCHANGED dirs
    BY <1>1, <2>2, AgesHold, SameAges, SameDirs DEF DirsOK
  <2>3. QED BY <2>1, <2>2 DEF CreateRunDir
<1>7. \A q \in Processes : dir'[q] \in {dir[q], now, NoDir}
  BY <1>1 DEF ProcessOK
<1>8. QED BY <1>1, <1>2, <1>5, <1>6, <1>7, AgesStay

LEMMA PlanClonePathHolds ==
  ASSUME Inv, NEW p \in Processes, PlanClonePath(p)
  PROVE  Inv' /\ ClonesKept
<1> USE DEF Inv
<1>1. /\ UNCHANGED <<now, source, upstream, edits, dirs, clone, args, cutoff, listed, target>>
      /\ pc[p] = "plan"
  BY DEF PlanClonePath, repositories, storage
<1>2. WorldOK' /\ DirsOK' /\ CloneOK'
  BY <1>1 DEF WorldOK, DirsOK, CloneOK
<1>3. ProcessOK' /\ PlaceOK' /\ \A q \in Processes : pc'[q] = "rmtree" => pc[q] = "rmtree"
  <2>1. CASE Goto(p, "clone") /\ dir' = [dir EXCEPT ![p] = now]
    <3>1. now \in Names /\ now # NoDir
      BY ConstantTypes DEF AgeInv
    <3>2. dir' \in [Processes -> Names \union {NoDir}] /\ dir'[p] # NoDir
          /\ \A q \in Processes : q # p => dir'[q] = dir[q]
      BY <2>1, <3>1 DEF ProcessOK
    <3>3. QED BY <1>1, <2>1, <3>2, MoveHolds DEF Labels, ToClone, PlaceOK
  <2>2. CASE Goto(p, "failed") /\ UNCHANGED dir
    BY <1>1, <2>2, MoveHolds DEF Labels, InDir, ToClone, ProcessOK
  <2>3. QED BY <2>1, <2>2 DEF PlanClonePath
<1>4. AgeInv'
  <2>1. \A q \in Processes : dir'[q] \in {dir[q], now, NoDir}
    BY DEF PlanClonePath, ProcessOK
  <2>2. QED BY <1>1, <1>3, <2>1, AgesHold, SameAges, AgesStay
<1>5. QED BY <1>1, <1>2, <1>3, <1>4, SameDirs

(* A process leaves its directory. *)
LEMMA LeaveHolds ==
  ASSUME Inv, NEW p \in Processes, NEW l \in {"ended", "failed"}, Leave(p, l), pc[p] # "rmtree",
         UNCHANGED <<args, cutoff, listed, target>>
  PROVE  /\ ProcessOK' /\ PlaceOK' /\ \A q \in Processes : pc'[q] = "rmtree" => pc[q] = "rmtree"
         /\ \A q \in Processes : dir'[q] \in {dir[q], now, NoDir}
<1>1. \A q \in Processes : dir'[q] \in {dir[q], now, NoDir}
  BY DEF Leave, Inv, ProcessOK
<1>2. QED BY <1>1, LeaveTypes, MoveHolds DEF Inv, Leave, Labels, InDir, ToClone

LEMMA GitCloneLocalHolds ==
  ASSUME Inv, NEW p \in Processes, GitCloneLocal(p)
  PROVE  Inv' /\ ClonesKept
<1> USE DEF Inv
<1>1. /\ UNCHANGED <<now, source, upstream, edits, args, cutoff, listed, target>>
      /\ pc[p] = "clone"
  BY DEF GitCloneLocal, repositories
<1>2. WorldOK'
  BY <1>1 DEF WorldOK
<1>3. CASE /\ PutDir(dir[p], "clone")
           /\ clone' = [clone EXCEPT ![dir[p]] =
                          [origin |-> source.tips, branch |-> source.head,
                           tip |-> source.tips[source.head], url |-> "source",
                           head |-> source.tips[source.head]]]
           /\ Goto(p, "fetch")
           /\ UNCHANGED dir
  <2>1. dir[p] \in Names /\ dir[p] # NoDir
    BY <1>1 DEF ProcessOK, PlaceOK, InDir, ToClone
  <2>2. source.tips[source.head] \in Commits /\ source.tips \in Tips /\ source.head \in Branches
    BY DEF WorldOK, Tips
  <2>3. CloneOK'
    BY <1>3, <2>2 DEF CloneOK, Clones
  <2>4. ProcessOK' /\ PlaceOK' /\ \A q \in Processes : pc'[q] = "rmtree" => pc[q] = "rmtree"
    BY <1>1, <1>3, <2>1, MoveHolds DEF Labels, ToClone, ProcessOK, PlaceOK
  <2>5. DirsOK' /\ AgesOK' /\ ClonesKept
    <3>1. dir[p] <= now
      BY <2>1 DEF AgeInv
    <3>2. QED BY <1>1, <1>3, <2>1, <3>1, AgesHold, PutDirTypes DEF DirStates
  <2>6. \A q \in Processes : dir'[q] \in {dir[q], now, NoDir}
    BY <1>3
  <2>7. QED BY <1>1, <1>2, <2>3, <2>4, <2>5, <2>6, AgesStay
<1>4. CASE Leave(p, "failed") /\ UNCHANGED storage
  <2>1. UNCHANGED <<dirs, clone>>
    BY <1>4 DEF storage
  <2>2. DirsOK' /\ CloneOK' /\ AgesOK' /\ ClonesKept
    BY <1>1, <2>1, AgesHold, SameAges, SameDirs DEF DirsOK, CloneOK
  <2>3. /\ ProcessOK' /\ PlaceOK' /\ \A q \in Processes : pc'[q] = "rmtree" => pc[q] = "rmtree"
        /\ \A q \in Processes : dir'[q] \in {dir[q], now, NoDir}
    BY <1>1, <1>4, LeaveHolds
  <2>4. QED BY <1>1, <1>2, <2>2, <2>3, AgesStay
<1>5. QED BY <1>3, <1>4 DEF GitCloneLocal

LEMMA FetchOriginTypes ==
  ASSUME Inv, NEW p \in Processes, pc[p] \in InDir, FetchOrigin(p)
  PROVE  CloneOK'
<1>1. dir[p] \in Names
  BY DEF Inv, ProcessOK, PlaceOK
<1>2. source.tips \in Tips /\ upstream \in Tips
  BY DEF Inv, WorldOK
<1>3. QED BY <1>1, <1>2 DEF Inv, FetchOrigin, CloneOK, Clones

LEMMA FetchSourceHolds ==
  ASSUME Inv, NEW p \in Processes, FetchSource(p)
  PROVE  Inv' /\ ClonesKept
<1> USE DEF Inv
<1>1. /\ UNCHANGED <<now, source, upstream, edits, dirs, args, dir, cutoff, listed, target>>
      /\ pc[p] = "fetch" /\ Goto(p, "rewrite")
  BY DEF FetchSource, repositories
<1>2. WorldOK' /\ DirsOK' /\ AgesOK'
  BY <1>1, AgesHold, SameAges DEF WorldOK, DirsOK
<1>3. CloneOK'
  BY <1>1, FetchOriginTypes DEF FetchSource, InDir
<1>4. ProcessOK' /\ PlaceOK' /\ \A q \in Processes : pc'[q] = "rmtree" => pc[q] = "rmtree"
  BY <1>1, MoveHolds DEF Labels, InDir, ToClone, ProcessOK, PlaceOK
<1>5. QED BY <1>1, <1>2, <1>3, <1>4, AgesStay, SameDirs

LEMMA FetchUpstreamHolds ==
  ASSUME Inv, NEW p \in Processes, FetchUpstream(p)
  PROVE  Inv' /\ ClonesKept
<1> USE DEF Inv
<1>1. /\ UNCHANGED <<now, source, upstream, edits, dirs, args, dir, cutoff, listed, target>>
      /\ pc[p] = "fetch2" /\ Goto(p, "resolve")
  BY DEF FetchUpstream, repositories
<1>2. WorldOK' /\ DirsOK' /\ AgesOK'
  BY <1>1, AgesHold, SameAges DEF WorldOK, DirsOK
<1>3. CloneOK'
  BY <1>1, FetchOriginTypes DEF FetchUpstream, InDir
<1>4. ProcessOK' /\ PlaceOK' /\ \A q \in Processes : pc'[q] = "rmtree" => pc[q] = "rmtree"
  BY <1>1, MoveHolds DEF Labels, InDir, ToClone, ProcessOK, PlaceOK
<1>5. QED BY <1>1, <1>2, <1>3, <1>4, AgesStay, SameDirs

LEMMA RewriteOriginHolds ==
  ASSUME Inv, NEW p \in Processes, RewriteOrigin(p)
  PROVE  Inv' /\ ClonesKept
<1> USE DEF Inv
<1>1. /\ UNCHANGED <<now, source, upstream, edits, dirs, args, dir, cutoff, listed, target>>
      /\ pc[p] = "rewrite"
  BY DEF RewriteOrigin, repositories
<1>2. WorldOK' /\ DirsOK' /\ AgesOK'
  BY <1>1, AgesHold, SameAges DEF WorldOK, DirsOK
<1>3. CloneOK'
  BY DEF RewriteOrigin, CloneOK, Clones
<1>4. PICK l \in {"fetch2", "resolve"} : Goto(p, l)
  BY DEF RewriteOrigin
<1>5. ProcessOK' /\ PlaceOK' /\ \A q \in Processes : pc'[q] = "rmtree" => pc[q] = "rmtree"
  BY <1>1, <1>4, MoveHolds DEF Labels, InDir, ToClone, ProcessOK, PlaceOK
<1>6. QED BY <1>1, <1>2, <1>3, <1>5, AgesStay, SameDirs

LEMMA ReviewRefTypes ==
  ASSUME NEW c \in Clones, NEW ref, ref.branch \in Branches, NEW overlooked \in BOOLEAN
  PROVE  ResolveReviewRef(c, ref, overlooked) \in Commits
BY ConstantTypes DEF ResolveReviewRef, LocalTip, Clones, Tips, Commits

LEMMA CheckoutRefHolds ==
  ASSUME Inv, NEW p \in Processes, CheckoutRef(p)
  PROVE  Inv' /\ ClonesKept
<1> USE DEF Inv
<1>1. /\ UNCHANGED <<now, source, upstream, edits, args, cutoff, listed, target>>
      /\ pc[p] = "resolve"
  BY DEF CheckoutRef, repositories
<1>2. WorldOK'
  BY <1>1 DEF WorldOK
<1> DEFINE d == dir[p]
           commit(o) == ResolveReviewRef(clone[d], args[p].review, o)
<1>3. ASSUME NEW o \in BOOLEAN,
             clone' = [clone EXCEPT ![d].head = commit(o)], PutDir(d, "clone"),
             Goto(p, "suite"), UNCHANGED dir
      PROVE  Inv' /\ ClonesKept
  <2>1. d \in Names /\ d # NoDir
    BY <1>1 DEF ProcessOK, PlaceOK, InDir
  <2>2. args[p].review.branch \in Branches
    <3>1. args[p].review # NoRef
      BY <1>1 DEF PlaceOK, ToClone
    <3>2. args[p].review \in [branch : Branches, remote : BOOLEAN] \union {NoRef}
      BY RunStorageAssumption DEF ProcessOK
    <3>3. QED BY <3>1, <3>2
  <2>3. clone[d] \in Clones
    BY <2>1 DEF CloneOK
  <2>4. commit(o) \in Commits
    BY <2>2, <2>3, ReviewRefTypes
  <2>5. CloneOK'
    BY <1>3, <2>1, <2>3, <2>4 DEF CloneOK, Clones
  <2>6. ProcessOK' /\ PlaceOK' /\ \A q \in Processes : pc'[q] = "rmtree" => pc[q] = "rmtree"
    BY <1>1, <1>3, <2>1, MoveHolds DEF Labels, ToClone, ProcessOK, PlaceOK
  <2>7. DirsOK' /\ AgesOK' /\ ClonesKept
    <3>1. d <= now
      BY <2>1 DEF AgeInv
    <3>2. QED BY <1>1, <1>3, <2>1, <3>1, AgesHold, PutDirTypes DEF DirStates
  <2>8. \A q \in Processes : dir'[q] \in {dir[q], now, NoDir}
    BY <1>3
  <2>9. QED BY <1>1, <1>2, <2>5, <2>6, <2>7, <2>8, AgesStay
<1>4. CASE Leave(p, "failed") /\ UNCHANGED storage
  <2>1. UNCHANGED <<dirs, clone>>
    BY <1>4 DEF storage
  <2>2. DirsOK' /\ CloneOK' /\ AgesOK' /\ ClonesKept
    BY <1>1, <2>1, AgesHold, SameAges, SameDirs DEF DirsOK, CloneOK
  <2>3. /\ ProcessOK' /\ PlaceOK' /\ \A q \in Processes : pc'[q] = "rmtree" => pc[q] = "rmtree"
        /\ \A q \in Processes : dir'[q] \in {dir[q], now, NoDir}
    BY <1>1, <1>4, LeaveHolds
  <2>4. QED BY <1>1, <1>2, <2>2, <2>3, AgesStay
<1>5. QED BY <1>3, <1>4 DEF CheckoutRef

LEMMA WorkHolds ==
  ASSUME Inv, NEW p \in Processes, Work(p)
  PROVE  Inv' /\ ClonesKept
<1> USE DEF Inv
<1>1. /\ UNCHANGED <<now, source, upstream, edits, clone, pc, args, dir, cutoff, listed, target>>
      /\ pc[p] = "suite"
  BY DEF Work, repositories, processes
<1>2. WorldOK' /\ CloneOK' /\ ProcessOK' /\ PlaceOK'
  BY <1>1 DEF WorldOK, CloneOK, ProcessOK, PlaceOK
<1>3. dir[p] \in Names
  BY <1>1 DEF ProcessOK, PlaceOK, InDir
<1>4. DirsOK' /\ AgesOK' /\ ClonesKept
  <2>1. CASE PutDir(dir[p], IF IsClone(dir[p]) THEN "clone" ELSE "run")
    <3> DEFINE state == IF IsClone(dir[p]) THEN "clone" ELSE "run"
    <3>1. state \in DirStates /\ (IsClone(dir[p]) => state = "clone")
      BY DEF DirStates
    <3>2. dir[p] <= now
      BY <1>3, ConstantTypes DEF AgeInv
    <3>3. PutDir(dir[p], state)
      BY <2>1
    <3> HIDE DEF state
    <3>4. QED BY <1>1, <1>3, <3>1, <3>2, <3>3, AgesHold, PutDirTypes
  <2>2. CASE Exists(args[p].dir) /\ PutDir(args[p].dir, dirs[args[p].dir].state)
    <3> DEFINE e == args[p].dir
    <3>1. e \in DOMAIN dirs /\ e \in Names
      BY <2>2 DEF Exists, DirsOK
    <3>2. dirs[e].state \in DirStates /\ (IsClone(e) => dirs[e].state = "clone")
      BY <3>1 DEF DirsOK, IsClone
    <3>3. e <= now
      <4>1. e <= dirs[e].mtime /\ dirs[e].mtime <= now
        BY <3>1 DEF AgeInv, AgesOK
      <4>2. QED BY <3>1, <4>1, Numbers
    <3>4. QED BY <1>1, <2>2, <3>1, <3>2, <3>3, AgesHold, PutDirTypes
  <2>3. CASE UNCHANGED dirs
    BY <1>1, <2>3, AgesHold, SameAges, SameDirs DEF DirsOK
  <2>4. QED BY <2>1, <2>2, <2>3 DEF Work
<1>5. QED BY <1>1, <1>2, <1>4, AgesStay

LEMMA EndOfSuiteHolds ==
  ASSUME Inv, NEW p \in Processes, EndOfSuite(p)
  PROVE  Inv' /\ ClonesKept
<1> USE DEF Inv
<1>1. /\ UNCHANGED <<now, source, upstream, edits, dirs, clone, args, cutoff, listed, target>>
      /\ pc[p] = "suite" /\ Leave(p, "ended")
  BY DEF EndOfSuite, repositories, storage
<1>2. WorldOK' /\ DirsOK' /\ CloneOK' /\ AgesOK'
  BY <1>1, AgesHold, SameAges DEF WorldOK, DirsOK, CloneOK
<1>3. /\ ProcessOK' /\ PlaceOK' /\ \A q \in Processes : pc'[q] = "rmtree" => pc[q] = "rmtree"
      /\ \A q \in Processes : dir'[q] \in {dir[q], now, NoDir}
  BY <1>1, LeaveHolds
<1>4. QED BY <1>1, <1>2, <1>3, AgesStay, SameDirs

LEMMA StutterHolds == Inv /\ UNCHANGED vars => Inv' /\ ClonesKept
BY SameDirs
DEF Inv, vars, repositories, storage, processes, WorldOK, DirsOK, CloneOK, ProcessOK, PlaceOK,
    AgeInv, AgesOK

-----------------------------------------------------------------------------
(* What is reviewed.  A process that has cloned holds its directory alone    *)
(* until a pruner removes it: git clones into an empty directory only, and   *)
(* nothing but git clone makes a clone of what is none.                      *)

(* A process that is past its clone. *)
Cloned(p) == \/ pc[p] \in {"fetch", "rewrite", "fetch2", "resolve"}
             \/ pc[p] = "suite" /\ ~args[p].in_place

(* ... and whose clone no pruner has removed. *)
Holds(p) == Cloned(p) /\ dir[p] \notin removed

RealTips == [Branches -> Nat \ {0}]
Seen     == [source : Tips, upstream : Tips, fetched : BOOLEAN, overlooked : BOOLEAN]

(* What ReviewIsOfUpstream says: the commit that is reviewed, when s is what *)
(* the clone c was given.                                                    *)
Reviews(c, ref, s, commit) ==
  LET inOrigin == ref.remote \/ ~s.overlooked IN
  CASE inOrigin /\ ~s.fetched /\ s.source[ref.branch] # 0 -> commit = s.source[ref.branch]
    [] inOrigin /\ s.fetched /\ s.upstream[ref.branch] # 0 -> commit = s.upstream[ref.branch]
    [] OTHER -> ~ref.remote /\ commit = c.tip /\ c.branch = ref.branch

Reviewed(p) == Reviews(clone[dir[p]], args[p].review, seen[p], clone[dir[p]].head)

(* How far the clone of a process is. *)
ProgressOf(p) ==
  LET c == clone[dir[p]] IN
  /\ seen[p].source \in RealTips
  /\ pc[p] \in {"fetch", "rewrite", "fetch2"} => ~seen[p].fetched /\ c.origin = seen[p].source
  /\ pc[p] \in {"fetch", "rewrite"} => c.url = "source"
  /\ pc[p] = "fetch2" => c.url = "upstream"
  /\ pc[p] = "resolve" => c.origin = IF seen[p].fetched THEN seen[p].upstream ELSE seen[p].source
  /\ pc[p] = "suite" => Reviewed(p)

WorldInv ==
  /\ source.tips \in RealTips
  /\ seen \in [Processes -> Seen]
  /\ removed \subseteq Names
  /\ \A p \in Processes : pc[p] = "mkdir" => args[p].in_place
  /\ \A p \in Processes : pc[p] \in {"idle", "prune", "rmtree", "plan", "clone"} => ~seen[p].fetched

HoldInv ==
  /\ \A p \in Processes : Holds(p) => Exists(dir[p]) /\ dirs[dir[p]].state # "empty"
  /\ \A p, q \in Processes : p # q /\ Holds(p) /\ Cloned(q) => dir[q] # dir[p]

CloneInv == \A p \in Processes : Holds(p) /\ IsClone(dir[p]) => ProgressOf(p)

ReviewInv == WorldInv /\ HoldInv /\ CloneInv

LEMMA ReviewInvReviews == ReviewInv => ReviewIsOfUpstream
BY DEF ReviewInv, CloneInv, ProgressOf, Reviewed, Reviews, Cloned, Holds, ReviewIsOfUpstream

LEMMA FirstTipsAreReal == FirstTips \in RealTips /\ NothingSeen \in Seen
<1>1. FirstTips \in RealTips
  BY RunStorageAssumption, 1..LastCommit \subseteq Nat \ {0}, ConstantTypes DEF RealTips
<1>2. NothingSeen \in Seen
  BY TipTypes DEF NothingSeen, Seen
<1>3. QED BY <1>1, <1>2

LEMMA InitReviews == Init => ReviewInv
<1> SUFFICES ASSUME Init PROVE ReviewInv
  OBVIOUS
<1>1. source.tips = FirstTips
  BY DEF Init
<1>2. /\ seen \in [Processes -> Seen] /\ removed = {}
      /\ \A p \in Processes : pc[p] = "idle" /\ ~seen[p].fetched
  BY FirstTipsAreReal DEF Init, NothingSeen
<1>3. QED BY <1>1, <1>2, FirstTipsAreReal
         DEF ReviewInv, WorldInv, HoldInv, CloneInv, Holds, Cloned

(* The steps of others keep what a process knows of its directory: one that  *)
(* is not empty stays so unless it is removed, and what becomes or remains a *)
(* clone is what it was.                                                     *)
DirsStay ==
  \A d \in DOMAIN dirs : dirs[d].state # "empty" /\ d \notin removed' =>
                           d \in DOMAIN dirs' /\ dirs'[d].state # "empty"

ClonesStay(p) ==
  \A q \in Processes :
    q # p /\ Holds(q) /\ dir[q] \in DOMAIN dirs' /\ dirs'[dir[q]].state = "clone" =>
      IsClone(dir[q]) /\ clone'[dir[q]] = clone[dir[q]]

OnlyOf(p) ==
  /\ args' = args /\ removed \subseteq removed'
  /\ \A q \in Processes : q # p => pc'[q] = pc[q] /\ dir'[q] = dir[q] /\ seen'[q] = seen[q]

(* Nobody else has cloned into the directory of p. *)
Alone(p) == \A q \in Processes : q # p /\ Cloned(q) => dir[q] # dir'[p]

LEMMA StepReviews ==
  ASSUME ReviewInv, NEW p \in Processes, OnlyOf(p), DirsStay, ClonesStay(p), WorldInv',
         Holds(p)' => Alone(p) /\ Exists(dir[p])' /\ dirs'[dir'[p]].state # "empty",
         Holds(p)' /\ IsClone(dir[p])' => ProgressOf(p)'
  PROVE  ReviewInv'
<1>1. ASSUME NEW q \in Processes, q # p
      PROVE  (Cloned(q)' <=> Cloned(q)) /\ (Holds(q)' => Holds(q))
  BY <1>1 DEF OnlyOf, Cloned, Holds
<1>2. ASSUME NEW q \in Processes, Holds(q)'
      PROVE  Exists(dir[q])' /\ dirs'[dir'[q]].state # "empty"
  <2>1. CASE q = p
    BY <1>2, <2>1
  <2>2. CASE q # p
    <3>1. Exists(dir[q]) /\ dirs[dir[q]].state # "empty"
      BY <1>1, <1>2, <2>2 DEF ReviewInv, HoldInv
    <3>2. dir'[q] = dir[q] /\ dir[q] \notin removed'
      BY <1>2, <2>2 DEF OnlyOf, Holds
    <3>3. QED BY <3>1, <3>2 DEF DirsStay, Exists
  <2>3. QED BY <2>1, <2>2
<1>3. ASSUME NEW q \in Processes, NEW r \in Processes, q # r, Holds(q)', Cloned(r)'
      PROVE  dir'[r] # dir'[q]
  <2>1. CASE q = p
    BY <1>1, <1>3, <2>1 DEF Alone, OnlyOf
  <2>2. CASE r = p
    <3>1. SUFFICES ASSUME dir'[r] = dir'[q] PROVE FALSE
      OBVIOUS
    <3>2. Holds(p)'
      BY <1>3, <2>2, <3>1 DEF Holds
    <3>3. Cloned(q) /\ dir'[q] = dir[q]
      BY <1>1, <1>3, <2>2 DEF Holds, OnlyOf
    <3>4. QED BY <1>3, <2>2, <3>1, <3>2, <3>3 DEF Alone
  <2>3. CASE q # p /\ r # p
    BY <1>1, <1>3, <2>3 DEF ReviewInv, HoldInv, OnlyOf
  <2>4. QED BY <2>1, <2>2, <2>3
<1>4. ASSUME NEW q \in Processes, Holds(q)', IsClone(dir[q])'
      PROVE  ProgressOf(q)'
  <2>1. CASE q = p
    BY <1>4, <2>1
  <2>2. CASE q # p
    <3>1. Holds(q) /\ pc'[q] = pc[q] /\ dir'[q] = dir[q] /\ seen'[q] = seen[q] /\ args' = args
      BY <1>1, <1>4, <2>2 DEF OnlyOf
    <3>2. IsClone(dir[q]) /\ clone'[dir[q]] = clone[dir[q]]
      BY <1>4, <2>2, <3>1 DEF ClonesStay, IsClone, Exists
    <3>3. ProgressOf(q)
      BY <3>1, <3>2 DEF ReviewInv, CloneInv
    <3>4. QED BY <3>1, <3>2, <3>3 DEF ProgressOf, Reviewed
  <2>3. QED BY <2>1, <2>2
<1>5. HoldInv'
  BY <1>2, <1>3 DEF HoldInv
<1>6. CloneInv'
  BY <1>4 DEF CloneInv
<1>7. QED BY <1>5, <1>6 DEF ReviewInv

(* A step after which its process is in no clone: pruning, planning, leaving. *)
LEMMA OutsideReviews ==
  ASSUME ReviewInv, NEW p \in Processes, OnlyOf(p), DirsStay, ClonesStay(p), WorldInv', ~Cloned(p)'
  PROVE  ReviewInv'
<1>1. ~Holds(p)'
  BY DEF Holds
<1>2. QED BY <1>1, StepReviews

LEMMA DirsSame ==
  ASSUME UNCHANGED <<dirs, clone>>, NEW p \in Processes
  PROVE  DirsStay /\ ClonesStay(p)
BY DEF DirsStay, ClonesStay, IsClone, Exists

LEMMA GotoMoves ==
  ASSUME Inv, NEW p \in Processes, NEW l, Goto(p, l), UNCHANGED args
  PROVE  /\ pc'[p] = l /\ \A q \in Processes : q # p => pc'[q] = pc[q]
         /\ l \notin {"fetch", "rewrite", "fetch2", "resolve", "suite"} => ~Cloned(p)'
<1>1. pc'[p] = l /\ \A q \in Processes : q # p => pc'[q] = pc[q]
  BY DEF Inv, ProcessOK, Goto
<1>2. QED BY <1>1 DEF Cloned

LEMMA LeaveMoves ==
  ASSUME Inv, ReviewInv, NEW p \in Processes, NEW l \in {"ended", "failed"}, Leave(p, l),
         UNCHANGED <<args, removed>>
  PROVE  OnlyOf(p) /\ ~Cloned(p)' /\ seen' \in [Processes -> Seen]
         /\ pc'[p] = l
<1>1. pc'[p] = l /\ (\A q \in Processes : q # p => pc'[q] = pc[q]) /\ ~Cloned(p)'
  BY GotoMoves DEF Leave
<1>2. seen' \in [Processes -> Seen] /\ \A q \in Processes : q # p => seen'[q] = seen[q]
  BY FirstTipsAreReal DEF Leave, ReviewInv, WorldInv
<1>3. \A q \in Processes : q # p => dir'[q] = dir[q]
  BY DEF Leave, Inv, ProcessOK
<1>4. QED BY <1>1, <1>2, <1>3 DEF OnlyOf

LEMMA PeopleReview ==
  ASSUME Inv, ReviewInv, NEW b \in Branches,
         Tick \/ CommitInSource(b) \/ PushToUpstream(b) \/ DeleteUpstream(b)
  PROVE  ReviewInv'
<1>1. UNCHANGED <<dirs, clone, removed, pc, args, dir, seen>>
  BY DEF Tick, CommitInSource, PushToUpstream, DeleteUpstream, storage, processes
<1>2. source'.tips \in RealTips
  <2>1. CASE CommitInSource(b)
    <3>1. edits.last + 1 \in Nat \ {0}
      BY ConstantTypes DEF Inv, WorldOK, Commits
    <3>2. source' = [source EXCEPT !.tips[b] = edits.last + 1]
      BY <2>1 DEF CommitInSource
    <3>3. QED BY <3>1, <3>2 DEF ReviewInv, WorldInv, RealTips, Inv, WorldOK
  <2>2. CASE ~CommitInSource(b)
    <3>1. UNCHANGED source
      BY <2>2 DEF Tick, PushToUpstream, DeleteUpstream, repositories
    <3>2. QED BY <3>1 DEF ReviewInv, WorldInv
  <2>3. QED BY <2>1, <2>2
<1>3. WorldInv'
  BY <1>1, <1>2 DEF ReviewInv, WorldInv
<1>4. HoldInv' /\ CloneInv'
  BY <1>1 DEF ReviewInv, HoldInv, CloneInv, Holds, Cloned, Exists, IsClone, ProgressOf, Reviewed
<1>5. QED BY <1>3, <1>4 DEF ReviewInv

LEMMA StutterReviews == ASSUME ReviewInv, UNCHANGED vars PROVE ReviewInv'
BY DEF vars, repositories, storage, processes, ReviewInv, WorldInv, HoldInv, CloneInv, Holds,
       Cloned, Exists, IsClone, ProgressOf, Reviewed

(* Start, pruning and planning. *)
LEMMA PruningReviews ==
  ASSUME Inv, ReviewInv, NEW p \in Processes,
         Start(p) \/ LookAtEntry(p) \/ EndOfPrune(p) \/ PlanClonePath(p)
  PROVE  ReviewInv'
<1>1. UNCHANGED <<source, dirs, clone, removed, args, seen>>
  BY DEF Start, LookAtEntry, EndOfPrune, PlanClonePath, repositories, storage
<1>2. \A q \in Processes : q # p => dir'[q] = dir[q]
  BY DEF Start, LookAtEntry, EndOfPrune, PlanClonePath, Inv, ProcessOK
<1>3. pc[p] \in {"idle", "prune", "plan"}
  BY DEF Start, LookAtEntry, EndOfPrune, PlanClonePath
<1>4. /\ \A q \in Processes : q # p => pc'[q] = pc[q]
      /\ ~Cloned(p)' /\ (pc'[p] = "mkdir" => args[p].in_place)
  <2>1. CASE UNCHANGED pc
    BY <1>3, <2>1 DEF Cloned
  <2>2. CASE \E l \in {"prune", "rmtree", "plan", "clone", "failed"} : Goto(p, l)
    BY <1>1, <2>2, GotoMoves
  <2>3. CASE EndOfPrune(p)
    <3>1. Goto(p, IF args[p].in_place THEN "mkdir" ELSE "plan")
      BY <2>3 DEF EndOfPrune
    <3>2. QED BY <1>1, <3>1, GotoMoves
  <2>4. QED BY <2>1, <2>2, <2>3 DEF Start, LookAtEntry, PlanClonePath
<1>5. OnlyOf(p)
  BY <1>1, <1>2, <1>4 DEF OnlyOf
<1>6. WorldInv'
  BY <1>1, <1>3, <1>4 DEF ReviewInv, WorldInv
<1>7. QED BY <1>1, <1>4, <1>5, <1>6, DirsSame, OutsideReviews

LEMMA RemoveTreeReviews ==
  ASSUME Inv, ReviewInv, NEW p \in Processes, RemoveTree(p)
  PROVE  ReviewInv'
<1> DEFINE d == target[p]
<1>1. /\ UNCHANGED <<source, clone, args, dir, seen>> /\ pc[p] = "rmtree"
      /\ Goto(p, "prune")
  BY DEF RemoveTree, repositories
<1>2. d \in Names
  BY <1>1 DEF Inv, ProcessOK, PlaceOK
<1>3. \/ dirs' = [e \in DOMAIN dirs \ {d} |-> dirs[e]] /\ removed' = removed \union {d}
      \/ dirs' = [dirs EXCEPT ![d] = [mtime |-> now, state |-> "damaged"]] /\ removed' = removed
      \/ UNCHANGED <<dirs, removed>>
  BY DEF RemoveTree
<1>4. removed \subseteq removed' /\ removed' \subseteq Names
  BY <1>2, <1>3 DEF ReviewInv, WorldInv
<1>5. DirsStay
  BY <1>3 DEF DirsStay
<1>6. \A e \in DOMAIN dirs' : dirs'[e].state = "clone" => e \in DOMAIN dirs /\ dirs[e].state = "clone"
  BY <1>3
<1>7. ClonesStay(p)
  BY <1>1, <1>6 DEF ClonesStay, IsClone, Exists
<1>8. /\ pc'[p] = "prune" /\ \A q \in Processes : q # p => pc'[q] = pc[q]
      /\ ~Cloned(p)'
  BY <1>1, GotoMoves
<1>9. OnlyOf(p) /\ WorldInv'
  BY <1>1, <1>4, <1>8 DEF OnlyOf, ReviewInv, WorldInv
<1>10. QED BY <1>5, <1>7, <1>8, <1>9, OutsideReviews

LEMMA CreateRunDirReviews ==
  ASSUME Inv, ReviewInv, NEW p \in Processes, CreateRunDir(p)
  PROVE  ReviewInv'
<1>1. /\ UNCHANGED <<source, clone, args, removed, seen>> /\ pc[p] = "mkdir"
      /\ Goto(p, "suite") /\ dir' = [dir EXCEPT ![p] = now]
  BY DEF CreateRunDir, repositories
<1>2. \/ ~Exists(now) /\ PutDir(now, "empty")
      \/ UNCHANGED dirs
  BY DEF CreateRunDir
<1>3. DirsStay /\ ClonesStay(p)
  BY <1>1, <1>2 DEF DirsStay, ClonesStay, PutDir, Exists, IsClone
<1>4. /\ pc'[p] = "suite" /\ \A q \in Processes : q # p => pc'[q] = pc[q]
  BY <1>1, GotoMoves
<1>5. ~Cloned(p)'
  BY <1>1, <1>4 DEF Cloned, ReviewInv, WorldInv
<1>6. OnlyOf(p) /\ WorldInv'
  BY <1>1, <1>4 DEF OnlyOf, ReviewInv, WorldInv, Inv, ProcessOK
<1>7. QED BY <1>3, <1>5, <1>6, OutsideReviews

LEMMA EndOfSuiteReviews ==
  ASSUME Inv, ReviewInv, NEW p \in Processes, Leave(p, "ended") \/ Leave(p, "failed"),
         UNCHANGED <<source, storage, args>>
  PROVE  ReviewInv'
<1>1. UNCHANGED <<dirs, clone, removed>>
  BY DEF storage
<1>2. OnlyOf(p) /\ ~Cloned(p)' /\ seen' \in [Processes -> Seen]
      /\ pc'[p] \in {"ended", "failed"}
  BY <1>1, LeaveMoves
<1>3. WorldInv'
  <2>1. \A q \in Processes : pc'[q] \notin {"ended", "failed"} => pc'[q] = pc[q] /\ seen'[q] = seen[q]
    BY <1>2 DEF OnlyOf
  <2>2. QED BY <1>1, <1>2, <2>1 DEF ReviewInv, WorldInv
<1>4. QED BY <1>1, <1>2, <1>3, DirsSame, OutsideReviews

-----------------------------------------------------------------------------
(* The steps in a clone *)

LEMMA WorldStays ==
  ASSUME ReviewInv, NEW p \in Processes, UNCHANGED <<source, args, removed>>,
         pc'[p] \in {"fetch", "rewrite", "fetch2", "resolve", "suite"},
         \A q \in Processes : q # p => pc'[q] = pc[q] /\ seen'[q] = seen[q],
         seen' \in [Processes -> Seen]
  PROVE  WorldInv'
BY DEF ReviewInv, WorldInv

LEMMA GitCloneReviews ==
  ASSUME Inv, ReviewInv, NEW p \in Processes, GitCloneLocal(p)
  PROVE  ReviewInv'
<1> DEFINE d == dir[p]
           made == [origin |-> source.tips, branch |-> source.head,
                    tip |-> source.tips[source.head], url |-> "source",
                    head |-> source.tips[source.head]]
<1>1. UNCHANGED <<source, args>> /\ pc[p] = "clone"
  BY DEF GitCloneLocal, repositories
<1>2. CASE /\ Exists(d) => dirs[d].state = "empty"
           /\ PutDir(d, "clone") /\ UNCHANGED removed
           /\ clone' = [clone EXCEPT ![d] = made]
           /\ seen' = [seen EXCEPT ![p].source = source.tips]
           /\ Goto(p, "fetch")
           /\ UNCHANGED dir
  <2>1. d \in Names /\ ~Cloned(p)
    BY <1>1 DEF Inv, ProcessOK, PlaceOK, InDir, Cloned
  <2>2. \A q \in Processes : Holds(q) => dir[q] # d
    BY <1>2 DEF ReviewInv, HoldInv
  <2>3. DirsStay
    BY <1>2 DEF DirsStay, PutDir, Exists
  <2>4. ClonesStay(p)
    BY <1>2, <2>2 DEF ClonesStay, PutDir, IsClone, Exists
  <2>5. /\ pc'[p] = "fetch" /\ \A q \in Processes : q # p => pc'[q] = pc[q]
    BY <1>1, <1>2, GotoMoves
  <2>6. /\ seen' \in [Processes -> Seen] /\ seen'[p].source = source.tips
        /\ seen'[p].fetched = seen[p].fetched
        /\ \A q \in Processes : q # p => seen'[q] = seen[q]
    BY <1>2 DEF ReviewInv, WorldInv, Seen, Inv, WorldOK
  <2>7. OnlyOf(p) /\ WorldInv'
    BY <1>1, <1>2, <2>5, <2>6, WorldStays DEF OnlyOf
  <2>8. Exists(d)' /\ dirs'[d].state = "clone" /\ dir'[p] = d
    BY <1>2 DEF PutDir, Exists
  <2>9. Holds(p)' => Alone(p)
    BY <1>2, <2>2, <2>8 DEF Alone, Holds
  <2>10. clone'[d] = made
    BY <1>2, <2>1 DEF Inv, CloneOK
  <2>11. ProgressOf(p)'
    <3>1. ~seen'[p].fetched
      BY <1>1, <2>6 DEF ReviewInv, WorldInv
    <3>2. seen'[p].source \in RealTips
      BY <2>6 DEF ReviewInv, WorldInv
    <3>3. clone'[dir'[p]].origin = seen'[p].source /\ clone'[dir'[p]].url = "source"
      BY <2>6, <2>8, <2>10
    <3>4. QED BY <2>5, <3>1, <3>2, <3>3 DEF ProgressOf
  <2>12. QED BY <1>2, <2>3, <2>4, <2>7, <2>8, <2>9, <2>11, StepReviews DEF Exists
<1>3. CASE Leave(p, "failed") /\ UNCHANGED storage
  BY <1>1, <1>3, EndOfSuiteReviews
<1>4. QED BY <1>2, <1>3 DEF GitCloneLocal

(* A step of p in its clone changes that clone only, and nobody else holds it. *)
LEMMA InCloneStays ==
  ASSUME Inv, ReviewInv, NEW p \in Processes, Cloned(p), UNCHANGED dirs,
         \A e \in Names : e # dir[p] => clone'[e] = clone[e]
  PROVE  DirsStay /\ ClonesStay(p)
<1>1. DirsStay
  BY DEF DirsStay
<1>2. ASSUME NEW q \in Processes, q # p, Holds(q)
      PROVE  dir[q] # dir[p] /\ dir[q] \in Names
  BY <1>2 DEF ReviewInv, HoldInv, Holds, Cloned, Inv, DirsOK, Exists
<1>3. ClonesStay(p)
  BY <1>2 DEF ClonesStay, IsClone, Exists
<1>4. QED BY <1>1, <1>3

(* p stays in the clone it has. *)
LEMMA InCloneReviews ==
  ASSUME Inv, ReviewInv, NEW p \in Processes, Cloned(p), Cloned(p)', OnlyOf(p), DirsStay,
         ClonesStay(p), WorldInv', dir'[p] = dir[p],
         Holds(p) /\ IsClone(dir[p])' => ProgressOf(p)'
  PROVE  ReviewInv'
<1>1. Holds(p)' => Holds(p)
  BY DEF Holds, OnlyOf
<1>2. Holds(p) => Alone(p) /\ Exists(dir[p]) /\ dirs[dir[p]].state # "empty"
  BY DEF ReviewInv, HoldInv, Alone
<1>3. Holds(p)' => Exists(dir[p])' /\ dirs'[dir'[p]].state # "empty"
  BY <1>1, <1>2 DEF DirsStay, Holds, Exists
<1>4. QED BY <1>1, <1>2, <1>3, StepReviews

LEMMA FetchReviews ==
  ASSUME Inv, ReviewInv, NEW p \in Processes, FetchSource(p) \/ FetchUpstream(p)
  PROVE  ReviewInv'
<1> DEFINE d == dir[p]
<1>1. /\ UNCHANGED <<source, upstream, dirs, removed, args, dir>> /\ pc[p] \in {"fetch", "fetch2"}
      /\ FetchOrigin(p)
      /\ pc[p] = "fetch" => Goto(p, "rewrite")
      /\ pc[p] = "fetch2" => Goto(p, "resolve")
  BY DEF FetchSource, FetchUpstream, repositories
<1>2. /\ pc[p] = "fetch" => pc'[p] = "rewrite"
      /\ pc[p] = "fetch2" => pc'[p] = "resolve"
      /\ \A q \in Processes : q # p => pc'[q] = pc[q]
  BY <1>1, GotoMoves
<1>3. d \in Names /\ Cloned(p) /\ Cloned(p)'
  BY <1>1, <1>2 DEF Inv, ProcessOK, PlaceOK, InDir, Cloned
<1>4. seen[p] \in Seen /\ upstream \in Tips /\ source.tips \in Tips /\ source.tips \in RealTips
  BY DEF ReviewInv, WorldInv, Inv, WorldOK
<1>5. seen' \in [Processes -> Seen] /\ \A q \in Processes : q # p => seen'[q] = seen[q]
  BY <1>1, <1>4 DEF FetchOrigin, ReviewInv, WorldInv, Seen
<1>6. \A e \in Names : e # d => clone'[e] = clone[e]
  BY <1>1 DEF FetchOrigin, Inv, CloneOK
<1>7. OnlyOf(p) /\ WorldInv' /\ DirsStay /\ ClonesStay(p)
  BY <1>1, <1>2, <1>3, <1>5, <1>6, WorldStays, InCloneStays DEF OnlyOf
<1>8. ASSUME Holds(p), IsClone(d)'
      PROVE  ProgressOf(p)'
  <2>1. IsClone(d) /\ ProgressOf(p)
    BY <1>1, <1>8 DEF ReviewInv, CloneInv, IsClone, Exists
  <2> DEFINE tips == IF clone[d].url = "source" THEN source.tips ELSE upstream
  <2>2. CASE /\ clone' = [clone EXCEPT ![d].origin = tips]
             /\ seen' = IF clone[d].url = "source" THEN [seen EXCEPT ![p].source = tips]
                        ELSE [seen EXCEPT ![p].upstream = tips, ![p].fetched = TRUE]
    <3>1. clone'[d].origin = tips /\ clone'[d].url = clone[d].url
      BY <1>3, <2>2 DEF Inv, CloneOK, Clones
    <3>2. CASE pc[p] = "fetch"
      <4>1. clone[d].url = "source" /\ ~seen[p].fetched
        BY <2>1, <3>2 DEF ProgressOf
      <4>2. seen'[p].source = source.tips /\ seen'[p].fetched = seen[p].fetched
        BY <2>2, <4>1, <1>4 DEF ReviewInv, WorldInv, Seen
      <4>3. QED BY <1>1, <1>2, <1>4, <3>1, <3>2, <4>1, <4>2 DEF ProgressOf
    <3>3. CASE pc[p] = "fetch2"
      <4>1. clone[d].url # "source" /\ seen[p].source \in RealTips
        BY <2>1, <3>3 DEF ProgressOf
      <4>2. seen'[p].upstream = upstream /\ seen'[p].fetched /\ seen'[p].source = seen[p].source
        BY <2>2, <4>1, <1>4 DEF ReviewInv, WorldInv, Seen
      <4>3. QED BY <1>1, <1>2, <3>1, <3>3, <4>1, <4>2 DEF ProgressOf
    <3>4. QED BY <1>1, <3>2, <3>3
  <2>3. CASE UNCHANGED <<clone, seen>>
    BY <1>1, <1>2, <2>1, <2>3 DEF ProgressOf
  <2>4. QED BY <1>1, <2>2, <2>3 DEF FetchOrigin
<1>9. QED BY <1>1, <1>3, <1>7, <1>8, InCloneReviews

LEMMA RewriteOriginReviews ==
  ASSUME Inv, ReviewInv, NEW p \in Processes, RewriteOrigin(p)
  PROVE  ReviewInv'
<1> DEFINE d == dir[p]
<1>1. UNCHANGED <<source, dirs, removed, args, dir, seen>> /\ pc[p] = "rewrite"
  BY DEF RewriteOrigin, repositories
<1>2. PICK l \in {"fetch2", "resolve"} :
        /\ Goto(p, l)
        /\ \/ clone' = [clone EXCEPT ![d].url = "upstream"]
           \/ l = "resolve" /\ UNCHANGED clone
  BY DEF RewriteOrigin
<1>3. pc'[p] = l /\ \A q \in Processes : q # p => pc'[q] = pc[q]
  BY <1>1, <1>2, GotoMoves
<1>4. d \in Names /\ Cloned(p) /\ Cloned(p)'
  BY <1>1, <1>3 DEF Inv, ProcessOK, PlaceOK, InDir, Cloned
<1>5. \A e \in Names : e # d => clone'[e] = clone[e]
  BY <1>2 DEF Inv, CloneOK
<1>6. OnlyOf(p) /\ WorldInv' /\ DirsStay /\ ClonesStay(p)
  <2>1. seen' \in [Processes -> Seen]
    BY <1>1 DEF ReviewInv, WorldInv
  <2>2. QED BY <1>1, <1>3, <1>4, <1>5, <2>1, WorldStays, InCloneStays DEF OnlyOf
<1>7. ASSUME Holds(p), IsClone(d)'
      PROVE  ProgressOf(p)'
  <2>1. ProgressOf(p)
    BY <1>1, <1>7 DEF ReviewInv, CloneInv, IsClone, Exists
  <2>2. clone'[d].origin = clone[d].origin /\ (l = "fetch2" => clone'[d].url = "upstream")
    BY <1>2, <1>4 DEF Inv, CloneOK, Clones
  <2>3. QED BY <1>1, <1>3, <2>1, <2>2 DEF ProgressOf
<1>8. QED BY <1>1, <1>4, <1>6, <1>7, InCloneReviews

(* What is resolved is what ReviewIsOfUpstream asks for. *)
LEMMA ResolvedIsReviewed ==
  ASSUME NEW c, NEW s \in Seen, NEW ref, ref.branch \in Branches,
         s.source \in RealTips, c.origin = IF s.fetched THEN s.upstream ELSE s.source,
         NEW commit, commit = ResolveReviewRef(c, ref, s.overlooked), commit # 0
  PROVE  Reviews(c, ref, s, commit)
<1> DEFINE inOrigin == ref.remote \/ ~s.overlooked
<1>1. CASE inOrigin /\ ~s.fetched /\ s.source[ref.branch] # 0
  BY <1>1 DEF ResolveReviewRef, Reviews
<1>2. CASE inOrigin /\ s.fetched /\ s.upstream[ref.branch] # 0
  BY <1>2 DEF ResolveReviewRef, Reviews
<1>3. CASE ~inOrigin
  <2>1. ~ref.remote /\ commit = LocalTip(c, ref.branch)
    BY <1>3 DEF ResolveReviewRef
  <2>2. QED BY <1>3, <2>1 DEF Reviews, LocalTip
<1>4. CASE inOrigin /\ s.fetched /\ s.upstream[ref.branch] = 0
  <2>1. c.origin[ref.branch] = 0
    BY <1>4
  <2>2. ~ref.remote /\ commit = LocalTip(c, ref.branch)
    BY <1>4, <2>1 DEF ResolveReviewRef
  <2>3. QED BY <1>4, <2>2 DEF Reviews, LocalTip
<1>5. s.source[ref.branch] # 0
  BY DEF RealTips
<1>6. QED BY <1>1, <1>2, <1>3, <1>4, <1>5

LEMMA CheckoutRefReviews ==
  ASSUME Inv, ReviewInv, NEW p \in Processes, CheckoutRef(p)
  PROVE  ReviewInv'
<1> DEFINE d == dir[p]
           ref == args[p].review
           commit(o) == ResolveReviewRef(clone[d], ref, o)
<1>1. UNCHANGED <<source, args>> /\ pc[p] = "resolve"
  BY DEF CheckoutRef, repositories
<1>2. ASSUME NEW o \in BOOLEAN,
             /\ IsClone(d) /\ commit(o) # 0
             /\ clone' = [clone EXCEPT ![d].head = commit(o)]
             /\ PutDir(d, "clone") /\ UNCHANGED <<removed, dir>>
             /\ seen' = [seen EXCEPT ![p].overlooked = o]
             /\ Goto(p, "suite")
      PROVE  ReviewInv'
  <2>1. d \in Names /\ Cloned(p) /\ ref.branch \in Branches
    <3>1. ref # NoRef
      BY <1>1 DEF Inv, PlaceOK, ToClone
    <3>2. ref \in [branch : Branches, remote : BOOLEAN] \union {NoRef}
      BY RunStorageAssumption DEF Inv, ProcessOK
    <3>3. QED BY <1>1, <3>1, <3>2 DEF Inv, ProcessOK, PlaceOK, InDir, Cloned
  <2>2. pc'[p] = "suite" /\ \A q \in Processes : q # p => pc'[q] = pc[q]
    BY <1>1, <1>2, GotoMoves
  <2>3. DirsStay
    BY <1>2 DEF DirsStay, PutDir
  <2>4. ClonesStay(p)
    <3>1. ASSUME NEW q \in Processes, q # p, Holds(q), dir[q] \in DOMAIN dirs',
                 dirs'[dir[q]].state = "clone"
          PROVE  IsClone(dir[q]) /\ clone'[dir[q]] = clone[dir[q]]
      <4>1. dir[q] # d /\ dir[q] \in Names
        BY <2>1, <3>1 DEF ReviewInv, HoldInv, Holds, Cloned, Inv, DirsOK, Exists
      <4>2. QED BY <1>2, <3>1, <4>1 DEF PutDir, IsClone, Exists, Inv, CloneOK
    <3>2. QED BY <3>1 DEF ClonesStay
  <2>5. OnlyOf(p) /\ WorldInv'
    <3>1. seen' \in [Processes -> Seen] /\ \A q \in Processes : q # p => seen'[q] = seen[q]
      BY <1>2 DEF ReviewInv, WorldInv, Seen
    <3>2. QED BY <1>1, <1>2, <2>2, <3>1, WorldStays DEF OnlyOf
  <2>6. Holds(p) => ProgressOf(p)'
    <3>1. SUFFICES ASSUME Holds(p) PROVE ProgressOf(p)'
      OBVIOUS
    <3>2. ProgressOf(p) /\ seen[p] \in Seen
      BY <1>2, <3>1 DEF ReviewInv, CloneInv, WorldInv
    <3>3. /\ clone'[d].head = commit(o) /\ clone'[d].tip = clone[d].tip
          /\ clone'[d].branch = clone[d].branch
      BY <1>2, <2>1 DEF Inv, CloneOK, Clones
    <3>4. /\ seen'[p] \in Seen /\ seen'[p].source = seen[p].source
          /\ seen'[p].upstream = seen[p].upstream /\ seen'[p].fetched = seen[p].fetched
          /\ seen'[p].overlooked = o
      BY <1>2, <3>2 DEF ReviewInv, WorldInv, Seen
    <3>5. seen'[p].source \in RealTips
          /\ clone[d].origin = IF seen'[p].fetched THEN seen'[p].upstream ELSE seen'[p].source
      BY <1>1, <3>2, <3>4 DEF ProgressOf
    <3>6. Reviews(clone[d], ref, seen'[p], commit(o))
      BY <1>2, <2>1, <3>4, <3>5, ResolvedIsReviewed
    <3>7. Reviews(clone'[d], ref, seen'[p], clone'[d].head)
      BY <3>3, <3>6 DEF Reviews
    <3>8. Reviewed(p)'
      BY <1>1, <1>2, <3>7 DEF Reviewed
    <3>9. QED BY <1>2, <2>2, <3>5, <3>8 DEF ProgressOf
  <2>7. CASE Cloned(p)'
    BY <1>2, <2>1, <2>3, <2>4, <2>5, <2>6, <2>7, InCloneReviews
  <2>8. CASE ~Cloned(p)'
    BY <2>3, <2>4, <2>5, <2>8, OutsideReviews
  <2>9. QED BY <2>7, <2>8
<1>3. CASE Leave(p, "failed") /\ UNCHANGED storage
  BY <1>1, <1>3, EndOfSuiteReviews
<1>4. QED BY <1>2, <1>3 DEF CheckoutRef

LEMMA WorkReviews ==
  ASSUME Inv, ReviewInv, NEW p \in Processes, Work(p)
  PROVE  ReviewInv'
<1>1. UNCHANGED <<source, clone, removed, pc, args, dir, seen>>
  BY DEF Work, repositories, processes
<1>2. \/ PutDir(dir[p], IF IsClone(dir[p]) THEN "clone" ELSE "run")
      \/ Exists(args[p].dir) /\ PutDir(args[p].dir, dirs[args[p].dir].state)
      \/ UNCHANGED dirs
  BY DEF Work
<1>3. DirsStay
  BY <1>2 DEF DirsStay, PutDir, Exists
<1>4. \A e \in DOMAIN dirs' : dirs'[e].state = "clone" => IsClone(e)
  BY <1>2 DEF PutDir, IsClone, Exists
<1>5. ClonesStay(p)
  BY <1>1, <1>4 DEF ClonesStay
<1>6. OnlyOf(p) /\ WorldInv'
  BY <1>1 DEF OnlyOf, ReviewInv, WorldInv
<1>7. Cloned(p)' <=> Cloned(p)
  BY <1>1 DEF Cloned
<1>8. Holds(p) /\ IsClone(dir[p])' => ProgressOf(p)'
  <2>1. SUFFICES ASSUME Holds(p), IsClone(dir[p])' PROVE ProgressOf(p)'
    OBVIOUS
  <2>2. ProgressOf(p)
    BY <1>1, <1>4, <2>1 DEF ReviewInv, CloneInv, IsClone, Exists
  <2>3. QED BY <1>1, <2>2 DEF ProgressOf, Reviewed
<1>9. CASE Cloned(p)
  BY <1>1, <1>3, <1>5, <1>6, <1>7, <1>8, <1>9, InCloneReviews
<1>10. CASE ~Cloned(p)
  BY <1>3, <1>5, <1>6, <1>7, <1>10, OutsideReviews
<1>11. QED BY <1>9, <1>10

LEMMA ReviewSteps == Inv /\ ReviewInv /\ [Next]_vars => ReviewInv'
<1> SUFFICES ASSUME Inv, ReviewInv, [Next]_vars PROVE ReviewInv'
  OBVIOUS
<1>1. CASE Tick \/ \E b \in Branches : CommitInSource(b) \/ PushToUpstream(b) \/ DeleteUpstream(b)
  <2>1. source.head \in Branches
    BY DEF Inv, WorldOK
  <2>2. QED BY <1>1, <2>1, PeopleReview
<1>2. CASE \E p \in Processes : \/ Start(p) \/ LookAtEntry(p) \/ EndOfPrune(p) \/ PlanClonePath(p)
                               \/ RemoveTree(p) \/ CreateRunDir(p)
  BY <1>2, PruningReviews, RemoveTreeReviews, CreateRunDirReviews
<1>3. CASE \E p \in Processes : \/ GitCloneLocal(p) \/ FetchSource(p) \/ RewriteOrigin(p)
                               \/ FetchUpstream(p) \/ CheckoutRef(p) \/ Work(p)
  BY <1>3, GitCloneReviews, FetchReviews, RewriteOriginReviews, CheckoutRefReviews, WorkReviews
<1>4. CASE \E p \in Processes : EndOfSuite(p)
  <2>1. PICK p \in Processes : EndOfSuite(p)
    BY <1>4
  <2>2. Leave(p, "ended") /\ UNCHANGED <<source, storage, args>>
    BY <2>1 DEF EndOfSuite, repositories
  <2>3. QED BY <2>2, EndOfSuiteReviews
<1>5. CASE Finished \/ UNCHANGED vars
  BY <1>5, StutterReviews DEF Finished
<1>6. QED BY <1>1, <1>2, <1>3, <1>4, <1>5 DEF Next

-----------------------------------------------------------------------------

(* A young directory keeps its clone. *)
YoungKept == \A d \in Names : IsClone(d) /\ now - d <= MaxAge => IsClone(d)'

LEMMA ClonesKeptAreYoung == ClonesKept => YoungKept
BY DEF ClonesKept, YoungKept, IsClone, Exists

LEMMA RemovedIsOld ==
  ASSUME Inv, NEW p \in Processes, RemoveTree(p)
  PROVE  YoungKept
<1>1. target[p] + MaxAge < now
  BY RemoveTreeHolds
<1>2. pc[p] = "rmtree"
  BY DEF RemoveTree
<1>3. ~(now - target[p] <= MaxAge)
  BY <1>1, <1>2, Numbers
<1>4. \A d \in DOMAIN dirs : d # target[p] => d \in DOMAIN dirs' /\ dirs'[d] = dirs[d]
  BY DEF RemoveTree
<1>5. QED BY <1>3, <1>4 DEF YoungKept, IsClone, Exists

LEMMA StepHolds == Inv /\ [Next]_vars => Inv' /\ YoungKept
<1> SUFFICES ASSUME Inv, [Next]_vars PROVE Inv' /\ YoungKept
  OBVIOUS
<1>1. CASE Tick
  BY <1>1, TickHolds, ClonesKeptAreYoung
<1>2. CASE \E b \in Branches : CommitInSource(b) \/ PushToUpstream(b) \/ DeleteUpstream(b)
  BY <1>2, CommitInSourceHolds, PushToUpstreamHolds, DeleteUpstreamHolds, ClonesKeptAreYoung
<1>3. CASE \E p \in Processes : RemoveTree(p)
  BY <1>3, RemoveTreeHolds, RemovedIsOld
<1>4. CASE \E p \in Processes : \/ Start(p) \/ LookAtEntry(p) \/ EndOfPrune(p) \/ CreateRunDir(p)
                               \/ PlanClonePath(p) \/ GitCloneLocal(p)
  BY <1>4, StartHolds, LookAtEntryHolds, EndOfPruneHolds, CreateRunDirHolds, PlanClonePathHolds,
     GitCloneLocalHolds, ClonesKeptAreYoung
<1>5. CASE \E p \in Processes : \/ FetchSource(p) \/ RewriteOrigin(p) \/ FetchUpstream(p)
                               \/ CheckoutRef(p) \/ Work(p) \/ EndOfSuite(p)
  BY <1>5, FetchSourceHolds, RewriteOriginHolds, FetchUpstreamHolds, CheckoutRefHolds, WorkHolds,
     EndOfSuiteHolds, ClonesKeptAreYoung
<1>6. CASE Finished \/ UNCHANGED vars
  BY <1>6, StutterHolds, ClonesKeptAreYoung DEF Finished
<1>7. QED BY <1>1, <1>2, <1>3, <1>4, <1>5, <1>6 DEF Next

(* Where a run with a clone of its own is after a step it was before, unless *)
(* it has just cloned.                                                       *)
LEMMA ClonesAreMade ==
  ASSUME Inv, ReviewInv, [Next]_vars, NEW q \in Processes, Cloned(q)'
  PROVE  /\ args' = args /\ now' \in {now, now + 1}
         /\ (Cloned(q) /\ dir'[q] = dir[q]) \/ IsClone(dir[q])'
<1>1. CASE Tick \/ \E b \in Branches : CommitInSource(b) \/ PushToUpstream(b) \/ DeleteUpstream(b)
  BY <1>1 DEF Tick, CommitInSource, PushToUpstream, DeleteUpstream, processes, Cloned
<1>2. CASE Finished \/ UNCHANGED vars
  BY <1>2 DEF Finished, vars, processes, Cloned
<1>3. ASSUME NEW p \in Processes,
             \/ Start(p) \/ LookAtEntry(p) \/ RemoveTree(p) \/ EndOfPrune(p)
             \/ CreateRunDir(p) \/ PlanClonePath(p) \/ GitCloneLocal(p) \/ FetchSource(p)
             \/ RewriteOrigin(p) \/ FetchUpstream(p) \/ CheckoutRef(p)
             \/ Work(p) \/ EndOfSuite(p)
      PROVE  /\ args' = args /\ now' = now
             /\ (Cloned(q) /\ dir'[q] = dir[q]) \/ IsClone(dir[q])'
  <2>1. args' = args /\ now' = now
    BY <1>3 DEF Start, LookAtEntry, RemoveTree, EndOfPrune, CreateRunDir, PlanClonePath,
                GitCloneLocal, FetchSource, RewriteOrigin, FetchUpstream, CheckoutRef, Work,
                EndOfSuite, processes
  <2>2. CASE q # p
    <3>1. pc'[q] = pc[q] /\ dir'[q] = dir[q]
      BY <1>3, <2>2 DEF Start, LookAtEntry, RemoveTree, EndOfPrune, CreateRunDir, PlanClonePath,
                  GitCloneLocal, FetchSource, RewriteOrigin, FetchUpstream, CheckoutRef, Work,
                  EndOfSuite, processes, Goto, Leave, Inv, ProcessOK
    <3>2. QED BY <2>1, <3>1 DEF Cloned
  <2>3. CASE q = p
    <3>1. CASE Start(p) \/ LookAtEntry(p) \/ RemoveTree(p) \/ EndOfPrune(p) \/ PlanClonePath(p)
      <4>1. pc'[p] \in {"prune", "failed", "rmtree", "mkdir", "plan", "clone"}
        BY <3>1 DEF Start, LookAtEntry, RemoveTree, EndOfPrune, PlanClonePath, Goto, Inv, ProcessOK
      <4>2. QED BY <2>3, <4>1 DEF Cloned
    <3>2. CASE CreateRunDir(p)
      <4>1. pc[p] = "mkdir" /\ pc'[p] = "suite"
        BY <3>2 DEF CreateRunDir, Goto, Inv, ProcessOK
      <4>2. args[p].in_place
        BY <4>1 DEF ReviewInv, WorldInv
      <4>3. QED BY <2>1, <2>3, <4>1, <4>2 DEF Cloned
    <3>3. CASE GitCloneLocal(p)
      <4>1. CASE Leave(p, "failed")
        <5>1. pc'[p] = "failed"
          BY <4>1 DEF Leave, Goto, Inv, ProcessOK
        <5>2. QED BY <2>3, <5>1 DEF Cloned
      <4>2. CASE PutDir(dir[p], "clone") /\ UNCHANGED dir
        BY <2>1, <2>3, <4>2 DEF PutDir, IsClone, Exists
      <4>3. QED BY <2>1, <3>3, <4>1, <4>2 DEF GitCloneLocal
    <3>4. CASE FetchSource(p) \/ RewriteOrigin(p) \/ FetchUpstream(p)
      BY <2>1, <2>3, <3>4 DEF FetchSource, RewriteOrigin, FetchUpstream, Cloned
    <3>5. CASE CheckoutRef(p)
      <4>1. CASE Leave(p, "failed")
        <5>1. pc'[p] = "failed"
          BY <4>1 DEF Leave, Goto, Inv, ProcessOK
        <5>2. QED BY <2>3, <5>1 DEF Cloned
      <4>2. CASE UNCHANGED dir
        BY <2>1, <2>3, <3>5, <4>2 DEF CheckoutRef, Cloned
      <4>3. QED BY <2>1, <3>5, <4>1, <4>2 DEF CheckoutRef
    <3>6. CASE Work(p)
      BY <2>1, <2>3, <3>6 DEF Work, processes, Cloned
    <3>7. CASE EndOfSuite(p)
      <4>1. pc'[p] = "ended"
        BY <3>7 DEF EndOfSuite, Leave, Goto, Inv, ProcessOK
      <4>2. QED BY <2>3, <4>1 DEF Cloned
    <3>8. QED BY <1>3, <3>1, <3>2, <3>3, <3>4, <3>5, <3>6, <3>7
  <2>4. QED BY <2>1, <2>2, <2>3
<1>4. QED BY <1>1, <1>2, <1>3 DEF Next

YoungOf(p) == Cloned(p) /\ ~args[p].in_place /\ now - dir[p] <= MaxAge => IsClone(dir[p])

LEMMA YoungSteps ==
  ASSUME Inv, ReviewInv, [Next]_vars, NEW q \in Processes, YoungOf(q)
  PROVE  YoungOf(q)'
<1> SUFFICES ASSUME Cloned(q)', ~args'[q].in_place, now' - dir'[q] <= MaxAge
             PROVE  IsClone(dir[q])'
  BY DEF YoungOf
<1>1. args' = args /\ now' \in {now, now + 1}
  BY ClonesAreMade
<1>2. CASE Cloned(q) /\ dir'[q] = dir[q]
  <2>1. dir[q] \in Names /\ dir[q] \in Nat /\ now \in Nat /\ MaxAge \in Nat
    BY <1>2, Numbers DEF Cloned, Inv, ProcessOK, PlaceOK, InDir
  <2>2. now - dir[q] <= MaxAge
    BY <1>1, <1>2, <2>1
  <2>3. IsClone(dir[q])
    BY <1>1, <1>2, <2>2 DEF YoungOf
  <2>4. IsClone(dir[q])'
    <3>1. YoungKept
      BY StepHolds
    <3>2. QED BY <1>2, <2>1, <2>2, <2>3, <3>1 DEF YoungKept, IsClone, Exists
  <2>5. QED BY <2>4
<1>3. QED BY <1>2, ClonesAreMade

Young == \A p \in Processes : YoungOf(p)

LEMMA YoungIsKept == Young <=> YoungRunsAreKept
BY DEF Young, YoungOf, Cloned, YoungRunsAreKept

LEMMA InvHolds == Spec => []Inv
<1>1. Inv /\ [Next]_vars => Inv'
  BY StepHolds
<1>2. QED BY <1>1, InitHolds, PTL DEF Spec

LEMMA ReviewInvHolds == Spec => []ReviewInv
<1>1. QED BY InvHolds, InitReviews, ReviewSteps, PTL DEF Spec

(* Every variable keeps to its type, for any number of processes and command  *)
(* lines.                                                                     *)
THEOREM TypesHold == Spec => []TypeOK
<1>1. ReviewInv => removed \subseteq Names
  BY DEF ReviewInv, WorldInv
<1>2. QED BY <1>1, InvHolds, ReviewInvHolds, InvTypes, PTL

(* A run in a clone reviews the commit it was asked for, or what the failures *)
(* of git leave of it, whatever people and any number of other runs do in     *)
(* between, as long as no pruner removed the clone.                           *)
THEOREM ReviewsAreOfUpstream == Spec => []ReviewIsOfUpstream
<1>1. QED BY ReviewInvHolds, ReviewInvReviews, PTL

(* A run has its clone, whole, until MaxAge after it was planned, whatever    *)
(* any number of other runs that prune, plan and clone do at the same time.   *)
THEOREM YoungRunsKeepTheirClones == Spec => []YoungRunsAreKept
<1>1. Init => Young
  BY DEF Init, Young, YoungOf, Cloned
<1>2. Inv /\ ReviewInv /\ [Next]_vars /\ Young => Young'
  <2>1. SUFFICES ASSUME Inv, ReviewInv, [Next]_vars, Young, NEW q \in Processes
                 PROVE  YoungOf(q)'
    BY DEF Young
  <2>2. QED BY <2>1, YoungSteps DEF Young
<1>3. QED BY <1>1, <1>2, InvHolds, ReviewInvHolds, YoungIsKept, PTL DEF Spec
===============================================================================
