------------------------------ MODULE RunStorage ------------------------------
(***************************************************************************)
(* The directories of runs (run_storage.py) and the clones in them         *)
(* (clone.py): several checkloop processes prune old runs, reserve a       *)
(* directory each, clone the source repository, fetch from its upstream    *)
(* and check out what is to be reviewed, while people go on committing,    *)
(* pushing and deleting branches.  Any git or file operation may fail.     *)
(*                                                                         *)
(* All runs are of one source repository.  A directory is named by the     *)
(* clock when it is planned, so the tick of the clock is the second of the *)
(* timestamp in the name; commits are numbers, and 0 is no commit.         *)
(***************************************************************************)
EXTENDS Naturals

CONSTANTS
  Processes,       (* the checkloop processes                               *)
  Launches,        (* their command lines:                                  *)
                   (* [in_place, dir, review, fetch_upstream]               *)
  Branches,
  FirstTips,       (* the branch tips of the source, at first               *)
  Pushed,          (* the sets of branches upstream can have, at first      *)
  LastCommit,      (* the last commit among them                            *)
  HasRemoteUrl,    (* the source's origin is a URL, not a path              *)
  MaxAge,          (* _DEFAULT_MAX_AGE_DAYS                                 *)
  MaxTime,         (* bound on the clock                                    *)
  MaxEdits,        (* bound on what people do to the repositories           *)
  Source, NoDir    (* the source repository as a directory; none            *)

Times == 0..MaxTime
Names == Times
NoRef == [branch |-> NoDir, remote |-> FALSE]

ASSUME RunStorageAssumption ==
  /\ LastCommit \in Nat /\ FirstTips \in [Branches -> 1..LastCommit]
  /\ Pushed \subseteq SUBSET Branches
  /\ Launches \subseteq
       [Processes -> [in_place : BOOLEAN, dir : Names \union {Source}, fetch_upstream : BOOLEAN,
                      review : [branch : Branches, remote : BOOLEAN] \union {NoRef}]]
  /\ \A l \in Launches : \A p \in Processes : ~l[p].in_place => l[p].dir = Source
  /\ HasRemoteUrl \in BOOLEAN
  /\ MaxAge \in Nat \ {0} /\ MaxEdits \in Nat
  /\ MaxTime \in Nat /\ MaxAge < MaxTime   (* there is something to prune *)
  /\ NoDir \notin Names /\ NoDir \notin Branches /\ Source \notin Names

VARIABLES
  now,
  source,      (* the user's repository: checked out branch, branch tips    *)
  upstream,    (* the branch tips of its remote                             *)
  edits,       (* changes people made so far; the last commit they made     *)
  dirs,        (* the run directories: when last changed, and what is there *)
  clone,       (* the repository in a directory                             *)
  pc, args, dir,
  cutoff,      (* prune_old_runs: older directories go                      *)
  listed,      (* ... those it has yet to look at                           *)
  target,      (* ... the one it is about to remove                         *)
  removed,     (* the directories a pruner has removed (history)            *)
  seen         (* the tips a clone was given, by origin, and whether the    *)
               (* branch was overlooked there (history)                     *)

repositories == <<source, upstream, edits>>
storage      == <<dirs, clone, removed>>
processes    == <<pc, args, dir, cutoff, listed, target, seen>>
vars         == <<now, repositories, storage, processes>>

NoTips  == [b \in Branches |-> 0]
NoClone == [origin |-> NoTips, branch |-> NoDir, tip |-> 0, url |-> "source", head |-> 0]

NothingSeen == [source |-> NoTips, upstream |-> NoTips, fetched |-> FALSE, overlooked |-> FALSE]

Init ==
  /\ now = MaxAge + 1
  /\ \E head \in Branches, pushed \in Pushed :
       /\ source = [head |-> head, tips |-> FirstTips]
       /\ upstream = [b \in Branches |-> IF b \in pushed THEN FirstTips[b] ELSE 0]
  /\ edits = [count |-> 0, last |-> LastCommit]
  /\ \E old \in {{}, {0}} : dirs = [d \in old |-> [mtime |-> 0, state |-> "clone"]]
  /\ removed = {}
  /\ clone = [d \in Names |-> NoClone]
  /\ pc = [p \in Processes |-> "idle"]
  /\ args \in Launches
  /\ dir = [p \in Processes |-> NoDir]
  /\ cutoff = [p \in Processes |-> 0]
  /\ listed = [p \in Processes |-> {}]
  /\ target = [p \in Processes |-> NoDir]
  /\ seen = [p \in Processes |-> NothingSeen]

Goto(p, l)  == pc' = [pc EXCEPT ![p] = l]
Leave(p, l) == Goto(p, l) /\ dir' = [dir EXCEPT ![p] = NoDir]
                         /\ seen' = [seen EXCEPT ![p] = NothingSeen]
Exists(d)   == d \in DOMAIN dirs
IsClone(d)  == Exists(d) /\ dirs[d].state = "clone"

(* A directory is made, changed or recreated by a run. *)
PutDir(d, state) ==
  dirs' = [e \in DOMAIN dirs \union {d} |->
             IF e = d THEN [mtime |-> now, state |-> state] ELSE dirs[e]]

-----------------------------------------------------------------------------
(* People *)

Tick ==
  /\ now < MaxTime
  /\ now' = now + 1
  /\ UNCHANGED <<repositories, storage, processes>>

Edit == edits.count < MaxEdits

CommitInSource(b) ==
  /\ Edit
  /\ edits' = [count |-> edits.count + 1, last |-> edits.last + 1]
  /\ source' = [source EXCEPT !.tips[b] = edits.last + 1]
  /\ UNCHANGED <<now, upstream, storage, processes>>

PushToUpstream(b) ==
  /\ Edit
  /\ edits' = [count |-> edits.count + 1, last |-> edits.last + 1]
  /\ upstream' = [upstream EXCEPT ![b] = edits.last + 1]
  /\ UNCHANGED <<now, source, storage, processes>>

DeleteUpstream(b) ==
  /\ Edit /\ upstream[b] # 0
  /\ edits' = [edits EXCEPT !.count = @ + 1]
  /\ upstream' = [upstream EXCEPT ![b] = 0]
  /\ UNCHANGED <<now, source, storage, processes>>

-----------------------------------------------------------------------------
(* The start of a process: validation, then prune_old_runs *)

(* resolve_working_directory and validate_arguments. *)
Valid(a) ==
  /\ a.dir = Source \/ Exists(a.dir)
  /\ a.in_place <=> a.review = NoRef

Start(p) ==
  /\ pc[p] = "idle"
  /\ IF Valid(args[p])
     THEN /\ cutoff' = [cutoff EXCEPT ![p] = now - MaxAge]
          /\ listed' = [listed EXCEPT ![p] = DOMAIN dirs]
          /\ Goto(p, "prune")
     ELSE Goto(p, "failed") /\ UNCHANGED <<cutoff, listed>>
  /\ UNCHANGED <<now, repositories, storage, args, dir, target, seen>>

(* Variation: a directory that is just old enough goes as well. *)
LookAtEntryInclusive(p) ==
  /\ pc[p] = "prune"
  /\ \E d \in listed[p] :
       /\ listed' = [listed EXCEPT ![p] = @ \ {d}]
       /\ IF Exists(d) /\ dirs[d].mtime <= cutoff[p]
          THEN target' = [target EXCEPT ![p] = d] /\ Goto(p, "rmtree")
          ELSE UNCHANGED <<pc, target>>
  /\ UNCHANGED <<now, repositories, storage, args, dir, cutoff, seen>>

(* The next entry: one that is gone or young enough is left alone. *)
LookAtEntry(p) ==
  /\ pc[p] = "prune"
  /\ \E d \in listed[p] :
       /\ listed' = [listed EXCEPT ![p] = @ \ {d}]
       /\ IF Exists(d) /\ dirs[d].mtime < cutoff[p]
          THEN target' = [target EXCEPT ![p] = d] /\ Goto(p, "rmtree")
          ELSE UNCHANGED <<pc, target>>
  /\ UNCHANGED <<now, repositories, storage, args, dir, cutoff, seen>>

(* rmtree removes a directory, or fails on the way: what is left of it has   *)
(* just changed.  Errors are swallowed.                                      *)
RemoveTree(p) ==
  /\ pc[p] = "rmtree"
  /\ LET d == target[p] IN
     \/ /\ dirs' = [e \in DOMAIN dirs \ {d} |-> dirs[e]]
        /\ removed' = removed \union {d}
     \/ /\ Exists(d) /\ dirs' = [dirs EXCEPT ![d] = [mtime |-> now, state |-> "damaged"]]
        /\ UNCHANGED removed
     \/ UNCHANGED <<dirs, removed>>
  /\ target' = [target EXCEPT ![p] = NoDir]
  /\ Goto(p, "prune")
  /\ UNCHANGED <<now, repositories, clone, args, dir, cutoff, listed, seen>>

EndOfPrune(p) ==
  /\ pc[p] = "prune" /\ listed[p] = {}
  /\ cutoff' = [cutoff EXCEPT ![p] = 0]
  /\ Goto(p, IF args[p].in_place THEN "mkdir" ELSE "plan")
  /\ UNCHANGED <<now, repositories, storage, args, dir, listed, target, seen>>

-----------------------------------------------------------------------------
(* Run directories and clones *)

(* Variation: no directory is returned when none can be made. *)
CreateRunDirOrNone(p) ==
  /\ pc[p] = "mkdir"
  /\ \/ ~Exists(now) /\ PutDir(now, "empty") /\ dir' = [dir EXCEPT ![p] = now]
     \/ UNCHANGED <<dirs, dir>>
  /\ Goto(p, "suite")
  /\ UNCHANGED <<now, repositories, clone, removed, args, cutoff, listed, target, seen>>

(* create_run_dir: a directory that exists will do, and a failure as well. *)
CreateRunDir(p) ==
  /\ pc[p] = "mkdir"
  /\ dir' = [dir EXCEPT ![p] = now]
  /\ \/ ~Exists(now) /\ PutDir(now, "empty")
     \/ UNCHANGED dirs
  /\ Goto(p, "suite")
  /\ UNCHANGED <<now, repositories, clone, removed, args, cutoff, listed, target, seen>>

(* _ensure_runs_root, _plan_clone_path, and the test that nothing is there. *)
PlanClonePath(p) ==
  /\ pc[p] = "plan"
  /\ \/ ~Exists(now) /\ Goto(p, "clone") /\ dir' = [dir EXCEPT ![p] = now]
     \/ Goto(p, "failed") /\ UNCHANGED dir
  /\ UNCHANGED <<now, repositories, storage, args, cutoff, listed, target, seen>>

(* git clone: the local branches of the source become origin's branches, and *)
(* the one checked out there becomes the only local branch.  git refuses a   *)
(* directory that is not empty, and removes its own when it fails.           *)
GitCloneLocal(p) ==
  /\ pc[p] = "clone"
  /\ \/ /\ Exists(dir[p]) => dirs[dir[p]].state = "empty"
        /\ PutDir(dir[p], "clone") /\ UNCHANGED removed
        /\ clone' = [clone EXCEPT ![dir[p]] =
                       [origin |-> source.tips, branch |-> source.head,
                        tip |-> source.tips[source.head], url |-> "source",
                        head |-> source.tips[source.head]]]
        /\ seen' = [seen EXCEPT ![p].source = source.tips]
        /\ Goto(p, "fetch")
        /\ UNCHANGED dir
     \/ Leave(p, "failed") /\ UNCHANGED storage
  /\ UNCHANGED <<now, repositories, args, cutoff, listed, target>>

(* _fetch_origin from the repository origin names, with --prune; it may fail, *)
(* and does when the clone is gone.                                          *)
FetchOrigin(p) ==
  LET d    == dir[p]
      tips == IF clone[d].url = "source" THEN source.tips ELSE upstream
  IN \/ /\ IsClone(d)
        /\ clone' = [clone EXCEPT ![d].origin = tips]
        /\ seen' = IF clone[d].url = "source" THEN [seen EXCEPT ![p].source = tips]
                   ELSE [seen EXCEPT ![p].upstream = tips, ![p].fetched = TRUE]
     \/ UNCHANGED <<clone, seen>>

FetchSource(p) ==
  /\ pc[p] = "fetch"
  /\ FetchOrigin(p)
  /\ Goto(p, "rewrite")
  /\ UNCHANGED <<now, repositories, dirs, removed, args, dir, cutoff, listed, target>>

(* _rewrite_origin_to_source_remote *)
RewriteOrigin(p) ==
  /\ pc[p] = "rewrite"
  /\ \/ /\ HasRemoteUrl /\ IsClone(dir[p])
        /\ clone' = [clone EXCEPT ![dir[p]].url = "upstream"]
        /\ Goto(p, IF args[p].fetch_upstream THEN "fetch2" ELSE "resolve")
     \/ Goto(p, "resolve") /\ UNCHANGED clone
  /\ UNCHANGED <<now, repositories, dirs, removed, args, dir, cutoff, listed, target,
                 seen>>

FetchUpstream(p) ==
  /\ pc[p] = "fetch2"
  /\ FetchOrigin(p)
  /\ Goto(p, "resolve")
  /\ UNCHANGED <<now, repositories, dirs, removed, args, dir, cutoff, listed, target>>

LocalTip(c, branch) == IF c.branch = branch THEN c.tip ELSE 0

(* Variation: a local branch is preferred. *)
ResolveLocalFirst(c, ref, overlooked) ==
  IF LocalTip(c, ref.branch) # 0 THEN LocalTip(c, ref.branch) ELSE c.origin[ref.branch]

(* _resolve_review_ref: origin's branch, else a local one, else none (0).  A *)
(* rev-parse that fails overlooks a branch that origin has.                  *)
ResolveReviewRef(c, ref, overlooked) ==
  IF ref.remote \/ (c.origin[ref.branch] # 0 /\ ~overlooked)
  THEN c.origin[ref.branch] ELSE LocalTip(c, ref.branch)

(* _checkout_ref.  A clone that fails, here or because no ref was found, is  *)
(* left behind.                                                              *)
CheckoutRef(p) ==
  /\ pc[p] = "resolve"
  /\ \/ \E overlooked \in BOOLEAN :
          LET d == dir[p]  commit == ResolveReviewRef(clone[d], args[p].review, overlooked) IN
          /\ IsClone(d) /\ commit # 0
          /\ clone' = [clone EXCEPT ![d].head = commit]
          /\ PutDir(d, "clone") /\ UNCHANGED <<removed, dir>>
          /\ seen' = [seen EXCEPT ![p].overlooked = overlooked]
          /\ Goto(p, "suite")
     \/ Leave(p, "failed") /\ UNCHANGED storage
  /\ UNCHANGED <<now, repositories, args, cutoff, listed, target>>

(* The suite writes logs below its directory, and makes it again if need be; *)
(* what the checks do may change the directory itself or not.  A run that is *)
(* in place in another run's directory changes that one, if it is there.     *)
Work(p) ==
  /\ pc[p] = "suite"
  /\ \/ PutDir(dir[p], IF IsClone(dir[p]) THEN "clone" ELSE "run")
     \/ args[p].in_place /\ Exists(args[p].dir) /\ PutDir(args[p].dir, dirs[args[p].dir].state)
     \/ UNCHANGED dirs
  /\ UNCHANGED <<now, repositories, clone, removed, processes>>

EndOfSuite(p) ==
  /\ pc[p] = "suite"
  /\ Leave(p, "ended")
  /\ UNCHANGED <<now, repositories, storage, args, cutoff, listed, target>>

Finished ==
  /\ \A p \in Processes : pc[p] \in {"ended", "failed"}
  /\ UNCHANGED vars

Next ==
  \/ Tick
  \/ \E b \in Branches : CommitInSource(b) \/ PushToUpstream(b) \/ DeleteUpstream(b)
  \/ \E p \in Processes :
       \/ Start(p) \/ LookAtEntry(p) \/ RemoveTree(p) \/ EndOfPrune(p)
       \/ CreateRunDir(p) \/ PlanClonePath(p) \/ GitCloneLocal(p) \/ FetchSource(p)
       \/ RewriteOrigin(p) \/ FetchUpstream(p) \/ CheckoutRef(p)
       \/ Work(p) \/ EndOfSuite(p)
  \/ Finished

Spec == Init /\ [][Next]_vars
-----------------------------------------------------------------------------
(* Properties *)

Commits == 0..(LastCommit + MaxEdits)
Tips    == [Branches -> Commits]

(* Every variable keeps to its type, and a process that is past the planning *)
(* has a directory.                                                          *)
TypeOK ==
  /\ now \in Times
  /\ source \in [head : Branches, tips : Tips] /\ upstream \in Tips
  /\ edits \in [count : 0..MaxEdits, last : Commits]
  /\ DOMAIN dirs \subseteq Names
  /\ \A d \in DOMAIN dirs :
       dirs[d] \in [mtime : Times, state : {"empty", "run", "clone", "damaged"}]
  /\ clone \in [Names -> [origin : Tips, branch : Branches \union {NoDir}, tip : Commits,
                          url : {"source", "upstream"}, head : Commits]]
  /\ removed \subseteq Names
  /\ pc \in [Processes -> {"idle", "prune", "rmtree", "mkdir", "plan", "clone", "fetch", "rewrite",
                           "fetch2", "resolve", "suite", "ended", "failed"}]
  /\ args \in Launches
  /\ dir \in [Processes -> Names \union {NoDir}]
  /\ cutoff \in [Processes -> Times]
  /\ listed \in [Processes -> SUBSET Names]
  /\ target \in [Processes -> Names \union {NoDir}]
  /\ \A p \in Processes :
       /\ pc[p] = "rmtree" <=> target[p] # NoDir
       /\ pc[p] \in {"clone", "fetch", "rewrite", "fetch2", "resolve", "suite"} => dir[p] # NoDir

(* From the moment it is cloned until MaxAge after it was planned a run has  *)
(* its clone, whole: no other process removes or damages it (prune_old_runs),*)
(* neither one that made its list, or looked, long ago nor one that ended up *)
(* with the same directory.  (An older run can lose it under its feet when   *)
(* nothing changes the directory itself for MaxAge, and a directory given    *)
(* with --dir has no such protection: the run that is given it may prune it.)*)
YoungRunsAreKept ==
  \A p \in Processes :
    /\ pc[p] \in {"fetch", "rewrite", "fetch2", "resolve", "suite"} /\ ~args[p].in_place
    /\ now - dir[p] <= MaxAge
    => IsClone(dir[p])

(* A run in a clone starts from what it was asked to review: the commit that *)
(* upstream had for the branch if it could be asked, has the branch and git  *)
(* did not fail to look it up in the clone; otherwise that of the source     *)
(* repository, as it was when it was fetched, or, when origin is upstream by *)
(* then or git failed, as it was when it was cloned, which only the branch   *)
(* checked out there can be.  No other run changes it, unless a pruner       *)
(* removed the clone: then a run that planned the same directory may still   *)
(* clone into it.                                                            *)
ReviewIsOfUpstream ==
  \A p \in Processes :
    LET ref == args[p].review  branch == ref.branch  c == clone[dir[p]]
        inOrigin == ref.remote \/ ~seen[p].overlooked
    IN
    pc[p] = "suite" /\ ~args[p].in_place /\ IsClone(dir[p]) /\ dir[p] \notin removed =>
      CASE inOrigin /\ ~seen[p].fetched /\ seen[p].source[branch] # 0 ->
             c.head = seen[p].source[branch]
        [] inOrigin /\ seen[p].fetched /\ seen[p].upstream[branch] # 0 ->
             c.head = seen[p].upstream[branch]
        [] OTHER -> ~ref.remote /\ c.head = c.tip /\ c.branch = branch
=============================================================================
