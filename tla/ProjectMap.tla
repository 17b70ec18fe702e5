------------------------------ MODULE ProjectMap ------------------------------
(***************************************************************************)
(* The project map (project_map.py): an overview of the tracked files that *)
(* Claude writes, cached in a file under a fingerprint of those files, and *)
(* handed to every check.  ensure_project_map runs before each check; the  *)
(* checks and people change the tracked files, at any moment; Claude, git  *)
(* and the file system may fail, and the program may be killed between any *)
(* two steps, also while it writes the file.  A file cut in the middle of  *)
(* a character cannot be decoded, and nothing catches that: the session    *)
(* ends with the exception.                                                *)
(*                                                                         *)
(* A tree is the set of tracked files, and its own fingerprint.            *)
(***************************************************************************)
EXTENDS Naturals

CONSTANTS
  Trees,       (* what git ls-files can list                                *)
  NoFiles,     (* ... when nothing is tracked                               *)
  NoTree,
  MaxEdits     (* bound on the changes of people                            *)

ASSUME ProjectMapAssumption ==
  NoFiles \in Trees /\ NoTree \notin Trees /\ MaxEdits \in Nat

VARIABLES
  tree,      (* the tracked files                                           *)
  file,      (* the map file                                                *)
  pc,        (* "idle", "read", "list", "ask", "open", "write" or "check"   *)
  fp,        (* current_fp, and with it the tree when the call began        *)
  cached,    (* cached_fp and cached_body                                   *)
  listed,    (* the tree the prompt is made from                            *)
  given,     (* the map handed to the check, and how it was come by         *)
  edits,     (* changes of people so far                                    *)
  before,    (* the file when the call began (history)                      *)
  moved,     (* the tree changed between fingerprint and list (history)     *)
  unread     (* the file could not be read (history)                        *)

vars == <<tree, file, pc, fp, cached, listed, given, edits, before, moved, unread>>

(* A map: the tree it describes, and how much of it there is: nothing after  *)
(* the fingerprint line, half of its text, half of it and of a character, or *)
(* all.  A file that is missing, or has no fingerprint line, is no map.      *)
Parts == {"header", "half", "torn", "whole"}
NoMap == [fp |-> NoTree, of |-> NoTree, part |-> "none", moved |-> FALSE]
Nothing == [map |-> NoMap, how |-> "none"]

Init ==
  /\ tree \in Trees
  /\ file = NoMap
  /\ pc = "idle" /\ fp = NoTree /\ cached = NoMap /\ listed = NoTree
  /\ given = Nothing
  /\ edits = 0 /\ before = NoMap /\ moved = FALSE /\ unread = FALSE

(* The call is over, with the check it was for or with the whole session.    *)
CallOver ==
  /\ pc' = "idle"
  /\ fp' = NoTree /\ cached' = NoMap /\ listed' = NoTree /\ given' = Nothing
  /\ before' = NoMap /\ moved' = FALSE /\ unread' = FALSE

Give(map, how) == given' = [map |-> map, how |-> how] /\ pc' = "check"

-----------------------------------------------------------------------------
(* ensure_project_map *)

(* _compute_file_tree_fingerprint: without one there is no map. *)
ComputeFingerprint ==
  /\ pc = "idle"
  /\ before' = file
  /\ \/ fp' = tree /\ pc' = "read" /\ UNCHANGED given
     \/ Give(NoMap, "failed") /\ UNCHANGED fp
  /\ moved' = FALSE /\ unread' = FALSE
  /\ UNCHANGED <<tree, file, cached, listed, edits>>

(* The file is read, and its map handed out if it is current.  A map of      *)
(* which only the fingerprint is there has no body.                          *)
ReadFile ==
  /\ file.part # "torn"
  /\ cached' = file
  /\ IF file.fp = fp /\ file.part # "header"
     THEN Give(file, "cached")
     ELSE pc' = "list" /\ UNCHANGED given
  /\ UNCHANGED <<fp, listed, before, moved, unread>>

(* An OSError: a file that is there passes for one that is not. *)
ReadFails ==
  /\ file # NoMap
  /\ unread' = TRUE /\ pc' = "list"
  /\ UNCHANGED <<fp, cached, listed, given, before, moved>>

(* A UnicodeDecodeError is not an OSError: it ends the session. *)
ReadRaises == file.part = "torn" /\ CallOver

(* _read_cached_map. *)
ReadCachedMap ==
  /\ pc = "read"
  /\ ReadFile \/ ReadFails \/ ReadRaises
  /\ UNCHANGED <<tree, file, edits>>

(* Generation failed: a stale map is better than none. *)
FallBack == Give(IF cached.part = "header" THEN NoMap ELSE cached, "failed")

(* Variation: a project without files is described as well. *)
ListAnything ==
  /\ pc = "list"
  /\ \/ listed' = tree /\ pc' = "ask" /\ UNCHANGED given
     \/ FallBack /\ UNCHANGED listed
  /\ UNCHANGED <<tree, file, fp, cached, edits, before, moved, unread>>

(* _generate_map lists the files a second time. *)
ListFiles ==
  /\ pc = "list"
  /\ \/ tree # NoFiles /\ listed' = tree /\ pc' = "ask" /\ UNCHANGED given
     \/ FallBack /\ UNCHANGED listed
  /\ UNCHANGED <<tree, file, fp, cached, edits, before, moved, unread>>

(* Claude answers, or fails, or takes too long. *)
AskClaude ==
  /\ pc = "ask"
  /\ \/ pc' = "open" /\ UNCHANGED given
     \/ FallBack
  /\ UNCHANGED <<tree, file, fp, cached, listed, edits, before, moved, unread>>

Answer(part) == [fp |-> fp, of |-> listed, part |-> part, moved |-> moved]

(* _save_map empties the file, or cannot open it. *)
OpenForWriting ==
  /\ pc = "open"
  /\ \/ file' = NoMap /\ pc' = "write" /\ UNCHANGED given
     \/ Give(Answer("whole"), "generated") /\ UNCHANGED file
  /\ UNCHANGED <<tree, fp, cached, listed, edits, before, moved, unread>>

(* Variation: the fingerprint of the map is taken when it is saved. *)
WriteUnderNewFingerprint ==
  /\ pc = "write"
  /\ file' = [Answer("whole") EXCEPT !.fp = tree]
  /\ Give(Answer("whole"), "generated")
  /\ UNCHANGED <<tree, fp, cached, listed, edits, before, moved, unread>>

(* The map is written under the fingerprint the call began with.  When the   *)
(* disk is full the file keeps what was written; the check gets the map.     *)
WriteMap ==
  /\ pc = "write"
  /\ \/ file' = NoMap
     \/ \E part \in Parts : file' = Answer(part)
  /\ Give(Answer("whole"), "generated")
  /\ UNCHANGED <<tree, fp, cached, listed, edits, before, moved, unread>>

(* The check is run with the map it was given and commits what it likes. *)
RunCheck ==
  /\ pc = "check"
  /\ tree' \in Trees
  /\ CallOver
  /\ UNCHANGED <<file, edits>>

-----------------------------------------------------------------------------
(* The environment *)

(* Somebody adds or removes files. *)
EditTree ==
  /\ edits < MaxEdits
  /\ edits' = edits + 1
  /\ tree' \in Trees \ {tree}
  /\ moved' = (moved \/ pc \in {"read", "list"})
  /\ UNCHANGED <<file, pc, fp, cached, listed, given, before, unread>>

(* The program is killed, or ends with an exception that nothing catches, as *)
(* for an answer of Claude that cannot be decoded; what has reached the file *)
(* stays.  A new session begins.                                             *)
Kill ==
  /\ pc # "idle"
  /\ \/ UNCHANGED file
     \/ pc = "write" /\ \E part \in Parts : file' = Answer(part)
  /\ CallOver
  /\ UNCHANGED <<tree, edits>>

Next ==
  \/ ComputeFingerprint \/ ReadCachedMap \/ ListFiles \/ AskClaude
  \/ OpenForWriting \/ WriteMap \/ RunCheck
  \/ EditTree \/ Kill

Spec == Init /\ [][Next]_vars
-----------------------------------------------------------------------------
(* Properties *)

Maps == [fp : Trees, of : Trees \ {NoFiles}, part : Parts, moved : BOOLEAN]
        \union {NoMap}

(* Every variable keeps to its type: no map describes a project that has no  *)
(* files.                                                                    *)
TypeOK ==
  /\ tree \in Trees
  /\ file \in Maps /\ cached \in Maps /\ before \in Maps
  /\ pc \in {"idle", "read", "list", "ask", "open", "write", "check"}
  /\ fp \in Trees \union {NoTree}
  /\ listed \in Trees \union {NoTree}
  /\ given \in [map : Maps, how : {"none", "cached", "generated", "failed"}]
  /\ edits \in 0..MaxEdits
  /\ moved \in BOOLEAN /\ unread \in BOOLEAN

(* What a check gets describes the files it starts from: a map that is taken *)
(* for current was made from the tree that has its fingerprint, whatever     *)
(* happened to the tree while Claude wrote it, unless files changed in the   *)
(* moment between the fingerprint and the list.  It need not be all of that  *)
(* map: a write that was cut short leaves a fingerprint that vouches for the *)
(* half below it.  A new map comes whole.  When none could be made the file  *)
(* still holds what it held, and the check gets that if the file could be    *)
(* read and has a text, else none.  No check starts from a file that cannot  *)
(* be decoded, unless it could not even be read.                             *)
MapFitsTree ==
  pc = "check" =>
    /\ given.how = "cached" =>
         /\ given.map.fp = fp
         /\ given.map.of = fp \/ given.map.moved
    /\ given.how = "generated" =>
         given.map.part = "whole" /\ given.map.of = listed /\ (listed = fp \/ moved)
    /\ given.how = "failed" =>
         /\ file = before
         /\ given.map = IF fp = NoTree \/ unread \/ before.part = "header"
                        THEN NoMap ELSE before
    /\ before.part = "torn" => fp = NoTree \/ unread
=============================================================================
