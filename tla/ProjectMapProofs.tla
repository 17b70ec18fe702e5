--------------------------- MODULE ProjectMapProofs ---------------------------
(***************************************************************************)
(* Proofs about ProjectMap.  What a check gets is right because of what is *)
(* known of the call at each of its lines (CallInv): the file is as it was *)
(* until it is opened, what was read from it is what is in it unless       *)
(* reading failed, and the tree that was listed is the one of the          *)
(* fingerprint unless somebody came in between.  Every map that is stored  *)
(* was made that way (Honest).                                             *)
(***************************************************************************)
EXTENDS ProjectMap, TLAPS

Honest(map) == map.part # "none" => map.of = map.fp \/ map.moved

CallInv ==
  /\ Honest(file) /\ Honest(before)
  /\ pc = "idle" => fp = NoTree
  /\ pc \in {"read", "list", "ask", "open", "write"} => fp \in Trees
  /\ pc \in {"read", "list", "ask", "open"} => file = before
  /\ pc = "read" => cached = NoMap /\ ~unread
  /\ pc \in {"list", "ask", "open"} => cached = (IF unread THEN NoMap ELSE before)
  /\ pc \in {"list", "ask", "open", "write"} /\ before.part = "torn" => unread
  /\ pc = "idle" => cached = NoMap
  /\ pc \in {"read", "list"} => tree = fp \/ moved
  /\ pc \in {"ask", "open", "write"} =>
       listed \in Trees \ {NoFiles} /\ (listed = fp \/ moved)

Inv == TypeOK /\ CallInv /\ MapFitsTree

-----------------------------------------------------------------------------
(* Maps *)

LEMMA NoMapIsMap == NoMap \in Maps /\ Honest(NoMap) /\ NoMap.part = "none" /\ NoMap.fp = NoTree
BY DEF NoMap, Maps, Honest

(* Only a map that is none has no part. *)
LEMMA PartsOfMaps ==
  ASSUME NEW map \in Maps
  PROVE  /\ map.part \in Parts \union {"none"}
         /\ map.part = "none" => map = NoMap
         /\ map.fp \in Trees => map.part # "none"
BY ProjectMapAssumption DEF Maps, NoMap, Parts

(* What Claude writes is a map, of the tree it was shown. *)
LEMMA AnswerIsHonest ==
  ASSUME fp \in Trees, listed \in Trees \ {NoFiles}, moved \in BOOLEAN,
         listed = fp \/ moved, NEW part \in Parts
  PROVE  /\ Answer(part) \in Maps /\ Honest(Answer(part))
         /\ Answer(part).part = part /\ Answer(part).of = listed
BY DEF Answer, Maps, Honest, Parts

-----------------------------------------------------------------------------
(* The steps *)

LEMMA InitHolds == Init => Inv
<1> SUFFICES ASSUME Init PROVE Inv
  OBVIOUS
<1>1. moved \in BOOLEAN
  BY DEF Init
<1>2. given = Nothing /\ Nothing \in [map : Maps, how : {"none", "cached", "generated", "failed"}]
  BY NoMapIsMap DEF Init, Nothing
<1>3. edits \in 0..MaxEdits
  BY ProjectMapAssumption DEF Init
<1>4. TypeOK
  BY <1>1, <1>2, <1>3, NoMapIsMap DEF Init, TypeOK
<1>5. CallInv /\ MapFitsTree
  BY NoMapIsMap DEF Init, CallInv, MapFitsTree
<1>6. QED BY <1>4, <1>5 DEF Inv

LEMMA ComputeFingerprintHolds == Inv /\ ComputeFingerprint => Inv'
<1> SUFFICES ASSUME Inv, ComputeFingerprint PROVE Inv'
  OBVIOUS
<1> USE DEF Inv, ComputeFingerprint
<1>1. CASE fp' = tree /\ pc' = "read" /\ UNCHANGED given
  <2>1. TypeOK'
    BY <1>1 DEF TypeOK
  <2>2. CallInv'
    BY <1>1 DEF TypeOK, CallInv, Honest
  <2>3. QED BY <1>1, <2>1, <2>2 DEF MapFitsTree
<1>2. CASE Give(NoMap, "failed") /\ UNCHANGED fp
  <2>1. TypeOK'
    BY <1>2, NoMapIsMap DEF TypeOK, Give
  <2>2. CallInv'
    BY <1>2 DEF CallInv, Honest, Give
  <2>3. QED BY <1>2, <2>1, <2>2 DEF MapFitsTree, Give, CallInv
<1>3. QED BY <1>1, <1>2

(* A call that is over has left nothing behind but the file.                 *)
LEMMA CallOverHolds ==
  ASSUME Inv, CallOver, tree' \in Trees, file' \in Maps, Honest(file'),
         edits' \in 0..MaxEdits
  PROVE  Inv'
<1>1. TypeOK'
  BY NoMapIsMap DEF Inv, CallOver, TypeOK, Nothing
<1>2. CallInv'
  BY NoMapIsMap DEF Inv, CallOver, CallInv, Honest
<1>3. QED BY <1>1, <1>2 DEF Inv, CallOver, MapFitsTree

LEMMA ReadFileHolds ==
  ASSUME Inv, pc = "read", ReadFile, UNCHANGED <<tree, file, edits>>
  PROVE  Inv'
<1> USE DEF Inv, ReadFile
<1>1. CASE file.fp = fp /\ file.part # "header"
  <2>1. TypeOK'
    BY <1>1 DEF TypeOK, Give
  <2>2. CallInv'
    BY <1>1 DEF CallInv, Honest, Give
  <2>3. file.part # "none" /\ Honest(file) /\ before' = file
    BY <1>1, PartsOfMaps DEF TypeOK, CallInv
  <2>4. QED BY <1>1, <2>1, <2>2, <2>3 DEF MapFitsTree, Give, Honest
<1>2. CASE ~(file.fp = fp /\ file.part # "header")
  <2>1. TypeOK'
    BY <1>2 DEF TypeOK
  <2>2. CallInv'
    BY <1>2 DEF CallInv, Honest
  <2>3. QED BY <1>2, <2>1, <2>2 DEF MapFitsTree
<1>3. QED BY <1>1, <1>2

LEMMA ReadFailsHolds ==
  ASSUME Inv, pc = "read", ReadFails, UNCHANGED <<tree, file, edits>>
  PROVE  Inv'
<1> USE DEF Inv, ReadFails
<1>1. TypeOK'
  BY DEF TypeOK
<1>2. CallInv'
  BY DEF CallInv, Honest
<1>3. QED BY <1>1, <1>2 DEF MapFitsTree

LEMMA ReadCachedMapHolds == Inv /\ ReadCachedMap => Inv'
<1> SUFFICES ASSUME Inv, ReadCachedMap PROVE Inv'
  OBVIOUS
<1>1. CASE ReadFile
  BY <1>1, ReadFileHolds DEF ReadCachedMap
<1>2. CASE ReadFails
  BY <1>2, ReadFailsHolds DEF ReadCachedMap
<1>3. CASE ReadRaises
  BY <1>3, CallOverHolds DEF ReadCachedMap, ReadRaises, Inv, TypeOK, CallInv, Honest
<1>4. QED BY <1>1, <1>2, <1>3 DEF ReadCachedMap

(* A map that cannot be made is replaced by the old one, which is still in   *)
(* the file, if that could be read.                                          *)
LEMMA FallBackHolds ==
  ASSUME Inv, pc \in {"list", "ask"}, FallBack,
         UNCHANGED <<tree, file, fp, cached, listed, edits, before, moved, unread>>
  PROVE  Inv'
<1> USE DEF Inv, FallBack
<1>1. TypeOK'
  BY NoMapIsMap DEF TypeOK, Give
<1>2. CallInv'
  BY DEF CallInv, Honest, Give
<1>3. file' = before' /\ (before'.part = "torn" => unread')
  BY DEF CallInv
<1>4. fp' # NoTree
  BY ProjectMapAssumption DEF CallInv
<1>5. given'.map = IF unread' \/ before'.part = "header" THEN NoMap ELSE before'
  <2>1. CASE unread
    BY <2>1, NoMapIsMap DEF Give, CallInv
  <2>2. CASE ~unread
    BY <2>2 DEF Give, CallInv
  <2>3. QED BY <2>1, <2>2
<1>6. given'.how = "failed"
  BY DEF Give
<1>7. QED BY <1>1, <1>2, <1>3, <1>4, <1>5, <1>6 DEF MapFitsTree

LEMMA ListFilesHolds == Inv /\ ListFiles => Inv'
<1> SUFFICES ASSUME Inv, ListFiles PROVE Inv'
  OBVIOUS
<1>1. CASE tree # NoFiles /\ listed' = tree /\ pc' = "ask" /\ UNCHANGED given
  <2>1. TypeOK'
    BY <1>1 DEF Inv, ListFiles, TypeOK
  <2>2. CallInv'
    BY <1>1 DEF Inv, ListFiles, TypeOK, CallInv, Honest
  <2>3. QED BY <1>1, <2>1, <2>2 DEF Inv, MapFitsTree
<1>2. CASE FallBack /\ UNCHANGED listed
  BY <1>2, FallBackHolds DEF ListFiles
<1>3. QED BY <1>1, <1>2 DEF ListFiles

LEMMA AskClaudeHolds == Inv /\ AskClaude => Inv'
<1> SUFFICES ASSUME Inv, AskClaude PROVE Inv'
  OBVIOUS
<1>1. CASE pc' = "open" /\ UNCHANGED given
  <2>1. TypeOK' /\ CallInv'
    BY <1>1 DEF Inv, AskClaude, TypeOK, CallInv, Honest
  <2>2. QED BY <1>1, <2>1 DEF Inv, MapFitsTree
<1>2. CASE FallBack
  BY <1>2, FallBackHolds DEF AskClaude
<1>3. QED BY <1>1, <1>2 DEF AskClaude

LEMMA OpenForWritingHolds == Inv /\ OpenForWriting => Inv'
<1> SUFFICES ASSUME Inv, OpenForWriting PROVE Inv'
  OBVIOUS
<1>1. CASE file' = NoMap /\ pc' = "write" /\ UNCHANGED given
  <2>1. TypeOK'
    BY <1>1, NoMapIsMap DEF Inv, OpenForWriting, TypeOK
  <2>2. CallInv'
    BY <1>1, NoMapIsMap DEF Inv, OpenForWriting, CallInv, Honest
  <2>3. QED BY <1>1, <2>1, <2>2 DEF Inv, MapFitsTree
<1>2. CASE Give(Answer("whole"), "generated") /\ UNCHANGED file
  <2>1. /\ Answer("whole") \in Maps
        /\ Answer("whole").part = "whole" /\ Answer("whole").of = listed
    BY AnswerIsHonest DEF Inv, OpenForWriting, TypeOK, CallInv, Parts
  <2>2. TypeOK'
    BY <1>2, <2>1 DEF Inv, OpenForWriting, TypeOK, Give
  <2>3. CallInv'
    BY <1>2 DEF Inv, OpenForWriting, CallInv, Honest, Give
  <2>4. QED BY <1>2, <2>1, <2>2, <2>3 DEF Inv, OpenForWriting, MapFitsTree, Give, CallInv
<1>3. QED BY <1>1, <1>2 DEF OpenForWriting

LEMMA WriteMapHolds == Inv /\ WriteMap => Inv'
<1> SUFFICES ASSUME Inv, WriteMap PROVE Inv'
  OBVIOUS
<1>1. \A part \in Parts :
        /\ Answer(part) \in Maps /\ Honest(Answer(part))
        /\ Answer(part).part = part /\ Answer(part).of = listed
  BY AnswerIsHonest DEF Inv, WriteMap, TypeOK, CallInv
<1>2. file' \in Maps /\ Honest(file')
  BY <1>1, NoMapIsMap DEF WriteMap, Parts
<1>3. /\ Answer("whole") \in Maps
      /\ Answer("whole").part = "whole" /\ Answer("whole").of = listed
  BY <1>1 DEF Parts
<1>4. TypeOK'
  BY <1>2, <1>3 DEF Inv, WriteMap, TypeOK, Give
<1>5. CallInv'
  BY <1>2 DEF Inv, WriteMap, CallInv, Honest, Give
<1>6. QED BY <1>3, <1>4, <1>5 DEF Inv, WriteMap, MapFitsTree, Give, CallInv

LEMMA RunCheckHolds == Inv /\ RunCheck => Inv'
BY CallOverHolds DEF Inv, RunCheck, TypeOK, CallInv, Honest

(* People change the tree: what was listed stays, and moved remembers it.    *)
LEMMA EditTreeHolds == Inv /\ EditTree => Inv'
<1> SUFFICES ASSUME Inv, EditTree PROVE Inv'
  OBVIOUS
<1>1. edits' \in 0..MaxEdits
  BY ProjectMapAssumption DEF Inv, EditTree, TypeOK
<1>2. moved' \in BOOLEAN /\ (moved => moved') /\ (pc \in {"read", "list"} => moved')
  BY DEF Inv, EditTree, TypeOK
<1>3. TypeOK'
  BY <1>1, <1>2 DEF Inv, EditTree, TypeOK
<1>4. CallInv'
  BY <1>2 DEF Inv, EditTree, CallInv, Honest
<1>5. QED BY <1>2, <1>3, <1>4 DEF Inv, EditTree, MapFitsTree

(* What a killed program leaves in the file is honest as well. *)
LEMMA KillHolds == Inv /\ Kill => Inv'
<1> SUFFICES ASSUME Inv, Kill PROVE Inv'
  OBVIOUS
<1>1. file' \in Maps /\ Honest(file')
  <2>1. CASE UNCHANGED file
    BY <2>1 DEF Inv, TypeOK, CallInv
  <2>2. CASE pc = "write" /\ \E part \in Parts : file' = Answer(part)
    BY <2>2, AnswerIsHonest DEF Inv, TypeOK, CallInv
  <2>3. QED BY <2>1, <2>2 DEF Kill, Parts
<1>2. QED BY <1>1, CallOverHolds DEF Inv, Kill, TypeOK

LEMMA StutterHolds == Inv /\ UNCHANGED vars => Inv'
BY DEF Inv, vars, TypeOK, CallInv, MapFitsTree, Honest

LEMMA InvHolds == Spec => []Inv
<1>1. Inv /\ [Next]_vars => Inv'
  <2> SUFFICES ASSUME Inv, [Next]_vars PROVE Inv'
    OBVIOUS
  <2>1. CASE ComputeFingerprint  BY <2>1, ComputeFingerprintHolds
  <2>2. CASE ReadCachedMap       BY <2>2, ReadCachedMapHolds
  <2>3. CASE ListFiles           BY <2>3, ListFilesHolds
  <2>4. CASE AskClaude           BY <2>4, AskClaudeHolds
  <2>5. CASE OpenForWriting      BY <2>5, OpenForWritingHolds
  <2>6. CASE WriteMap            BY <2>6, WriteMapHolds
  <2>7. CASE RunCheck            BY <2>7, RunCheckHolds
  <2>8. CASE EditTree            BY <2>8, EditTreeHolds
  <2>9. CASE Kill                BY <2>9, KillHolds
  <2>10. CASE UNCHANGED vars     BY <2>10, StutterHolds
  <2>11. QED
    BY <2>1, <2>2, <2>3, <2>4, <2>5, <2>6, <2>7, <2>8, <2>9, <2>10 DEF Next
<1>2. QED BY <1>1, InitHolds, PTL DEF Spec

-----------------------------------------------------------------------------

(* No map, in memory or in the file, describes a project without files, and  *)
(* every variable of ensure_project_map keeps to its type.                   *)
THEOREM TypesHold == Spec => []TypeOK
<1>1. Inv => TypeOK
  BY DEF Inv
<1>2. QED BY <1>1, InvHolds, PTL

(* The map a check gets (project_map.ensure_project_map) describes the tree   *)
(* it starts from, or is what could be read of an old one that nothing could *)
(* replace, however edits, failures and crashes fall.                        *)
THEOREM MapsFitTheTree == Spec => []MapFitsTree
<1>1. Inv => MapFitsTree
  BY DEF Inv
<1>2. QED BY <1>1, InvHolds, PTL
=============================================================================
