---------------------------- MODULE TelemetryProofs ----------------------------
(***************************************************************************)
(* Proofs about Telemetry.  The control of the two threads comes first     *)
(* (ControlInv): which phase the main thread is in, and what that says of  *)
(* the file, the stop event and the sampler.  The invariants on the lines  *)
(* of the file rest on it: EndInv for the end marker, LagInv for labels,   *)
(* CloseInv for the brackets around checks.  Only two steps add a line.    *)
(***************************************************************************)
EXTENDS Telemetry, TLAPS

InEvent == pc \in {"collect", "write"}
InSuite == pc \in {"between", "working", "unlabel"} \/ (InEvent /\ event \in CheckEvents)
InCheck == pc = "working" \/ (InEvent /\ event = "check_end")
Joining == InStop /\ (event = "run_end" \/ InEvent) /\ pc # "join"

ControlInv ==
  /\ pc \in {"join", "close", "clear"} => event \in EndEvents
  /\ Prelude => started = {}
  /\ pc = "start" => thread = "none" /\ ~handle /\ file = "none"
  /\ pc = "spawn" \/ (InEvent /\ event = "run_start") => handle
  /\ InStop /\ InEvent => handle
  /\ pc = "write" => handle
  /\ InStop /\ handle => stopping
  /\ handle => file # "none"
  /\ file = "open" => handle
  /\ pc = "clear" => file # "open"
  /\ Prelude \/ InSuite => file # "closed"
  /\ Prelude \/ InSuite \/ (InStop /\ event = "run_end") => handle \/ thread = "none"
  /\ Joining => ~Running \/ timedOut
  /\ pc = "write" => mine.kind = event /\ mine.check = check /\ mine.no = labelNo
  /\ pc = "working" \/ (InEvent /\ event \in CheckEvents) => check \in Checks
  /\ thread = "collect" => held.kind = "sample" /\ held.no <= labelNo
  /\ pc = "killed" => thread = "none"

(* What the lines say *)

EndLogged  == \E i \in DOMAIN log : IsEnd(i)
LateSample == \E i, j \in DOMAIN log : i < j /\ IsEnd(i) /\ IsSample(j)

Newest(no)    == \A i \in DOMAIN log : log[i].no <= no
Overtaken(no) == \A i, j \in DOMAIN log : i < j /\ ~IsSample(i) /\ IsSample(j) => log[i].no <= no

Closed(i) ==
  \/ log[i].check \in raised
  \/ \E k \in DOMAIN log : i < k /\ IsClose(k) /\ log[k].check = log[i].check
AllClosed    == \A i \in DOMAIN log : IsStart(i) => Closed(i)
ClosedBut(c) == \A i \in DOMAIN log : IsStart(i) => Closed(i) \/ log[i].check = c
LastStart(c) ==
  \E i \in DOMAIN log :
    IsStart(i) /\ log[i].check = c /\ \A j \in DOMAIN log : i < j => ~IsStart(j)

EndInv ==
  /\ file = "none" => log = <<>>
  /\ EndLogged /\ pc # "killed" => stopping
  /\ EndLogged => /\ pc \in {"join", "collect", "write", "close", "clear", "cleanup",
                             "exited", "killed"}
                  /\ pc \in {"join", "collect", "write"} => event = "atexit"
  /\ EndLogged /\ pc \in {"join", "collect", "write", "cleanup"} => "run_end" \in cut \/ ~handle
  /\ EndLogged => ~Running \/ timedOut
  /\ LateSample => thread # "collect"
  /\ file = "closed" /\ pc # "killed" => EndLogged
  /\ pc = "close" => EndLogged
  /\ pc = "exited" /\ "atexit" \notin cut => file # "open"

LagInv ==
  /\ pc # "killed" => Newest(labelNo)
  /\ thread = "collect" => Overtaken(held.no)

CloseInv ==
  /\ Prelude \/ (InSuite /\ ~InCheck) => AllClosed
  /\ InCheck => ClosedBut(check) /\ (handle => LastStart(check))

Inv ==
  /\ TypeOK /\ ControlInv /\ SamplerStopsBeforeCleanup
  /\ EndInv /\ NothingAfterTheEnd
  /\ LagInv /\ LabelsLagByOne
  /\ CloseInv /\ StartsAreClosed

Control == TypeOK /\ ControlInv /\ SamplerStopsBeforeCleanup

-----------------------------------------------------------------------------
(* Types and control *)

LEMMA CollectedLine ==
  ASSUME TypeOK, NEW kind \in MainEvents \union {"sample"},
         NEW c \in Checks \union {NoCheck}
  PROVE  /\ CollectSample(kind, c) \in Line
         /\ CollectSample(kind, c).kind = kind /\ CollectSample(kind, c).check = c
         /\ CollectSample(kind, c).no = labelNo
BY DEF TypeOK, CollectSample, Line

LEMMA NoLineIsLine == NoLine \in Line
BY DEF NoLine, Line, Labels

LEMMA LogTypes ==
  ASSUME TypeOK, NEW line \in Line, WriteSample(line)
  PROVE  log' \in Seq(Line) /\ missing' \in SUBSET DOMAIN log'
<1>1. CASE UNCHANGED <<log, missing>>
  BY <1>1 DEF TypeOK
<1>2. CASE log' = Append(log, line) /\ (Flush \/ Refuse)
  <2>1. log' \in Seq(Line) /\ Len(log') = Len(log) + 1 /\ Len(log) \in Nat
    BY <1>2 DEF TypeOK
  <2>2. DOMAIN log' = 1..(Len(log) + 1) /\ DOMAIN log = 1..Len(log)
    BY <2>1 DEF TypeOK
  <2>3. missing' \subseteq missing \union {Len(log) + 1}
    BY <1>2 DEF Flush, Refuse
  <2>4. QED BY <2>1, <2>2, <2>3 DEF TypeOK
<1>3. QED BY <1>1, <1>2 DEF WriteSample

LEMMA ControlInit == Init => Control
<1> SUFFICES ASSUME Init PROVE Control
  OBVIOUS
<1>1. handle \in BOOLEAN /\ stopping \in BOOLEAN /\ timedOut \in BOOLEAN
  BY DEF Init
<1>2. log \in Seq(Line)
  BY DEF Init
<1>3. TypeOK
  BY <1>1, <1>2, NoLineIsLine DEF Init, TypeOK, MainEvents, Labels
<1>4. ControlInv /\ SamplerStopsBeforeCleanup
  BY DEF Init, ControlInv, SamplerStopsBeforeCleanup, Prelude, InStop, InEvent, InSuite,
         Joining, EndEvents, CheckEvents
<1>5. QED BY <1>3, <1>4 DEF Control

LEMMA OpenFileControl ==
  ASSUME Control, OpenFile
  PROVE  Control'
<1> USE DEF Control
<1>1. TypeOK'
  <2>1. handle' \in BOOLEAN /\ stopping' \in BOOLEAN /\ file' \in {"none", "open", "closed"}
    BY DEF OpenFile, TypeOK, state
  <2>2. pc' \in {"prelude", "collect"} /\ event' \in MainEvents
    BY DEF OpenFile, TypeOK, MainEvents
  <2>3. label' \in Labels /\ labelNo' \in Nat
    BY DEF OpenFile, TypeOK, Labels, state
  <2>4. QED BY <2>1, <2>2, <2>3 DEF OpenFile, TypeOK, sampler, history
<1>2. ControlInv'
  BY DEF OpenFile, TypeOK, ControlInv, Prelude, InStop, InEvent, InSuite, Joining, Running,
     EndEvents, CheckEvents, MainEvents, state, sampler, history
<1>3. SamplerStopsBeforeCleanup'
  BY DEF OpenFile, TypeOK, ControlInv, SamplerStopsBeforeCleanup, Prelude, InStop, InEvent,
     Joining, Running, state, sampler, history, EndEvents, CheckEvents, MainEvents
<1>4. QED BY <1>1, <1>2, <1>3

LEMMA CollectControl ==
  ASSUME Control, Collect
  PROVE  Control'
<1> USE DEF Control
<1>1. TypeOK'
  BY CollectedLine DEF Collect, TypeOK, state, sampler, history, After, MainEvents,
     EndEvents, CheckEvents
<1>2. ControlInv'
  <2>1. CASE handle
    <3>1. pc' = "write" /\ mine'.kind = event /\ mine'.check = check /\ mine'.no = labelNo
      BY <2>1, CollectedLine DEF Collect, TypeOK
    <3>2. QED BY <2>1, <3>1 DEF Collect, TypeOK, ControlInv, Prelude, InStop, InEvent, InSuite,
                 Joining, Running, EndEvents, CheckEvents, state, sampler, history
  <2>2. CASE ~handle
    BY <2>2 DEF Collect, TypeOK, ControlInv, Prelude, InStop, InEvent, InSuite, Joining, Running,
       EndEvents, CheckEvents, MainEvents, After, state, sampler, history
  <2>3. QED BY <2>1, <2>2
<1>3. SamplerStopsBeforeCleanup'
  BY DEF Collect, TypeOK, ControlInv, SamplerStopsBeforeCleanup, Prelude, InStop, InEvent,
     Joining, Running, state, sampler, history, After, EndEvents, CheckEvents, MainEvents
<1>4. QED BY <1>1, <1>2, <1>3

LEMMA WriteControl ==
  ASSUME Control, Write
  PROVE  Control'
<1> USE DEF Control
<1>1. TypeOK'
  BY NoLineIsLine, LogTypes DEF Write, TypeOK, state, sampler, history, After, MainEvents,
     EndEvents, CheckEvents
<1>2. ControlInv'
  <2>1. CASE event = "run_start"
    BY <2>1 DEF Write, TypeOK, ControlInv, Prelude, InStop, InEvent, InSuite, Joining, Running,
       EndEvents, CheckEvents, After, state, sampler, history
  <2>2. CASE event \in CheckEvents
    BY <2>2 DEF Write, TypeOK, ControlInv, Prelude, InStop, InEvent, InSuite, Joining, Running,
       EndEvents, CheckEvents, After, state, sampler, history
  <2>3. CASE event \in EndEvents
    BY <2>3 DEF Write, TypeOK, ControlInv, Prelude, InStop, InEvent, InSuite, Joining, Running,
       EndEvents, CheckEvents, After, state, sampler, history
  <2>4. QED BY <2>1, <2>2, <2>3 DEF TypeOK, MainEvents
<1>3. SamplerStopsBeforeCleanup'
  BY DEF Write, TypeOK, ControlInv, SamplerStopsBeforeCleanup, Prelude, InStop, InEvent,
     Joining, Running, state, sampler, history, After, EndEvents, CheckEvents, MainEvents
<1>4. QED BY <1>1, <1>2, <1>3

LEMMA SpawnSamplerControl ==
  ASSUME Control, SpawnSampler
  PROVE  Control'
<1> USE DEF Control
<1>1. TypeOK'
  BY DEF SpawnSampler, TypeOK, state, history
<1>2. ControlInv'
  BY DEF SpawnSampler, TypeOK, ControlInv, Prelude, InStop, InEvent, InSuite, Joining,
     Running, EndEvents, CheckEvents, MainEvents, state, history
<1>3. SamplerStopsBeforeCleanup'
  BY DEF SpawnSampler, TypeOK, ControlInv, SamplerStopsBeforeCleanup, Prelude, InStop,
     InEvent, Joining, Running, state, history
<1>4. QED BY <1>1, <1>2, <1>3

LEMMA EnterSuiteControl ==
  ASSUME Control, EnterSuite
  PROVE  Control'
<1> USE DEF Control
<1>1. TypeOK'
  BY DEF EnterSuite, TypeOK, state, sampler, history
<1>2. ControlInv'
  BY DEF EnterSuite, TypeOK, ControlInv, Prelude, InStop, InEvent, InSuite, Joining,
     Running, EndEvents, CheckEvents, MainEvents, state, sampler, history
<1>3. SamplerStopsBeforeCleanup'
  BY DEF EnterSuite, TypeOK, ControlInv, SamplerStopsBeforeCleanup, Prelude, InStop,
     InEvent, Joining, Running, state, sampler, history
<1>4. QED BY <1>1, <1>2, <1>3

LEMMA BeginCheckControl ==
  ASSUME Control, NEW c \in Checks, BeginCheck(c)
  PROVE  Control'
<1> USE DEF Control
<1>1. TypeOK'
  <2>1. check' \in Checks \union {NoCheck} /\ event' \in MainEvents /\ started' \in SUBSET Checks
    BY DEF BeginCheck, TypeOK, MainEvents, CheckEvents
  <2>2. label' \in Labels /\ labelNo' \in Nat
    BY DEF BeginCheck, SetCurrentLabel, TypeOK, Labels
  <2>3. QED BY <2>1, <2>2 DEF BeginCheck, TypeOK, SetCurrentLabel, sampler
<1>2. ControlInv'
  <2>1. held.no \in Nat /\ labelNo' = labelNo + 1 /\ labelNo \in Nat
    BY DEF BeginCheck, SetCurrentLabel, TypeOK, Line
  <2>2. thread' = "collect" => held'.kind = "sample" /\ held'.no <= labelNo'
    BY <2>1 DEF BeginCheck, ControlInv, sampler
  <2>3. QED BY <2>2 DEF BeginCheck, SetCurrentLabel, TypeOK, ControlInv, Prelude, InStop, InEvent, InSuite,
               Joining, Running, EndEvents, CheckEvents, sampler
<1>3. SamplerStopsBeforeCleanup'
  BY DEF BeginCheck, TypeOK, ControlInv, SamplerStopsBeforeCleanup, Prelude, InStop,
     InEvent, Joining, Running, sampler, SetCurrentLabel, EndEvents, CheckEvents, MainEvents
<1>4. QED BY <1>1, <1>2, <1>3

LEMMA EndCheckControl ==
  ASSUME Control, EndCheck
  PROVE  Control'
<1> USE DEF Control
<1>1. TypeOK'
  BY DEF EndCheck, TypeOK, state, sampler, history, MainEvents, EndEvents, CheckEvents
<1>2. ControlInv'
  BY DEF EndCheck, TypeOK, ControlInv, Prelude, InStop, InEvent, InSuite, Joining, Running,
     EndEvents, CheckEvents, MainEvents, state, sampler, history
<1>3. SamplerStopsBeforeCleanup'
  BY DEF EndCheck, TypeOK, ControlInv, SamplerStopsBeforeCleanup, Prelude, InStop, InEvent,
     Joining, Running, state, sampler, history, EndEvents, CheckEvents, MainEvents
<1>4. QED BY <1>1, <1>2, <1>3

LEMMA RaiseInCheckControl ==
  ASSUME Control, RaiseInCheck
  PROVE  Control'
<1> USE DEF Control
<1>1. TypeOK'
  <2>1. raised' \in SUBSET Checks
    BY DEF RaiseInCheck, TypeOK, ControlInv
  <2>2. QED BY <2>1 DEF RaiseInCheck, TypeOK, state, sampler
<1>2. ControlInv'
  BY DEF RaiseInCheck, TypeOK, ControlInv, Prelude, InStop, InEvent, InSuite, Joining,
     Running, EndEvents, CheckEvents, MainEvents, state, sampler
<1>3. SamplerStopsBeforeCleanup'
  BY DEF RaiseInCheck, TypeOK, ControlInv, SamplerStopsBeforeCleanup, Prelude, InStop,
     InEvent, Joining, Running, state, sampler
<1>4. QED BY <1>1, <1>2, <1>3

LEMMA ResetLabelControl ==
  ASSUME Control, ResetLabel
  PROVE  Control'
<1> USE DEF Control
<1>1. TypeOK'
  <2>1. label' \in Labels /\ labelNo' \in Nat
    BY DEF ResetLabel, SetCurrentLabel, TypeOK, Labels
  <2>2. QED BY <2>1 DEF ResetLabel, TypeOK, SetCurrentLabel, sampler, history
<1>2. ControlInv'
  <2>1. held.no \in Nat /\ labelNo' = labelNo + 1 /\ labelNo \in Nat
    BY DEF ResetLabel, SetCurrentLabel, TypeOK, Line
  <2>2. thread' = "collect" => held'.kind = "sample" /\ held'.no <= labelNo'
    BY <2>1 DEF ResetLabel, ControlInv, sampler
  <2>3. QED BY <2>2 DEF ResetLabel, SetCurrentLabel, TypeOK, ControlInv, Prelude, InStop, InEvent, InSuite,
               Joining, Running, EndEvents, CheckEvents, sampler, history
<1>3. SamplerStopsBeforeCleanup'
  BY DEF ResetLabel, TypeOK, ControlInv, SamplerStopsBeforeCleanup, Prelude, InStop,
     InEvent, Joining, Running, sampler, history, SetCurrentLabel
<1>4. QED BY <1>1, <1>2, <1>3

LEMMA EndRunControl ==
  ASSUME Control, EndRun
  PROVE  Control'
<1> USE DEF Control
<1>1. TypeOK'
  BY DEF EndRun, TypeOK, sampler, history, Stop, MainEvents, EndEvents, CheckEvents
<1>2. ControlInv'
  BY DEF EndRun, TypeOK, ControlInv, Prelude, InStop, InEvent, InSuite, Joining, Running,
     EndEvents, CheckEvents, MainEvents, sampler, history, Stop
<1>3. SamplerStopsBeforeCleanup'
  BY DEF EndRun, TypeOK, ControlInv, SamplerStopsBeforeCleanup, Prelude, InStop, InEvent,
     Joining, Running, InSuite, sampler, history, Stop, EndEvents, CheckEvents, MainEvents
<1>4. QED BY <1>1, <1>2, <1>3

LEMMA JoinControl ==
  ASSUME Control, Join
  PROVE  Control'
<1> USE DEF Control
<1>1. TypeOK'
  BY DEF Join, TypeOK, state, sampler, history, Joined
<1>2. ControlInv'
  BY DEF Join, TypeOK, ControlInv, Prelude, InStop, InEvent, InSuite, Joining, Running,
     EndEvents, CheckEvents, MainEvents, state, sampler, history, Joined
<1>3. SamplerStopsBeforeCleanup'
  BY DEF Join, TypeOK, ControlInv, SamplerStopsBeforeCleanup, Prelude, InStop, InEvent,
     Joining, Running, state, sampler, history, Joined
<1>4. QED BY <1>1, <1>2, <1>3

LEMMA JoinTimesOutControl ==
  ASSUME Control, JoinTimesOut
  PROVE  Control'
<1> USE DEF Control
<1>1. TypeOK'
  BY DEF JoinTimesOut, TypeOK, state, sampler, Joined
<1>2. ControlInv'
  BY DEF JoinTimesOut, TypeOK, ControlInv, Prelude, InStop, InEvent, InSuite, Joining,
     Running, EndEvents, CheckEvents, MainEvents, state, sampler, Joined
<1>3. SamplerStopsBeforeCleanup'
  BY DEF JoinTimesOut, TypeOK, ControlInv, SamplerStopsBeforeCleanup, Prelude, InStop,
     InEvent, Joining, Running, state, sampler, Joined
<1>4. QED BY <1>1, <1>2, <1>3

LEMMA CloseFileControl ==
  ASSUME Control, CloseFile
  PROVE  Control'
<1> USE DEF Control
<1>1. TypeOK'
  BY DEF CloseFile, Flush, TypeOK, sampler, history
<1>2. ControlInv'
  BY DEF CloseFile, TypeOK, ControlInv, Prelude, InStop, InEvent, InSuite, Joining, Running,
     EndEvents, CheckEvents, MainEvents, sampler, history
<1>3. SamplerStopsBeforeCleanup'
  BY DEF CloseFile, TypeOK, ControlInv, SamplerStopsBeforeCleanup, Prelude, InStop, InEvent,
     Joining, Running, sampler, history
<1>4. QED BY <1>1, <1>2, <1>3

LEMMA ClearStateControl ==
  ASSUME Control, ClearState
  PROVE  Control'
<1> USE DEF Control
<1>1. TypeOK'
  BY DEF ClearState, TypeOK, sampler, history
<1>2. ControlInv'
  BY DEF ClearState, TypeOK, ControlInv, Prelude, InStop, InEvent, InSuite, Joining,
     Running, EndEvents, CheckEvents, MainEvents, sampler, history
<1>3. SamplerStopsBeforeCleanup'
  BY DEF ClearState, TypeOK, ControlInv, SamplerStopsBeforeCleanup, Prelude, InStop,
     InEvent, Joining, Running, sampler, history
<1>4. QED BY <1>1, <1>2, <1>3

LEMMA CleanupAllSessionsControl ==
  ASSUME Control, CleanupAllSessions
  PROVE  Control'
<1> USE DEF Control
<1>1. TypeOK'
  BY DEF CleanupAllSessions, TypeOK, sampler, history, Stop, MainEvents, EndEvents,
     CheckEvents
<1>2. ControlInv'
  BY DEF CleanupAllSessions, TypeOK, ControlInv, Prelude, InStop, InEvent, InSuite, Joining,
     Running, EndEvents, CheckEvents, MainEvents, sampler, history, Stop
<1>3. SamplerStopsBeforeCleanup'
  BY DEF CleanupAllSessions, TypeOK, ControlInv, SamplerStopsBeforeCleanup, Prelude, InStop,
     InEvent, Joining, Running, sampler, history, Stop, EndEvents, CheckEvents, MainEvents
<1>4. QED BY <1>1, <1>2, <1>3

LEMMA InterruptControl ==
  ASSUME Control, Interrupt
  PROVE  Control'
<1> USE DEF Control
<1>1. TypeOK'
  <2>1. cut' \in SUBSET EndEvents /\ interrupts' \in Nat
    BY DEF Interrupt, TypeOK, ControlInv, InStop
  <2>2. UNCHANGED <<label, labelNo, handle, file, sampler, log, started, raised, timedOut>>
    BY DEF Interrupt, Stop, state
  <2>3. CASE InStop \/ Prelude
    <3>1. pc' \in {"exited", "cleanup"} /\ UNCHANGED <<event, check, stopping>>
      BY <2>3 DEF Interrupt, state
    <3>2. QED BY <2>1, <2>2, <3>1, NoLineIsLine DEF Interrupt, TypeOK, sampler
  <2>4. CASE ~InStop /\ ~Prelude
    <3>1. stopping' \in BOOLEAN
      BY <2>4 DEF Interrupt, Stop, TypeOK
    <3>2. pc' = "join" /\ event' \in MainEvents /\ check' = NoCheck
      BY <2>4 DEF Interrupt, Stop, MainEvents, EndEvents
    <3>3. QED BY <2>1, <2>2, <3>1, <3>2, NoLineIsLine DEF Interrupt, TypeOK, sampler
  <2>5. QED BY <2>3, <2>4
<1>2. ControlInv'
  BY DEF Interrupt, TypeOK, ControlInv, Prelude, InStop, InEvent, InSuite, Joining, Running,
     EndEvents, CheckEvents, MainEvents, main, state, sampler, Over, Stop
<1>3. SamplerStopsBeforeCleanup'
  BY DEF Interrupt, TypeOK, ControlInv, SamplerStopsBeforeCleanup, Prelude, InStop, InEvent,
     Joining, Running, InSuite, main, state, sampler, Over, Stop, EndEvents, CheckEvents,
     MainEvents
<1>4. QED BY <1>1, <1>2, <1>3

LEMMA KillControl ==
  ASSUME Control, Kill
  PROVE  Control'
<1> USE DEF Control
<1>1. TypeOK'
  BY NoLineIsLine DEF Kill, TypeOK, main, history, MainEvents, EndEvents, CheckEvents,
     Labels
<1>2. ControlInv'
  BY DEF Kill, TypeOK, ControlInv, Prelude, InStop, InEvent, InSuite, Joining, Running,
     EndEvents, CheckEvents, MainEvents, main, history, Over
<1>3. SamplerStopsBeforeCleanup'
  BY DEF Kill, TypeOK, ControlInv, SamplerStopsBeforeCleanup, Prelude, InStop, InEvent,
     Joining, Running, main, history, Over, EndEvents, CheckEvents, MainEvents
<1>4. QED BY <1>1, <1>2, <1>3

LEMMA SamplerCollectControl ==
  ASSUME Control, SamplerCollect
  PROVE  Control'
<1> USE DEF Control
<1>1. TypeOK'
  <2>1. held' \in Line
    BY CollectedLine DEF SamplerCollect
  <2>2. QED BY <2>1 DEF SamplerCollect, TypeOK, main, state, history
<1>2. ControlInv'
  <2>1. held'.kind = "sample" /\ held'.no = labelNo /\ labelNo \in Nat
    BY CollectedLine DEF SamplerCollect, TypeOK
  <2>2. QED BY <2>1 DEF SamplerCollect, TypeOK, ControlInv, Prelude, InStop, InEvent, InSuite, Joining,
               Running, main, state, history, Over
<1>3. SamplerStopsBeforeCleanup'
  BY DEF SamplerCollect, TypeOK, ControlInv, SamplerStopsBeforeCleanup, Prelude, InStop,
     InEvent, Joining, Running, main, state, history, Over
<1>4. QED BY <1>1, <1>2, <1>3

LEMMA SamplerWriteControl ==
  ASSUME Control, SamplerWrite
  PROVE  Control'
<1> USE DEF Control
<1>1. TypeOK'
  BY NoLineIsLine, LogTypes DEF SamplerWrite, TypeOK, main, state, history
<1>2. ControlInv'
  BY DEF SamplerWrite, TypeOK, ControlInv, Prelude, InStop, InEvent, InSuite, Joining,
     Running, EndEvents, CheckEvents, MainEvents, main, state, history, Over
<1>3. SamplerStopsBeforeCleanup'
  BY DEF SamplerWrite, TypeOK, ControlInv, SamplerStopsBeforeCleanup, Prelude, InStop,
     InEvent, Joining, Running, main, state, history, Over
<1>4. QED BY <1>1, <1>2, <1>3

LEMMA SamplerEndsControl ==
  ASSUME Control, SamplerEnds
  PROVE  Control'
<1> USE DEF Control
<1>1. TypeOK'
  BY DEF SamplerEnds, TypeOK, main, state, history
<1>2. ControlInv'
  BY DEF SamplerEnds, TypeOK, ControlInv, Prelude, InStop, InEvent, InSuite, Joining,
     Running, EndEvents, CheckEvents, MainEvents, main, state, history, Over
<1>3. SamplerStopsBeforeCleanup'
  BY DEF SamplerEnds, TypeOK, ControlInv, SamplerStopsBeforeCleanup, Prelude, InStop,
     InEvent, Joining, Running, main, state, history, Over
<1>4. QED BY <1>1, <1>2, <1>3

-----------------------------------------------------------------------------
(* Steps that add no line *)

(* The history only grows. *)
LEMMA HistoryGrows ==
  ASSUME Control, MainStep \/ SamplerStep \/ Interrupt \/ Kill
  PROVE  raised \subseteq raised' /\ cut \subseteq cut' /\ (timedOut => timedOut')
<1>1. CASE MainStep
  <2>1. CASE OpenFile
    BY <2>1 DEF OpenFile, history
  <2>2. CASE Collect
    BY <2>2 DEF Collect, history
  <2>3. CASE Write
    BY <2>3 DEF Write, history
  <2>4. CASE SpawnSampler
    BY <2>4 DEF SpawnSampler, history
  <2>5. CASE EnterSuite
    BY <2>5 DEF EnterSuite, history
  <2>6. CASE \E c \in Checks : BeginCheck(c)
    BY <2>6 DEF BeginCheck
  <2>7. CASE EndCheck
    BY <2>7 DEF EndCheck, history
  <2>8. CASE RaiseInCheck
    BY <2>8 DEF RaiseInCheck
  <2>9. CASE ResetLabel
    BY <2>9 DEF ResetLabel, history
  <2>10. CASE EndRun
    BY <2>10 DEF EndRun, history
  <2>11. CASE Join
    BY <2>11 DEF Join, history
  <2>12. CASE JoinTimesOut
    BY <2>12 DEF JoinTimesOut
  <2>13. CASE CloseFile
    BY <2>13 DEF CloseFile, history
  <2>14. CASE ClearState
    BY <2>14 DEF ClearState, history
  <2>15. CASE CleanupAllSessions
    BY <2>15 DEF CleanupAllSessions, history
  <2>16. QED BY <1>1, <2>1, <2>2, <2>3, <2>4, <2>5, <2>6, <2>7, <2>8, <2>9, <2>10, <2>11, <2>12, <2>13, <2>14, <2>15 DEF MainStep
<1>2. CASE SamplerStep
  BY <1>2 DEF SamplerStep, SamplerCollect, SamplerWrite, SamplerEnds, history
<1>3. CASE Interrupt
  BY <1>3 DEF Interrupt
<1>4. CASE Kill
  BY <1>4 DEF Kill, history
<1>5. QED BY <1>1, <1>2, <1>3, <1>4

LEMMA SameLines ==
  ASSUME UNCHANGED log, raised \subseteq raised', cut \subseteq cut', timedOut => timedOut'
  PROVE  /\ EndLogged' <=> EndLogged
         /\ LateSample' <=> LateSample
         /\ NothingAfterTheEnd => NothingAfterTheEnd'
         /\ LabelsLagByOne => LabelsLagByOne'
         /\ AllClosed => AllClosed'
         /\ UNCHANGED check /\ ClosedBut(check) => ClosedBut(check)'
         /\ UNCHANGED check /\ LastStart(check) => LastStart(check)'
         /\ StartsAreClosed => StartsAreClosed'
<1>1. (EndLogged' <=> EndLogged) /\ (LateSample' <=> LateSample)
  BY DEF EndLogged, LateSample, IsEnd, IsSample
<1>2. NothingAfterTheEnd => NothingAfterTheEnd'
  BY DEF NothingAfterTheEnd, IsEnd, IsSample
<1>3. LabelsLagByOne => LabelsLagByOne'
  BY DEF LabelsLagByOne, IsSample
<1>4. AllClosed => AllClosed'
  BY DEF AllClosed, Closed, IsStart, IsClose
<1>5. UNCHANGED check /\ ClosedBut(check) => ClosedBut(check)'
  BY DEF ClosedBut, Closed, IsStart, IsClose
<1>6. UNCHANGED check /\ LastStart(check) => LastStart(check)'
  BY DEF LastStart, IsStart
<1>7. StartsAreClosed => StartsAreClosed'
  BY DEF StartsAreClosed, IsStart, IsClose
<1>8. QED BY <1>1, <1>2, <1>3, <1>4, <1>5, <1>6, <1>7

(* The numbers of the lines: what is true of one label is true of a later one.*)
LEMMA SameNumbers ==
  ASSUME TypeOK, UNCHANGED log, Newest(labelNo)
  PROVE  /\ labelNo' \in Nat /\ labelNo <= labelNo' => Newest(labelNo)'
         /\ UNCHANGED held /\ Overtaken(held.no) => Overtaken(held.no)'
         /\ held'.no = labelNo => Overtaken(held.no)'
<1>1. labelNo \in Nat /\ \A i \in DOMAIN log : log[i].no \in Nat
  <2>1. labelNo \in Nat /\ log \in Seq(Line)
    BY DEF TypeOK
  <2>2. \A i \in DOMAIN log : log[i] \in Line
    BY <2>1
  <2>3. QED BY <2>1, <2>2 DEF Line
<1>2. labelNo' \in Nat /\ labelNo <= labelNo' => Newest(labelNo)'
  BY <1>1 DEF Newest
<1>3. UNCHANGED held /\ Overtaken(held.no) => Overtaken(held.no)'
  BY DEF Overtaken, IsSample
<1>4. held'.no = labelNo => Overtaken(held.no)'
  BY DEF Newest, Overtaken, IsSample
<1>5. QED BY <1>2, <1>3, <1>4

LEMMA LateIsAfterEnd == LateSample => EndLogged
BY DEF LateSample, EndLogged

LEMMA ClosedAreClosed == (AllClosed => ClosedBut(check)) /\ (log = <<>> => AllClosed)
BY DEF AllClosed, ClosedBut

(* The check that raised needs no end. *)
LEMMA RaisedNeedsNoEnd ==
  ASSUME UNCHANGED log, ClosedBut(check), raised' = raised \union {check}
  PROVE  AllClosed'
BY DEF ClosedBut, AllClosed, Closed, IsStart, IsClose

LEMMA OpenFileLines ==
  ASSUME Inv, OpenFile
  PROVE  (EndInv /\ NothingAfterTheEnd /\ LagInv /\ LabelsLagByOne /\ CloseInv /\ StartsAreClosed)'
<1> USE DEF Inv
<1>1. UNCHANGED log /\ raised \subseteq raised' /\ cut \subseteq cut' /\ (timedOut => timedOut')
  BY HistoryGrows DEF OpenFile, Control, MainStep, state, sampler, history
<1>2. EndInv'
  BY <1>1, SameLines DEF OpenFile, TypeOK, ControlInv, EndInv, Prelude, InStop, InEvent,
     Joining, InSuite, Running, EndEvents, CheckEvents, MainEvents, state, sampler, history
<1>3. LagInv'
  BY <1>1, SameNumbers DEF OpenFile, TypeOK, LagInv, state, sampler, history
<1>4. CloseInv'
  BY <1>1, SameLines DEF OpenFile, TypeOK, ControlInv, EndInv, CloseInv, Prelude, InStop,
     InEvent, InSuite, InCheck, EndEvents, CheckEvents, MainEvents, state, sampler, history
<1>5. QED BY <1>1, <1>2, <1>3, <1>4, SameLines

LEMMA CollectLines ==
  ASSUME Inv, Collect
  PROVE  (EndInv /\ NothingAfterTheEnd /\ LagInv /\ LabelsLagByOne /\ CloseInv /\ StartsAreClosed)'
<1> USE DEF Inv
<1>1. UNCHANGED log /\ raised \subseteq raised' /\ cut \subseteq cut' /\ (timedOut => timedOut')
  BY HistoryGrows DEF Collect, Control, MainStep, state, sampler, history
<1>2. EndInv'
  BY <1>1, SameLines DEF Collect, TypeOK, ControlInv, EndInv, Prelude, InStop, InEvent,
     Joining, InSuite, Running, EndEvents, CheckEvents, MainEvents, state, sampler, history,
     After
<1>3. LagInv'
  BY <1>1, SameNumbers DEF Collect, TypeOK, LagInv, state, sampler, history
<1>4. CloseInv'
  <2>1. CASE handle
    <3>1. pc = "collect" /\ pc' = "write" /\ UNCHANGED <<event, check, handle>>
      BY <2>1 DEF Collect, state
    <3>2. QED BY <1>1, <2>1, <3>1, SameLines DEF CloseInv, Prelude, InEvent, InSuite, InCheck, EndEvents,
                 CheckEvents
  <2>2. CASE ~handle
    <3>1. pc = "collect" /\ pc' = After(event) /\ UNCHANGED <<event, check, handle>>
      BY <2>2 DEF Collect, state
    <3>2. CASE event \in EndEvents
      BY <3>1, <3>2 DEF CloseInv, Prelude, InEvent, InSuite, InCheck, EndEvents, CheckEvents, After
    <3>3. CASE event \notin EndEvents
      <4>1. file = "none"
        BY <2>2, <3>1, <3>3 DEF Control, TypeOK, ControlInv, Prelude, InEvent, InSuite, MainEvents
      <4>2. AllClosed' /\ ClosedBut(check)'
        BY <1>1, <3>1, <4>1, SameLines, ClosedAreClosed DEF EndInv
      <4>3. QED BY <2>2, <3>1, <4>2 DEF CloseInv
    <3>4. QED BY <3>2, <3>3
  <2>3. QED BY <2>1, <2>2
<1>5. QED BY <1>1, <1>2, <1>3, <1>4, SameLines

LEMMA SpawnSamplerLines ==
  ASSUME Inv, SpawnSampler
  PROVE  (EndInv /\ NothingAfterTheEnd /\ LagInv /\ LabelsLagByOne /\ CloseInv /\ StartsAreClosed)'
<1> USE DEF Inv
<1>1. UNCHANGED log /\ raised \subseteq raised' /\ cut \subseteq cut' /\ (timedOut => timedOut')
  BY HistoryGrows DEF SpawnSampler, Control, MainStep, state, history
<1>2. EndInv'
  BY <1>1, SameLines DEF SpawnSampler, TypeOK, ControlInv, EndInv, Prelude, InStop, InEvent,
     Joining, InSuite, Running, EndEvents, CheckEvents, MainEvents, state, history
<1>3. LagInv'
  BY <1>1, SameNumbers DEF SpawnSampler, TypeOK, LagInv, state, history
<1>4. CloseInv'
  BY <1>1, SameLines DEF SpawnSampler, TypeOK, ControlInv, EndInv, CloseInv, Prelude,
     InStop, InEvent, InSuite, InCheck, EndEvents, CheckEvents, MainEvents, state, history
<1>5. QED BY <1>1, <1>2, <1>3, <1>4, SameLines

LEMMA EnterSuiteLines ==
  ASSUME Inv, EnterSuite
  PROVE  (EndInv /\ NothingAfterTheEnd /\ LagInv /\ LabelsLagByOne /\ CloseInv /\ StartsAreClosed)'
<1> USE DEF Inv
<1>1. UNCHANGED log /\ raised \subseteq raised' /\ cut \subseteq cut' /\ (timedOut => timedOut')
  BY HistoryGrows DEF EnterSuite, Control, MainStep, state, sampler, history
<1>2. EndInv'
  BY <1>1, SameLines DEF EnterSuite, TypeOK, ControlInv, EndInv, Prelude, InStop, InEvent,
     Joining, InSuite, Running, EndEvents, CheckEvents, MainEvents, state, sampler, history
<1>3. LagInv'
  BY <1>1, SameNumbers DEF EnterSuite, TypeOK, LagInv, state, sampler, history
<1>4. CloseInv'
  BY <1>1, SameLines DEF EnterSuite, TypeOK, ControlInv, EndInv, CloseInv, Prelude, InStop,
     InEvent, InSuite, InCheck, EndEvents, CheckEvents, MainEvents, state, sampler, history
<1>5. QED BY <1>1, <1>2, <1>3, <1>4, SameLines

LEMMA BeginCheckLines ==
  ASSUME Inv, NEW c \in Checks, BeginCheck(c)
  PROVE  (EndInv /\ NothingAfterTheEnd /\ LagInv /\ LabelsLagByOne /\ CloseInv /\ StartsAreClosed)'
<1> USE DEF Inv
<1>1. UNCHANGED log /\ raised \subseteq raised' /\ cut \subseteq cut' /\ (timedOut => timedOut')
  BY HistoryGrows DEF BeginCheck, Control, MainStep, sampler
<1>2. EndInv'
  BY <1>1, SameLines DEF BeginCheck, TypeOK, ControlInv, EndInv, Prelude, InStop, InEvent,
     Joining, InSuite, Running, EndEvents, CheckEvents, MainEvents, sampler, SetCurrentLabel
<1>3. LagInv'
  BY <1>1, SameNumbers DEF BeginCheck, TypeOK, LagInv, sampler, SetCurrentLabel
<1>4. CloseInv'
  BY <1>1, SameLines DEF BeginCheck, TypeOK, ControlInv, EndInv, CloseInv, Prelude, InStop,
     InEvent, InSuite, InCheck, EndEvents, CheckEvents, MainEvents, sampler, SetCurrentLabel
<1>5. QED BY <1>1, <1>2, <1>3, <1>4, SameLines

LEMMA EndCheckLines ==
  ASSUME Inv, EndCheck
  PROVE  (EndInv /\ NothingAfterTheEnd /\ LagInv /\ LabelsLagByOne /\ CloseInv /\ StartsAreClosed)'
<1> USE DEF Inv
<1>1. UNCHANGED log /\ raised \subseteq raised' /\ cut \subseteq cut' /\ (timedOut => timedOut')
  BY HistoryGrows DEF EndCheck, Control, MainStep, state, sampler, history
<1>2. EndInv'
  BY <1>1, SameLines DEF EndCheck, TypeOK, ControlInv, EndInv, Prelude, InStop, InEvent,
     Joining, InSuite, Running, EndEvents, CheckEvents, MainEvents, state, sampler, history
<1>3. LagInv'
  BY <1>1, SameNumbers DEF EndCheck, TypeOK, LagInv, state, sampler, history
<1>4. CloseInv'
  BY <1>1, SameLines DEF EndCheck, TypeOK, ControlInv, EndInv, CloseInv, Prelude, InStop,
     InEvent, InSuite, InCheck, EndEvents, CheckEvents, MainEvents, state, sampler, history
<1>5. QED BY <1>1, <1>2, <1>3, <1>4, SameLines

LEMMA RaiseInCheckLines ==
  ASSUME Inv, RaiseInCheck
  PROVE  (EndInv /\ NothingAfterTheEnd /\ LagInv /\ LabelsLagByOne /\ CloseInv /\ StartsAreClosed)'
<1> USE DEF Inv
<1>1. UNCHANGED log /\ raised \subseteq raised' /\ cut \subseteq cut' /\ (timedOut => timedOut')
  BY HistoryGrows DEF RaiseInCheck, Control, MainStep, state, sampler
<1>2. EndInv'
  BY <1>1, SameLines DEF RaiseInCheck, TypeOK, ControlInv, EndInv, Prelude, InStop, InEvent,
     Joining, InSuite, Running, EndEvents, CheckEvents, MainEvents, state, sampler
<1>3. LagInv'
  BY <1>1, SameNumbers DEF RaiseInCheck, TypeOK, LagInv, state, sampler
<1>4. CloseInv'
  <2>1. pc' = "between" /\ ClosedBut(check) /\ raised' = raised \union {check}
    BY DEF RaiseInCheck, CloseInv, InCheck
  <2>2. AllClosed'
    BY <1>1, <2>1, RaisedNeedsNoEnd
  <2>3. QED BY <2>1, <2>2 DEF CloseInv, InCheck, InEvent
<1>5. QED BY <1>1, <1>2, <1>3, <1>4, SameLines

LEMMA ResetLabelLines ==
  ASSUME Inv, ResetLabel
  PROVE  (EndInv /\ NothingAfterTheEnd /\ LagInv /\ LabelsLagByOne /\ CloseInv /\ StartsAreClosed)'
<1> USE DEF Inv
<1>1. UNCHANGED log /\ raised \subseteq raised' /\ cut \subseteq cut' /\ (timedOut => timedOut')
  BY HistoryGrows DEF ResetLabel, Control, MainStep, sampler, history
<1>2. EndInv'
  BY <1>1, SameLines DEF ResetLabel, TypeOK, ControlInv, EndInv, Prelude, InStop, InEvent,
     Joining, InSuite, Running, EndEvents, CheckEvents, MainEvents, sampler, history,
     SetCurrentLabel
<1>3. LagInv'
  BY <1>1, SameNumbers DEF ResetLabel, TypeOK, LagInv, sampler, history, SetCurrentLabel
<1>4. CloseInv'
  BY <1>1, SameLines DEF ResetLabel, TypeOK, ControlInv, EndInv, CloseInv, Prelude, InStop,
     InEvent, InSuite, InCheck, EndEvents, CheckEvents, MainEvents, sampler, history,
     SetCurrentLabel
<1>5. QED BY <1>1, <1>2, <1>3, <1>4, SameLines

LEMMA EndRunLines ==
  ASSUME Inv, EndRun
  PROVE  (EndInv /\ NothingAfterTheEnd /\ LagInv /\ LabelsLagByOne /\ CloseInv /\ StartsAreClosed)'
<1> USE DEF Inv
<1>1. UNCHANGED log /\ raised \subseteq raised' /\ cut \subseteq cut' /\ (timedOut => timedOut')
  BY HistoryGrows DEF EndRun, Control, MainStep, sampler, history
<1>2. EndInv'
  BY <1>1, SameLines DEF EndRun, TypeOK, ControlInv, EndInv, Prelude, InStop, InEvent,
     Joining, InSuite, Running, EndEvents, CheckEvents, MainEvents, sampler, history, Stop
<1>3. LagInv'
  BY <1>1, SameNumbers DEF EndRun, TypeOK, LagInv, sampler, history, Stop
<1>4. CloseInv'
  BY <1>1, SameLines DEF EndRun, TypeOK, ControlInv, EndInv, CloseInv, Prelude, InStop,
     InEvent, InSuite, InCheck, EndEvents, CheckEvents, MainEvents, sampler, history, Stop
<1>5. QED BY <1>1, <1>2, <1>3, <1>4, SameLines

LEMMA JoinLines ==
  ASSUME Inv, Join
  PROVE  (EndInv /\ NothingAfterTheEnd /\ LagInv /\ LabelsLagByOne /\ CloseInv /\ StartsAreClosed)'
<1> USE DEF Inv
<1>1. UNCHANGED log /\ raised \subseteq raised' /\ cut \subseteq cut' /\ (timedOut => timedOut')
  BY HistoryGrows DEF Join, Control, MainStep, state, sampler, history
<1>2. EndInv'
  BY <1>1, SameLines DEF Join, TypeOK, ControlInv, EndInv, Prelude, InStop, InEvent,
     Joining, InSuite, Running, EndEvents, CheckEvents, MainEvents, state, sampler, history,
     Joined
<1>3. LagInv'
  BY <1>1, SameNumbers DEF Join, TypeOK, LagInv, state, sampler, history
<1>4. CloseInv'
  BY <1>1, SameLines DEF Join, TypeOK, ControlInv, EndInv, CloseInv, Prelude, InStop,
     InEvent, InSuite, InCheck, EndEvents, CheckEvents, MainEvents, state, sampler, history,
     Running, Joined
<1>5. QED BY <1>1, <1>2, <1>3, <1>4, SameLines

LEMMA JoinTimesOutLines ==
  ASSUME Inv, JoinTimesOut
  PROVE  (EndInv /\ NothingAfterTheEnd /\ LagInv /\ LabelsLagByOne /\ CloseInv /\ StartsAreClosed)'
<1> USE DEF Inv
<1>1. UNCHANGED log /\ raised \subseteq raised' /\ cut \subseteq cut' /\ (timedOut => timedOut')
  BY HistoryGrows DEF JoinTimesOut, Control, MainStep, state, sampler
<1>2. EndInv'
  BY <1>1, SameLines DEF JoinTimesOut, TypeOK, ControlInv, EndInv, Prelude, InStop, InEvent,
     Joining, InSuite, Running, EndEvents, CheckEvents, MainEvents, state, sampler, Joined
<1>3. LagInv'
  BY <1>1, SameNumbers DEF JoinTimesOut, TypeOK, LagInv, state, sampler
<1>4. CloseInv'
  BY <1>1, SameLines DEF JoinTimesOut, TypeOK, ControlInv, EndInv, CloseInv, Prelude,
     InStop, InEvent, InSuite, InCheck, EndEvents, CheckEvents, MainEvents, state, sampler,
     Running, Joined
<1>5. QED BY <1>1, <1>2, <1>3, <1>4, SameLines

LEMMA CloseFileLines ==
  ASSUME Inv, CloseFile
  PROVE  (EndInv /\ NothingAfterTheEnd /\ LagInv /\ LabelsLagByOne /\ CloseInv /\ StartsAreClosed)'
<1> USE DEF Inv
<1>1. UNCHANGED log /\ raised \subseteq raised' /\ cut \subseteq cut' /\ (timedOut => timedOut')
  BY HistoryGrows DEF CloseFile, Control, MainStep, sampler, history
<1>2. EndInv'
  BY <1>1, SameLines DEF CloseFile, TypeOK, ControlInv, EndInv, Prelude, InStop, InEvent,
     Joining, InSuite, Running, EndEvents, CheckEvents, MainEvents, sampler, history
<1>3. LagInv'
  BY <1>1, SameNumbers DEF CloseFile, TypeOK, LagInv, sampler, history
<1>4. CloseInv'
  BY <1>1, SameLines DEF CloseFile, TypeOK, ControlInv, EndInv, CloseInv, Prelude, InStop,
     InEvent, InSuite, InCheck, EndEvents, CheckEvents, MainEvents, sampler, history
<1>5. QED BY <1>1, <1>2, <1>3, <1>4, SameLines

LEMMA ClearStateLines ==
  ASSUME Inv, ClearState
  PROVE  (EndInv /\ NothingAfterTheEnd /\ LagInv /\ LabelsLagByOne /\ CloseInv /\ StartsAreClosed)'
<1> USE DEF Inv
<1>1. UNCHANGED log /\ raised \subseteq raised' /\ cut \subseteq cut' /\ (timedOut => timedOut')
  BY HistoryGrows DEF ClearState, Control, MainStep, sampler, history
<1>2. EndInv'
  BY <1>1, SameLines DEF ClearState, TypeOK, ControlInv, EndInv, Prelude, InStop, InEvent,
     Joining, InSuite, Running, EndEvents, CheckEvents, MainEvents, sampler, history
<1>3. LagInv'
  BY <1>1, SameNumbers DEF ClearState, TypeOK, LagInv, sampler, history
<1>4. CloseInv'
  BY <1>1, SameLines DEF ClearState, TypeOK, ControlInv, EndInv, CloseInv, Prelude, InStop,
     InEvent, InSuite, InCheck, EndEvents, CheckEvents, MainEvents, sampler, history
<1>5. QED BY <1>1, <1>2, <1>3, <1>4, SameLines

LEMMA CleanupAllSessionsLines ==
  ASSUME Inv, CleanupAllSessions
  PROVE  (EndInv /\ NothingAfterTheEnd /\ LagInv /\ LabelsLagByOne /\ CloseInv /\ StartsAreClosed)'
<1> USE DEF Inv
<1>1. UNCHANGED log /\ raised \subseteq raised' /\ cut \subseteq cut' /\ (timedOut => timedOut')
  BY HistoryGrows DEF CleanupAllSessions, Control, MainStep, sampler, history
<1>2. EndInv'
  BY <1>1, SameLines DEF CleanupAllSessions, TypeOK, ControlInv, EndInv, Prelude, InStop,
     InEvent, Joining, InSuite, Running, EndEvents, CheckEvents, MainEvents, sampler,
     history, Stop
<1>3. LagInv'
  BY <1>1, SameNumbers DEF CleanupAllSessions, TypeOK, LagInv, sampler, history, Stop
<1>4. CloseInv'
  BY <1>1, SameLines DEF CleanupAllSessions, TypeOK, ControlInv, EndInv, CloseInv, Prelude,
     InStop, InEvent, InSuite, InCheck, EndEvents, CheckEvents, MainEvents, sampler,
     history, Stop
<1>5. QED BY <1>1, <1>2, <1>3, <1>4, SameLines

LEMMA InterruptLines ==
  ASSUME Inv, Interrupt
  PROVE  (EndInv /\ NothingAfterTheEnd /\ LagInv /\ LabelsLagByOne /\ CloseInv /\ StartsAreClosed)'
<1> USE DEF Inv
<1>1. UNCHANGED log /\ raised \subseteq raised' /\ cut \subseteq cut' /\ (timedOut => timedOut')
  BY HistoryGrows DEF Interrupt, Control, main, state, sampler
<1>2. EndInv'
  BY <1>1, SameLines DEF Interrupt, TypeOK, ControlInv, EndInv, Prelude, InStop, InEvent,
     Joining, InSuite, Running, EndEvents, CheckEvents, MainEvents, main, state, sampler,
     Over, Stop
<1>3. LagInv'
  BY <1>1, SameNumbers DEF Interrupt, TypeOK, LagInv, main, state, sampler, Over, Stop
<1>4. CloseInv'
  BY <1>1, SameLines DEF Interrupt, TypeOK, ControlInv, EndInv, CloseInv, Prelude, InStop,
     InEvent, InSuite, InCheck, EndEvents, CheckEvents, MainEvents, main, state, sampler,
     Over, Stop
<1>5. QED BY <1>1, <1>2, <1>3, <1>4, SameLines

LEMMA KillLines ==
  ASSUME Inv, Kill
  PROVE  (EndInv /\ NothingAfterTheEnd /\ LagInv /\ LabelsLagByOne /\ CloseInv /\ StartsAreClosed)'
<1> USE DEF Inv
<1>1. UNCHANGED log /\ raised \subseteq raised' /\ cut \subseteq cut' /\ (timedOut => timedOut')
  BY HistoryGrows DEF Kill, Control, main, history
<1>2. EndInv'
  BY <1>1, SameLines DEF Kill, TypeOK, ControlInv, EndInv, Prelude, InStop, InEvent,
     Joining, InSuite, Running, EndEvents, CheckEvents, MainEvents, main, history, Over
<1>3. LagInv'
  BY <1>1, SameNumbers DEF Kill, TypeOK, LagInv, main, history, Over
<1>4. CloseInv'
  BY <1>1, SameLines DEF Kill, TypeOK, ControlInv, EndInv, CloseInv, Prelude, InStop,
     InEvent, InSuite, InCheck, EndEvents, CheckEvents, MainEvents, main, history, Over
<1>5. QED BY <1>1, <1>2, <1>3, <1>4, SameLines

LEMMA SamplerCollectLines ==
  ASSUME Inv, SamplerCollect
  PROVE  (EndInv /\ NothingAfterTheEnd /\ LagInv /\ LabelsLagByOne /\ CloseInv /\ StartsAreClosed)'
<1> USE DEF Inv
<1>1. UNCHANGED log /\ raised \subseteq raised' /\ cut \subseteq cut' /\ (timedOut => timedOut')
  BY HistoryGrows DEF SamplerCollect, Control, SamplerStep, main, state, history
<1>2. EndInv'
  <2>1. ~EndLogged /\ ~LateSample
    BY LateIsAfterEnd DEF SamplerCollect, EndInv, Over
  <2>2. QED BY <1>1, <2>1, SameLines DEF SamplerCollect, TypeOK, EndInv, main, state, history
<1>3. LagInv'
  <2>1. held'.no = labelNo /\ labelNo \in Nat /\ UNCHANGED <<pc, labelNo>> /\ pc # "killed"
    BY CollectedLine DEF SamplerCollect, Control, TypeOK, main, state, Over
  <2>2. QED BY <1>1, <2>1, SameNumbers DEF Control, LagInv
<1>4. CloseInv'
  BY <1>1, SameLines DEF SamplerCollect, TypeOK, ControlInv, EndInv, CloseInv, Prelude,
     InStop, InEvent, InSuite, InCheck, EndEvents, CheckEvents, MainEvents, main, state,
     history, Over
<1>5. QED BY <1>1, <1>2, <1>3, <1>4, SameLines

LEMMA SamplerEndsLines ==
  ASSUME Inv, SamplerEnds
  PROVE  (EndInv /\ NothingAfterTheEnd /\ LagInv /\ LabelsLagByOne /\ CloseInv /\ StartsAreClosed)'
<1> USE DEF Inv
<1>1. UNCHANGED log /\ raised \subseteq raised' /\ cut \subseteq cut' /\ (timedOut => timedOut')
  BY HistoryGrows DEF SamplerEnds, Control, SamplerStep, main, state, history
<1>2. EndInv'
  BY <1>1, SameLines DEF SamplerEnds, TypeOK, ControlInv, EndInv, Prelude, InStop, InEvent,
     Joining, InSuite, Running, EndEvents, CheckEvents, MainEvents, main, state, history,
     Over
<1>3. LagInv'
  BY <1>1, SameNumbers DEF SamplerEnds, TypeOK, LagInv, main, state, history, Over
<1>4. CloseInv'
  BY <1>1, SameLines DEF SamplerEnds, TypeOK, ControlInv, EndInv, CloseInv, Prelude, InStop,
     InEvent, InSuite, InCheck, EndEvents, CheckEvents, MainEvents, main, state, history,
     Over
<1>5. QED BY <1>1, <1>2, <1>3, <1>4, SameLines

-----------------------------------------------------------------------------
(* Steps that add a line *)

LEMMA NewLine ==
  ASSUME TypeOK, NEW line \in Line, log' = Append(log, line)
  PROVE  \E n \in Nat :
           /\ DOMAIN log \subseteq Nat /\ DOMAIN log' = DOMAIN log \union {n}
           /\ log'[n] = line
           /\ \A i \in DOMAIN log : i < n /\ log'[i] = log[i]
<1> DEFINE n == Len(log) + 1
<1>1. log \in Seq(Line) /\ n \in Nat
  BY DEF TypeOK
<1>2. DOMAIN log = 1..Len(log) /\ DOMAIN log' = 1..n
  BY <1>1
<1>3. DOMAIN log \subseteq Nat /\ DOMAIN log' = DOMAIN log \union {n} /\ log'[n] = line
  BY <1>1, <1>2
<1>4. \A i \in DOMAIN log : i < n /\ log'[i] = log[i]
  BY <1>1, <1>2
<1>5. QED BY <1>1, <1>3, <1>4

LEMMA EndAfterLine ==
  ASSUME TypeOK, NEW line \in Line, log' = Append(log, line), UNCHANGED history
  PROVE  /\ EndLogged' <=> EndLogged \/ line.kind \in EndEvents
         /\ LateSample' => LateSample \/ (EndLogged /\ line.kind = "sample")
         /\ NothingAfterTheEnd
              /\ (EndLogged => \/ line.kind \in EndEvents /\ "run_end" \in cut
                               \/ line.kind = "sample" /\ timedOut /\ ~LateSample)
              => NothingAfterTheEnd'
<1>1. PICK n \in Nat :
        /\ DOMAIN log \subseteq Nat /\ DOMAIN log' = DOMAIN log \union {n}
        /\ log'[n] = line
        /\ \A i \in DOMAIN log : i < n /\ log'[i] = log[i]
  BY NewLine
<1>2. EndLogged' <=> EndLogged \/ line.kind \in EndEvents
  BY <1>1 DEF EndLogged, IsEnd
<1>3. LateSample' => LateSample \/ (EndLogged /\ line.kind = "sample")
  BY <1>1 DEF LateSample, EndLogged, IsEnd, IsSample, EndEvents
<1>4. ASSUME NothingAfterTheEnd,
             EndLogged => \/ line.kind \in EndEvents /\ "run_end" \in cut
                          \/ line.kind = "sample" /\ timedOut /\ ~LateSample
      PROVE  NothingAfterTheEnd'
  <2>1. SUFFICES ASSUME NEW i \in DOMAIN log', NEW j \in DOMAIN log', i < j, IsEnd(i)'
                 PROVE  \/ IsEnd(j)' /\ "run_end" \in cut'
                        \/ /\ IsSample(j)' /\ timedOut'
                           /\ \A k \in DOMAIN log' : j < k => ~IsSample(k)'
    BY DEF NothingAfterTheEnd
  <2>2. UNCHANGED <<cut, timedOut>>
    BY DEF history
  <2>3. i \in DOMAIN log /\ IsEnd(i) /\ EndLogged
    BY <1>1, <2>1 DEF IsEnd, EndLogged
  <2>4. CASE j = n
    <3>1. \A k \in DOMAIN log' : ~(j < k)
      BY <1>1, <2>4
    <3>2. IsEnd(j)' <=> line.kind \in EndEvents
      BY <1>1, <2>4 DEF IsEnd
    <3>3. IsSample(j)' <=> line.kind = "sample"
      BY <1>1, <2>4 DEF IsSample
    <3>4. CASE line.kind \in EndEvents /\ "run_end" \in cut
      BY <2>2, <3>2, <3>4
    <3>5. CASE line.kind = "sample" /\ timedOut
      BY <2>2, <3>1, <3>3, <3>5
    <3>6. QED BY <1>4, <2>3, <3>4, <3>5
  <2>5. CASE j # n
    <3>1. j \in DOMAIN log /\ (IsEnd(j)' <=> IsEnd(j)) /\ (IsSample(j)' <=> IsSample(j))
      BY <1>1, <2>5 DEF IsEnd, IsSample
    <3>2. CASE IsEnd(j) /\ "run_end" \in cut
      BY <2>2, <3>1, <3>2
    <3>3. CASE IsSample(j) /\ timedOut /\ \A k \in DOMAIN log : j < k => ~IsSample(k)
      <4>1. LateSample
        BY <2>1, <2>3, <3>1, <3>3 DEF LateSample
      <4>2. line.kind # "sample"
        BY <1>4, <2>3, <4>1 DEF EndEvents
      <4>3. \A k \in DOMAIN log' : j < k => ~IsSample(k)'
        BY <1>1, <3>1, <3>3, <4>2 DEF IsSample
      <4>4. QED BY <2>2, <3>1, <3>3, <4>3
    <3>4. QED BY <1>4, <2>1, <2>3, <3>1, <3>2, <3>3 DEF NothingAfterTheEnd
  <2>6. QED BY <2>4, <2>5
<1>5. QED BY <1>2, <1>3, <1>4

LEMMA LagAfterLine ==
  ASSUME TypeOK, NEW line \in Line, log' = Append(log, line)
  PROVE  /\ UNCHANGED labelNo /\ Newest(labelNo) /\ line.no <= labelNo => Newest(labelNo)'
         /\ LabelsLagByOne /\ (line.kind = "sample" => Overtaken(line.no)) => LabelsLagByOne'
         /\ UNCHANGED held /\ Overtaken(held.no) /\ line.kind # "sample" => Overtaken(held.no)'
<1>1. PICK n \in Nat :
        /\ DOMAIN log \subseteq Nat /\ DOMAIN log' = DOMAIN log \union {n}
        /\ log'[n] = line
        /\ \A i \in DOMAIN log : i < n /\ log'[i] = log[i]
  BY NewLine
<1>2. UNCHANGED labelNo /\ Newest(labelNo) /\ line.no <= labelNo => Newest(labelNo)'
  BY <1>1 DEF Newest
<1>3. LabelsLagByOne /\ (line.kind = "sample" => Overtaken(line.no)) => LabelsLagByOne'
  BY <1>1 DEF LabelsLagByOne, Overtaken, IsSample
<1>4. UNCHANGED held /\ Overtaken(held.no) /\ line.kind # "sample" => Overtaken(held.no)'
  BY <1>1 DEF Overtaken, IsSample
<1>5. QED BY <1>2, <1>3, <1>4

LEMMA CloseAfterLine ==
  ASSUME TypeOK, NEW line \in Line, log' = Append(log, line), UNCHANGED history
  PROVE  /\ line.kind # "check_start" /\ AllClosed => AllClosed'
         /\ line.kind # "check_start" /\ ClosedBut(check) /\ UNCHANGED check => ClosedBut(check)'
         /\ line.kind # "check_start" /\ LastStart(check) /\ UNCHANGED check => LastStart(check)'
         /\ line.kind = "check_end" /\ line.check = check /\ ClosedBut(check)
              => AllClosed'
         /\ line.kind = "check_start" /\ line.check = check /\ AllClosed /\ UNCHANGED check
              => ClosedBut(check)' /\ LastStart(check)'
         /\ StartsAreClosed
              /\ (line.kind = "check_start" => AllClosed)
              /\ (line.kind = "check_end" => LastStart(line.check))
              => StartsAreClosed'
<1>1. PICK n \in Nat :
        /\ DOMAIN log \subseteq Nat /\ DOMAIN log' = DOMAIN log \union {n}
        /\ log'[n] = line
        /\ \A i \in DOMAIN log : i < n /\ log'[i] = log[i]
  BY NewLine
<1>2. UNCHANGED raised
  BY DEF history
<1>3. \A i \in DOMAIN log : /\ IsStart(i)' <=> IsStart(i)
                            /\ IsClose(i)' <=> IsClose(i)
                            /\ Closed(i) => Closed(i)'
  BY <1>1, <1>2 DEF IsStart, IsClose, Closed
<1>4. (IsStart(n)' <=> line.kind = "check_start")
      /\ (IsClose(n)' <=> line.kind = "check_end")
  BY <1>1 DEF IsStart, IsClose
<1>5. line.kind # "check_start" /\ AllClosed => AllClosed'
  BY <1>1, <1>3, <1>4 DEF AllClosed
<1>6. line.kind # "check_start" /\ ClosedBut(check) /\ UNCHANGED check => ClosedBut(check)'
  BY <1>1, <1>3, <1>4 DEF ClosedBut
<1>7. line.kind # "check_start" /\ LastStart(check) /\ UNCHANGED check => LastStart(check)'
  BY <1>1, <1>3, <1>4 DEF LastStart
<1>8. ASSUME line.kind = "check_end", line.check = check, ClosedBut(check)
      PROVE  AllClosed'
  <2>1. \A i \in DOMAIN log : log[i].check = check => Closed(i)'
    BY <1>1, <1>4, <1>8 DEF Closed
  <2>2. QED BY <1>1, <1>3, <1>4, <1>8, <2>1 DEF AllClosed, ClosedBut
<1>9. line.kind = "check_start" /\ line.check = check /\ AllClosed /\ UNCHANGED check
        => ClosedBut(check)' /\ LastStart(check)'
  BY <1>1, <1>3, <1>4 DEF ClosedBut, LastStart, AllClosed
<1>10. ASSUME StartsAreClosed, line.kind = "check_start" => AllClosed,
              line.kind = "check_end" => LastStart(line.check)
       PROVE  StartsAreClosed'
  <2>1. ASSUME NEW i \in DOMAIN log', NEW j \in DOMAIN log', i < j, IsStart(i)', IsStart(j)'
        PROVE  \/ log'[i].check \in raised'
               \/ \E k \in DOMAIN log' :
                    i < k /\ k < j /\ IsClose(k)' /\ log'[k].check = log'[i].check
    <3>1. i \in DOMAIN log /\ IsStart(i) /\ log'[i] = log[i]
      BY <1>1, <1>3, <2>1
    <3>2. CASE j = n
      <4>1. Closed(i)
        BY <1>4, <1>10, <2>1, <3>1, <3>2 DEF AllClosed
      <4>2. CASE log[i].check \in raised
        BY <1>2, <3>1, <4>2
      <4>3. CASE \E k \in DOMAIN log : i < k /\ IsClose(k) /\ log[k].check = log[i].check
        BY <1>1, <1>3, <3>1, <3>2, <4>3
      <4>4. QED BY <4>1, <4>2, <4>3 DEF Closed
    <3>3. CASE j # n
      <4>1. j \in DOMAIN log /\ IsStart(j)
        BY <1>1, <1>3, <2>1, <3>3
      <4>2. CASE log[i].check \in raised
        BY <1>2, <3>1, <4>2
      <4>3. CASE \E k \in DOMAIN log : i < k /\ k < j /\ IsClose(k) /\ log[k].check = log[i].check
        BY <1>1, <1>3, <3>1, <4>3
      <4>4. QED BY <1>10, <2>1, <3>1, <4>1, <4>2, <4>3 DEF StartsAreClosed
    <3>4. QED BY <3>2, <3>3
  <2>2. ASSUME NEW k \in DOMAIN log', IsClose(k)'
        PROVE  \E i \in DOMAIN log' :
                 /\ i < k /\ IsStart(i)' /\ log'[i].check = log'[k].check
                 /\ \A j \in DOMAIN log' : i < j /\ j < k => ~IsStart(j)'
    <3>1. CASE k = n
      <4>1. LastStart(line.check)
        BY <1>4, <1>10, <2>2, <3>1
      <4>2. PICK i \in DOMAIN log :
              IsStart(i) /\ log[i].check = line.check /\ \A j \in DOMAIN log : i < j => ~IsStart(j)
        BY <4>1 DEF LastStart
      <4>3. QED BY <1>1, <1>3, <3>1, <4>2
    <3>2. CASE k # n
      <4>1. k \in DOMAIN log /\ IsClose(k) /\ log'[k] = log[k]
        BY <1>1, <1>3, <2>2, <3>2
      <4>2. PICK i \in DOMAIN log :
              /\ i < k /\ IsStart(i) /\ log[i].check = log[k].check
              /\ \A j \in DOMAIN log : i < j /\ j < k => ~IsStart(j)
        BY <1>10, <4>1 DEF StartsAreClosed
      <4>3. QED BY <1>1, <1>3, <4>1, <4>2
    <3>3. QED BY <3>1, <3>2
  <2>3. QED BY <2>1, <2>2 DEF StartsAreClosed
<1>11. QED BY <1>5, <1>6, <1>7, <1>8, <1>9, <1>10

(* The main thread writes an event, or finds the file closed. *)
LEMMA WriteLines ==
  ASSUME Inv, Write
  PROVE  (EndInv /\ NothingAfterTheEnd /\ LagInv /\ LabelsLagByOne /\ CloseInv /\ StartsAreClosed)'
<1> USE DEF Inv
<1>1. /\ pc = "write" /\ pc' = After(event) /\ WriteSample(mine)
      /\ UNCHANGED <<event, check, label, labelNo, handle, file, stopping>>
      /\ UNCHANGED <<thread, held, samples>> /\ UNCHANGED history
  BY DEF Write, state, sampler
<1>2. /\ TypeOK /\ mine \in Line /\ mine.kind = event /\ mine.check = check /\ mine.no = labelNo
      /\ handle /\ file # "none" /\ event \in MainEvents /\ labelNo \in Nat
  BY <1>1 DEF Control, ControlInv, TypeOK
<1>3. UNCHANGED <<started, raised, timedOut, interrupts, cut>>
  BY <1>1 DEF history
<1>4. Newest(labelNo) /\ (thread = "collect" => Overtaken(held.no))
  BY <1>1 DEF LagInv
<1>5. CASE file = "open"
  <2>1. log' = Append(log, mine)
    BY <1>1, <1>5 DEF WriteSample
  <2>2. EndLogged' <=> EndLogged \/ event \in EndEvents
    BY <1>1, <1>2, <2>1, EndAfterLine
  <2>3. LateSample' => LateSample
    BY <1>1, <1>2, <2>1, EndAfterLine DEF MainEvents, CheckEvents, EndEvents
  <2>4. EndLogged => event = "atexit" /\ "run_end" \in cut
    BY <1>1, <1>2 DEF EndInv
  <2>5. NothingAfterTheEnd'
    BY <1>1, <1>2, <2>1, <2>4, EndAfterLine DEF EndEvents
  <2>6. event \in EndEvents => stopping /\ (~Running \/ timedOut)
    BY <1>1, <1>2 DEF Control, ControlInv, InStop, InEvent, Joining
  <2>7. EndInv'
    <3>1. CASE event = "run_start"
      BY <1>1, <1>2, <1>3, <1>5, <2>2, <2>3, <2>4, <3>1 DEF EndInv, EndEvents, After
    <3>2. CASE event \in CheckEvents
      BY <1>1, <1>2, <1>3, <1>5, <2>2, <2>3, <2>4, <3>2 DEF EndInv, EndEvents, CheckEvents, After
    <3>3. CASE event \in EndEvents
      <4>1. pc' = "close"
        BY <1>1, <3>3 DEF After, EndEvents, CheckEvents
      <4>2. EndLogged' /\ stopping' /\ (~Running' \/ timedOut')
        BY <1>1, <1>3, <2>2, <2>6, <3>3 DEF Running
      <4>3. LateSample' => thread' # "collect"
        BY <1>1, <2>3 DEF EndInv
      <4>4. QED BY <1>1, <1>5, <4>1, <4>2, <4>3 DEF EndInv
    <3>4. QED BY <1>2, <3>1, <3>2, <3>3 DEF MainEvents
  <2>8. Newest(labelNo)'
    BY <1>1, <1>2, <1>4, <2>1, LagAfterLine
  <2>9. mine.kind # "sample"
    BY <1>2 DEF MainEvents, CheckEvents, EndEvents
  <2>10. LagInv'
    BY <1>1, <1>2, <1>4, <2>1, <2>8, <2>9, LagAfterLine DEF LagInv
  <2>11. LabelsLagByOne'
    BY <1>2, <2>1, <2>9, LagAfterLine
  <2>12. event = "check_start" => AllClosed
    BY <1>1 DEF CloseInv, InSuite, InCheck, InEvent, CheckEvents
  <2>13. event = "check_end" => ClosedBut(check) /\ LastStart(check)
    BY <1>1, <1>2 DEF CloseInv, InCheck, InEvent
  <2>14. StartsAreClosed'
    BY <1>1, <1>2, <2>1, <2>12, <2>13, CloseAfterLine
  <2>15. CloseInv'
    <3>1. CASE event = "run_start"
      <4>1. AllClosed
        BY <1>1, <3>1 DEF CloseInv, Prelude
      <4>2. AllClosed'
        BY <1>1, <1>2, <2>1, <3>1, <4>1, CloseAfterLine
      <4>3. pc' = "spawn"
        BY <1>1, <3>1 DEF After, CheckEvents, EndEvents
      <4>4. QED BY <4>2, <4>3 DEF CloseInv, InCheck, InEvent
    <3>2. CASE event = "check_start"
      <4>1. ClosedBut(check)' /\ LastStart(check)'
        BY <1>1, <1>2, <2>1, <2>12, <3>2, CloseAfterLine
      <4>2. pc' = "working"
        BY <1>1, <3>2 DEF After, CheckEvents, EndEvents
      <4>3. QED BY <4>1, <4>2 DEF CloseInv, Prelude, InSuite, InCheck
    <3>3. CASE event = "check_end"
      <4>1. AllClosed'
        BY <1>1, <1>2, <2>1, <2>13, <3>3, CloseAfterLine
      <4>2. pc' = "unlabel"
        BY <1>1, <3>3 DEF After, CheckEvents, EndEvents
      <4>3. QED BY <4>1, <4>2 DEF CloseInv, InCheck, InEvent
    <3>4. CASE event \in EndEvents
      <4>1. pc' = "close"
        BY <1>1, <3>4 DEF After, EndEvents, CheckEvents
      <4>2. QED BY <4>1 DEF CloseInv, Prelude, InSuite, InCheck, InEvent
    <3>5. QED BY <1>2, <3>1, <3>2, <3>3, <3>4 DEF MainEvents, CheckEvents
  <2>16. QED BY <2>5, <2>7, <2>10, <2>11, <2>14, <2>15
<1>6. CASE file # "open"
  <2>1. file = "closed" /\ UNCHANGED log
    BY <1>1, <1>2, <1>6 DEF WriteSample, TypeOK
  <2>2. event \in EndEvents
    BY <1>1, <1>2, <2>1 DEF Control, ControlInv, Prelude, InSuite, InEvent, MainEvents
  <2>3. pc' = "close"
    BY <1>1, <2>2 DEF After, EndEvents, CheckEvents
  <2>4. EndLogged
    BY <1>1, <2>1 DEF EndInv
  <2>5. EndInv'
    BY <1>1, <1>3, <2>1, <2>3, <2>4, SameLines DEF EndInv, Running
  <2>6. LagInv'
    BY <1>1, <1>2, <1>4, <2>1, SameNumbers DEF LagInv
  <2>7. CloseInv'
    BY <2>3 DEF CloseInv, Prelude, InSuite, InCheck, InEvent
  <2>8. QED BY <1>3, <2>1, <2>5, <2>6, <2>7, SameLines
<1>7. QED BY <1>5, <1>6

(* The sampler writes a sample, or finds the file closed. *)
LEMMA SamplerWriteLines ==
  ASSUME Inv, SamplerWrite
  PROVE  (EndInv /\ NothingAfterTheEnd /\ LagInv /\ LabelsLagByOne /\ CloseInv /\ StartsAreClosed)'
<1> USE DEF Inv
<1>1. /\ thread = "collect" /\ thread' = "loop" /\ WriteSample(held)
      /\ UNCHANGED <<pc, event, check, mine>>
      /\ UNCHANGED <<label, labelNo, handle, file, stopping>> /\ UNCHANGED history
  BY DEF SamplerWrite, main, state
<1>2. /\ TypeOK /\ held \in Line /\ held.kind = "sample" /\ held.no <= labelNo
      /\ labelNo \in Nat /\ pc # "killed"
  BY <1>1 DEF Control, ControlInv, TypeOK
<1>3. UNCHANGED <<started, raised, timedOut, interrupts, cut>>
  BY <1>1 DEF history
<1>4. Newest(labelNo) /\ Overtaken(held.no)
  BY <1>1, <1>2 DEF LagInv
<1>5. ~LateSample /\ (EndLogged => timedOut)
  BY <1>1 DEF EndInv, Running
<1>6. CASE file = "open"
  <2>1. log' = Append(log, held)
    BY <1>1, <1>6 DEF WriteSample
  <2>2. EndLogged' <=> EndLogged
    BY <1>1, <1>2, <2>1, EndAfterLine DEF EndEvents
  <2>3. EndInv'
    BY <1>1, <1>3, <1>5, <1>6, <2>2 DEF EndInv, Running
  <2>4. NothingAfterTheEnd'
    BY <1>1, <1>2, <1>5, <2>1, EndAfterLine
  <2>5. LagInv'
    BY <1>1, <1>2, <1>4, <2>1, LagAfterLine DEF LagInv
  <2>6. LabelsLagByOne'
    BY <1>2, <1>4, <2>1, LagAfterLine
  <2>7. StartsAreClosed'
    BY <1>1, <1>2, <2>1, CloseAfterLine
  <2>8. CloseInv'
    BY <1>1, <1>2, <2>1, CloseAfterLine DEF CloseInv, Prelude, InSuite, InCheck, InEvent
  <2>9. QED BY <2>3, <2>4, <2>5, <2>6, <2>7, <2>8
<1>7. CASE file # "open"
  <2>1. UNCHANGED log
    BY <1>1, <1>7 DEF WriteSample
  <2>2. EndInv'
    BY <1>1, <1>3, <1>5, <2>1, SameLines DEF EndInv, Running
  <2>3. LagInv'
    BY <1>1, <1>2, <1>4, <2>1, SameNumbers DEF LagInv
  <2>4. CloseInv'
    BY <1>1, <1>3, <2>1, SameLines DEF CloseInv, Prelude, InSuite, InCheck, InEvent
  <2>5. QED BY <1>3, <2>1, <2>2, <2>3, <2>4, SameLines
<1>8. QED BY <1>6, <1>7

-----------------------------------------------------------------------------
(* The invariant *)

LEMMA InitInv == Init => Inv
<1> SUFFICES ASSUME Init PROVE Inv
  OBVIOUS
<1>1. DOMAIN log = {} /\ log = <<>>
  BY DEF Init
<1>2. ~EndLogged /\ ~LateSample /\ NothingAfterTheEnd /\ LabelsLagByOne /\ AllClosed
      /\ StartsAreClosed /\ Newest(labelNo)
  BY <1>1 DEF EndLogged, LateSample, NothingAfterTheEnd, LabelsLagByOne, AllClosed,
              StartsAreClosed, Newest
<1>3. EndInv /\ LagInv /\ CloseInv
  BY <1>1, <1>2 DEF Init, EndInv, LagInv, CloseInv, InCheck, InEvent
<1>4. QED BY <1>2, <1>3, ControlInit DEF Inv, Control

LEMMA StutterInv == Inv /\ UNCHANGED vars => Inv'
<1> SUFFICES ASSUME Inv, UNCHANGED vars PROVE Inv'
  OBVIOUS
<1>1. UNCHANGED <<main, state, sampler, log, missing, history>>
  BY DEF vars
<1>2. UNCHANGED <<pc, event, check, mine, label, labelNo, handle, file, stopping>>
  BY <1>1 DEF main, state
<1>3. UNCHANGED <<thread, held, samples, log, missing, started, raised, timedOut, interrupts, cut>>
  BY <1>1 DEF sampler, history
<1>4. Control'
  BY <1>2, <1>3 DEF Inv, Control, TypeOK, ControlInv, SamplerStopsBeforeCleanup, Prelude, InStop,
                    InEvent, InSuite, Joining, Running
<1>5. EndInv'
  BY <1>2, <1>3, SameLines DEF Inv, EndInv, Running
<1>6. LagInv'
  BY <1>2, <1>3 DEF Inv, LagInv, Newest, Overtaken, IsSample
<1>7. CloseInv'
  BY <1>2, <1>3, SameLines DEF Inv, CloseInv, Prelude, InSuite, InCheck, InEvent
<1>8. QED BY <1>3, <1>4, <1>5, <1>6, <1>7, SameLines DEF Inv, Control

LEMMA MainStepInv == Inv /\ MainStep => Inv'
<1> SUFFICES ASSUME Inv, MainStep PROVE Inv'
  OBVIOUS
<1> USE DEF Inv
<1>0. Control
  BY DEF Control
<1>1. CASE OpenFile
  BY <1>0, <1>1, OpenFileControl, OpenFileLines DEF Control
<1>2. CASE Collect
  BY <1>0, <1>2, CollectControl, CollectLines DEF Control
<1>3. CASE Write
  BY <1>0, <1>3, WriteControl, WriteLines DEF Control
<1>4. CASE SpawnSampler
  BY <1>0, <1>4, SpawnSamplerControl, SpawnSamplerLines DEF Control
<1>5. CASE EnterSuite
  BY <1>0, <1>5, EnterSuiteControl, EnterSuiteLines DEF Control
<1>6. CASE \E c \in Checks : BeginCheck(c)
  BY <1>0, <1>6, BeginCheckControl, BeginCheckLines DEF Control
<1>7. CASE EndCheck
  BY <1>0, <1>7, EndCheckControl, EndCheckLines DEF Control
<1>8. CASE RaiseInCheck
  BY <1>0, <1>8, RaiseInCheckControl, RaiseInCheckLines DEF Control
<1>9. CASE ResetLabel
  BY <1>0, <1>9, ResetLabelControl, ResetLabelLines DEF Control
<1>10. CASE EndRun
  BY <1>0, <1>10, EndRunControl, EndRunLines DEF Control
<1>11. CASE Join
  BY <1>0, <1>11, JoinControl, JoinLines DEF Control
<1>12. CASE JoinTimesOut
  BY <1>0, <1>12, JoinTimesOutControl, JoinTimesOutLines DEF Control
<1>13. CASE CloseFile
  BY <1>0, <1>13, CloseFileControl, CloseFileLines DEF Control
<1>14. CASE ClearState
  BY <1>0, <1>14, ClearStateControl, ClearStateLines DEF Control
<1>15. CASE CleanupAllSessions
  BY <1>0, <1>15, CleanupAllSessionsControl, CleanupAllSessionsLines DEF Control
<1>16. QED
  BY <1>1, <1>2, <1>3, <1>4, <1>5, <1>6, <1>7, <1>8, <1>9, <1>10, <1>11, <1>12, <1>13, <1>14, <1>15 DEF MainStep

LEMMA SamplerStepInv == Inv /\ SamplerStep => Inv'
<1> SUFFICES ASSUME Inv, SamplerStep PROVE Inv'
  OBVIOUS
<1> USE DEF Inv
<1>0. Control
  BY DEF Control
<1>1. CASE SamplerCollect
  BY <1>0, <1>1, SamplerCollectControl, SamplerCollectLines DEF Control
<1>2. CASE SamplerWrite
  BY <1>0, <1>2, SamplerWriteControl, SamplerWriteLines DEF Control
<1>3. CASE SamplerEnds
  BY <1>0, <1>3, SamplerEndsControl, SamplerEndsLines DEF Control
<1>4. QED BY <1>1, <1>2, <1>3 DEF SamplerStep

LEMMA InvHolds == Spec => []Inv
<1>1. Inv /\ [Next]_vars => Inv'
  <2> SUFFICES ASSUME Inv, [Next]_vars PROVE Inv'
    OBVIOUS
  <2>0. Control
    BY DEF Inv, Control
  <2>1. CASE MainStep
    BY <2>1, MainStepInv
  <2>2. CASE SamplerStep
    BY <2>2, SamplerStepInv
  <2>3. CASE Interrupt
    BY <2>0, <2>3, InterruptControl, InterruptLines DEF Inv, Control
  <2>4. CASE Kill
    BY <2>0, <2>4, KillControl, KillLines DEF Inv, Control
  <2>5. CASE Done
    BY <2>5, StutterInv DEF Done
  <2>6. CASE UNCHANGED vars
    BY <2>6, StutterInv
  <2>7. QED BY <2>1, <2>2, <2>3, <2>4, <2>5, <2>6 DEF Next
<1>2. QED BY <1>1, InitInv, PTL DEF Spec

-----------------------------------------------------------------------------

(* Every variable of the two threads keeps to its type, for every number of  *)
(* checks, samples and interrupts.                                           *)
THEOREM TypesHold == Spec => []TypeOK
<1>1. Inv => TypeOK
  BY DEF Inv
<1>2. QED BY <1>1, InvHolds, PTL

(* A file that was opened ends with a marker, however the run ended, short of *)
(* a kill, an interrupted exit handler, or a disk that refused the marker,    *)
(* and at most one late sample follows a marker (telemetry.stop).             *)
THEOREM EndsAreMarked == Spec => []EndIsMarked
<1>1. Inv => EndIsWritten
  <2> SUFFICES ASSUME Inv, pc = "exited", file # "none", "atexit" \notin cut
               PROVE  \/ \E i \in DOMAIN log \ missing : IsEnd(i)
                      \/ \E i \in missing : IsEnd(i)
    BY DEF EndIsWritten
  <2>1. file = "closed"
    BY DEF Inv, EndInv, TypeOK
  <2>2. EndLogged
    BY <2>1 DEF Inv, EndInv
  <2>3. QED BY <2>2 DEF EndLogged
<1>2. Inv => EndIsMarked
  BY <1>1 DEF Inv, EndIsMarked
<1>3. QED BY <1>2, InvHolds, PTL

(* After an event at most one sample carries an older label                  *)
(* (telemetry._collect_sample).                                              *)
THEOREM LabelsLagByOneOnly == Spec => []LabelsLagByOne
<1>1. Inv => LabelsLagByOne
  BY DEF Inv
<1>2. QED BY <1>1, InvHolds, PTL

(* The events of checks are bracketed (check_runner.run_single_check).       *)
THEOREM StartsHaveEnds == Spec => []StartsAreClosed
<1>1. Inv => StartsAreClosed
  BY DEF Inv
<1>2. QED BY <1>1, InvHolds, PTL

(* The sampler has stopped when the lists it reads are cleared (cli.main).   *)
THEOREM SamplerStopsFirst == Spec => []SamplerStopsBeforeCleanup
<1>1. Inv => SamplerStopsBeforeCleanup
  BY DEF Inv
<1>2. QED BY <1>1, InvHolds, PTL
================================================================================
