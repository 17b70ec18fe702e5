------------------------------ MODULE LineBuffer ------------------------------
(***************************************************************************)
(* The line buffer between the output of Claude and the events it tells of *)
(* (streaming.process_jsonl_buffer).  Output arrives in chunks that end    *)
(* anywhere.  An event is one line: Open, filling, and a last byte that    *)
(* says what kind of event it is; any other line is not JSON, or not an    *)
(* object, and is skipped.                                                 *)
(***************************************************************************)
EXTENDS Naturals, Sequences, Subsequence

CONSTANTS
  Kinds,          (* the kinds of events                                    *)
  MaxBufferSize   (* _MAX_BUFFER_SIZE                                       *)

Open    == "{"
Fill    == "."
Newline == "\n"
Bytes   == Kinds \union {Open, Fill, Newline}

ASSUME LineBufferAssumption ==
  MaxBufferSize \in Nat \ {0} /\ {Open, Fill, Newline} \intersect Kinds = {}

(* The line that ends before the newline at e. *)
LineBefore(bytes, e) ==
  LET start == CHOOSE s \in 1..e : /\ s = 1 \/ bytes[s - 1] = Newline
                                   /\ \A i \in s..(e - 1) : bytes[i] # Newline
  IN SubSeq(bytes, start, e - 1)

(* Variation: whatever is not blank is taken for an event. *)
IsLine(line) == Len(line) > 0

(* _process_single_line: the line is a JSON object. *)
IsEvent(line) ==
  /\ Len(line) >= 2
  /\ line[1] = Open /\ line[Len(line)] \in Kinds
  /\ \A i \in 2..(Len(line) - 1) : line[i] = Fill

(* The events of the complete lines, oldest first. *)
Events(bytes) ==
  LET ends == KeepIn([i \in DOMAIN bytes |-> i],
                     {i \in DOMAIN bytes : bytes[i] = Newline /\ IsEvent(LineBefore(bytes, i))})
  IN [j \in DOMAIN ends |-> bytes[ends[j] - 1]]

(* What follows the last newline. *)
Remainder(bytes) ==
  LET last == CHOOSE e \in 0..Len(bytes) : /\ e = 0 \/ bytes[e] = Newline
                                           /\ \A i \in (e + 1)..Len(bytes) : bytes[i] # Newline
  IN SubSeq(bytes, last + 1, Len(bytes))

(* Variation: the cap is applied to what has arrived. *)
ProcessCappedFirst(bytes, max) ==
  IF max > 0 /\ Len(bytes) > max THEN [events |-> <<>>, rest |-> <<>>]
  ELSE [events |-> Events(bytes), rest |-> Remainder(bytes)]

(* process_jsonl_buffer: the complete lines are taken, then a rest that is   *)
(* too long is thrown away.  A cap of 0 is none.                             *)
ProcessJsonlBuffer(bytes, max) ==
  LET rest == Remainder(bytes)
  IN [events |-> Events(bytes),
      rest   |-> IF max > 0 /\ Len(rest) > max THEN <<>> ELSE rest]
=============================================================================
