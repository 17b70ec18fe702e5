--------------------------- MODULE ClaudeCallProofs ---------------------------
(***************************************************************************)
(* Proofs about ClaudeCall, for any command line, plans, models and        *)
(* chunks, and for output of any length: what the functions on sequences   *)
(* compute, then one invariant for the attempts of a call (CallInv), one   *)
(* for the bytes of an attempt (StreamInv), and one for the order of the   *)
(* calls (SelectionInv).                                                   *)
(***************************************************************************)
EXTENDS ClaudeCall, WellFoundedInduction, TLAPS

-----------------------------------------------------------------------------
(* Induction.  The library's induction theorems take an operator; for a set  *)
(* of numbers the principle follows from the order being well-founded.       *)

LEMMA NatMin ==
  ASSUME NEW T \in SUBSET Nat, T # {}
  PROVE  \E x \in T : \A y \in T : x <= y
<1>1. \E x \in T : \A y \in T : ~ (<<y, x>> \in OpToRel(<, Nat))
  BY NatLessThanWellFounded, WFMin, Zenon
<1>2. PICK x \in T : \A y \in T : ~ (<<y, x>> \in OpToRel(<, Nat))
  BY <1>1
<1>3. \A y \in T : ~(y < x)
  BY <1>2 DEF OpToRel
<1>4. QED BY <1>3

LEMMA NatInd ==
  ASSUME NEW S, 0 \in S, \A n \in Nat : n \in S => n + 1 \in S
  PROVE  Nat \subseteq S
<1> DEFINE T == {n \in Nat : n \notin S}
<1>1. CASE T = {}
  BY <1>1
<1>2. CASE T # {}
  <2>1. T \in SUBSET Nat
    OBVIOUS
  <2>2. PICK x \in T : \A y \in T : x <= y
    BY <1>2, <2>1, NatMin
  <2>3. x # 0 /\ x \in Nat /\ x - 1 \in Nat
    OBVIOUS
  <2>4. x - 1 \in S
    BY <2>2, <2>3
  <2>5. (x - 1) + 1 \in S
    BY <2>3, <2>4
  <2>6. QED BY <2>3, <2>5
<1>3. QED BY <1>1, <1>2

(* What steps make of a value, one after the other. *)
IsChain(g, n, base, step) ==
  g[0] = base /\ \A i \in 1..n : g[i] = step[i][g[i - 1]]

(* A function that is defined by recursion on 0..N exists. *)
LEMMA Recursion ==
  ASSUME NEW V, NEW base \in V, NEW N \in Nat, NEW step \in [1..N -> [V -> V]]
  PROVE  \E g \in [0..N -> V] : IsChain(g, N, base, step)
<1> DEFINE Good(n, g) == g[0] = base /\ \A i \in 1..n : g[i] = step[i][g[i - 1]]
           A == {n \in Nat : n <= N => \E g \in [0..n -> V] : Good(n, g)}
<1>1. 0 \in A
  <2>1. Good(0, [i \in 0..0 |-> base]) /\ [i \in 0..0 |-> base] \in [0..0 -> V]
    OBVIOUS
  <2>2. QED BY <2>1
<1>2. ASSUME NEW n \in Nat, n \in A
      PROVE  n + 1 \in A
  <2>1. SUFFICES ASSUME n + 1 <= N
                 PROVE  \E g \in [0..(n + 1) -> V] : Good(n + 1, g)
    OBVIOUS
  <2>2. PICK g \in [0..n -> V] : Good(n, g)
    BY <1>2, <2>1
  <2> DEFINE h == [i \in 0..(n + 1) |-> IF i = n + 1 THEN step[n + 1][g[n]] ELSE g[i]]
  <2>3. step[n + 1] \in [V -> V] /\ g[n] \in V
    BY <2>1
  <2>4. h \in [0..(n + 1) -> V]
    BY <2>3
  <2>5. h[0] = base
    BY <2>2
  <2>6. ASSUME NEW i \in 1..(n + 1)
        PROVE  h[i] = step[i][h[i - 1]]
    <3>1. CASE i = n + 1
      BY <3>1
    <3>2. CASE i # n + 1
      BY <2>2, <3>2
    <3>3. QED BY <3>1, <3>2
  <2> HIDE DEF h
  <2>7. QED BY <2>4, <2>5, <2>6
<1> HIDE DEF A
<1>3. Nat \subseteq A
  BY <1>1, <1>2, NatInd
<1>4. \E g \in [0..N -> V] : Good(N, g)
  BY <1>3 DEF A
<1>5. QED BY <1>4 DEF IsChain

-----------------------------------------------------------------------------
(* Subsequences *)

LEMMA SeqOfMore ==
  ASSUME NEW S, NEW T, S \subseteq T, NEW seq \in Seq(S)
  PROVE  seq \in Seq(T)
<1>1. seq = [i \in 1..Len(seq) |-> seq[i]] /\ Len(seq) \in Nat /\ \A i \in 1..Len(seq) : seq[i] \in T
  OBVIOUS
<1>2. QED BY <1>1

LEMMA SuffixIs ==
  ASSUME NEW T, NEW s \in Seq(T), NEW n \in 1..Len(s)
  PROVE  SubSeq(s, n + 1, Len(s)) = [b \in 1..(Len(s) - n) |-> s[n + b]]
<1>1. Len(s) \in Nat /\ n \in Nat
  OBVIOUS
<1>2. QED BY <1>1

LEMMA ConcatIs ==
  ASSUME NEW T, NEW s \in Seq(T), NEW t \in Seq(T)
  PROVE  /\ s \o t \in Seq(T) /\ Len(s \o t) = Len(s) + Len(t)
         /\ \A b \in 1..Len(s) : (s \o t)[b] = s[b]
         /\ \A b \in 1..Len(t) : (s \o t)[Len(s) + b] = t[b]
<1>1. s \o t \in Seq(T) /\ Len(s \o t) = Len(s) + Len(t)
  OBVIOUS
<1>2. \A b \in 1..Len(s) : (s \o t)[b] = s[b]
  OBVIOUS
<1>3. \A b \in 1..Len(t) : (s \o t)[Len(s) + b] = t[b]
  OBVIOUS
<1>4. QED BY <1>1, <1>2, <1>3

(* What KeepIn goes through. *)
IsKept(seq, S, kept) ==
  /\ kept[0] = <<>>
  /\ \A n \in 1..Len(seq) :
       kept[n] = IF seq[n] \in S THEN Append(kept[n - 1], seq[n]) ELSE kept[n - 1]
  /\ KeepIn(seq, S) = kept[Len(seq)]

LEMMA KeptExists ==
  ASSUME NEW T, NEW seq \in Seq(T), NEW S
  PROVE  \E kept \in [0..Len(seq) -> Seq(T)] : IsKept(seq, S, kept)
<1> DEFINE N == Len(seq)
           step == [n \in 1..N |-> [s \in Seq(T) |-> IF seq[n] \in S THEN Append(s, seq[n]) ELSE s]]
           Body(g) == [n \in 0..N |-> IF n = 0 THEN <<>>
                                      ELSE IF seq[n] \in S THEN Append(g[n - 1], seq[n])
                                           ELSE g[n - 1]]
           kept == CHOOSE g : g = Body(g)
<1>1. N \in Nat /\ \A n \in 1..N : seq[n] \in T
  OBVIOUS
<1>2. /\ step \in [1..N -> [Seq(T) -> Seq(T)]]
      /\ \A n \in 1..N : \A s \in Seq(T) :
           step[n][s] = IF seq[n] \in S THEN Append(s, seq[n]) ELSE s
  BY <1>1
<1>3. <<>> \in Seq(T)
  OBVIOUS
<1>4. KeepIn(seq, S) = kept[N]
  BY DEF KeepIn
<1> HIDE DEF step, N
<1>5. \E g \in [0..N -> Seq(T)] : g[0] = <<>> /\ \A n \in 1..N : g[n] = step[n][g[n - 1]]
  <2> DEFINE V == Seq(T)
  <2>1. N \in Nat /\ <<>> \in V /\ step \in [1..N -> [V -> V]]
    BY <1>1, <1>2, <1>3
  <2> HIDE DEF V
  <2>2. \E g \in [0..N -> V] : IsChain(g, N, <<>>, step)
    BY <2>1, Recursion
  <2>3. QED BY <2>2 DEF V, IsChain
<1>6. PICK g \in [0..N -> Seq(T)] : g[0] = <<>> /\ \A n \in 1..N : g[n] = step[n][g[n - 1]]
  BY <1>5
<1>7. \A n \in 1..N : g[n - 1] \in Seq(T) /\ n # 0
  BY <1>1, <1>6
<1>8. \A n \in 1..N : g[n] = IF seq[n] \in S THEN Append(g[n - 1], seq[n]) ELSE g[n - 1]
  BY <1>2, <1>6, <1>7
<1>9. g = Body(g)
  <2>1. g = [n \in 0..N |-> g[n]]
    BY <1>6
  <2>2. \A n \in 0..N : n = 0 \/ n \in 1..N
    BY <1>1
  <2>3. QED BY <1>6, <1>8, <2>1, <2>2, Zenon
<1>10. kept = Body(kept)
  <2> HIDE DEF Body
  <2> QED BY <1>9
<1>11. /\ DOMAIN kept = 0..N /\ kept = [n \in 0..N |-> kept[n]]
       /\ kept[0] = <<>>
       /\ \A n \in 1..N : kept[n] = IF seq[n] \in S THEN Append(kept[n - 1], seq[n])
                                    ELSE kept[n - 1]
  <2> HIDE DEF kept
  <2>1. kept = [n \in 0..N |-> IF n = 0 THEN <<>>
                               ELSE IF seq[n] \in S THEN Append(kept[n - 1], seq[n])
                                    ELSE kept[n - 1]]
    BY <1>10
  <2>2. DOMAIN kept = 0..N
    BY <2>1, Zenon
  <2>3. kept = [n \in 0..N |-> kept[n]]
    BY <2>1, <2>2
  <2>4. \A n \in 0..N : kept[n] = IF n = 0 THEN <<>>
                                  ELSE IF seq[n] \in S THEN Append(kept[n - 1], seq[n])
                                       ELSE kept[n - 1]
    BY <2>1, Zenon
  <2>5. \A n \in 1..N : n \in 0..N /\ n # 0
    BY <1>1
  <2>6. 0 \in 0..N
    BY <1>1
  <2>7. QED BY <2>2, <2>3, <2>4, <2>5, <2>6
<1>12. \A n \in 0..N : kept[n] \in Seq(T)
  <2> DEFINE A == {n \in Nat : n <= N => kept[n] \in Seq(T)}
  <2> HIDE DEF kept
  <2>1. 0 \in A
    BY <1>3, <1>11
  <2>2. ASSUME NEW n \in Nat, n \in A
        PROVE  n + 1 \in A
    <3>1. SUFFICES ASSUME n + 1 <= N PROVE kept[n + 1] \in Seq(T)
      OBVIOUS
    <3>2. n + 1 \in 1..N /\ (n + 1) - 1 = n /\ kept[n] \in Seq(T) /\ seq[n + 1] \in T
      BY <1>1, <2>2, <3>1
    <3>3. kept[n + 1] = IF seq[n + 1] \in S THEN Append(kept[n], seq[n + 1]) ELSE kept[n]
      BY <1>11, <3>2
    <3>4. QED BY <3>2, <3>3
  <2>3. Nat \subseteq A
    <3> HIDE DEF A
    <3> QED BY <2>1, <2>2, NatInd
  <2>4. QED BY <1>1, <2>3
<1>13. kept \in [0..N -> Seq(T)]
  <2> HIDE DEF kept
  <2> QED BY <1>11, <1>12
<1>14. QED
  <2> HIDE DEF kept
  <2> QED BY <1>4, <1>11, <1>13 DEF N, IsKept

(* The indices of the elements that are kept. *)
Increasing(h) == \A i, j \in DOMAIN h : i < j => h[i] < h[j]

KeptAt(seq, S, h) ==
  /\ Increasing(h)
  /\ \A k \in DOMAIN h : KeepIn(seq, S)[k] = seq[h[k]] /\ seq[h[k]] \in S
  /\ \A i \in 1..Len(seq) : seq[i] \in S => \E k \in DOMAIN h : h[k] = i

LEMMA KeepInIs ==
  ASSUME NEW T, NEW seq \in Seq(T), NEW S
  PROVE  /\ KeepIn(seq, S) \in Seq(T)
         /\ \E h \in [1..Len(KeepIn(seq, S)) -> 1..Len(seq)] : KeptAt(seq, S, h)
<1> DEFINE N == Len(seq)
<1>1. PICK kept \in [0..N -> Seq(T)] :
        /\ kept[0] = <<>>
        /\ \A n \in 1..N : kept[n] = IF seq[n] \in S THEN Append(kept[n - 1], seq[n])
                                     ELSE kept[n - 1]
        /\ KeepIn(seq, S) = kept[N]
  <2>1. PICK kept \in [0..Len(seq) -> Seq(T)] : IsKept(seq, S, kept)
    BY KeptExists
  <2>2. QED BY <2>1 DEF IsKept
<1>2. N \in Nat /\ \A n \in 1..N : seq[n] \in T
  OBVIOUS
<1> HIDE DEF N
<1> DEFINE From(n, h) ==
             /\ Increasing(h)
             /\ \A k \in DOMAIN h : kept[n][k] = seq[h[k]] /\ seq[h[k]] \in S
             /\ \A i \in 1..n : seq[i] \in S => \E k \in DOMAIN h : h[k] = i
           A == {n \in Nat : n <= N => \E h \in [1..Len(kept[n]) -> 1..n] : From(n, h)}
<1>3. 0 \in A
  <2> DEFINE none == [k \in 1..0 |-> k]
  <2>1. Len(kept[0]) = 0 /\ none \in [1..0 -> 1..0] /\ From(0, none)
    BY <1>1 DEF Increasing
  <2>2. QED BY <2>1
<1>4. ASSUME NEW n \in Nat, n \in A
      PROVE  n + 1 \in A
  <2>1. SUFFICES ASSUME n + 1 <= N
                 PROVE  \E h \in [1..Len(kept[n + 1]) -> 1..(n + 1)] : From(n + 1, h)
    OBVIOUS
  <2>2. PICK h \in [1..Len(kept[n]) -> 1..n] : From(n, h)
    <3>1. n <= N
      BY <1>2, <2>1
    <3> HIDE DEF From
    <3>2. QED BY <1>4, <3>1
  <2>3. kept[n] \in Seq(T) /\ seq[n + 1] \in T
        /\ kept[n + 1] = IF seq[n + 1] \in S THEN Append(kept[n], seq[n + 1]) ELSE kept[n]
    <3>1. n + 1 \in 1..N /\ (n + 1) - 1 = n /\ n \in 0..N
      BY <1>2, <2>1
    <3>2. QED BY <1>1, <1>2, <3>1
  <2>4. CASE seq[n + 1] \in S
    <3> DEFINE m == Len(kept[n])
               g == [k \in 1..(m + 1) |-> IF k = m + 1 THEN n + 1 ELSE h[k]]
    <3>1. m \in Nat /\ Len(kept[n + 1]) = m + 1 /\ kept[n + 1][m + 1] = seq[n + 1]
          /\ \A k \in 1..m : kept[n + 1][k] = kept[n][k]
      BY <2>3, <2>4
    <3>2. \A k \in 1..m : h[k] \in 1..n
      OBVIOUS
    <3> HIDE DEF m
    <3>3. g \in [1..(m + 1) -> 1..(n + 1)]
      BY <3>1, <3>2
    <3>4. DOMAIN h = 1..m
      BY DEF m
    <3>5. Increasing(g)
      BY <2>2, <3>1, <3>2, <3>4 DEF Increasing
    <3>6. \A k \in DOMAIN g : kept[n + 1][k] = seq[g[k]] /\ seq[g[k]] \in S
      BY <2>2, <2>4, <3>1, <3>2, <3>4
    <3>7. \A i \in 1..(n + 1) : seq[i] \in S => \E k \in DOMAIN g : g[k] = i
      <4>1. ASSUME NEW i \in 1..(n + 1), seq[i] \in S
            PROVE  \E k \in DOMAIN g : g[k] = i
        <5>1. CASE i = n + 1
          <6>1. m + 1 \in DOMAIN g /\ g[m + 1] = i
            BY <3>1, <5>1
          <6>2. QED BY <6>1
        <5>2. CASE i # n + 1
          <6>1. PICK k \in 1..m : h[k] = i
            BY <2>2, <3>4, <4>1, <5>2
          <6>2. k \in DOMAIN g /\ g[k] = i
            BY <3>1, <6>1
          <6>3. QED BY <6>2
        <5>3. QED BY <5>1, <5>2
      <4>2. QED BY <4>1
    <3> HIDE DEF g
    <3>8. QED BY <3>1, <3>3, <3>5, <3>6, <3>7
  <2>5. CASE seq[n + 1] \notin S
    <3>1. h \in [1..Len(kept[n + 1]) -> 1..(n + 1)]
      BY <2>3, <2>5
    <3>2. From(n + 1, h)
      BY <2>2, <2>3, <2>5
    <3>3. QED BY <3>1, <3>2
  <2>6. QED BY <2>4, <2>5
<1>5. Nat \subseteq A
  <2> HIDE DEF A
  <2> QED BY <1>3, <1>4, NatInd
<1>6. PICK h \in [1..Len(kept[N]) -> 1..N] : From(N, h)
  <2> HIDE DEF From
  <2>1. N <= N
    BY <1>2
  <2>2. N \in A
    <3> HIDE DEF A
    <3> QED BY <1>2, <1>5
  <2>3. QED BY <2>1, <2>2
<1>7. KeptAt(seq, S, h)
  BY <1>1, <1>6 DEF KeptAt, N
<1>8. QED BY <1>1, <1>2, <1>6, <1>7 DEF N

LEMMA KeepInAll ==
  ASSUME NEW T, NEW seq \in Seq(T), NEW S, \A i \in 1..Len(seq) : seq[i] \in S
  PROVE  KeepIn(seq, S) = seq
<1> DEFINE N == Len(seq)
<1>1. PICK kept \in [0..Len(seq) -> Seq(T)] : IsKept(seq, S, kept)
  BY KeptExists
<1>2. /\ N \in Nat /\ kept \in [0..N -> Seq(T)] /\ kept[0] = <<>> /\ KeepIn(seq, S) = kept[N]
      /\ \A n \in 1..N : kept[n] = Append(kept[n - 1], seq[n]) /\ seq[n] \in T
  <2>1. \A n \in 1..N : seq[n] \in S /\ seq[n] \in T
    OBVIOUS
  <2>2. /\ kept[0] = <<>> /\ KeepIn(seq, S) = kept[N]
        /\ \A n \in 1..N : kept[n] = IF seq[n] \in S THEN Append(kept[n - 1], seq[n])
                                     ELSE kept[n - 1]
    BY <1>1 DEF IsKept
  <2>3. N \in Nat /\ kept \in [0..N -> Seq(T)]
    BY <1>1
  <2> HIDE DEF N
  <2>4. QED BY <2>1, <2>2, <2>3
<1> HIDE DEF N
<1> DEFINE A == {n \in Nat : n <= N => Len(kept[n]) = n /\ \A i \in 1..n : kept[n][i] = seq[i]}
<1>3. 0 \in A
  BY <1>2
<1>4. ASSUME NEW n \in Nat, n \in A
      PROVE  n + 1 \in A
  <2>1. SUFFICES ASSUME n + 1 <= N
                 PROVE  Len(kept[n + 1]) = n + 1 /\ \A i \in 1..(n + 1) : kept[n + 1][i] = seq[i]
    OBVIOUS
  <2>2. n + 1 \in 1..N /\ (n + 1) - 1 = n /\ n \in 0..N
    BY <1>2, <2>1
  <2>3. kept[n + 1] = Append(kept[n], seq[n + 1]) /\ kept[n] \in Seq(T) /\ seq[n + 1] \in T
    BY <1>2, <2>2
  <2>4. Len(kept[n]) = n /\ \A i \in 1..n : kept[n][i] = seq[i]
    <3>1. n <= N
      BY <1>2, <2>1
    <3>2. QED BY <1>4, <3>1
  <2>5. Len(kept[n + 1]) = n + 1 /\ kept[n + 1][n + 1] = seq[n + 1]
    BY <2>3, <2>4
  <2>6. ASSUME NEW i \in 1..n
        PROVE  kept[n + 1][i] = seq[i]
    BY <2>3, <2>4
  <2>7. \A i \in 1..(n + 1) : i = n + 1 \/ i \in 1..n
    OBVIOUS
  <2>8. QED BY <2>5, <2>6, <2>7
<1>5. N \in A /\ N <= N
  <2> HIDE DEF A
  <2>1. Nat \subseteq A
    BY <1>3, <1>4, NatInd
  <2>2. QED BY <1>2, <2>1
<1>6. kept[N] \in Seq(T) /\ Len(kept[N]) = N /\ \A i \in 1..N : kept[N][i] = seq[i]
  BY <1>2, <1>5
<1>7. kept[N] = seq
  BY <1>6 DEF N
<1>8. QED BY <1>2, <1>7

-----------------------------------------------------------------------------
(* What a process writes *)

ScriptEvents == [kind : Kinds, size : Nat \ {0, 1}]

LEMMA EndOfIs ==
  ASSUME NEW script \in Seq(ScriptEvents)
  PROVE  /\ EndOf(script, 0) = 0
         /\ \A i \in 0..Len(script) : EndOf(script, i) \in Nat
         /\ \A i \in 1..Len(script) : EndOf(script, i) = EndOf(script, i - 1) + script[i].size + 1
<1> DEFINE N == Len(script)
           Size(n) == script[n].size + 1
           step == [n \in 1..N |-> [x \in Nat |-> x + Size(n)]]
           Body(g) == [n \in 0..N |-> IF n = 0 THEN 0 ELSE g[n - 1] + script[n].size + 1]
           end == CHOOSE g : g = Body(g)
<1>1. N \in Nat /\ \A n \in 1..N : Size(n) \in Nat /\ script[n].size \in Nat
  <2>1. N \in Nat /\ \A n \in 1..N : script[n] \in ScriptEvents
    OBVIOUS
  <2> HIDE DEF N
  <2>2. QED BY <2>1 DEF ScriptEvents
<1>2. \A i : EndOf(script, i) = end[i]
  BY DEF EndOf
<1>3. /\ step \in [1..N -> [Nat -> Nat]]
      /\ \A n \in 1..N : \A x \in Nat : step[n][x] = x + script[n].size + 1
  BY <1>1
<1> HIDE DEF step, N
<1>4. PICK g \in [0..N -> Nat] : g[0] = 0 /\ \A n \in 1..N : g[n] = step[n][g[n - 1]]
  <2> DEFINE V == Nat
             base == 0
  <2>1. N \in Nat /\ base \in V /\ step \in [1..N -> [V -> V]]
    BY <1>1, <1>3
  <2> HIDE DEF V, base
  <2>2. \E g \in [0..N -> V] : IsChain(g, N, base, step)
    BY <2>1, Recursion
  <2>3. QED BY <2>2 DEF V, base, IsChain
<1>5. \A n \in 1..N : n - 1 \in 0..N /\ n # 0 /\ n \in 0..N
  BY <1>1
<1>6. \A n \in 1..N : g[n] = g[n - 1] + script[n].size + 1
  BY <1>3, <1>4, <1>5
<1>7. g = Body(g)
  <2>1. g = [n \in 0..N |-> g[n]]
    BY <1>4
  <2>2. \A n \in 0..N : n = 0 \/ n \in 1..N
    BY <1>1
  <2>3. QED BY <1>4, <1>6, <2>1, <2>2, Zenon
<1>8. end = Body(end)
  <2> HIDE DEF Body
  <2> QED BY <1>7
<1> HIDE DEF end
<1>9. \A n \in 0..N : end[n] = IF n = 0 THEN 0 ELSE end[n - 1] + script[n].size + 1
  <2>1. end = [n \in 0..N |-> IF n = 0 THEN 0 ELSE end[n - 1] + script[n].size + 1]
    BY <1>8
  <2>2. QED BY <2>1, Zenon
<1>10. end[0] = 0 /\ \A n \in 1..N : end[n] = end[n - 1] + script[n].size + 1
  <2>1. 0 \in 0..N
    BY <1>1
  <2>2. QED BY <1>5, <1>9, <2>1
<1>11. \A n \in 0..N : end[n] \in Nat
  <2> DEFINE A == {n \in Nat : n <= N => end[n] \in Nat}
  <2>1. 0 \in A
    BY <1>10
  <2>2. ASSUME NEW n \in Nat, n \in A
        PROVE  n + 1 \in A
    <3>1. SUFFICES ASSUME n + 1 <= N PROVE end[n + 1] \in Nat
      OBVIOUS
    <3>2. n + 1 \in 1..N /\ (n + 1) - 1 = n /\ end[n] \in Nat
      BY <1>1, <2>2, <3>1
    <3>3. end[n + 1] = end[n] + script[n + 1].size + 1 /\ script[n + 1].size \in Nat
      BY <1>1, <1>10, <3>2
    <3>4. QED BY <3>2, <3>3
  <2>3. Nat \subseteq A
    <3> HIDE DEF A
    <3> QED BY <2>1, <2>2, NatInd
  <2>4. QED BY <1>1, <2>3
<1>12. QED BY <1>2, <1>10, <1>11 DEF N

(* The lines follow each other and cover the output. *)
LEMMA EndsIncrease ==
  ASSUME NEW script \in Seq(ScriptEvents)
  PROVE  /\ \A i, j \in 0..Len(script) : i < j => EndOf(script, i) + 3 <= EndOf(script, j)
         /\ \A a \in 0..EndOf(script, Len(script)) : \E k \in 0..Len(script) :
              EndOf(script, k) <= a /\ (k < Len(script) => a < EndOf(script, k + 1))
<1> DEFINE N == Len(script)
           E(i) == EndOf(script, i)
<1>1. /\ N \in Nat /\ E(0) = 0
      /\ \A i \in 0..N : E(i) \in Nat
      /\ \A i \in 1..N : script[i].size \in Nat /\ script[i].size >= 2
                         /\ E(i) = E(i - 1) + script[i].size + 1
  <2>1. N \in Nat /\ \A i \in 1..N : script[i] \in ScriptEvents
    OBVIOUS
  <2>2. \A i \in 1..N : script[i].size \in Nat /\ script[i].size >= 2
    <3> HIDE DEF N
    <3>1. QED BY <2>1 DEF ScriptEvents
  <2>3. QED BY <2>1, <2>2, EndOfIs
<1> HIDE DEF N, E
<1>2. \A n \in Nat : n + 1 <= N => E(n) + 3 <= E(n + 1) /\ E(n) \in Nat /\ E(n + 1) \in Nat
  <2>1. SUFFICES ASSUME NEW n \in Nat, n + 1 <= N
                 PROVE  E(n) + 3 <= E(n + 1) /\ E(n) \in Nat /\ E(n + 1) \in Nat
    OBVIOUS
  <2>2. n + 1 \in 1..N /\ (n + 1) - 1 = n /\ n \in 0..N /\ n + 1 \in 0..N
    BY <1>1, <2>1
  <2>3. E(n + 1) = E(n) + script[n + 1].size + 1 /\ script[n + 1].size >= 2
        /\ E(n) \in Nat /\ E(n + 1) \in Nat /\ script[n + 1].size \in Nat
    BY <1>1, <2>2
  <2>4. QED BY <2>3
<1>3. ASSUME NEW i \in 0..N, NEW j \in 0..N, i < j
      PROVE  E(i) + 3 <= E(j)
  <2> DEFINE A == {n \in Nat : i < n /\ n <= N => E(i) + 3 <= E(n)}
  <2>1. 0 \in A
    BY <1>1
  <2>2. ASSUME NEW n \in Nat, n \in A
        PROVE  n + 1 \in A
    <3>1. SUFFICES ASSUME i < n + 1, n + 1 <= N
                   PROVE  E(i) + 3 <= E(n + 1)
      OBVIOUS
    <3>2. i \in Nat /\ E(i) \in Nat /\ E(n) + 3 <= E(n + 1) /\ E(n) \in Nat /\ E(n + 1) \in Nat
      BY <1>1, <1>2, <3>1
    <3>3. CASE i = n
      BY <3>2, <3>3
    <3>4. CASE i # n
      <4>1. i < n /\ n <= N
        BY <1>1, <3>1, <3>2, <3>4
      <4>2. E(i) + 3 <= E(n)
        BY <2>2, <4>1
      <4>3. QED BY <3>2, <4>2
    <3>5. QED BY <3>3, <3>4
  <2>3. Nat \subseteq A
    <3> HIDE DEF A
    <3> QED BY <2>1, <2>2, NatInd
  <2>4. j \in Nat /\ j <= N
    BY <1>1
  <2>5. QED BY <1>3, <2>3, <2>4
<1>4. ASSUME NEW a \in 0..E(N)
      PROVE  \E k \in 0..N : E(k) <= a /\ (k < N => a < E(k + 1))
  <2> DEFINE B == {n \in Nat : n <= N /\ a < E(n)}
  <2>1. a \in Nat
    BY <1>1
  <2>2. CASE B = {}
    <3>1. N \in 0..N /\ E(N) <= a /\ ~(N < N)
      <4>1. N \in 0..N /\ N <= N /\ ~(N < N) /\ E(N) \in Nat
        BY <1>1
      <4>2. N \notin B
        <5> HIDE DEF B
        <5> QED BY <2>2
      <4>3. QED BY <1>1, <2>1, <4>1, <4>2
    <3> HIDE DEF B
    <3>2. QED BY <3>1
  <2>3. CASE B # {}
    <3>1. PICK n \in B : \A m \in B : n <= m
      <4>1. B \in SUBSET Nat
        OBVIOUS
      <4> HIDE DEF B
      <4>2. QED BY <2>3, <4>1, NatMin
    <3>2. n # 0
      BY <1>1, <2>1
    <3>3. n - 1 \in Nat /\ n - 1 \in 0..N /\ (n - 1) + 1 = n /\ a < E(n)
      BY <1>1, <3>2
    <3>4. E(n - 1) <= a
      <4>1. n - 1 \notin B
        BY <3>1, <3>3
      <4>2. E(n - 1) \in Nat
        BY <1>1, <3>3
      <4>3. QED BY <1>1, <2>1, <3>3, <4>1, <4>2
    <3>5. QED BY <3>3, <3>4
  <2>4. QED BY <2>2, <2>3
<1>5. QED BY <1>3, <1>4 DEF N, E

(* Where the lines of a script end. *)
LEMMA EndsAre ==
  ASSUME NEW script \in Seq(ScriptEvents)
  PROVE  /\ Len(script) \in Nat /\ EndOf(script, 0) = 0
         /\ \A i \in 0..Len(script) : EndOf(script, i) \in Nat
         /\ \A i, j \in 0..Len(script) : i < j => EndOf(script, i) + 3 <= EndOf(script, j)
         /\ \A a \in 0..EndOf(script, Len(script)) : \E k \in 0..Len(script) :
              EndOf(script, k) <= a /\ (k < Len(script) => a < EndOf(script, k + 1))
<1>1. Len(script) \in Nat
  OBVIOUS
<1>2. QED BY <1>1, EndOfIs, EndsIncrease, Zenon

LEMMA EndsOrdered ==
  ASSUME NEW script \in Seq(ScriptEvents), NEW i \in 0..Len(script), NEW j \in 0..Len(script), i <= j
  PROVE  EndOf(script, i) \in Nat /\ EndOf(script, j) \in Nat /\ EndOf(script, i) <= EndOf(script, j)
<1> DEFINE x == EndOf(script, i)
           y == EndOf(script, j)
<1>1. x \in Nat /\ y \in Nat /\ (i < j => x + 3 <= y)
  BY EndsAre
<1>2. i = j \/ i < j
  OBVIOUS
<1>3. i = j => x = y
  OBVIOUS
<1> HIDE DEF x, y
<1>4. x <= y
  BY <1>1, <1>2, <1>3
<1>5. QED BY <1>1, <1>4 DEF x, y

LEMMA BytesDiffer ==
  /\ Open # Fill /\ Open # Newline /\ Fill # Newline
  /\ \A k \in Kinds : k # Open /\ k # Fill /\ k # Newline
BY LineBufferAssumption DEF Open, Fill, Newline

(* The bytes of line i of the output. *)
LEMMA ScriptBytesAre ==
  ASSUME NEW script \in Seq(ScriptEvents)
  PROVE  /\ ScriptBytes(script) \in Seq(Bytes)
         /\ Len(ScriptBytes(script)) = EndOf(script, Len(script))
         /\ \A i \in 1..Len(script) :
              /\ script[i].kind \in Kinds
              /\ ScriptBytes(script)[EndOf(script, i)] = Newline
              /\ ScriptBytes(script)[EndOf(script, i) - 1] = script[i].kind
              /\ ScriptBytes(script)[EndOf(script, i - 1) + 1] = Open
              /\ \A b \in (EndOf(script, i - 1) + 2)..(EndOf(script, i) - 2) :
                   ScriptBytes(script)[b] = Fill
<1> DEFINE N == Len(script)
           E(i) == EndOf(script, i)
           In(b, n) == E(n - 1) < b /\ b <= E(n)
           ByteIn(b, i) == CASE b = E(i)         -> Newline
                             [] b = E(i) - 1     -> script[i].kind
                             [] b = E(i - 1) + 1 -> Open
                             [] OTHER            -> Fill
           W == ScriptBytes(script)
<1>1. N \in Nat /\ (\A i \in 1..N : script[i].kind \in Kinds) /\ DOMAIN script = 1..N
  <2>1. N \in Nat /\ \A i \in 1..N : script[i] \in ScriptEvents
    OBVIOUS
  <2> HIDE DEF N
  <2>2. QED BY <2>1 DEF ScriptEvents, N
<1>2. W = [b \in 1..E(N) |-> ByteIn(b, CHOOSE n \in DOMAIN script : In(b, n))]
  BY DEF ScriptBytes
<1>3. /\ \A i \in 0..N : E(i) \in Nat
      /\ E(0) = 0
      /\ \A i, j \in 0..N : i < j => E(i) + 3 <= E(j)
      /\ \A a \in 0..E(N) : \E k \in 0..N : E(k) <= a /\ (k < N => a < E(k + 1))
  BY EndsAre
<1> HIDE DEF N, E, W
<1>4. \A i \in 1..N : i \in 0..N /\ i - 1 \in 0..N /\ E(i) \in Nat /\ E(i - 1) \in Nat
                      /\ E(i - 1) + 3 <= E(i) /\ (i # N => E(i) + 3 <= E(N)) /\ E(N) \in Nat
  <2>1. SUFFICES ASSUME NEW i \in 1..N
                 PROVE  i \in 0..N /\ i - 1 \in 0..N /\ E(i) \in Nat /\ E(i - 1) \in Nat
                        /\ E(i - 1) + 3 <= E(i) /\ (i # N => E(i) + 3 <= E(N)) /\ E(N) \in Nat
    OBVIOUS
  <2>2. i \in 0..N /\ i - 1 \in 0..N /\ N \in 0..N /\ i - 1 < i /\ (i # N => i < N)
    BY <1>1
  <2>3. E(i) \in Nat /\ E(i - 1) \in Nat /\ E(N) \in Nat
    BY <1>3, <2>2
  <2>4. E(i - 1) + 3 <= E(i)
    BY <1>3, <2>2
  <2>5. i # N => E(i) + 3 <= E(N)
    BY <1>3, <2>2
  <2>6. QED BY <2>2, <2>3, <2>4, <2>5
<1>5. ASSUME NEW b \in 1..E(N), NEW i \in 1..N, In(b, i)
      PROVE  W[b] = ByteIn(b, i)
  <2>1. ASSUME NEW n \in 1..N, In(b, n)
        PROVE  n = i
    <3>1. CASE n < i
      <4>1. n \in 0..N /\ i - 1 \in 0..N /\ n <= i - 1
        BY <1>1, <3>1
      <4>2. E(n) <= E(i - 1)
        BY <4>1, EndsOrdered DEF E, N
      <4>3. QED BY <1>4, <1>5, <2>1, <4>2
    <3>2. CASE i < n
      <4>1. i \in 0..N /\ n - 1 \in 0..N /\ i <= n - 1
        BY <1>1, <3>2
      <4>2. E(i) <= E(n - 1)
        BY <4>1, EndsOrdered DEF E, N
      <4>3. QED BY <1>4, <1>5, <2>1, <4>2
    <3>3. QED BY <1>1, <3>1, <3>2
  <2>2. (CHOOSE n \in DOMAIN script : In(b, n)) = i
    <3> HIDE DEF In
    <3>1. QED BY <1>1, <1>5, <2>1
  <2> HIDE DEF In, ByteIn
  <2>3. QED BY <1>2, <2>2
<1>6. ASSUME NEW b \in 1..E(N)
      PROVE  \E i \in 1..N : In(b, i)
  <2>1. b - 1 \in 0..E(N) /\ E(N) \in Nat /\ N \in 0..N
    BY <1>1, <1>3
  <2>2. PICK k \in 0..N : E(k) <= b - 1 /\ (k < N => b - 1 < E(k + 1))
    BY <1>3, <2>1
  <2>3. k < N
    BY <1>1, <1>3, <2>1, <2>2
  <2>4. k + 1 \in 1..N /\ (k + 1) - 1 = k
    BY <1>1, <2>3
  <2>5. In(b, k + 1)
    BY <1>4, <2>2, <2>3, <2>4
  <2>6. QED BY <2>4, <2>5
<1>7. \A b \in 1..E(N) : W[b] \in Bytes
  <2>1. SUFFICES ASSUME NEW b \in 1..E(N) PROVE W[b] \in Bytes
    OBVIOUS
  <2>2. PICK i \in 1..N : In(b, i)
    BY <1>6
  <2>3. W[b] = ByteIn(b, i)
    BY <1>5, <2>2
  <2>4. ByteIn(b, i) \in Bytes
    BY <1>1 DEF Bytes
  <2>5. QED BY <2>3, <2>4
<1>8. W \in Seq(Bytes) /\ Len(W) = E(N)
  <2>1. DOMAIN W = 1..E(N) /\ W = [b \in 1..E(N) |-> W[b]]
    BY <1>2
  <2>2. E(N) \in Nat
    BY <1>1, <1>3
  <2>3. QED BY <1>7, <2>1, <2>2
<1>9. ASSUME NEW i \in 1..N
      PROVE  /\ W[E(i)] = Newline
             /\ W[E(i) - 1] = script[i].kind
             /\ W[E(i - 1) + 1] = Open
             /\ \A b \in (E(i - 1) + 2)..(E(i) - 2) : W[b] = Fill
  <2>1. \A b \in (E(i - 1) + 1)..E(i) : b \in 1..E(N) /\ In(b, i) /\ W[b] = ByteIn(b, i)
    <3>1. E(i) \in Nat /\ E(i - 1) \in Nat /\ E(N) \in Nat /\ (i = N \/ E(i) + 3 <= E(N))
      BY <1>4
    <3>2. ASSUME NEW b \in (E(i - 1) + 1)..E(i)
          PROVE  b \in 1..E(N) /\ E(i - 1) < b /\ b <= E(i)
      BY <3>1
    <3> HIDE DEF ByteIn
    <3>3. QED BY <1>5, <3>2
  <2>2. /\ E(i) \in Nat /\ E(i - 1) \in Nat /\ E(i - 1) + 3 <= E(i)
        /\ E(i) \in (E(i - 1) + 1)..E(i) /\ E(i) - 1 \in (E(i - 1) + 1)..E(i)
        /\ E(i - 1) + 1 \in (E(i - 1) + 1)..E(i)
    BY <1>4
  <2>3. W[E(i)] = Newline /\ W[E(i) - 1] = script[i].kind /\ W[E(i - 1) + 1] = Open
    BY <2>1, <2>2
  <2>4. ASSUME NEW b \in (E(i - 1) + 2)..(E(i) - 2)
        PROVE  W[b] = Fill
    <3>1. b \in (E(i - 1) + 1)..E(i) /\ b # E(i) /\ b # E(i) - 1 /\ b # E(i - 1) + 1
      BY <2>2
    <3>2. QED BY <2>1, <3>1
  <2>5. QED BY <2>3, <2>4
<1>10. QED BY <1>1, <1>8, <1>9 DEF N, E, W

-----------------------------------------------------------------------------
(* The line buffer *)

LEMMA NatMax ==
  ASSUME NEW n \in Nat, NEW T \in SUBSET (0..n), T # {}
  PROVE  \E x \in T : \A y \in T : y <= x
<1> DEFINE U == {n - y : y \in T}
<1>1. U \in SUBSET Nat /\ U # {}
  <2>1. PICK y \in T : TRUE
    OBVIOUS
  <2>2. n - y \in U
    BY <2>1
  <2>3. QED BY <2>2
<1>2. PICK u \in U : \A v \in U : u <= v
  <2> HIDE DEF U
  <2>1. QED BY <1>1, NatMin
<1>3. PICK x \in T : u = n - x
  BY <1>2
<1>4. \A y \in T : n - x <= n - y
  BY <1>2, <1>3
<1>5. QED BY <1>4

StartsLine(bytes, s, e) ==
  (s = 1 \/ bytes[s - 1] = Newline) /\ \A i \in s..(e - 1) : bytes[i] # Newline

LEMMA LineBeforeIs ==
  ASSUME NEW bytes \in Seq(Bytes), NEW e \in 1..Len(bytes), NEW s \in 1..e, StartsLine(bytes, s, e)
  PROVE  /\ LineBefore(bytes, e) \in Seq(Bytes)
         /\ Len(LineBefore(bytes, e)) = e - s
         /\ \A i \in 1..(e - s) : LineBefore(bytes, e)[i] = bytes[s + i - 1]
<1> DEFINE start == CHOOSE x \in 1..e : StartsLine(bytes, x, e)
<1>1. LineBefore(bytes, e) = SubSeq(bytes, start, e - 1)
  BY DEF LineBefore, StartsLine
<1>2. \A x \in 1..e : StartsLine(bytes, x, e) => x = s
  <2>1. SUFFICES ASSUME NEW x \in 1..e, StartsLine(bytes, x, e) PROVE x = s
    OBVIOUS
  <2>2. CASE x < s
    <3>1. s - 1 \in x..(e - 1) /\ bytes[s - 1] = Newline
      BY <2>2 DEF StartsLine
    <3>2. QED BY <2>1, <3>1 DEF StartsLine
  <2>3. CASE s < x
    <3>1. x - 1 \in s..(e - 1) /\ bytes[x - 1] = Newline
      BY <2>1, <2>3 DEF StartsLine
    <3>2. QED BY <3>1 DEF StartsLine
  <2>4. QED BY <2>2, <2>3
<1>3. start = s
  <2> HIDE DEF StartsLine
  <2> QED BY <1>2
<1>4. s - 1 \in 0..Len(bytes) /\ s \in Nat /\ e - 1 \in 0..Len(bytes) /\ Len(bytes) \in Nat
  OBVIOUS
<1> HIDE DEF start
<1>5. QED BY <1>1, <1>3, <1>4

LEMMA LineStarts ==
  ASSUME NEW bytes \in Seq(Bytes), NEW e \in 1..Len(bytes)
  PROVE  \E s \in 1..e : StartsLine(bytes, s, e)
<1> DEFINE T == {s \in 1..e : s = 1 \/ bytes[s - 1] = Newline}
<1>1. e \in Nat /\ T \in SUBSET (0..e) /\ 1 \in T
  OBVIOUS
<1>2. PICK s \in T : \A y \in T : y <= s
  <2> HIDE DEF T
  <2>1. QED BY <1>1, NatMax
<1>3. ASSUME NEW i \in s..(e - 1)
      PROVE  bytes[i] # Newline
  <2>1. i + 1 \in 1..e /\ (i + 1) - 1 = i /\ ~(i + 1 <= s)
    OBVIOUS
  <2>2. QED BY <1>2, <2>1
<1>4. QED BY <1>2, <1>3 DEF StartsLine

(* The events of bytes, each by the newline of its line. *)
LEMMA EventsAre ==
  ASSUME NEW bytes \in Seq(Bytes)
  PROVE  /\ Events(bytes) \in Seq(Kinds)
         /\ \E h \in [1..Len(Events(bytes)) -> 1..Len(bytes)] :
              /\ Increasing(h)
              /\ \A m \in DOMAIN h : /\ bytes[h[m]] = Newline /\ IsEvent(LineBefore(bytes, h[m]))
                                     /\ Events(bytes)[m] = bytes[h[m] - 1]
              /\ \A i \in 1..Len(bytes) : bytes[i] = Newline /\ IsEvent(LineBefore(bytes, i)) =>
                                            \E m \in DOMAIN h : h[m] = i
<1> DEFINE n == Len(bytes)
           ids == [i \in DOMAIN bytes |-> i]
           S == {i \in DOMAIN bytes : bytes[i] = Newline /\ IsEvent(LineBefore(bytes, i))}
           ends == KeepIn(ids, S)
<1>1. n \in Nat /\ DOMAIN bytes = 1..n /\ ids \in Seq(Nat) /\ Len(ids) = n /\ \A i \in 1..n : ids[i] = i
  OBVIOUS
<1>2. ends \in Seq(Nat) /\ \E h \in [1..Len(ends) -> 1..Len(ids)] : KeptAt(ids, S, h)
  <2> HIDE DEF ids, S
  <2>1. QED BY <1>1, KeepInIs
<1>3. Events(bytes) = [j \in DOMAIN ends |-> bytes[ends[j] - 1]]
  BY DEF Events
<1>4. \A i \in S : bytes[i - 1] \in Kinds
  <2>1. SUFFICES ASSUME NEW i \in S PROVE bytes[i - 1] \in Kinds
    OBVIOUS
  <2>2. i \in 1..Len(bytes) /\ IsEvent(LineBefore(bytes, i))
    BY <1>1
  <2>3. PICK s \in 1..i : StartsLine(bytes, s, i)
    BY <2>2, LineStarts
  <2> DEFINE line == LineBefore(bytes, i)
  <2>4. Len(line) = i - s /\ \A x \in 1..(i - s) : line[x] = bytes[s + x - 1]
    BY <2>2, <2>3, LineBeforeIs
  <2>5. Len(line) >= 2 /\ line[Len(line)] \in Kinds
    BY <2>2 DEF IsEvent
  <2> HIDE DEF line
  <2>8. i \in Nat /\ s \in Nat /\ s <= i
    BY <2>2
  <2>9. i - s >= 2
    BY <2>4, <2>5, <2>8
  <2>6. i - s \in 1..(i - s) /\ s + (i - s) - 1 = i - 1
    BY <2>8, <2>9
  <2>7. QED BY <2>4, <2>5, <2>6
<1> HIDE DEF ends, ids
<1>5. PICK h \in [1..Len(ends) -> 1..n] :
        /\ Increasing(h)
        /\ \A k \in DOMAIN h : ends[k] = h[k] /\ h[k] \in S
        /\ \A i \in 1..n : i \in S => \E k \in DOMAIN h : h[k] = i
  <2>1. PICK h \in [1..Len(ends) -> 1..Len(ids)] : KeptAt(ids, S, h)
    BY <1>2
  <2> HIDE DEF S
  <2>2. DOMAIN h = 1..Len(ends) /\ \A k \in DOMAIN h : h[k] \in 1..n
    BY <1>1
  <2>3. \A k \in DOMAIN h : ends[k] = h[k] /\ h[k] \in S
    BY <1>1, <2>1, <2>2 DEF KeptAt, ends
  <2>4. \A i \in 1..n : i \in S => \E k \in DOMAIN h : h[k] = i
    BY <1>1, <2>1 DEF KeptAt
  <2>5. Increasing(h) /\ h \in [1..Len(ends) -> 1..n]
    BY <1>1, <2>1 DEF KeptAt
  <2>6. QED BY <2>3, <2>4, <2>5
<1> HIDE DEF S
<1>6. DOMAIN ends = 1..Len(ends) /\ Len(ends) \in Nat
  BY <1>2
<1>7. /\ Events(bytes) \in Seq(Kinds) /\ Len(Events(bytes)) = Len(ends)
      /\ \A m \in 1..Len(ends) : Events(bytes)[m] = bytes[h[m] - 1]
  <2> DEFINE events == Events(bytes)
             l == Len(ends)
  <2>1. events = [j \in 1..l |-> bytes[ends[j] - 1]] /\ l \in Nat
    BY <1>3, <1>6
  <2>2. \A j \in 1..l : ends[j] = h[j] /\ ends[j] \in S
    BY <1>5
  <2> HIDE DEF events, l
  <2>3. \A j \in 1..l : bytes[ends[j] - 1] \in Kinds
    BY <1>4, <2>2
  <2>4. events \in Seq(Kinds) /\ Len(events) = l
    BY <2>1, <2>3
  <2>5. \A m \in 1..l : events[m] = bytes[h[m] - 1]
    BY <2>1, <2>2
  <2>6. QED BY <2>4, <2>5 DEF events, l
<1>8. Increasing(h) /\ h \in [1..Len(Events(bytes)) -> 1..Len(bytes)]
  BY <1>5, <1>7
<1>9. DOMAIN h = 1..Len(ends)
  BY <1>5
<1>10. \A m \in DOMAIN h : /\ bytes[h[m]] = Newline /\ IsEvent(LineBefore(bytes, h[m]))
                           /\ Events(bytes)[m] = bytes[h[m] - 1]
  <2>1. \A m \in DOMAIN h : h[m] \in S /\ Events(bytes)[m] = bytes[h[m] - 1]
    BY <1>5, <1>7, <1>9
  <2>2. QED BY <2>1 DEF S
<1>11. \A i \in 1..Len(bytes) : bytes[i] = Newline /\ IsEvent(LineBefore(bytes, i)) =>
                                  \E m \in DOMAIN h : h[m] = i
  <2>1. \A i \in 1..Len(bytes) : bytes[i] = Newline /\ IsEvent(LineBefore(bytes, i)) => i \in S
    BY <1>1 DEF S
  <2>2. QED BY <1>5, <2>1
<1>12. QED BY <1>7, <1>8, <1>10, <1>11

LEMMA RemainderIs ==
  ASSUME NEW bytes \in Seq(Bytes)
  PROVE  \E e \in 0..Len(bytes) :
           /\ e = 0 \/ bytes[e] = Newline
           /\ \A i \in (e + 1)..Len(bytes) : bytes[i] # Newline
           /\ Remainder(bytes) \in Seq(Bytes) /\ Len(Remainder(bytes)) = Len(bytes) - e
           /\ \A i \in 1..(Len(bytes) - e) : Remainder(bytes)[i] = bytes[e + i]
<1> DEFINE n == Len(bytes)
           Last(e) == (e = 0 \/ bytes[e] = Newline) /\ \A i \in (e + 1)..n : bytes[i] # Newline
           T == {e \in 0..n : e = 0 \/ bytes[e] = Newline}
           last == CHOOSE e \in 0..n : Last(e)
<1>1. n \in Nat /\ T \in SUBSET (0..n) /\ 0 \in T
  OBVIOUS
<1>2. PICK x \in T : \A y \in T : y <= x
  <2> HIDE DEF T, n
  <2>1. QED BY <1>1, NatMax
<1>3. x \in 0..n /\ Last(x)
  BY <1>1, <1>2
<1>4. last \in 0..n /\ Last(last)
  <2> HIDE DEF Last
  <2> QED BY <1>3
<1>5. Remainder(bytes) = SubSeq(bytes, last + 1, n)
  BY DEF Remainder
<1> HIDE DEF last
<1>6. Remainder(bytes) \in Seq(Bytes) /\ Len(Remainder(bytes)) = n - last
      /\ \A i \in 1..(n - last) : Remainder(bytes)[i] = bytes[last + i]
  BY <1>1, <1>4, <1>5
<1>7. QED BY <1>4, <1>6

-----------------------------------------------------------------------------
(* Selection *)

LEMMA CommandLineIs ==
  ASSUME NEW a \in CommandLines
  PROVE  /\ a.plan \in DOMAIN PLAN_CONFIGS \union DOMAIN PlanFiles \union {NoValue}
         /\ a.checks \subseteq Ids /\ a.all_checks \in BOOLEAN
         /\ a.model \in STRING \union {NoValue} /\ a.effort \in ValidEfforts \union {NoValue}
         /\ a.idle_timeout \in Nat
BY ClaudeCallAssumption DEF Commands

LEMMA ResolvedPlanIs ==
  ASSUME NEW a \in CommandLines
  PROVE  ResolvePlanConfig(a) \in Seq(Entries)
<1> DEFINE name == CASE a.all_checks                       -> "exhaustive"
                     [] ~a.all_checks /\ a.plan # NoValue  -> a.plan
                     [] ~a.all_checks /\ a.plan = NoValue
                          /\ a.checks = {}                 -> "basic"
                     [] OTHER                              -> NoValue
<1>1. ResolvePlanConfig(a) = IF name = NoValue THEN <<>>
                             ELSE IF name \in DOMAIN PLAN_CONFIGS THEN PLAN_CONFIGS[name]
                             ELSE PlanFiles[name]
  BY DEF ResolvePlanConfig, NoPlan
<1>2. {"basic", "exhaustive"} \subseteq DOMAIN PLAN_CONFIGS
  BY SelectionAssumption
<1>3. name = NoValue \/ name \in DOMAIN PLAN_CONFIGS \union DOMAIN PlanFiles
  BY <1>2, CommandLineIs
<1> HIDE DEF name
<1>4. CASE name = NoValue
  BY <1>1, <1>4
<1>5. CASE name # NoValue
  <2>1. CASE name \in DOMAIN PLAN_CONFIGS
    BY <1>1, <1>5, <2>1, SelectionAssumption
  <2>2. CASE name \notin DOMAIN PLAN_CONFIGS
    BY <1>1, <1>3, <1>5, <2>2, SelectionAssumption
  <2>3. QED BY <2>1, <2>2
<1>6. QED BY <1>4, <1>5

(* Parsing gives an entry a model and changes nothing else. *)
LEMMA ParsedPlanIs ==
  ASSUME NEW plan \in Seq(Entries)
  PROVE  /\ ParsePlanToml(plan) \in Seq(Entries)
         /\ DOMAIN ParsePlanToml(plan) = DOMAIN plan
         /\ \A i \in DOMAIN plan : LET entry == ParsePlanToml(plan)[i] IN
              /\ entry.id = plan[i].id /\ entry.effort = plan[i].effort
              /\ entry.idle_timeout = plan[i].idle_timeout
              /\ entry.model = IF plan[i].model = NoValue THEN DefaultModel ELSE plan[i].model
<1> DEFINE Parsed(i) == [plan[i] EXCEPT !.model = IF @ = NoValue THEN DefaultModel ELSE @]
<1>1. ParsePlanToml(plan) = [i \in DOMAIN plan |-> Parsed(i)]
  BY DEF ParsePlanToml
<1>2. DOMAIN plan = 1..Len(plan) /\ Len(plan) \in Nat /\ \A i \in DOMAIN plan : plan[i] \in Entries
  OBVIOUS
<1>3. ASSUME NEW i \in DOMAIN plan
      PROVE  /\ Parsed(i) \in Entries
             /\ Parsed(i).id = plan[i].id /\ Parsed(i).effort = plan[i].effort
             /\ Parsed(i).idle_timeout = plan[i].idle_timeout
             /\ Parsed(i).model = IF plan[i].model = NoValue THEN DefaultModel ELSE plan[i].model
  <2>1. plan[i] \in Entries /\ DefaultModel \in STRING
    BY <1>2, SelectionAssumption
  <2>2. QED BY <2>1 DEF Entries
<1> HIDE DEF Parsed
<1>4. ParsePlanToml(plan) \in Seq(Entries)
  BY <1>1, <1>2, <1>3
<1>5. QED BY <1>1, <1>3, <1>4

LEMMA CheckIdsAre ==
  ASSUME NEW plan \in Seq(Entries)
  PROVE  /\ CheckIds(plan) \subseteq STRING
         /\ CheckIds(ParsePlanToml(plan)) = CheckIds(plan)
<1>1. \A i \in DOMAIN plan : plan[i] \in Entries
  OBVIOUS
<1>2. CheckIds(plan) \subseteq STRING
  BY <1>1 DEF CheckIds, Entries
<1>3. DOMAIN ParsePlanToml(plan) = DOMAIN plan
      /\ \A i \in DOMAIN plan : ParsePlanToml(plan)[i].id = plan[i].id
  BY ParsedPlanIs
<1>4. QED BY <1>2, <1>3 DEF CheckIds

LEMMA ChecksAre ==
  /\ CHECKS \in Seq(STRING) /\ CHECKS \in Seq(Ids) /\ Ids \subseteq STRING
<1> DEFINE canonical == PLAN_CONFIGS["super-exhaustive"]
           ordered   == [i \in DOMAIN canonical |-> canonical[i].id]
           files     == {CheckFiles[i] : i \in DOMAIN CheckFiles}
<1>1. CHECKS = KeepIn(ordered, files) \o KeepIn(CheckFiles, STRING \ CheckIds(canonical))
  BY DEF CHECKS
<1>2. canonical \in Seq(Entries)
  BY SelectionAssumption
<1>3. ordered \in Seq(STRING)
  <2> HIDE DEF canonical
  <2>1. DOMAIN canonical = 1..Len(canonical) /\ Len(canonical) \in Nat
        /\ \A i \in DOMAIN canonical : canonical[i] \in Entries
    BY <1>2
  <2>2. \A i \in DOMAIN canonical : canonical[i].id \in STRING
    BY <2>1 DEF Entries
  <2>3. QED BY <2>1, <2>2
<1> HIDE DEF ordered, files, canonical
<1>4. KeepIn(ordered, files) \in Seq(STRING)
  BY <1>3, KeepInIs
<1>5. KeepIn(CheckFiles, STRING \ CheckIds(canonical)) \in Seq(STRING)
  BY KeepInIs, SelectionAssumption
<1>6. CHECKS \in Seq(STRING)
  BY <1>1, <1>4, <1>5
<1>7. QED BY <1>6 DEF Ids

LEMMA SelectedChecksAre ==
  ASSUME NEW a
  PROVE  SelectedChecks(a) \in Seq(Ids)
BY ChecksAre, KeepInIs DEF SelectedChecks

(* The entries of a plan that give a setting to a check. *)
Giving(plan, setting, id) == {i \in DOMAIN plan : plan[i].id = id /\ plan[i][setting] # NoValue}

LEMMA SettingMapIs ==
  ASSUME NEW plan \in Seq(Entries), NEW setting
  PROVE  /\ \A id : id \in DOMAIN SettingMap(plan, setting) <=> Giving(plan, setting, id) # {}
         /\ \A id \in DOMAIN SettingMap(plan, setting) :
              \E i \in Giving(plan, setting, id) :
                /\ \A j \in Giving(plan, setting, id) : j <= i
                /\ SettingMap(plan, setting)[id] = plan[i][setting]
<1> DEFINE Given(id) == Giving(plan, setting, id)
           Last(id) == CHOOSE i \in Given(id) : \A j \in Given(id) : j <= i
<1>1. SettingMap(plan, setting) =
        [id \in {c \in CheckIds(plan) : Given(c) # {}} |-> plan[Last(id)][setting]]
  BY DEF SettingMap, Giving
<1>2. \A id : Given(id) # {} => id \in CheckIds(plan)
  BY DEF Giving, CheckIds
<1>3. ASSUME NEW id, Given(id) # {}
      PROVE  Last(id) \in Given(id) /\ \A j \in Given(id) : j <= Last(id)
  <2>1. Given(id) \in SUBSET (0..Len(plan)) /\ Len(plan) \in Nat
    BY DEF Giving
  <2>2. \E i \in Given(id) : \A j \in Given(id) : j <= i
    <3> DEFINE A == Given(id)
    <3>1. A # {} /\ A \in SUBSET (0..Len(plan)) /\ Len(plan) \in Nat
      BY <1>3, <2>1
    <3> HIDE DEF A
    <3>2. \E i \in A : \A j \in A : j <= i
      BY <3>1, NatMax
    <3>3. QED BY <3>2 DEF A
  <2> HIDE DEF Given
  <2>3. QED BY <2>2
<1> HIDE DEF Last, Given
<1>4. \A id : id \in DOMAIN SettingMap(plan, setting) <=> Given(id) # {}
  BY <1>1, <1>2
<1>5. \A id \in DOMAIN SettingMap(plan, setting) :
        SettingMap(plan, setting)[id] = plan[Last(id)][setting]
  BY <1>1
<1>6. QED BY <1>3, <1>4, <1>5 DEF Given

(* The settings of a check are of the right kind. *)
LEMMA SettingsAreTyped ==
  ASSUME NEW plan \in Seq(Entries), NEW id
  PROVE  /\ id \in DOMAIN SettingMap(plan, "model") => SettingMap(plan, "model")[id] \in STRING
         /\ id \in DOMAIN SettingMap(plan, "idle_timeout") =>
              SettingMap(plan, "idle_timeout")[id] \in Nat
         /\ ValidPlan(plan) /\ id \in DOMAIN SettingMap(plan, "effort") =>
              SettingMap(plan, "effort")[id] \in ValidEfforts
<1>1. \A i \in DOMAIN plan : plan[i] \in Entries
  OBVIOUS
<1>2. \A i \in DOMAIN plan : /\ plan[i]["model"] # NoValue => plan[i]["model"] \in STRING
                             /\ plan[i]["idle_timeout"] # NoValue => plan[i]["idle_timeout"] \in Nat
  BY <1>1 DEF Entries
<1>3. ASSUME ValidPlan(plan), NEW i \in DOMAIN plan, plan[i]["effort"] # NoValue
      PROVE  plan[i]["effort"] \in ValidEfforts
  BY <1>3 DEF ValidPlan
<1>4. \A setting : id \in DOMAIN SettingMap(plan, setting) =>
        \E i \in DOMAIN plan : /\ plan[i][setting] # NoValue
                               /\ SettingMap(plan, setting)[id] = plan[i][setting]
  BY SettingMapIs DEF Giving
<1>5. QED BY <1>2, <1>3, <1>4

LEMMA DefaultsPlanIs ==
  /\ DefaultsPlan \in Seq(Entries) /\ ValidPlan(DefaultsPlan)
<1>1. PLAN_CONFIGS["super-exhaustive"] \in Seq(Entries) /\ ValidPlan(PLAN_CONFIGS["super-exhaustive"])
  BY SelectionAssumption
<1>2. ASSUME NEW plan \in Seq(Entries), ValidPlan(plan)
      PROVE  ParsePlanToml(plan) \in Seq(Entries) /\ ValidPlan(ParsePlanToml(plan))
  <2>1. /\ ParsePlanToml(plan) \in Seq(Entries) /\ DOMAIN ParsePlanToml(plan) = DOMAIN plan
        /\ \A i \in DOMAIN plan : ParsePlanToml(plan)[i].effort = plan[i].effort
    BY ParsedPlanIs
  <2>2. plan # <<>> /\ \A i \in DOMAIN plan : plan[i].effort \in ValidEfforts \union {NoValue}
    BY <1>2 DEF ValidPlan
  <2>3. ParsePlanToml(plan) # <<>>
    <3>1. 1 \in DOMAIN plan
      BY <2>2
    <3>2. QED BY <2>1, <3>1
  <2>4. QED BY <2>1, <2>2, <2>3 DEF ValidPlan
<1>3. QED BY <1>1, <1>2 DEF DefaultsPlan

(* A plan that the program goes on with. *)
PlanAccepted(a) == ResolvePlanConfig(a) # NoPlan => ValidPlan(ResolvePlanConfig(a))

LEMMA PlanIs ==
  ASSUME NEW a \in CommandLines, PlanAccepted(a)
  PROVE  /\ Plan(a) \in Seq(Entries)
         /\ \A i \in DOMAIN Plan(a) : Plan(a)[i].effort \in ValidEfforts \union {NoValue}
<1> DEFINE plan == ResolvePlanConfig(a)
<1>1. plan \in Seq(Entries)
  BY ResolvedPlanIs
<1>2. \A i \in DOMAIN plan : plan[i].effort \in ValidEfforts \union {NoValue}
  BY <1>1 DEF PlanAccepted, ValidPlan, NoPlan
<1> HIDE DEF plan
<1>3. Plan(a) = ParsePlanToml(plan)
  BY DEF Plan, plan
<1>4. QED BY <1>1, <1>2, <1>3, ParsedPlanIs

(* With the defaults, a setting is one of a plan. *)
LEMMA WithDefaultsAre ==
  ASSUME NEW a, NEW setting, NEW id \in DOMAIN WithDefaults(a, setting)
  PROVE  IF id \in DOMAIN SettingMap(Plan(a), setting)
         THEN WithDefaults(a, setting)[id] = SettingMap(Plan(a), setting)[id]
         ELSE /\ id \in DOMAIN SettingMap(DefaultsPlan, setting)
              /\ WithDefaults(a, setting)[id] = SettingMap(DefaultsPlan, setting)[id]
<1> DEFINE map == SettingMap(Plan(a), setting)
           fallback == SettingMap(DefaultsPlan, setting)
           ids == DOMAIN map \union (SelectedIds(a) \intersect DOMAIN fallback)
<1>1. WithDefaults(a, setting) = [c \in ids |-> IF c \in DOMAIN map THEN map[c] ELSE fallback[c]]
  BY DEF WithDefaults
<1> HIDE DEF map, fallback
<1>2. QED BY <1>1 DEF map, fallback

LEMMA CheckSettingsAre ==
  ASSUME NEW a \in CommandLines, PlanAccepted(a), NEW id
  PROVE  /\ CheckModel(a, id) \in STRING
         /\ CheckEffort(a, id) \in ValidEfforts \union {NoValue}
         /\ CheckIdleTimeout(a, id) \in Nat
<1>1. Plan(a) \in Seq(Entries) /\ DefaultsPlan \in Seq(Entries) /\ ValidPlan(DefaultsPlan)
  BY PlanIs, DefaultsPlanIs
<1>2. Plan(a) = <<>> \/ ValidPlan(Plan(a))
  BY PlanIs DEF ValidPlan
<1>3. Plan(a) = <<>> => \A setting : id \notin DOMAIN SettingMap(Plan(a), setting)
  <2>1. SUFFICES ASSUME Plan(a) = <<>>, NEW setting
                 PROVE  id \notin DOMAIN SettingMap(Plan(a), setting)
    OBVIOUS
  <2>2. DOMAIN Plan(a) = {}
    BY <2>1
  <2>3. Giving(Plan(a), setting, id) = {}
    BY <2>2 DEF Giving
  <2>4. QED BY <1>1, <2>3, SettingMapIs
<1>4. id \in DOMAIN WithDefaults(a, "model") => WithDefaults(a, "model")[id] \in STRING
  BY <1>1, WithDefaultsAre, SettingsAreTyped
<1>5. id \in DOMAIN WithDefaults(a, "idle_timeout") => WithDefaults(a, "idle_timeout")[id] \in Nat
  BY <1>1, WithDefaultsAre, SettingsAreTyped
<1>6. id \in DOMAIN WithDefaults(a, "effort") => WithDefaults(a, "effort")[id] \in ValidEfforts
  BY <1>1, <1>2, <1>3, WithDefaultsAre, SettingsAreTyped
<1>7. DefaultModel \in STRING /\ a.idle_timeout \in Nat
  BY CommandLineIs, SelectionAssumption
<1>8. QED BY <1>4, <1>5, <1>6, <1>7 DEF CheckModel, CheckEffort, CheckIdleTimeout, Get

-----------------------------------------------------------------------------
(* The attempts of a call *)

(* Attempts, of any call. *)
ModelsOf(c) == <<c.model>> \o KeepIn(c.fallbacks, STRING \ {c.model})

(* What InvokeClaude makes under the command line a. *)
MadeBy(a, c) ==
  /\ a.model # NoValue => c.model = a.model /\ c.fallbacks = <<>>
  /\ a.model = NoValue => c.fallbacks = DefaultModelFallbacks(c.model)

Attempted == [model : STRING \union {NoValue}, end : Ends]

CallRecords == [call : Settings, attempts : Seq(Attempted), outcome : Ends \union {"skipped", "dry"}]

(* An attempt of a call is in progress: the ones before it were unavailable. *)
Underway(a, c, t) ==
  /\ MadeBy(a, c)
  /\ Len(t) < Len(ModelsOf(c))
  /\ \A i \in DOMAIN t : t[i].model = ModelsOf(c)[i] /\ t[i].end = "unavailable"

(* What FallbackFollowsUnavailability says of one call. *)
FollowsChain(a, record) ==
  LET made == record.call  attempts == record.attempts IN
  /\ \A i \in DOMAIN attempts : i < Len(attempts) => attempts[i].end = "unavailable"
  /\ \A i, j \in DOMAIN attempts : i # j => attempts[i].model # attempts[j].model
  /\ attempts # <<>> => attempts[1].model = made.model
  /\ \A i \in 2..Len(attempts) : attempts[i].model = made.fallbacks[i - 1]
  /\ record.outcome = "unavailable" =>
       \/ made.model \in {a.model, NoValue} /\ Len(attempts) = 1
       \/ \A i \in DOMAIN FallbackChain : \E j \in DOMAIN attempts :
            attempts[j].model = FallbackChain[i]

LEMMA FallbacksAre ==
  ASSUME NEW model \in STRING \union {NoValue}
  PROVE  LET fallbacks == DefaultModelFallbacks(model) IN
         /\ fallbacks \in Seq(STRING)
         /\ \A i \in 1..Len(fallbacks) : fallbacks[i] # model
         /\ \A i, j \in 1..Len(fallbacks) : i # j => fallbacks[i] # fallbacks[j]
         /\ model = NoValue => fallbacks = <<>>
         /\ model # NoValue => \A i \in DOMAIN FallbackChain :
              FallbackChain[i] = model \/ \E j \in 1..Len(fallbacks) : fallbacks[j] = FallbackChain[i]
<1>1. CASE model = NoValue
  <2>1. DefaultModelFallbacks(model) = <<>>
    BY <1>1 DEF DefaultModelFallbacks
  <2>2. QED BY <1>1, <2>1
<1>2. CASE model # NoValue
  <2> DEFINE S == STRING \ {model}
             fallbacks == KeepIn(FallbackChain, S)
  <2>1. DefaultModelFallbacks(model) = fallbacks
    BY <1>2 DEF DefaultModelFallbacks
  <2>2. /\ FallbackChain \in Seq(STRING)
        /\ \A i, j \in DOMAIN FallbackChain : i # j => FallbackChain[i] # FallbackChain[j]
    BY ClaudeCallAssumption
  <2> HIDE DEF S
  <2>3. fallbacks \in Seq(STRING)
        /\ \E h \in [1..Len(fallbacks) -> 1..Len(FallbackChain)] : KeptAt(FallbackChain, S, h)
    BY <2>2, KeepInIs
  <2>4. PICK h \in [1..Len(fallbacks) -> 1..Len(FallbackChain)] : KeptAt(FallbackChain, S, h)
    BY <2>3
  <2> HIDE DEF fallbacks
  <2>5. DOMAIN FallbackChain = 1..Len(FallbackChain) /\ \A i \in DOMAIN FallbackChain : FallbackChain[i] \in STRING
    BY <2>2
  <2>6. /\ \A i \in 1..Len(fallbacks) : /\ fallbacks[i] = FallbackChain[h[i]]
                                        /\ fallbacks[i] \in S /\ h[i] \in DOMAIN FallbackChain
        /\ \A i, j \in 1..Len(fallbacks) : i < j => h[i] < h[j]
        /\ \A i \in DOMAIN FallbackChain : FallbackChain[i] \in S => \E j \in 1..Len(fallbacks) : h[j] = i
    BY <2>4, <2>5 DEF KeptAt, Increasing, fallbacks
  <2>7. \A i, j \in 1..Len(fallbacks) : i # j => fallbacks[i] # fallbacks[j]
    <3>1. SUFFICES ASSUME NEW i \in 1..Len(fallbacks), NEW j \in 1..Len(fallbacks), i # j
                   PROVE  fallbacks[i] # fallbacks[j]
      OBVIOUS
    <3>2. h[i] # h[j]
      <4>1. h[i] \in Nat /\ h[j] \in Nat /\ (i < j \/ j < i)
        BY <2>3, <3>1
      <4>2. QED BY <2>6, <4>1
    <3>3. QED BY <2>2, <2>6, <3>2
  <2>8. \A i \in 1..Len(fallbacks) : fallbacks[i] # model
    BY <2>6 DEF S
  <2>9. ASSUME NEW i \in DOMAIN FallbackChain, FallbackChain[i] # model
        PROVE  \E j \in 1..Len(fallbacks) : fallbacks[j] = FallbackChain[i]
    <3>1. FallbackChain[i] \in S
      BY <2>5, <2>9 DEF S
    <3>2. PICK j \in 1..Len(fallbacks) : h[j] = i
      BY <2>6, <3>1
    <3>3. QED BY <2>6, <3>2
  <2>10. QED BY <1>2, <2>1, <2>3, <2>7, <2>8, <2>9
<1>3. QED BY <1>1, <1>2

LEMMA ModelsAre ==
  ASSUME NEW a \in CommandLines, NEW c \in Settings, MadeBy(a, c)
  PROVE  /\ ModelsOf(c) \in Seq(STRING \union {NoValue})
         /\ Len(ModelsOf(c)) = Len(c.fallbacks) + 1
         /\ ModelsOf(c)[1] = c.model
         /\ \A i \in 2..Len(ModelsOf(c)) : ModelsOf(c)[i] = c.fallbacks[i - 1]
         /\ \A i, j \in 1..Len(ModelsOf(c)) : i # j => ModelsOf(c)[i] # ModelsOf(c)[j]
         /\ \/ c.model \in {a.model, NoValue} /\ Len(ModelsOf(c)) = 1
            \/ \A i \in DOMAIN FallbackChain : \E j \in 1..Len(ModelsOf(c)) :
                 ModelsOf(c)[j] = FallbackChain[i]
<1> DEFINE model == c.model
           fallbacks == c.fallbacks
           models == ModelsOf(c)
<1>1. model \in STRING \union {NoValue} /\ fallbacks \in Seq(STRING)
  BY DEF Settings
<1>2. /\ \A i \in 1..Len(fallbacks) : fallbacks[i] # model
      /\ \A i, j \in 1..Len(fallbacks) : i # j => fallbacks[i] # fallbacks[j]
  <2>1. CASE a.model # NoValue
    BY <2>1 DEF MadeBy
  <2>2. CASE a.model = NoValue
    <3>1. fallbacks = DefaultModelFallbacks(model)
      BY <2>2 DEF MadeBy
    <3> HIDE DEF model, fallbacks
    <3>2. /\ \A i \in 1..Len(DefaultModelFallbacks(model)) : DefaultModelFallbacks(model)[i] # model
          /\ \A i, j \in 1..Len(DefaultModelFallbacks(model)) :
               i # j => DefaultModelFallbacks(model)[i] # DefaultModelFallbacks(model)[j]
      BY <1>1, FallbacksAre, Zenon
    <3>3. QED BY <3>1, <3>2, Zenon
  <2>3. QED BY <2>1, <2>2
<1>3. KeepIn(fallbacks, STRING \ {model}) = fallbacks
  <2>1. \A i \in 1..Len(fallbacks) : fallbacks[i] \in STRING \ {model}
    BY <1>1, <1>2
  <2>2. QED BY <1>1, <2>1, KeepInAll
<1>4. models = <<model>> \o fallbacks
  BY <1>3 DEF ModelsOf
<1>5. \/ model \in {a.model, NoValue} /\ Len(fallbacks) = 0
      \/ \A i \in DOMAIN FallbackChain :
           FallbackChain[i] = model \/ \E j \in 1..Len(fallbacks) : fallbacks[j] = FallbackChain[i]
  <2>1. CASE a.model # NoValue
    BY <2>1 DEF MadeBy
  <2>2. CASE a.model = NoValue
    <3>1. fallbacks = DefaultModelFallbacks(model)
      BY <2>2 DEF MadeBy
    <3> HIDE DEF model, fallbacks
    <3>2. QED BY <1>1, <3>1, FallbacksAre
  <2>3. QED BY <2>1, <2>2
<1> HIDE DEF model, fallbacks, models
<1> DEFINE m == Len(fallbacks)
<1>6. /\ models \in Seq(STRING \union {NoValue}) /\ Len(models) = m + 1 /\ m \in Nat
      /\ models[1] = model
      /\ \A i \in 2..(m + 1) : models[i] = fallbacks[i - 1]
  <2>1. <<model>> \in Seq(STRING \union {NoValue}) /\ fallbacks \in Seq(STRING \union {NoValue})
    <3> DEFINE S == STRING
               T == STRING \union {NoValue}
    <3>1. model \in T
      BY <1>1, Zenon
    <3>2. S \subseteq T /\ fallbacks \in Seq(S)
      <4>1. S \subseteq T
        BY Zenon
      <4>2. fallbacks \in Seq(S)
        BY <1>1, Zenon
      <4>3. QED BY <4>1, <4>2, Zenon
    <3> HIDE DEF S, T
    <3>3. fallbacks \in Seq(T)
      BY <3>2, SeqOfMore
    <3>4. <<model>> \in Seq(T)
      BY <3>1
    <3>5. QED BY <3>3, <3>4, Zenon DEF T
  <2>2. QED BY <1>4, <2>1
<1> HIDE DEF m
<1>7. \A i, j \in 1..(m + 1) : i # j => models[i] # models[j]
  <2>1. SUFFICES ASSUME NEW i \in 1..(m + 1), NEW j \in 1..(m + 1), i # j
                 PROVE  models[i] # models[j]
    OBVIOUS
  <2>2. \A k \in 1..(m + 1) : k = 1 \/ (k \in 2..(m + 1) /\ k - 1 \in 1..m)
    BY <1>6
  <2>3. CASE i # 1 /\ j # 1
    <3>1. i - 1 # j - 1 /\ i - 1 \in 1..m /\ j - 1 \in 1..m
      BY <2>1, <2>2, <2>3
    <3>2. QED BY <1>2, <1>6, <2>2, <2>3, <3>1 DEF m
  <2>4. CASE i = 1 \/ j = 1
    BY <1>2, <1>6, <2>1, <2>2, <2>4 DEF m
  <2>5. QED BY <2>3, <2>4
<1>8. \/ model \in {a.model, NoValue} /\ m + 1 = 1
      \/ \A i \in DOMAIN FallbackChain : \E j \in 1..(m + 1) : models[j] = FallbackChain[i]
  <2>1. CASE model \in {a.model, NoValue} /\ m = 0
    BY <2>1
  <2>2. CASE \A i \in DOMAIN FallbackChain :
               FallbackChain[i] = model \/ \E j \in 1..m : fallbacks[j] = FallbackChain[i]
    <3>1. SUFFICES ASSUME NEW i \in DOMAIN FallbackChain
                   PROVE  \E j \in 1..(m + 1) : models[j] = FallbackChain[i]
      OBVIOUS
    <3>2. CASE FallbackChain[i] = model
      <4>1. 1 \in 1..(m + 1)
        BY <1>6
      <4>2. QED BY <1>6, <3>2, <4>1
    <3>3. CASE \E j \in 1..m : fallbacks[j] = FallbackChain[i]
      <4>1. PICK j \in 1..m : fallbacks[j] = FallbackChain[i]
        BY <3>3
      <4>2. j + 1 \in 2..(m + 1) /\ (j + 1) - 1 = j /\ j + 1 \in 1..(m + 1)
        BY <1>6
      <4>3. QED BY <1>6, <4>1, <4>2
    <3>4. QED BY <2>2, <3>2, <3>3
  <2>3. QED BY <1>5, <2>1, <2>2 DEF m
<1>9. QED BY <1>6, <1>7, <1>8 DEF m, model, fallbacks, models

(* The record of a call that ends with the attempt in progress. *)
LEMMA RecordFollowsChain ==
  ASSUME NEW a \in CommandLines, NEW c \in Settings, NEW t \in Seq(Attempted), Underway(a, c, t),
         NEW end \in Ends, NEW outcome \in Ends,
         outcome = "unavailable" => ~(Len(t) + 1 < Len(ModelsOf(c)))
  PROVE  LET attempts == Append(t, [model |-> ModelsOf(c)[Len(t) + 1], end |-> end])
             record == [call |-> c, attempts |-> attempts, outcome |-> outcome]
         IN attempts \in Seq(Attempted) /\ record \in CallRecords /\ FollowsChain(a, record)
<1> DEFINE models == ModelsOf(c)
           n == Len(t) + 1
           last == [model |-> models[n], end |-> end]
           attempts == Append(t, last)
           record == [call |-> c, attempts |-> attempts, outcome |-> outcome]
<1>1. /\ models \in Seq(STRING \union {NoValue})
      /\ Len(models) = Len(c.fallbacks) + 1
      /\ models[1] = c.model
      /\ \A i \in 2..Len(models) : models[i] = c.fallbacks[i - 1]
      /\ \A i, j \in 1..Len(models) : i # j => models[i] # models[j]
      /\ \/ c.model \in {a.model, NoValue} /\ Len(models) = 1
         \/ \A i \in DOMAIN FallbackChain : \E j \in 1..Len(models) : models[j] = FallbackChain[i]
  BY ModelsAre DEF Underway
<1>2. /\ Len(t) < Len(models)
      /\ \A i \in DOMAIN t : t[i].model = models[i] /\ t[i].end = "unavailable"
  BY DEF Underway
<1> HIDE DEF models
<1>3. n \in 1..Len(models) /\ Len(t) \in Nat /\ Len(models) \in Nat /\ DOMAIN t = 1..Len(t)
  BY <1>1, <1>2
<1>4. last \in Attempted
  <2>1. models[n] \in STRING \union {NoValue}
    BY <1>1, <1>3
  <2>2. QED BY <2>1 DEF Attempted
<1>5. last.model = models[n]
  OBVIOUS
<1> HIDE DEF last
<1>6. attempts \in Seq(Attempted) /\ Len(attempts) = n /\ DOMAIN attempts = 1..n
      /\ attempts[n] = last /\ \A i \in 1..(n - 1) : attempts[i] = t[i] /\ i \in DOMAIN t
  BY <1>3, <1>4
<1> HIDE DEF attempts
<1>7. record \in CallRecords
  BY <1>6 DEF CallRecords
<1>8. record.call = c /\ record.attempts = attempts /\ record.outcome = outcome
  OBVIOUS
<1> HIDE DEF record
<1>9. n \in Nat /\ n <= Len(models) /\ (outcome = "unavailable" => n = Len(models))
  BY <1>3 DEF models
<1> HIDE DEF n
<1>10. \A i \in 1..n : attempts[i].model = models[i]
  <2>1. \A i \in 1..n : i = n \/ i \in 1..(n - 1)
    BY <1>9
  <2>2. QED BY <1>2, <1>5, <1>6, <2>1
<1>11. \A i \in 1..n : i < n => attempts[i].end = "unavailable"
  <2>1. \A i \in 1..n : i < n => i \in 1..(n - 1)
    BY <1>9
  <2>2. QED BY <1>2, <1>6, <2>1
<1>12. \A i, j \in 1..n : i # j => attempts[i].model # attempts[j].model
  <2>1. \A i \in 1..n : i \in 1..Len(models)
    BY <1>3, <1>9
  <2>2. QED BY <1>1, <1>10, <2>1
<1>13. attempts # <<>> => attempts[1].model = c.model
  <2>1. 1 \in 1..n
    BY <1>3 DEF n
  <2>2. QED BY <1>1, <1>10, <2>1
<1>14. \A i \in 2..n : attempts[i].model = c.fallbacks[i - 1]
  <2>1. \A i \in 2..n : i \in 2..Len(models) /\ i \in 1..n
    BY <1>3, <1>9
  <2>2. QED BY <1>1, <1>10, <2>1
<1>15. ASSUME outcome = "unavailable"
       PROVE  \/ c.model \in {a.model, NoValue} /\ n = 1
              \/ \A i \in DOMAIN FallbackChain : \E j \in 1..n : attempts[j].model = FallbackChain[i]
  <2>1. n = Len(models)
    BY <1>9, <1>15
  <2>2. CASE c.model \in {a.model, NoValue} /\ Len(models) = 1
    BY <2>1, <2>2
  <2>3. CASE \A i \in DOMAIN FallbackChain : \E j \in 1..Len(models) : models[j] = FallbackChain[i]
    <3>1. ASSUME NEW i \in DOMAIN FallbackChain
          PROVE  \E j \in 1..n : attempts[j].model = FallbackChain[i]
      <4>1. PICK j \in 1..Len(models) : models[j] = FallbackChain[i]
        BY <2>3
      <4>2. QED BY <1>10, <2>1, <4>1
    <3>2. QED BY <3>1
  <2>4. QED BY <1>1, <2>2, <2>3
<1>16. FollowsChain(a, record)
  <2>1. DOMAIN attempts = 1..n /\ Len(attempts) = n
    BY <1>6
  <2>2. /\ \A i \in DOMAIN attempts : i < Len(attempts) => attempts[i].end = "unavailable"
        /\ \A i, j \in DOMAIN attempts : i # j => attempts[i].model # attempts[j].model
        /\ \A i \in 2..Len(attempts) : attempts[i].model = c.fallbacks[i - 1]
    BY <1>11, <1>12, <1>14, <2>1
  <2>3. outcome = "unavailable" =>
          \/ c.model \in {a.model, NoValue} /\ Len(attempts) = 1
          \/ \A i \in DOMAIN FallbackChain : \E j \in DOMAIN attempts :
               attempts[j].model = FallbackChain[i]
    BY <1>15, <2>1
  <2>4. QED BY <1>8, <1>13, <2>2, <2>3, Zenon DEF FollowsChain
<1>17. QED BY <1>6, <1>7, <1>16 DEF record, attempts, last, n, models

-----------------------------------------------------------------------------
(* The types *)

LEMMA ProcessedIs ==
  ASSUME NEW bytes \in Seq(Bytes), NEW max
  PROVE  /\ ProcessJsonlBuffer(bytes, max).events = Events(bytes)
         /\ ProcessJsonlBuffer(bytes, max).rest =
              IF max > 0 /\ Len(Remainder(bytes)) > max THEN <<>> ELSE Remainder(bytes)
         /\ Events(bytes) \in Seq(Kinds) /\ Remainder(bytes) \in Seq(Bytes)
         /\ ProcessJsonlBuffer(bytes, max).rest \in Seq(Bytes)
<1>1. Events(bytes) \in Seq(Kinds) /\ Remainder(bytes) \in Seq(Bytes)
  BY EventsAre, RemainderIs
<1>2. <<>> \in Seq(Bytes)
  OBVIOUS
<1>3. QED BY <1>1, <1>2 DEF ProcessJsonlBuffer

(* The observer holds the last result among the events. *)
Observes(o, events) ==
  \/ o = NoValue /\ \A j \in 1..Len(events) : events[j] \notin ResultKinds
  \/ \E j \in 1..Len(events) :
       /\ o = events[j] /\ o \in ResultKinds
       /\ \A k \in 1..Len(events) : k > j => events[k] \notin ResultKinds

LEMMA LastResultIs ==
  ASSUME NEW events \in Seq(Kinds)
  PROVE  LET results == KeepIn(events, ResultKinds) IN
         /\ results = <<>> => \A j \in 1..Len(events) : events[j] \notin ResultKinds
         /\ results # <<>> => \E j \in 1..Len(events) :
              /\ results[Len(results)] = events[j] /\ events[j] \in ResultKinds
              /\ \A k \in 1..Len(events) : k > j => events[k] \notin ResultKinds
<1> DEFINE results == KeepIn(events, ResultKinds)
           n == Len(results)
<1>1. results \in Seq(Kinds)
      /\ \E h \in [1..Len(results) -> 1..Len(events)] : KeptAt(events, ResultKinds, h)
  BY KeepInIs
<1>2. PICK h \in [1..Len(results) -> 1..Len(events)] : KeptAt(events, ResultKinds, h)
  BY <1>1
<1> HIDE DEF results
<1>3. /\ \A k \in 1..n : results[k] = events[h[k]] /\ events[h[k]] \in ResultKinds
      /\ \A j \in 1..Len(events) : events[j] \in ResultKinds => \E k \in 1..n : h[k] = j
      /\ \A i, k \in 1..n : i < k => h[i] < h[k]
      /\ n \in Nat /\ (results = <<>> <=> n = 0)
  BY <1>1, <1>2 DEF KeptAt, Increasing, results
<1> HIDE DEF n
<1>4. CASE n = 0
  BY <1>3, <1>4 DEF results
<1>5. CASE n # 0
  <2>1. n \in 1..n /\ h[n] \in 1..Len(events)
    BY <1>3, <1>5 DEF n
  <2>2. ASSUME NEW k \in 1..Len(events), k > h[n], events[k] \in ResultKinds
        PROVE  FALSE
    <3>1. PICK i \in 1..n : h[i] = k
      BY <1>3, <2>2
    <3>2. i = n \/ i < n
      BY <1>3
    <3>3. h[i] \in Nat /\ h[n] \in Nat
      BY <2>1, <3>1
    <3>4. QED BY <1>3, <2>1, <2>2, <3>1, <3>2, <3>3
  <2>3. results[n] = events[h[n]] /\ events[h[n]] \in ResultKinds
    BY <1>3, <2>1
  <2>4. QED BY <1>3, <1>5, <2>1, <2>2, <2>3 DEF results, n
<1>6. QED BY <1>4, <1>5

LEMMA ObserverUpdated ==
  ASSUME NEW old \in Seq(Kinds), NEW events \in Seq(Kinds), Observes(observer, old),
         UpdateObserver(events)
  PROVE  Observes(observer', old \o events)
<1> DEFINE results == KeepIn(events, ResultKinds)
           all == old \o events
           p == Len(old)
           q == Len(events)
<1>1. observer' = IF results = <<>> THEN observer ELSE results[Len(results)]
  BY DEF UpdateObserver
<1>2. /\ results = <<>> => \A j \in 1..q : events[j] \notin ResultKinds
      /\ results # <<>> => \E j \in 1..q :
           /\ results[Len(results)] = events[j] /\ events[j] \in ResultKinds
           /\ \A k \in 1..q : k > j => events[k] \notin ResultKinds
  BY LastResultIs
<1>3. /\ p \in Nat /\ q \in Nat /\ Len(all) = p + q
      /\ \A j \in 1..p : all[j] = old[j]
      /\ \A j \in 1..q : all[p + j] = events[j]
  OBVIOUS
<1> HIDE DEF results, all, p, q
<1>4. \A k \in 1..(p + q) : k \in 1..p \/ (k - p \in 1..q /\ k = p + (k - p) /\ k > p)
  BY <1>3
<1>5. CASE results = <<>>
  <2>1. ASSUME NEW k \in 1..(p + q), k > p
        PROVE  all[k] \notin ResultKinds
    <3>1. k - p \in 1..q /\ k = p + (k - p)
      BY <1>3, <2>1
    <3>2. all[k] = events[k - p]
      BY <1>3, <3>1
    <3>3. QED BY <1>2, <1>5, <3>1, <3>2
  <2>2. CASE observer = NoValue /\ \A j \in 1..p : old[j] \notin ResultKinds
    <3>1. \A k \in 1..(p + q) : all[k] \notin ResultKinds
      BY <1>3, <1>4, <2>1, <2>2
    <3>2. QED BY <1>1, <1>3, <1>5, <2>2, <3>1 DEF Observes, all
  <2>3. ASSUME NEW j \in 1..p, observer = old[j], observer \in ResultKinds,
               \A k \in 1..p : k > j => old[k] \notin ResultKinds
        PROVE  Observes(observer', all)
    <3>1. j \in 1..(p + q) /\ all[j] = observer
      BY <1>3, <2>3
    <3>2. \A k \in 1..(p + q) : k > j => all[k] \notin ResultKinds
      BY <1>3, <1>4, <2>1, <2>3
    <3>3. QED BY <1>1, <1>3, <1>5, <2>3, <3>1, <3>2 DEF Observes
  <2>4. QED BY <2>2, <2>3 DEF Observes, p, all
<1>6. CASE results # <<>>
  <2>1. PICK j \in 1..q : /\ results[Len(results)] = events[j] /\ events[j] \in ResultKinds
                          /\ \A k \in 1..q : k > j => events[k] \notin ResultKinds
    BY <1>2, <1>6
  <2>2. p + j \in 1..(p + q) /\ all[p + j] = observer' /\ observer' \in ResultKinds
    BY <1>1, <1>3, <1>6, <2>1
  <2>3. ASSUME NEW k \in 1..(p + q), k > p + j
        PROVE  all[k] \notin ResultKinds
    <3>1. k - p \in 1..q /\ k - p > j /\ k = p + (k - p)
      BY <1>3, <2>3
    <3>2. QED BY <1>3, <2>1, <3>1
  <2>4. QED BY <1>3, <2>2, <2>3 DEF Observes, all
<1>7. QED BY <1>5, <1>6 DEF all

CallsOK(a, records) ==
  /\ records \in Seq(CallRecords)
  /\ \A n \in DOMAIN records : FollowsChain(a, records[n])

LEMMA CallAppended ==
  ASSUME NEW a, NEW records, CallsOK(a, records), NEW record \in CallRecords, FollowsChain(a, record)
  PROVE  CallsOK(a, Append(records, record))
<1> DEFINE new == Append(records, record)
<1>1. records \in Seq(CallRecords) /\ Len(records) \in Nat
  BY DEF CallsOK
<1>2. new \in Seq(CallRecords) /\ DOMAIN new = 1..(Len(records) + 1)
      /\ new[Len(records) + 1] = record
      /\ \A n \in 1..Len(records) : new[n] = records[n] /\ n \in DOMAIN records
  BY <1>1
<1>3. \A n \in 1..(Len(records) + 1) : n = Len(records) + 1 \/ n \in 1..Len(records)
  BY <1>1
<1> HIDE DEF new
<1>4. \A n \in DOMAIN new : FollowsChain(a, new[n])
  BY <1>2, <1>3 DEF CallsOK
<1>5. QED BY <1>2, <1>4 DEF CallsOK, new

(* The invariant of the calls. *)
CallInv ==
  /\ TypeOK
  /\ pc \in {"next", "spawn", "stream", "judge"} => PlanAccepted(args)
  /\ pc \in {"choose", "next"} => tried = <<>>
  /\ pc \in {"spawn", "stream", "judge"} => Underway(args, call, tried)
  /\ CallsOK(args, calls)

ControlTypes ==
  /\ args \in CommandLines
  /\ rest \in Seq(Ids)
  /\ pc \in {"choose", "next", "spawn", "stream", "judge", "done"}
  /\ call \in Settings
  /\ tried \in Seq(Attempted)

StreamTypes ==
  /\ pipe \in Seq(Bytes) /\ buffer \in Seq(Bytes)
  /\ observer \in ResultKinds \union {NoValue}
  /\ kill \in LimitReasons \union {NoValue}
  /\ written \in Scripts \union {<<>>} /\ arrived \in Nat /\ parsed \in Seq(Kinds)

LEMMA TypesSplit == TypeOK <=> ControlTypes /\ StreamTypes
BY DEF TypeOK, ControlTypes, StreamTypes, Attempted

LEMMA ScriptsAre == \A script \in Scripts \union {<<>>} : script \in Seq(ScriptEvents)
<1>1. <<>> \in Seq(ScriptEvents)
  OBVIOUS
<1>2. Scripts \subseteq Seq(ScriptEvents)
  BY ClaudeCallAssumption, Zenon DEF ScriptEvents
<1>3. QED BY <1>1, <1>2, Zenon

LEMMA NoStreamTyped ==
  ASSUME NoStream
  PROVE  StreamTypes'
BY DEF NoStream, StreamTypes

LEMMA ProcessTyped ==
  ASSUME NEW bytes \in Seq(Bytes), NEW max, Process(bytes, max), parsed \in Seq(Kinds),
         observer \in ResultKinds \union {NoValue}
  PROVE  /\ buffer' \in Seq(Bytes) /\ parsed' \in Seq(Kinds)
         /\ observer' \in ResultKinds \union {NoValue}
<1> DEFINE events == Events(bytes)
           results == KeepIn(events, ResultKinds)
<1>1. /\ buffer' = ProcessJsonlBuffer(bytes, max).rest /\ parsed' = parsed \o events
      /\ UpdateObserver(events)
  BY ProcessedIs DEF Process
<1>2. events \in Seq(Kinds) /\ ProcessJsonlBuffer(bytes, max).rest \in Seq(Bytes)
  BY ProcessedIs
<1> HIDE DEF events
<1>3. observer' \in ResultKinds \union {NoValue}
  <2>1. observer' = IF results = <<>> THEN observer ELSE results[Len(results)]
    BY <1>1 DEF UpdateObserver
  <2>2. results # <<>> => results[Len(results)] \in ResultKinds
    BY <1>2, LastResultIs
  <2> HIDE DEF results
  <2>3. QED BY <2>1, <2>2
<1>4. QED BY <1>1, <1>2, <1>3

LEMMA StreamSteps ==
  ASSUME StreamTypes, Spawn \/ ReadChunk \/ Crash \/ Eof \/ LimitStrikes
  PROVE  StreamTypes'
<1>1. CASE Spawn
  <2>1. PICK script \in Scripts : written' = script /\ pipe' = ScriptBytes(script)
    BY <1>1 DEF Spawn
  <2>2. ScriptBytes(script) \in Seq(Bytes)
    BY ScriptsAre, ScriptBytesAre
  <2>3. QED BY <1>1, <2>1, <2>2 DEF Spawn, StreamTypes
<1>2. CASE ReadChunk
  <2>1. PICK n \in 1..ReadChunkSize :
          /\ n <= Len(pipe)
          /\ Process(buffer \o SubSeq(pipe, 1, n), MaxBufferSize)
          /\ pipe' = SubSeq(pipe, n + 1, Len(pipe))
          /\ arrived' = arrived + n
    BY <1>2 DEF ReadChunk
  <2>2. n \in Nat /\ ReadChunkSize \in Nat
    BY ClaudeCallAssumption
  <2>3. pipe \in Seq(Bytes) /\ buffer \in Seq(Bytes) /\ arrived \in Nat
        /\ parsed \in Seq(Kinds) /\ observer \in ResultKinds \union {NoValue}
    BY DEF StreamTypes
  <2>4. SubSeq(pipe, 1, n) \in Seq(Bytes) /\ SubSeq(pipe, n + 1, Len(pipe)) \in Seq(Bytes)
    BY <2>1, <2>2, <2>3
  <2>5. buffer \o SubSeq(pipe, 1, n) \in Seq(Bytes)
    BY <2>3, <2>4
  <2>6. buffer' \in Seq(Bytes) /\ parsed' \in Seq(Kinds) /\ observer' \in ResultKinds \union {NoValue}
    BY <2>1, <2>3, <2>5, ProcessTyped
  <2>7. arrived' \in Nat
    BY <2>1, <2>2, <2>3
  <2>8. kill' = kill /\ written' = written
    BY <1>2 DEF ReadChunk
  <2>9. QED BY <2>1, <2>4, <2>6, <2>7, <2>8 DEF StreamTypes
<1>3. CASE Crash
  BY <1>3 DEF Crash, StreamTypes
<1>4. CASE Eof \/ LimitStrikes
  <2>1. Process(Append(buffer, Newline), 0) /\ kill' \in LimitReasons \union {NoValue}
        /\ UNCHANGED <<pipe, written, arrived>>
    BY <1>4, ClaudeCallAssumption DEF Eof, LimitStrikes, Flush
  <2>2. Append(buffer, Newline) \in Seq(Bytes) /\ parsed \in Seq(Kinds)
        /\ observer \in ResultKinds \union {NoValue}
    BY DEF StreamTypes, Bytes
  <2>3. buffer' \in Seq(Bytes) /\ parsed' \in Seq(Kinds) /\ observer' \in ResultKinds \union {NoValue}
    BY <2>1, <2>2, ProcessTyped
  <2>4. QED BY <2>1, <2>3 DEF StreamTypes
<1>5. QED BY <1>1, <1>2, <1>3, <1>4

LEMMA InvokedIs ==
  ASSUME args \in CommandLines, NEW check \in Ids \union {MemoryFix},
         NEW model \in STRING \union {NoValue}, NEW effort \in ValidEfforts \union {NoValue},
         NEW idle_timeout \in Nat
  PROVE  /\ InvokeClaude(check, model, effort, idle_timeout) \in Settings
         /\ Underway(args, InvokeClaude(check, model, effort, idle_timeout), <<>>)
<1> DEFINE c == InvokeClaude(check, model, effort, idle_timeout)
           effective == IF args.model # NoValue THEN args.model ELSE model
           fallbacks == IF args.model # NoValue THEN <<>> ELSE DefaultModelFallbacks(effective)
           effort_ == IF args.effort # NoValue THEN args.effort ELSE effort
<1>1. c = [check |-> check, model |-> effective, idle_timeout |-> idle_timeout,
           effort |-> effort_, fallbacks |-> fallbacks]
  BY DEF InvokeClaude
<1>2. args.model \in STRING \union {NoValue} /\ args.effort \in ValidEfforts \union {NoValue}
  BY CommandLineIs
<1>3. effective \in STRING \union {NoValue} /\ effort_ \in ValidEfforts \union {NoValue}
  BY <1>2
<1>4. fallbacks \in Seq(STRING)
  <2>1. DefaultModelFallbacks(effective) \in Seq(STRING)
    <3> HIDE DEF effective
    <3>1. QED BY <1>3, FallbacksAre
  <2>2. <<>> \in Seq(STRING)
    OBVIOUS
  <2> HIDE DEF effective
  <2>3. QED BY <2>1, <2>2
<1>5. MadeBy(args, c)
  <2>1. c.model = effective /\ c.fallbacks = fallbacks
    BY <1>1
  <2>2. QED BY <2>1 DEF MadeBy
<1> HIDE DEF effective, fallbacks, effort_
<1>6. c \in Settings
  BY <1>1, <1>3, <1>4 DEF Settings
<1> HIDE DEF c
<1>7. 0 < Len(ModelsOf(c))
  <2>1. Len(ModelsOf(c)) = Len(c.fallbacks) + 1 /\ c.fallbacks \in Seq(STRING)
    <3>1. c.fallbacks \in Seq(STRING)
      BY <1>6 DEF Settings
    <3>2. QED BY <1>5, <1>6, <3>1, ModelsAre
  <2>2. QED BY <2>1
<1>8. Underway(args, c, <<>>)
  BY <1>5, <1>7 DEF Underway
<1>9. QED BY <1>6, <1>8 DEF c

(* An action that touches only the stream keeps the calls as they are. *)
LEMMA CallsKept ==
  ASSUME CallInv, StreamTypes', UNCHANGED <<args, rest, call, tried, calls>>,
         pc' \in {"spawn", "stream", "judge"}, pc \in {"spawn", "stream", "judge"}
  PROVE  CallInv'
<1>1. ControlTypes' /\ StreamTypes'
  BY TypesSplit DEF CallInv, ControlTypes
<1>2. TypeOK'
  BY <1>1 DEF TypeOK, ControlTypes, StreamTypes, Attempted
<1>3. QED BY <1>2 DEF CallInv

LEMMA CallOver ==
  ASSUME CallInv, NEW record \in CallRecords, FollowsChain(args, record),
         calls' = Append(calls, record), args' = args
  PROVE  CallsOK(args, calls)'
<1>1. CallsOK(args, Append(calls, record))
  BY CallAppended DEF CallInv
<1>2. QED BY <1>1

(* A record without attempts. *)
LEMMA NoAttempts ==
  ASSUME NEW a, NEW c \in Settings, NEW outcome \in {"skipped", "dry"}
  PROVE  LET record == [call |-> c, attempts |-> <<>>, outcome |-> outcome]
         IN record \in CallRecords /\ FollowsChain(a, record)
<1> DEFINE record == [call |-> c, attempts |-> <<>>, outcome |-> outcome]
<1>1. record \in CallRecords
  BY DEF CallRecords
<1>2. record.call = c /\ record.attempts = <<>> /\ record.outcome = outcome
  OBVIOUS
<1> HIDE DEF record
<1>3. DOMAIN record.attempts = {} /\ Len(record.attempts) = 0
  BY <1>2
<1>4. FollowsChain(a, record)
  BY <1>2, <1>3 DEF FollowsChain
<1>5. QED BY <1>1, <1>4 DEF record

LEMMA ChooseKeepsCalls ==
  ASSUME CallInv, ResolveSelectedChecks
  PROVE  CallInv'
<1>1. ControlTypes /\ StreamTypes
  BY TypesSplit DEF CallInv
<1>2. SelectedChecks(args) \in Seq(Ids)
  BY SelectedChecksAre
<1>3. ControlTypes' /\ StreamTypes'
  <2>1. ControlTypes'
    BY <1>1, <1>2 DEF ControlTypes, ResolveSelectedChecks
  <2>2. StreamTypes'
    BY <1>1 DEF StreamTypes, ResolveSelectedChecks, streamVars
  <2>3. QED BY <2>1, <2>2
<1>4. TypeOK'
  BY <1>3 DEF TypeOK, ControlTypes, StreamTypes, Attempted
<1>5. pc' = "next" => PlanAccepted(args)
  BY DEF ResolveSelectedChecks, PlanAccepted
<1>6. pc' \in {"next", "done"} /\ pc = "choose" /\ UNCHANGED <<args, tried, calls>>
  BY DEF ResolveSelectedChecks
<1>7. QED BY <1>4, <1>5, <1>6 DEF CallInv

LEMMA RunKeepsCalls ==
  ASSUME CallInv, RunSingleCheck
  PROVE  CallInv'
<1> DEFINE c == Head(rest)
           made == InvokeClaude(c, CheckModel(args, c), CheckEffort(args, c),
                                CheckIdleTimeout(args, c))
<1>1. ControlTypes /\ StreamTypes
  BY TypesSplit DEF CallInv
<1>2. pc = "next" /\ rest # <<>> /\ rest' = Tail(rest) /\ UNCHANGED <<args, tried, streamVars>>
      /\ IF args.dry_run THEN Record(made, <<>>, "dry") /\ UNCHANGED <<pc, call>>
         ELSE call' = made /\ pc' = "spawn" /\ UNCHANGED calls
  BY DEF RunSingleCheck
<1>3. c \in Ids /\ Tail(rest) \in Seq(Ids) /\ args \in CommandLines
  BY <1>1, <1>2 DEF ControlTypes
<1>4. PlanAccepted(args) /\ tried = <<>>
  BY <1>2 DEF CallInv
<1> HIDE DEF c
<1>5. CheckModel(args, c) \in STRING /\ CheckEffort(args, c) \in ValidEfforts \union {NoValue}
      /\ CheckIdleTimeout(args, c) \in Nat
  BY <1>3, <1>4, CheckSettingsAre
<1>6. made \in Settings /\ Underway(args, made, <<>>)
  BY <1>3, <1>5, InvokedIs
<1> HIDE DEF made
<1>7. StreamTypes'
  BY <1>1, <1>2 DEF StreamTypes, streamVars
<1>8. CASE args.dry_run
  <2> DEFINE record == [call |-> made, attempts |-> <<>>, outcome |-> "dry"]
  <2>1. record \in CallRecords /\ FollowsChain(args, record)
    BY <1>6, NoAttempts
  <2>2. calls' = Append(calls, record)
    BY <1>2, <1>8 DEF Record
  <2> HIDE DEF record
  <2>3. CallsOK(args, calls)'
    BY <1>2, <2>1, <2>2, CallOver
  <2>4. ControlTypes'
    BY <1>1, <1>2, <1>3, <1>8 DEF ControlTypes
  <2>5. TypeOK'
    BY <1>7, <2>4 DEF TypeOK, ControlTypes, StreamTypes, Attempted
  <2>6. QED BY <1>2, <1>4, <1>8, <2>3, <2>5 DEF CallInv
<1>9. CASE ~args.dry_run
  <2>1. ControlTypes'
    BY <1>1, <1>2, <1>3, <1>6, <1>9 DEF ControlTypes
  <2>2. TypeOK'
    BY <1>7, <2>1 DEF TypeOK, ControlTypes, StreamTypes, Attempted
  <2>3. QED BY <1>2, <1>4, <1>6, <1>9, <2>2 DEF CallInv
<1>10. QED BY <1>8, <1>9

LEMMA SkipKeepsCalls ==
  ASSUME CallInv, SkipDangerous
  PROVE  CallInv'
<1> DEFINE c == [NoCall EXCEPT !.check = Head(rest)]
           record == [call |-> c, attempts |-> <<>>, outcome |-> "skipped"]
<1>1. ControlTypes /\ StreamTypes
  BY TypesSplit DEF CallInv
<1>2. pc = "next" /\ rest # <<>> /\ calls' = Append(calls, record) /\ rest' = Tail(rest)
      /\ UNCHANGED <<args, pc, call, tried, streamVars>>
  BY DEF SkipDangerous, Record
<1>3. Head(rest) \in Ids /\ Tail(rest) \in Seq(Ids)
  BY <1>1, <1>2 DEF ControlTypes
<1>4. c \in Settings
  <2> DEFINE id == Head(rest)
  <2>1. c = [check |-> id, model |-> NoValue, effort |-> NoValue, idle_timeout |-> 0,
             fallbacks |-> <<>>]
    BY DEF NoCall
  <2>2. id \in Ids
    BY <1>3
  <2> HIDE DEF id, c
  <2>3. QED BY <2>1, <2>2 DEF Settings
<1>5. record \in CallRecords /\ FollowsChain(args, record)
  <2> HIDE DEF c
  <2> QED BY <1>4, NoAttempts
<1> HIDE DEF record
<1>6. CallsOK(args, calls)'
  BY <1>2, <1>5, CallOver
<1>7. ControlTypes' /\ StreamTypes'
  <2>1. ControlTypes'
    BY <1>1, <1>2, <1>3 DEF ControlTypes
  <2>2. QED BY <1>1, <1>2, <2>1 DEF StreamTypes, streamVars
<1>8. TypeOK'
  BY <1>7 DEF TypeOK, ControlTypes, StreamTypes, Attempted
<1>9. QED BY <1>2, <1>6, <1>8 DEF CallInv

LEMMA EndKeepsCalls ==
  ASSUME CallInv, EndOfChecks \/ SpawnFails
  PROVE  CallInv'
<1>1. pc' = "done" /\ UNCHANGED <<args, rest, call, tried, streamVars, calls>>
  BY DEF EndOfChecks, SpawnFails
<1>2. TypeOK'
  BY <1>1 DEF CallInv, TypeOK, streamVars
<1>3. QED BY <1>1, <1>2 DEF CallInv

LEMMA NotUnavailable ==
  /\ \A reason \in LimitReasons : reason \in Ends /\ reason # "unavailable"
  /\ {"raised", "unavailable", "finished"} \subseteq Ends
BY ClaudeCallAssumption DEF Ends

(* The call in progress ends; another one may begin. *)
LEMMA CallEnds ==
  ASSUME CallInv, pc \in {"spawn", "stream", "judge"},
         NEW end \in Ends, end = "unavailable" => ~MoreModels,
         Record(call, Tried(end), end), NoStream, tried' = <<>>, UNCHANGED <<args, rest>>,
         \/ pc' = "next" /\ call' = NoCall
         \/ pc' = "spawn" /\ call' = InvokeClaude(MemoryFix, NoValue, NoValue, args.idle_timeout)
  PROVE  CallInv'
<1> DEFINE attempts == Append(tried, [model |-> ModelsOf(call)[Len(tried) + 1], end |-> end])
           record == [call |-> call, attempts |-> attempts, outcome |-> end]
<1>1. ControlTypes /\ Underway(args, call, tried) /\ PlanAccepted(args)
  BY TypesSplit DEF CallInv
<1>2. args \in CommandLines /\ call \in Settings /\ tried \in Seq(Attempted) /\ args.idle_timeout \in Nat
  BY <1>1, CommandLineIs DEF ControlTypes
<1>3. calls' = Append(calls, record)
  BY DEF Record, Tried, Attempts, ModelsOf
<1>4. end = "unavailable" => ~(Len(tried) + 1 < Len(ModelsOf(call)))
  BY DEF MoreModels, Attempts, ModelsOf
<1>5. record \in CallRecords /\ FollowsChain(args, record)
  BY <1>1, <1>2, <1>4, RecordFollowsChain
<1> HIDE DEF record
<1>6. CallsOK(args, calls)'
  BY <1>3, <1>5, CallOver
<1>7. NoCall \in Settings
  BY DEF NoCall, Settings
<1>8. /\ InvokeClaude(MemoryFix, NoValue, NoValue, args.idle_timeout) \in Settings
      /\ Underway(args, InvokeClaude(MemoryFix, NoValue, NoValue, args.idle_timeout), <<>>)
  BY <1>2, InvokedIs
<1>9. ControlTypes'
  BY <1>1, <1>7, <1>8 DEF ControlTypes
<1>10. StreamTypes'
  BY NoStreamTyped
<1>11. TypeOK'
  BY <1>9, <1>10 DEF TypeOK, ControlTypes, StreamTypes, Attempted
<1>12. QED BY <1>1, <1>6, <1>8, <1>11 DEF CallInv

LEMMA NextModelKeepsCalls ==
  ASSUME CallInv, NextModel
  PROVE  CallInv'
<1> DEFINE models == ModelsOf(call)
           n == Len(tried) + 1
           last == [model |-> models[n], end |-> "unavailable"]
<1>1. ControlTypes /\ StreamTypes /\ Underway(args, call, tried) /\ PlanAccepted(args)
  BY TypesSplit DEF CallInv, NextModel
<1>2. tried' = Append(tried, last) /\ n < Len(models) /\ pc' = "spawn"
      /\ UNCHANGED <<args, rest, call, streamVars, calls>>
  BY DEF NextModel, Tried, MoreModels, Attempts, ModelsOf
<1>3. args \in CommandLines /\ call \in Settings /\ tried \in Seq(Attempted)
  BY <1>1 DEF ControlTypes
<1>4. models \in Seq(STRING \union {NoValue})
  BY <1>1, <1>3, ModelsAre DEF Underway
<1>5. \A i \in DOMAIN tried : tried[i].model = models[i] /\ tried[i].end = "unavailable"
  BY <1>1 DEF Underway
<1> HIDE DEF models
<1>6. Len(tried) \in Nat /\ n \in 1..Len(models)
  BY <1>2, <1>3, <1>4
<1>7. last \in Attempted
  <2>1. models[n] \in STRING \union {NoValue}
    BY <1>4, <1>6
  <2>2. QED BY <2>1, NotUnavailable DEF Attempted
<1>8. last.model = models[n] /\ last.end = "unavailable"
  OBVIOUS
<1> HIDE DEF last
<1>9. tried' \in Seq(Attempted) /\ Len(tried') = n /\ DOMAIN tried' = 1..n /\ tried'[n] = last
      /\ \A i \in 1..(n - 1) : tried'[i] = tried[i] /\ i \in DOMAIN tried
  BY <1>2, <1>3, <1>7
<1>10. \A i \in DOMAIN tried' : tried'[i].model = models[i] /\ tried'[i].end = "unavailable"
  <2>1. \A i \in 1..n : i = n \/ i \in 1..(n - 1)
    BY <1>6
  <2>2. QED BY <1>5, <1>8, <1>9, <2>1
<1>11. Underway(args, call, tried')
  BY <1>1, <1>2, <1>9, <1>10 DEF Underway, models
<1>12. ControlTypes'
  BY <1>1, <1>2, <1>9 DEF ControlTypes
<1>13. StreamTypes'
  BY <1>1, <1>2 DEF StreamTypes, streamVars
<1>14. TypeOK'
  BY <1>12, <1>13 DEF TypeOK, ControlTypes, StreamTypes, Attempted
<1>15. QED BY <1>1, <1>2, <1>11, <1>14 DEF CallInv

LEMMA ReturnKeepsCalls ==
  ASSUME CallInv, Return
  PROVE  CallInv'
<1>1. StreamTypes
  BY TypesSplit DEF CallInv
<1>2. Verdict \in Ends /\ (Verdict = "unavailable" => ModelUnavailable)
  <2>1. kill \in LimitReasons \union {NoValue}
    BY <1>1 DEF StreamTypes
  <2>2. CASE ModelUnavailable
    <3>1. kill = NoValue
      BY <2>2 DEF ModelUnavailable
    <3>2. QED BY <2>2, <3>1, NotUnavailable DEF Verdict
  <2>3. CASE ~ModelUnavailable /\ kill # NoValue
    BY <2>1, <2>3, NotUnavailable DEF Verdict
  <2>4. CASE ~ModelUnavailable /\ kill = NoValue
    BY <2>4, NotUnavailable DEF Verdict
  <2>5. QED BY <2>2, <2>3, <2>4
<1>3. Verdict = "unavailable" => ~MoreModels
  BY <1>2 DEF Return
<1>4. pc = "judge" /\ Record(call, Tried(Verdict), Verdict) /\ NoStream /\ tried' = <<>>
      /\ UNCHANGED <<args, rest>>
      /\ \/ pc' = "next" /\ call' = NoCall
         \/ pc' = "spawn" /\ call' = InvokeClaude(MemoryFix, NoValue, NoValue, args.idle_timeout)
  BY DEF Return
<1>5. QED
  <2> DEFINE end == Verdict
  <2>1. /\ end \in Ends /\ (end = "unavailable" => ~MoreModels)
        /\ Record(call, Tried(end), end)
    BY <1>2, <1>3, <1>4
  <2> HIDE DEF end
  <2>2. QED BY <1>4, <2>1, CallEnds

LEMMA CallSteps ==
  ASSUME CallInv, [Next]_vars
  PROVE  CallInv'
<1>1. CASE ResolveSelectedChecks
  BY <1>1, ChooseKeepsCalls
<1>2. CASE RunSingleCheck
  BY <1>2, RunKeepsCalls
<1>3. CASE SkipDangerous
  BY <1>3, SkipKeepsCalls
<1>4. CASE EndOfChecks \/ SpawnFails
  BY <1>4, EndKeepsCalls
<1>5. CASE Spawn \/ ReadChunk \/ Crash \/ Eof \/ LimitStrikes
  <2>1. StreamTypes'
    BY <1>5, StreamSteps, TypesSplit DEF CallInv
  <2>2. UNCHANGED <<args, rest, call, tried, calls>>
        /\ pc' \in {"spawn", "stream", "judge"} /\ pc \in {"spawn", "stream", "judge"}
    BY <1>5 DEF Spawn, ReadChunk, Crash, Eof, LimitStrikes
  <2>3. QED BY <2>1, <2>2, CallsKept
<1>6. CASE RaiseInCall
  <2>1. pc = "stream" /\ Record(call, Tried("raised"), "raised") /\ pc' = "next" /\ call' = NoCall
        /\ tried' = <<>> /\ NoStream /\ UNCHANGED <<args, rest>>
    BY <1>6 DEF RaiseInCall
  <2>2. "raised" \in Ends
    BY NotUnavailable
  <2>3. QED BY <2>1, <2>2, CallEnds
<1>7. CASE NextModel
  BY <1>7, NextModelKeepsCalls
<1>8. CASE Return
  BY <1>8, ReturnKeepsCalls
<1>9. CASE Finished \/ UNCHANGED vars
  <2>1. UNCHANGED <<args, rest, pc, call, tried, pipe, buffer, observer, kill, written, arrived,
                    parsed, calls>>
    BY <1>9 DEF Finished, vars, streamVars
  <2>2. TypeOK'
    BY <2>1 DEF CallInv, TypeOK
  <2>3. QED BY <2>1, <2>2 DEF CallInv
<1>10. QED BY <1>1, <1>2, <1>3, <1>4, <1>5, <1>6, <1>7, <1>8, <1>9 DEF Next

LEMMA CallInvHolds == Spec => []CallInv
<1>1. Init => CallInv
  <2> SUFFICES ASSUME Init PROVE CallInv
    OBVIOUS
  <2>1. NoCall \in Settings
    BY DEF NoCall, Settings
  <2>2. ControlTypes /\ pc = "choose" /\ tried = <<>>
    BY <2>1 DEF Init, ControlTypes
  <2>3. StreamTypes
    BY DEF Init, StreamTypes
  <2>4. CallsOK(args, calls)
    <3>1. calls = <<>> /\ DOMAIN calls = {}
      BY DEF Init
    <3>2. QED BY <3>1 DEF CallsOK
  <2>5. QED BY <2>2, <2>3, <2>4, TypesSplit DEF CallInv
<1>2. CallInv /\ [Next]_vars => CallInv'
  BY CallSteps
<1>3. QED BY <1>1, <1>2, PTL DEF Spec

(* Every variable keeps to its type: every check that is called is one of    *)
(* the selected ones or the follow-up, with a model, an effort that the      *)
(* program accepts and a timeout, whatever the plans leave out (TypeOK).     *)
THEOREM TypesHold == Spec => []TypeOK
<1>1. CallInv => TypeOK
  BY DEF CallInv
<1>2. QED BY <1>1, CallInvHolds, PTL

-----------------------------------------------------------------------------
(* The events of a stretch of the output *)

(* The place of a byte in its line tells what it is. *)
LEMMA ByteInLine ==
  ASSUME NEW script \in Seq(ScriptEvents), NEW i \in 1..Len(script),
         NEW b \in (EndOf(script, i - 1) + 1)..EndOf(script, i)
  PROVE  /\ ScriptBytes(script)[b] = Newline <=> b = EndOf(script, i)
         /\ ScriptBytes(script)[b] \in Kinds <=> b = EndOf(script, i) - 1
         /\ ScriptBytes(script)[b] = Open <=> b = EndOf(script, i - 1) + 1
<1> DEFINE x == EndOf(script, i - 1)
           y == EndOf(script, i)
           byte == ScriptBytes(script)[b]
<1>1. x \in Nat /\ y \in Nat /\ x + 3 <= y /\ b \in (x + 1)..y
  <2>1. Len(script) \in Nat /\ i \in 0..Len(script) /\ i - 1 \in 0..Len(script) /\ i - 1 < i
    OBVIOUS
  <2>2. QED BY <2>1, EndsAre
<1>2. /\ b = y => byte = Newline
      /\ b = y - 1 => byte \in Kinds
      /\ b = x + 1 => byte = Open
      /\ b \in (x + 2)..(y - 2) => byte = Fill
  BY ScriptBytesAre
<1> HIDE DEF x, y, byte
<1>3. b = y \/ b = y - 1 \/ b = x + 1 \/ b \in (x + 2)..(y - 2)
  BY <1>1
<1>4. y # y - 1 /\ y # x + 1 /\ y - 1 # x + 1 /\ y \notin (x + 2)..(y - 2)
      /\ y - 1 \notin (x + 2)..(y - 2) /\ x + 1 \notin (x + 2)..(y - 2)
  BY <1>1
<1>5. (byte = Newline <=> b = y) /\ (byte \in Kinds <=> b = y - 1) /\ (byte = Open <=> b = x + 1)
  BY <1>2, <1>3, <1>4, BytesDiffer
<1>6. QED BY <1>5 DEF x, y, byte

LEMMA LineOfByte ==
  ASSUME NEW script \in Seq(ScriptEvents), NEW b \in 1..EndOf(script, Len(script))
  PROVE  \E i \in 1..Len(script) : b \in (EndOf(script, i - 1) + 1)..EndOf(script, i)
<1> DEFINE N == Len(script)
           E(i) == EndOf(script, i)
<1>1. /\ N \in Nat /\ \A i \in 0..N : E(i) \in Nat
      /\ \A a \in 0..E(N) : \E k \in 0..N : E(k) <= a /\ (k < N => a < E(k + 1))
  BY EndsAre
<1> HIDE DEF N, E
<1>2. b \in 1..E(N) /\ E(N) \in Nat
  BY <1>1 DEF N, E
<1>3. b - 1 \in 0..E(N)
  BY <1>2
<1>4. PICK k \in 0..N : E(k) <= b - 1 /\ (k < N => b - 1 < E(k + 1))
  BY <1>1, <1>3
<1>5. k < N
  BY <1>1, <1>2, <1>4
<1>6. k + 1 \in 1..N /\ (k + 1) - 1 = k /\ E(k) \in Nat /\ k + 1 \in 0..N
  BY <1>1, <1>5
<1>7. E(k + 1) \in Nat
  BY <1>1, <1>6
<1>8. b \in (E((k + 1) - 1) + 1)..E(k + 1)
  BY <1>2, <1>4, <1>5, <1>6, <1>7
<1>9. QED BY <1>6, <1>8 DEF N, E

(* The output after s, up to a. *)
IsSlice(bytes, script, s, a) ==
  Len(bytes) = a - s /\ \A b \in 1..(a - s) : bytes[b] = ScriptBytes(script)[s + b]

(* s is in line k + 1, and a not before it, in line l + 1. *)
Between(script, k, s, l, a) ==
  /\ k \in 0..Len(script) /\ l \in 0..Len(script) /\ k <= l
  /\ s \in Nat /\ a \in Nat /\ s <= a /\ a <= EndOf(script, Len(script))
  /\ EndOf(script, k) <= s /\ (k < Len(script) => s < EndOf(script, k + 1))
  /\ EndOf(script, l) <= a /\ (l < Len(script) => a < EndOf(script, l + 1))

LEMMA SliceNewlines ==
  ASSUME NEW script \in Seq(ScriptEvents), NEW k, NEW s, NEW l, NEW a, Between(script, k, s, l, a),
         NEW bytes \in Seq(Bytes), IsSlice(bytes, script, s, a)
  PROVE  /\ \A i \in (k + 1)..l : /\ EndOf(script, i) - s \in 1..Len(bytes)
                                  /\ bytes[EndOf(script, i) - s] = Newline
         /\ \A b \in 1..Len(bytes) : bytes[b] = Newline =>
              \E i \in (k + 1)..l : b = EndOf(script, i) - s
<1> DEFINE N == Len(script)
           E(i) == EndOf(script, i)
           W == ScriptBytes(script)
<1>1. /\ N \in Nat /\ \A i \in 0..N : E(i) \in Nat
      /\ \A i, j \in 0..N : i < j => E(i) + 3 <= E(j)
  BY EndsAre
<1>2. /\ k \in 0..N /\ l \in 0..N /\ k <= l /\ s \in Nat /\ a \in Nat /\ s <= a /\ a <= E(N)
      /\ E(k) <= s /\ (k < N => s < E(k + 1)) /\ E(l) <= a /\ (l < N => a < E(l + 1))
  BY DEF Between
<1>3. Len(bytes) = a - s /\ \A b \in 1..(a - s) : bytes[b] = W[s + b]
  BY DEF IsSlice
<1>4. \A i \in 1..N : W[E(i)] = Newline
  BY ScriptBytesAre
<1>5. \A b \in 1..E(N) : \E i \in 1..N : b \in (E(i - 1) + 1)..E(i) /\ (W[b] = Newline => b = E(i))
  BY LineOfByte, ByteInLine
<1> HIDE DEF N, E, W
<1>6. ASSUME NEW i \in (k + 1)..l
      PROVE  E(i) - s \in 1..(a - s) /\ bytes[E(i) - s] = Newline
  <2>1. i \in 0..N /\ i \in 1..N /\ k + 1 \in 0..N /\ k < N
    BY <1>1, <1>2
  <2>2. E(i) \in Nat /\ E(k + 1) \in Nat /\ E(l) \in Nat
    BY <1>1, <1>2, <2>1
  <2>3. k + 1 <= i /\ i <= l
    BY <1>2
  <2>5. E(k + 1) <= E(i)
    BY <2>1, <2>3, EndsOrdered DEF E, N
  <2>4. l \in 0..N
    BY <1>2
  <2>6. E(i) <= E(l)
    BY <2>1, <2>3, <2>4, EndsOrdered DEF E, N
  <2>7. E(i) - s \in 1..(a - s) /\ s + (E(i) - s) = E(i)
    BY <1>2, <2>1, <2>2, <2>5, <2>6
  <2>8. QED BY <1>3, <1>4, <2>1, <2>7
<1>7. ASSUME NEW b \in 1..(a - s), bytes[b] = Newline
      PROVE  \E i \in (k + 1)..l : b = E(i) - s
  <2>1. s + b \in 1..E(N) /\ W[s + b] = Newline
    <3>1. E(N) \in Nat
      BY <1>1
    <3>2. QED BY <1>2, <1>3, <1>7, <3>1
  <2>2. PICK i \in 1..N : s + b = E(i)
    BY <1>5, <2>1
  <2>8. i \in 0..N /\ k \in 0..N /\ l \in 0..N
    BY <1>1, <1>2
  <2>3. i \in 0..N /\ E(i) \in Nat /\ E(k) \in Nat /\ E(l) \in Nat
    BY <1>1, <2>8
  <2>4. k < i
    <3>1. i = k \/ k < i \/ i < k
      BY <1>2, <2>3
    <3>2. i < k => E(i) + 3 <= E(k)
      BY <1>1, <1>2, <2>3
    <3>3. E(i) > s
      BY <1>2, <2>2, <2>3
    <3>4. QED BY <1>2, <2>3, <3>1, <3>2, <3>3
  <2>5. i <= l
    <3>1. SUFFICES ASSUME l < i PROVE FALSE
      BY <1>2, <2>3
    <3>2. l + 1 \in 0..N /\ l < N
      <4>1. N \in Nat
        BY <1>1
      <4>2. QED BY <2>8, <3>1, <4>1
    <3>3. l + 1 = i \/ l + 1 < i
      BY <1>2, <2>3, <3>1
    <3>4. E(l + 1) <= E(i) /\ E(l + 1) \in Nat
      BY <1>1, <2>3, <3>2, <3>3
    <3>5. E(i) <= a
      BY <1>2, <2>2, <2>3
    <3>6. QED BY <1>2, <2>3, <3>2, <3>4, <3>5
  <2>6. i \in (k + 1)..l /\ b = E(i) - s
    BY <1>2, <2>2, <2>3, <2>4, <2>5
  <2>7. QED BY <2>6
<1>8. QED BY <1>3, <1>6, <1>7 DEF E

(* A complete line is an event, unless its beginning is not in the slice. *)
LEMMA SliceLine ==
  ASSUME NEW script \in Seq(ScriptEvents), NEW k, NEW s, NEW l, NEW a, Between(script, k, s, l, a),
         NEW bytes \in Seq(Bytes), IsSlice(bytes, script, s, a), NEW i \in (k + 1)..l
  PROVE  LET e == EndOf(script, i) - s IN
         /\ IsEvent(LineBefore(bytes, e)) <=> i > k + 1 \/ s = EndOf(script, k)
         /\ IsEvent(LineBefore(bytes, e)) => bytes[e - 1] = script[i].kind
<1> DEFINE N == Len(script)
           E(j) == EndOf(script, j)
           W == ScriptBytes(script)
           e == E(i) - s
           p == IF i > k + 1 THEN E(i - 1) - s + 1 ELSE 1
           line == LineBefore(bytes, e)
<1>1. /\ N \in Nat /\ \A j \in 0..N : E(j) \in Nat
      /\ \A j, m \in 0..N : j < m => E(j) + 3 <= E(m)
  BY EndsAre
<1>2. /\ k \in 0..N /\ l \in 0..N /\ k <= l /\ s \in Nat /\ a \in Nat /\ s <= a /\ a <= E(N)
      /\ E(k) <= s /\ (k < N => s < E(k + 1))
  BY DEF Between
<1>3. Len(bytes) = a - s /\ \A b \in 1..(a - s) : bytes[b] = W[s + b]
  BY DEF IsSlice
<1>4. /\ \A j \in (k + 1)..l : E(j) - s \in 1..(a - s) /\ bytes[E(j) - s] = Newline
      /\ \A b \in 1..(a - s) : bytes[b] = Newline => \E j \in (k + 1)..l : b = E(j) - s
  <2>1. /\ \A j \in (k + 1)..l : E(j) - s \in 1..Len(bytes) /\ bytes[E(j) - s] = Newline
        /\ \A b \in 1..Len(bytes) : bytes[b] = Newline => \E j \in (k + 1)..l : b = E(j) - s
    BY SliceNewlines
  <2> HIDE DEF E
  <2>2. QED BY <1>3, <2>1
<1>5. /\ i \in 1..N /\ i \in 0..N /\ i - 1 \in 0..N /\ k + 1 \in 0..N /\ k + 1 \in (k + 1)..l
      /\ (i = k + 1 => i - 1 = k) /\ (i > k + 1 => i - 1 \in (k + 1)..l)
  BY <1>1, <1>2
<1>6. /\ script[i].kind \in Kinds /\ W[E(i) - 1] = script[i].kind
      /\ W[E(i - 1) + 1] = Open
      /\ \A b \in (E(i - 1) + 2)..(E(i) - 2) : W[b] = Fill
  BY <1>5, ScriptBytesAre DEF N
<1>7. \A b \in (E(i - 1) + 1)..E(i) : W[b] = Open => b = E(i - 1) + 1
  BY <1>5, ByteInLine DEF N
<1> HIDE DEF N, E, W
<1> DEFINE X == E(i - 1)
           Y == E(i)
<1>8. X \in Nat /\ Y \in Nat /\ X + 3 <= Y /\ e = Y - s /\ e \in Nat /\ 1 <= e /\ e <= a - s
      /\ s \in Nat /\ a \in Nat
  <2>1. e \in 1..(a - s)
    BY <1>4
  <2>2. i - 1 < i
    BY <1>5
  <2>3. X \in Nat /\ Y \in Nat /\ X + 3 <= Y
    BY <1>1, <1>5, <2>2
  <2> HIDE DEF e
  <2>4. QED BY <1>2, <2>1, <2>3 DEF e
<1>9. /\ p \in Nat /\ 1 <= p /\ p <= e /\ (p = 1 \/ bytes[p - 1] = Newline)
      /\ i > k + 1 => p = X - s + 1
      /\ ~(i > k + 1) => p = 1
  <2>1. CASE i > k + 1
    <3>1. X - s \in 1..(a - s) /\ bytes[X - s] = Newline
      BY <1>4, <1>5, <2>1
    <3>2. p = X - s + 1
      BY <2>1
    <3> HIDE DEF X, p, e
    <3>3. p - 1 = X - s /\ p \in Nat /\ 1 <= p /\ p <= e
      BY <1>8, <3>1, <3>2
    <3>4. QED BY <2>1, <3>1, <3>2, <3>3
  <2>2. CASE ~(i > k + 1)
    BY <1>8, <2>2
  <2>3. QED BY <2>1, <2>2
<1> HIDE DEF X, Y, e, p
<1>10. ASSUME NEW b \in p..(e - 1), bytes[b] = Newline
       PROVE  FALSE
  <2>1. b \in 1..(a - s) /\ b \in Nat /\ b < e /\ p <= b
    BY <1>8, <1>9
  <2>2. PICK j \in (k + 1)..l : b = E(j) - s
    BY <1>4, <1>10, <2>1
  <2>10. j \in 0..N /\ j \in Nat
    BY <1>1, <1>2
  <2>3. j \in 0..N /\ E(j) \in Nat /\ j \in Nat
    BY <1>1, <2>10
  <2>4. j < i
    <3>1. i = j \/ i < j \/ j < i
      BY <1>5, <2>3
    <3>2. (i < j => Y + 3 <= E(j)) /\ (i = j => Y = E(j))
      BY <1>1, <1>5, <2>3 DEF Y
    <3>3. E(j) < Y
      BY <1>8, <2>1, <2>2, <2>3
    <3>6. Y \in Nat /\ E(j) \in Nat
      BY <1>8, <2>3
    <3>4. ~(i < j) /\ i # j
      BY <3>2, <3>3, <3>6
    <3>5. QED BY <3>1, <3>4
  <2>5. i > k + 1
    BY <1>2, <2>2, <2>4
  <2>6. j = i - 1 \/ j < i - 1
    BY <1>5, <2>3, <2>4
  <2>7. E(j) <= X
    <3>1. j < i - 1 => E(j) + 3 <= X
      BY <1>1, <1>5, <2>3 DEF X
    <3>2. j = i - 1 => E(j) = X
      BY DEF X
    <3>3. QED BY <1>8, <2>3, <2>6, <3>1, <3>2
  <2>8. p = X - s + 1
    BY <1>9, <2>5
  <2>9. QED BY <1>8, <2>1, <2>2, <2>3, <2>7, <2>8
<1>11. Len(line) = e - p /\ \A x \in 1..(e - p) : line[x] = bytes[p + x - 1]
  <2>1. StartsLine(bytes, p, e)
    BY <1>9, <1>10 DEF StartsLine
  <2>2. e \in 1..Len(bytes) /\ p \in 1..e
    BY <1>3, <1>8, <1>9
  <2>3. QED BY <2>1, <2>2, LineBeforeIs
<1>12. ASSUME NEW x \in 1..(e - p)
       PROVE  line[x] = W[s + p + x - 1]
  <2>1. p + x - 1 \in 1..(a - s) /\ s + (p + x - 1) = s + p + x - 1
    BY <1>8, <1>9
  <2>2. QED BY <1>3, <1>11, <1>12, <2>1
<1>13. /\ W[Y - 1] = script[i].kind /\ W[X + 1] = Open
       /\ \A b \in (X + 2)..(Y - 2) : W[b] = Fill
       /\ \A b \in (X + 1)..Y : W[b] = Open => b = X + 1
  BY <1>6, <1>7 DEF X, Y
<1>14. CASE i > k + 1 \/ s = E(k)
  <2>1. s + p = X + 1
    <3>1. CASE i > k + 1
      BY <1>8, <1>9, <3>1
    <3>2. CASE ~(i > k + 1)
      <4>1. i = k + 1
        BY <1>2, <3>2
      <4>2. X = s
        BY <1>5, <1>14, <3>2, <4>1 DEF X
      <4>3. QED BY <1>8, <1>9, <3>2, <4>2
    <3>3. QED BY <3>1, <3>2
  <2> DEFINE n == e - p
  <2>2. n = Y - X - 1 /\ n \in Nat /\ n >= 2
    BY <1>8, <1>9, <2>1
  <2> HIDE DEF line, n
  <2>3. \A x \in 1..n : s + p + x - 1 = X + x
    BY <1>8, <1>9, <2>1, <2>2
  <2>4. Len(line) = n /\ \A x \in 1..n : line[x] = W[X + x]
    BY <1>11, <1>12, <2>3 DEF n
  <2>5. 1 \in 1..n /\ n \in 1..n /\ X + n = Y - 1
    BY <1>8, <2>2
  <2>6. line[1] = Open /\ line[n] = script[i].kind
    BY <1>13, <2>4, <2>5
  <2>7. ASSUME NEW x \in 2..(n - 1)
        PROVE  line[x] = Fill
    <3>1. x \in 1..n /\ X + x \in (X + 2)..(Y - 2)
      BY <1>8, <2>2
    <3>2. QED BY <1>13, <2>4, <3>1
  <2>8. IsEvent(line)
    BY <1>6, <2>2, <2>4, <2>6, <2>7 DEF IsEvent
  <2>9. bytes[e - 1] = script[i].kind
    <3>1. p + n - 1 = e - 1
      BY <1>8, <1>9, <2>2 DEF n
    <3>2. n \in 1..(e - p)
      BY <2>5 DEF n
    <3>3. line[n] = bytes[p + n - 1]
      BY <1>11, <3>2
    <3>4. QED BY <2>6, <3>1, <3>3
  <2>10. QED BY <1>14, <2>8, <2>9 DEF line, e, E
<1>15. CASE ~(i > k + 1 \/ s = E(k))
  <2>1. s > X /\ p = 1
    <3>1. i = k + 1
      BY <1>2, <1>15
    <3>2. E(k) = X
      BY <1>5, <3>1 DEF X
    <3>3. QED BY <1>2, <1>8, <1>9, <1>15, <3>2
  <2>2. ASSUME IsEvent(line)
        PROVE  FALSE
    <3>1. Len(line) >= 2 /\ line[1] = Open
      BY <2>2 DEF IsEvent
    <3> HIDE DEF line
    <3>2. 1 \in 1..(e - p) /\ e >= 2 + p
      BY <1>8, <1>9, <1>11, <3>1
    <3>3. W[s + p + 1 - 1] = Open /\ s + p + 1 - 1 = s + 1
      BY <1>8, <1>12, <2>1, <3>1, <3>2
    <3>4. s + 1 \in (X + 1)..Y
      BY <1>8, <2>1, <3>2
    <3>5. s + 1 = X + 1
      BY <1>13, <3>3, <3>4
    <3>6. QED BY <1>8, <2>1, <3>5
  <2>3. QED BY <1>15, <2>2 DEF line, e, E
<1>16. QED BY <1>14, <1>15

(* Events that are some of the lines k + 1 to l, with all that are not spared. *)
Drawn(g, events, script, k, l, Spared) ==
  /\ g \in [1..Len(events) -> (k + 1)..l] /\ Increasing(g)
  /\ \A m \in 1..Len(events) : events[m] = script[g[m]].kind
  /\ \A i \in (k + 1)..l : i \notin Spared => \E m \in 1..Len(events) : g[m] = i

LEMMA SliceEvents ==
  ASSUME NEW script \in Seq(ScriptEvents), NEW k, NEW s, NEW l, NEW a, Between(script, k, s, l, a),
         NEW bytes \in Seq(Bytes), IsSlice(bytes, script, s, a)
  PROVE  \E g : Drawn(g, Events(bytes), script, k, l, {i \in {k + 1} : s # EndOf(script, k)})
<1> DEFINE N == Len(script)
           E(i) == EndOf(script, i)
           events == Events(bytes)
           M == 1..Len(events)
           L == (k + 1)..l
           Is(i) == IsEvent(LineBefore(bytes, E(i) - s))
<1>1. /\ N \in Nat /\ \A i \in 0..N : E(i) \in Nat
      /\ \A i, j \in 0..N : i < j => E(i) + 3 <= E(j)
  BY EndsAre
<1>2. k \in 0..N /\ l \in 0..N /\ s \in Nat
  BY DEF Between
<1>3. PICK h \in [1..Len(events) -> 1..Len(bytes)] :
        /\ Increasing(h)
        /\ \A m \in DOMAIN h : /\ bytes[h[m]] = Newline /\ IsEvent(LineBefore(bytes, h[m]))
                               /\ events[m] = bytes[h[m] - 1]
        /\ \A i \in 1..Len(bytes) : bytes[i] = Newline /\ IsEvent(LineBefore(bytes, i)) =>
                                      \E m \in DOMAIN h : h[m] = i
  BY EventsAre
<1>4. DOMAIN h = M
  OBVIOUS
<1>5. /\ \A i \in L : E(i) - s \in 1..Len(bytes) /\ bytes[E(i) - s] = Newline
      /\ \A b \in 1..Len(bytes) : bytes[b] = Newline => \E i \in L : b = E(i) - s
  BY SliceNewlines
<1>6. \A i \in L : /\ Is(i) <=> i > k + 1 \/ s = E(k)
                   /\ Is(i) => bytes[E(i) - s - 1] = script[i].kind
  BY SliceLine
<1> HIDE DEF N, E, events, M
<1> DEFINE g == [m \in M |-> CHOOSE i \in L : h[m] = E(i) - s]
<1>7. ASSUME NEW m \in M
      PROVE  g[m] \in L /\ h[m] = E(g[m]) - s
  <2>1. h[m] \in 1..Len(bytes) /\ bytes[h[m]] = Newline
    BY <1>3, <1>4 DEF M
  <2>2. \E i \in L : h[m] = E(i) - s
    BY <1>5, <2>1
  <2> HIDE DEF L
  <2>3. QED BY <2>2
<1>8. g \in [M -> L]
  <2>1. DOMAIN g = M /\ g = [m \in M |-> g[m]]
    OBVIOUS
  <2> HIDE DEF g, L
  <2>2. QED BY <1>7, <2>1
<1> HIDE DEF g
<1>9. \A i \in L : i \in 0..N /\ E(i) \in Nat /\ i \in Nat
  BY <1>1, <1>2
<1> HIDE DEF L
<1>10. Increasing(g)
  <2>1. SUFFICES ASSUME NEW m \in M, NEW n \in M, m < n PROVE g[m] < g[n]
    BY <1>8 DEF Increasing
  <2>2. h[m] < h[n]
    BY <1>3, <1>4, <2>1 DEF Increasing
  <2>3. g[m] \in 0..N /\ g[n] \in 0..N /\ E(g[m]) \in Nat /\ E(g[n]) \in Nat
        /\ g[m] \in Nat /\ g[n] \in Nat
    BY <1>7, <1>9
  <2>4. E(g[m]) < E(g[n])
    <3>1. h[m] = E(g[m]) - s /\ h[n] = E(g[n]) - s
      BY <1>7
    <3>2. QED BY <1>2, <2>2, <2>3, <3>1
  <2>5. g[n] < g[m] => E(g[n]) + 3 <= E(g[m])
    BY <1>1, <2>3
  <2>6. ~(g[n] < g[m]) /\ g[m] # g[n]
    BY <2>3, <2>4, <2>5
  <2>7. QED BY <2>3, <2>6
<1>11. ASSUME NEW m \in M
       PROVE  events[m] = script[g[m]].kind
  <2>1. events[m] = bytes[h[m] - 1] /\ IsEvent(LineBefore(bytes, h[m]))
    BY <1>3, <1>4
  <2>2. h[m] = E(g[m]) - s /\ g[m] \in L
    BY <1>7
  <2>3. Is(g[m])
    BY <2>1, <2>2
  <2>4. bytes[E(g[m]) - s - 1] = script[g[m]].kind
    <3> HIDE DEF Is
    <3>1. QED BY <1>6, <2>2, <2>3
  <2>5. QED BY <2>1, <2>2, <2>4
<1>12. ASSUME NEW i \in L, ~(i = k + 1 /\ s # E(k))
       PROVE  \E m \in M : g[m] = i
  <2>1. i > k + 1 \/ s = E(k)
    BY <1>2, <1>12 DEF L
  <2>2. Is(i)
    <3> HIDE DEF Is
    <3>1. QED BY <1>6, <2>1
  <2>3. E(i) - s \in 1..Len(bytes) /\ bytes[E(i) - s] = Newline
    BY <1>5
  <2>4. PICK m \in M : h[m] = E(i) - s
    BY <1>3, <1>4, <2>2, <2>3
  <2>5. g[m] = i
    <3>1. E(g[m]) = E(i)
      <4>1. h[m] = E(g[m]) - s /\ E(g[m]) \in Nat /\ E(i) \in Nat
        BY <1>7, <1>9
      <4>2. QED BY <1>2, <2>4, <4>1
    <3>2. g[m] \in 0..N /\ i \in 0..N /\ g[m] \in Nat /\ i \in Nat /\ E(i) \in Nat
      BY <1>7, <1>9
    <3>3. (i < g[m] => E(i) + 3 <= E(g[m])) /\ (g[m] < i => E(g[m]) + 3 <= E(i))
      BY <1>1, <3>2
    <3>4. QED BY <3>1, <3>2, <3>3
  <2>6. QED BY <2>5
<1>13. Drawn(g, events, script, k, l, {i \in {k + 1} : s # E(k)})
  BY <1>8, <1>10, <1>11, <1>12 DEF Drawn, M, L
<1>14. QED BY <1>13 DEF events, E

LEMMA SliceRemainder ==
  ASSUME NEW script \in Seq(ScriptEvents), NEW k, NEW s, NEW l, NEW a, Between(script, k, s, l, a),
         NEW bytes \in Seq(Bytes), IsSlice(bytes, script, s, a)
  PROVE  LET t == IF l > k THEN EndOf(script, l) ELSE s
         IN t \in Nat /\ s <= t /\ t <= a /\ IsSlice(Remainder(bytes), script, t, a)
<1> DEFINE N == Len(script)
           E(i) == EndOf(script, i)
           W == ScriptBytes(script)
           t == IF l > k THEN E(l) ELSE s
           after == Remainder(bytes)
<1>1. /\ N \in Nat /\ \A i \in 0..N : E(i) \in Nat
      /\ \A i, j \in 0..N : i < j => E(i) + 3 <= E(j)
  BY EndsAre
<1>2. /\ k \in 0..N /\ l \in 0..N /\ k <= l /\ s \in Nat /\ a \in Nat /\ s <= a /\ E(l) <= a
  BY DEF Between
<1>3. Len(bytes) = a - s /\ \A b \in 1..(a - s) : bytes[b] = W[s + b]
  BY DEF IsSlice
<1>4. /\ \A i \in (k + 1)..l : E(i) - s \in 1..Len(bytes) /\ bytes[E(i) - s] = Newline
      /\ \A b \in 1..Len(bytes) : bytes[b] = Newline => \E i \in (k + 1)..l : b = E(i) - s
  BY SliceNewlines
<1>5. PICK e \in 0..Len(bytes) :
        /\ e = 0 \/ bytes[e] = Newline
        /\ \A i \in (e + 1)..Len(bytes) : bytes[i] # Newline
        /\ after \in Seq(Bytes) /\ Len(after) = Len(bytes) - e
        /\ \A i \in 1..(Len(bytes) - e) : after[i] = bytes[e + i]
  BY RemainderIs
<1> HIDE DEF N, E, W, after
<1>6. e = t - s /\ t \in Nat
  <2>1. CASE l > k
    <3>1. l \in (k + 1)..l /\ E(l) \in Nat
      BY <1>1, <1>2, <2>1
    <3>2. E(l) - s \in 1..(a - s) /\ bytes[E(l) - s] = Newline
      BY <1>3, <1>4, <3>1
    <3>3. E(l) - s <= e
      <4>1. E(l) - s \notin (e + 1)..(a - s)
        BY <1>3, <1>5, <3>2
      <4>2. e \in Nat
        BY <1>3, <1>5
      <4>3. QED BY <1>2, <3>1, <3>2, <4>1, <4>2
    <3>4. e \in 1..Len(bytes) /\ bytes[e] = Newline
      BY <1>2, <1>3, <1>5, <3>1, <3>2, <3>3
    <3>5. PICK i \in (k + 1)..l : e = E(i) - s
      BY <1>4, <3>4
    <3>6. i \in 0..N /\ E(i) \in Nat /\ (i = l \/ i < l)
      <4>1. N \in Nat /\ k \in 0..N /\ l \in 0..N
        BY <1>1, <1>2
      <4>2. i \in 0..N /\ (i = l \/ i < l)
        BY <4>1
      <4>3. QED BY <1>1, <4>2
    <3>7. E(i) <= E(l)
      <4>1. i < l => E(i) + 3 <= E(l)
        BY <1>1, <1>2, <3>6
      <4>2. QED BY <3>1, <3>6, <4>1
    <3>8. QED BY <1>2, <2>1, <3>1, <3>3, <3>5, <3>6, <3>7
  <2>2. CASE ~(l > k)
    <3>1. (k + 1)..l = {}
      BY <1>2, <2>2
    <3>2. e = 0
      <4>1. e # 0 => e \in 1..Len(bytes) /\ bytes[e] = Newline
        BY <1>2, <1>3, <1>5
      <4>2. QED BY <1>4, <3>1, <4>1
    <3>3. QED BY <1>2, <2>2, <3>2
  <2>3. QED BY <2>1, <2>2
<1> HIDE DEF t
<1>7. e \in Nat /\ e <= a - s /\ s <= t /\ t <= a /\ Len(after) = a - t
  BY <1>2, <1>3, <1>5, <1>6
<1>8. ASSUME NEW b \in 1..(a - t)
      PROVE  after[b] = W[t + b]
  <2>1. b \in 1..(Len(bytes) - e) /\ e + b \in 1..(a - s) /\ s + (e + b) = t + b
    BY <1>2, <1>3, <1>6, <1>7
  <2>2. after[b] = bytes[e + b]
    BY <1>5, <2>1
  <2>3. QED BY <1>3, <2>1, <2>2
<1>9. QED BY <1>6, <1>7, <1>8 DEF IsSlice, t, W, after, E

LEMMA DrawnMore ==
  ASSUME NEW script \in Seq(ScriptEvents), NEW k \in Nat, NEW l \in Nat, k <= l,
         NEW old \in Seq(Kinds), NEW new \in Seq(Kinds), NEW Large, NEW Spared, Spared \subseteq Large,
         NEW f, Drawn(f, old, script, 0, k, Large), NEW g, Drawn(g, new, script, k, l, Spared)
  PROVE  \E h : Drawn(h, old \o new, script, 0, l, Large)
<1> DEFINE p == Len(old)
           q == Len(new)
           all == old \o new
           h == [m \in 1..(p + q) |-> IF m <= p THEN f[m] ELSE g[m - p]]
<1>1. /\ p \in Nat /\ q \in Nat /\ Len(all) = p + q
      /\ \A m \in 1..p : all[m] = old[m]
      /\ \A m \in 1..q : all[p + m] = new[m]
  OBVIOUS
<1>2. /\ f \in [1..p -> 1..k] /\ Increasing(f)
      /\ \A m \in 1..p : old[m] = script[f[m]].kind
      /\ \A i \in 1..k : i \notin Large => \E m \in 1..p : f[m] = i
  BY DEF Drawn
<1>3. /\ g \in [1..q -> (k + 1)..l] /\ Increasing(g)
      /\ \A m \in 1..q : new[m] = script[g[m]].kind
      /\ \A i \in (k + 1)..l : i \notin Spared => \E m \in 1..q : g[m] = i
  BY DEF Drawn
<1> HIDE DEF all, p, q
<1>4. \A m \in 1..(p + q) : IF m <= p THEN m \in 1..p ELSE m - p \in 1..q /\ m = p + (m - p)
  BY <1>1
<1>5. \A m \in 1..(p + q) : h[m] = IF m <= p THEN f[m] ELSE g[m - p]
  OBVIOUS
<1>6. h \in [1..(p + q) -> 1..l]
  <2>1. ASSUME NEW m \in 1..(p + q)
        PROVE  (IF m <= p THEN f[m] ELSE g[m - p]) \in 1..l
    <3>1. CASE m <= p
      <4>1. f[m] \in 1..k
        BY <1>2, <1>4, <3>1
      <4>2. QED BY <3>1, <4>1
    <3>2. CASE ~(m <= p)
      <4>1. g[m - p] \in (k + 1)..l
        BY <1>3, <1>4, <3>2
      <4>2. QED BY <3>2, <4>1
    <3>3. QED BY <3>1, <3>2
  <2>2. QED BY <2>1
<1> HIDE DEF h
<1>7. Increasing(h)
  <2>1. SUFFICES ASSUME NEW m \in 1..(p + q), NEW n \in 1..(p + q), m < n PROVE h[m] < h[n]
    BY <1>6 DEF Increasing
  <2>2. CASE n <= p
    <3>1. m <= p /\ m \in 1..p /\ n \in 1..p
      BY <1>1, <1>4, <2>1, <2>2
    <3>2. f[m] < f[n]
      BY <1>2, <2>1, <3>1 DEF Increasing
    <3>3. QED BY <1>5, <2>2, <3>1, <3>2
  <2>3. CASE m <= p /\ ~(n <= p)
    <3>1. f[m] \in 1..k /\ g[n - p] \in (k + 1)..l
      BY <1>2, <1>3, <1>4, <2>3
    <3>2. f[m] < g[n - p]
      BY <3>1
    <3>3. QED BY <1>5, <2>3, <3>2
  <2>4. CASE ~(m <= p)
    <3>1. ~(n <= p) /\ m - p \in 1..q /\ n - p \in 1..q /\ m - p < n - p
      BY <1>1, <1>4, <2>1, <2>4
    <3>2. g[m - p] < g[n - p]
      BY <1>3, <3>1 DEF Increasing
    <3>3. QED BY <1>5, <2>4, <3>1, <3>2
  <2>5. QED BY <2>2, <2>3, <2>4
<1>8. \A m \in 1..(p + q) : all[m] = script[h[m]].kind
  <2>1. SUFFICES ASSUME NEW m \in 1..(p + q) PROVE all[m] = script[h[m]].kind
    OBVIOUS
  <2>2. CASE m <= p
    BY <1>1, <1>2, <1>4, <1>5, <2>2
  <2>3. CASE ~(m <= p)
    <3>1. m - p \in 1..q /\ m = p + (m - p)
      BY <1>4, <2>3
    <3>2. all[m] = new[m - p] /\ h[m] = g[m - p]
      BY <1>1, <1>5, <2>3, <3>1
    <3>3. QED BY <1>3, <3>1, <3>2
  <2>4. QED BY <2>2, <2>3
<1>9. \A i \in 1..l : i \notin Large => \E m \in 1..(p + q) : h[m] = i
  <2>1. SUFFICES ASSUME NEW i \in 1..l, i \notin Large PROVE \E m \in 1..(p + q) : h[m] = i
    OBVIOUS
  <2>2. CASE i <= k
    <3>1. PICK m \in 1..p : f[m] = i
      BY <1>2, <2>1, <2>2
    <3>2. m \in 1..(p + q) /\ m <= p
      BY <1>1
    <3>3. QED BY <1>5, <3>1, <3>2
  <2>3. CASE ~(i <= k)
    <3>1. PICK m \in 1..q : g[m] = i
      BY <1>3, <2>1, <2>3
    <3>2. p + m \in 1..(p + q) /\ ~(p + m <= p) /\ (p + m) - p = m
      BY <1>1
    <3>3. QED BY <1>5, <3>1, <3>2
  <2>4. QED BY <2>2, <2>3
<1>10. Drawn(h, all, script, 0, l, Large)
  BY <1>1, <1>6, <1>7, <1>8, <1>9 DEF Drawn
<1>11. QED BY <1>10 DEF all

(* The lines that the buffer cannot hold. *)
TooLong(script) == {i \in 1..Len(script) : script[i].size > MaxBufferSize}

(* The first k lines were read, and of the next one what is up to arrived;   *)
(* the buffer holds what follows s, and what precedes it was thrown away.    *)
Reading(k, s) ==
  /\ Between(written, k, s, k, arrived)
  /\ s # EndOf(written, k) => k + 1 \in TooLong(written)
  /\ IsSlice(buffer, written, s, arrived)
  /\ \E f \in [1..Len(parsed) -> 1..k] : Drawn(f, parsed, written, 0, k, TooLong(written))

LEMMA ReadSlice ==
  ASSUME NEW script \in Seq(ScriptEvents), NEW k, NEW s, NEW l, NEW a, Between(script, k, s, l, a),
         s # EndOf(script, k) => k + 1 \in TooLong(script),
         NEW bytes \in Seq(Bytes), IsSlice(bytes, script, s, a),
         NEW kept, kept = ProcessJsonlBuffer(bytes, MaxBufferSize).rest
  PROVE  \E t \in 0..a : /\ Between(script, l, t, l, a)
                         /\ t # EndOf(script, l) => l + 1 \in TooLong(script)
                         /\ IsSlice(kept, script, t, a)
<1> DEFINE N == Len(script)
           E(i) == EndOf(script, i)
           after == Remainder(bytes)
           x == IF l > k THEN E(l) ELSE s
           cap == MaxBufferSize > 0 /\ Len(after) > MaxBufferSize
           t == IF cap THEN a ELSE x
<1>1. /\ N \in Nat /\ \A i \in 0..N : E(i) \in Nat
      /\ \A i \in 1..N : E(i) = E(i - 1) + script[i].size + 1
  BY EndOfIs
<1>2. /\ k \in 0..N /\ l \in 0..N /\ k <= l /\ s \in Nat /\ a \in Nat /\ s <= a /\ a <= E(N)
      /\ E(k) <= s /\ (k < N => s < E(k + 1)) /\ E(l) <= a /\ (l < N => a < E(l + 1))
  BY DEF Between
<1>3. x \in Nat /\ s <= x /\ x <= a /\ IsSlice(after, script, x, a)
  BY SliceRemainder
<1>4. kept = IF cap THEN <<>> ELSE after
  BY ProcessedIs
<1>5. MaxBufferSize \in Nat
  BY LineBufferAssumption
<1>6. \A i \in 1..N : script[i].size \in Nat
  <2>1. \A i \in 1..N : script[i] \in ScriptEvents
    OBVIOUS
  <2> HIDE DEF N
  <2>2. QED BY <2>1 DEF ScriptEvents
<1>7. Len(after) = a - x
  BY <1>3 DEF IsSlice
<1>8. IsSlice(kept, script, t, a)
  <2>1. CASE cap
    <3>1. t = a /\ kept = <<>>
      BY <1>4, <2>1
    <3>2. a - a = 0
      BY <1>2
    <3>3. QED BY <3>1, <3>2 DEF IsSlice
  <2>2. CASE ~cap
    BY <1>3, <1>4, <2>2
  <2>3. QED BY <2>1, <2>2
<1> HIDE DEF after
<1>9. E(l) \in Nat /\ E(k) \in Nat
  BY <1>1, <1>2
<1>10. x = E(l) \/ (l = k /\ x = s)
  BY <1>2
<1> HIDE DEF x, N, E
<1>11. E(l) <= x
  BY <1>2, <1>9, <1>10
<1>12. t \in 0..a /\ E(l) <= t
  BY <1>2, <1>3, <1>9, <1>11
<1>13. Between(script, l, t, l, a)
  <2>1. l < N => t < E(l + 1)
    <3>1. l < N => E(l + 1) \in Nat
      BY <1>1, <1>2
    <3>2. QED BY <1>2, <1>12, <3>1
  <2> HIDE DEF t
  <2>2. t \in Nat /\ t <= a /\ l <= l
    BY <1>2, <1>12
  <2>3. QED BY <1>2, <1>12, <2>1, <2>2 DEF Between, N, E
<1>14. t # E(l) => l + 1 \in TooLong(script)
  <2>1. SUFFICES ASSUME t # E(l) PROVE l + 1 \in TooLong(script)
    OBVIOUS
  <2>2. CASE x # E(l)
    BY <1>10, <2>2 DEF E
  <2>3. CASE x = E(l)
    <3>1. cap /\ t = a
      BY <2>1, <2>3
    <3>2. l < N
      <4>1. a # E(l)
        BY <2>1, <3>1
      <4>2. l # N
        BY <1>2, <1>9, <4>1
      <4>3. N \in Nat
        BY <1>1
      <4>4. QED BY <1>2, <4>2, <4>3
    <3>3. l + 1 \in 1..N /\ (l + 1) - 1 = l /\ l + 1 \in 0..N
      BY <1>1, <1>2, <3>2
    <3>4. E(l + 1) = E(l) + script[l + 1].size + 1 /\ script[l + 1].size \in Nat /\ E(l + 1) \in Nat
      BY <1>1, <1>6, <3>3
    <3>5. a - E(l) > MaxBufferSize /\ a < E(l + 1)
      BY <1>2, <1>7, <2>3, <3>1, <3>2
    <3>6. script[l + 1].size > MaxBufferSize
      <4> DEFINE size == script[l + 1].size
                 y == E(l + 1)
                 z == E(l)
      <4>1. a \in Nat
        BY <1>2
      <4>2. y = z + size + 1 /\ size \in Nat /\ a - z > MaxBufferSize /\ a < y /\ z \in Nat /\ y \in Nat
        BY <1>9, <3>4, <3>5
      <4> HIDE DEF size, y, z
      <4>3. size > MaxBufferSize
        BY <1>5, <4>1, <4>2
      <4>4. QED BY <4>3 DEF size
    <3>7. QED BY <3>3, <3>6 DEF TooLong, N
  <2>4. QED BY <2>2, <2>3
<1>15. QED BY <1>8, <1>12, <1>13, <1>14 DEF E

(* A line that is complete but for its newline is flushed as an event if it  *)
(* is there from its beginning; what is left of any other line is not one.   *)
LEMMA FlushEvents ==
  ASSUME NEW script \in Seq(ScriptEvents), NEW k, NEW s, NEW a, Between(script, k, s, k, a),
         s # EndOf(script, k) => k + 1 \in TooLong(script),
         NEW left \in Seq(Bytes), IsSlice(left, script, s, a)
  PROVE  \E l \in k..Len(script) :
           /\ \A i \in 1..Len(script) : EndOf(script, i) - 1 <= a <=> i <= l
           /\ \E g : Drawn(g, Events(Append(left, Newline)), script, k, l, TooLong(script))
<1> DEFINE N == Len(script)
           E(i) == EndOf(script, i)
           W == ScriptBytes(script)
           bytes == Append(left, Newline)
           Whole == k < N /\ a = E(k + 1) - 1
<1>1. /\ N \in Nat /\ \A i \in 0..N : E(i) \in Nat
      /\ \A i, j \in 0..N : i < j => E(i) + 3 <= E(j)
  BY EndsAre
<1>2. /\ k \in 0..N /\ s \in Nat /\ a \in Nat /\ s <= a /\ a <= E(N)
      /\ E(k) <= s /\ E(k) <= a /\ (k < N => s < E(k + 1)) /\ (k < N => a < E(k + 1))
  BY DEF Between
<1>3. Len(left) = a - s /\ \A b \in 1..(a - s) : left[b] = W[s + b]
  BY DEF IsSlice
<1>4. /\ bytes \in Seq(Bytes) /\ Len(bytes) = a - s + 1 /\ bytes[a - s + 1] = Newline
      /\ \A b \in 1..(a - s) : bytes[b] = left[b]
  BY <1>3 DEF Bytes
<1>5. E(k) \in Nat /\ k \in Nat /\ (k < N => k + 1 \in 0..N /\ E(k + 1) \in Nat)
  BY <1>1, <1>2
<1> HIDE DEF N, E, W, bytes
<1>6. ASSUME NEW i \in 1..N, i <= k
      PROVE  E(i) - 1 <= a
  <2>1. i \in 0..N /\ E(i) \in Nat /\ (i = k \/ i < k)
    BY <1>1, <1>2, <1>6
  <2>2. i < k => E(i) + 3 <= E(k)
    BY <1>1, <1>2, <2>1
  <2>3. QED BY <1>2, <1>5, <2>1, <2>2
<1>7. ASSUME NEW i \in 1..N, i > k + 1
      PROVE  ~(E(i) - 1 <= a)
  <2>1. i \in 0..N /\ E(i) \in Nat /\ k < N /\ k + 1 \in 0..N
    BY <1>1, <1>2, <1>7
  <2>2. E(k + 1) + 3 <= E(i) /\ E(k + 1) \in Nat
    BY <1>1, <1>7, <2>1
  <2>3. QED BY <1>2, <2>1, <2>2
<1>8. CASE Whole
  <2>1. k < N /\ a + 1 = E(k + 1) /\ a + 1 \in Nat /\ k + 1 \in k..N /\ k + 1 \in 1..N
    <3>1. N \in Nat /\ k \in 0..N /\ a \in Nat
      BY <1>1, <1>2
    <3>2. k < N /\ a = E(k + 1) - 1
      BY <1>8
    <3>3. k + 1 \in k..N /\ k + 1 \in 1..N
      BY <3>1, <3>2
    <3>4. a + 1 = E(k + 1)
      BY <1>5, <3>1, <3>2
    <3>5. QED BY <3>1, <3>2, <3>3, <3>4
  <2>2. Between(script, k, s, k + 1, a + 1)
    <3>1. a + 1 <= E(N)
      <4>1. k + 1 = N \/ k + 1 < N
        BY <1>1, <2>1
      <4>2. k + 1 < N => E(k + 1) + 3 <= E(N)
        BY <1>1, <1>5, <2>1
      <4>3. N \in 0..N /\ E(N) \in Nat
        BY <1>1
      <4>4. QED BY <2>1, <4>1, <4>2, <4>3
    <3>2. k + 1 < N => a + 1 < E((k + 1) + 1)
      <4>1. SUFFICES ASSUME k + 1 < N PROVE a + 1 < E((k + 1) + 1)
        OBVIOUS
      <4>2. (k + 1) + 1 \in 0..N /\ k + 1 < (k + 1) + 1 /\ E((k + 1) + 1) \in Nat
        BY <1>1, <1>5, <4>1
      <4>3. E(k + 1) + 3 <= E((k + 1) + 1)
        BY <1>1, <1>5, <2>1, <4>2
      <4>4. QED BY <2>1, <4>2, <4>3
    <3>3. k <= k + 1 /\ s <= a + 1 /\ E(k + 1) <= a + 1 /\ k + 1 \in 0..N
      BY <1>2, <1>5, <2>1
    <3>4. QED BY <1>2, <2>1, <3>1, <3>2, <3>3 DEF Between, N, E
  <2>3. IsSlice(bytes, script, s, a + 1)
    <3>1. Len(bytes) = (a + 1) - s
      BY <1>2, <1>4
    <3>2. ASSUME NEW b \in 1..((a + 1) - s)
          PROVE  bytes[b] = W[s + b]
      <4>1. CASE b = a - s + 1
        <5>1. s + b = E(k + 1)
          BY <1>2, <2>1, <4>1
        <5>2. W[E(k + 1)] = Newline
          BY <2>1, ScriptBytesAre DEF W, E, N
        <5>3. QED BY <1>4, <4>1, <5>1, <5>2
      <4>2. CASE b # a - s + 1
        <5>1. b \in 1..(a - s)
          BY <1>2, <4>2
        <5>2. QED BY <1>3, <1>4, <5>1
      <4>3. QED BY <4>1, <4>2
    <3>3. QED BY <3>1, <3>2 DEF IsSlice, W
  <2>4. PICK g : Drawn(g, Events(bytes), script, k, k + 1, {i \in {k + 1} : s # EndOf(script, k)})
    BY <1>4, <2>2, <2>3, SliceEvents
  <2>5. Drawn(g, Events(bytes), script, k, k + 1, TooLong(script))
    BY <2>4 DEF Drawn
  <2>6. \A i \in 1..N : E(i) - 1 <= a <=> i <= k + 1
    <3>1. SUFFICES ASSUME NEW i \in 1..N PROVE E(i) - 1 <= a <=> i <= k + 1
      OBVIOUS
    <3>2. i <= k \/ i = k + 1 \/ i > k + 1
      BY <1>5
    <3>3. CASE i <= k
      BY <1>5, <1>6, <3>3
    <3>4. CASE i = k + 1
      BY <1>2, <1>5, <2>1, <3>4
    <3>5. CASE i > k + 1
      BY <1>5, <1>7, <3>5
    <3>6. QED BY <3>2, <3>3, <3>4, <3>5
  <2>7. QED BY <2>1, <2>5, <2>6 DEF bytes, N, E
<1>9. CASE ~Whole
  <2> DEFINE e == a - s + 1
  <2>1. e \in 1..Len(bytes) /\ e \in Nat /\ Len(bytes) = e
    BY <1>2, <1>4
  <2>2. \A b \in 1..(a - s) : left[b] # Newline
    <3>1. \A b \in 1..Len(left) : left[b] = Newline => \E i \in (k + 1)..k : b = EndOf(script, i) - s
      BY SliceNewlines
    <3>2. (k + 1)..k = {}
      BY <1>5
    <3>3. QED BY <1>3, <3>1, <3>2
  <2>3. \A b \in 1..Len(bytes) : bytes[b] = Newline => b = e
    <3>1. \A b \in 1..Len(bytes) : b = e \/ b \in 1..(a - s)
      BY <1>2, <1>4
    <3>2. QED BY <1>4, <2>2, <3>1
  <2> DEFINE line == LineBefore(bytes, e)
  <2>4. Len(line) = a - s /\ \A x \in 1..(a - s) : line[x] = W[s + x]
    <3>1. StartsLine(bytes, 1, e)
      <4>1. \A b \in 1..(e - 1) : b \in 1..(a - s)
        BY <1>2
      <4>2. \A b \in 1..(e - 1) : bytes[b] # Newline
        BY <1>4, <2>2, <4>1
      <4>3. QED BY <4>2 DEF StartsLine
    <3>2. 1 \in 1..e /\ e - 1 = a - s
      BY <1>2
    <3>3. /\ Len(line) = e - 1
          /\ \A x \in 1..(e - 1) : line[x] = bytes[1 + x - 1]
      <4> HIDE DEF e
      <4>1. QED BY <1>4, <2>1, <3>1, <3>2, LineBeforeIs
    <3>4. ASSUME NEW x \in 1..(a - s)
          PROVE  line[x] = W[s + x]
      <4>1. 1 + x - 1 = x
        OBVIOUS
      <4> HIDE DEF line, e
      <4>2. line[x] = bytes[x]
        BY <3>2, <3>3, <4>1
      <4>3. QED BY <1>3, <1>4, <4>2
    <3> HIDE DEF line, e
    <3>5. QED BY <3>2, <3>3, <3>4
  <2>5. ~IsEvent(line)
    <3>1. SUFFICES ASSUME IsEvent(line) PROVE FALSE
      OBVIOUS
    <3>2. a - s >= 2 /\ line[a - s] \in Kinds
      BY <2>4, <3>1 DEF IsEvent
    <3> HIDE DEF line, e
    <3>3. a - s \in 1..(a - s) /\ s + (a - s) = a
      BY <1>2, <3>2
    <3>4. W[a] \in Kinds
      BY <2>4, <3>2, <3>3
    <3>5. k < N
      <4>1. k = N => a = E(k) /\ s = a
        BY <1>2, <1>5
      <4>2. k # N
        BY <1>2, <3>2, <4>1
      <4>3. QED BY <1>1, <1>2, <4>2
    <3>6. k + 1 \in 1..N /\ (k + 1) - 1 = k
      BY <1>1, <1>2, <3>5
    <3>7. a \in (E((k + 1) - 1) + 1)..E(k + 1)
      BY <1>2, <1>5, <3>2, <3>5, <3>6
    <3>8. a = E(k + 1) - 1
      BY <3>4, <3>6, <3>7, ByteInLine DEF N, E, W
    <3>9. QED BY <1>9, <3>5, <3>8
  <2> HIDE DEF line
  <2>6. Len(Events(bytes)) = 0
    <3>1. PICK h \in [1..Len(Events(bytes)) -> 1..Len(bytes)] :
            \A m \in DOMAIN h : bytes[h[m]] = Newline /\ IsEvent(LineBefore(bytes, h[m]))
      BY <1>4, EventsAre
    <3>2. Events(bytes) \in Seq(Kinds)
      BY <1>4, EventsAre
    <3>3. ASSUME NEW m \in 1..Len(Events(bytes))
          PROVE  FALSE
      <4>1. h[m] = e /\ IsEvent(LineBefore(bytes, h[m]))
        <5> HIDE DEF e
        <5>1. QED BY <2>3, <3>1
      <4>2. QED BY <2>5, <4>1 DEF line
    <3>4. QED BY <3>2, <3>3
  <2>7. \E g : Drawn(g, Events(bytes), script, k, k, TooLong(script))
    <3> DEFINE none == [m \in 1..0 |-> m]
    <3>1. (k + 1)..k = {} /\ 1..0 = {} /\ none \in [1..0 -> (k + 1)..k] /\ Increasing(none)
      BY <1>5 DEF Increasing
    <3> HIDE DEF none
    <3>2. Drawn(none, Events(bytes), script, k, k, TooLong(script))
      BY <2>6, <3>1 DEF Drawn
    <3>3. QED BY <3>2
  <2>8. \A i \in 1..N : E(i) - 1 <= a <=> i <= k
    <3>1. SUFFICES ASSUME NEW i \in 1..N PROVE E(i) - 1 <= a <=> i <= k
      OBVIOUS
    <3>2. i <= k \/ i = k + 1 \/ i > k + 1
      BY <1>5
    <3>3. CASE i <= k
      BY <1>6, <3>3
    <3>4. CASE i = k + 1
      <4>1. k < N /\ a < E(k + 1) /\ a # E(k + 1) - 1
        BY <1>1, <1>2, <1>5, <1>9, <3>4
      <4>2. QED BY <1>2, <1>5, <3>4, <4>1
    <3>5. CASE i > k + 1
      BY <1>5, <1>7, <3>5
    <3>6. QED BY <3>2, <3>3, <3>4, <3>5
  <2>9. k \in k..N
    BY <1>1, <1>2
  <2>10. QED BY <2>7, <2>8, <2>9 DEF bytes, N, E
<1>10. QED BY <1>8, <1>9

-----------------------------------------------------------------------------
(* The stream *)

(* The invariant of an attempt. *)
StreamInv ==
  /\ pc = "stream" =>
       /\ \E k \in 0..Len(written), s \in 0..arrived : Reading(k, s)
       /\ pipe = <<>> \/ IsSlice(pipe, written, arrived, EndOf(written, Len(written)))
  /\ EventsSurviveChunks
  /\ pc \in {"stream", "judge"} => Observes(observer, parsed)

LEMMA SpawnStreams ==
  ASSUME StreamTypes, Spawn
  PROVE  StreamInv'
<1>1. PICK script \in Scripts : written' = script /\ pipe' = ScriptBytes(script)
  BY DEF Spawn
<1>2. script \in Seq(ScriptEvents)
  BY ScriptsAre
<1> DEFINE N == Len(script)
           total == EndOf(script, N)
<1>3. pc' = "stream" /\ buffer' = <<>> /\ observer' = NoValue /\ arrived' = 0 /\ parsed' = <<>>
  BY DEF Spawn
<1>4. /\ N \in Nat /\ EndOf(script, 0) = 0
      /\ \A i \in 0..N : EndOf(script, i) \in Nat
      /\ \A i, j \in 0..N : i < j => EndOf(script, i) + 3 <= EndOf(script, j)
  BY <1>2, EndsAre
<1>5. total \in Nat /\ 0 \in 0..N /\ 0 \in 0..0
  BY <1>4
<1>6. Between(script, 0, 0, 0, 0)
  <2>1. 0 < N => 0 + 1 \in 0..N /\ 0 < 0 + 1
    BY <1>4
  <2>2. 0 < N => 0 < EndOf(script, 0 + 1)
    BY <1>4, <1>5, <2>1
  <2> HIDE DEF total
  <2>3. 0 <= total /\ EndOf(script, 0) <= 0 /\ 0 \in Nat /\ 0 <= 0
    BY <1>4, <1>5
  <2>4. QED BY <1>5, <2>2, <2>3 DEF Between, total
<1>7. IsSlice(<<>>, script, 0, 0)
  BY DEF IsSlice
<1>8. \E f \in [1..Len(<<>>) -> 1..0] : Drawn(f, <<>>, script, 0, 0, TooLong(script))
  <2> DEFINE none == [m \in 1..0 |-> m]
  <2>1. Len(<<>>) = 0 /\ 1..0 = {} /\ (0 + 1)..0 = {} /\ none \in [1..0 -> 1..0]
        /\ none \in [1..0 -> (0 + 1)..0] /\ Increasing(none)
    BY DEF Increasing
  <2> HIDE DEF none
  <2>2. Drawn(none, <<>>, script, 0, 0, TooLong(script))
    BY <2>1 DEF Drawn
  <2>3. QED BY <2>1, <2>2
<1>9. Reading(0, 0)'
  BY <1>1, <1>3, <1>4, <1>6, <1>7, <1>8 DEF Reading
<1>10. IsSlice(ScriptBytes(script), script, 0, total)
  <2> DEFINE W == ScriptBytes(script)
  <2>1. Len(W) = total
    BY <1>2, ScriptBytesAre
  <2> HIDE DEF W, total
  <2>2. total - 0 = total /\ \A b \in 1..total : 0 + b = b
    BY <1>5
  <2>3. QED BY <2>1, <2>2 DEF IsSlice, W
<1>11. Observes(NoValue, <<>>)
  BY DEF Observes
<1>12. EventsSurviveChunks'
  BY <1>3 DEF EventsSurviveChunks
<1>13. (\E k \in 0..Len(written), s \in 0..arrived : Reading(k, s))'
  BY <1>1, <1>3, <1>5, <1>9
<1>14. (pipe = <<>> \/ IsSlice(pipe, written, arrived, EndOf(written, Len(written))))'
  BY <1>1, <1>3, <1>10
<1>15. Observes(observer, parsed)'
  BY <1>3, <1>11
<1>16. QED BY <1>12, <1>13, <1>14, <1>15 DEF StreamInv

LEMMA ReadStreams ==
  ASSUME StreamTypes, StreamInv, ReadChunk
  PROVE  StreamInv'
<1>1. PICK n \in 1..ReadChunkSize :
        /\ n <= Len(pipe)
        /\ Process(buffer \o SubSeq(pipe, 1, n), MaxBufferSize)
        /\ pipe' = SubSeq(pipe, n + 1, Len(pipe))
        /\ arrived' = arrived + n
  BY DEF ReadChunk
<1>2. pc = "stream" /\ pc' = "stream" /\ pipe # <<>> /\ written' = written
  BY DEF ReadChunk
<1>3. n \in Nat /\ n >= 1
  BY ClaudeCallAssumption
<1>4. /\ pipe \in Seq(Bytes) /\ buffer \in Seq(Bytes) /\ arrived \in Nat /\ parsed \in Seq(Kinds)
      /\ written \in Seq(ScriptEvents)
  BY ScriptsAre DEF StreamTypes
<1>5. PICK k \in 0..Len(written), s \in 0..arrived : Reading(k, s)
  BY <1>2 DEF StreamInv
<1> DEFINE N == Len(written)
           E(i) == EndOf(written, i)
           W == ScriptBytes(written)
           a == arrived
           more == SubSeq(pipe, 1, n)
           bytes == buffer \o more
<1>6. /\ N \in Nat /\ \A i \in 0..N : E(i) \in Nat
      /\ \A i, j \in 0..N : i < j => E(i) + 3 <= E(j)
      /\ \A x \in 0..E(N) : \E l \in 0..N : E(l) <= x /\ (l < N => x < E(l + 1))
  BY <1>4, EndsAre
<1>7. /\ k \in 0..N /\ s \in Nat /\ a \in Nat /\ s <= a /\ a <= E(N)
      /\ E(k) <= s /\ (k < N => s < E(k + 1)) /\ E(k) <= a
  BY <1>5 DEF Reading, Between
<1>8. Len(buffer) = a - s /\ \A b \in 1..(a - s) : buffer[b] = W[s + b]
  BY <1>5 DEF Reading, IsSlice
<1>9. Len(pipe) = E(N) - a /\ \A b \in 1..(E(N) - a) : pipe[b] = W[a + b]
  BY <1>2 DEF StreamInv, IsSlice
<1> HIDE DEF W
<1>10. E(N) \in Nat /\ a + n <= E(N) /\ a + n \in Nat /\ a + n \in 0..E(N)
  <2>1. E(N) \in Nat
    BY <1>6
  <2> HIDE DEF E, N
  <2>2. QED BY <1>1, <1>3, <1>7, <1>9, <2>1
<1>11. PICK l \in 0..N : E(l) <= a + n /\ (l < N => a + n < E(l + 1))
  BY <1>6, <1>10
<1>12. k <= l
  <2>1. SUFFICES ASSUME l < k PROVE FALSE
    BY <1>7
  <2>8. N \in Nat /\ k \in 0..N /\ l \in 0..N
    BY <1>6, <1>7
  <2> HIDE DEF N
  <2>2. l < N /\ l + 1 \in 0..N /\ l + 1 <= k
    BY <2>1, <2>8
  <2> HIDE DEF E
  <2>4. E(l + 1) <= E(k) /\ E(l + 1) \in Nat /\ E(k) \in Nat
    BY <1>4, <2>2, <2>8, EndsOrdered DEF E, N
  <2>5. a + n < E(l + 1)
    BY <1>11, <2>2
  <2>6. E(k) <= s /\ s <= a /\ s \in Nat /\ a \in Nat
    BY <1>7
  <2> HIDE DEF a
  <2>7. QED BY <1>3, <2>4, <2>5, <2>6
<1>13. Between(written, k, s, l, a + n)
  <2> HIDE DEF E, N
  <2>1. s <= a + n
    BY <1>3, <1>7
  <2>2. QED BY <1>7, <1>10, <1>11, <1>12, <2>1 DEF Between, E, N
<1>14. /\ more \in Seq(Bytes) /\ Len(more) = n /\ \A b \in 1..n : more[b] = pipe[b]
       /\ pipe' = SubSeq(pipe, n + 1, Len(pipe)) /\ Len(pipe') = Len(pipe) - n
       /\ \A b \in 1..(Len(pipe) - n) : pipe'[b] = pipe[n + b]
  <2> DEFINE L == Len(pipe)
             left == SubSeq(pipe, n + 1, L)
  <2>1. L \in Nat /\ n \in 1..L /\ pipe \in Seq(Bytes)
    BY <1>1, <1>3, <1>4
  <2>2. more \in Seq(Bytes) /\ Len(more) = n /\ \A b \in 1..n : more[b] = pipe[b]
    BY <2>1
  <2>6. left = [b \in 1..(L - n) |-> pipe[n + b]]
    BY <2>1, SuffixIs
  <2>3. Len(left) = L - n /\ \A b \in 1..(L - n) : left[b] = pipe[n + b]
    BY <2>1, <2>6
  <2>4. pipe' = left
    BY <1>1
  <2> HIDE DEF left
  <2>5. QED BY <2>2, <2>3, <2>4 DEF left
<1> HIDE DEF more
<1>15. /\ bytes \in Seq(Bytes) /\ Len(bytes) = Len(buffer) + n
       /\ \A b \in 1..Len(buffer) : bytes[b] = buffer[b]
       /\ \A b \in 1..n : bytes[Len(buffer) + b] = more[b]
  <2>1. more \in Seq(Bytes) /\ buffer \in Seq(Bytes) /\ Len(more) = n
    BY <1>4, <1>14
  <2>2. /\ buffer \o more \in Seq(Bytes) /\ Len(buffer \o more) = Len(buffer) + n
        /\ \A b \in 1..Len(buffer) : (buffer \o more)[b] = buffer[b]
        /\ \A b \in 1..n : (buffer \o more)[Len(buffer) + b] = more[b]
    <3>1. /\ buffer \o more \in Seq(Bytes) /\ Len(buffer \o more) = Len(buffer) + Len(more)
          /\ \A b \in 1..Len(buffer) : (buffer \o more)[b] = buffer[b]
          /\ \A b \in 1..Len(more) : (buffer \o more)[Len(buffer) + b] = more[b]
      <4>1. more \in Seq(Bytes) /\ buffer \in Seq(Bytes)
        BY <2>1
      <4>2. QED BY ONLY <4>1, ConcatIs
    <3> DEFINE size == Len(more)
    <3>2. size = n
      BY <2>1
    <3>3. /\ buffer \o more \in Seq(Bytes) /\ Len(buffer \o more) = Len(buffer) + size
          /\ \A b \in 1..Len(buffer) : (buffer \o more)[b] = buffer[b]
          /\ \A b \in 1..size : (buffer \o more)[Len(buffer) + b] = more[b]
      BY <3>1
    <3> HIDE DEF size
    <3>4. QED BY <3>2, <3>3, Zenon
  <2>3. QED BY <2>2, Zenon
<1>16. Process(bytes, MaxBufferSize)
  BY <1>1 DEF more
<1> HIDE DEF bytes, E, N
<1>17. IsSlice(bytes, written, s, a + n)
  <2>1. Len(bytes) = (a + n) - s
    BY <1>3, <1>7, <1>8, <1>15
  <2>2. ASSUME NEW b \in 1..((a + n) - s)
        PROVE  bytes[b] = W[s + b]
    <3>1. CASE b <= a - s
      <4>1. b \in 1..(a - s)
        BY <1>7, <3>1
      <4>2. QED BY <1>8, <1>15, <4>1
    <3>2. CASE ~(b <= a - s)
      <4> DEFINE c == b - (a - s)
      <4>1. c \in 1..n /\ b = (a - s) + c /\ s + b = a + c /\ c \in 1..(E(N) - a)
        <5>1. s \in Nat /\ a \in Nat /\ s <= a /\ E(N) \in Nat /\ a + n <= E(N) /\ n \in Nat
          BY <1>3, <1>7, <1>10
        <5> HIDE DEF a
        <5>2. QED BY <2>2, <3>2, <5>1
      <4> HIDE DEF c
      <4>2. bytes[b] = more[c] /\ more[c] = pipe[c] /\ pipe[c] = W[a + c]
        BY <1>8, <1>9, <1>14, <1>15, <4>1
      <4>3. QED BY <4>1, <4>2
    <3>3. QED BY <3>1, <3>2
  <2>3. QED BY <2>1, <2>2 DEF IsSlice, W
<1>18. IsSlice(pipe', written, a + n, E(N))
  <2>1. Len(pipe') = E(N) - (a + n)
    BY <1>3, <1>7, <1>9, <1>10, <1>14
  <2>2. ASSUME NEW b \in 1..(E(N) - (a + n))
        PROVE  pipe'[b] = W[(a + n) + b]
    <3>1. b \in 1..(Len(pipe) - n) /\ n + b \in 1..(E(N) - a) /\ a + (n + b) = (a + n) + b
      BY <1>3, <1>7, <1>9, <1>10
    <3>2. QED BY <1>9, <1>14, <3>1
  <2>3. QED BY <2>1, <2>2 DEF IsSlice, W
<1> DEFINE events == Events(bytes)
           kept == ProcessJsonlBuffer(bytes, MaxBufferSize).rest
<1>19. buffer' = kept /\ parsed' = parsed \o events /\ UpdateObserver(events)
       /\ events \in Seq(Kinds)
  BY <1>15, <1>16, ProcessedIs DEF Process
<1>20. PICK t \in 0..(a + n) : /\ Between(written, l, t, l, a + n)
                               /\ t # EndOf(written, l) => l + 1 \in TooLong(written)
                               /\ IsSlice(kept, written, t, a + n)
  <2>1. s # EndOf(written, k) => k + 1 \in TooLong(written)
    BY <1>5 DEF Reading
  <2> HIDE DEF a, kept
  <2>2. kept = ProcessJsonlBuffer(bytes, MaxBufferSize).rest
    BY DEF kept
  <2>3. QED BY <1>4, <1>13, <1>15, <1>17, <2>1, <2>2, ReadSlice
<1>21. \E f \in [1..Len(parsed') -> 1..l] : Drawn(f, parsed', written, 0, l, TooLong(written))
  <2>1. PICK f \in [1..Len(parsed) -> 1..k] : Drawn(f, parsed, written, 0, k, TooLong(written))
    BY <1>5 DEF Reading
  <2> DEFINE Spared == {i \in {k + 1} : s # EndOf(written, k)}
  <2>2. Spared \subseteq TooLong(written)
    BY <1>5 DEF Reading
  <2>3. PICK g : Drawn(g, events, written, k, l, Spared)
    BY <1>4, <1>13, <1>15, <1>17, SliceEvents
  <2> HIDE DEF Spared, events
  <2>4. k \in Nat /\ l \in Nat
    BY <1>6, <1>7
  <2>5. PICK h : Drawn(h, parsed', written, 0, l, TooLong(written))
    BY <1>4, <1>12, <1>19, <2>1, <2>2, <2>3, <2>4, DrawnMore
  <2>6. h \in [1..Len(parsed') -> 1..l]
    BY <2>5 DEF Drawn
  <2>7. QED BY <2>5, <2>6
<1> HIDE DEF events, kept
<1>22. Reading(l, t)'
  BY <1>1, <1>2, <1>19, <1>20, <1>21 DEF Reading
<1>23. Observes(observer, parsed)'
  <2>1. Observes(observer, parsed)
    BY <1>2 DEF StreamInv
  <2>2. QED BY <1>4, <1>19, <2>1, ObserverUpdated
<1>24. (\E k_1 \in 0..Len(written), s_1 \in 0..arrived : Reading(k_1, s_1))'
  BY <1>1, <1>2, <1>22 DEF N
<1>25. IsSlice(pipe, written, arrived, EndOf(written, Len(written)))'
  BY <1>1, <1>2, <1>18 DEF E, N
<1>26. EventsSurviveChunks'
  BY <1>2 DEF EventsSurviveChunks
<1>27. QED BY <1>23, <1>24, <1>25, <1>26 DEF StreamInv

(* What EventsSurviveChunks says of the events of a script. *)
Survive(events, script, a) ==
  LET arr == {i \in DOMAIN script : EndOf(script, i) - 1 <= a} IN
  \E from \in [DOMAIN events -> arr] :
    /\ \A j, k \in DOMAIN events : j < k => from[j] < from[k]
    /\ \A j \in DOMAIN events : events[j] = script[from[j]].kind
    /\ \A i \in {i \in arr : script[i].size <= MaxBufferSize} : \E j \in DOMAIN events : from[j] = i

LEMMA DrawnSurvive ==
  ASSUME NEW script \in Seq(ScriptEvents), NEW a, NEW l \in Nat, l <= Len(script),
         \A i \in 1..Len(script) : EndOf(script, i) - 1 <= a <=> i <= l,
         NEW events \in Seq(Kinds), NEW f, Drawn(f, events, script, 0, l, TooLong(script))
  PROVE  Survive(events, script, a)
<1> DEFINE arr == {i \in DOMAIN script : EndOf(script, i) - 1 <= a}
           N == Len(script)
<1>1. DOMAIN script = 1..N /\ N \in Nat /\ DOMAIN events = 1..Len(events)
  OBVIOUS
<1>2. arr = 1..l
  BY <1>1
<1> HIDE DEF arr
<1>3. /\ f \in [DOMAIN events -> arr]
      /\ \A j, k \in DOMAIN events : j < k => f[j] < f[k]
      /\ \A j \in DOMAIN events : events[j] = script[f[j]].kind
  BY <1>1, <1>2 DEF Drawn, Increasing
<1>4. ASSUME NEW i \in arr, script[i].size <= MaxBufferSize
      PROVE  \E j \in DOMAIN events : f[j] = i
  <2>1. i \in 1..N
    BY <1>1, <1>2
  <2>2. script[i].size \in Nat
    <3>1. script[i] \in ScriptEvents
      BY <2>1
    <3>2. QED BY <3>1 DEF ScriptEvents
  <2>3. MaxBufferSize \in Nat
    BY LineBufferAssumption
  <2>4. ~(script[i].size > MaxBufferSize)
    <3> DEFINE size == script[i].size
    <3>1. size \in Nat /\ size <= MaxBufferSize
      BY <1>4, <2>2
    <3> HIDE DEF size
    <3>2. ~(size > MaxBufferSize)
      BY <2>3, <3>1
    <3>3. QED BY <3>2 DEF size
  <2>5. i \notin TooLong(script)
    BY <2>4 DEF TooLong
  <2>6. QED BY <1>1, <1>2, <2>5 DEF Drawn
<1>5. QED BY <1>3, <1>4 DEF arr, Survive

LEMMA FlushStreams ==
  ASSUME StreamTypes, StreamInv, Eof \/ LimitStrikes
  PROVE  StreamInv'
<1> DEFINE bytes == Append(buffer, Newline)
           events == Events(bytes)
<1>1. Process(bytes, 0) /\ pc = "stream" /\ pc' = "judge" /\ UNCHANGED <<written, arrived>>
  BY DEF Eof, LimitStrikes, Flush
<1>2. buffer \in Seq(Bytes) /\ parsed \in Seq(Kinds) /\ written \in Seq(ScriptEvents)
      /\ bytes \in Seq(Bytes)
  BY ScriptsAre DEF StreamTypes, Bytes
<1>3. parsed' = parsed \o events /\ UpdateObserver(events) /\ events \in Seq(Kinds)
  <2> HIDE DEF bytes
  <2>1. QED BY <1>1, <1>2, ProcessedIs DEF Process
<1>4. PICK k \in 0..Len(written), s \in 0..arrived : Reading(k, s)
  BY <1>1 DEF StreamInv
<1>5. PICK f \in [1..Len(parsed) -> 1..k] : Drawn(f, parsed, written, 0, k, TooLong(written))
  BY <1>4 DEF Reading
<1>6. PICK l \in k..Len(written) :
        /\ \A i \in 1..Len(written) : EndOf(written, i) - 1 <= arrived <=> i <= l
        /\ \E g : Drawn(g, events, written, k, l, TooLong(written))
  <2>1. /\ Between(written, k, s, k, arrived) /\ IsSlice(buffer, written, s, arrived)
        /\ s # EndOf(written, k) => k + 1 \in TooLong(written)
    BY <1>4 DEF Reading
  <2>2. QED BY <1>2, <2>1, FlushEvents
<1>7. PICK g : Drawn(g, events, written, k, l, TooLong(written))
  BY <1>6
<1> HIDE DEF events, bytes
<1>8. k \in Nat /\ l \in Nat /\ k <= l /\ l <= Len(written)
  BY <1>2
<1>9. PICK h : Drawn(h, parsed', written, 0, l, TooLong(written))
  BY <1>2, <1>3, <1>5, <1>7, <1>8, DrawnMore
<1>10. parsed' \in Seq(Kinds)
  BY <1>2, <1>3
<1>11. EventsSurviveChunks'
  <2> DEFINE events2 == parsed'
  <2>1. events2 \in Seq(Kinds) /\ Drawn(h, events2, written, 0, l, TooLong(written))
    BY <1>9, <1>10
  <2> HIDE DEF events2
  <2>2. Survive(events2, written, arrived)
    BY <1>2, <1>6, <1>8, <2>1, DrawnSurvive
  <2>3. QED BY <1>1, <2>2 DEF EventsSurviveChunks, Arrived, Fitting, Survive, events2
<1>12. Observes(observer, parsed)'
  <2>1. Observes(observer, parsed)
    BY <1>1 DEF StreamInv
  <2>2. QED BY <1>2, <1>3, <2>1, ObserverUpdated
<1>13. QED BY <1>1, <1>11, <1>12 DEF StreamInv

LEMMA StreamInvSteps ==
  ASSUME CallInv, StreamInv, [Next]_vars
  PROVE  StreamInv'
<1>1. StreamTypes
  BY TypesSplit DEF CallInv
<1>2. CASE Spawn
  BY <1>1, <1>2, SpawnStreams
<1>3. CASE ReadChunk
  BY <1>1, <1>3, ReadStreams
<1>4. CASE Eof \/ LimitStrikes
  BY <1>1, <1>4, FlushStreams
<1>5. CASE Crash
  BY <1>5 DEF Crash, StreamInv, Reading, EventsSurviveChunks
<1>6. CASE \/ ResolveSelectedChecks \/ RunSingleCheck \/ SkipDangerous \/ EndOfChecks \/ SpawnFails
           \/ RaiseInCall \/ NextModel \/ Return
  <2>1. pc' \notin {"stream", "judge"}
    BY <1>6 DEF ResolveSelectedChecks, RunSingleCheck, SkipDangerous, EndOfChecks, SpawnFails,
                RaiseInCall, NextModel, Return
  <2>2. QED BY <2>1 DEF StreamInv, EventsSurviveChunks
<1>7. CASE Finished \/ UNCHANGED vars
  <2>1. UNCHANGED <<pc, pipe, buffer, observer, kill, written, arrived, parsed>>
    BY <1>7 DEF Finished, vars, streamVars
  <2>2. QED BY <2>1 DEF StreamInv, Reading, EventsSurviveChunks, Arrived, Fitting
<1>8. QED BY <1>2, <1>3, <1>4, <1>5, <1>6, <1>7 DEF Next

LEMMA StreamInvHolds == Spec => []StreamInv
<1>1. Init => StreamInv
  BY DEF Init, StreamInv, EventsSurviveChunks
<1>2. CallInv /\ StreamInv /\ [Next]_vars => StreamInv'
  BY StreamInvSteps
<1>3. QED BY <1>1, <1>2, CallInvHolds, PTL DEF Spec

(* However the output of a process is cut into chunks, and wherever it       *)
(* breaks off: the events that are taken from the buffer were written, in    *)
(* this order, each at most once, and only one that is longer than the       *)
(* buffer's cap can be missing (EventsSurviveChunks).                        *)
THEOREM NoEventIsLostBetweenChunks == Spec => []EventsSurviveChunks
<1>1. StreamInv => EventsSurviveChunks
  BY DEF StreamInv
<1>2. QED BY <1>1, StreamInvHolds, PTL

(* The last result that arrived is the last one observed. *)
LEMMA ObservedIsWritten ==
  ASSUME TypeOK, StreamInv, pc = "judge"
  PROVE  /\ SaysUnavailable => ModelUnavailable
         /\ ModelUnavailable => kill = NoValue /\ \E i \in Arrived : written[i].kind \in GatedKinds
<1>1. PICK from \in [DOMAIN parsed -> Arrived] :
        /\ \A j, k \in DOMAIN parsed : j < k => from[j] < from[k]
        /\ \A j \in DOMAIN parsed : parsed[j] = written[from[j]].kind
        /\ \A i \in Fitting : \E j \in DOMAIN parsed : from[j] = i
  BY DEF StreamInv, EventsSurviveChunks
<1>2. parsed \in Seq(Kinds) /\ DOMAIN parsed = 1..Len(parsed)
  BY DEF TypeOK
<1>3. GatedKinds \subseteq ResultKinds /\ ResultKinds \subseteq Kinds /\ NoValue \notin Kinds
  BY ClaudeCallAssumption
<1>4. \/ observer = NoValue /\ \A j \in DOMAIN parsed : parsed[j] \notin ResultKinds
      \/ \E j \in DOMAIN parsed :
           /\ observer = parsed[j] /\ observer \in ResultKinds
           /\ \A k \in DOMAIN parsed : k > j => parsed[k] \notin ResultKinds
  BY <1>2 DEF StreamInv, Observes
<1>5. Arrived \subseteq Nat
  <2>1. DOMAIN written \subseteq Nat
    <3>1. written \in Seq(ScriptEvents)
      BY ScriptsAre DEF TypeOK
    <3>2. QED BY <3>1
  <2>2. QED BY <2>1 DEF Arrived
<1>6. ASSUME ModelUnavailable
      PROVE  kill = NoValue /\ \E i \in Arrived : written[i].kind \in GatedKinds
  <2>1. kill = NoValue /\ observer \in GatedKinds
    BY <1>6 DEF ModelUnavailable
  <2>2. PICK j \in DOMAIN parsed : observer = parsed[j]
    BY <1>3, <1>4, <2>1
  <2>3. from[j] \in Arrived /\ written[from[j]].kind \in GatedKinds
    BY <1>1, <2>1, <2>2
  <2>4. QED BY <2>1, <2>3
<1>7. ASSUME SaysUnavailable
      PROVE  ModelUnavailable
  <2>1. kill = NoValue /\ Arrived = Fitting
    BY <1>7 DEF SaysUnavailable
  <2>2. PICK i \in Arrived : /\ written[i].kind \in GatedKinds
                             /\ \A m \in Arrived : m > i => written[m].kind \notin ResultKinds
    BY <1>7 DEF SaysUnavailable
  <2>3. PICK j \in DOMAIN parsed : from[j] = i
    BY <1>1, <2>1, <2>2
  <2>4. parsed[j] \in GatedKinds /\ parsed[j] \in ResultKinds
    BY <1>1, <1>3, <2>2, <2>3
  <2>5. PICK m \in DOMAIN parsed :
          /\ observer = parsed[m] /\ observer \in ResultKinds
          /\ \A k \in DOMAIN parsed : k > m => parsed[k] \notin ResultKinds
    BY <1>4, <2>4
  <2>6. ~(j > m)
    BY <2>4, <2>5
  <2>7. ~(m > j)
    <3>1. SUFFICES ASSUME m > j PROVE FALSE
      OBVIOUS
    <3>2. from[j] < from[m] /\ from[m] \in Arrived
      BY <1>1, <1>2, <3>1
    <3>3. from[m] > i
      BY <1>5, <2>3, <3>2
    <3>4. written[from[m]].kind \notin ResultKinds
      BY <2>2, <3>2, <3>3
    <3>5. QED BY <1>1, <2>5, <3>4
  <2>8. m = j
    BY <1>2, <2>6, <2>7
  <2>9. QED BY <2>1, <2>4, <2>5, <2>8 DEF ModelUnavailable
<1>8. QED BY <1>6, <1>7

(* A model is given up for the next one exactly when its own process said    *)
(* that it is not available; the models are those of the chain, each once,   *)
(* and a call ends as unavailable only when none is left                     *)
(* (FallbackFollowsUnavailability).                                          *)
THEOREM FallbackIsDeserved == Spec => []FallbackFollowsUnavailability
<1>1. ASSUME CallInv, StreamInv
      PROVE  FallbackFollowsUnavailability
  <2>1. pc = "judge" => /\ SaysUnavailable => ModelUnavailable
                        /\ ModelUnavailable =>
                             kill = NoValue /\ \E i \in Arrived : written[i].kind \in GatedKinds
    <3>1. TypeOK
      BY <1>1 DEF CallInv
    <3>2. QED BY <1>1, <3>1, ObservedIsWritten
  <2>2. \A n \in DOMAIN calls : FollowsChain(args, calls[n])
    BY <1>1 DEF CallInv, CallsOK
  <2> HIDE DEF SaysUnavailable, ModelUnavailable
  <2>3. QED BY <2>1, <2>2 DEF FallbackFollowsUnavailability, FollowsChain
<1>2. CallInv /\ StreamInv => FallbackFollowsUnavailability
  BY <1>1
<1>3. QED BY <1>2, CallInvHolds, StreamInvHolds, PTL

-----------------------------------------------------------------------------
(* The calls of a run *)

LEMMA AskedIsSelected ==
  ASSUME args \in CommandLines, NEW c
  PROVE  Asked(c) <=> c \in SelectedIds(args)
<1> DEFINE plan == ResolvePlanConfig(args)
<1>1. c \in SelectedIds(args) <=> c \in CheckIds(plan) \/ c \in args.checks
  <2>1. CheckIds(Plan(args)) = CheckIds(plan)
    BY ResolvedPlanIs, CheckIdsAre DEF Plan
  <2>2. QED BY <2>1 DEF SelectedIds
<1>2. "exhaustive" \in DOMAIN PLAN_CONFIGS /\ "basic" \in DOMAIN PLAN_CONFIGS
      /\ "exhaustive" # NoValue /\ "basic" # NoValue
  BY SelectionAssumption
<1>3. args.all_checks \in BOOLEAN
  BY CommandLineIs
<1>4. CASE args.all_checks
  <2>1. plan = PLAN_CONFIGS["exhaustive"]
    BY <1>2, <1>4 DEF ResolvePlanConfig
  <2>2. QED BY <1>1, <1>4, <2>1 DEF Asked
<1>5. CASE ~args.all_checks /\ args.plan # NoValue
  BY <1>1, <1>5 DEF Asked
<1>6. CASE ~args.all_checks /\ args.plan = NoValue /\ args.checks = {}
  <2>1. plan = PLAN_CONFIGS["basic"]
    BY <1>2, <1>6 DEF ResolvePlanConfig
  <2>2. QED BY <1>1, <1>6, <2>1 DEF Asked
<1>7. CASE ~args.all_checks /\ args.plan = NoValue /\ args.checks # {}
  <2>1. plan = <<>>
    BY <1>7 DEF ResolvePlanConfig, NoPlan
  <2>2. CheckIds(plan) = {}
    <3>1. DOMAIN plan = {}
      BY <2>1
    <3>2. QED BY <3>1 DEF CheckIds
  <2>3. QED BY <1>1, <1>7, <2>2 DEF Asked
<1>8. QED BY <1>4, <1>5, <1>6, <1>7

(* An entry that is the only one of its check gives it its settings. *)
Sole(plan, i, id) == plan[i].id = id /\ \A j \in DOMAIN plan : j # i => plan[j].id # id

LEMMA SoleGives ==
  ASSUME NEW plan \in Seq(Entries), NEW i \in DOMAIN plan, NEW id, Sole(plan, i, id),
         NEW setting, plan[i][setting] # NoValue
  PROVE  /\ id \in DOMAIN SettingMap(plan, setting)
         /\ SettingMap(plan, setting)[id] = plan[i][setting]
<1>1. i \in Giving(plan, setting, id) /\ \A j \in Giving(plan, setting, id) : j = i
  BY DEF Giving, Sole
<1>2. id \in DOMAIN SettingMap(plan, setting)
  BY <1>1, SettingMapIs
<1>3. PICK j \in Giving(plan, setting, id) : SettingMap(plan, setting)[id] = plan[j][setting]
  BY <1>2, SettingMapIs
<1>4. QED BY <1>1, <1>2, <1>3

LEMMA SoleParsed ==
  ASSUME NEW plan \in Seq(Entries), NEW i \in DOMAIN plan, NEW id, Sole(plan, i, id)
  PROVE  /\ Sole(ParsePlanToml(plan), i, id) /\ i \in DOMAIN ParsePlanToml(plan)
         /\ plan[i].model # NoValue => ParsePlanToml(plan)[i].model = plan[i].model
         /\ ParsePlanToml(plan)[i].effort = plan[i].effort
         /\ ParsePlanToml(plan)[i].idle_timeout = plan[i].idle_timeout
<1>1. /\ DOMAIN ParsePlanToml(plan) = DOMAIN plan
      /\ \A j \in DOMAIN plan : ParsePlanToml(plan)[j].id = plan[j].id
      /\ ParsePlanToml(plan)[i].effort = plan[i].effort
      /\ ParsePlanToml(plan)[i].idle_timeout = plan[i].idle_timeout
      /\ plan[i].model # NoValue => ParsePlanToml(plan)[i].model = plan[i].model
  BY ParsedPlanIs
<1>2. QED BY <1>1 DEF Sole

LEMMA WithDefaultsGive ==
  ASSUME NEW a, NEW setting, NEW id, NEW value
  PROVE  /\ id \in DOMAIN SettingMap(Plan(a), setting) /\ SettingMap(Plan(a), setting)[id] = value =>
              \A default : Get(WithDefaults(a, setting), id, default) = value
         /\ (/\ id \in SelectedIds(a) /\ id \notin DOMAIN SettingMap(Plan(a), setting)
             /\ id \in DOMAIN SettingMap(DefaultsPlan, setting)
             /\ SettingMap(DefaultsPlan, setting)[id] = value) =>
              \A default : Get(WithDefaults(a, setting), id, default) = value
<1> DEFINE map == SettingMap(Plan(a), setting)
           fallback == SettingMap(DefaultsPlan, setting)
           ids == DOMAIN map \union (SelectedIds(a) \intersect DOMAIN fallback)
<1>1. WithDefaults(a, setting) = [c \in ids |-> IF c \in DOMAIN map THEN map[c] ELSE fallback[c]]
  BY DEF WithDefaults
<1> HIDE DEF map, fallback
<1>2. id \in DOMAIN map /\ map[id] = value =>
        \A default : Get(WithDefaults(a, setting), id, default) = value
  BY <1>1 DEF Get
<1>3. (/\ id \in SelectedIds(a) /\ id \notin DOMAIN map
       /\ id \in DOMAIN fallback /\ fallback[id] = value) =>
        \A default : Get(WithDefaults(a, setting), id, default) = value
  BY <1>1 DEF Get
<1>4. QED BY <1>2, <1>3 DEF map, fallback

(* What a plan gives to a check that it lists once, under the command line a. *)
HasSettingsOf(a, made, plan) ==
  \A i \in DOMAIN plan :
    Sole(plan, i, made.check) =>
      /\ a.model = NoValue /\ plan[i].model # NoValue => made.model = plan[i].model
      /\ a.effort = NoValue /\ plan[i].effort # NoValue => made.effort = plan[i].effort
      /\ plan[i].idle_timeout # NoValue => made.idle_timeout = plan[i].idle_timeout

SettingsFollow(a, made) ==
  LET plan == ResolvePlanConfig(a) IN
  /\ a.model # NoValue => made.model = a.model
  /\ a.effort # NoValue => made.effort = a.effort
  /\ made.check # MemoryFix => HasSettingsOf(a, made, plan)
  /\ made.check # MemoryFix /\ made.check \notin CheckIds(plan) =>
       HasSettingsOf(a, made, PLAN_CONFIGS["super-exhaustive"])
  /\ made.check = MemoryFix =>
       /\ made.model = a.model /\ made.effort = a.effort /\ made.idle_timeout = a.idle_timeout

LEMMA CheckSettingsFollow ==
  ASSUME args \in CommandLines, NEW c \in Ids, c \in SelectedIds(args)
  PROVE  SettingsFollow(args, InvokeClaude(c, CheckModel(args, c), CheckEffort(args, c),
                                           CheckIdleTimeout(args, c)))
<1> DEFINE model == CheckModel(args, c)
           effort == CheckEffort(args, c)
           idle_timeout == CheckIdleTimeout(args, c)
           made == InvokeClaude(c, model, effort, idle_timeout)
           plan == ResolvePlanConfig(args)
           defaults == PLAN_CONFIGS["super-exhaustive"]
<1>1. /\ made.check = c /\ made.idle_timeout = idle_timeout
      /\ made.model = IF args.model # NoValue THEN args.model ELSE model
      /\ made.effort = IF args.effort # NoValue THEN args.effort ELSE effort
  BY DEF InvokeClaude
<1>2. c # MemoryFix
  BY ClaudeCallAssumption
<1>3. plan \in Seq(Entries) /\ Plan(args) = ParsePlanToml(plan) /\ Plan(args) \in Seq(Entries)
      /\ CheckIds(Plan(args)) = CheckIds(plan)
  BY ResolvedPlanIs, ParsedPlanIs, CheckIdsAre DEF Plan
<1>4. defaults \in Seq(Entries) /\ DefaultsPlan = ParsePlanToml(defaults) /\ DefaultsPlan \in Seq(Entries)
  BY SelectionAssumption, DefaultsPlanIs DEF DefaultsPlan
<1>5. /\ \A value : (\A default : Get(WithDefaults(args, "model"), c, default) = value) => model = value
      /\ \A value : (\A default : Get(WithDefaults(args, "effort"), c, default) = value) => effort = value
      /\ \A value : (\A default : Get(WithDefaults(args, "idle_timeout"), c, default) = value) =>
           idle_timeout = value
  BY DEF CheckModel, CheckEffort, CheckIdleTimeout
<1> HIDE DEF made, model, effort, idle_timeout, plan, defaults
<1>6. ASSUME NEW i \in DOMAIN plan, Sole(plan, i, c)
      PROVE  /\ plan[i].model # NoValue => model = plan[i].model
             /\ plan[i].effort # NoValue => effort = plan[i].effort
             /\ plan[i].idle_timeout # NoValue => idle_timeout = plan[i].idle_timeout
  <2>1. /\ Sole(Plan(args), i, c) /\ i \in DOMAIN Plan(args)
        /\ plan[i].model # NoValue => Plan(args)[i].model = plan[i].model
        /\ Plan(args)[i].effort = plan[i].effort /\ Plan(args)[i].idle_timeout = plan[i].idle_timeout
    BY <1>3, <1>6, SoleParsed
  <2>2. ASSUME NEW setting, Plan(args)[i][setting] # NoValue
        PROVE  \A default : Get(WithDefaults(args, setting), c, default) = Plan(args)[i][setting]
    BY <1>3, <2>1, <2>2, SoleGives, WithDefaultsGive
  <2>3. plan[i].model # NoValue => model = plan[i].model
    BY <1>5, <2>1, <2>2
  <2>4. plan[i].effort # NoValue => effort = plan[i].effort
    BY <1>5, <2>1, <2>2
  <2>5. plan[i].idle_timeout # NoValue => idle_timeout = plan[i].idle_timeout
    BY <1>5, <2>1, <2>2
  <2>6. QED BY <2>3, <2>4, <2>5
<1>7. ASSUME c \notin CheckIds(plan), NEW i \in DOMAIN defaults, Sole(defaults, i, c)
      PROVE  /\ defaults[i].model # NoValue => model = defaults[i].model
             /\ defaults[i].effort # NoValue => effort = defaults[i].effort
             /\ defaults[i].idle_timeout # NoValue => idle_timeout = defaults[i].idle_timeout
  <2>1. /\ Sole(DefaultsPlan, i, c) /\ i \in DOMAIN DefaultsPlan
        /\ defaults[i].model # NoValue => DefaultsPlan[i].model = defaults[i].model
        /\ DefaultsPlan[i].effort = defaults[i].effort
        /\ DefaultsPlan[i].idle_timeout = defaults[i].idle_timeout
    BY <1>4, <1>7, SoleParsed
  <2>2. \A setting : c \notin DOMAIN SettingMap(Plan(args), setting)
    <3>1. \A setting : Giving(Plan(args), setting, c) = {}
      BY <1>3, <1>7 DEF Giving, CheckIds
    <3>2. QED BY <1>3, <3>1, SettingMapIs
  <2>3. ASSUME NEW setting, DefaultsPlan[i][setting] # NoValue
        PROVE  \A default : Get(WithDefaults(args, setting), c, default) = DefaultsPlan[i][setting]
    <3> DEFINE value == DefaultsPlan[i][setting]
    <3>1. c \in DOMAIN SettingMap(DefaultsPlan, setting)
          /\ SettingMap(DefaultsPlan, setting)[c] = value
      BY <1>4, <2>1, <2>3, SoleGives
    <3>2. c \in SelectedIds(args) /\ c \notin DOMAIN SettingMap(Plan(args), setting)
      BY <2>2
    <3> HIDE DEF value
    <3>3. \A default : Get(WithDefaults(args, setting), c, default) = value
      BY <3>1, <3>2, WithDefaultsGive
    <3>4. QED BY <3>3 DEF value
  <2>4. defaults[i].model # NoValue => model = defaults[i].model
    BY <1>5, <2>1, <2>3
  <2>5. defaults[i].effort # NoValue => effort = defaults[i].effort
    BY <1>5, <2>1, <2>3
  <2>6. defaults[i].idle_timeout # NoValue => idle_timeout = defaults[i].idle_timeout
    BY <1>5, <2>1, <2>3
  <2>7. QED BY <2>4, <2>5, <2>6
<1>8. HasSettingsOf(args, made, plan)
  BY <1>1, <1>6 DEF HasSettingsOf
<1>9. c \notin CheckIds(plan) => HasSettingsOf(args, made, defaults)
  BY <1>1, <1>7 DEF HasSettingsOf
<1>10. SettingsFollow(args, made)
  BY <1>1, <1>2, <1>8, <1>9 DEF SettingsFollow, plan, defaults
<1>11. QED BY <1>10 DEF made, model, effort, idle_timeout

LEMMA FixSettingsFollow ==
  SettingsFollow(args, InvokeClaude(MemoryFix, NoValue, NoValue, args.idle_timeout))
<1> DEFINE made == InvokeClaude(MemoryFix, NoValue, NoValue, args.idle_timeout)
<1>1. made.check = MemoryFix /\ made.model = args.model /\ made.effort = args.effort
      /\ made.idle_timeout = args.idle_timeout
  BY DEF InvokeClaude
<1> HIDE DEF made
<1>2. SettingsFollow(args, made)
  BY <1>1 DEF SettingsFollow
<1>3. QED BY <1>2 DEF made

LEMMA AppendIs ==
  ASSUME NEW T, NEW seq \in Seq(T), NEW e
  PROVE  /\ DOMAIN seq = 1..Len(seq) /\ Len(seq) \in Nat
         /\ Append(seq, e) # <<>> /\ Len(Append(seq, e)) = Len(seq) + 1
         /\ DOMAIN Append(seq, e) = 1..(Len(seq) + 1)
         /\ \A n \in 1..(Len(seq) + 1) : n \in 1..Len(seq) \/ n = Len(seq) + 1
         /\ \A n \in 1..Len(seq) : Append(seq, e)[n] = seq[n]
         /\ Append(seq, e)[Len(seq) + 1] = e
<1> DEFINE S == T \union {e}
<1>1. seq \in Seq(S) /\ e \in S
  BY SeqOfMore
<1> HIDE DEF S
<1>2. DOMAIN seq = 1..Len(seq) /\ Len(seq) \in Nat
  BY <1>1
<1>3. /\ Append(seq, e) \in Seq(S) /\ Len(Append(seq, e)) = Len(seq) + 1
      /\ Append(seq, e)[Len(seq) + 1] = e
      /\ \A n \in 1..Len(seq) : Append(seq, e)[n] = seq[n]
  BY <1>1
<1>4. Append(seq, e) # <<>> /\ DOMAIN Append(seq, e) = 1..(Len(seq) + 1)
  BY <1>2, <1>3
<1>5. \A n \in 1..(Len(seq) + 1) : n \in 1..Len(seq) \/ n = Len(seq) + 1
  BY <1>2
<1>6. QED BY <1>2, <1>3, <1>4, <1>5

(* A call of the memory fix comes next. *)
Pending(records) == records # <<>> /\ NeedsFix(records[Len(records)])

(* The calls of the memory fix are where they belong. *)
FixFollows(records) ==
  \A n \in DOMAIN records :
    records[n].call.check = MemoryFix <=> n > 1 /\ NeedsFix(records[n - 1])

(* Each call has its settings. *)
AllFollow(a, records) ==
  \A n \in DOMAIN records : records[n].outcome # "skipped" => SettingsFollow(a, records[n].call)

LEMMA RecordFollows ==
  ASSUME NEW a, NEW records \in Seq(CallRecords), NEW record,
         FixFollows(records), AllFollow(a, records),
         record.call.check = MemoryFix <=> Pending(records),
         record.outcome # "skipped" => SettingsFollow(a, record.call)
  PROVE  /\ FixFollows(Append(records, record)) /\ AllFollow(a, Append(records, record))
         /\ Pending(Append(records, record)) <=> NeedsFix(record)
<1> DEFINE new == Append(records, record)
           l == Len(records)
<1>1. /\ DOMAIN records = 1..l /\ l \in Nat /\ new # <<>> /\ Len(new) = l + 1
      /\ DOMAIN new = 1..(l + 1) /\ \A n \in 1..(l + 1) : n \in 1..l \/ n = l + 1
      /\ \A n \in 1..l : new[n] = records[n]
      /\ new[l + 1] = record
  BY AppendIs
<1>2. records # <<>> <=> l # 0
  OBVIOUS
<1> HIDE DEF new, l
<1>3. ASSUME NEW n \in 1..l
      PROVE  new[n].call.check = MemoryFix <=> n > 1 /\ NeedsFix(new[n - 1])
  <2>1. n > 1 => n - 1 \in 1..l
    BY <1>1
  <2>2. n > 1 => new[n - 1] = records[n - 1]
    BY <1>1, <2>1
  <2>3. QED BY <1>1, <2>2 DEF FixFollows
<1>4. new[l + 1].call.check = MemoryFix <=> l + 1 > 1 /\ NeedsFix(new[(l + 1) - 1])
  <2>1. Pending(records) <=> l # 0 /\ NeedsFix(records[l])
    BY <1>2 DEF Pending, l
  <2>2. (l + 1) - 1 = l /\ (l + 1 > 1 <=> l # 0) /\ (l # 0 => l \in 1..l)
    BY <1>1
  <2>3. l # 0 => new[l] = records[l]
    BY <1>1, <2>2
  <2>4. QED BY <1>1, <2>1, <2>2, <2>3
<1>5. FixFollows(new)
  BY <1>1, <1>3, <1>4 DEF FixFollows
<1>6. AllFollow(a, new)
  BY <1>1 DEF AllFollow
<1>7. Pending(new) <=> NeedsFix(record)
  BY <1>1 DEF Pending
<1>8. QED BY <1>5, <1>6, <1>7 DEF new

(* The calls of checks among the records, and the check of each. *)
ChecksIn(records) == {n \in DOMAIN records : records[n].call.check # MemoryFix}
Called(records)   == [n \in ChecksIn(records) |-> records[n].call.check]

(* The calls of checks are those of the first d selected checks, in order. *)
Placed(called, selected, d) ==
  /\ \A n \in DOMAIN called : \E i \in 1..d : selected[i] = called[n]
  /\ \A m, n \in DOMAIN called : m < n =>
       \E i, j \in 1..d : i < j /\ selected[i] = called[m] /\ selected[j] = called[n]
  /\ \A i \in 1..d : \E n \in DOMAIN called : called[n] = selected[i]

LEMMA FixCalled ==
  ASSUME NEW records \in Seq(CallRecords), NEW record, record.call.check = MemoryFix
  PROVE  Called(Append(records, record)) = Called(records)
<1> DEFINE new == Append(records, record)
           l == Len(records)
<1>1. /\ DOMAIN records = 1..l /\ DOMAIN new = 1..(l + 1)
      /\ \A n \in 1..(l + 1) : n \in 1..l \/ n = l + 1
      /\ \A n \in 1..l : new[n] = records[n] /\ n \in 1..(l + 1)
      /\ new[l + 1] = record
  BY AppendIs
<1> HIDE DEF new, l
<1>2. ChecksIn(new) = ChecksIn(records) /\ \A n \in ChecksIn(records) : new[n] = records[n]
  BY <1>1 DEF ChecksIn
<1>3. Called(new) = Called(records)
  <2> DEFINE old == ChecksIn(records)
  <2>1. Called(new) = [n \in old |-> new[n].call.check]
    BY <1>2 DEF Called
  <2>2. Called(records) = [n \in old |-> records[n].call.check]
    BY DEF Called
  <2>3. \A n \in old : new[n].call.check = records[n].call.check
    BY <1>2
  <2> HIDE DEF old
  <2>4. QED BY <2>1, <2>2, <2>3
<1>4. QED BY <1>3 DEF new

LEMMA CheckCalled ==
  ASSUME NEW records \in Seq(CallRecords), NEW record, record.call.check # MemoryFix
  PROVE  LET last == Len(records) + 1  old == Called(records)  new == Called(Append(records, record)) IN
         /\ last \in Nat /\ \A n \in DOMAIN old : n \in Nat /\ n < last
         /\ DOMAIN new = DOMAIN old \union {last}
         /\ \A n \in DOMAIN old : new[n] = old[n]
         /\ new[last] = record.call.check
<1> DEFINE new == Append(records, record)
           l == Len(records)
           last == l + 1
<1>1. /\ DOMAIN records = 1..l /\ DOMAIN new = 1..last
      /\ \A n \in 1..last : n \in 1..l \/ n = last
      /\ \A n \in 1..l : new[n] = records[n] /\ n \in 1..last /\ n < last /\ n \in Nat
      /\ last \in 1..last /\ last \in Nat /\ new[last] = record
  BY AppendIs
<1> HIDE DEF new, l, last
<1>2. ChecksIn(new) = ChecksIn(records) \union {last}
      /\ \A n \in ChecksIn(records) : new[n] = records[n] /\ n < last /\ n \in Nat
  BY <1>1 DEF ChecksIn
<1>3. /\ DOMAIN Called(new) = ChecksIn(new) /\ DOMAIN Called(records) = ChecksIn(records)
      /\ \A n \in ChecksIn(new) : Called(new)[n] = new[n].call.check
      /\ \A n \in ChecksIn(records) : Called(records)[n] = records[n].call.check
  BY DEF Called
<1>4. QED
  <2>1. \A n \in DOMAIN Called(records) : Called(new)[n] = Called(records)[n]
    BY <1>2, <1>3
  <2>2. Called(new)[last] = record.call.check
    BY <1>1, <1>2, <1>3
  <2>3. /\ last \in Nat /\ \A n \in DOMAIN Called(records) : n \in Nat /\ n < last
        /\ DOMAIN Called(new) = DOMAIN Called(records) \union {last}
    BY <1>1, <1>2, <1>3
  <2>4. QED BY <2>1, <2>2, <2>3 DEF new, last, l

LEMMA PlacedMore ==
  ASSUME NEW old, NEW new, NEW last \in Nat, NEW selected, NEW d \in Nat,
         Placed(old, selected, d), \A n \in DOMAIN old : n \in Nat /\ n < last,
         DOMAIN new = DOMAIN old \union {last}, \A n \in DOMAIN old : new[n] = old[n],
         new[last] = selected[d + 1]
  PROVE  Placed(new, selected, d + 1)
<1> DEFINE e == d + 1
           A == DOMAIN old
<1>1. /\ \A i \in 1..e : i \in 1..d \/ i = e
      /\ \A i \in 1..d : i \in 1..e /\ i < e
      /\ e \in 1..e /\ new[last] = selected[e]
  OBVIOUS
<1>2. \A m, n \in DOMAIN new : m < n => m \in A
  <2>1. \A n \in DOMAIN new : n \in Nat /\ ~(last < n)
    OBVIOUS
  <2>2. QED BY <2>1
<1>3. /\ \A n \in A : \E i \in 1..d : selected[i] = old[n]
      /\ \A m, n \in A : m < n =>
           \E i, j \in 1..d : i < j /\ selected[i] = old[m] /\ selected[j] = old[n]
      /\ \A i \in 1..d : \E n \in A : old[n] = selected[i]
  BY DEF Placed
<1>4. DOMAIN new = A \union {last} /\ \A n \in A : new[n] = old[n]
  OBVIOUS
<1> HIDE DEF e, A
<1>5. ASSUME NEW n \in DOMAIN new
      PROVE  \E i \in 1..e : selected[i] = new[n]
  <2>1. CASE n \in A
    <3>1. PICK i \in 1..d : selected[i] = old[n]
      BY <1>3, <2>1
    <3>2. QED BY <1>1, <1>4, <2>1, <3>1
  <2>2. CASE n = last
    BY <1>1, <2>2
  <2>3. QED BY <1>4, <2>1, <2>2
<1>6. ASSUME NEW m \in DOMAIN new, NEW n \in DOMAIN new, m < n
      PROVE  \E i, j \in 1..e : i < j /\ selected[i] = new[m] /\ selected[j] = new[n]
  <2>1. m \in A /\ new[m] = old[m]
    BY <1>2, <1>4, <1>6
  <2>2. CASE n \in A
    <3>1. PICK i \in 1..d, j \in 1..d : i < j /\ selected[i] = old[m] /\ selected[j] = old[n]
      BY <1>3, <1>6, <2>1, <2>2
    <3>2. QED BY <1>1, <1>4, <2>1, <2>2, <3>1
  <2>3. CASE n = last
    <3>1. PICK i \in 1..d : selected[i] = old[m]
      BY <1>3, <2>1
    <3>2. i \in 1..e /\ e \in 1..e /\ i < e /\ selected[e] = new[n]
      BY <1>1, <2>3
    <3>3. QED BY <2>1, <3>1, <3>2
  <2>4. QED BY <1>4, <2>2, <2>3
<1>7. ASSUME NEW i \in 1..e
      PROVE  \E n \in DOMAIN new : new[n] = selected[i]
  <2>1. CASE i \in 1..d
    <3>1. PICK n \in A : old[n] = selected[i]
      BY <1>3, <2>1
    <3>2. QED BY <1>4, <3>1
  <2>2. CASE i = e
    BY <1>1, <1>4, <2>2
  <2>3. QED BY <1>1, <2>1, <2>2
<1>8. Placed(new, selected, e)
  BY <1>5, <1>6, <1>7 DEF Placed
<1>9. QED BY <1>8 DEF e

(* The selected checks are those of the checks that are selected, in the     *)
(* canonical order.                                                          *)
LEMMA SelectionIs ==
  ASSUME NEW a
  PROVE  LET selected == SelectedChecks(a) IN
         /\ selected \in Seq(Ids)
         /\ \A i \in 1..Len(selected) : selected[i] \in Ids /\ selected[i] \in SelectedIds(a)
         /\ \A i, j \in 1..Len(selected) : i < j =>
              \E k, l \in DOMAIN CHECKS : k < l /\ CHECKS[k] = selected[i] /\ CHECKS[l] = selected[j]
         /\ \A c \in Ids : c \in SelectedIds(a) => \E i \in 1..Len(selected) : selected[i] = c
<1> DEFINE selected == KeepIn(CHECKS, SelectedIds(a))
           ids == SelectedIds(a)
<1>1. CHECKS \in Seq(Ids) /\ SelectedChecks(a) = selected
  BY ChecksAre DEF SelectedChecks
<1>2. selected \in Seq(Ids)
  BY <1>1, KeepInIs
<1>3. PICK h \in [1..Len(selected) -> 1..Len(CHECKS)] : KeptAt(CHECKS, ids, h)
  BY <1>1, KeepInIs
<1>4. /\ \A i, j \in DOMAIN h : i < j => h[i] < h[j]
      /\ \A k \in DOMAIN h : selected[k] = CHECKS[h[k]] /\ CHECKS[h[k]] \in ids
      /\ \A i \in 1..Len(CHECKS) : CHECKS[i] \in ids => \E k \in DOMAIN h : h[k] = i
  BY <1>3 DEF KeptAt, Increasing
<1>5. DOMAIN CHECKS = 1..Len(CHECKS) /\ DOMAIN h = 1..Len(selected)
      /\ \A k \in DOMAIN h : h[k] \in DOMAIN CHECKS
  BY <1>1, <1>3
<1> HIDE DEF selected, ids
<1>6. \A i \in 1..Len(selected) : selected[i] \in Ids /\ selected[i] \in ids
  BY <1>2, <1>4, <1>5
<1>7. ASSUME NEW i \in 1..Len(selected), NEW j \in 1..Len(selected), i < j
      PROVE  \E k, l \in DOMAIN CHECKS : k < l /\ CHECKS[k] = selected[i] /\ CHECKS[l] = selected[j]
  BY <1>4, <1>5, <1>7
<1>8. ASSUME NEW c \in Ids, c \in ids
      PROVE  \E i \in 1..Len(selected) : selected[i] = c
  <2>1. PICK k \in DOMAIN CHECKS : CHECKS[k] = c
    BY DEF Ids
  <2>2. PICK i \in DOMAIN h : h[i] = k
    BY <1>4, <1>5, <1>8, <2>1
  <2>3. QED BY <1>4, <1>5, <2>1, <2>2
<1>9. QED BY <1>1, <1>2, <1>6, <1>7, <1>8 DEF ids

(* The checks to come are those after the first d selected ones. *)
Follows(selected, d, later) ==
  /\ Len(later) = Len(selected) - d
  /\ \A i \in 1..Len(later) : later[i] = selected[d + i]

Running == {"spawn", "stream", "judge"}

(* d checks have been called; another one may be in progress. *)
Ahead(selected, d, phase, check, later) ==
  /\ phase = "next" => Follows(selected, d, later)
  /\ phase \in Running /\ check = MemoryFix => Follows(selected, d, later)
  /\ phase \in Running /\ check # MemoryFix =>
       /\ d < Len(selected) /\ check = selected[d + 1]
       /\ Follows(selected, d + 1, later)

InOrder(a, phase, check, later, records) ==
  \E d \in 0..Len(SelectedChecks(a)) :
    Placed(Called(records), SelectedChecks(a), d) /\ Ahead(SelectedChecks(a), d, phase, check, later)

(* The invariant of the selection. *)
Selecting(a, phase, made, later, records) ==
  /\ phase = "choose" => records = <<>>
  /\ FixFollows(records) /\ AllFollow(a, records)
  /\ phase = "next" => ~Pending(records)
  /\ phase \in Running => SettingsFollow(a, made) /\ (made.check = MemoryFix <=> Pending(records))
  /\ InOrder(a, phase, made.check, later, records)

SelectionInv == Selecting(args, pc, call, rest, calls)

LEMMA FollowsTail ==
  ASSUME NEW selected \in Seq(Ids), NEW d \in 0..Len(selected), NEW later \in Seq(Ids),
         later # <<>>, Follows(selected, d, later)
  PROVE  /\ d < Len(selected) /\ d + 1 \in 0..Len(selected) /\ d + 1 \in 1..Len(selected)
         /\ Head(later) = selected[d + 1] /\ Follows(selected, d + 1, Tail(later))
<1> DEFINE tail == Tail(later)
<1>1. Len(later) \in Nat /\ Len(later) # 0 /\ Len(selected) \in Nat /\ d \in Nat
      /\ Len(later) = Len(selected) - d
      /\ \A i \in 1..Len(later) : later[i] = selected[d + i]
  BY DEF Follows
<1>2. Len(tail) = Len(later) - 1 /\ \A i \in 1..Len(tail) : tail[i] = later[i + 1]
      /\ Head(later) = later[1]
  BY <1>1
<1> HIDE DEF tail
<1>3. 1 \in 1..Len(later) /\ \A i \in 1..Len(tail) : i + 1 \in 1..Len(later) /\ d + (i + 1) = (d + 1) + i
  BY <1>1, <1>2
<1>4. Head(later) = selected[d + 1]
  BY <1>1, <1>2, <1>3
<1>5. \A i \in 1..Len(tail) : tail[i] = selected[(d + 1) + i]
  BY <1>1, <1>2, <1>3
<1>6. Len(tail) = Len(selected) - (d + 1)
  BY <1>1, <1>2
<1>7. Follows(selected, d + 1, tail)
  BY <1>5, <1>6 DEF Follows
<1>8. QED BY <1>1, <1>4, <1>7 DEF tail

(* A record of a check that was not called, or not yet judged. *)
LEMMA PlacedByCheck ==
  ASSUME NEW a, NEW records \in Seq(CallRecords), NEW record, record.call.check # MemoryFix,
         NEW d \in 0..Len(SelectedChecks(a)), d < Len(SelectedChecks(a)),
         Placed(Called(records), SelectedChecks(a), d),
         record.call.check = SelectedChecks(a)[d + 1]
  PROVE  /\ d + 1 \in 0..Len(SelectedChecks(a))
         /\ Placed(Called(Append(records, record)), SelectedChecks(a), d + 1)
<1> DEFINE selected == SelectedChecks(a)
           old == Called(records)
           new == Called(Append(records, record))
           last == Len(records) + 1
<1>1. /\ last \in Nat /\ \A n \in DOMAIN old : n \in Nat /\ n < last
      /\ DOMAIN new = DOMAIN old \union {last}
      /\ \A n \in DOMAIN old : new[n] = old[n]
      /\ new[last] = record.call.check
  BY CheckCalled
<1>2. selected \in Seq(Ids)
  BY SelectedChecksAre
<1> HIDE DEF selected, old, new, last
<1>3. d \in Nat /\ d + 1 \in 0..Len(selected)
  BY <1>2 DEF selected
<1>4. Placed(old, selected, d) /\ new[last] = selected[d + 1]
  BY <1>1 DEF old, selected
<1>5. Placed(new, selected, d + 1)
  BY <1>1, <1>3, <1>4, PlacedMore
<1>6. QED BY <1>3, <1>5 DEF selected, new

LEMMA RunSelects ==
  ASSUME CallInv, SelectionInv, RunSingleCheck \/ SkipDangerous
  PROVE  SelectionInv'
<1> DEFINE c == Head(rest)
           made == InvokeClaude(c, CheckModel(args, c), CheckEffort(args, c),
                                CheckIdleTimeout(args, c))
           selected == SelectedChecks(args)
<1>1. args \in CommandLines /\ rest \in Seq(Ids) /\ calls \in Seq(CallRecords)
  BY DEF CallInv, TypeOK, CallsOK
<1>2. pc = "next" /\ rest # <<>> /\ rest' = Tail(rest) /\ args' = args
  BY DEF RunSingleCheck, SkipDangerous
<1>3. FixFollows(calls) /\ AllFollow(args, calls) /\ ~Pending(calls)
  BY <1>2 DEF SelectionInv, Selecting
<1>4. PICK d \in 0..Len(selected) : Placed(Called(calls), selected, d) /\ Follows(selected, d, rest)
  BY <1>2 DEF SelectionInv, Selecting, InOrder, Ahead
<1>5. selected \in Seq(Ids)
      /\ \A i \in 1..Len(selected) : selected[i] \in Ids /\ selected[i] \in SelectedIds(args)
  BY SelectionIs
<1>6. /\ d < Len(selected) /\ d + 1 \in 0..Len(selected) /\ c = selected[d + 1]
      /\ Follows(selected, d + 1, Tail(rest)) /\ c \in Ids /\ c \in SelectedIds(args)
  <2> HIDE DEF selected
  <2> QED BY <1>1, <1>2, <1>4, <1>5, FollowsTail
<1>7. c # MemoryFix
  BY <1>6, ClaudeCallAssumption
<1>8. made.check = c /\ SettingsFollow(args, made)
  <2>1. made.check = c
    BY DEF InvokeClaude
  <2> HIDE DEF c
  <2>2. QED BY <1>1, <1>6, <2>1, CheckSettingsFollow
<1> HIDE DEF made, c, selected
<1>9. ASSUME NEW record, record.call.check = c, calls' = Append(calls, record), pc' = "next",
             record.outcome \in {"dry", "skipped"},
             record.outcome # "skipped" => SettingsFollow(args, record.call)
      PROVE  SelectionInv'
  <2>1. /\ FixFollows(Append(calls, record)) /\ AllFollow(args, Append(calls, record))
        /\ ~Pending(Append(calls, record))
    <3>1. record.call.check = MemoryFix <=> Pending(calls)
      BY <1>3, <1>7, <1>9
    <3>2. ~NeedsFix(record)
      BY <1>9 DEF NeedsFix
    <3>3. QED BY <1>1, <1>3, <1>9, <3>1, <3>2, RecordFollows
  <2>2. Placed(Called(Append(calls, record)), selected, d + 1)
    BY <1>1, <1>4, <1>6, <1>7, <1>9, PlacedByCheck DEF selected
  <2>3. InOrder(args, pc', call'.check, rest', calls')
    <3>1. Ahead(selected, d + 1, pc', call'.check, rest')
      BY <1>2, <1>6, <1>9 DEF Ahead, Running
    <3>2. QED BY <1>6, <1>9, <2>2, <3>1 DEF InOrder, selected
  <2>4. Selecting(args, pc', call', rest', calls')
    BY <1>9, <2>1, <2>3 DEF Selecting, Running
  <2>5. QED BY <1>2, <2>4 DEF SelectionInv
<1>10. CASE RunSingleCheck /\ args.dry_run
  <2> DEFINE record == [call |-> made, attempts |-> <<>>, outcome |-> "dry"]
  <2>1. record.call = made /\ record.outcome = "dry"
    OBVIOUS
  <2>2. calls' = Append(calls, record) /\ pc' = "next"
    BY <1>2, <1>10 DEF RunSingleCheck, Record, made, c
  <2> HIDE DEF record
  <2>3. QED BY <1>8, <1>9, <2>1, <2>2
<1>11. CASE SkipDangerous
  <2> DEFINE record == [call |-> [NoCall EXCEPT !.check = c], attempts |-> <<>>,
                        outcome |-> "skipped"]
  <2>1. record.call.check = c /\ record.outcome = "skipped"
    BY DEF NoCall
  <2>2. calls' = Append(calls, record) /\ pc' = "next"
    BY <1>2, <1>11 DEF SkipDangerous, Record, c
  <2> HIDE DEF record
  <2>3. QED BY <1>9, <2>1, <2>2
<1>12. CASE RunSingleCheck /\ ~args.dry_run
  <2>1. call' = made /\ pc' = "spawn" /\ calls' = calls
    BY <1>12 DEF RunSingleCheck, made, c
  <2>2. call'.check = c
    BY <1>8, <2>1
  <2>3. Ahead(selected, d, pc', call'.check, rest')
    BY <1>2, <1>6, <1>7, <2>1, <2>2 DEF Ahead, Running
  <2>4. InOrder(args, pc', call'.check, rest', calls')
    BY <1>4, <2>1, <2>3 DEF InOrder, selected
  <2>5. SettingsFollow(args, call') /\ (call'.check = MemoryFix <=> Pending(calls'))
    BY <1>3, <1>7, <1>8, <2>1, <2>2
  <2>6. pc' # "choose" /\ pc' # "next" /\ FixFollows(calls') /\ AllFollow(args, calls')
    BY <1>3, <2>1
  <2>7. Selecting(args, pc', call', rest', calls')
    BY <2>4, <2>5, <2>6 DEF Selecting
  <2>8. QED BY <1>2, <2>7 DEF SelectionInv
<1>13. QED BY <1>10, <1>11, <1>12

(* The call in progress ends; a memory fix may begin. *)
LEMMA EndSelects ==
  ASSUME CallInv, SelectionInv, pc \in Running,
         NEW record, record.call = call, record.outcome # "skipped",
         calls' = Append(calls, record), UNCHANGED <<args, rest>>,
         \/ pc' = "next" /\ ~NeedsFix(record)
         \/ /\ pc' = "spawn" /\ NeedsFix(record)
            /\ call' = InvokeClaude(MemoryFix, NoValue, NoValue, args.idle_timeout)
  PROVE  SelectionInv'
<1> DEFINE selected == SelectedChecks(args)
           fix == InvokeClaude(MemoryFix, NoValue, NoValue, args.idle_timeout)
<1>1. calls \in Seq(CallRecords) /\ selected \in Seq(Ids)
  BY SelectedChecksAre DEF CallInv, CallsOK
<1>2. /\ FixFollows(calls) /\ AllFollow(args, calls) /\ SettingsFollow(args, call)
      /\ call.check = MemoryFix <=> Pending(calls)
      /\ pc # "next"
  BY DEF SelectionInv, Selecting, Running
<1>3. PICK d \in 0..Len(selected) :
        /\ Placed(Called(calls), selected, d)
        /\ call.check = MemoryFix => Follows(selected, d, rest)
        /\ call.check # MemoryFix => /\ d < Len(selected) /\ call.check = selected[d + 1]
                                     /\ Follows(selected, d + 1, rest)
  BY DEF SelectionInv, Selecting, InOrder, Ahead
<1>4. SettingsFollow(args, fix) /\ fix.check = MemoryFix
  BY FixSettingsFollow DEF InvokeClaude
<1> HIDE DEF selected, fix
<1>5. /\ FixFollows(calls') /\ AllFollow(args, calls')
      /\ Pending(calls') <=> NeedsFix(record)
  BY <1>1, <1>2, RecordFollows
<1>6. PICK e \in 0..Len(selected) : Placed(Called(calls'), selected, e) /\ Follows(selected, e, rest)
  <2>1. CASE call.check = MemoryFix
    <3>1. Called(calls') = Called(calls)
      BY <1>1, <2>1, FixCalled
    <3>2. QED BY <1>3, <2>1, <3>1
  <2>2. CASE call.check # MemoryFix
    <3>1. d + 1 \in 0..Len(selected) /\ Placed(Called(Append(calls, record)), selected, d + 1)
      BY <1>1, <1>3, <2>2, PlacedByCheck DEF selected
    <3>2. QED BY <1>3, <2>2, <3>1
  <2>3. QED BY <2>1, <2>2
<1>7. Ahead(selected, e, pc', call'.check, rest')
  <2>1. CASE pc' = "next"
    BY <1>6, <2>1 DEF Ahead, Running
  <2>2. CASE pc' = "spawn"
    <3>1. call'.check = MemoryFix
      BY <1>4, <2>2 DEF fix
    <3>2. QED BY <1>6, <2>2, <3>1 DEF Ahead
  <2>3. QED BY <2>1, <2>2
<1>8. InOrder(args, pc', call'.check, rest', calls')
  BY <1>6, <1>7 DEF InOrder, selected
<1>9. /\ pc' # "choose" /\ (pc' = "next" => ~Pending(calls'))
      /\ pc' \in Running => /\ SettingsFollow(args, call')
                            /\ call'.check = MemoryFix <=> Pending(calls')
  <2>1. CASE pc' = "next" /\ ~NeedsFix(record)
    BY <1>5, <2>1 DEF Running
  <2>2. CASE pc' = "spawn" /\ NeedsFix(record) /\ call' = fix
    BY <1>4, <1>5, <2>2
  <2>3. QED BY <2>1, <2>2 DEF fix
<1>10. Selecting(args, pc', call', rest', calls')
  BY <1>5, <1>8, <1>9 DEF Selecting
<1>11. QED BY <1>10 DEF SelectionInv

LEMMA SelectionSteps ==
  ASSUME CallInv, SelectionInv, [Next]_vars
  PROVE  SelectionInv'
<1>1. CASE ResolveSelectedChecks
  <2> DEFINE selected == SelectedChecks(args)
  <2>1. calls = <<>> /\ UNCHANGED <<args, calls>> /\ pc' \in {"next", "done"}
        /\ (pc' = "next" => rest' = selected)
    BY <1>1 DEF ResolveSelectedChecks, SelectionInv, Selecting
  <2>2. selected \in Seq(Ids) /\ DOMAIN Called(<<>>) = {}
    BY SelectedChecksAre DEF Called, ChecksIn
  <2> HIDE DEF selected
  <2>3. Placed(Called(<<>>), selected, 0)
    BY <2>2 DEF Placed
  <2>4. Len(selected) \in Nat /\ Follows(selected, 0, selected)
    <3>1. Len(selected) \in Nat /\ \A i \in 1..Len(selected) : i = 0 + i
      BY <2>2
    <3>2. \A i \in 1..Len(selected) : selected[i] = selected[0 + i]
      BY <3>1
    <3>3. Len(selected) = Len(selected) - 0
      BY <3>1
    <3>4. QED BY <3>1, <3>2, <3>3 DEF Follows
  <2>5. Ahead(selected, 0, pc', call'.check, rest')
    BY <2>1, <2>4 DEF Ahead, Running
  <2>6. InOrder(args, pc', call'.check, rest', calls')
    BY <2>1, <2>3, <2>4, <2>5 DEF InOrder, selected
  <2>7. ~Pending(calls') /\ FixFollows(calls') /\ AllFollow(args, calls')
    BY <2>1 DEF Pending, SelectionInv, Selecting
  <2>8. Selecting(args, pc', call', rest', calls')
    BY <2>1, <2>6, <2>7 DEF Selecting, Running
  <2>9. QED BY <2>1, <2>8 DEF SelectionInv
<1>2. CASE RunSingleCheck \/ SkipDangerous
  BY <1>2, RunSelects
<1>3. CASE EndOfChecks \/ SpawnFails
  <2>1. pc' = "done" /\ UNCHANGED <<args, rest, call, calls>>
    BY <1>3 DEF EndOfChecks, SpawnFails
  <2>2. FixFollows(calls) /\ AllFollow(args, calls)
        /\ InOrder(args, "done", call.check, rest, calls)
    BY DEF SelectionInv, Selecting, InOrder, Ahead, Running
  <2>3. Selecting(args, pc', call', rest', calls')
    BY <2>1, <2>2 DEF Selecting, Running
  <2>4. QED BY <2>1, <2>3 DEF SelectionInv
<1>4. CASE Spawn \/ ReadChunk \/ Crash \/ Eof \/ LimitStrikes \/ NextModel
  <2>1. UNCHANGED <<args, rest, call, calls>> /\ pc \in Running /\ pc' \in Running
    BY <1>4 DEF Spawn, ReadChunk, Crash, Eof, LimitStrikes, NextModel, Running
  <2>2. /\ FixFollows(calls) /\ AllFollow(args, calls)
        /\ SettingsFollow(args, call) /\ (call.check = MemoryFix <=> Pending(calls))
    BY <2>1 DEF SelectionInv, Selecting
  <2>3. InOrder(args, pc', call.check, rest, calls)
    BY <2>1 DEF SelectionInv, Selecting, InOrder, Ahead, Running
  <2>4. pc' # "choose" /\ pc' # "next"
    BY <2>1 DEF Running
  <2>5. Selecting(args, pc', call', rest', calls')
    BY <2>1, <2>2, <2>3, <2>4 DEF Selecting
  <2>6. QED BY <2>1, <2>5 DEF SelectionInv
<1>5. CASE RaiseInCall
  <2> DEFINE record == [call |-> call, attempts |-> Tried("raised"), outcome |-> "raised"]
  <2>1. calls' = Append(calls, record) /\ pc \in Running /\ pc' = "next" /\ UNCHANGED <<args, rest>>
    BY <1>5 DEF RaiseInCall, Record, Running
  <2>2. record.call = call /\ record.outcome # "skipped" /\ ~NeedsFix(record)
    BY DEF NeedsFix
  <2> HIDE DEF record
  <2>3. QED BY <2>1, <2>2, EndSelects
<1>6. CASE Return
  <2> DEFINE record == [call |-> call, attempts |-> Tried(Verdict), outcome |-> Verdict]
  <2>1. calls' = Append(calls, record) /\ pc \in Running /\ UNCHANGED <<args, rest>>
    BY <1>6 DEF Return, Record, Running
  <2>2. kill \in LimitReasons \union {NoValue}
    BY DEF CallInv, TypeOK
  <2>3. Verdict # "skipped" /\ (Verdict = "memory" <=> kill = "memory")
    <3>1. CASE ModelUnavailable
      BY <3>1, ClaudeCallAssumption DEF Verdict, ModelUnavailable
    <3>2. CASE ~ModelUnavailable
      BY <2>2, <3>2, ClaudeCallAssumption DEF Verdict
    <3>3. QED BY <3>1, <3>2
  <2>4. record.call = call /\ record.outcome # "skipped"
        /\ (NeedsFix(record) <=> kill = "memory" /\ call.check # MemoryFix)
    BY <2>3 DEF NeedsFix
  <2> HIDE DEF record
  <2>5. \/ pc' = "next" /\ ~NeedsFix(record)
        \/ /\ pc' = "spawn" /\ NeedsFix(record)
           /\ call' = InvokeClaude(MemoryFix, NoValue, NoValue, args.idle_timeout)
    BY <1>6, <2>4 DEF Return
  <2>6. QED BY <2>1, <2>4, <2>5, EndSelects
<1>7. CASE Finished \/ UNCHANGED vars
  BY <1>7 DEF Finished, vars, SelectionInv
<1>8. QED BY <1>1, <1>2, <1>3, <1>4, <1>5, <1>6, <1>7 DEF Next

LEMMA SelectionInvHolds == Spec => []SelectionInv
<1>1. Init => SelectionInv
  <2> SUFFICES ASSUME Init PROVE SelectionInv
    OBVIOUS
  <2>1. pc = "choose" /\ calls = <<>>
    BY DEF Init
  <2>2. DOMAIN calls = {} /\ DOMAIN Called(calls) = {}
    BY <2>1 DEF Called, ChecksIn
  <2>3. FixFollows(calls) /\ AllFollow(args, calls) /\ ~Pending(calls)
    BY <2>1, <2>2 DEF FixFollows, AllFollow, Pending
  <2>4. InOrder(args, pc, call.check, rest, calls)
    <3>1. Placed(Called(calls), SelectedChecks(args), 0)
      BY <2>2 DEF Placed
    <3>2. Ahead(SelectedChecks(args), 0, pc, call.check, rest)
      BY <2>1 DEF Ahead, Running
    <3>3. 0 \in 0..Len(SelectedChecks(args))
      BY SelectedChecksAre
    <3>4. QED BY <3>1, <3>2, <3>3 DEF InOrder
  <2>5. QED BY <2>1, <2>3, <2>4 DEF SelectionInv, Selecting, Running
<1>2. CallInv /\ SelectionInv /\ [Next]_vars => SelectionInv'
  BY SelectionSteps
<1>3. QED BY <1>1, <1>2, CallInvHolds, PTL DEF Spec

(* Every selected check is called once or skipped, in canonical order, and   *)
(* none is left out when the checks are over; the memory fix follows a       *)
(* memory kill of a check and nothing else, before the next check; and each  *)
(* call has the model and effort that the command line, the plan or the      *)
(* super-exhaustive plan give it, and the idle timeout of its plan           *)
(* (CallsFollowSelection).                                                   *)
THEOREM CallsAreTheSelection == Spec => []CallsFollowSelection
<1>1. CallInv /\ SelectionInv => CallsFollowSelection
  <2> SUFFICES ASSUME CallInv, SelectionInv PROVE CallsFollowSelection
    OBVIOUS
  <2> DEFINE selected == SelectedChecks(args)
             called == Called(calls)
  <2>1. args \in CommandLines /\ calls \in Seq(CallRecords)
    BY DEF CallInv, TypeOK, CallsOK
  <2>2. /\ selected \in Seq(Ids)
        /\ \A i \in 1..Len(selected) : selected[i] \in Ids /\ Asked(selected[i])
        /\ \A i, j \in 1..Len(selected) : i < j =>
             \E k, l \in DOMAIN CHECKS : k < l /\ CHECKS[k] = selected[i] /\ CHECKS[l] = selected[j]
        /\ \A c \in Ids : Asked(c) => \E i \in 1..Len(selected) : selected[i] = c
    BY <2>1, SelectionIs, AskedIsSelected
  <2>3. DOMAIN called = CheckCalls /\ \A n \in CheckCalls : called[n] = calls[n].call.check
    BY DEF Called, ChecksIn, CheckCalls
  <2> HIDE DEF selected, called
  <2>4. PICK d \in 0..Len(selected) : /\ Placed(called, selected, d)
                                      /\ pc = "next" => Follows(selected, d, rest)
    BY DEF SelectionInv, Selecting, InOrder, Ahead, selected, called
  <2>5. Len(selected) \in Nat /\ \A i \in 1..d : i \in 1..Len(selected)
    BY <2>2
  <2>6. /\ \A n \in CheckCalls : \E i \in 1..d : selected[i] = called[n]
        /\ \A m, n \in CheckCalls : m < n =>
             \E i, j \in 1..d : i < j /\ selected[i] = called[m] /\ selected[j] = called[n]
        /\ \A i \in 1..d : \E n \in CheckCalls : called[n] = selected[i]
    BY <2>3, <2>4 DEF Placed
  <2>7. ASSUME NEW n \in CheckCalls
        PROVE  Asked(calls[n].call.check)
    <3>1. PICK i \in 1..d : selected[i] = called[n]
      BY <2>6
    <3>2. QED BY <2>2, <2>3, <2>5, <3>1
  <2>8. ASSUME NEW m \in CheckCalls, NEW n \in CheckCalls, m < n
        PROVE  \E i, j \in DOMAIN CHECKS : i < j /\ CHECKS[i] = calls[m].call.check
                                                 /\ CHECKS[j] = calls[n].call.check
    <3>1. PICK i \in 1..d, j \in 1..d : i < j /\ selected[i] = called[m] /\ selected[j] = called[n]
      BY <2>6, <2>8
    <3>2. PICK k \in DOMAIN CHECKS, l \in DOMAIN CHECKS :
            k < l /\ CHECKS[k] = selected[i] /\ CHECKS[l] = selected[j]
      BY <2>2, <2>5, <3>1
    <3>3. QED BY <2>3, <3>1, <3>2
  <2>9. ASSUME pc = "next" /\ rest = <<>>, NEW c \in Ids, Asked(c)
        PROVE  \E n \in CheckCalls : calls[n].call.check = c
    <3>1. Len(rest) = 0 /\ Len(rest) = Len(selected) - d /\ d \in Nat
      BY <2>4, <2>5, <2>9 DEF Follows
    <3>2. d = Len(selected)
      BY <2>5, <3>1
    <3>3. PICK i \in 1..d : selected[i] = c
      BY <2>2, <2>9, <3>2
    <3>4. PICK n \in CheckCalls : called[n] = selected[i]
      BY <2>6
    <3>5. QED BY <2>3, <3>3, <3>4
  <2>10. \A n \in DOMAIN calls : calls[n].call.check = MemoryFix <=> n > 1 /\ NeedsFix(calls[n - 1])
    BY DEF SelectionInv, Selecting, FixFollows
  <2>11. pc = "next" /\ calls # <<>> => ~NeedsFix(calls[Len(calls)])
    BY DEF SelectionInv, Selecting, Pending
  <2>12. ASSUME NEW n \in DOMAIN calls, calls[n].outcome # "skipped"
         PROVE  LET made == calls[n].call  plan == ResolvePlanConfig(args) IN
                /\ args.model # NoValue => made.model = args.model
                /\ args.effort # NoValue => made.effort = args.effort
                /\ made.check # MemoryFix =>
                     HasModelAndEffort(made, plan) /\ HasIdleTimeout(made, plan)
                /\ made.check # MemoryFix /\ made.check \notin CheckIds(plan) =>
                     HasModelAndEffort(made, PLAN_CONFIGS["super-exhaustive"])
                /\ made.check = MemoryFix =>
                     /\ made.model = args.model /\ made.effort = args.effort
                     /\ made.idle_timeout = args.idle_timeout
    <3> DEFINE made == calls[n].call
    <3>1. SettingsFollow(args, made)
      BY <2>12 DEF SelectionInv, Selecting, AllFollow
    <3>2. ASSUME NEW plan, HasSettingsOf(args, made, plan)
          PROVE  HasModelAndEffort(made, plan) /\ HasIdleTimeout(made, plan)
      <4>1. \A i : SoleEntry(plan, i, made) => Sole(plan, i, made.check)
        BY DEF SoleEntry, Sole
      <4> HIDE DEF made
      <4>2. HasModelAndEffort(made, plan)
        BY <3>2, <4>1 DEF HasSettingsOf, HasModelAndEffort
      <4>3. HasIdleTimeout(made, plan)
        BY <3>2, <4>1 DEF HasSettingsOf, HasIdleTimeout
      <4>4. QED BY <4>2, <4>3
    <3> HIDE DEF made
    <3>3. QED BY <3>1, <3>2 DEF SettingsFollow, made
  <2>13. QED BY <2>7, <2>8, <2>9, <2>10, <2>11, <2>12 DEF CallsFollowSelection
<1>2. QED BY <1>1, CallInvHolds, SelectionInvHolds, PTL
=============================================================================
