-------------------------- MODULE CandlePipelineProofs ---------------------------
(***************************************************************************)
(* For any prices, history length, bootstrap limit, number of ticks under  *)
(* way and of loads: candles stay in order, the strategy's candles end     *)
(* with the history, and signals tell the standing trend.                  *)
(***************************************************************************)
EXTENDS CandlePipeline, FiniteSetTheorems, SequenceTheorems, TLAPS

(* Values computed along a sequence *)

\* Induction over the numbers, for a set instead of a predicate.
LEMMA Induct ==
  ASSUME NEW S, 0 \in S, \A n \in Nat : n \in S => n + 1 \in S
  PROVE  Nat \subseteq S
  <1> SUFFICES ASSUME NEW m \in Nat, m \notin S PROVE FALSE
    OBVIOUS
  <1> DEFINE A == S \cap (0 .. m)
             B == A \ {0}
  <1>1. IsFiniteSet(A)
    <2>1. IsFiniteSet(0 .. m)
      BY FS_Interval
    <2> QED  BY <2>1, FS_Subset
  <1>2. Cardinality(A) \in Nat
    BY <1>1, FS_CardinalityType
  <1>3. 0 \in A
    OBVIOUS
  <1> HIDE DEF A
  <1>4. IsFiniteSet(B) /\ Cardinality(B) = Cardinality(A) - 1
    BY <1>1, <1>2, <1>3, FS_RemoveElement
  <1>5. \A k \in A : k + 1 \in B
    BY DEF A
  <1> HIDE DEF B
  <1> DEFINE f == [k \in A |-> k + 1]
  <1>6. f \in [A -> B]
    BY <1>5
  <1>7. Cardinality(B) < Cardinality(A)
    BY <1>2, <1>4
  <1>8. \E x, y \in A : x # y /\ f[x] = f[y]
    <2> HIDE DEF f
    <2> QED  BY <1>1, <1>4, <1>6, <1>7, FS_PigeonHole
  <1> QED  BY <1>8 DEF A

\* The first n values of f come from base by the steps.
Iterated(f, base, n, step) == f[0] = base /\ \A i \in 1 .. n : f[i] = step[i][f[i - 1]]

\* A step that stays in A can be iterated.
LEMMA Iterates ==
  ASSUME NEW A, NEW base \in A, NEW N \in Nat, NEW step \in [1 .. N -> [A -> A]]
  PROVE  \E f \in [0 .. N -> A] : Iterated(f, base, N, step)
  <1> DEFINE S == {n \in Nat : n <= N => \E f \in [0 .. N -> A] : Iterated(f, base, n, step)}
  <1>1. 0 \in S
    <2>1. [i \in 0 .. N |-> base] \in [0 .. N -> A]
      OBVIOUS
    <2>2. Iterated([i \in 0 .. N |-> base], base, 0, step)
      BY DEF Iterated
    <2> QED  BY <2>1, <2>2
  <1>2. ASSUME NEW n \in Nat, n \in S
        PROVE  n + 1 \in S
    <2> SUFFICES ASSUME n + 1 <= N PROVE \E f \in [0 .. N -> A] : Iterated(f, base, n + 1, step)
      OBVIOUS
    <2>1. PICK f \in [0 .. N -> A] : Iterated(f, base, n, step)
      BY <1>2
    <2> DEFINE g == [i \in 0 .. N |-> IF i = n + 1 THEN step[n + 1][f[n]] ELSE f[i]]
    <2>2. f[n] \in A /\ n + 1 \in 1 .. N
      OBVIOUS
    <2>3. step[n + 1][f[n]] \in A
      BY <2>2
    <2>4. g \in [0 .. N -> A]
      BY <2>3
    <2>5. g[n + 1] = step[n + 1][f[n]] /\ \A i \in 0 .. N : i <= n => g[i] = f[i]
      OBVIOUS
    <2> HIDE DEF g
    <2>6. g[0] = base
      BY <2>1, <2>5 DEF Iterated
    <2>7. ASSUME NEW i \in 1 .. n + 1
          PROVE  g[i] = step[i][g[i - 1]]
      <3>1. CASE i = n + 1
        BY <2>5, <3>1
      <3>2. CASE i # n + 1
        <4>1. i \in 1 .. n /\ i \in 0 .. N /\ i - 1 \in 0 .. N /\ i <= n /\ i - 1 <= n
          BY <2>7, <3>2
        <4>2. f[i] = step[i][f[i - 1]]
          BY <2>1, <4>1 DEF Iterated
        <4> QED  BY <2>5, <4>1, <4>2
      <3> QED  BY <3>1, <3>2
    <2> QED  BY <2>4, <2>6, <2>7 DEF Iterated
  <1>3. N \in S
    <2> HIDE DEF S
    <2> QED  BY <1>1, <1>2, Induct
  <1> QED  BY <1>3

\* Values that step from C[i - 1] into C[i] end in the last.
LEMMA Stays ==
  ASSUME NEW N \in Nat, NEW f, NEW C, f[0] \in C[0],
         \A i \in 1 .. N : f[i - 1] \in C[i - 1] => f[i] \in C[i]
  PROVE  f[N] \in C[N]
  <1> DEFINE S == {n \in Nat : n <= N => f[n] \in C[n]}
  <1>1. 0 \in S
    OBVIOUS
  <1>2. ASSUME NEW n \in Nat, n \in S
        PROVE  n + 1 \in S
    <2> SUFFICES ASSUME n + 1 <= N PROVE f[n + 1] \in C[n + 1]
      OBVIOUS
    <2>1. f[n] \in C[n] /\ n + 1 \in 1 .. N /\ (n + 1) - 1 = n
      BY <1>2
    <2> QED  BY <2>1
  <1>3. N \in S
    <2> HIDE DEF S
    <2> QED  BY <1>1, <1>2, Induct
  <1> QED  BY <1>3

\* What each value keeps, Evaluate along a sequence keeps: the value after i
\* elements is in A and in B[i].
EvaluateKeeps(A, B, s) ==
    \A a \in A : \A i \in 1 .. Len(s) :
        Evaluate(a, s[i]) \in A /\ (a \in B[i - 1] => Evaluate(a, s[i]) \in B[i])

LEMMA EvaluateAlong ==
  ASSUME NEW A, NEW base \in A, NEW s, Len(s) \in Nat, NEW B, base \in B[0],
         EvaluateKeeps(A, B, s)
  PROVE  Along(Evaluate, base, s) \in A /\ Along(Evaluate, base, s) \in B[Len(s)]
  <1> DEFINE N == Len(s)
             Unfolds(f) ==
                f = [i \in 0 .. N |-> IF i = 0 THEN base ELSE Evaluate(f[i - 1], s[i])]
             step == [i \in 1 .. N |-> [a \in A |-> Evaluate(a, s[i])]]
             along == CHOOSE f : Unfolds(f)
  <1>1. N \in Nat /\ step \in [1 .. N -> [A -> A]]
    BY DEF EvaluateKeeps
  <1>2. \A a \in A, i \in 1 .. N : step[i][a] = Evaluate(a, s[i])
    OBVIOUS
  <1>3. \A a \in A : \A i \in 1 .. N : a \in B[i - 1] => Evaluate(a, s[i]) \in B[i]
    BY DEF EvaluateKeeps
  <1> HIDE DEF N, step
  <1>4. \E f : Unfolds(f)
    <2>1. PICK f \in [0 .. N -> A] : Iterated(f, base, N, step)
      BY <1>1, Iterates
    <2>2. ASSUME NEW i \in 0 .. N
          PROVE  f[i] = IF i = 0 THEN base ELSE Evaluate(f[i - 1], s[i])
      <3>1. CASE i = 0
        BY <2>1, <3>1 DEF Iterated
      <3>2. CASE i # 0
        <4>1. i - 1 \in 0 .. N /\ i \in 1 .. N
          BY <1>1, <2>2, <3>2
        <4> QED  BY <1>2, <2>1, <3>2, <4>1 DEF Iterated
      <3> QED  BY <3>1, <3>2
    <2> QED  BY <2>1, <2>2
  <1>5. Unfolds(along)
    <2> HIDE DEF Unfolds
    <2> QED  BY <1>4
  <1>6. Along(Evaluate, base, s) = along[N]
    BY DEF Along, N
  <1> HIDE DEF along
  <1>7. along[0] = base
    BY <1>1, <1>5
  <1>8. ASSUME NEW i \in 1 .. N, along[i - 1] \in A
        PROVE  along[i] = step[i][along[i - 1]]
    <2>1. i \in 0 .. N /\ i # 0
      BY <1>1
    <2> QED  BY <1>2, <1>5, <1>8, <2>1
  <1>9. \A a \in A : \A i \in 1 .. N : a \in B[i - 1] => step[i][a] \in B[i]
    BY <1>2, <1>3
  <1>10. along[N] \in A /\ along[N] \in B[N]
    <2> HIDE DEF Unfolds
    <2> DEFINE C == [i \in 0 .. N |-> A \cap B[i]]
    <2>1. \A i \in 0 .. N : C[i] = A \cap B[i]
      OBVIOUS
    <2> HIDE DEF C
    <2>2. along[0] \in C[0]
      BY <1>1, <1>7, <2>1
    <2>3. ASSUME NEW i \in 1 .. N, along[i - 1] \in C[i - 1]
          PROVE  along[i] \in C[i]
      <3>1. i - 1 \in 0 .. N /\ i \in 0 .. N
        BY <1>1
      <3>2. along[i - 1] \in A /\ along[i - 1] \in B[i - 1]
        BY <2>1, <2>3, <3>1
      <3>3. step[i][along[i - 1]] \in A /\ step[i][along[i - 1]] \in B[i]
        BY <1>1, <1>9, <3>2
      <3> QED  BY <1>8, <2>1, <3>1, <3>2, <3>3
    <2>4. along[N] \in C[N]
      BY <1>1, <2>2, <2>3, Stays
    <2> QED  BY <1>1, <2>1, <2>4
  <1> QED  BY <1>6, <1>10 DEF N

\* What each value keeps, Calculate along a sequence keeps: the value after i
\* elements is in A and in B[i].
CalculateKeeps(A, B, s) ==
    \A a \in A : \A i \in 1 .. Len(s) :
        Calculate(a, s[i]) \in A /\ (a \in B[i - 1] => Calculate(a, s[i]) \in B[i])

LEMMA CalculateAlong ==
  ASSUME NEW A, NEW base \in A, NEW s, Len(s) \in Nat, NEW B, base \in B[0],
         CalculateKeeps(A, B, s)
  PROVE  Along(Calculate, base, s) \in A /\ Along(Calculate, base, s) \in B[Len(s)]
  <1> DEFINE N == Len(s)
             Unfolds(f) ==
                f = [i \in 0 .. N |-> IF i = 0 THEN base ELSE Calculate(f[i - 1], s[i])]
             step == [i \in 1 .. N |-> [a \in A |-> Calculate(a, s[i])]]
             along == CHOOSE f : Unfolds(f)
  <1>1. N \in Nat /\ step \in [1 .. N -> [A -> A]]
    BY DEF CalculateKeeps
  <1>2. \A a \in A, i \in 1 .. N : step[i][a] = Calculate(a, s[i])
    OBVIOUS
  <1>3. \A a \in A : \A i \in 1 .. N : a \in B[i - 1] => Calculate(a, s[i]) \in B[i]
    BY DEF CalculateKeeps
  <1> HIDE DEF N, step
  <1>4. \E f : Unfolds(f)
    <2>1. PICK f \in [0 .. N -> A] : Iterated(f, base, N, step)
      BY <1>1, Iterates
    <2>2. ASSUME NEW i \in 0 .. N
          PROVE  f[i] = IF i = 0 THEN base ELSE Calculate(f[i - 1], s[i])
      <3>1. CASE i = 0
        BY <2>1, <3>1 DEF Iterated
      <3>2. CASE i # 0
        <4>1. i - 1 \in 0 .. N /\ i \in 1 .. N
          BY <1>1, <2>2, <3>2
        <4> QED  BY <1>2, <2>1, <3>2, <4>1 DEF Iterated
      <3> QED  BY <3>1, <3>2
    <2> QED  BY <2>1, <2>2
  <1>5. Unfolds(along)
    <2> HIDE DEF Unfolds
    <2> QED  BY <1>4
  <1>6. Along(Calculate, base, s) = along[N]
    BY DEF Along, N
  <1> HIDE DEF along
  <1>7. along[0] = base
    BY <1>1, <1>5
  <1>8. ASSUME NEW i \in 1 .. N, along[i - 1] \in A
        PROVE  along[i] = step[i][along[i - 1]]
    <2>1. i \in 0 .. N /\ i # 0
      BY <1>1
    <2> QED  BY <1>2, <1>5, <1>8, <2>1
  <1>9. \A a \in A : \A i \in 1 .. N : a \in B[i - 1] => step[i][a] \in B[i]
    BY <1>2, <1>3
  <1>10. along[N] \in A /\ along[N] \in B[N]
    <2> HIDE DEF Unfolds
    <2> DEFINE C == [i \in 0 .. N |-> A \cap B[i]]
    <2>1. \A i \in 0 .. N : C[i] = A \cap B[i]
      OBVIOUS
    <2> HIDE DEF C
    <2>2. along[0] \in C[0]
      BY <1>1, <1>7, <2>1
    <2>3. ASSUME NEW i \in 1 .. N, along[i - 1] \in C[i - 1]
          PROVE  along[i] \in C[i]
      <3>1. i - 1 \in 0 .. N /\ i \in 0 .. N
        BY <1>1
      <3>2. along[i - 1] \in A /\ along[i - 1] \in B[i - 1]
        BY <2>1, <2>3, <3>1
      <3>3. step[i][along[i - 1]] \in A /\ step[i][along[i - 1]] \in B[i]
        BY <1>1, <1>9, <3>2
      <3> QED  BY <1>8, <2>1, <3>1, <3>2, <3>3
    <2>4. along[N] \in C[N]
      BY <1>1, <2>2, <2>3, Stays
    <2> QED  BY <1>1, <2>1, <2>4
  <1> QED  BY <1>6, <1>10 DEF N

-------------------------------------------------------------------------------
(* Sequences of candles *)

\* t is the end of s, and empty only if s is.
EndOf(t, s) ==
    /\ Len(t) <= Len(s) /\ (t = <<>> => s = <<>>)
    /\ \A i \in 1 .. Len(t) : t[i] = s[Len(s) - Len(t) + i]

\* The last n, or all there are.
LastOf(s, n) == SubSeq(s, IF Len(s) > n THEN Len(s) - n + 1 ELSE 1, Len(s))

LEMMA LastOfFacts ==
  ASSUME NEW S, NEW s \in Seq(S), NEW n \in Nat \ {0}
  PROVE  /\ LastOf(s, n) \in Seq(S) /\ EndOf(LastOf(s, n), s)
         /\ Len(LastOf(s, n)) = IF Len(s) > n THEN n ELSE Len(s)
  <1> DEFINE m == IF Len(s) > n THEN Len(s) - n + 1 ELSE 1
             t == SubSeq(s, m, Len(s))
  <1>1. Len(s) \in Nat /\ m \in Nat \ {0} /\ m <= Len(s) + 1
    OBVIOUS
  <1>2. \A i \in m .. Len(s) : s[i] \in S
    BY <1>1, ElementOfSeq
  <1>3. /\ t \in Seq(S)
        /\ Len(t) = IF m <= Len(s) THEN Len(s) - m + 1 ELSE 0
        /\ \A i \in 1 .. Len(s) - m + 1 : t[i] = s[m + i - 1]
    <2> HIDE DEF m
    <2> QED  BY <1>1, <1>2, SubSeqProperties
  <1> HIDE DEF t
  <1>4. m = IF Len(s) > n THEN Len(s) - n + 1 ELSE 1
    OBVIOUS
  <1> HIDE DEF m
  <1>5. Len(t) = Len(s) - m + 1 /\ Len(t) = IF Len(s) > n THEN n ELSE Len(s)
    <2>1. Len(t) = Len(s) - m + 1
      BY <1>1, <1>3
    <2> QED  BY <1>1, <1>4, <2>1
  <1>6. ASSUME NEW i \in 1 .. Len(t)
        PROVE  t[i] = s[Len(s) - Len(t) + i]
    <2>1. i \in 1 .. Len(s) - m + 1 /\ m + i - 1 = Len(s) - Len(t) + i
      BY <1>1, <1>5
    <2> QED  BY <1>3, <2>1
  <1>7. t = <<>> => s = <<>>
    BY <1>1, <1>5, EmptySeq
  <1>8. Len(t) <= Len(s)
    BY <1>1, <1>5
  <1> QED  BY <1>3, <1>5, <1>6, <1>7, <1>8 DEF t, m, LastOf, EndOf

LEMMA KeepFacts ==
  ASSUME NEW s \in Seq(Candle)
  PROVE  Keep(s) \in Seq(Candle) /\ Len(Keep(s)) <= History /\ EndOf(Keep(s), s)
  <1>1. Keep(s) = LastOf(s, History)
    BY DEF Keep, LastOf
  <1> QED  BY <1>1, LastOfFacts, PipelineAssumption, LenProperties

\* Fillers go minute by minute from the last candle on, and stop before the
\* target, History of them if they stop short of it.
LEMMA GapFacts ==
  ASSUME NEW last \in Candle, NEW target \in Minutes, last.min < target
  PROVE  LET g == GapFillers(last, target)
         IN  /\ g \in Seq(Candle) /\ Len(g) <= History
             /\ last.min + Len(g) < target
             /\ last.min + Len(g) + 1 < target => Len(g) = History
             /\ \A i \in 1 .. Len(g) : g[i].min = last.min + i /\ g[i].kind = "filler"
  <1> DEFINE count == IF target - last.min - 1 > History THEN History ELSE target - last.min - 1
             filler(i) == [min |-> last.min + i, close |-> last.close, kind |-> "filler"]
             g == [i \in 1 .. count |-> filler(i)]
  <1>1. last.min \in Nat /\ target \in Nat /\ target <= MaxMinute /\ last.close \in Prices
    BY PipelineAssumption DEF Candle, Minutes
  <1>2. History \in Nat \ {0}
    BY PipelineAssumption
  <1>3. /\ count \in Nat /\ count <= History /\ last.min + count < target
        /\ last.min + count + 1 < target => count = History
    BY <1>1, <1>2
  <1> HIDE DEF count
  <1>4. ASSUME NEW i \in 1 .. count
        PROVE  filler(i) \in Candle
    <2>1. last.min + i \in Minutes
      BY <1>1, <1>3, PipelineAssumption DEF Minutes
    <2> QED  BY <1>1, <2>1 DEF Candle, Kinds
  <1>5. g \in Seq(Candle)
    <2> HIDE DEF filler
    <2> QED  BY <1>3, <1>4
  <1>6. Len(g) = count /\ \A i \in 1 .. count : g[i] = filler(i)
    BY <1>3
  <1>7. GapFillers(last, target) = g
    BY DEF GapFillers, count
  <1> HIDE DEF g
  <1> QED  BY <1>3, <1>5, <1>6, <1>7
-------------------------------------------------------------------------------
(* Order *)

Filled(s, i) == \A j \in 1 .. i : j > i - History => s[j].kind = "filler"

\* Candles in order, each minute once and none half loaded, holes behind fillers.
InOrder(s) ==
    /\ \A i \in 1 .. Len(s) : s[i].kind # "partial"
    /\ \A i \in 1 .. Len(s) - 1 :
         /\ s[i].min < s[i + 1].min
         /\ s[i].min + 1 < s[i + 1].min => Filled(s, i)

\* A candle of this minute may follow.
Before(s, min) ==
    s # <<>> => /\ s[Len(s)].min < min
                /\ s[Len(s)].min + 1 < min => Filled(s, Len(s))

LEMMA EndOrder ==
  ASSUME NEW s \in Seq(Candle), NEW t \in Seq(Candle), EndOf(t, s)
  PROVE  /\ InOrder(s) => InOrder(t)
         /\ \A m \in Int : Before(s, m) => Before(t, m)
  <1> DEFINE d == Len(s) - Len(t)
  <1>1. Len(s) \in Nat /\ Len(t) \in Nat /\ d \in Nat /\ \A i \in 1 .. Len(t) : t[i] = s[d + i]
    BY DEF EndOf
  <1>2. History \in Nat
    BY PipelineAssumption
  <1>3. ASSUME NEW i \in 1 .. Len(t), Filled(s, d + i)
        PROVE  Filled(t, i)
    <2>1. SUFFICES ASSUME NEW j \in 1 .. i, j > i - History PROVE t[j].kind = "filler"
      BY DEF Filled
    <2>2. d + j \in 1 .. d + i /\ d + j > (d + i) - History /\ j \in 1 .. Len(t)
      BY <1>1, <1>2, <1>3, <2>1
    <2> QED  BY <1>1, <1>3, <2>2 DEF Filled
  <1> HIDE DEF d
  <1>4. ASSUME InOrder(s)
        PROVE  InOrder(t)
    <2>1. ASSUME NEW i \in 1 .. Len(t)
          PROVE  t[i].kind # "partial"
      <3>1. d + i \in 1 .. Len(s)
        BY <1>1, <2>1 DEF d
      <3> QED  BY <1>1, <1>4, <3>1 DEF InOrder
    <2>2. ASSUME NEW i \in 1 .. Len(t) - 1
          PROVE  /\ t[i].min < t[i + 1].min
                 /\ t[i].min + 1 < t[i + 1].min => Filled(t, i)
      <3>1. /\ d + i \in 1 .. Len(s) - 1 /\ (d + i) + 1 = d + (i + 1)
            /\ i \in 1 .. Len(t) /\ i + 1 \in 1 .. Len(t)
        BY <1>1, <2>2 DEF d
      <3>2. t[i] = s[d + i] /\ t[i + 1] = s[(d + i) + 1]
        BY <1>1, <3>1
      <3>3. /\ s[d + i].min < s[(d + i) + 1].min
            /\ s[d + i].min + 1 < s[(d + i) + 1].min => Filled(s, d + i)
        BY <1>4, <3>1 DEF InOrder
      <3> QED  BY <1>3, <3>1, <3>2, <3>3
    <2> QED  BY <2>1, <2>2 DEF InOrder
  <1>5. ASSUME NEW m \in Int, Before(s, m), t # <<>>
        PROVE  /\ t[Len(t)].min < m
               /\ t[Len(t)].min + 1 < m => Filled(t, Len(t))
    <2>1. Len(t) \in 1 .. Len(t) /\ d + Len(t) = Len(s) /\ s # <<>>
      BY <1>1, <1>5, EmptySeq DEF d
    <2>2. t[Len(t)] = s[Len(s)]
      BY <1>1, <2>1
    <2> QED  BY <1>3, <1>5, <2>1, <2>2 DEF Before
  <1> QED  BY <1>4, <1>5 DEF Before

\* A closed candle follows the ones before it.
LEMMA CloseOrder ==
  ASSUME NEW s \in Seq(Candle), NEW c \in Candle, c.kind # "partial",
         InOrder(s), Before(s, c.min)
  PROVE  InOrder(s \o <<c>>)
  <1> DEFINE u == s \o <<c>>
             n == Len(s)
  <1>1. n \in Nat /\ Len(u) = n + 1 /\ u[n + 1] = c /\ \A i \in 1 .. n : u[i] = s[i]
    OBVIOUS
  <1>2. History \in Nat
    BY PipelineAssumption
  <1> HIDE DEF u, n
  <1>3. ASSUME NEW i \in 1 .. n, Filled(s, i)
        PROVE  Filled(u, i)
    BY <1>1, <1>3 DEF Filled
  <1>4. ASSUME NEW i \in 1 .. n + 1
        PROVE  u[i].kind # "partial"
    <2>1. CASE i = n + 1
      BY <1>1, <2>1
    <2>2. CASE i # n + 1
      <3>1. i \in 1 .. n
        BY <1>1, <2>2
      <3> QED  BY <1>1, <3>1 DEF InOrder, n
    <2> QED  BY <2>1, <2>2
  <1>5. ASSUME NEW i \in 1 .. n
        PROVE  /\ u[i].min < u[i + 1].min
               /\ u[i].min + 1 < u[i + 1].min => Filled(u, i)
    <2>1. CASE i = n
      <3>1. s # <<>> /\ u[i] = s[Len(s)] /\ u[i + 1] = c
        BY <1>1, <2>1 DEF n
      <3> QED  BY <1>3, <2>1, <3>1 DEF Before, n
    <2>2. CASE i # n
      <3>1. i \in 1 .. n - 1 /\ i + 1 \in 1 .. n
        BY <1>1, <2>2
      <3>2. u[i] = s[i] /\ u[i + 1] = s[i + 1]
        BY <1>1, <3>1
      <3> QED  BY <1>3, <3>1, <3>2 DEF InOrder, n
    <2> QED  BY <2>1, <2>2
  <1>6. (n + 1) - 1 = n
    BY <1>1
  <1> QED  BY <1>1, <1>4, <1>5, <1>6 DEF InOrder, u

\* Fillers go on where the candles end, and a tick of the target may follow them.
LEMMA GapOrder ==
  ASSUME NEW s \in Seq(Candle), s # <<>>, NEW target \in Minutes,
         s[Len(s)].min < target, InOrder(s)
  PROVE  LET u == s \o GapFillers(s[Len(s)], target)
         IN  InOrder(u) /\ Before(u, target) /\ u # <<>>
  <1> DEFINE n == Len(s)
             last == s[n]
             g == GapFillers(last, target)
             u == s \o g
  <1>1. n \in Nat \ {0} /\ last \in Candle
    BY EmptySeq, ElementOfSeq
  <1>2. last.min \in Int /\ target \in Int /\ History \in Nat \ {0}
    BY <1>1, PipelineAssumption DEF Candle, Minutes
  <1>3. /\ g \in Seq(Candle) /\ Len(g) <= History
        /\ last.min + Len(g) < target
        /\ last.min + Len(g) + 1 < target => Len(g) = History
        /\ \A i \in 1 .. Len(g) : g[i].min = last.min + i /\ g[i].kind = "filler"
    BY <1>1, GapFacts
  <1> HIDE DEF g
  <1>4. /\ u \in Seq(Candle) /\ Len(u) = n + Len(g) /\ Len(g) \in Nat
        /\ \A i \in 1 .. n + Len(g) : u[i] = IF i <= n THEN s[i] ELSE g[i - n]
    BY <1>3, ConcatProperties, LenProperties
  <1> HIDE DEF u, n
  <1>5. \A i \in n .. n + Len(g) : u[i].min = last.min + (i - n)
    <2>1. TAKE i \in n .. n + Len(g)
    <2>2. CASE i = n
      BY <1>1, <1>2, <1>4, <2>2
    <2>3. CASE i # n
      <3>1. i \in 1 .. n + Len(g) /\ ~(i <= n) /\ i - n \in 1 .. Len(g)
        BY <1>1, <1>4, <2>3
      <3> QED  BY <1>3, <1>4, <3>1
    <2> QED  BY <2>2, <2>3
  <1>6. \A i \in n + 1 .. n + Len(g) : u[i].kind = "filler"
    <2>1. TAKE i \in n + 1 .. n + Len(g)
    <2>2. i \in 1 .. n + Len(g) /\ ~(i <= n) /\ i - n \in 1 .. Len(g)
      BY <1>1, <1>4
    <2> QED  BY <1>3, <1>4, <2>2
  <1>7. \A i \in 1 .. n : u[i] = s[i]
    BY <1>1, <1>4
  <1>8. ASSUME NEW i \in 1 .. n, Filled(s, i)
        PROVE  Filled(u, i)
    BY <1>1, <1>7, <1>8 DEF Filled
  <1>9. ASSUME NEW i \in 1 .. Len(u)
        PROVE  u[i].kind # "partial"
    <2>1. CASE i <= n
      <3>1. i \in 1 .. n
        BY <1>1, <2>1
      <3> QED  BY <1>7, <3>1 DEF InOrder, n
    <2>2. CASE ~(i <= n)
      <3>1. i \in n + 1 .. n + Len(g)
        BY <1>1, <1>4, <1>9, <2>2
      <3> QED  BY <1>6, <3>1
    <2> QED  BY <2>1, <2>2
  <1>10. ASSUME NEW i \in 1 .. Len(u) - 1
         PROVE  /\ u[i].min < u[i + 1].min
                /\ u[i].min + 1 < u[i + 1].min => Filled(u, i)
    <2>1. CASE i < n
      <3>1. i \in 1 .. n - 1 /\ i \in 1 .. n /\ i + 1 \in 1 .. n
        BY <1>1, <2>1
      <3> QED  BY <1>7, <1>8, <3>1 DEF InOrder, n
    <2>2. CASE i >= n
      <3>1. i \in n .. n + Len(g) /\ i + 1 \in n .. n + Len(g)
        BY <1>1, <1>4, <2>2
      <3>2. u[i].min = last.min + (i - n) /\ u[i + 1].min = last.min + ((i + 1) - n)
        BY <1>5, <3>1
      <3> QED  BY <1>1, <1>2, <3>1, <3>2
    <2> QED  BY <1>1, <2>1, <2>2
  <1>11. InOrder(u)
    BY <1>9, <1>10 DEF InOrder
  <1>12. Before(u, target)
    <2>1. u[Len(u)].min = last.min + Len(g)
      <3>1. n + Len(g) \in n .. n + Len(g) /\ (n + Len(g)) - n = Len(g)
        BY <1>1, <1>4
      <3> QED  BY <1>4, <1>5, <3>1
    <2>2. ASSUME Len(g) = History
          PROVE  Filled(u, Len(u))
      <3>1. SUFFICES ASSUME NEW j \in 1 .. Len(u), j > Len(u) - History
                     PROVE  u[j].kind = "filler"
        BY DEF Filled
      <3>2. j \in n + 1 .. n + Len(g)
        BY <1>1, <1>4, <2>2, <3>1
      <3> QED  BY <1>6, <3>2
    <2> QED  BY <1>2, <1>3, <2>1, <2>2 DEF Before
  <1>13. u # <<>>
    BY <1>1, <1>4, EmptySeq
  <1> QED  BY <1>11, <1>12, <1>13 DEF u, g, n
-------------------------------------------------------------------------------
(* Sums and powers *)

\* Running totals of s.
Totals(f, s) == /\ f[0] = 0
                /\ \A i \in 1 .. Len(s) : f[i] = f[i - 1] + s[i]

LEMMA SumTotals ==
  ASSUME NEW s \in Seq(Int)
  PROVE  /\ \E f \in [0 .. Len(s) -> Int] : Totals(f, s) /\ SumOf(s) = f[Len(s)]
         /\ SumOf(s) \in Int
  <1> DEFINE N == Len(s)
             Unfolds(f) == f = [i \in 0 .. N |-> IF i = 0 THEN 0 ELSE f[i - 1] + s[i]]
             step == [i \in 1 .. N |-> [a \in Int |-> a + s[i]]]
             along == CHOOSE f : Unfolds(f)
  <1>1. N \in Nat /\ step \in [1 .. N -> [Int -> Int]]
    BY ElementOfSeq
  <1>2. \A a \in Int, i \in 1 .. N : step[i][a] = a + s[i]
    OBVIOUS
  <1>3. SumOf(s) = along[N]
    BY DEF SumOf, Plus, Along
  <1>4. \A i \in 1 .. N : s[i] \in Int
    BY ElementOfSeq
  <1> HIDE DEF N, step
  <1>5. PICK f \in [0 .. N -> Int] : Unfolds(f)
    <2>1. PICK f \in [0 .. N -> Int] : Iterated(f, 0, N, step)
      <3> DEFINE Z == Int
                 zero == 0
      <3>1. zero \in Z /\ N \in Nat /\ step \in [1 .. N -> [Z -> Z]]
        BY <1>1
      <3> HIDE DEF zero, Z
      <3>2. \E f \in [0 .. N -> Z] : Iterated(f, zero, N, step)
        BY <3>1, Iterates
      <3> QED  BY <3>2 DEF zero, Z
    <2>2. ASSUME NEW i \in 0 .. N
          PROVE  f[i] = IF i = 0 THEN 0 ELSE f[i - 1] + s[i]
      <3>1. CASE i = 0
        BY <2>1, <3>1 DEF Iterated
      <3>2. CASE i # 0
        <4>1. i - 1 \in 0 .. N /\ i \in 1 .. N
          BY <1>1, <2>2, <3>2
        <4> QED  BY <1>2, <2>1, <3>2, <4>1 DEF Iterated
      <3> QED  BY <3>1, <3>2
    <2> QED  BY <2>1, <2>2
  <1>6. Unfolds(along)
    <2> HIDE DEF Unfolds
    <2> QED  BY <1>5
  <1> HIDE DEF along
  <1>7. Totals(along, s)
    BY <1>1, <1>6 DEF Totals, N
  <1>8. \A i \in 0 .. N : along[i] \in Int
    <2> DEFINE S == {n \in Nat : n <= N => along[n] \in Int}
    <2>1. 0 \in S
      BY <1>7 DEF Totals
    <2>2. ASSUME NEW n \in Nat, n \in S
          PROVE  n + 1 \in S
      <3> SUFFICES ASSUME n + 1 <= N PROVE along[n + 1] \in Int
        OBVIOUS
      <3>1. along[n] \in Int /\ n + 1 \in 1 .. N /\ (n + 1) - 1 = n
        BY <1>1, <2>2
      <3>2. along[n + 1] = along[n] + s[n + 1]
        BY <1>7, <3>1 DEF Totals, N
      <3> QED  BY <1>4, <3>1, <3>2
    <2> HIDE DEF S
    <2>3. Nat \subseteq S
      BY <2>1, <2>2, Induct
    <2> QED  BY <1>1, <2>3 DEF S
  <1>9. along \in [0 .. N -> Int]
    BY <1>6, <1>8
  <1>10. along[N] \in Int
    BY <1>1, <1>8
  <1> QED  BY <1>3, <1>7, <1>9, <1>10 DEF N

\* Any running totals give the sum.
LEMMA SumIs ==
  ASSUME NEW s \in Seq(Int), NEW g, Totals(g, s)
  PROVE  SumOf(s) = g[Len(s)]
  <1>1. PICK f : Totals(f, s) /\ SumOf(s) = f[Len(s)]
    BY SumTotals
  <1> DEFINE N == Len(s)
             C == [i \in 0 .. N |-> {g[i]}]
  <1>2. N \in Nat
    OBVIOUS
  <1>3. \A i \in 0 .. N : C[i] = {g[i]}
    OBVIOUS
  <1> HIDE DEF C
  <1>4. f[0] \in C[0]
    BY <1>1, <1>2, <1>3 DEF Totals
  <1>5. ASSUME NEW i \in 1 .. N, f[i - 1] \in C[i - 1]
        PROVE  f[i] \in C[i]
    <2>1. i - 1 \in 0 .. N /\ i \in 0 .. N
      BY <1>2
    <2>2. f[i - 1] = g[i - 1]
      BY <1>3, <1>5, <2>1
    <2>3. f[i] = f[i - 1] + s[i] /\ g[i] = g[i - 1] + s[i]
      BY <1>1 DEF Totals
    <2> QED  BY <1>3, <2>1, <2>2, <2>3
  <1>6. f[N] \in C[N]
    <2> HIDE DEF N
    <2> QED  BY <1>2, <1>4, <1>5, Stays
  <1> QED  BY <1>1, <1>2, <1>3, <1>6

LEMMA SumAppend ==
  ASSUME NEW s \in Seq(Int), NEW x \in Int
  PROVE  SumOf(Append(s, x)) = SumOf(s) + x
  <1>1. PICK f : Totals(f, s) /\ SumOf(s) = f[Len(s)]
    BY SumTotals
  <1> DEFINE N == Len(s)
             t == Append(s, x)
             g == [i \in 0 .. N + 1 |-> IF i = N + 1 THEN f[N] + x ELSE f[i]]
  <1>2. /\ N \in Nat /\ t \in Seq(Int) /\ Len(t) = N + 1 /\ t[N + 1] = x
        /\ \A i \in 1 .. N : t[i] = s[i]
    BY AppendProperties
  <1>3. g[N + 1] = f[N] + x /\ \A i \in 0 .. N : g[i] = f[i]
    BY <1>2
  <1> HIDE DEF t, g
  <1>4. ASSUME NEW i \in 1 .. N + 1
        PROVE  g[i] = g[i - 1] + t[i]
    <2>1. CASE i = N + 1
      BY <1>2, <1>3, <2>1
    <2>2. CASE i # N + 1
      <3>1. i \in 1 .. N /\ i \in 0 .. N /\ i - 1 \in 0 .. N
        BY <1>2, <2>2
      <3> QED  BY <1>1, <1>2, <1>3, <3>1 DEF Totals
    <2> QED  BY <2>1, <2>2
  <1>5. Totals(g, t)
    BY <1>1, <1>2, <1>3, <1>4 DEF Totals
  <1>6. SumOf(t) = g[N + 1]
    BY <1>2, <1>5, SumIs
  <1> QED  BY <1>1, <1>3, <1>6 DEF t

LEMMA SumTail ==
  ASSUME NEW s \in Seq(Int), s # <<>>
  PROVE  SumOf(Tail(s)) = SumOf(s) - Head(s)
  <1> DEFINE t == Tail(s)
             N == Len(s)
  <1>1. /\ t \in Seq(Int) /\ Len(t) = N - 1 /\ N \in Nat \ {0} /\ Head(s) = s[1] /\ s[1] \in Int
        /\ \A i \in 1 .. N - 1 : t[i] = s[i + 1]
    BY HeadTailProperties, EmptySeq, ElementOfSeq
  <1> HIDE DEF t
  <1>2. PICK f \in [0 .. N - 1 -> Int] : Totals(f, t) /\ SumOf(t) = f[N - 1]
    BY <1>1, SumTotals
  <1> DEFINE g == [i \in 0 .. N |-> IF i = 0 THEN 0 ELSE s[1] + f[i - 1]]
  <1>3. g[0] = 0 /\ \A i \in 1 .. N : g[i] = s[1] + f[i - 1]
    BY <1>1
  <1> HIDE DEF g
  <1>4. ASSUME NEW i \in 1 .. N
        PROVE  g[i] = g[i - 1] + s[i]
    <2>1. CASE i = 1
      BY <1>1, <1>2, <1>3, <2>1 DEF Totals
    <2>2. CASE i # 1
      <3>1. i - 1 \in 1 .. N - 1 /\ i - 1 \in 1 .. N /\ (i - 1) + 1 = i
        BY <1>1, <2>2
      <3>2. f[i - 1] = f[(i - 1) - 1] + t[i - 1] /\ t[i - 1] = s[i]
        BY <1>1, <1>2, <3>1 DEF Totals
      <3>3. g[i] = s[1] + f[i - 1] /\ g[i - 1] = s[1] + f[(i - 1) - 1]
        BY <1>3, <3>1
      <3>4. f[(i - 1) - 1] \in Int /\ s[i] \in Int
        <4>1. (i - 1) - 1 \in 0 .. N - 1 /\ i \in 1 .. N
          BY <1>1, <3>1
        <4> QED  BY <1>2, <4>1, ElementOfSeq
      <3> QED  BY <1>1, <3>2, <3>3, <3>4
    <2> QED  BY <2>1, <2>2
  <1>5. SumOf(s) = g[N]
    BY <1>3, <1>4, SumIs DEF Totals
  <1>6. g[N] = s[1] + SumOf(t)
    BY <1>1, <1>2, <1>3
  <1>7. SumOf(t) \in Int
    BY <1>1, SumTotals
  <1> QED  BY <1>1, <1>5, <1>6, <1>7 DEF t
\* A factor of all terms is one of the sum.
LEMMA SumScaled ==
  ASSUME NEW s \in Seq(Int), NEW t \in Seq(Int), NEW k \in Int, Len(t) = Len(s),
         \A i \in 1 .. Len(s) : t[i] = k * s[i]
  PROVE  SumOf(t) = k * SumOf(s)
  <1> DEFINE N == Len(s)
  <1>1. PICK f \in [0 .. N -> Int] : Totals(f, s) /\ SumOf(s) = f[N]
    BY SumTotals
  <1>2. N \in Nat /\ \A i \in 1 .. N : s[i] \in Int
    BY ElementOfSeq
  <1> DEFINE g == [i \in 0 .. N |-> k * f[i]]
  <1>3. \A i \in 0 .. N : g[i] = k * f[i]
    OBVIOUS
  <1> HIDE DEF g
  <1>4. g[0] = 0
    BY <1>1, <1>2, <1>3 DEF Totals
  <1>5. ASSUME NEW i \in 1 .. N
        PROVE  g[i] = g[i - 1] + t[i]
    <2>1. i \in 0 .. N /\ i - 1 \in 0 .. N
      BY <1>2
    <2>2. f[i] = f[i - 1] + s[i] /\ f[i - 1] \in Int /\ s[i] \in Int
      BY <1>1, <1>2, <2>1 DEF Totals
    <2>3. k * (f[i - 1] + s[i]) = k * f[i - 1] + k * s[i]
      BY <2>2
    <2> QED  BY <1>3, <2>1, <2>2, <2>3
  <1>6. Totals(g, t)
    BY <1>4, <1>5 DEF Totals
  <1>7. SumOf(t) = g[N]
    BY <1>6, SumIs
  <1> QED  BY <1>1, <1>2, <1>3, <1>7

Powers(f, b, n) == f[0] = 1 /\ \A i \in 1 .. n : f[i] = b * f[i - 1]

LEMMA SamePowers ==
  ASSUME NEW b \in Int, NEW n \in Nat, NEW f, NEW g, Powers(f, b, n), Powers(g, b, n)
  PROVE  f[n] = g[n]
  <1> DEFINE C == [i \in 0 .. n |-> {g[i]}]
  <1>1. \A i \in 0 .. n : C[i] = {g[i]}
    OBVIOUS
  <1> HIDE DEF C
  <1>2. f[0] \in C[0]
    BY <1>1 DEF Powers
  <1>3. ASSUME NEW i \in 1 .. n, f[i - 1] \in C[i - 1]
        PROVE  f[i] \in C[i]
    <2>1. i - 1 \in 0 .. n /\ i \in 0 .. n
      OBVIOUS
    <2>2. f[i - 1] = g[i - 1]
      BY <1>1, <1>3, <2>1
    <2>3. f[i] = b * f[i - 1] /\ g[i] = b * g[i - 1]
      BY DEF Powers
    <2> QED  BY <1>1, <2>1, <2>2, <2>3
  <1>4. f[n] \in C[n]
    BY <1>2, <1>3, Stays
  <1> QED  BY <1>1, <1>4

LEMMA PowerPowers ==
  ASSUME NEW b \in Int, NEW n \in Nat
  PROVE  \E f \in [0 .. n -> Int] : Powers(f, b, n) /\ Power(b, n) = f[n]
  <1> DEFINE Unfolds(f) == f = [i \in 0 .. n |-> IF i = 0 THEN 1 ELSE b * f[i - 1]]
             step == [i \in 1 .. n |-> [a \in Int |-> b * a]]
             p == CHOOSE f : Unfolds(f)
  <1>1. step \in [1 .. n -> [Int -> Int]]
    OBVIOUS
  <1>2. \A a \in Int, i \in 1 .. n : step[i][a] = b * a
    OBVIOUS
  <1>3. Power(b, n) = p[n]
    BY DEF Power
  <1> HIDE DEF step
  <1>4. PICK f \in [0 .. n -> Int] : Unfolds(f)
    <2>1. PICK f \in [0 .. n -> Int] : Iterated(f, 1, n, step)
      <3> DEFINE Z == Int
                 one == 1
      <3>1. one \in Z /\ n \in Nat /\ step \in [1 .. n -> [Z -> Z]]
        BY <1>1
      <3> HIDE DEF one, Z
      <3>2. \E f \in [0 .. n -> Z] : Iterated(f, one, n, step)
        BY <3>1, Iterates
      <3> QED  BY <3>2 DEF one, Z
    <2>2. ASSUME NEW i \in 0 .. n
          PROVE  f[i] = IF i = 0 THEN 1 ELSE b * f[i - 1]
      <3>1. CASE i = 0
        BY <2>1, <3>1 DEF Iterated
      <3>2. CASE i # 0
        <4>1. i - 1 \in 0 .. n /\ i \in 1 .. n
          BY <2>2, <3>2
        <4> QED  BY <1>2, <2>1, <3>2, <4>1 DEF Iterated
      <3> QED  BY <3>1, <3>2
    <2> QED  BY <2>1, <2>2
  <1>5. Unfolds(p)
    <2> HIDE DEF Unfolds
    <2> QED  BY <1>4
  <1> HIDE DEF p
  <1>6. Powers(p, b, n) /\ Powers(f, b, n)
    BY <1>4, <1>5 DEF Powers
  <1>7. p[n] = f[n]
    <2> HIDE DEF Unfolds
    <2> QED  BY <1>6, SamePowers
  <1> QED  BY <1>3, <1>4, <1>6, <1>7

LEMMA PowerNext ==
  ASSUME NEW b \in Int, NEW n \in Nat
  PROVE  /\ Power(b, n) \in Int /\ Power(b, 0) = 1
         /\ Power(b, n + 1) = b * Power(b, n)
  <1>1. Power(b, n) \in Int
    BY PowerPowers
  <1>2. Power(b, 0) = 1
    <2>1. PICK f : Powers(f, b, 0) /\ Power(b, 0) = f[0]
      BY PowerPowers
    <2> QED  BY <2>1 DEF Powers
  <1>3. PICK f : Powers(f, b, n + 1) /\ Power(b, n + 1) = f[n + 1]
    <2>1. n + 1 \in Nat
      OBVIOUS
    <2> QED  BY <2>1, PowerPowers
  <1>4. Powers(f, b, n)
    BY <1>3 DEF Powers
  <1>5. Power(b, n) = f[n]
    <2>1. PICK g : Powers(g, b, n) /\ Power(b, n) = g[n]
      BY PowerPowers
    <2> QED  BY <1>4, <2>1, SamePowers
  <1>6. f[n + 1] = b * f[n]
    <2>1. n + 1 \in 1 .. n + 1 /\ (n + 1) - 1 = n
      OBVIOUS
    <2> QED  BY <1>3, <2>1 DEF Powers
  <1> QED  BY <1>1, <1>2, <1>3, <1>5, <1>6
-------------------------------------------------------------------------------
(* StrategyService's averages *)

LEMMA LastOfNext ==
  ASSUME NEW S, NEW s \in Seq(S), NEW x \in S, NEW n \in Nat \ {0}
  PROVE  LET l == LastOf(s, n)
         IN  LastOf(Append(s, x), n) = Append(IF Len(l) = n THEN Tail(l) ELSE l, x)
  <1> DEFINE l == LastOf(s, n)
             u == Append(s, x)
             r == IF Len(l) = n THEN Tail(l) ELSE l
             m == LastOf(u, n)
             v == Append(r, x)
  <1>1. /\ l \in Seq(S) /\ Len(l) = IF Len(s) > n THEN n ELSE Len(s)
        /\ \A i \in 1 .. Len(l) : l[i] = s[Len(s) - Len(l) + i]
    BY LastOfFacts DEF EndOf
  <1>2. /\ u \in Seq(S) /\ Len(u) = Len(s) + 1 /\ u[Len(s) + 1] = x
        /\ \A i \in 1 .. Len(s) : u[i] = s[i]
    BY AppendProperties
  <1> HIDE DEF l, u
  <1>3. /\ m \in Seq(S) /\ Len(m) = IF Len(u) > n THEN n ELSE Len(u)
        /\ \A i \in 1 .. Len(m) : m[i] = u[Len(u) - Len(m) + i]
    BY <1>2, LastOfFacts DEF EndOf
  <1>4. Len(s) \in Nat /\ Len(l) \in Nat
    BY <1>1, LenProperties
  <1>5. /\ r \in Seq(S) /\ Len(r) = IF Len(l) = n THEN n - 1 ELSE Len(l)
        /\ \A i \in 1 .. Len(r) : r[i] = l[Len(l) - Len(r) + i]
    <2>1. CASE Len(l) = n
      <3>1. l # <<>>
        BY <2>1, EmptySeq
      <3>2. /\ r \in Seq(S) /\ Len(r) = Len(l) - 1
            /\ \A i \in 1 .. Len(r) : r[i] = l[i + 1]
        BY <1>1, <2>1, <3>1, HeadTailProperties
      <3> HIDE DEF r
      <3> QED  BY <1>4, <2>1, <3>2
    <2>2. CASE Len(l) # n
      <3>1. r = l
        BY <2>2
      <3> HIDE DEF r
      <3> QED  BY <1>1, <1>4, <2>2, <3>1
    <2> QED  BY <2>1, <2>2
  <1> HIDE DEF r, m
  <1>6. /\ v \in Seq(S) /\ Len(v) = Len(r) + 1 /\ v[Len(r) + 1] = x
        /\ \A i \in 1 .. Len(r) : v[i] = r[i]
    BY <1>5, AppendProperties
  <1> HIDE DEF v
  <1>7. Len(r) \in Nat /\ Len(v) = Len(m) /\ Len(m) <= Len(u)
    BY <1>1, <1>2, <1>3, <1>4, <1>5, <1>6
  <1>8. ASSUME NEW i \in 1 .. Len(v)
        PROVE  v[i] = m[i]
    <2>1. /\ i \in 1 .. Len(r) + 1 /\ Len(u) = Len(s) + 1 /\ Len(m) = Len(r) + 1
          /\ Len(r) \in Nat /\ Len(l) \in Nat /\ Len(s) \in Nat
          /\ Len(r) <= Len(l) /\ Len(l) <= Len(s) /\ Len(r) <= Len(s)
      BY <1>1, <1>2, <1>4, <1>5, <1>6, <1>7
    <2>2. CASE i = Len(r) + 1
      <3>1. i \in 1 .. Len(m) /\ Len(u) - Len(m) + i = Len(u)
        BY <2>1, <2>2
      <3>2. m[i] = u[Len(u)]
        BY <1>3, <3>1
      <3> QED  BY <1>2, <1>6, <2>2, <3>2
    <2>3. CASE i # Len(r) + 1
      <3>1. i \in 1 .. Len(r) /\ i \in 1 .. Len(m) /\ Len(l) - Len(r) + i \in 1 .. Len(l)
        BY <2>1, <2>3
      <3>2. v[i] = s[Len(s) - Len(l) + (Len(l) - Len(r) + i)]
        BY <1>1, <1>5, <1>6, <3>1
      <3>3. /\ Len(s) - Len(l) + (Len(l) - Len(r) + i) = Len(s) - Len(r) + i
            /\ Len(u) - Len(m) + i = Len(s) - Len(r) + i
            /\ Len(s) - Len(r) + i \in 1 .. Len(s)
        BY <2>1, <3>1
      <3> QED  BY <1>2, <1>3, <3>1, <3>2, <3>3
    <2> QED  BY <2>2, <2>3
  <1>9. v = m
    BY <1>3, <1>6, <1>7, <1>8, SeqEqual
  <1> QED  BY <1>9 DEF v, m, r, u, l

\* The first close is the average; another one weighs it down by (Slow - 1).
LEMMA EmaFirst ==
  ASSUME NEW c \in Int
  PROVE  EmaScaled(<<c>>) = c
  <1> DEFINE t == [i \in 1 .. 1 - 1 |->
                     2 * <<c>>[i + 1] * Power(Slow - 1, 1 - 1 - i) * Power(Slow + 1, i - 1)]
  <1>1. t \in Seq(Int) /\ Len(t) = 0
    OBVIOUS
  <1> HIDE DEF t
  <1>2. Totals([i \in 0 .. 0 |-> 0], t)
    BY <1>1 DEF Totals
  <1>3. SumOf(t) = 0
    BY <1>1, <1>2, SumIs
  <1>4. Slow - 1 \in Int /\ Power(Slow - 1, 0) = 1
    BY PeriodAssumption, PowerNext
  <1>5. EmaScaled(<<c>>) = c * Power(Slow - 1, 1 - 1) + SumOf(t)
    BY DEF EmaScaled, t
  <1> QED  BY <1>3, <1>4, <1>5

LEMMA EmaNext ==
  ASSUME NEW s \in Seq(Int), s # <<>>, NEW c \in Int
  PROVE  /\ EmaScaled(s) \in Int
         /\ EmaScaled(Append(s, c))
              = 2 * c * Power(Slow + 1, Len(s) - 1) + (Slow - 1) * EmaScaled(s)
  <1> DEFINE n == Len(s)
             a == Slow - 1
             b == Slow + 1
             u == Append(s, c)
             t == [i \in 1 .. n - 1 |-> 2 * s[i + 1] * Power(a, n - 1 - i) * Power(b, i - 1)]
             w == [i \in 1 .. n |-> 2 * u[i + 1] * Power(a, n - i) * Power(b, i - 1)]
             v == [i \in 1 .. n - 1 |-> a * t[i]]
             x == 2 * c * Power(b, n - 1)
  <1>1. n \in Nat \ {0} /\ n - 1 \in Nat /\ a \in Int /\ b \in Int
    BY PeriodAssumption, EmptySeq
  <1>2. /\ u \in Seq(Int) /\ Len(u) = n + 1 /\ u[n + 1] = c
        /\ \A i \in 1 .. n : u[i] = s[i] /\ s[i] \in Int
    BY AppendProperties, ElementOfSeq
  <1>3. EmaScaled(s) = s[1] * Power(a, n - 1) + SumOf(t)
    BY DEF EmaScaled
  <1>4. EmaScaled(u) = u[1] * Power(a, n) + SumOf(w)
    <2>1. Len(u) - 1 = n
      BY <1>1, <1>2
    <2> HIDE DEF u, n
    <2> QED  BY <2>1 DEF EmaScaled
  <1> HIDE DEF n, a, b, u
  <1>5. \A k \in Nat : Power(a, k) \in Int /\ Power(b, k) \in Int
    BY <1>1, PowerNext
  <1>6. \A i \in 1 .. n - 1 : n - 1 - i \in Nat /\ i - 1 \in Nat /\ i \in 1 .. n /\ i + 1 \in 1 .. n
    BY <1>1
  <1>7. \A i \in 1 .. n - 1 : t[i] = 2 * s[i + 1] * Power(a, n - 1 - i) * Power(b, i - 1)
    OBVIOUS
  <1>8. t \in Seq(Int) /\ Len(t) = n - 1
    <2>1. ASSUME NEW i \in 1 .. n - 1
          PROVE  2 * s[i + 1] * Power(a, n - 1 - i) * Power(b, i - 1) \in Int
      <3> DEFINE p == Power(a, n - 1 - i)
                 q == Power(b, i - 1)
                 y == s[i + 1]
      <3>1. p \in Int /\ q \in Int /\ y \in Int
        BY <1>2, <1>5, <1>6
      <3> HIDE DEF p, q, y
      <3>2. 2 * y * p * q \in Int
        BY <3>1
      <3> QED  BY <3>2 DEF p, q, y
    <2> QED  BY <1>1, <2>1
  <1>9. v \in Seq(Int) /\ Len(v) = n - 1 /\ \A i \in 1 .. n - 1 : v[i] = a * t[i]
    <2>1. ASSUME NEW i \in 1 .. n - 1
          PROVE  a * t[i] \in Int
      <3>1. t[i] \in Int
        BY <1>8, ElementOfSeq
      <3> HIDE DEF t
      <3> QED  BY <1>1, <3>1
    <2> HIDE DEF t
    <2> QED  BY <1>1, <2>1
  <1> HIDE DEF t, v
  <1>10. SumOf(v) = a * SumOf(t)
    <2>1. a \in Int /\ Len(v) = Len(t) /\ \A i \in 1 .. Len(t) : v[i] = a * t[i]
      BY <1>1, <1>8, <1>9
    <2> QED  BY <1>8, <1>9, <2>1, SumScaled
  <1>11. x \in Int
    BY <1>1, <1>5
  <1>12. w = Append(v, x)
    <2>1. ASSUME NEW i \in 1 .. n
          PROVE  2 * u[i + 1] * Power(a, n - i) * Power(b, i - 1)
                   = IF i = n THEN x ELSE v[i]
      <3>1. CASE i = n
        <4>1. n - i = 0 /\ i + 1 = n + 1 /\ i - 1 = n - 1 /\ Power(a, 0) = 1
          BY <1>1, <3>1, PowerNext
        <4>2. Power(b, n - 1) \in Int
          BY <1>1, <1>5
        <4> QED  BY <1>2, <3>1, <4>1, <4>2
      <3>2. CASE i # n
        <4>1. i \in 1 .. n - 1
          BY <1>1, <3>2
        <4> DEFINE k == n - 1 - i
        <4>2. k \in Nat /\ n - i = k + 1 /\ i - 1 \in Nat /\ i + 1 \in 1 .. n
          BY <1>1, <4>1
        <4> HIDE DEF k
        <4>3. Power(a, n - i) = a * Power(a, k)
          BY <1>1, <4>2, PowerNext
        <4>4. v[i] = a * (2 * s[i + 1] * Power(a, k) * Power(b, i - 1))
          BY <1>7, <1>9, <4>1 DEF k
        <4> DEFINE p == Power(a, k)
                   q == Power(b, i - 1)
                   y == s[i + 1]
        <4>5. p \in Int /\ q \in Int /\ y \in Int /\ u[i + 1] = y
          BY <1>2, <1>5, <4>2
        <4> HIDE DEF p, q, y
        <4>6. 2 * y * (a * p) * q = a * (2 * y * p * q)
          BY <1>1, <4>5
        <4> QED  BY <3>2, <4>3, <4>4, <4>5, <4>6 DEF p, q, y
      <3> QED  BY <3>1, <3>2
    <2>2. /\ Append(v, x) \in Seq(Int) /\ Len(Append(v, x)) = n
          /\ \A i \in 1 .. n : Append(v, x)[i] = IF i = n THEN x ELSE v[i]
      <3> HIDE DEF x
      <3> QED  BY <1>1, <1>9, <1>11
    <2> HIDE DEF x
    <2>3. w \in Seq(Int) /\ Len(w) = n /\ \A i \in 1 .. n : w[i] = IF i = n THEN x ELSE v[i]
      <3>1. \A i \in 1 .. n : v[i] \in Int \/ i = n
        BY <1>1, <1>9, ElementOfSeq
      <3>2. \A i \in 1 .. n : 2 * u[i + 1] * Power(a, n - i) * Power(b, i - 1) \in Int
        BY <1>11, <2>1, <3>1
      <3>3. w \in Seq(Int) /\ Len(w) = n
        BY <1>1, <3>2
      <3>4. \A i \in 1 .. n : w[i] = 2 * u[i + 1] * Power(a, n - i) * Power(b, i - 1)
        OBVIOUS
      <3> HIDE DEF w
      <3> QED  BY <2>1, <3>3, <3>4
    <2> HIDE DEF w
    <2> QED  BY <2>2, <2>3, SeqEqual
  <1>13. SumOf(w) = SumOf(v) + x
    <2> HIDE DEF x, w
    <2> QED  BY <1>9, <1>11, <1>12, SumAppend
  <1>14. u[1] = s[1] /\ s[1] \in Int /\ SumOf(t) \in Int
    BY <1>1, <1>2, <1>8, SumTotals
  <1>15. Power(a, n) = a * Power(a, n - 1)
    <2>1. (n - 1) + 1 = n
      BY <1>1
    <2> QED  BY <1>1, <2>1, PowerNext
  <1>16. EmaScaled(s) \in Int
    BY <1>1, <1>3, <1>5, <1>14
  <1>17. EmaScaled(u) = x + a * EmaScaled(s)
    <2> DEFINE p == Power(a, n - 1)
               y == SumOf(t)
               z == s[1]
    <2>1. p \in Int /\ y \in Int /\ z \in Int
      BY <1>1, <1>5, <1>14
    <2>2. EmaScaled(u) = z * (a * p) + (a * y + x) /\ EmaScaled(s) = z * p + y
      <3> HIDE DEF x, w
      <3> QED  BY <1>3, <1>4, <1>10, <1>13, <1>14, <1>15
    <2> HIDE DEF p, y, z, x
    <2>3. z * (a * p) + (a * y + x) = x + a * (z * p + y)
      BY <1>1, <1>11, <2>1
    <2> QED  BY <2>2, <2>3
  <1> QED  BY <1>16, <1>17 DEF u, a, b, n
\* The rolling state of a symbol.
State == {st \in [closes : Seq(Int), sum : Int, num : Int, den : Nat \ {0}, count : Nat,
                  rel : Relation] : Len(st.closes) <= Fast}

\* The rolling values are those of the definitions over all of these closes.
Exact(st, s) ==
    /\ st.count = Len(s)
    /\ st.closes = LastOf(s, Fast) /\ st.sum = SumOf(st.closes)
    /\ s # <<>> => st.den = Power(Slow + 1, Len(s) - 1) /\ st.num = EmaScaled(s)
    /\ st.rel = RelationOf(s)

LEMMA CompareSides == \A x, y : Compare(x, y) \in {-1, 0, 1}
  BY Zenon DEF Compare

LEMMA Products == \A x, y \in Nat \ {0} : x * y \in Nat \ {0}
  OBVIOUS

LEMMA FreshExact == Fresh \in State /\ Exact(Fresh, <<>>)
  <1>1. Fast \in Nat \ {0} /\ Slow \in Nat \ {0}
    BY PeriodAssumption
  <1>2. <<>> \in Seq(Int) /\ Len(<<>>) = 0
    BY EmptySeq
  <1>3. Fresh \in State
    BY <1>1, <1>2 DEF Fresh, State, Relation, NoRelation
  <1>4. LastOf(<<>>, Fast) = <<>>
    <2> DEFINE e == <<>>
    <2>1. e \in Seq(Int) /\ Len(e) = 0
      BY <1>2
    <2> HIDE DEF e
    <2>2. LastOf(e, Fast) \in Seq(Int) /\ Len(LastOf(e, Fast)) = 0
      <3>1. /\ LastOf(e, Fast) \in Seq(Int)
            /\ Len(LastOf(e, Fast)) = IF Len(e) > Fast THEN Fast ELSE Len(e)
        BY <1>1, <2>1, LastOfFacts
      <3> QED  BY <1>1, <2>1, <3>1
    <2>3. LastOf(e, Fast) = <<>>
      BY <2>2, EmptySeq
    <2> QED  BY <2>3 DEF e
  <1>5. SumOf(<<>>) = 0
    <2>1. Totals([i \in 0 .. 0 |-> 0], <<>>)
      BY <1>2 DEF Totals
    <2> QED  BY <1>2, <2>1, SumIs
  <1>6. RelationOf(<<>>) = NoRelation
    BY <1>1, <1>2 DEF RelationOf
  <1> QED  BY <1>2, <1>3, <1>4, <1>5, <1>6 DEF Fresh, Exact

\* _calculate goes on from exact values to exact values.
LEMMA CalculateExact ==
  ASSUME NEW st \in State, NEW p \in Int
  PROVE  /\ Calculate(st, p) \in State
         /\ \A s \in Seq(Int) : Exact(st, s) => Exact(Calculate(st, p), Append(s, p))
  <1> DEFINE full == Len(st.closes) = Fast
             kept == IF full THEN Tail(st.closes) ELSE st.closes
             closes == Append(kept, p)
             sum == st.sum + p - Leaving(st)
             num == IF st.count = 0 THEN p ELSE 2 * p * st.den + (Slow - 1) * st.num
             den == IF st.count = 0 THEN 1 ELSE (Slow + 1) * st.den
             ready == st.count + 1 >= Slow /\ Len(closes) = Fast
             rel == IF ready THEN Compare(sum * den, Fast * num) ELSE st.rel
             next == Calculate(st, p)
  <1>1. next = [closes |-> closes, sum |-> sum, num |-> num, den |-> den,
                count |-> st.count + 1, rel |-> rel]
    BY DEF Calculate
  <1>2. /\ st.closes \in Seq(Int) /\ st.sum \in Int /\ st.num \in Int /\ st.den \in Nat \ {0}
        /\ st.count \in Nat /\ st.rel \in Relation /\ Len(st.closes) <= Fast
    BY DEF State
  <1>3. Fast \in Nat \ {0} /\ Slow \in Nat \ {0} /\ Slow - 1 \in Int /\ Slow + 1 \in Nat \ {0}
    BY PeriodAssumption
  <1>4. /\ next.closes = closes /\ next.sum = sum /\ next.num = num /\ next.den = den
        /\ next.count = st.count + 1 /\ next.rel = rel
    <2> HIDE DEF closes, sum, num, den, rel
    <2> QED  BY <1>1
  <1>5. full => st.closes # <<>>
    BY <1>3, EmptySeq
  <1>6. kept \in Seq(Int) /\ Len(kept) = IF full THEN Len(st.closes) - 1 ELSE Len(st.closes)
    BY <1>2, <1>5, HeadTailProperties
  <1>7. closes \in Seq(Int) /\ Len(closes) = Len(kept) + 1 /\ Len(closes) <= Fast
    <2>1. Len(kept) < Fast
      BY <1>2, <1>3, <1>6
    <2> HIDE DEF kept
    <2> QED  BY <1>3, <1>6, <2>1
  <1>8. Leaving(st) = IF full THEN Head(st.closes) ELSE 0
    BY DEF Leaving
  <1>9. sum \in Int
    BY <1>2, <1>5, <1>8, HeadTailProperties
  <1>10. num \in Int /\ den \in Nat \ {0}
    <2>1. /\ 2 * p * st.den \in Int /\ (Slow - 1) * st.num \in Int
          /\ (Slow + 1) * st.den \in Nat \ {0}
      BY <1>2, <1>3, Products
    <2> QED  BY <2>1
  <1>11. rel \in Relation
    BY <1>2, CompareSides DEF Relation
  <1>12. next \in State
    <2> HIDE DEF closes, sum, num, den, rel, next
    <2>1. next \in [closes : Seq(Int), sum : Int, num : Int, den : Nat \ {0}, count : Nat,
                     rel : Relation]
      <3>1. st.count + 1 \in Nat
        BY <1>2
      <3> QED  BY <1>1, <1>7, <1>9, <1>10, <1>11, <3>1
    <2> QED  BY <1>4, <1>7, <2>1 DEF State
  <1>13. ASSUME NEW s \in Seq(Int), Exact(st, s)
         PROVE  Exact(next, Append(s, p))
    <2> DEFINE u == Append(s, p)
               n == Len(s)
    <2>1. n \in Nat /\ u \in Seq(Int) /\ Len(u) = n + 1 /\ u # <<>> /\ (s = <<>> <=> n = 0)
      BY EmptySeq
    <2>2. /\ st.count = n /\ st.closes = LastOf(s, Fast) /\ st.sum = SumOf(st.closes)
          /\ s # <<>> => st.den = Power(Slow + 1, n - 1) /\ st.num = EmaScaled(s)
          /\ st.rel = RelationOf(s)
      BY <1>13 DEF Exact
    <2>3. closes = LastOf(u, Fast)
      <3> HIDE DEF closes
      <3>1. LastOf(u, Fast)
              = Append(IF Len(LastOf(s, Fast)) = Fast THEN Tail(LastOf(s, Fast))
                       ELSE LastOf(s, Fast), p)
        BY <1>3, LastOfNext
      <3> QED  BY <2>2, <3>1 DEF closes
    <2>4. sum = SumOf(closes)
      <3>1. SumOf(closes) = SumOf(kept) + p
        <4> HIDE DEF kept
        <4> QED  BY <1>6, SumAppend
      <3>2. SumOf(kept) = st.sum - Leaving(st)
        <4>1. CASE full
          BY <1>2, <1>5, <1>8, <2>2, <4>1, SumTail
        <4>2. CASE ~full
          BY <1>2, <1>8, <2>2, <4>2
        <4> QED  BY <4>1, <4>2
      <3>3. Leaving(st) \in Int
        BY <1>2, <1>5, <1>8, HeadTailProperties
      <3> HIDE DEF closes, kept
      <3> QED  BY <1>2, <3>1, <3>2, <3>3
    <2>5. den = Power(Slow + 1, n) /\ num = EmaScaled(u)
      <3>1. CASE s = <<>>
        <4>1. Append(<<>>, p) = <<p>>
          OBVIOUS
        <4>2. n = 0 /\ st.count = 0 /\ u = <<p>>
          BY <2>1, <2>2, <3>1, <4>1
        <4>3. Power(Slow + 1, 0) = 1 /\ EmaScaled(<<p>>) = p
          <5>1. Slow + 1 \in Int /\ 0 \in Nat
            BY <1>3
          <5> QED  BY <5>1, PowerNext, EmaFirst
        <4> HIDE DEF n, u
        <4> QED  BY <4>2, <4>3
      <3>2. CASE s # <<>>
        <4>1. n - 1 \in Nat /\ (n - 1) + 1 = n /\ st.count # 0
          BY <2>1, <2>2, <3>2
        <4>2. Power(Slow + 1, n) = (Slow + 1) * Power(Slow + 1, n - 1)
          BY <1>3, <4>1, PowerNext
        <4>3. EmaScaled(u) = 2 * p * Power(Slow + 1, n - 1) + (Slow - 1) * EmaScaled(s)
          BY <3>2, EmaNext
        <4> HIDE DEF n, u
        <4> QED  BY <2>2, <3>2, <4>1, <4>2, <4>3
      <3> QED  BY <3>1, <3>2
    <2>6. rel = RelationOf(u)
      <3> HIDE DEF sum, num, den, closes, u
      <3>1. RelationOf(u) = IF n + 1 < Slow \/ n + 1 < Fast THEN NoRelation
                            ELSE Compare(
                              SumOf(SubSeq(u, (n + 1) - Fast + 1, n + 1)) * Power(Slow + 1, n),
                              Fast * EmaScaled(u))
        <4>1. (n + 1) - 1 = n
          BY <2>1
        <4> QED  BY <2>1, <4>1 DEF RelationOf
      <3>2. Len(closes) = IF n + 1 > Fast THEN Fast ELSE n + 1
        BY <1>3, <2>1, <2>3, LastOfFacts
      <3>3. CASE n + 1 < Slow \/ n + 1 < Fast
        <4>1. ~ready
          BY <1>3, <2>1, <2>2, <3>2, <3>3
        <4>2. RelationOf(s) = NoRelation
          <5>1. n < Slow \/ n < Fast
            BY <1>3, <2>1, <3>3
          <5> QED  BY <5>1 DEF RelationOf
        <4> QED  BY <2>2, <3>1, <3>3, <4>1, <4>2
      <3>4. CASE ~(n + 1 < Slow \/ n + 1 < Fast)
        <4>1. ready
          BY <1>3, <2>1, <2>2, <3>2, <3>4
        <4>2. closes = SubSeq(u, (n + 1) - Fast + 1, n + 1)
          <5>1. (IF Len(u) > Fast THEN Len(u) - Fast + 1 ELSE 1) = (n + 1) - Fast + 1
            BY <1>3, <2>1, <3>4
          <5> HIDE DEF n
          <5> QED  BY <2>1, <2>3, <5>1 DEF LastOf
        <4> QED  BY <2>4, <2>5, <3>1, <3>4, <4>1, <4>2
      <3> QED  BY <3>3, <3>4
    <2> HIDE DEF next, closes, sum, num, den, rel, u
    <2>7. Len(u) - 1 = n
      BY <2>1
    <2> QED  BY <1>4, <2>1, <2>2, <2>3, <2>4, <2>5, <2>6, <2>7 DEF Exact, u
  <1> QED  BY <1>12, <1>13
-------------------------------------------------------------------------------
(* Candles on their way to the strategy *)

LEMMA CandleTypes ==
  ASSUME NEW c \in Candle
  PROVE  /\ c.min \in Minutes /\ c.min \in Nat /\ c.close \in Prices /\ c.close \in Int
         /\ c.kind \in Kinds
  <1>1. c.min \in Minutes /\ c.close \in Prices /\ c.kind \in Kinds
    BY DEF Candle
  <1>2. c.close \in Int
    <2>1. Prices \subseteq Int
      BY PipelineAssumption
    <2> QED  BY <1>1, <2>1
  <1>3. c.min \in Nat
    BY <1>1, PipelineAssumption DEF Minutes
  <1> QED  BY <1>1, <1>2, <1>3

LEMMA ClosesFacts ==
  ASSUME NEW s \in Seq(Candle)
  PROVE  /\ Closes(s) \in Seq(Int) /\ Len(Closes(s)) = Len(s)
         /\ \A i \in 1 .. Len(s) : Closes(s)[i] = s[i].close
  <1>1. \A i \in 1 .. Len(s) : s[i].close \in Int
    BY ElementOfSeq, CandleTypes
  <1> QED  BY <1>1, LenProperties DEF Closes

LEMMA ClosesAppend ==
  ASSUME NEW s \in Seq(Candle), NEW c \in Candle
  PROVE  c.close \in Int /\ Closes(Append(s, c)) = Append(Closes(s), c.close)
  <1> DEFINE u == Append(s, c)
             v == Append(Closes(s), c.close)
             n == Len(s)
  <1>1. c.close \in Int
    BY CandleTypes
  <1>2. /\ u \in Seq(Candle) /\ Len(u) = n + 1 /\ u[n + 1] = c /\ n \in Nat
        /\ \A i \in 1 .. n : u[i] = s[i]
    BY AppendProperties, LenProperties
  <1>3. /\ v \in Seq(Int) /\ Len(v) = n + 1 /\ v[n + 1] = c.close
        /\ \A i \in 1 .. n : v[i] = s[i].close
    BY <1>1, ClosesFacts, AppendProperties
  <1> HIDE DEF u, v, n
  <1>4. /\ Closes(u) \in Seq(Int) /\ Len(Closes(u)) = n + 1
        /\ \A i \in 1 .. n + 1 : Closes(u)[i] = u[i].close
    BY <1>2, ClosesFacts
  <1>5. ASSUME NEW i \in 1 .. n + 1
        PROVE  Closes(u)[i] = v[i]
    <2>1. CASE i = n + 1
      BY <1>2, <1>3, <1>4, <2>1
    <2>2. CASE i # n + 1
      <3>1. i \in 1 .. n
        BY <1>2, <2>2
      <3> QED  BY <1>2, <1>3, <1>4, <3>1
    <2> QED  BY <2>1, <2>2
  <1>6. Closes(u) = v
    BY <1>3, <1>4, <1>5, SeqEqual
  <1> QED  BY <1>1, <1>6 DEF u, v

\* A signal names the new side; without one a side is the old one.
LEMMA CrossingSides ==
  ASSUME NEW previous \in Relation, NEW rel \in Relation
  PROVE  /\ Crossing(previous, rel) \in {-1, 0, 1}
         /\ previous = NoRelation => Crossing(previous, rel) = 0
         /\ Crossing(previous, rel) # 0 => rel = Crossing(previous, rel)
         /\ Crossing(previous, rel) = 0 /\ previous # NoRelation /\ rel \in {-1, 1}
              => previous = rel
  <1> DEFINE none == previous = NoRelation
             buy == previous \in {-1, 0} /\ rel = 1
             leave == previous \in {0, 1} /\ rel = -1
  <1>1. Crossing(previous, rel) = CASE none -> 0 [] buy -> 1 [] leave -> -1 [] OTHER -> 0
    BY DEF Crossing
  <1>2. ~(none /\ buy) /\ ~(none /\ leave) /\ ~(buy /\ leave)
    BY DEF Relation, NoRelation
  <1>3. (buy => rel = 1) /\ (leave => rel = -1)
    BY DEF Relation, NoRelation
  <1>4. ~none /\ ~buy /\ ~leave /\ rel \in {-1, 1} => previous = rel
    BY DEF Relation, NoRelation
  <1>5. 1 # 0 /\ -1 # 0
    OBVIOUS
  <1> HIDE DEF none, buy, leave
  <1>6. /\ none => Crossing(previous, rel) = 0
        /\ buy => Crossing(previous, rel) = 1
        /\ leave => Crossing(previous, rel) = -1
        /\ ~none /\ ~buy /\ ~leave => Crossing(previous, rel) = 0
    BY <1>1, <1>2, Zenon
  <1> QED  BY <1>2, <1>3, <1>4, <1>5, <1>6 DEF none

\* What is carried along the closed candles: a comparison stays one, and its side
\* is that of the last signal, or of the first comparison.
Carried ==
    {a \in [strat : State, told : {-1, 0, 1}, found : {-1, 0, 1}, crossed : SUBSET Kinds] :
        /\ a.strat.rel \in {-1, 1} => a.strat.rel = IF a.told # 0 THEN a.told ELSE a.found
        /\ a.strat.rel = NoRelation => a.told = 0 /\ a.found = 0}

\* The averages, once there, are there after every further close.
LEMMA RelationStays ==
  ASSUME NEW st \in State, NEW p \in Int, st.rel # NoRelation
  PROVE  Calculate(st, p).rel # NoRelation
  <1>1. ASSUME NEW x, NEW y
        PROVE  Compare(x, y) # NoRelation
    BY DEF Compare, NoRelation
  <1> QED  BY <1>1 DEF Calculate

LEMMA EvaluateExact ==
  ASSUME NEW a \in Carried, NEW c \in Candle
  PROVE  /\ Evaluate(a, c) \in Carried
         /\ \A s \in Seq(Candle) : Exact(a.strat, Closes(s))
                                     => Exact(Evaluate(a, c).strat, Closes(Append(s, c)))
  <1> DEFINE next == Calculate(a.strat, c.close)
             action == Crossing(a.strat.rel, next.rel)
             tell == IF action # 0 THEN action ELSE a.told
             side == IF a.strat.rel = NoRelation THEN Known(next.rel) ELSE a.found
             marks == a.crossed \cup (IF action = 0 THEN {} ELSE {c.kind})
  <1>1. /\ a.strat \in State /\ a.told \in {-1, 0, 1} /\ a.found \in {-1, 0, 1}
        /\ a.crossed \subseteq Kinds
        /\ a.strat.rel \in {-1, 1} => a.strat.rel = IF a.told # 0 THEN a.told ELSE a.found
        /\ a.strat.rel = NoRelation => a.told = 0 /\ a.found = 0
    BY DEF Carried
  <1>2. c.close \in Int /\ c.kind \in Kinds
    BY CandleTypes
  <1>3. /\ next \in State
        /\ \A s \in Seq(Int) : Exact(a.strat, s) => Exact(next, Append(s, c.close))
    BY <1>1, <1>2, CalculateExact
  <1>4. a.strat.rel \in Relation /\ next.rel \in Relation
    BY <1>1, <1>3 DEF State
  <1>5. Evaluate(a, c) = [strat |-> next, told |-> tell, found |-> side, crossed |-> marks]
    BY DEF Evaluate
  <1>6. a.strat.rel # NoRelation => next.rel # NoRelation
    BY <1>1, <1>2, RelationStays
  <1> HIDE DEF next
  <1>7. /\ action \in {-1, 0, 1} /\ (action # 0 => next.rel = action)
        /\ a.strat.rel = NoRelation => action = 0
        /\ action = 0 /\ a.strat.rel # NoRelation /\ next.rel \in {-1, 1} => a.strat.rel = next.rel
    BY <1>4, CrossingSides
  <1> HIDE DEF action
  <1>8. tell \in {-1, 0, 1} /\ (action # 0 => tell = action) /\ (action = 0 => tell = a.told)
    BY <1>1, <1>7
  <1>9. /\ side \in {-1, 0, 1}
        /\ a.strat.rel = NoRelation => side = Known(next.rel)
        /\ a.strat.rel # NoRelation => side = a.found
    BY <1>1, <1>4 DEF Known, Relation
  <1> HIDE DEF tell, side
  <1>10. next.rel \in {-1, 1} => next.rel = IF tell # 0 THEN tell ELSE side
    <2>1. CASE a.strat.rel = NoRelation
      BY <1>1, <1>7, <1>8, <1>9, <2>1 DEF Known, NoRelation
    <2>2. CASE a.strat.rel # NoRelation
      BY <1>1, <1>7, <1>8, <1>9, <2>2
    <2> QED  BY <2>1, <2>2
  <1>11. next.rel = NoRelation => tell = 0 /\ side = 0
    BY <1>1, <1>6, <1>7, <1>8, <1>9 DEF Known
  <1>12. marks \subseteq Kinds
    BY <1>1, <1>2
  <1> HIDE DEF marks
  <1>13. Evaluate(a, c) \in Carried /\ Evaluate(a, c).strat = next
    BY <1>3, <1>5, <1>8, <1>9, <1>10, <1>11, <1>12 DEF Carried
  <1>14. ASSUME NEW s \in Seq(Candle), Exact(a.strat, Closes(s))
         PROVE  Exact(next, Closes(Append(s, c)))
    <2>1. Closes(s) \in Seq(Int) /\ Closes(Append(s, c)) = Append(Closes(s), c.close)
      BY ClosesFacts, ClosesAppend
    <2> QED  BY <1>3, <1>14, <2>1
  <1> QED  BY <1>13, <1>14

LEMMA UptoNext ==
  ASSUME NEW S, NEW s \in Seq(S), NEW t \in Seq(S), NEW i \in 1 .. Len(t)
  PROVE  /\ s \o SubSeq(t, 1, i - 1) \in Seq(S)
         /\ s \o SubSeq(t, 1, i) = Append(s \o SubSeq(t, 1, i - 1), t[i])
  <1>1. t[i] \in S /\ Len(t) \in Nat /\ 1 \in 1 .. Len(t) /\ i \in 1 .. Len(t)
    BY ElementOfSeq, LenProperties
  <1>2. SubSeq(t, 1, i) = SubSeq(t, 1, i - 1) \o <<t[i]>>
    BY <1>1, SubSeqRecursiveSecond
  <1>3. SubSeq(t, 1, i - 1) \in Seq(S)
    <2>1. i - 1 \in Int /\ \A j \in 1 .. i - 1 : t[j] \in S
      BY <1>1, ElementOfSeq
    <2> QED  BY <2>1, SubSeqProperties
  <1> DEFINE r == SubSeq(t, 1, i - 1)
  <1>4. s \o r \in Seq(S)
    BY <1>3, ConcatProperties
  <1>5. <<t[i]>> \in Seq(S)
    BY <1>1
  <1>6. s \o (r \o <<t[i]>>) = (s \o r) \o <<t[i]>>
    <2> HIDE DEF r
    <2> QED  BY <1>3, <1>5, ConcatAssociative DEF r
  <1>7. Append(s \o r, t[i]) = (s \o r) \o <<t[i]>>
    <2> HIDE DEF r
    <2> QED  BY <1>1, <1>4, AppendIsConcat
  <1> QED  BY <1>2, <1>4, <1>6, <1>7

\* Closed candles reach the strategy, whose values stay exact.
LEMMA DeliverExact ==
  ASSUME fed \in Seq(Candle), strat \in State, told \in {-1, 0, 1} /\ found \in {-1, 0, 1}, TrendTold,
         Exact(strat, Closes(fed)), NEW cs \in Seq(Candle), Deliver(cs)
  PROVE  /\ fed' = fed \o cs /\ fed' \in Seq(Candle)
         /\ strat' \in State /\ told' \in {-1, 0, 1} /\ found' \in {-1, 0, 1} /\ crossed' \subseteq Kinds /\ TrendTold'
         /\ Exact(strat', Closes(fed'))
  <1> DEFINE base == [strat |-> strat, told |-> told, found |-> found, crossed |-> {}]
             after == Along(Evaluate, base, cs)
             N == Len(cs)
             B == [i \in 0 .. N |->
                     {a \in Carried : Exact(a.strat, Closes(fed \o SubSeq(cs, 1, i)))}]
  <1>1. base \in Carried /\ base.strat = strat
    BY DEF Carried, TrendTold
  <1>2. /\ strat' = after.strat /\ told' = after.told /\ found' = after.found
        /\ crossed' = after.crossed /\ fed' = fed \o cs
    BY DEF Deliver
  <1>3. N \in Nat
    BY LenProperties
  <1>4. \A i \in 0 .. N : B[i] = {a \in Carried : Exact(a.strat, Closes(fed \o SubSeq(cs, 1, i)))}
    OBVIOUS
  <1> HIDE DEF base, after, B, N
  <1>5. base \in B[0]
    <2>1. SubSeq(cs, 1, 0) = <<>>
      BY SubSeqEmpty
    <2>2. fed \o <<>> = fed
      BY ConcatEmptySeq
    <2>3. 0 \in 0 .. N
      BY <1>3
    <2>4. B[0] = {a \in Carried : Exact(a.strat, Closes(fed))}
      BY <1>4, <2>1, <2>2, <2>3
    <2> QED  BY <1>1, <2>4
  <1>6. ASSUME NEW a \in Carried, NEW i \in 1 .. N
        PROVE  Evaluate(a, cs[i]) \in Carried /\ (a \in B[i - 1] => Evaluate(a, cs[i]) \in B[i])
    <2>1. cs[i] \in Candle /\ i - 1 \in 0 .. N /\ i \in 0 .. N
      BY <1>3, ElementOfSeq DEF N
    <2>2. /\ fed \o SubSeq(cs, 1, i - 1) \in Seq(Candle)
          /\ fed \o SubSeq(cs, 1, i) = Append(fed \o SubSeq(cs, 1, i - 1), cs[i])
      BY UptoNext DEF N
    <2>3. Evaluate(a, cs[i]) \in Carried
      BY <2>1, EvaluateExact
    <2>4. ASSUME a \in B[i - 1]
          PROVE  Evaluate(a, cs[i]) \in B[i]
      <3>1. Exact(a.strat, Closes(fed \o SubSeq(cs, 1, i - 1)))
        BY <1>4, <2>1, <2>4
      <3>2. Exact(Evaluate(a, cs[i]).strat, Closes(fed \o SubSeq(cs, 1, i)))
        BY <2>1, <2>2, <3>1, EvaluateExact
      <3> QED  BY <1>4, <2>1, <2>3, <3>2
    <2> QED  BY <2>3, <2>4
  <1>7. after \in Carried /\ after \in B[N]
    <2>1. EvaluateKeeps(Carried, B, cs)
      BY <1>6 DEF EvaluateKeeps, N
    <2> QED  BY <1>1, <1>3, <1>5, <2>1, EvaluateAlong DEF after, N
  <1>8. SubSeq(cs, 1, N) = cs
    BY SubSeqFull DEF N
  <1>9. Exact(after.strat, Closes(fed \o cs))
    <2>1. N \in 0 .. N
      BY <1>3
    <2>2. B[N] = {a \in Carried : Exact(a.strat, Closes(fed \o cs))}
      BY <1>4, <1>8, <2>1
    <2> QED  BY <1>7, <2>2
  <1>10. fed \o cs \in Seq(Candle)
    BY ConcatProperties
  <1> QED  BY <1>2, <1>7, <1>9, <1>10 DEF Carried, TrendTold

\* A seed computes exact values anew.
LEMMA SeedExact ==
  ASSUME NEW cs \in Seq(Candle), Seed(cs)
  PROVE  /\ fed' = cs
         /\ strat' \in State /\ told' \in {-1, 0, 1} /\ found' \in {-1, 0, 1} /\ crossed' = {} /\ TrendTold'
         /\ Exact(strat', Closes(cs))
  <1> DEFINE s == Closes(cs)
             N == Len(s)
             B == [i \in 0 .. N |-> {st \in State : Exact(st, <<>> \o SubSeq(s, 1, i))}]
  <1>1. s \in Seq(Int) /\ N \in Nat
    BY ClosesFacts, LenProperties
  <1>2. strat' = Along(Calculate, Fresh, s)
    BY DEF Seed
  <1> HIDE DEF s
  <1>3. \A i \in 0 .. N : B[i] = {st \in State : Exact(st, <<>> \o SubSeq(s, 1, i))}
    OBVIOUS
  <1> HIDE DEF B, N
  <1>4. Fresh \in B[0]
    <2>1. SubSeq(s, 1, 0) = <<>>
      BY SubSeqEmpty
    <2>2. <<>> \o <<>> = <<>>
      BY ConcatEmptySeq, EmptySeq
    <2>3. 0 \in 0 .. N
      BY <1>1
    <2>4. B[0] = {st \in State : Exact(st, <<>>)}
      BY <1>3, <2>1, <2>2, <2>3
    <2> QED  BY <2>4, FreshExact
  <1>5. ASSUME NEW st \in State, NEW i \in 1 .. N
        PROVE  Calculate(st, s[i]) \in State /\ (st \in B[i - 1] => Calculate(st, s[i]) \in B[i])
    <2>1. s[i] \in Int /\ i - 1 \in 0 .. N /\ i \in 0 .. N
      BY <1>1, ElementOfSeq DEF N
    <2>2. /\ <<>> \o SubSeq(s, 1, i - 1) \in Seq(Int)
          /\ <<>> \o SubSeq(s, 1, i) = Append(<<>> \o SubSeq(s, 1, i - 1), s[i])
      BY <1>1, UptoNext, EmptySeq DEF N
    <2>3. Calculate(st, s[i]) \in State
      BY <2>1, CalculateExact
    <2>4. ASSUME st \in B[i - 1]
          PROVE  Calculate(st, s[i]) \in B[i]
      <3>1. Exact(st, <<>> \o SubSeq(s, 1, i - 1))
        BY <1>3, <2>1, <2>4
      <3>2. Exact(Calculate(st, s[i]), <<>> \o SubSeq(s, 1, i))
        BY <2>1, <2>2, <3>1, CalculateExact
      <3> QED  BY <1>3, <2>1, <2>3, <3>2
    <2> QED  BY <2>3, <2>4
  <1>6. strat' \in State /\ strat' \in B[N]
    <2>1. CalculateKeeps(State, B, s)
      BY <1>5 DEF CalculateKeeps, N
    <2> QED  BY <1>1, <1>2, <1>4, <2>1, FreshExact, CalculateAlong DEF N
  <1>7. <<>> \o SubSeq(s, 1, N) = s
    BY <1>1, SubSeqFull, ConcatEmptySeq DEF N
  <1>8. Exact(strat', s)
    <2>1. N \in 0 .. N
      BY <1>1
    <2>2. B[N] = {st \in State : Exact(st, s)}
      BY <1>3, <1>7, <2>1
    <2> QED  BY <1>6, <2>2
  <1>9. strat'.rel \in Relation
    BY <1>6 DEF State
  <1>10. /\ told' = 0 /\ found' = Known(strat'.rel) /\ fed' = cs /\ crossed' = {}
    BY DEF Seed
  <1>11. /\ found' \in {-1, 0, 1} /\ (strat'.rel = NoRelation => found' = 0)
         /\ strat'.rel # NoRelation => found' = strat'.rel
    BY <1>9, <1>10 DEF Known, Relation
  <1>12. TrendTold'
    BY <1>10, <1>11 DEF TrendTold, NoRelation
  <1> QED  BY <1>6, <1>8, <1>10, <1>11, <1>12 DEF s
-------------------------------------------------------------------------------
(* The inductive invariant *)

\* Ticks arrive in the order of their minutes, none is of a minute to come, and
\* a history request was answered in a minute that is not over before Limit.
Feed ==
    /\ now \in Minutes /\ wire \in Seq(Tick) /\ Len(wire) <= MaxWire
    /\ streaming \in BOOLEAN /\ active \in BOOLEAN /\ booting \in BOOLEAN
    /\ load \in [Loads -> [pc : {"idle", "asked", "answered"}, at : Minutes]]
    /\ adds \in 0 .. MaxAdds /\ losses \in 0 .. MaxLosses
    /\ Limit <= now
    /\ \A i \in 1 .. Len(wire) : wire[i].min <= now
    /\ \A i, j \in 1 .. Len(wire) : i <= j => wire[i].min <= wire[j].min
    /\ \A l \in Loads : load[l].pc # "idle" => Limit <= load[l].at /\ load[l].at <= now

\* The candle being built is of no later minute than any tick under way.
Building ==
    cur # NoCandle => /\ cur.min <= now
                      /\ \A i \in 1 .. Len(wire) : cur.min <= wire[i].min

\* One is empty only if the other is, and they end with the same candle.
Same(s, t) == (s = <<>> <=> t = <<>>) /\ (s # <<>> => s[Len(s)] = t[Len(t)])

\* Unless a load could not be placed, the candle being built may follow.
Placed ==
    ~straddled => /\ InOrder(hist) /\ InOrder(fed)
                  /\ cur # NoCandle => Before(hist, cur.min) /\ Before(fed, cur.min)

\* The strategy's values are those of its candles, which end like the history.
Following ==
    /\ hist \in Seq(Candle) /\ Len(hist) <= History
    /\ cur \in Candle \cup {NoCandle} /\ cur.kind # "partial"
    /\ strat \in State /\ fed \in Seq(Candle) /\ told \in {-1, 0, 1} /\ found \in {-1, 0, 1} /\ crossed \subseteq Kinds
    /\ straddled \in BOOLEAN
    /\ TrendTold /\ Exact(strat, Closes(fed)) /\ Same(hist, fed) /\ Placed

IInv == Feed /\ Building /\ Following

LEMMA Invariants == IInv => TypeOK /\ TrendTold /\ RollingExact /\ OrderedUnlessStraddled
  <1> SUFFICES ASSUME IInv PROVE TypeOK /\ TrendTold /\ RollingExact /\ OrderedUnlessStraddled
    OBVIOUS
  <1>1. Feed /\ Following
    BY DEF IInv
  <1>2. strat.rel \in Relation /\ strat.den > 0 /\ Len(strat.closes) <= Fast
    BY <1>1 DEF Following, State
  <1>3. TypeOK
    BY <1>1, <1>2 DEF TypeOK, Feed, Following
  <1>4. RollingExact
    BY <1>1 DEF Following, Exact, RollingExact
  <1>5. OrderedUnlessStraddled
    BY <1>1 DEF Following, Placed, InOrder, Filled, OrderedUnlessStraddled
  <1> QED  BY <1>1, <1>3, <1>4, <1>5 DEF Following

LEMMA Starts == Init => IInv
  <1> SUFFICES ASSUME Init PROVE IInv
    OBVIOUS
  <1>1. /\ <<>> \in Seq(Candle) /\ Len(<<>>) = 0 /\ <<>> \in Seq(Tick) /\ Closes(<<>>) \in Seq(Int)
        /\ Len(Closes(<<>>)) = 0
    <2>1. <<>> \in Seq(Candle) /\ <<>> \in Seq(Tick) /\ Len(<<>>) = 0
      BY EmptySeq
    <2> QED  BY <2>1, ClosesFacts
  <1>2. Closes(<<>>) = <<>>
    BY <1>1, EmptySeq
  <1>3. Limit \in Minutes /\ 0 \in Minutes /\ Limit \in Nat
    BY PipelineAssumption DEF Minutes
  <1>4. Feed
    <2>1. /\ now = Limit /\ wire = <<>> /\ streaming = FALSE /\ active = FALSE /\ booting = TRUE
          /\ adds = 0 /\ losses = 0
      BY DEF Init
    <2>2. PICK l \in Loads :
            load = [k \in Loads |-> IF k = l THEN [pc |-> "asked", at |-> Limit] ELSE Idle]
      BY <2>1 DEF Init
    <2>3. load \in [Loads -> [pc : {"idle", "asked", "answered"}, at : Minutes]]
      BY <1>3, <2>2 DEF Idle
    <2>4. \A k \in Loads : load[k].pc # "idle" => Limit <= load[k].at /\ load[k].at <= Limit
      BY <1>3, <2>2 DEF Idle
    <2>5. 0 \in 0 .. MaxAdds /\ 0 \in 0 .. MaxLosses /\ 0 <= MaxWire /\ Limit <= Limit
      BY PipelineAssumption
    <2>6. wire \in Seq(Tick) /\ Len(wire) = 0
      BY <1>1, <2>1
    <2>7. 1 .. Len(wire) = {}
      BY <2>6
    <2>8. Len(wire) <= MaxWire
      BY <2>5, <2>6
    <2> QED  BY <1>3, <2>1, <2>3, <2>4, <2>5, <2>6, <2>7, <2>8 DEF Feed
  <1>5. Building
    BY DEF Init, Building
  <1>6. Placed /\ Same(hist, fed)
    BY <1>1 DEF Init, Placed, Same, InOrder
  <1>7. TrendTold
    BY DEF Init, TrendTold, Fresh, NoRelation
  <1>8. NoCandle.kind # "partial"
    BY DEF NoCandle
  <1>9. /\ hist = <<>> /\ cur = NoCandle /\ strat = Fresh /\ fed = <<>>
        /\ told = 0 /\ found = 0 /\ crossed = {} /\ straddled = FALSE
    BY DEF Init
  <1>10. 0 <= History
    BY PipelineAssumption
  <1>11. Exact(strat, Closes(fed)) /\ strat \in State
    BY <1>2, <1>9, FreshExact
  <1>12. Following
    BY <1>1, <1>6, <1>7, <1>8, <1>9, <1>10, <1>11 DEF Following
  <1> QED  BY <1>4, <1>5, <1>12 DEF IInv
-------------------------------------------------------------------------------
(* Time, ticks and requests *)

LEMMA Appended ==
  ASSUME Feed, NEW t \in Tick, t.min = now
  PROVE  /\ Append(wire, t) \in Seq(Tick) /\ Len(Append(wire, t)) = Len(wire) + 1
         /\ \A i \in 1 .. Len(Append(wire, t)) : Append(wire, t)[i].min <= now
         /\ \A i, j \in 1 .. Len(Append(wire, t)) :
              i <= j => Append(wire, t)[i].min <= Append(wire, t)[j].min
         /\ \A i \in 1 .. Len(Append(wire, t)) :
              \/ i \in 1 .. Len(wire) /\ Append(wire, t)[i] = wire[i]
              \/ Append(wire, t)[i] = t
  <1> DEFINE n == Len(wire)
             u == Append(wire, t)
  <1>1. /\ wire \in Seq(Tick) /\ now \in Nat /\ \A i \in 1 .. n : wire[i].min <= now
        /\ \A i, j \in 1 .. n : i <= j => wire[i].min <= wire[j].min
    BY PipelineAssumption DEF Feed, Minutes
  <1>2. /\ n \in Nat /\ u \in Seq(Tick) /\ Len(u) = n + 1 /\ u[n + 1] = t
        /\ \A i \in 1 .. n : u[i] = wire[i]
    BY <1>1, AppendProperties, LenProperties
  <1> HIDE DEF u, n
  <1>3. ASSUME NEW i \in 1 .. n + 1
        PROVE  (i \in 1 .. n /\ u[i] = wire[i]) \/ (i = n + 1 /\ u[i] = t)
    BY <1>2
  <1>4. ASSUME NEW i \in 1 .. n + 1
        PROVE  u[i].min <= now
    BY <1>1, <1>2, <1>3
  <1>5. ASSUME NEW i \in 1 .. n + 1, NEW j \in 1 .. n + 1, i <= j
        PROVE  u[i].min <= u[j].min
    <2>1. CASE j \in 1 .. n
      <3>1. i \in 1 .. n
        BY <1>2, <1>5, <2>1
      <3> QED  BY <1>1, <1>2, <1>5, <2>1, <3>1
    <2>2. CASE j = n + 1
      BY <1>2, <1>4, <2>2
    <2> QED  BY <1>3, <2>1, <2>2
  <1> QED  BY <1>2, <1>3, <1>4, <1>5 DEF u, n

LEMMA Received ==
  ASSUME Feed, wire # <<>>
  PROVE  /\ Head(wire) = wire[1] /\ Head(wire) \in Tick /\ Head(wire).min \in Minutes
         /\ 1 \in 1 .. Len(wire)
         /\ Tail(wire) \in Seq(Tick) /\ Len(Tail(wire)) = Len(wire) - 1
         /\ \A i \in 1 .. Len(Tail(wire)) : /\ i + 1 \in 1 .. Len(wire)
                                            /\ Tail(wire)[i] = wire[i + 1]
  <1>1. wire \in Seq(Tick)
    BY DEF Feed
  <1>2. Len(wire) \in Nat \ {0} /\ Head(wire) = wire[1]
    BY <1>1, EmptySeq, HeadTailProperties
  <1>3. wire[1] \in Tick
    BY <1>1, <1>2, ElementOfSeq
  <1>4. /\ Tail(wire) \in Seq(Tick) /\ Len(Tail(wire)) = Len(wire) - 1
        /\ \A i \in 1 .. Len(Tail(wire)) : Tail(wire)[i] = wire[i + 1]
    BY <1>1, HeadTailProperties
  <1> QED  BY <1>2, <1>3, <1>4 DEF Tick

LEMMA TickTypes ==
  ASSUME Feed, NEW i \in 1 .. Len(wire)
  PROVE  wire[i].min \in Minutes
  <1>1. wire[i] \in Tick
    BY ElementOfSeq DEF Feed
  <1> QED  BY <1>1 DEF Tick

LEMMA FeedKept == Feed /\ [Next]_vars => Feed'
  <1> SUFFICES ASSUME Feed, [Next]_vars PROVE Feed'
    OBVIOUS
  <1>1. /\ now \in Nat /\ now \in Minutes /\ MaxMinute \in Nat /\ Limit \in Nat
        /\ MaxWire \in Nat /\ MaxAdds \in Nat /\ MaxLosses \in Nat
    BY PipelineAssumption DEF Feed, Minutes
  <1>2. Idle \in [pc : {"idle", "asked", "answered"}, at : Minutes] /\ Idle.pc = "idle"
    BY <1>1 DEF Idle, Minutes
  <1>3. ASSUME NEW p \in Prices, Trade(p)
        PROVE  Feed'
    <2> DEFINE t == [min |-> now, price |-> p]
    <2>1. t \in Tick /\ t.min = now
      BY <1>1 DEF Tick
    <2>2. wire' = Append(wire, t) /\ Len(wire) < MaxWire
      BY <1>3 DEF Trade
    <2>3. UNCHANGED <<now, streaming, active, booting, adds, losses, load>>
      BY <1>3 DEF Trade
    <2> HIDE DEF t
    <2>4. /\ wire' \in Seq(Tick) /\ Len(wire') = Len(wire) + 1
          /\ \A i \in 1 .. Len(wire') : wire'[i].min <= now
          /\ \A i, j \in 1 .. Len(wire') : i <= j => wire'[i].min <= wire'[j].min
      BY <2>1, <2>2, Appended
    <2>5. Len(wire) \in Nat
      BY LenProperties DEF Feed
    <2>6. Len(wire') <= MaxWire
      BY <1>1, <2>2, <2>4, <2>5
    <2> QED  BY <2>3, <2>4, <2>6 DEF Feed
  <1>4. ASSUME Receive
        PROVE  Feed'
    <2>1. wire # <<>> /\ wire' = Tail(wire)
      BY <1>4 DEF Receive
    <2>2. UNCHANGED <<now, streaming, active, booting, adds, losses, load>>
      BY <1>4 DEF Receive
    <2>3. /\ wire' \in Seq(Tick) /\ Len(wire') = Len(wire) - 1
          /\ \A i \in 1 .. Len(wire') : i + 1 \in 1 .. Len(wire) /\ wire'[i] = wire[i + 1]
      BY <2>1, Received
    <2>4. Len(wire) \in Nat /\ Len(wire) <= MaxWire
      BY LenProperties DEF Feed
    <2>5. Len(wire') <= MaxWire
      BY <1>1, <2>3, <2>4
    <2>6. \A i \in 1 .. Len(wire') : wire'[i].min <= now
      BY <2>3 DEF Feed
    <2>7. ASSUME NEW i \in 1 .. Len(wire'), NEW j \in 1 .. Len(wire'), i <= j
          PROVE  wire'[i].min <= wire'[j].min
      <3>1. i + 1 <= j + 1
        BY <2>7
      <3> QED  BY <2>3, <3>1 DEF Feed
    <2> QED  BY <2>2, <2>3, <2>5, <2>6, <2>7 DEF Feed
  <1>5. ASSUME Minute
        PROVE  Feed'
    <2>1. now' = now + 1 /\ now < MaxMinute
      BY <1>5 DEF Minute
    <2>2. UNCHANGED <<wire, streaming, active, booting, adds, losses, load>>
      BY <1>5 DEF Minute
    <2>3. now' \in Minutes /\ Limit <= now' /\ now <= now'
      BY <1>1, <2>1 DEF Minutes, Feed
    <2>4. \A i \in 1 .. Len(wire) : wire[i].min <= now'
      <3>1. TAKE i \in 1 .. Len(wire)
      <3>2. wire[i].min \in Minutes /\ wire[i].min <= now
        BY TickTypes DEF Feed
      <3>3. wire[i].min \in Int
        BY <1>1, <3>2 DEF Minutes
      <3> QED  BY <1>1, <2>1, <3>2, <3>3
    <2>5. \A l \in Loads : load[l].pc # "idle" => Limit <= load[l].at /\ load[l].at <= now'
      <3>1. TAKE l \in Loads
      <3>2. /\ load[l].at \in Int
            /\ load[l].pc # "idle" => Limit <= load[l].at /\ load[l].at <= now
        BY <1>1 DEF Feed, Minutes
      <3> QED  BY <1>1, <2>1, <3>2
    <2> QED  BY <2>2, <2>3, <2>4, <2>5 DEF Feed
  <1>6. ASSUME Lose
        PROVE  Feed'
    <2>1. /\ wire' = <<>> /\ streaming' \in BOOLEAN /\ losses' \in 0 .. MaxLosses
      BY <1>1, <1>6 DEF Lose, Feed
    <2>2. UNCHANGED <<now, active, booting, adds, load>>
      BY <1>6 DEF Lose
    <2>3. wire' \in Seq(Tick) /\ Len(wire') = 0
      BY <2>1, EmptySeq
    <2> QED  BY <1>1, <2>1, <2>2, <2>3 DEF Feed
  <1>7. ASSUME NEW l \in Loads, AddSymbol(l)
        PROVE  Feed'
    <2>1. /\ active' = TRUE /\ streaming' = TRUE /\ adds' \in 0 .. MaxAdds
          /\ load' = [load EXCEPT ![l] = [pc |-> "asked", at |-> now]]
          /\ UNCHANGED <<now, wire, booting, losses>>
      BY <1>1, <1>7 DEF AddSymbol, Feed
    <2>2. \A k \in Loads : load'[k] = IF k = l THEN [pc |-> "asked", at |-> now] ELSE load[k]
      BY <2>1 DEF Feed
    <2>3. load' \in [Loads -> [pc : {"idle", "asked", "answered"}, at : Minutes]]
      BY <1>1, <2>1 DEF Feed
    <2>4. \A k \in Loads : load'[k].pc # "idle" => Limit <= load'[k].at /\ load'[k].at <= now
      BY <1>1, <2>2 DEF Feed
    <2> QED  BY <2>1, <2>3, <2>4 DEF Feed
  <1>8. ASSUME NEW l \in Loads, Answer(l)
        PROVE  Feed'
    <2>1. /\ load' = [load EXCEPT ![l] = [pc |-> "answered", at |-> now]]
          /\ UNCHANGED feed
      BY <1>8 DEF Answer
    <2>2. \A k \in Loads : load'[k] = IF k = l THEN [pc |-> "answered", at |-> now] ELSE load[k]
      BY <2>1 DEF Feed
    <2>3. load' \in [Loads -> [pc : {"idle", "asked", "answered"}, at : Minutes]]
      BY <1>1, <2>1 DEF Feed
    <2>4. \A k \in Loads : load'[k].pc # "idle" => Limit <= load'[k].at /\ load'[k].at <= now
      BY <1>1, <2>2 DEF Feed
    <2> QED  BY <2>1, <2>3, <2>4 DEF Feed, feed
  <1>9. ASSUME NEW l \in Loads, Finish(l)
        PROVE  Feed'
    <2>1. /\ load' = [load EXCEPT ![l] = Idle] /\ booting' = FALSE
          /\ active' \in BOOLEAN /\ streaming' \in BOOLEAN
          /\ UNCHANGED <<now, wire, adds, losses>>
      BY <1>9 DEF Finish
    <2>2. \A k \in Loads : load'[k] = IF k = l THEN Idle ELSE load[k]
      BY <2>1 DEF Feed
    <2>3. load' \in [Loads -> [pc : {"idle", "asked", "answered"}, at : Minutes]]
      BY <1>2, <2>1 DEF Feed
    <2>4. \A k \in Loads : load'[k].pc # "idle" => Limit <= load'[k].at /\ load'[k].at <= now
      BY <1>2, <2>2 DEF Feed
    <2> QED  BY <2>1, <2>3, <2>4 DEF Feed
  <1>10. ASSUME UNCHANGED <<now, wire, booting, adds, losses, load>>,
                active' \in BOOLEAN, streaming' \in BOOLEAN
         PROVE  Feed'
    BY <1>10 DEF Feed
  <1>11. CASE Boundary
    BY <1>10, <1>11 DEF Boundary, feed, Feed
  <1>12. CASE RemoveSymbol \/ Unsubscribed
    BY <1>10, <1>12 DEF RemoveSymbol, Unsubscribed, Feed
  <1>13. CASE UNCHANGED vars
    BY <1>10, <1>13 DEF vars, feed, Feed
  <1>14. ASSUME NEW l \in Loads, Load(l) \/ LoadFails(l)
         PROVE  Feed'
    BY <1>9, <1>14 DEF Load, LoadFails
  <1> QED
    BY <1>3, <1>4, <1>5, <1>6, <1>7, <1>8, <1>11, <1>12, <1>13, <1>14 DEF Next

LEMMA BuildingKept == Feed /\ Following /\ Building /\ [Next]_vars => Building'
  <1> SUFFICES ASSUME Feed, Following, Building, [Next]_vars PROVE Building'
    OBVIOUS
  <1>1. /\ now \in Nat /\ (cur # NoCandle => cur.min \in Nat /\ cur \in Candle)
        /\ \A i \in 1 .. Len(wire) : wire[i].min \in Nat
    <2>1. now \in Nat
      BY PipelineAssumption DEF Feed, Minutes
    <2>2. cur # NoCandle => cur.min \in Nat /\ cur \in Candle
      BY CandleTypes DEF Following
    <2>3. ASSUME NEW i \in 1 .. Len(wire)
          PROVE  wire[i].min \in Nat
      <3>1. wire[i].min \in Minutes
        BY TickTypes
      <3> QED  BY <3>1, PipelineAssumption DEF Minutes
    <2> QED  BY <2>1, <2>2, <2>3
  <1>2. ASSUME UNCHANGED <<cur, now>>, UNCHANGED wire \/ wire' = <<>>
        PROVE  Building'
    <2>1. Len(<<>>) = 0
      BY EmptySeq
    <2>2. CASE UNCHANGED wire
      BY <1>2, <2>2 DEF Building
    <2>3. CASE wire' = <<>>
      <3>1. 1 .. Len(wire') = {}
        BY <2>1, <2>3
      <3> QED  BY <1>2, <3>1 DEF Building
    <2> QED  BY <1>2, <2>2, <2>3
  <1>3. ASSUME cur' = NoCandle
        PROVE  Building'
    BY <1>3 DEF Building
  <1>4. ASSUME NEW p \in Prices, Trade(p)
        PROVE  Building'
    <2> DEFINE t == [min |-> now, price |-> p]
    <2>1. t \in Tick /\ t.min = now /\ wire' = Append(wire, t)
      BY <1>4 DEF Trade, Tick, Feed
    <2>2. UNCHANGED <<cur, now>>
      BY <1>4 DEF Trade, candles
    <2> HIDE DEF t
    <2>3. \A i \in 1 .. Len(wire') : \/ i \in 1 .. Len(wire) /\ wire'[i] = wire[i]
                                     \/ wire'[i] = t
      BY <2>1, Appended
    <2> QED  BY <2>1, <2>2, <2>3 DEF Building
  <1>5. ASSUME Receive
        PROVE  Building'
    <2> DEFINE tick == Head(wire)
    <2>1. /\ wire # <<>> /\ wire' = Tail(wire) /\ UNCHANGED now
      BY <1>5 DEF Receive
    <2>2. /\ tick = wire[1] /\ 1 \in 1 .. Len(wire)
          /\ \A i \in 1 .. Len(wire') : i + 1 \in 1 .. Len(wire) /\ wire'[i] = wire[i + 1]
      BY <2>1, Received
    <2>3. cur' = cur \/ cur'.min = tick.min \/ (cur'.min = cur.min /\ cur # NoCandle)
      BY <1>5 DEF Receive, candles
    <2>4. ASSUME NEW i \in 1 .. Len(wire')
          PROVE  tick.min <= wire'[i].min
      <3>1. 1 <= i + 1
        BY <2>4
      <3> QED  BY <2>2, <3>1 DEF Feed
    <2>5. tick.min <= now
      BY <2>2 DEF Feed
    <2> HIDE DEF tick
    <2>6. ASSUME cur # NoCandle
          PROVE  cur.min <= now /\ \A i \in 1 .. Len(wire') : cur.min <= wire'[i].min
      BY <2>2, <2>6 DEF Building
    <2> QED  BY <2>1, <2>3, <2>4, <2>5, <2>6 DEF Building
  <1>6. CASE Minute
    <2>1. now' = now + 1 /\ UNCHANGED <<wire, cur>>
      BY <1>6 DEF Minute, candles
    <2> QED  BY <1>1, <2>1 DEF Building
  <1>7. CASE Boundary \/ RemoveSymbol
    BY <1>3, <1>7 DEF Boundary, RemoveSymbol
  <1>8. CASE Lose \/ Unsubscribed \/ UNCHANGED vars
    BY <1>2, <1>8 DEF Lose, Unsubscribed, vars, feed, candles
  <1>9. ASSUME NEW l \in Loads, AddSymbol(l) \/ Answer(l) \/ Load(l) \/ LoadFails(l)
        PROVE  Building'
    BY <1>2, <1>9 DEF AddSymbol, Answer, Load, LoadFails, Finish, feed, candles
  <1> QED
    BY <1>4, <1>5, <1>6, <1>7, <1>8, <1>9 DEF Next
-------------------------------------------------------------------------------
(* Candles *)

LEMMA EndSame ==
  ASSUME NEW s \in Seq(Candle), NEW t \in Seq(Candle), EndOf(t, s)
  PROVE  Same(t, s)
  <1>1. Len(s) \in Nat /\ Len(t) \in Nat
    BY LenProperties
  <1>2. s = <<>> => t = <<>>
    BY <1>1, EmptySeq DEF EndOf
  <1>3. ASSUME t # <<>>
        PROVE  t[Len(t)] = s[Len(s)]
    <2>1. Len(t) \in 1 .. Len(t) /\ Len(s) - Len(t) + Len(t) = Len(s)
      BY <1>1, <1>3, EmptySeq
    <2> QED  BY <2>1 DEF EndOf
  <1> QED  BY <1>2, <1>3 DEF EndOf, Same

LEMMA SameConcat ==
  ASSUME NEW s \in Seq(Candle), NEW t \in Seq(Candle), NEW x \in Seq(Candle), Same(s, t)
  PROVE  Same(s \o x, t \o x)
  <1>1. CASE x = <<>>
    BY <1>1, ConcatEmptySeq
  <1>2. CASE x # <<>>
    <2>1. Len(x) \in Nat \ {0} /\ Len(s) \in Nat /\ Len(t) \in Nat
      BY <1>2, EmptySeq, LenProperties
    <2>2. /\ Len(s \o x) = Len(s) + Len(x) /\ Len(t \o x) = Len(t) + Len(x)
          /\ (s \o x)[Len(s) + Len(x)] = x[Len(x)] /\ (t \o x)[Len(t) + Len(x)] = x[Len(x)]
      BY <2>1, ConcatProperties
    <2>3. s \o x # <<>> /\ t \o x # <<>>
      BY <2>1, <2>2, EmptySeq
    <2> QED  BY <2>2, <2>3 DEF Same
  <1> QED  BY <1>1, <1>2

\* Candles closed in this step go to the strategy and to the history alike.
LEMMA Delivered ==
  ASSUME Following, NEW x \in Seq(Candle), Deliver(x), hist' = Keep(hist \o x)
  PROVE  /\ hist' \in Seq(Candle) /\ Len(hist') <= History
         /\ strat' \in State /\ fed' \in Seq(Candle)
         /\ told' \in {-1, 0, 1} /\ found' \in {-1, 0, 1} /\ crossed' \subseteq Kinds
         /\ TrendTold' /\ Exact(strat', Closes(fed')) /\ Same(hist', fed')
         /\ fed' = fed \o x /\ hist \o x \in Seq(Candle) /\ EndOf(hist', hist \o x)
  <1>1. /\ hist \in Seq(Candle) /\ fed \in Seq(Candle) /\ strat \in State /\ told \in {-1, 0, 1} /\ found \in {-1, 0, 1}
        /\ TrendTold /\ Exact(strat, Closes(fed)) /\ Same(hist, fed)
    BY DEF Following
  <1>2. hist \o x \in Seq(Candle) /\ fed \o x \in Seq(Candle)
    BY <1>1, ConcatProperties
  <1>3. hist' \in Seq(Candle) /\ Len(hist') <= History /\ EndOf(hist', hist \o x)
    BY <1>2, KeepFacts
  <1>4. /\ fed' = fed \o x /\ fed' \in Seq(Candle) /\ strat' \in State
        /\ told' \in {-1, 0, 1} /\ found' \in {-1, 0, 1} /\ crossed' \subseteq Kinds /\ TrendTold'
        /\ Exact(strat', Closes(fed'))
    BY <1>1, DeliverExact
  <1>5. Same(hist', fed')
    <2>1. Same(hist', hist \o x)
      BY <1>2, <1>3, EndSame
    <2>2. Same(hist \o x, fed \o x)
      BY <1>1, SameConcat
    <2> QED  BY <1>4, <2>1, <2>2 DEF Same
  <1> QED  BY <1>2, <1>3, <1>4, <1>5

LEMMA Unchanged ==
  ASSUME Following, UNCHANGED candles
  PROVE  Following'
  <1>1. UNCHANGED <<hist, cur, strat, fed, told, found, crossed, straddled>>
    BY DEF candles
  <1>2. /\ hist' \in Seq(Candle) /\ Len(hist') <= History
        /\ cur' \in Candle \cup {NoCandle} /\ cur'.kind # "partial"
        /\ strat' \in State /\ fed' \in Seq(Candle) /\ told' \in {-1, 0, 1} /\ found' \in {-1, 0, 1}
        /\ crossed' \subseteq Kinds /\ straddled' \in BOOLEAN
        /\ Exact(strat', Closes(fed')) /\ Same(hist', fed')
    BY <1>1 DEF Following
  <1>3. TrendTold'
    BY <1>1 DEF Following, TrendTold
  <1>4. Placed'
    BY <1>1 DEF Following, Placed
  <1> QED  BY <1>2, <1>3, <1>4 DEF Following

\* A tick that is not late closes a candle, fills a gap, or both, or neither.
LEMMA ReceiveKeeps ==
  ASSUME Feed, Building, Following, Receive
  PROVE  /\ Following'
         /\ \/ UNCHANGED candles
            \/ \E x \in Seq(Candle) : Deliver(x) /\ hist' = Keep(hist \o x)
  <1> DEFINE tick == Head(wire)
             closed == IF cur # NoCandle /\ tick.min > cur.min THEN <<cur>> ELSE <<>>
             known == hist \o closed
             gap == IF known = <<>> THEN <<>> ELSE GapFillers(Last(known), tick.min)
             min == IF cur = NoCandle \/ closed # <<>> THEN tick.min ELSE cur.min
  <1>1. /\ wire # <<>>
        /\ IF Late(tick) THEN UNCHANGED candles
           ELSE /\ hist' = Keep(known \o gap)
                /\ cur' = [min |-> min, close |-> tick.price, kind |-> "ticks"]
                /\ Deliver(closed \o gap)
                /\ UNCHANGED straddled
    BY DEF Receive
  <1>2. CASE Late(tick)
    BY <1>1, <1>2, Unchanged
  <1>3. CASE ~Late(tick)
    <2>1. /\ tick \in Tick /\ tick.min \in Minutes /\ tick.min \in Int
          /\ cur # NoCandle => cur \in Candle /\ cur.min \in Int /\ cur.min <= tick.min
      <3>1. tick \in Tick /\ tick.min \in Minutes /\ tick = wire[1] /\ 1 \in 1 .. Len(wire)
        BY <1>1, Received
      <3>2. tick.min \in Int
        BY <3>1, PipelineAssumption DEF Minutes
      <3>3. cur # NoCandle => cur \in Candle /\ cur.min \in Int
        BY CandleTypes DEF Following
      <3>4. cur # NoCandle => cur.min <= tick.min
        BY <3>1 DEF Building
      <3> QED  BY <3>1, <3>2, <3>3, <3>4
    <2>2. ~Late(tick)
      BY <1>3
    <2> HIDE DEF tick
    <2>3. \/ closed = <<>>
          \/ closed = <<cur>> /\ cur # NoCandle /\ cur.min < tick.min
      BY <2>1
    <2>4. closed # <<>> => closed = <<cur>>
      BY <2>3
    <2>5. min = tick.min
      <3>1. CASE cur = NoCandle
        BY <3>1
      <3>2. CASE cur # NoCandle /\ tick.min > cur.min
        <4>1. <<cur>> # <<>>
          OBVIOUS
        <4> QED  BY <3>2, <4>1
      <3>3. CASE cur # NoCandle /\ ~(tick.min > cur.min)
        BY <2>1, <3>3
      <3> QED  BY <3>1, <3>2, <3>3
    <2>6. /\ hist' = Keep(known \o gap)
          /\ cur' = [min |-> tick.min, close |-> tick.price, kind |-> "ticks"]
          /\ Deliver(closed \o gap)
          /\ UNCHANGED straddled
      BY <1>1, <2>2, <2>5 DEF tick
    <2>7. gap = IF known = <<>> THEN <<>> ELSE GapFillers(Last(known), tick.min)
      OBVIOUS
    <2>8. hist \in Seq(Candle) /\ fed \in Seq(Candle) /\ Same(hist, fed) /\ Placed
      BY DEF Following
    <2>9. closed \in Seq(Candle)
      BY <2>1, <2>3
    <2> HIDE DEF closed, min
    <2>10. known \in Seq(Candle) /\ fed \o closed \in Seq(Candle) /\ Same(known, fed \o closed)
      BY <2>8, <2>9, ConcatProperties, SameConcat
    <2>11. known # <<>> => Last(known) = known[Len(known)] /\ known[Len(known)] \in Candle
                             /\ known[Len(known)].min < tick.min
      <3>1. ASSUME known # <<>>
            PROVE  known[Len(known)] \in Candle
        <4>1. Len(known) \in 1 .. Len(known)
          BY <2>10, <3>1, EmptySeq, LenProperties
        <4> HIDE DEF known
        <4> QED  BY <2>10, <4>1, ElementOfSeq
      <3>2. CASE closed = <<>>
        <4>1. known = hist
          BY <2>8, <3>2, ConcatEmptySeq
        <4>2. known # <<>> => ~(tick.min <= hist[Len(hist)].min)
          BY <2>2, <4>1 DEF Late, Last
        <4>3. known # <<>> => hist[Len(hist)].min \in Int
          BY <3>1, <4>1, CandleTypes
        <4> QED  BY <2>1, <3>1, <4>1, <4>2, <4>3 DEF Last
      <3>3. CASE closed = <<cur>> /\ cur # NoCandle /\ cur.min < tick.min
        <4>1. known[Len(known)] = cur
          BY <2>1, <2>8, <3>3
        <4> QED  BY <3>1, <3>3, <4>1 DEF Last
      <3> QED  BY <2>3, <3>2, <3>3
    <2> HIDE DEF known
    <2>12. gap \in Seq(Candle)
      <3>1. CASE known = <<>>
        BY <2>7, <3>1, EmptySeq
      <3>2. CASE known # <<>>
        BY <2>1, <2>7, <2>11, <3>2, GapFacts
      <3> QED  BY <3>1, <3>2
    <2> HIDE DEF gap
    <2>13. closed \o gap \in Seq(Candle)
      BY <2>9, <2>12, ConcatProperties
    <2>14. /\ known \o gap = hist \o (closed \o gap)
           /\ (fed \o closed) \o gap = fed \o (closed \o gap)
      <3>1. known = hist \o closed
        BY DEF known
      <3>2. (hist \o closed) \o gap = hist \o (closed \o gap)
        <4>1. hist \in Seq(Candle)
          BY <2>8
        <4> QED  BY <2>9, <2>12, <4>1, ConcatAssociative
      <3>3. (fed \o closed) \o gap = fed \o (closed \o gap)
        <4>1. fed \in Seq(Candle)
          BY <2>8
        <4> QED  BY <2>9, <2>12, <4>1, ConcatAssociative
      <3> QED  BY <3>1, <3>2, <3>3
    <2>15. /\ hist' \in Seq(Candle) /\ Len(hist') <= History
           /\ strat' \in State /\ fed' \in Seq(Candle)
           /\ told' \in {-1, 0, 1} /\ found' \in {-1, 0, 1} /\ crossed' \subseteq Kinds
           /\ TrendTold' /\ Exact(strat', Closes(fed')) /\ Same(hist', fed')
           /\ fed' = (fed \o closed) \o gap
           /\ known \o gap \in Seq(Candle) /\ EndOf(hist', known \o gap)
      BY <2>6, <2>13, <2>14, Delivered
    <2>16. cur' \in Candle /\ cur'.min = tick.min /\ cur'.kind # "partial"
      BY <2>1, <2>6 DEF Tick, Candle, Kinds
    <2>17. ASSUME ~straddled'
           PROVE  /\ InOrder(hist') /\ Before(hist', tick.min)
                  /\ InOrder(fed') /\ Before(fed', tick.min)
      <3>1. /\ InOrder(hist) /\ InOrder(fed)
            /\ cur # NoCandle => Before(hist, cur.min) /\ Before(fed, cur.min)
        BY <2>6, <2>8, <2>17 DEF Placed
      <3>2. InOrder(known) /\ InOrder(fed \o closed)
        <4>1. CASE closed = <<>>
          BY <2>8, <3>1, <4>1, ConcatEmptySeq DEF known
        <4>2. CASE closed = <<cur>> /\ cur # NoCandle
          <5>1. cur.kind # "partial"
            BY DEF Following
          <5> QED  BY <2>1, <2>8, <3>1, <4>2, <5>1, CloseOrder DEF known
        <4> QED  BY <2>3, <4>1, <4>2
      <3>3. /\ InOrder(known \o gap) /\ Before(known \o gap, tick.min)
            /\ InOrder((fed \o closed) \o gap) /\ Before((fed \o closed) \o gap, tick.min)
        <4>1. CASE known = <<>>
          <5>1. fed \o closed = <<>> /\ gap = <<>>
            BY <2>7, <2>10, <4>1 DEF Same
          <5>2. known \o gap = known /\ (fed \o closed) \o gap = fed \o closed
            BY <2>10, <5>1, ConcatEmptySeq
          <5> QED  BY <3>2, <4>1, <5>1, <5>2 DEF Before
        <4>2. CASE known # <<>>
          <5>1. /\ fed \o closed # <<>>
                /\ known[Len(known)] = (fed \o closed)[Len(fed \o closed)]
            BY <2>10, <4>2 DEF Same
          <5>2. /\ gap = GapFillers(known[Len(known)], tick.min)
                /\ gap = GapFillers((fed \o closed)[Len(fed \o closed)], tick.min)
            BY <2>7, <2>11, <4>2, <5>1
          <5>3. InOrder(known \o gap) /\ Before(known \o gap, tick.min)
            BY <2>1, <2>10, <2>11, <3>2, <4>2, <5>2, GapOrder
          <5> DEFINE f == fed \o closed
          <5>4. /\ f \in Seq(Candle) /\ f # <<>> /\ f[Len(f)].min < tick.min /\ InOrder(f)
                /\ gap = GapFillers(f[Len(f)], tick.min)
            BY <2>10, <2>11, <3>2, <4>2, <5>1, <5>2
          <5> HIDE DEF f
          <5>5. InOrder(f \o gap) /\ Before(f \o gap, tick.min)
            BY <2>1, <5>4, GapOrder
          <5> QED  BY <5>3, <5>5 DEF f
        <4> QED  BY <4>1, <4>2
      <3>4. InOrder(hist') /\ Before(hist', tick.min)
        BY <2>1, <2>15, <3>3, EndOrder
      <3> QED  BY <2>15, <3>3, <3>4
    <2>18. Placed'
      BY <2>16, <2>17 DEF Placed
    <2>19. straddled' \in BOOLEAN
      BY <2>6 DEF Following
    <2>20. Following'
      BY <2>15, <2>16, <2>18, <2>19 DEF Following
    <2> QED  BY <2>6, <2>13, <2>14, <2>20
  <1> QED  BY <1>2, <1>3

LEMMA BoundaryKeeps ==
  ASSUME Following, Boundary
  PROVE  Following'
  <1>1. /\ cur # NoCandle /\ hist' = Keep(Append(hist, cur)) /\ cur' = NoCandle
        /\ Deliver(<<cur>>) /\ UNCHANGED straddled
    BY DEF Boundary
  <1>2. /\ hist \in Seq(Candle) /\ fed \in Seq(Candle) /\ cur \in Candle /\ cur.kind # "partial"
        /\ Placed /\ <<cur>> \in Seq(Candle) /\ straddled \in BOOLEAN
    BY <1>1 DEF Following
  <1>3. Append(hist, cur) = hist \o <<cur>>
    BY <1>2, AppendIsConcat
  <1>4. /\ hist' \in Seq(Candle) /\ Len(hist') <= History
        /\ strat' \in State /\ fed' \in Seq(Candle)
        /\ told' \in {-1, 0, 1} /\ found' \in {-1, 0, 1} /\ crossed' \subseteq Kinds
        /\ TrendTold' /\ Exact(strat', Closes(fed')) /\ Same(hist', fed')
        /\ fed' = fed \o <<cur>> /\ hist \o <<cur>> \in Seq(Candle)
        /\ EndOf(hist', hist \o <<cur>>)
    BY <1>1, <1>2, <1>3, Delivered
  <1>5. ASSUME ~straddled'
        PROVE  InOrder(hist') /\ InOrder(fed')
    <2>1. /\ InOrder(hist) /\ InOrder(fed) /\ Before(hist, cur.min) /\ Before(fed, cur.min)
      BY <1>1, <1>2, <1>5 DEF Placed
    <2>2. InOrder(hist \o <<cur>>) /\ InOrder(fed \o <<cur>>)
      BY <1>2, <2>1, CloseOrder
    <2> QED  BY <1>4, <2>2, EndOrder
  <1>6. Placed'
    BY <1>1, <1>5 DEF Placed
  <1>7. NoCandle.kind # "partial"
    BY DEF NoCandle
  <1> QED  BY <1>1, <1>2, <1>4, <1>6, <1>7 DEF Following

\* A history loaded in the minute it was answered ends right before it.
LEMMA ClosedFacts ==
  ASSUME Feed, NEW at \in Minutes, Limit <= at, at <= now, NEW close \in [1 .. Limit -> Prices]
  PROVE  /\ Closed(at, close) \in Seq(Candle)
         /\ at = now => InOrder(Closed(at, close)) /\ Before(Closed(at, close), now)
  <1> DEFINE first == IF at < now THEN at - Limit + 1 ELSE at - Limit
             last == IF at < now THEN at ELSE at - 1
             kline(i) == [min |-> first + i - 1, close |-> close[i],
                          kind |-> IF first + i - 1 = at THEN "partial" ELSE "kline"]
             k == Closed(at, close)
  <1>1. /\ at \in Nat /\ now \in Nat /\ at <= MaxMinute /\ MaxMinute \in Nat
        /\ Limit \in Nat \ {0}
    BY PipelineAssumption DEF Feed, Minutes
  <1>2. /\ first \in Nat /\ last - first + 1 = Limit /\ first + Limit - 1 <= at
        /\ at = now => first + Limit = at
    BY <1>1
  <1>3. k = [i \in 1 .. last - first + 1 |-> kline(i)]
    BY DEF Closed
  <1> HIDE DEF k, first, last
  <1>4. k = [i \in 1 .. Limit |-> kline(i)]
    BY <1>2, <1>3
  <1>5. ASSUME NEW i \in 1 .. Limit
        PROVE  kline(i) \in Candle
    <2>1. first + i - 1 \in Minutes
      BY <1>1, <1>2 DEF Minutes
    <2>2. close[i] \in Prices
      OBVIOUS
    <2> QED  BY <2>1, <2>2 DEF Candle, Kinds
  <1>6. k \in Seq(Candle) /\ Len(k) = Limit /\ \A i \in 1 .. Limit : k[i] = kline(i)
    <2> HIDE DEF kline
    <2> QED  BY <1>1, <1>4, <1>5
  <1>7. ASSUME at = now
        PROVE  InOrder(k) /\ Before(k, now)
    <2>1. \A i \in 1 .. Limit : k[i].min = first + i - 1
      BY <1>6
    <2>2. ASSUME NEW i \in 1 .. Limit
          PROVE  k[i].kind # "partial"
      <3>1. first + i - 1 # at
        BY <1>1, <1>2, <1>7
      <3> QED  BY <1>6, <3>1
    <2>3. ASSUME NEW i \in 1 .. Limit - 1
          PROVE  k[i].min < k[i + 1].min /\ ~(k[i].min + 1 < k[i + 1].min)
      <3>1. i \in 1 .. Limit /\ i + 1 \in 1 .. Limit
        BY <1>1
      <3>2. k[i].min = first + i - 1 /\ k[i + 1].min = first + (i + 1) - 1
        BY <2>1, <3>1
      <3> QED  BY <1>2, <3>2
    <2>4. k[Limit].min < now /\ ~(k[Limit].min + 1 < now)
      <3>1. k[Limit].min = first + Limit - 1
        BY <1>1, <2>1
      <3> QED  BY <1>1, <1>2, <1>7, <3>1
    <2> QED  BY <1>6, <2>2, <2>3, <2>4 DEF InOrder, Before
  <1> QED  BY <1>6, <1>7 DEF k

LEMMA LoadKeeps ==
  ASSUME Feed, Building, Following, NEW l \in Loads, Load(l)
  PROVE  Following'
  <1> DEFINE at == load[l].at
  <1>1. at \in Minutes /\ Limit <= at /\ at <= now
    BY DEF Load, Feed
  <1>2. PICK close \in [1 .. Limit -> Prices] : hist' = Keep(Closed(at, close))
    BY DEF Load
  <1>3. /\ Seed(LastOf(hist', Limit)) /\ UNCHANGED cur
        /\ straddled' = (at < now \/ (cur # NoCandle /\ cur.min < now))
    BY DEF Load, LastOf
  <1> HIDE DEF at
  <1> DEFINE k == Closed(at, close)
  <1>4. k \in Seq(Candle) /\ (at = now => InOrder(k) /\ Before(k, now))
    BY <1>1, ClosedFacts
  <1>5. hist' = Keep(k)
    BY <1>2
  <1> HIDE DEF k
  <1>6. hist' \in Seq(Candle) /\ Len(hist') <= History /\ EndOf(hist', k)
    BY <1>4, <1>5, KeepFacts
  <1>7. LastOf(hist', Limit) \in Seq(Candle) /\ EndOf(LastOf(hist', Limit), hist')
    BY <1>6, LastOfFacts, PipelineAssumption
  <1>8. /\ fed' = LastOf(hist', Limit)
        /\ strat' \in State /\ told' \in {-1, 0, 1} /\ found' \in {-1, 0, 1} /\ crossed' = {} /\ TrendTold'
        /\ Exact(strat', Closes(fed'))
    BY <1>3, <1>7, SeedExact
  <1>9. Same(hist', fed')
    BY <1>6, <1>7, <1>8, EndSame DEF Same
  <1>10. ASSUME ~straddled'
         PROVE  /\ InOrder(hist') /\ InOrder(fed')
                /\ cur' # NoCandle => Before(hist', cur'.min) /\ Before(fed', cur'.min)
    <2>1. now \in Int /\ at \in Int
      BY <1>1, PipelineAssumption DEF Feed, Minutes
    <2>2. at = now
      <3>1. ~(at < now)
        BY <1>3, <1>10
      <3> QED  BY <1>1, <2>1, <3>1
    <2>3. InOrder(hist') /\ Before(hist', now)
      BY <1>4, <1>6, <2>1, <2>2, EndOrder
    <2>4. InOrder(fed') /\ Before(fed', now)
      BY <1>6, <1>7, <1>8, <2>1, <2>3, EndOrder
    <2>5. ASSUME cur # NoCandle
          PROVE  cur.min = now
      <3>1. cur.min \in Int
        BY <2>5, CandleTypes DEF Following
      <3>2. cur.min <= now /\ ~(cur.min < now)
        BY <1>3, <1>10, <2>5 DEF Building
      <3> QED  BY <2>1, <3>1, <3>2
    <2> QED  BY <1>3, <2>3, <2>4, <2>5
  <1>11. Placed'
    BY <1>10 DEF Placed
  <1>12. /\ cur' \in Candle \cup {NoCandle} /\ cur'.kind # "partial" /\ straddled' \in BOOLEAN
    BY <1>3 DEF Following
  <1> QED  BY <1>6, <1>7, <1>8, <1>9, <1>11, <1>12 DEF Following

LEMMA LoadFailsKeeps ==
  ASSUME Following, NEW l \in Loads, LoadFails(l)
  PROVE  Following'
  <1>1. Seed(LastOf(hist, Limit)) /\ UNCHANGED <<hist, cur, straddled>>
    BY DEF LoadFails, LastOf
  <1>2. /\ hist \in Seq(Candle) /\ Len(hist) <= History /\ Placed /\ straddled \in BOOLEAN
        /\ cur \in Candle \cup {NoCandle} /\ cur.kind # "partial"
    BY DEF Following
  <1>3. LastOf(hist, Limit) \in Seq(Candle) /\ EndOf(LastOf(hist, Limit), hist)
    BY <1>2, LastOfFacts, PipelineAssumption
  <1>4. /\ fed' = LastOf(hist, Limit)
        /\ strat' \in State /\ told' \in {-1, 0, 1} /\ found' \in {-1, 0, 1} /\ crossed' = {} /\ TrendTold'
        /\ Exact(strat', Closes(fed'))
    BY <1>1, <1>3, SeedExact
  <1>5. Same(hist', fed')
    BY <1>1, <1>2, <1>3, <1>4, EndSame DEF Same
  <1>6. Placed'
    <2>1. SUFFICES ASSUME ~straddled
                   PROVE  /\ InOrder(hist) /\ InOrder(fed')
                          /\ cur # NoCandle => Before(hist, cur.min) /\ Before(fed', cur.min)
      BY <1>1 DEF Placed
    <2>2. InOrder(hist) /\ (cur # NoCandle => Before(hist, cur.min))
      BY <1>2, <2>1 DEF Placed
    <2>3. cur # NoCandle => cur.min \in Int
      BY <1>2, CandleTypes
    <2> QED  BY <1>2, <1>3, <1>4, <2>2, <2>3, EndOrder
  <1> QED  BY <1>1, <1>2, <1>3, <1>4, <1>5, <1>6 DEF Following

LEMMA RemoveSymbolKeeps ==
  ASSUME RemoveSymbol
  PROVE  Following'
  <1>1. /\ hist' = <<>> /\ cur' = NoCandle /\ strat' = Fresh /\ fed' = <<>>
        /\ told' = 0 /\ found' = 0 /\ crossed' = {} /\ straddled' = FALSE
    BY DEF RemoveSymbol
  <1>2. /\ <<>> \in Seq(Candle) /\ Len(<<>>) = 0 /\ Closes(<<>>) \in Seq(Int)
        /\ Len(Closes(<<>>)) = 0
    BY EmptySeq, ClosesFacts
  <1>3. Closes(<<>>) = <<>>
    BY <1>2, EmptySeq
  <1>4. Exact(strat', Closes(fed')) /\ strat' \in State
    BY <1>1, <1>3, FreshExact
  <1>5. Placed' /\ Same(hist', fed')
    BY <1>1, <1>2 DEF Placed, Same, InOrder
  <1>6. TrendTold'
    BY <1>1 DEF TrendTold, Fresh, NoRelation
  <1>7. NoCandle.kind # "partial" /\ 0 <= History
    BY PipelineAssumption DEF NoCandle
  <1> QED  BY <1>1, <1>2, <1>4, <1>5, <1>6, <1>7 DEF Following

LEMMA FollowingKept == Feed /\ Building /\ Following /\ [Next]_vars => Following'
  <1> SUFFICES ASSUME Feed, Building, Following, [Next]_vars PROVE Following'
    OBVIOUS
  <1>1. CASE Minute \/ Lose \/ Unsubscribed \/ UNCHANGED vars
    BY <1>1, Unchanged DEF Minute, Lose, Unsubscribed, vars
  <1>2. ASSUME NEW p \in Prices, Trade(p)
        PROVE  Following'
    BY <1>2, Unchanged DEF Trade
  <1>3. ASSUME NEW l \in Loads, AddSymbol(l) \/ Answer(l)
        PROVE  Following'
    BY <1>3, Unchanged DEF AddSymbol, Answer
  <1>4. ASSUME NEW l \in Loads, Load(l) \/ LoadFails(l)
        PROVE  Following'
    BY <1>4, LoadKeeps, LoadFailsKeeps
  <1> QED
    BY <1>1, <1>2, <1>3, <1>4, ReceiveKeeps, BoundaryKeeps, RemoveSymbolKeeps DEF Next
-------------------------------------------------------------------------------
(* The history on show *)

LEMMA SuffixIsEnd ==
  ASSUME NEW s \in Seq(Candle), NEW t \in Seq(Candle), EndOf(t, s)
  PROVE  IsSuffix(t, s)
  <1> DEFINE n == Len(s)
             m == Len(t)
             u == Reverse(t)
             v == Reverse(s)
  <1>1. n \in Nat /\ m \in Nat /\ m <= n /\ \A i \in 1 .. m : t[i] = s[n - m + i]
    BY DEF EndOf
  <1>2. /\ u = [i \in 1 .. m |-> t[(m - i) + 1]] /\ v = [i \in 1 .. n |-> s[(n - i) + 1]]
    BY DEF Reverse
  <1>3. u \in Seq(Candle) /\ v \in Seq(Candle)
    <2>1. ASSUME NEW i \in 1 .. m
          PROVE  t[(m - i) + 1] \in Candle
      <3>1. (m - i) + 1 \in 1 .. m
        BY <1>1
      <3> QED  BY <3>1, ElementOfSeq
    <2>2. ASSUME NEW i \in 1 .. n
          PROVE  s[(n - i) + 1] \in Candle
      <3>1. (n - i) + 1 \in 1 .. n
        BY <1>1
      <3> QED  BY <3>1, ElementOfSeq
    <2> HIDE DEF u, v, m, n
    <2> QED  BY <1>1, <1>2, <2>1, <2>2
  <1>4. Len(u) = m /\ Len(v) = n
    <2> HIDE DEF u, v, m, n
    <2> QED  BY <1>1, <1>2
  <1>5. ASSUME NEW i \in 1 .. m
        PROVE  u[i] = v[i]
    <2>1. (m - i) + 1 \in 1 .. m /\ n - m + ((m - i) + 1) = (n - i) + 1 /\ i \in 1 .. n
      <3>1. m \in Nat /\ n \in Nat /\ m <= n /\ i \in 1 .. m
        BY <1>1
      <3> HIDE DEF u, v, m, n
      <3> QED  BY <3>1
    <2>2. u[i] = t[(m - i) + 1] /\ v[i] = s[(n - i) + 1]
      <3> HIDE DEF u, v, m, n
      <3> QED  BY <1>1, <1>2, <2>1
    <2> HIDE DEF u, v
    <2> QED  BY <1>1, <2>1, <2>2
  <1> HIDE DEF u, v, m, n
  <1>6. /\ SubSeq(u, 1, m) \in Seq(Candle) /\ Len(SubSeq(u, 1, m)) = m
        /\ SubSeq(v, 1, m) \in Seq(Candle) /\ Len(SubSeq(v, 1, m)) = m
        /\ \A i \in 1 .. m : SubSeq(u, 1, m)[i] = u[i] /\ SubSeq(v, 1, m)[i] = v[i]
    BY <1>1, <1>3, <1>4, SubSeqProperties
  <1>7. SubSeq(u, 1, m) = SubSeq(v, 1, m)
    BY <1>5, <1>6, SeqEqual
  <1>8. IsPrefix(u, v)
    BY <1>1, <1>4, <1>7 DEF IsPrefix
  <1> QED  BY <1>8 DEF IsSuffix, u, v

LEMMA EndTransitive ==
  ASSUME NEW r \in Seq(Candle), NEW s \in Seq(Candle), NEW t \in Seq(Candle),
         EndOf(t, s), EndOf(s, r)
  PROVE  EndOf(t, r)
  <1>1. /\ Len(r) \in Nat /\ Len(s) \in Nat /\ Len(t) \in Nat
        /\ Len(t) <= Len(s) /\ Len(s) <= Len(r) /\ (t = <<>> => r = <<>>)
    BY LenProperties DEF EndOf
  <1>2. ASSUME NEW i \in 1 .. Len(t)
        PROVE  t[i] = r[Len(r) - Len(t) + i]
    <2>1. /\ Len(s) - Len(t) + i \in 1 .. Len(s)
          /\ Len(r) - Len(s) + (Len(s) - Len(t) + i) = Len(r) - Len(t) + i
      BY <1>1
    <2> QED  BY <2>1 DEF EndOf
  <1>3. Len(t) <= Len(r)
    BY <1>1
  <1> QED  BY <1>1, <1>2, <1>3 DEF EndOf

LEMMA EndConcat ==
  ASSUME NEW s \in Seq(Candle), NEW t \in Seq(Candle), NEW x \in Seq(Candle), EndOf(t, s)
  PROVE  EndOf(t \o x, s \o x)
  <1> DEFINE u == t \o x
             v == s \o x
             m == Len(t)
             n == Len(s)
             k == Len(x)
  <1>1. m \in Nat /\ n \in Nat /\ k \in Nat /\ m <= n /\ (m = 0 => n = 0)
    BY EmptySeq, LenProperties DEF EndOf
  <1>2. /\ u \in Seq(Candle) /\ Len(u) = m + k
        /\ \A i \in 1 .. m + k : u[i] = IF i <= m THEN t[i] ELSE x[i - m]
    BY ConcatProperties
  <1>3. /\ v \in Seq(Candle) /\ Len(v) = n + k
        /\ \A i \in 1 .. n + k : v[i] = IF i <= n THEN s[i] ELSE x[i - n]
    BY ConcatProperties
  <1>4. \A i \in 1 .. m : t[i] = s[n - m + i]
    BY DEF EndOf
  <1> HIDE DEF u, v, m, n, k
  <1>5. ASSUME NEW i \in 1 .. Len(u)
        PROVE  u[i] = v[Len(v) - Len(u) + i]
    <2>1. Len(v) - Len(u) + i = n - m + i /\ i \in 1 .. m + k /\ n - m + i \in 1 .. n + k
      BY <1>1, <1>2, <1>3
    <2>2. CASE i <= m
      <3>1. i \in 1 .. m /\ n - m + i <= n
        BY <1>1, <2>1, <2>2
      <3>2. u[i] = t[i] /\ t[i] = s[n - m + i]
        BY <1>2, <1>4, <2>1, <2>2, <3>1
      <3>3. v[n - m + i] = s[n - m + i]
        BY <1>3, <2>1, <3>1
      <3> QED  BY <2>1, <3>2, <3>3
    <2>3. CASE ~(i <= m)
      <3>1. ~(n - m + i <= n) /\ (n - m + i) - n = i - m
        BY <1>1, <2>1, <2>3
      <3> QED  BY <1>2, <1>3, <2>1, <2>3, <3>1
    <2> QED  BY <2>2, <2>3
  <1>6. Len(u) <= Len(v) /\ (u = <<>> => v = <<>>)
    <2>1. Len(u) <= Len(v) /\ (Len(u) = 0 => Len(v) = 0)
      BY <1>1, <1>2, <1>3
    <2> QED  BY <1>2, <1>3, <2>1, EmptySeq
  <1> QED  BY <1>5, <1>6 DEF EndOf, u, v

LEMMA EndReflexive == \A s \in Seq(Candle) : EndOf(s, s)
  <1>1. TAKE s \in Seq(Candle)
  <1>2. Len(s) \in Nat
    BY LenProperties
  <1>3. \A i \in 1 .. Len(s) : Len(s) - Len(s) + i = i
    BY <1>2
  <1> QED  BY <1>2, <1>3 DEF EndOf

\* With room for no more candles than are loaded, whatever is kept of the
\* history was given to the strategy.
LEMMA EndKept ==
  ASSUME History <= Limit, IInv, EndOf(hist, fed), [Next]_vars
  PROVE  EndOf(hist', fed')
  <1>1. hist \in Seq(Candle) /\ fed \in Seq(Candle) /\ Len(hist) <= History
    BY DEF IInv, Following
  <1>2. History \in Nat \ {0} /\ Limit \in Nat \ {0}
    BY PipelineAssumption
  <1>3. ASSUME NEW x \in Seq(Candle), Deliver(x), hist' = Keep(hist \o x)
        PROVE  EndOf(hist', fed')
    <2>1. /\ fed' = fed \o x /\ hist \o x \in Seq(Candle) /\ fed \o x \in Seq(Candle)
          /\ hist' \in Seq(Candle) /\ EndOf(hist', hist \o x)
      BY <1>1, <1>3, Delivered, ConcatProperties DEF IInv
    <2>2. EndOf(hist \o x, fed \o x)
      BY <1>1, EndConcat
    <2> QED  BY <2>1, <2>2, EndTransitive
  <1>4. ASSUME NEW h \in Seq(Candle), Len(h) <= History
        PROVE  LastOf(h, Limit) = h /\ EndOf(h, h)
    <2>1. ~(Len(h) > Limit)
      BY <1>2, <1>4, LenProperties
    <2> QED  BY <2>1, SubSeqFull, EndReflexive DEF LastOf
  <1>5. ASSUME UNCHANGED <<hist, fed>>
        PROVE  EndOf(hist', fed')
    BY <1>5
  <1>6. CASE Receive
    <2>1. \/ UNCHANGED candles
          \/ \E x \in Seq(Candle) : Deliver(x) /\ hist' = Keep(hist \o x)
      BY <1>6, ReceiveKeeps DEF IInv
    <2> QED  BY <1>3, <1>5, <2>1 DEF candles
  <1>7. CASE Boundary
    <2>1. cur \in Candle /\ Deliver(<<cur>>) /\ hist' = Keep(Append(hist, cur))
      BY <1>7 DEF Boundary, IInv, Following
    <2>2. Append(hist, cur) = hist \o <<cur>> /\ <<cur>> \in Seq(Candle)
      BY <1>1, <2>1, AppendIsConcat
    <2> QED  BY <1>3, <2>1, <2>2
  <1>8. ASSUME NEW l \in Loads, Load(l)
        PROVE  EndOf(hist', fed')
    <2>1. fed' = LastOf(hist', Limit)
      BY <1>8 DEF Load, Seed, LastOf
    <2>2. PICK close \in [1 .. Limit -> Prices] : hist' = Keep(Closed(load[l].at, close))
      BY <1>8 DEF Load
    <2>3. load[l].at \in Minutes /\ Limit <= load[l].at /\ load[l].at <= now
      BY <1>8 DEF Load, IInv, Feed
    <2>4. hist' \in Seq(Candle) /\ Len(hist') <= History
      BY <2>2, <2>3, ClosedFacts, KeepFacts DEF IInv
    <2> QED  BY <1>4, <2>1, <2>4
  <1>9. ASSUME NEW l \in Loads, LoadFails(l)
        PROVE  EndOf(hist', fed')
    <2>1. fed' = LastOf(hist, Limit) /\ hist' = hist
      BY <1>9 DEF LoadFails, Seed, LastOf
    <2> QED  BY <1>1, <1>4, <2>1
  <1>10. CASE RemoveSymbol
    <2>1. hist' = <<>> /\ fed' = <<>> /\ <<>> \in Seq(Candle)
      BY <1>10, EmptySeq DEF RemoveSymbol
    <2> QED  BY <2>1, EndReflexive
  <1>11. CASE Minute \/ Lose \/ Unsubscribed \/ UNCHANGED vars
    BY <1>5, <1>11 DEF Minute, Lose, Unsubscribed, vars, candles
  <1>12. ASSUME NEW p \in Prices, Trade(p)
         PROVE  EndOf(hist', fed')
    BY <1>5, <1>12 DEF Trade, candles
  <1>13. ASSUME NEW l \in Loads, AddSymbol(l) \/ Answer(l)
         PROVE  EndOf(hist', fed')
    BY <1>5, <1>13 DEF AddSymbol, Answer, candles
  <1> QED
    BY <1>6, <1>7, <1>8, <1>9, <1>10, <1>11, <1>12, <1>13 DEF Next
-------------------------------------------------------------------------------
(* Theorems *)

\* Candles, ticks and loads stay in order and the strategy with its candles,
\* whatever ticks, loads, removals and lost connections come in between.
THEOREM Inductive == Spec => []IInv
  <1>1. IInv /\ [Next]_vars => IInv'
    BY FeedKept, BuildingKept, FollowingKept DEF IInv
  <1> QED  BY <1>1, Starts, PTL DEF Spec

\* Every variable keeps its type and its bound.
THEOREM Types == Spec => []TypeOK
  BY Inductive, Invariants, PTL

\* RollingExact: the rolling sum, count and average of _calculate decide as the
\* definitions of the averages over all closes since the seed.
THEOREM Averages == Spec => []RollingExact
  BY Inductive, Invariants, PTL

\* TrendTold: from a seed on process_candle misses no turn of the trend and tells
\* none that is not: the standing side is that of the last signal, or, as long as
\* there was none, that of the first comparison.
THEOREM Trend == Spec => []TrendTold
  BY Inductive, Invariants, PTL

\* OrderedUnlessStraddled: candles reach the strategy in order, each minute once,
\* and a hole is only left behind the History fillers of _append_gap_fillers.
THEOREM InSequence == Spec => []OrderedUnlessStraddled
  BY Inductive, Invariants, PTL

\* FollowsHistory: the indicators are those of the candles on show, given that no
\* more candles are kept than are loaded (config.yaml has 120 of both).
THEOREM Follows == ASSUME History <= Limit PROVE Spec => []FollowsHistory
  <1> DEFINE Ends == EndOf(hist, fed)
  <1>1. Init => Ends
    <2>1. <<>> \in Seq(Candle)
      BY EmptySeq
    <2> QED  BY <2>1, EndReflexive DEF Init
  <1>2. IInv /\ Ends /\ [Next]_vars => Ends'
    BY EndKept
  <1>3. IInv /\ Ends => FollowsHistory
    BY SuffixIsEnd DEF IInv, Following, FollowsHistory
  <1> QED  BY <1>1, <1>2, <1>3, Inductive, PTL DEF Spec
===============================================================================
