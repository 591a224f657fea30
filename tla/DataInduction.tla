----------------------------- MODULE DataInduction -----------------------------
(***************************************************************************)
(* Induction over numbers and sequences, and functions defined by          *)
(* recursion, for the theorems about loops.                                *)
(*                                                                         *)
(* Induction follows from the fact of WellFoundedInduction that a set of   *)
(* naturals has a least member; over sequences it follows from that over   *)
(* their length.  The rules are stated with a set, since those of the      *)
(* library take an operator.                                               *)
(***************************************************************************)
EXTENDS Integers, Sequences, SequenceTheorems, WellFoundedInduction, TLAPS

-----------------------------------------------------------------------------
(* Induction, and functions defined by recursion.                          *)

LEMMA LeastMember ==
  ASSUME NEW T \in SUBSET Nat, T # {}
  PROVE  \E m \in T : \A k \in T : m <= k
<1> DEFINE R == {pair \in Nat \X Nat : pair[1] < pair[2]}
<1>1. IsWellFoundedOn(R, Nat)
  BY NatLessThanWellFounded DEF OpToRel
<1>2. \A k, m \in Nat : k < m => <<k, m>> \in R
  OBVIOUS
<1> HIDE DEF R
<1>3. \E m \in T : \A k \in T : ~(<<k, m>> \in R)
  BY <1>1, WFMin
<1>4. \A k, m \in T : <<k, m>> \notin R => m <= k
  <2> SUFFICES ASSUME NEW k \in T, NEW m \in T, ~(m <= k) PROVE <<k, m>> \in R
    OBVIOUS
  <2>1. k \in Nat /\ m \in Nat /\ k < m
    OBVIOUS
  <2>2. QED
    BY <1>2, <2>1
<1>5. QED
  BY <1>3, <1>4, Zenon

LEMMA Induction ==
  ASSUME NEW S, 0 \in S, \A n \in Nat : n \in S => n + 1 \in S
  PROVE  Nat \subseteq S
<1> DEFINE T == Nat \ S
<1>1. CASE T # {}
  <2>1. PICK m \in T : \A k \in T : m <= k
    BY <1>1, LeastMember
  <2>2. m # 0 /\ m - 1 \in Nat /\ m - 1 < m
    BY <2>1
  <2>3. m - 1 \in S
    BY <2>1, <2>2
  <2>4. QED
    BY <2>1, <2>2, <2>3
<1>2. QED
  BY <1>1

LEMMA Recursion ==
  ASSUME NEW A, NEW base \in A, NEW step \in [Nat -> [A -> A]]
  PROVE  \E f \in [Nat -> A] :
           \A n \in Nat : f[n] = IF n = 0 THEN base ELSE step[n][f[n - 1]]
<1> DEFINE Until(f, n) == \A i \in 0..n : f[i] = IF i = 0 THEN base ELSE step[i][f[i - 1]]
           S == {n \in Nat : \E f \in [0..n -> A] : Until(f, n)}
<1>1. 0 \in S
  <2>1. [i \in 0..0 |-> base] \in [0..0 -> A] /\ Until([i \in 0..0 |-> base], 0)
    OBVIOUS
  <2>2. QED
    BY <2>1
<1>2. ASSUME NEW n \in Nat, n \in S PROVE n + 1 \in S
  <2>1. PICK f \in [0..n -> A] : Until(f, n)
    BY <1>2
  <2> DEFINE g == [i \in 0..(n + 1) |-> IF i <= n THEN f[i] ELSE step[n + 1][f[n]]]
  <2>2. step[n + 1][f[n]] \in A
    <3>1. step[n + 1] \in [A -> A] /\ f[n] \in A
      OBVIOUS
    <3>2. QED
      BY <3>1
  <2>3. g \in [0..(n + 1) -> A]
    BY <2>2
  <2>4. ASSUME NEW i \in 0..(n + 1) PROVE g[i] = IF i = 0 THEN base ELSE step[i][g[i - 1]]
    <3>1. CASE i <= n
      <4>1. i \in 0..n /\ g[i] = f[i] /\ (i # 0 => g[i - 1] = f[i - 1])
        BY <3>1
      <4>2. QED
        BY <2>1, <4>1
    <3>2. CASE i = n + 1
      <4>1. i # 0 /\ g[i] = step[n + 1][f[n]] /\ g[i - 1] = f[n]
        BY <3>2
      <4>2. QED
        BY <3>2, <4>1
    <3>3. QED
      BY <3>1, <3>2
  <2>5. Until(g, n + 1)
    BY <2>4
  <2> HIDE DEF g, Until
  <2>6. QED
    BY <2>3, <2>5
<1>3. Nat \subseteq S
  <2> HIDE DEF S
  <2>1. QED
    BY <1>1, <1>2, Induction
<1>4. \A n \in Nat : \E f \in [0..n -> A] : Until(f, n)
  BY <1>3
<1> DEFINE upto == [n \in Nat |-> CHOOSE f \in [0..n -> A] : Until(f, n)]
<1>5. \A n \in Nat : upto[n] \in [0..n -> A] /\ Until(upto[n], n)
  BY <1>4
<1> HIDE DEF upto
<1> DEFINE Agree == {m \in Nat : \A n \in Nat : m <= n => upto[n][m] = upto[m][m]}
<1>6. Nat \subseteq Agree
  <2>1. 0 \in Agree
    BY <1>5
  <2>2. ASSUME NEW m \in Nat, m \in Agree PROVE m + 1 \in Agree
    <3> SUFFICES ASSUME NEW n \in Nat, m + 1 <= n
                 PROVE  upto[n][m + 1] = upto[m + 1][m + 1]
      OBVIOUS
    <3>1. upto[n][m + 1] = step[m + 1][upto[n][m]]
      BY <1>5
    <3>2. upto[m + 1][m + 1] = step[m + 1][upto[m + 1][m]]
      BY <1>5
    <3>3. m <= n /\ m <= m + 1 /\ m + 1 \in Nat
      OBVIOUS
    <3>4. upto[n][m] = upto[m][m] /\ upto[m + 1][m] = upto[m][m]
      BY <2>2, <3>3
    <3>5. QED
      BY <3>1, <3>2, <3>4
  <2> HIDE DEF Agree
  <2>3. QED
    BY <2>1, <2>2, Induction
<1> DEFINE h == [n \in Nat |-> upto[n][n]]
<1>7. h \in [Nat -> A]
  BY <1>5
<1>8. ASSUME NEW n \in Nat PROVE h[n] = IF n = 0 THEN base ELSE step[n][h[n - 1]]
  <2>1. CASE n = 0
    BY <1>5, <2>1
  <2>2. CASE n # 0
    <3>1. n - 1 \in Nat /\ n - 1 <= n /\ n \in 0..n
      BY <2>2
    <3>2. upto[n][n] = step[n][upto[n][n - 1]]
      BY <1>5, <2>2, <3>1
    <3>3. upto[n][n - 1] = upto[n - 1][n - 1]
      BY <1>6, <3>1
    <3>4. QED
      BY <2>2, <3>1, <3>2, <3>3
  <2>3. QED
    BY <2>1, <2>2
<1>9. QED
  BY <1>7, <1>8

(* Induction over a sequence.                                              *)
LEMMA SequenceInduction ==
  ASSUME NEW A, NEW S, << >> \in S,
         \A s \in Seq(A), x \in A : s \in S => Append(s, x) \in S
  PROVE  Seq(A) \subseteq S
<1> DEFINE Done == {n \in Nat : \A s \in Seq(A) : Len(s) = n => s \in S}
<1>1. 0 \in Done
  OBVIOUS
<1>2. ASSUME NEW n \in Nat, n \in Done PROVE n + 1 \in Done
  <2> SUFFICES ASSUME NEW s \in Seq(A), Len(s) = n + 1 PROVE s \in S
    OBVIOUS
  <2> DEFINE front == SubSeq(s, 1, n)
             last  == s[n + 1]
  <2>1. front \in Seq(A) /\ Len(front) = n /\ last \in A /\ s = Append(front, last)
    OBVIOUS
  <2> HIDE DEF front, last
  <2>2. front \in S
    BY <1>2, <2>1
  <2>3. QED
    BY <2>1, <2>2
<1>3. Nat \subseteq Done
  <2> HIDE DEF Done
  <2>1. QED
    BY <1>1, <1>2, Induction
<1>4. QED
  BY <1>3

LEMMA Split ==
  ASSUME NEW A, NEW u \in Seq(A), NEW m \in 0..Len(u)
  PROVE  /\ SubSeq(u, 1, m) \in Seq(A) /\ Len(SubSeq(u, 1, m)) = m
         /\ SubSeq(u, m + 1, Len(u)) \in Seq(A)
         /\ Len(SubSeq(u, m + 1, Len(u))) = Len(u) - m
         /\ u = SubSeq(u, 1, m) \o SubSeq(u, m + 1, Len(u))
<1>1. Len(u) \in Nat /\ \A i \in 1..Len(u) : u[i] \in A
  OBVIOUS
<1>2. SubSeq(u, 1, m) \in Seq(A) /\ Len(SubSeq(u, 1, m)) = m
  BY <1>1, SubSeqProperties
<1>3. /\ SubSeq(u, m + 1, Len(u)) \in Seq(A)
      /\ Len(SubSeq(u, m + 1, Len(u))) = Len(u) - m
  BY <1>1, SubSeqProperties
<1>4. SubSeq(u, 1, m) \o SubSeq(u, m + 1, Len(u)) = SubSeq(u, 1, Len(u))
  <2>1. 1 \in 1..(Len(u) + 1) /\ m \in (1 - 1)..Len(u) /\ Len(u) \in m..Len(u)
    BY <1>1
  <2>2. QED
    BY <2>1, ConcatAdjacentSubSeq, Zenon
<1>5. QED
  BY <1>2, <1>3, <1>4, SubSeqFull

(* Induction over a sequence, d elements at a time: the last time, fewer.  *)
LEMMA ChunkInduction ==
  ASSUME NEW A, NEW S, NEW d \in Nat \ {0}, << >> \in S,
         \A s \in Seq(A), t \in Seq(A), k \in Nat :
           s \in S /\ Len(s) = d * k /\ 0 < Len(t) /\ Len(t) <= d => s \o t \in S
  PROVE  Seq(A) \subseteq S
<1> DEFINE Done == {n \in Nat : \A s \in Seq(A) : Len(s) <= d * n => s \in S}
<1>1. 0 \in Done
  OBVIOUS
<1>2. ASSUME NEW n \in Nat, n \in Done PROVE n + 1 \in Done
  <2> SUFFICES ASSUME NEW u \in Seq(A), Len(u) <= d * (n + 1), Len(u) > d * n
               PROVE  u \in S
    BY <1>2
  <2> DEFINE m == d * n
             s == SubSeq(u, 1, m)
             t == SubSeq(u, m + 1, Len(u))
  <2>1. m \in Nat /\ m < Len(u) /\ Len(u) <= m + d /\ m = d * n
    OBVIOUS
  <2> HIDE DEF m
  <2>2. m \in 0..Len(u)
    BY <2>1
  <2>3. s \in Seq(A) /\ t \in Seq(A) /\ Len(s) = m /\ Len(t) = Len(u) - m /\ u = s \o t
    <3> HIDE DEF s, t
    <3>1. s = SubSeq(u, 1, m) /\ t = SubSeq(u, m + 1, Len(u))
      BY DEF s, t
    <3>2. /\ SubSeq(u, 1, m) \in Seq(A) /\ Len(SubSeq(u, 1, m)) = m
          /\ SubSeq(u, m + 1, Len(u)) \in Seq(A)
          /\ Len(SubSeq(u, m + 1, Len(u))) = Len(u) - m
          /\ u = SubSeq(u, 1, m) \o SubSeq(u, m + 1, Len(u))
      BY ONLY <2>2, u \in Seq(A), Split
    <3>3. QED
      BY <3>1, <3>2
  <2> HIDE DEF s, t
  <2>4. s \in S
    BY <1>2, <2>1, <2>3
  <2>5. 0 < Len(t) /\ Len(t) <= d /\ Len(s) = d * n
    BY <2>1, <2>3
  <2>6. s \o t \in S
    BY <2>3, <2>4, <2>5
  <2>7. QED
    BY <2>3, <2>6
<1>3. Nat \subseteq Done
  <2> HIDE DEF Done
  <2>1. QED
    BY <1>1, <1>2, Induction
<1>4. \A s \in Seq(A) : Len(s) \in Done /\ Len(s) <= d * Len(s)
  BY <1>3
<1>5. QED
  BY <1>4

(* Loops: f is the value of the variable after each turn.                  *)
Runs(f, step, n) == f[0] = 0 /\ \A k \in 1..n : f[k] = step[k][f[k - 1]]

LEMMA LoopRuns ==
  ASSUME NEW A, 0 \in A, NEW step \in [Nat -> [A -> A]], NEW n \in Nat
  PROVE  \E f \in [0..n -> A] : Runs(f, step, n)
<1>1. PICK f \in [Nat -> A] :
             \A k \in Nat : f[k] = IF k = 0 THEN 0 ELSE step[k][f[k - 1]]
  BY Recursion
<1> DEFINE g == [k \in 0..n |-> f[k]]
<1>2. g \in [0..n -> A] /\ Runs(g, step, n)
  BY <1>1 DEF Runs
<1>3. QED
  BY <1>2

(* Two loops that take the same turns give the same.                       *)
InStep(f, g, n) ==
  f[0] = g[0] /\ \A k \in 1..n : f[k - 1] = g[k - 1] => f[k] = g[k]

LEMMA SameTurns ==
  ASSUME NEW n \in Nat, NEW f, NEW g, InStep(f, g, n)
  PROVE  f[n] = g[n]
<1> DEFINE Same == {k \in Nat : k <= n => f[k] = g[k]}
<1>1. 0 \in Same
  BY DEF InStep
<1>2. ASSUME NEW k \in Nat, k \in Same PROVE k + 1 \in Same
  <2> SUFFICES ASSUME k + 1 <= n PROVE f[k + 1] = g[k + 1]
    OBVIOUS
  <2>1. k + 1 \in 1..n /\ (k + 1) - 1 = k /\ f[k] = g[k]
    BY <1>2
  <2>2. QED
    BY <2>1 DEF InStep
<1>3. Nat \subseteq Same
  <2> HIDE DEF Same
  <2>1. QED
    BY <1>1, <1>2, Induction
<1>4. QED
  BY <1>3

-----------------------------------------------------------------------------
(* Parts of a sequence, and division.                                      *)

(* The two ends of a sequence.                                             *)
LEMMA PrefixType ==
  ASSUME NEW A, NEW s \in Seq(A), NEW n \in 0..Len(s)
  PROVE  /\ SubSeq(s, 1, n) \in Seq(A) /\ Len(SubSeq(s, 1, n)) = n
         /\ \A i \in 1..n : SubSeq(s, 1, n)[i] = s[i]
<1>1. Len(s) \in Nat /\ \A i \in 1..Len(s) : s[i] \in A
  OBVIOUS
<1>2. QED
  BY <1>1, SubSeqProperties

LEMMA SuffixType ==
  ASSUME NEW A, NEW s \in Seq(A), NEW n \in 0..Len(s)
  PROVE  /\ SubSeq(s, n + 1, Len(s)) \in Seq(A)
         /\ Len(SubSeq(s, n + 1, Len(s))) = Len(s) - n
         /\ \A i \in 1..(Len(s) - n) : SubSeq(s, n + 1, Len(s))[i] = s[n + i]
<1> DEFINE m == Len(s)
<1>1. m \in Nat /\ \A i \in (n + 1)..m : s[i] \in A
  OBVIOUS
<1>2. n \in 0..m
  OBVIOUS
<1> HIDE DEF m
<1>3. /\ SubSeq(s, n + 1, m) \in Seq(A)
      /\ Len(SubSeq(s, n + 1, m)) = IF n + 1 <= m THEN m - (n + 1) + 1 ELSE 0
      /\ \A i \in 1..(m - (n + 1) + 1) : SubSeq(s, n + 1, m)[i] = s[(n + 1) + i - 1]
  BY <1>1, <1>2, SubSeqProperties
<1>4. /\ m - (n + 1) + 1 = m - n
      /\ \A i \in 1..(m - n) : (n + 1) + i - 1 = n + i
      /\ (IF n + 1 <= m THEN m - (n + 1) + 1 ELSE 0) = m - n
  BY <1>1, <1>2
<1>5. QED
  BY <1>3, <1>4 DEF m

LEMMA FunctionIsSeq ==
  ASSUME NEW A, NEW n \in Nat, NEW f \in [1..n -> A]
  PROVE  f \in Seq(A) /\ Len(f) = n
OBVIOUS

LEMMA DivMod ==
  ASSUME NEW a \in Nat, NEW d \in Nat \ {0}
  PROVE  /\ a = d * (a \div d) + (a % d)
         /\ a % d \in 0..(d - 1) /\ a \div d \in Nat
OBVIOUS
=============================================================================
