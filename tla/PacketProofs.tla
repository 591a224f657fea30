----------------------------- MODULE PacketProofs -----------------------------
(***************************************************************************)
(* Theorems about Checksum and Packets, for every width of a byte, every   *)
(* size of buffer and fragment, every address, port and payload, and       *)
(* damage to any byte.                                                     *)
(*                                                                         *)
(* Checksum: the two functions of the code compute the checksum of         *)
(* RFC 1071 of every sequence of bytes.  The loops of the code and of the  *)
(* reference end in numbers that are the same modulo 2^16 - 1, and zero    *)
(* together (Like); a number is folded to the one from 0 to 2^16 - 1 that  *)
(* is Like it (Norm).                                                      *)
(*                                                                         *)
(* Packets: no property needs more of the state before a step than that    *)
(* the buffers hold bytes, so TypeOK is the invariant.  The work is in one *)
(* step:                                                                   *)
(*   - the loop of eth_recv_cb leaves in the buffer what came of a packet, *)
(*     however it was cut (ReassembledIs);                                 *)
(*   - checksums computed anew over a packet with the right fields make it *)
(*     the packet that a host would send (ResummedIs), and over any packet *)
(*     one that verifies (ResummedVerifies);                               *)
(*   - one byte that differs changes a sum by less than 2^16 - 1, so the   *)
(*     check sees it (ChangeSeen): what is taken in has the header that    *)
(*     was sent (Received), and where the data is checked all that was     *)
(*     sent (DataKept).                                                    *)
(***************************************************************************)
EXTENDS Packets, DataInduction

-----------------------------------------------------------------------------
(* Sums.                                                                   *)

Total(s) == Accumulated(Plus, s)

(* f holds the partial sums of s.                                          *)
Sums(f, s) ==
  /\ f \in [0..Len(s) -> Nat] /\ f[0] = 0
  /\ \A k \in 1..Len(s) : f[k] = f[k - 1] + s[k]

LEMMA TotalSums ==
  ASSUME NEW s \in Seq(Nat)
  PROVE  \E f : Sums(f, s) /\ Total(s) = f[Len(s)]
<1> DEFINE step == [k \in Nat |-> [a \in Nat |-> IF k \in DOMAIN s THEN a + s[k] ELSE a]]
<1>1. Len(s) \in Nat /\ DOMAIN s = 1..Len(s) /\ \A k \in DOMAIN s : s[k] \in Nat
  OBVIOUS
<1>2. step \in [Nat -> [Nat -> Nat]]
  BY <1>1
<1>3. PICK f \in [0..Len(s) -> Nat] : Runs(f, step, Len(s))
  <2> HIDE DEF step
  <2>1. QED
    BY <1>1, <1>2, LoopRuns
<1>4. Sums(f, s)
  <2>1. ASSUME NEW k \in 1..Len(s) PROVE f[k] = f[k - 1] + s[k]
    <3>1. k \in Nat /\ k \in DOMAIN s /\ f[k - 1] \in Nat
      BY <1>1
    <3>2. step[k][f[k - 1]] = f[k - 1] + s[k]
      BY <3>1
    <3>3. f[k] = step[k][f[k - 1]]
      BY <1>3 DEF Runs
    <3>4. QED
      BY <3>2, <3>3
  <2>2. QED
    BY <1>3, <2>1 DEF Runs, Sums
<1> HIDE DEF step
<1> DEFINE Loop(g) == [k \in 0..Len(s) |-> IF k = 0 THEN 0 ELSE g[k - 1] + s[k]]
           loop == CHOOSE g : g = Loop(g)
<1>5. f = Loop(f)
  BY <1>4 DEF Sums
<1>6. loop = Loop(loop)
  BY <1>5
<1>7. Total(s) = loop[Len(s)]
  BY DEF Total, Accumulated, Plus
<1> HIDE DEF loop
<1>8. InStep(f, loop, Len(s))
  <2>1. \A k \in 0..Len(s) : loop[k] = IF k = 0 THEN 0 ELSE loop[k - 1] + s[k]
    BY <1>6
  <2>2. QED
    BY <1>1, <1>4, <2>1 DEF Sums, InStep
<1>9. f[Len(s)] = loop[Len(s)]
  BY <1>1, <1>8, SameTurns
<1>10. QED
  BY <1>4, <1>7, <1>9

LEMMA TotalAppend ==
  ASSUME NEW s \in Seq(Nat), NEW x \in Nat
  PROVE  Total(<< >>) = 0 /\ Total(s) \in Nat /\ Total(Append(s, x)) = Total(s) + x
<1> DEFINE t == Append(s, x)
           n == Len(s)
<1>1. /\ n \in Nat /\ t \in Seq(Nat) /\ Len(t) = n + 1
      /\ \A k \in 1..n : t[k] = s[k]
      /\ t[n + 1] = x
  BY AppendProperties
<1>2. PICK f : Sums(f, s) /\ Total(s) = f[Len(s)]
  BY TotalSums
<1>3. PICK g : Sums(g, t) /\ Total(t) = g[Len(t)]
  BY <1>1, TotalSums
<1> HIDE DEF t, n
<1>4. Len(s) = n
  BY DEF n
<1>5. InStep(f, g, n)
  BY <1>1, <1>2, <1>3, <1>4 DEF Sums, InStep
<1>6. f[n] = g[n]
  BY <1>1, <1>5, SameTurns
<1>7. f[n] \in Nat
  BY <1>1, <1>2, <1>4 DEF Sums
<1>8. g[n + 1] = g[n] + x
  BY <1>1, <1>3 DEF Sums
<1>9. Total(<< >>) = 0
  <2>1. << >> \in Seq(Nat) /\ Len(<< >>) = 0
    OBVIOUS
  <2>2. PICK h : Sums(h, << >>) /\ Total(<< >>) = h[Len(<< >>)]
    BY <2>1, TotalSums
  <2>3. QED
    BY <2>1, <2>2 DEF Sums
<1>10. QED
  BY <1>1, <1>2, <1>3, <1>4, <1>6, <1>7, <1>8, <1>9 DEF t

LEMMA TotalConcat ==
  ASSUME NEW s \in Seq(Nat), NEW t \in Seq(Nat)
  PROVE  Total(s \o t) = Total(s) + Total(t)
<1> DEFINE S == {u \in Seq(Nat) : Total(s \o u) = Total(s) + Total(u)}
<1>1. << >> \in S
  <2>1. s \o << >> = s /\ << >> \in Seq(Nat)
    OBVIOUS
  <2>2. Total(<< >>) = 0 /\ Total(s) \in Nat
    BY TotalAppend
  <2>3. QED
    BY <2>1, <2>2
<1>2. ASSUME NEW u \in Seq(Nat), NEW x \in Nat, u \in S PROVE Append(u, x) \in S
  <2>1. s \o Append(u, x) = Append(s \o u, x) /\ Append(u, x) \in Seq(Nat) /\ s \o u \in Seq(Nat)
    OBVIOUS
  <2>2. Total(Append(s \o u, x)) = Total(s \o u) + x
    BY <2>1, TotalAppend
  <2>3. Total(Append(u, x)) = Total(u) + x /\ Total(u) \in Nat /\ Total(s) \in Nat
    BY TotalAppend
  <2>4. Total(s \o u) = Total(s) + Total(u)
    BY <1>2
  <2>5. Total(s \o Append(u, x)) = (Total(s) + Total(u)) + x
    BY <2>1, <2>2, <2>4
  <2>6. (Total(s) + Total(u)) + x = Total(s) + Total(Append(u, x))
    BY <2>3
  <2>7. QED
    BY <2>1, <2>5, <2>6
<1>3. Seq(Nat) \subseteq S
  <2> HIDE DEF S
  <2>1. QED
    BY <1>1, <1>2, SequenceInduction
<1>4. QED
  BY <1>3


-----------------------------------------------------------------------------
(* One's complement numbers.                                               *)

M == Half - 1

LEMMA Widths ==
  /\ B \in Nat /\ B >= 2 /\ Half = B * B /\ Half \in Nat /\ Half >= 4
  /\ M \in Nat /\ M >= 3 /\ Half = M + 1
  /\ Word = Half * Half /\ Word \in Nat /\ Word - 1 = (M + 2) * M
<1>1. B \in Nat /\ B >= 2
  BY ByteAssumption
<1>2. Half \in Nat /\ Half >= 4
  <2>1. B * B \in Nat /\ B * B >= 2 * 2
    BY <1>1
  <2>2. QED
    BY <2>1 DEF Half
<1>3. Half * Half \in Nat
  BY <1>2
<1>4. Half * Half = (M + 2) * M + 1
  BY <1>2 DEF M
<1>5. (M + 2) * M \in Nat
  BY <1>2 DEF M
<1>6. QED
  BY <1>1, <1>2, <1>3, <1>4, <1>5 DEF Half, Word, M

(* Naturals that stand for the same number: only zero stands for zero.     *)
Like(a, b) ==
  /\ a \in Nat /\ b \in Nat
  /\ a = 0 <=> b = 0
  /\ \E k \in Int : a = b + k * M

LEMMA LikeSelf == \A a \in Nat : Like(a, a)
<1>1. 0 * M = 0 /\ 0 \in Int
  BY Widths
<1>2. QED
  BY <1>1 DEF Like

LEMMA LikeTrans ==
  ASSUME NEW a, NEW b, NEW c, Like(a, b), Like(b, c)
  PROVE  Like(a, c)
<1>1. PICK k \in Int : a = b + k * M
  BY DEF Like
<1>2. PICK l \in Int : b = c + l * M
  BY DEF Like
<1>3. a = c + (k + l) * M
  BY <1>1, <1>2, Widths DEF Like
<1>4. QED
  BY <1>3 DEF Like

LEMMA LikeSym ==
  ASSUME NEW a, NEW b, Like(a, b)
  PROVE  Like(b, a)
<1>1. PICK k \in Int : a = b + k * M
  BY DEF Like
<1>2. b = a + (-k) * M
  BY <1>1, Widths DEF Like
<1>3. QED
  BY <1>2 DEF Like

LEMMA LikePlus ==
  ASSUME NEW a, NEW b, NEW c, NEW d, Like(a, b), Like(c, d)
  PROVE  Like(a + c, b + d)
<1>1. PICK k \in Int : a = b + k * M
  BY DEF Like
<1>2. PICK l \in Int : c = d + l * M
  BY DEF Like
<1>3. a + c = (b + d) + (k + l) * M
  BY <1>1, <1>2, Widths DEF Like
<1>4. QED
  BY <1>3 DEF Like

(* The number from 1 to M, or zero, that stands for t.                     *)
Norm(t) == IF t = 0 THEN 0 ELSE 1 + ((t - 1) % M)

LEMMA NormIs ==
  ASSUME NEW t \in Nat
  PROVE  Norm(t) \in 0..M /\ Like(Norm(t), t)
<1>1. CASE t = 0
  BY <1>1, LikeSelf, Widths DEF Norm
<1>2. CASE t # 0
  <2> DEFINE q == (t - 1) \div M
             r == (t - 1) % M
  <2>a. t - 1 \in Nat /\ M \in Nat \ {0}
    BY <1>2, Widths
  <2>1. q \in Nat /\ r \in 0..(M - 1) /\ t - 1 = M * q + r
    BY <2>a, DivMod
  <2>2. Norm(t) = 1 + r
    BY <1>2 DEF Norm
  <2> HIDE DEF q, r
  <2>3. Norm(t) = t + (-q) * M /\ -q \in Int
    BY <1>2, <2>1, <2>2, Widths
  <2>4. Norm(t) \in 1..M
    BY <2>1, <2>2, Widths
  <2>5. QED
    BY <1>2, <2>3, <2>4 DEF Like
<1>3. QED
  BY <1>1, <1>2

LEMMA SmallLike ==
  ASSUME NEW a \in 0..M, NEW b \in 0..M, Like(a, b)
  PROVE  a = b
<1>1. PICK k \in Int : a = b + k * M
  BY DEF Like
<1>2. CASE k = 0
  BY <1>1, <1>2, Widths
<1>3. CASE k >= 1
  <2>1. k * M >= M
    BY <1>3, Widths
  <2>2. QED
    BY <1>1, <2>1, Widths DEF Like
<1>4. CASE k <= -1
  <2>1. k * M <= -M
    BY <1>4, Widths
  <2>2. QED
    BY <1>1, <2>1, Widths DEF Like
<1>5. QED
  BY <1>2, <1>3, <1>4

LEMMA NormUnique ==
  ASSUME NEW v \in 0..M, NEW t, Like(v, t)
  PROVE  v = Norm(t)
<1>1. t \in Nat
  BY DEF Like
<1>2. Like(v, Norm(t))
  BY <1>1, NormIs, LikeSym, LikeTrans
<1>3. QED
  BY <1>1, <1>2, NormIs, SmallLike

(* Adding the carries changes nothing.                                     *)
LEMMA CarriesAdded ==
  ASSUME NEW sum \in Nat
  PROVE  /\ (sum % Half) + (sum \div Half) \in Nat
         /\ Like((sum % Half) + (sum \div Half), sum)
         /\ sum >= Half => (sum % Half) + (sum \div Half) < sum
<1> DEFINE q == sum \div Half
           r == sum % Half
<1>a. Half \in Nat \ {0}
  BY Widths
<1>1. q \in Nat /\ r \in 0..(Half - 1) /\ sum = Half * q + r
  BY <1>a, DivMod
<1> HIDE DEF q, r
<1>2. sum = q * M + q + r
  BY <1>1, Widths
<1>3. r + q = sum + (-q) * M /\ -q \in Int
  BY <1>1, <1>2, Widths
<1>4. q * M \in Nat /\ (q >= 1 => q * M >= 1)
  BY <1>1, Widths
<1>5. sum = 0 => q = 0 /\ r = 0
  BY <1>1, <1>2, <1>4
<1>6. Like(r + q, sum)
  BY <1>1, <1>2, <1>3, <1>4, <1>5 DEF Like
<1>7. sum >= Half => q >= 1
  BY <1>1, Widths
<1>8. QED
  BY <1>1, <1>2, <1>4, <1>6, <1>7 DEF q, r

LEMMA FoldedIs ==
  ASSUME NEW sum \in Nat
  PROVE  Folded[sum] = Norm(sum)
<1> DEFINE Turn(f) == [n \in Nat |-> IF n < Half THEN n
                                     ELSE f[(n % Half) + (n \div Half)]]
           norm == [n \in Nat |-> Norm(n)]
<1>1. norm = Turn(norm)
  <2> SUFFICES ASSUME NEW n \in Nat PROVE norm[n] = Turn(norm)[n]
    OBVIOUS
  <2>1. CASE n < Half
    <3>1. n \in 0..M
      BY <2>1, Widths
    <3>2. n = Norm(n)
      BY <3>1, LikeSelf, NormUnique
    <3>3. QED
      BY <2>1, <3>2
  <2>2. CASE ~(n < Half)
    <3> DEFINE m == (n % Half) + (n \div Half)
    <3>1. m \in Nat /\ Like(m, n)
      BY CarriesAdded
    <3> HIDE DEF m
    <3>2. Norm(m) = Norm(n)
      BY <3>1, NormIs, NormUnique, LikeTrans
    <3>3. QED
      BY <2>2, <3>1, <3>2 DEF m
  <2>3. QED
    BY <2>1, <2>2
<1>2. Folded = Turn(Folded)
  BY <1>1 DEF Folded
<1> DEFINE Wrong == {n \in Nat : Folded[n] # Norm(n)}
<1>3. ASSUME Wrong # {} PROVE FALSE
  <2>1. PICK n \in Wrong : \A k \in Wrong : n <= k
    BY <1>3, LeastMember
  <2> DEFINE m == (n % Half) + (n \div Half)
  <2>2. n \in Nat /\ Folded[n] # Norm(n)
    OBVIOUS
  <2>3. CASE n < Half
    <3>1. n = Norm(n)
      <4>1. n \in 0..M
        BY <2>2, <2>3, Widths
      <4>2. QED
        BY <2>2, <4>1, LikeSelf, NormUnique
    <3>2. Folded[n] = n
      BY <1>2, <2>2, <2>3
    <3>3. QED
      BY <2>2, <3>1, <3>2
  <2>4. CASE ~(n < Half)
    <3>a. n >= Half
      BY <2>2, <2>4, Widths
    <3>1. m \in Nat /\ Like(m, n) /\ m < n
      BY <2>2, <3>a, CarriesAdded
    <3>2. Folded[n] = Folded[m]
      BY <1>2, <2>2, <2>4
    <3> HIDE DEF m
    <3>3. Folded[m] = Norm(m)
      BY <2>1, <2>2, <3>1
    <3>4. Norm(m) = Norm(n)
      BY <2>2, <3>1, NormIs, NormUnique, LikeTrans
    <3>5. QED
      BY <2>2, <3>2, <3>3, <3>4
  <2>5. QED
    BY <2>3, <2>4
<1>4. QED
  BY <1>3

-----------------------------------------------------------------------------
(* The two ways to add that the code has.                                  *)

Words == 0..(Word - 1)

LEMMA AddWithCarryIs ==
  ASSUME NEW a \in Words, NEW s \in Words
  PROVE  AddWithCarry(a, s) \in Words /\ Like(AddWithCarry(a, s), a + s)
<1>1. Word \in Nat \ {0} /\ Word - 1 = (M + 2) * M /\ M + 2 \in Nat /\ M \in Nat
  BY Widths
<1>2. CASE a + s < Word
  <2>1. (a + s) % Word = a + s
    BY <1>1, <1>2 DEF Words
  <2>2. AddWithCarry(a, s) = a + s
    BY <1>1, <2>1 DEF Words, AddWithCarry
  <2>3. a + s \in Words /\ a + s \in Nat
    BY <1>1, <1>2 DEF Words
  <2>4. QED
    BY <2>2, <2>3, LikeSelf
<1>3. CASE a + s >= Word
  <2>1. (a + s) % Word = a + s - Word
    BY <1>1, <1>3 DEF Words
  <2>2. AddWithCarry(a, s) = a + s - (Word - 1)
    BY <1>1, <2>1 DEF Words, AddWithCarry
  <2>3. AddWithCarry(a, s) = (a + s) + (-(M + 2)) * M /\ -(M + 2) \in Int
    BY <1>1, <2>2 DEF Words
  <2>4. AddWithCarry(a, s) \in Words \ {0} /\ a + s \in Nat \ {0}
    BY <1>1, <1>3, <2>2 DEF Words
  <2>5. QED
    BY <2>3, <2>4 DEF Like, Words
<1>4. QED
  BY <1>1, <1>2, <1>3 DEF Words

LEMMA AddFoldingIs ==
  ASSUME NEW a \in Nat, NEW s \in Nat
  PROVE  AddFolding(a, s) \in Nat /\ Like(AddFolding(a, s), a + s)
BY CarriesAdded, LikeSelf DEF AddFolding

LEMMA CarrySum ==
  ASSUME NEW s \in Seq(Words)
  PROVE  Accumulated(AddWithCarry, s) \in Words /\ Like(Accumulated(AddWithCarry, s), Total(s))
<1> DEFINE step == [k \in Nat |-> [a \in Words |-> IF k \in DOMAIN s THEN AddWithCarry(a, s[k]) ELSE a]]
<1>1. /\ Len(s) \in Nat /\ DOMAIN s = 1..Len(s) /\ \A k \in DOMAIN s : s[k] \in Words
      /\ 0 \in Words /\ Words \subseteq Nat
  BY Widths DEF Words
<1>2. step \in [Nat -> [Words -> Words]]
  BY <1>1, AddWithCarryIs
<1>3. PICK f \in [0..Len(s) -> Words] : Runs(f, step, Len(s))
  <2> HIDE DEF step
  <2>1. QED
    BY <1>1, <1>2, LoopRuns
<1>4. f[0] = 0 /\ \A k \in 1..Len(s) : f[k] = AddWithCarry(f[k - 1], s[k])
  <2>1. ASSUME NEW k \in 1..Len(s) PROVE f[k] = AddWithCarry(f[k - 1], s[k])
    <3>1. k \in Nat /\ k \in DOMAIN s /\ f[k - 1] \in Words
      BY <1>1
    <3>2. step[k][f[k - 1]] = AddWithCarry(f[k - 1], s[k])
      BY <3>1
    <3>3. f[k] = step[k][f[k - 1]]
      BY <1>3 DEF Runs
    <3>4. QED
      BY <3>2, <3>3
  <2>2. QED
    BY <1>3, <2>1 DEF Runs
<1> HIDE DEF step
<1> DEFINE Loop(g) == [k \in 0..Len(s) |-> IF k = 0 THEN 0 ELSE AddWithCarry(g[k - 1], s[k])]
           loop == CHOOSE g : g = Loop(g)
<1>5. f = Loop(f)
  BY <1>4
<1>6. loop = Loop(loop)
  BY <1>5
<1>7. Accumulated(AddWithCarry, s) = loop[Len(s)]
  BY DEF Accumulated
<1> HIDE DEF loop
<1>8. InStep(f, loop, Len(s))
  <2>1. ASSUME NEW k \in 1..Len(s) PROVE loop[k] = AddWithCarry(loop[k - 1], s[k])
    <3>1. k \in 0..Len(s) /\ k # 0
      BY <1>1
    <3>2. QED
      BY <1>6, <3>1, Zenon
  <2>2. loop[0] = 0
    BY <1>1, <1>6
  <2>3. QED
    BY <1>4, <2>1, <2>2, Zenon DEF InStep
<1>9. f[Len(s)] = loop[Len(s)]
  BY <1>1, <1>8, SameTurns
<1>10. s \in Seq(Nat)
  BY <1>1
<1>11. PICK g : Sums(g, s) /\ Total(s) = g[Len(s)]
  BY <1>10, TotalSums
<1> DEFINE Alike == {k \in Nat : k <= Len(s) => Like(f[k], g[k])}
<1>12. 0 \in Alike
  BY <1>4, <1>11, LikeSelf DEF Sums
<1>13. ASSUME NEW k \in Nat, k \in Alike PROVE k + 1 \in Alike
  <2> SUFFICES ASSUME k + 1 <= Len(s) PROVE Like(f[k + 1], g[k + 1])
    OBVIOUS
  <2>1. k + 1 \in 1..Len(s) /\ (k + 1) - 1 = k /\ k \in 0..Len(s)
    BY <1>1
  <2>2. Like(f[k], g[k])
    BY <1>1, <1>13
  <2>3. f[k + 1] = AddWithCarry(f[k], s[k + 1]) /\ g[k + 1] = g[k] + s[k + 1]
    BY <1>4, <1>11, <2>1 DEF Sums
  <2>4. f[k] \in Words /\ s[k + 1] \in Words
    BY <1>1, <2>1
  <2>5. Like(f[k + 1], f[k] + s[k + 1])
    BY <2>3, <2>4, AddWithCarryIs
  <2>6. Like(s[k + 1], s[k + 1])
    BY <1>1, <2>4, LikeSelf
  <2>7. Like(f[k] + s[k + 1], g[k + 1])
    BY <2>2, <2>3, <2>6, LikePlus
  <2>8. QED
    BY <2>5, <2>7, LikeTrans
<1>14. Nat \subseteq Alike
  <2> HIDE DEF Alike
  <2>1. QED
    BY <1>12, <1>13, Induction
<1>15. QED
  BY <1>1, <1>7, <1>9, <1>11, <1>14

LEMMA FoldingSum ==
  ASSUME NEW s \in Seq(Nat)
  PROVE  Accumulated(AddFolding, s) \in Nat /\ Like(Accumulated(AddFolding, s), Total(s))
<1> DEFINE step == [k \in Nat |-> [a \in Nat |-> IF k \in DOMAIN s THEN AddFolding(a, s[k]) ELSE a]]
<1>1. /\ Len(s) \in Nat /\ DOMAIN s = 1..Len(s) /\ \A k \in DOMAIN s : s[k] \in Nat
      /\ 0 \in Nat /\ Nat \subseteq Nat
  BY Widths
<1>2. step \in [Nat -> [Nat -> Nat]]
  BY <1>1, AddFoldingIs
<1>3. PICK f \in [0..Len(s) -> Nat] : Runs(f, step, Len(s))
  <2> HIDE DEF step
  <2>1. QED
    BY <1>1, <1>2, LoopRuns
<1>4. f[0] = 0 /\ \A k \in 1..Len(s) : f[k] = AddFolding(f[k - 1], s[k])
  <2>1. ASSUME NEW k \in 1..Len(s) PROVE f[k] = AddFolding(f[k - 1], s[k])
    <3>1. k \in Nat /\ k \in DOMAIN s /\ f[k - 1] \in Nat
      <4> HIDE DEF step
      <4>1. k \in Nat /\ k \in DOMAIN s /\ k - 1 \in 0..Len(s)
        BY <1>1
      <4>2. QED
        BY <4>1
    <3>2. step[k][f[k - 1]] = AddFolding(f[k - 1], s[k])
      BY <3>1
    <3>3. f[k] = step[k][f[k - 1]]
      BY <1>3 DEF Runs
    <3>4. QED
      BY <3>2, <3>3
  <2>2. QED
    BY <1>3, <2>1 DEF Runs
<1> HIDE DEF step
<1> DEFINE Loop(g) == [k \in 0..Len(s) |-> IF k = 0 THEN 0 ELSE AddFolding(g[k - 1], s[k])]
           loop == CHOOSE g : g = Loop(g)
<1>5. f = Loop(f)
  BY <1>4
<1>6. loop = Loop(loop)
  BY <1>5
<1>7. Accumulated(AddFolding, s) = loop[Len(s)]
  BY DEF Accumulated
<1> HIDE DEF loop
<1>8. InStep(f, loop, Len(s))
  <2>1. ASSUME NEW k \in 1..Len(s) PROVE loop[k] = AddFolding(loop[k - 1], s[k])
    <3>1. k \in 0..Len(s) /\ k # 0
      BY <1>1
    <3>2. QED
      BY <1>6, <3>1, Zenon
  <2>2. loop[0] = 0
    BY <1>1, <1>6
  <2>3. QED
    BY <1>4, <2>1, <2>2, Zenon DEF InStep
<1>9. f[Len(s)] = loop[Len(s)]
  BY <1>1, <1>8, SameTurns
<1>11. PICK g : Sums(g, s) /\ Total(s) = g[Len(s)]
  BY TotalSums
<1> DEFINE Alike == {k \in Nat : k <= Len(s) => Like(f[k], g[k])}
<1>12. 0 \in Alike
  BY <1>4, <1>11, LikeSelf DEF Sums
<1>13. ASSUME NEW k \in Nat, k \in Alike PROVE k + 1 \in Alike
  <2> SUFFICES ASSUME k + 1 <= Len(s) PROVE Like(f[k + 1], g[k + 1])
    OBVIOUS
  <2>1. k + 1 \in 1..Len(s) /\ (k + 1) - 1 = k /\ k \in 0..Len(s)
    BY <1>1
  <2>2. Like(f[k], g[k])
    BY <1>1, <1>13
  <2>3. f[k + 1] = AddFolding(f[k], s[k + 1]) /\ g[k + 1] = g[k] + s[k + 1]
    BY <1>4, <1>11, <2>1 DEF Sums
  <2>4. f[k] \in Nat /\ s[k + 1] \in Nat
    BY <1>1, <2>1
  <2>5. Like(f[k + 1], f[k] + s[k + 1])
    BY <2>3, <2>4, AddFoldingIs
  <2>6. Like(s[k + 1], s[k + 1])
    BY <1>1, <2>4, LikeSelf
  <2>7. Like(f[k] + s[k + 1], g[k + 1])
    BY <2>2, <2>3, <2>6, LikePlus
  <2>8. QED
    BY <2>5, <2>7, LikeTrans
<1>14. Nat \subseteq Alike
  <2> HIDE DEF Alike
  <2>1. QED
    BY <1>12, <1>13, Induction
<1>15. QED
  BY <1>1, <1>7, <1>9, <1>11, <1>14

-----------------------------------------------------------------------------
(* Bytes.  Little is their sum as 16-bit words, low byte first, and Big    *)
(* with the high byte first, both without any carry.                       *)

LittleTerms(bytes) ==
  [k \in DOMAIN bytes |-> IF k % 2 = 1 THEN bytes[k] ELSE B * bytes[k]]

BigTerms(bytes) ==
  [k \in DOMAIN bytes |-> IF k % 2 = 1 THEN B * bytes[k] ELSE bytes[k]]

Little(bytes) == Total(LittleTerms(bytes))
Big(bytes)    == Total(BigTerms(bytes))

LEMMA EvenPlus ==
  ASSUME NEW m \in Nat, NEW n \in Nat, m % 2 = 0
  PROVE  (m + n) % 2 = n % 2
OBVIOUS

LEMMA ByteType ==
  ASSUME NEW x \in Byte
  PROVE  x \in Nat /\ x < B /\ B * x \in Nat
BY Widths DEF Byte

LEMMA TermsType ==
  ASSUME NEW bytes \in Seq(Byte)
  PROVE  /\ LittleTerms(bytes) \in Seq(Nat) /\ Len(LittleTerms(bytes)) = Len(bytes)
         /\ BigTerms(bytes) \in Seq(Nat) /\ Len(BigTerms(bytes)) = Len(bytes)
<1>1. /\ Len(bytes) \in Nat /\ DOMAIN bytes = 1..Len(bytes)
      /\ \A k \in 1..Len(bytes) : bytes[k] \in Nat /\ B * bytes[k] \in Nat
  BY ByteType
<1>2. /\ LittleTerms(bytes) \in [1..Len(bytes) -> Nat]
      /\ BigTerms(bytes) \in [1..Len(bytes) -> Nat]
  BY <1>1 DEF LittleTerms, BigTerms
<1>3. QED
  BY <1>1, <1>2, FunctionIsSeq

LEMMA TermsAppend ==
  ASSUME NEW s \in Seq(Byte), NEW x \in Byte
  PROVE  LET low  == IF Len(s) % 2 = 0 THEN x ELSE B * x
             high == IF Len(s) % 2 = 0 THEN B * x ELSE x
         IN  /\ LittleTerms(Append(s, x)) = Append(LittleTerms(s), low)
             /\ BigTerms(Append(s, x)) = Append(BigTerms(s), high)
<1> DEFINE t == Append(s, x)
           n == Len(s)
           low  == IF n % 2 = 0 THEN x ELSE B * x
           high == IF n % 2 = 0 THEN B * x ELSE x
<1>1. /\ n \in Nat /\ t \in Seq(Byte) /\ Len(t) = n + 1
      /\ DOMAIN s = 1..n /\ DOMAIN t = 1..(n + 1)
      /\ \A k \in 1..n : t[k] = s[k]
      /\ t[n + 1] = x
  BY AppendProperties
<1>2. low \in Nat /\ high \in Nat
  BY ByteType
<1>3. n % 2 = 0 <=> (n + 1) % 2 = 1
  BY <1>1
<1> HIDE DEF t
<1>4. ASSUME NEW k \in 1..(n + 1)
      PROVE  /\ LittleTerms(t)[k] = Append(LittleTerms(s), low)[k]
             /\ BigTerms(t)[k] = Append(BigTerms(s), high)[k]
  <2>1. CASE k \in 1..n
    <3>1. /\ Append(LittleTerms(s), low)[k] = LittleTerms(s)[k]
          /\ Append(BigTerms(s), high)[k] = BigTerms(s)[k]
      BY <1>2, <2>1, TermsType, AppendProperties
    <3>2. LittleTerms(t)[k] = LittleTerms(s)[k] /\ BigTerms(t)[k] = BigTerms(s)[k]
      BY <1>1, <2>1 DEF LittleTerms, BigTerms
    <3>3. QED
      BY <3>1, <3>2
  <2>2. CASE k = n + 1
    <3>1. /\ Append(LittleTerms(s), low)[k] = low
          /\ Append(BigTerms(s), high)[k] = high
      BY <1>2, <2>2, TermsType, AppendProperties
    <3>2. LittleTerms(t)[k] = low /\ BigTerms(t)[k] = high
      BY <1>1, <1>3, <2>2 DEF LittleTerms, BigTerms
    <3>3. QED
      BY <3>1, <3>2
  <2>3. k \in 1..n \/ k = n + 1
    BY <1>1
  <2>4. QED
    BY <2>1, <2>2, <2>3, Zenon
<1>5. /\ LittleTerms(t) \in Seq(Nat) /\ Len(LittleTerms(t)) = n + 1
      /\ BigTerms(t) \in Seq(Nat) /\ Len(BigTerms(t)) = n + 1
  BY <1>1, TermsType
<1>6. /\ Append(LittleTerms(s), low) \in Seq(Nat) /\ Len(Append(LittleTerms(s), low)) = n + 1
      /\ Append(BigTerms(s), high) \in Seq(Nat) /\ Len(Append(BigTerms(s), high)) = n + 1
  BY <1>2, TermsType, AppendProperties
<1> HIDE DEF low, high
<1>7. LittleTerms(t) = Append(LittleTerms(s), low)
  BY <1>4, <1>5, <1>6, SeqEqual
<1>8. BigTerms(t) = Append(BigTerms(s), high)
  BY <1>4, <1>5, <1>6, SeqEqual
<1>9. QED
  BY <1>7, <1>8 DEF t, low, high

LEMMA LittleEmpty == Little(<< >>) = 0 /\ Big(<< >>) = 0
<1>1. << >> \in Seq(Byte) /\ Len(<< >>) = 0
  OBVIOUS
<1>2. LittleTerms(<< >>) = << >> /\ BigTerms(<< >>) = << >>
  BY <1>1, TermsType, EmptySeq
<1>3. 0 \in Nat /\ << >> \in Seq(Nat)
  OBVIOUS
<1>4. QED
  BY <1>2, <1>3, TotalAppend DEF Little, Big

LEMMA LittleAppend ==
  ASSUME NEW s \in Seq(Byte), NEW x \in Byte
  PROVE  /\ Little(s) \in Nat /\ Big(s) \in Nat
         /\ Little(Append(s, x)) = Little(s) + IF Len(s) % 2 = 0 THEN x ELSE B * x
         /\ Big(Append(s, x)) = Big(s) + IF Len(s) % 2 = 0 THEN B * x ELSE x
<1> DEFINE low  == IF Len(s) % 2 = 0 THEN x ELSE B * x
           high == IF Len(s) % 2 = 0 THEN B * x ELSE x
<1>1. low \in Nat /\ high \in Nat
  BY ByteType
<1>2. LittleTerms(s) \in Seq(Nat) /\ BigTerms(s) \in Seq(Nat)
  BY TermsType
<1>3. /\ LittleTerms(Append(s, x)) = Append(LittleTerms(s), low)
      /\ BigTerms(Append(s, x)) = Append(BigTerms(s), high)
  BY TermsAppend
<1> HIDE DEF low, high
<1>4. /\ Little(s) \in Nat /\ Big(s) \in Nat
      /\ Little(Append(s, x)) = Little(s) + low
      /\ Big(Append(s, x)) = Big(s) + high
  BY <1>1, <1>2, <1>3, TotalAppend DEF Little, Big
<1>5. QED
  BY <1>4 DEF low, high

(* Swapping the bytes of a number multiplies it by B.                      *)
LEMMA BigIs ==
  ASSUME NEW s \in Seq(Byte)
  PROVE  Like(Big(s), B * Little(s))
<1> DEFINE S == {u \in Seq(Byte) : Like(Big(u), B * Little(u))}
<1>1. << >> \in S
  <2>1. B * 0 = 0 /\ 0 \in Nat
    BY Widths
  <2>2. QED
    BY <2>1, LittleEmpty, LikeSelf
<1>2. ASSUME NEW u \in Seq(Byte), NEW x \in Byte, u \in S PROVE Append(u, x) \in S
  <2>1. x \in Nat /\ B * x \in Nat /\ B * (B * x) \in Nat /\ B \in Nat
    BY ByteType, Widths
  <2>2. Like(x, B * (B * x))
    <3>1. B * (B * x) = x + x * M
      <4>1. B * (B * x) = Half * x
        BY <2>1, Widths
      <4>2. Half = M + 1 /\ M \in Nat
        BY Widths
      <4>3. Half * x = x + x * M
        BY <2>1, <4>2
      <4>4. QED
        BY <4>1, <4>3
    <3>2. x * M \in Nat
      BY <2>1, Widths
    <3>3. Like(B * (B * x), x)
      BY <2>1, <3>1, <3>2 DEF Like
    <3>4. QED
      BY <3>3, LikeSym
  <2>3. /\ Little(u) \in Nat /\ Big(u) \in Nat /\ Append(u, x) \in Seq(Byte)
        /\ Little(Append(u, x)) = Little(u) + IF Len(u) % 2 = 0 THEN x ELSE B * x
        /\ Big(Append(u, x)) = Big(u) + IF Len(u) % 2 = 0 THEN B * x ELSE x
    BY LittleAppend
  <2>4. Like(Big(u), B * Little(u))
    BY <1>2
  <2>5. CASE Len(u) % 2 = 0
    <3>1. Like(Big(u) + B * x, B * Little(u) + B * x)
      BY <2>1, <2>4, LikeSelf, LikePlus
    <3>2. B * (Little(u) + x) = B * Little(u) + B * x
      BY <2>1, <2>3
    <3>3. QED
      BY <2>3, <2>5, <3>1, <3>2
  <2>6. CASE Len(u) % 2 # 0
    <3>1. Like(Big(u) + x, B * Little(u) + B * (B * x))
      BY <2>2, <2>4, LikePlus
    <3>2. B * (Little(u) + B * x) = B * Little(u) + B * (B * x)
      BY <2>1, <2>3
    <3>3. QED
      BY <2>3, <2>6, <3>1, <3>2
  <2>7. QED
    BY <2>5, <2>6
<1>3. Seq(Byte) \subseteq S
  <2> HIDE DEF S
  <2>1. QED
    BY <1>1, <1>2, SequenceInduction
<1>4. QED
  BY <1>3

(* An even sequence and what follows it.                                   *)
LEMMA LittleConcat ==
  ASSUME NEW s \in Seq(Byte), NEW t \in Seq(Byte), Len(s) % 2 = 0
  PROVE  /\ Little(s \o t) = Little(s) + Little(t)
         /\ Big(s \o t) = Big(s) + Big(t)
<1> DEFINE Adds(u) == /\ Little(s \o u) = Little(s) + Little(u)
                      /\ Big(s \o u) = Big(s) + Big(u)
           S == {u \in Seq(Byte) : Adds(u)}
<1>0. Little(s) \in Nat /\ Big(s) \in Nat
  <2>1. 0 \in Byte
    BY Widths DEF Byte
  <2>2. QED
    BY <2>1, LittleAppend
<1>1. << >> \in S
  <2>1. s \o << >> = s /\ << >> \in Seq(Byte)
    OBVIOUS
  <2>2. QED
    BY <1>0, <2>1, LittleEmpty
<1>2. ASSUME NEW u \in Seq(Byte), NEW x \in Byte, u \in S PROVE Append(u, x) \in S
  <2>1. /\ s \o Append(u, x) = Append(s \o u, x) /\ Append(u, x) \in Seq(Byte)
        /\ s \o u \in Seq(Byte) /\ Len(s \o u) = Len(s) + Len(u)
        /\ Len(s) \in Nat /\ Len(u) \in Nat
    <3>1. /\ s \o u \in Seq(Byte) /\ Len(s \o u) = Len(s) + Len(u)
          /\ Len(s) \in Nat /\ Len(u) \in Nat
      OBVIOUS
    <3>2. s \o Append(u, x) = Append(s \o u, x) /\ Append(u, x) \in Seq(Byte)
      OBVIOUS
    <3>3. QED
      BY <3>1, <3>2
  <2>2. Len(s \o u) % 2 = Len(u) % 2
    BY <2>1, EvenPlus
  <2> DEFINE low  == IF Len(u) % 2 = 0 THEN x ELSE B * x
             high == IF Len(u) % 2 = 0 THEN B * x ELSE x
  <2>3. low \in Nat /\ high \in Nat
    BY ByteType
  <2>4. /\ Little(Append(s \o u, x)) = Little(s \o u) + low
        /\ Big(Append(s \o u, x)) = Big(s \o u) + high
    BY <2>1, <2>2, LittleAppend
  <2>5. /\ Little(Append(u, x)) = Little(u) + low /\ Little(u) \in Nat
        /\ Big(Append(u, x)) = Big(u) + high /\ Big(u) \in Nat
    BY LittleAppend
  <2>6. Adds(u)
    BY <1>2
  <2> HIDE DEF low, high
  <2>7. /\ Little(s \o Append(u, x)) = (Little(s) + Little(u)) + low
        /\ Big(s \o Append(u, x)) = (Big(s) + Big(u)) + high
    BY <2>1, <2>4, <2>6
  <2>8. /\ (Little(s) + Little(u)) + low = Little(s) + Little(Append(u, x))
        /\ (Big(s) + Big(u)) + high = Big(s) + Big(Append(u, x))
    BY <1>0, <2>3, <2>5
  <2>9. QED
    BY <2>1, <2>7, <2>8
<1>3. Seq(Byte) \subseteq S
  <2> HIDE DEF S
  <2>1. QED
    BY <1>1, <1>2, SequenceInduction
<1>4. QED
  BY <1>3

-----------------------------------------------------------------------------
(* The addends of the code.                                                *)

LEMMA HalfType ==
  ASSUME NEW x \in Byte, NEW y \in Byte
  PROVE  x + B * y \in 0..M
<1>1. x \in 0..(B - 1) /\ y \in 0..(B - 1) /\ B \in Nat /\ B >= 2
  BY Widths DEF Byte
<1>2. B * y <= B * (B - 1) /\ B * y >= 0 /\ B * y \in Int
  BY <1>1
<1>3. B * (B - 1) = Half - B /\ Half \in Nat
  BY <1>1, Widths
<1>4. QED
  BY <1>1, <1>2, <1>3 DEF M

LEMMA WordType ==
  ASSUME NEW x \in 0..M, NEW y \in 0..M
  PROVE  x + Half * y \in Words
<1>1. Half \in Nat /\ Half = M + 1 /\ Word = Half * Half /\ M \in Nat /\ Word \in Nat
  BY Widths
<1>2. Half * y <= Half * M /\ Half * y >= 0 /\ Half * y \in Int
  BY <1>1
<1>3. Half * M = Word - Half
  BY <1>1
<1>4. QED
  BY <1>1, <1>2, <1>3 DEF Words

LEMMA HalvesAre ==
  ASSUME NEW bytes \in Seq(Byte), NEW n \in Nat, Len(bytes) = 2 * n \/ Len(bytes) = 2 * n + 1
  PROVE  /\ Halves(bytes) \in Seq(0..M)
         /\ Len(Halves(bytes)) = IF Len(bytes) = 2 * n THEN n ELSE n + 1
         /\ \A k \in 1..n : Halves(bytes)[k] = bytes[2 * k - 1] + B * bytes[2 * k]
         /\ Len(bytes) = 2 * n + 1 => Halves(bytes)[n + 1] = bytes[2 * n + 1]
<1> DEFINE pairs == [k \in 1..n |-> Half16(bytes, 2 * k - 1)]
           odd   == IF Len(bytes) % 2 = 1 THEN <<bytes[Len(bytes)]>> ELSE << >>
<1>1. /\ \A k \in 1..n : bytes[2 * k - 1] \in Byte /\ bytes[2 * k] \in Byte
      /\ Len(bytes) = 2 * n + 1 => bytes[2 * n + 1] \in Byte
  OBVIOUS
<1>2. Len(bytes) \div 2 = n /\ Halves(bytes) = pairs \o odd
  <2>1. Len(bytes) \div 2 = n
    OBVIOUS
  <2>2. QED
    BY <2>1 DEF Halves
<1>3. \A k \in 1..n : Half16(bytes, 2 * k - 1) = bytes[2 * k - 1] + B * bytes[2 * k]
  <2>1. \A k \in 1..n : (2 * k - 1) + 1 = 2 * k
    OBVIOUS
  <2>2. QED
    BY <2>1 DEF Half16
<1>4. \A k \in 1..n : Half16(bytes, 2 * k - 1) \in 0..M
  BY <1>1, <1>3, HalfType
<1>5. /\ pairs \in Seq(0..M) /\ Len(pairs) = n
      /\ \A k \in 1..n : pairs[k] = bytes[2 * k - 1] + B * bytes[2 * k]
  <2>1. pairs \in [1..n -> 0..M]
    BY <1>4
  <2>2. QED
    BY <1>3, <2>1, FunctionIsSeq
<1>6. CASE Len(bytes) = 2 * n
  <2>1. odd = << >>
    BY <1>6
  <2>2. Halves(bytes) = pairs
    BY <1>2, <1>5, <2>1, ConcatEmptySeq
  <2>3. QED
    BY <1>5, <1>6, <2>2
<1>7. CASE Len(bytes) = 2 * n + 1
  <2>1. odd = <<bytes[2 * n + 1]>>
    BY <1>7
  <2>2. bytes[2 * n + 1] \in 0..M
    <3>1. Byte \subseteq 0..M
      BY Widths, HalfType DEF Byte
    <3>2. QED
      BY <1>1, <1>7, <3>1
  <2> HIDE DEF pairs, odd
  <2>3. Halves(bytes) = Append(pairs, bytes[2 * n + 1])
    BY <1>2, <1>5, <2>1, <2>2, AppendIsConcat
  <2>4. QED
    BY <1>5, <1>7, <2>2, <2>3, AppendProperties
<1>8. QED
  BY <1>6, <1>7

LEMMA AddendsAre ==
  ASSUME NEW bytes \in Seq(Byte), NEW n \in Nat, NEW r \in 0..3, Len(bytes) = 4 * n + r
  PROVE  LET words == [k \in 1..n |-> Half32(bytes, 4 * k - 3)]
             half  == bytes[4 * n + 1] + B * bytes[4 * n + 2]
             last  == bytes[4 * n + r]
         IN  /\ words \in Seq(Words) /\ Len(words) = n
             /\ r = 0 => Addends(bytes) = words
             /\ r = 1 => Addends(bytes) = Append(words, last) /\ last \in Words
             /\ r = 2 => Addends(bytes) = Append(words, half) /\ half \in Words
             /\ r = 3 => /\ Addends(bytes) = Append(Append(words, half), last)
                         /\ half \in Words /\ last \in Words
<1> DEFINE words == [k \in 1..n |-> Half32(bytes, 4 * k - 3)]
           half  == bytes[4 * n + 1] + B * bytes[4 * n + 2]
           last  == bytes[4 * n + r]
           second == IF r >= 2 THEN <<half>> ELSE << >>
           third  == IF r % 2 = 1 THEN <<last>> ELSE << >>
<1>1. /\ \A k \in 1..n : /\ bytes[4 * k - 3] \in Byte /\ bytes[4 * k - 2] \in Byte
                         /\ bytes[4 * k - 1] \in Byte /\ bytes[4 * k] \in Byte
      /\ r >= 1 => bytes[4 * n + r] \in Byte
      /\ r >= 2 => bytes[4 * n + 1] \in Byte /\ bytes[4 * n + 2] \in Byte
  OBVIOUS
<1>2. 0..M \subseteq Words /\ Byte \subseteq 0..M
  <2>1. \A x \in 0..M : x \in Words
    <3>1. M \in Nat /\ Word - 1 = (M + 2) * M /\ Word \in Nat
      BY Widths
    <3>2. (M + 2) * M >= M
      BY <3>1
    <3>3. QED
      BY <3>1, <3>2 DEF Words
  <2>2. Byte \subseteq 0..M
    BY Widths, HalfType DEF Byte
  <2>3. QED
    BY <2>1, <2>2
<1>3. \A k \in 1..n : Half32(bytes, 4 * k - 3) \in Words
  <2> SUFFICES ASSUME NEW k \in 1..n PROVE Half32(bytes, 4 * k - 3) \in Words
    OBVIOUS
  <2>1. /\ (4 * k - 3) + 1 = 4 * k - 2 /\ (4 * k - 3) + 2 = 4 * k - 1
        /\ (4 * k - 1) + 1 = 4 * k
    OBVIOUS
  <2>2. Half32(bytes, 4 * k - 3) =
          (bytes[4 * k - 3] + B * bytes[4 * k - 2])
            + Half * (bytes[4 * k - 1] + B * bytes[4 * k])
    BY <2>1 DEF Half32, Half16
  <2>3. QED
    BY <1>1, <2>2, HalfType, WordType
<1>4. words \in Seq(Words) /\ Len(words) = n
  <2>1. words \in [1..n -> Words]
    BY <1>3
  <2>2. QED
    BY <2>1, FunctionIsSeq
<1>5. /\ r >= 2 => half \in Words
      /\ r >= 1 => last \in Words
  BY <1>1, <1>2, HalfType
<1>6. Addends(bytes) = words \o second \o third
  <2>1. Len(bytes) \div 4 = n /\ Len(bytes) % 4 = r
    OBVIOUS
  <2>2. Half16(bytes, 4 * n + 1) = half
    <3>1. (4 * n + 1) + 1 = 4 * n + 2
      OBVIOUS
    <3>2. QED
      BY <3>1 DEF Half16
  <2>3. bytes[Len(bytes)] = last
    OBVIOUS
  <2>4. QED
    BY <2>1, <2>2, <2>3 DEF Addends
<1> HIDE DEF words, half, last
<1>7. words \o << >> = words
  BY <1>4, ConcatEmptySeq
<1>8. CASE r = 0
  <2>1. second = << >> /\ third = << >>
    BY <1>8
  <2>2. Addends(bytes) = words
    BY <1>6, <1>7, <2>1
  <2>3. QED
    BY <1>4, <1>8, <2>2 DEF words
<1>9. CASE r = 1
  <2>1. second = << >> /\ third = <<last>>
    BY <1>9
  <2>2. words \o <<last>> = Append(words, last)
    BY <1>4, <1>5, <1>9, AppendIsConcat
  <2>3. Addends(bytes) = Append(words, last)
    BY <1>6, <1>7, <2>1, <2>2
  <2>4. QED
    BY <1>4, <1>5, <1>9, <2>3 DEF words, last
<1>10. CASE r = 2
  <2>1. second = <<half>> /\ third = << >>
    BY <1>10
  <2>2. words \o <<half>> = Append(words, half)
    BY <1>4, <1>5, <1>10, AppendIsConcat
  <2>3. Append(words, half) \o << >> = Append(words, half)
    BY <1>4, <1>5, <1>10, AppendProperties, ConcatEmptySeq
  <2>4. Addends(bytes) = Append(words, half)
    BY <1>6, <2>1, <2>2, <2>3
  <2>5. QED
    BY <1>4, <1>5, <1>10, <2>4 DEF words, half
<1>11. CASE r = 3
  <2>1. second = <<half>> /\ third = <<last>>
    BY <1>11
  <2>2. words \o <<half>> = Append(words, half)
    BY <1>4, <1>5, <1>11, AppendIsConcat
  <2>3. Append(words, half) \o <<last>> = Append(Append(words, half), last)
    BY <1>4, <1>5, <1>11, AppendProperties, AppendIsConcat
  <2>4. Addends(bytes) = Append(Append(words, half), last)
    BY <1>6, <2>1, <2>2, <2>3
  <2>5. QED
    BY <1>4, <1>5, <1>11, <2>4 DEF words, half, last
<1>12. QED
  BY <1>8, <1>9, <1>10, <1>11

LEMMA LittlePrefix ==
  ASSUME NEW t \in Seq(Byte), NEW n \in Nat, n < Len(t)
  PROVE  /\ Little(SubSeq(t, 1, n)) \in Nat
         /\ Little(SubSeq(t, 1, n + 1)) =
              Little(SubSeq(t, 1, n)) + IF n % 2 = 0 THEN t[n + 1] ELSE B * t[n + 1]
<1>1. Len(t) \in Nat /\ n \in 0..Len(t) /\ n + 1 \in 1..Len(t) /\ t[n + 1] \in Byte
  OBVIOUS
<1>2. SubSeq(t, 1, n) \in Seq(Byte) /\ Len(SubSeq(t, 1, n)) = n
  BY <1>1, Split
<1>3. SubSeq(t, 1, n + 1) = Append(SubSeq(t, 1, n), t[n + 1])
  <2>1. 1 \in 1..Len(t) /\ n + 1 \in 1..Len(t) /\ (n + 1) - 1 = n
    BY <1>1
  <2>2. SubSeq(t, 1, n + 1) = SubSeq(t, 1, (n + 1) - 1) \o <<t[n + 1]>>
    BY <2>1, SubSeqRecursiveSecond
  <2>3. QED
    BY <1>1, <1>2, <2>1, <2>2, AppendIsConcat
<1>4. QED
  BY <1>1, <1>2, <1>3, LittleAppend

LEMMA LittleSmall ==
  ASSUME NEW t \in Seq(Byte)
  PROVE  /\ Len(t) = 1 => Little(t) = t[1]
         /\ Len(t) = 2 => Little(t) = t[1] + B * t[2]
         /\ Len(t) = 3 => Little(t) = t[1] + B * t[2] + t[3]
         /\ Len(t) = 4 => Little(t) = t[1] + B * t[2] + t[3] + B * t[4]
<1>1. SubSeq(t, 1, 0) = << >> /\ SubSeq(t, 1, Len(t)) = t
  BY SubSeqEmpty, SubSeqFull
<1> DEFINE L(n) == Little(SubSeq(t, 1, n))
<1>2. L(0) = 0 /\ L(Len(t)) = Little(t)
  BY <1>1, LittleEmpty
<1>3. ASSUME NEW n \in Nat, n < Len(t)
      PROVE  L(n) \in Nat /\ L(n + 1) = L(n) + IF n % 2 = 0 THEN t[n + 1] ELSE B * t[n + 1]
  BY <1>3, LittlePrefix
<1>4. \A k \in 1..Len(t) : t[k] \in Nat /\ B * t[k] \in Nat
  BY ByteType
<1>5. Len(t) \in Nat
  OBVIOUS
<1> HIDE DEF L
<1>6. /\ Len(t) >= 1 => L(1) = t[1] /\ t[1] \in Nat
      /\ Len(t) >= 2 => L(2) = L(1) + B * t[2] /\ B * t[2] \in Nat
      /\ Len(t) >= 3 => L(3) = L(2) + t[3] /\ t[3] \in Nat
      /\ Len(t) >= 4 => L(4) = L(3) + B * t[4] /\ B * t[4] \in Nat
  <2>1. Len(t) >= 1 => L(0 + 1) = L(0) + t[0 + 1]
    BY <1>3, <1>5
  <2>2. Len(t) >= 2 => L(1 + 1) = L(1) + B * t[1 + 1]
    BY <1>3, <1>5
  <2>3. Len(t) >= 3 => L(2 + 1) = L(2) + t[2 + 1]
    BY <1>3, <1>5
  <2>4. Len(t) >= 4 => L(3 + 1) = L(3) + B * t[3 + 1]
    BY <1>3, <1>5
  <2>5. QED
    BY <1>2, <1>4, <1>5, <2>1, <2>2, <2>3, <2>4
<1>7. /\ Len(t) = 1 => L(Len(t)) = L(1)
      /\ Len(t) = 2 => L(Len(t)) = L(2)
      /\ Len(t) = 3 => L(Len(t)) = L(3)
      /\ Len(t) = 4 => L(Len(t)) = L(4)
  OBVIOUS
<1>8. CASE Len(t) = 1
  BY <1>2, <1>6, <1>7, <1>8
<1>9. CASE Len(t) = 2
  BY <1>2, <1>6, <1>7, <1>9
<1>10. CASE Len(t) = 3
  BY <1>2, <1>6, <1>7, <1>10
<1>11. CASE Len(t) = 4
  BY <1>2, <1>6, <1>7, <1>11
<1>12. QED
  BY <1>8, <1>9, <1>10, <1>11

LEMMA ShortSequence ==
  ASSUME NEW A, NEW t \in Seq(A), 0 < Len(t)
  PROVE  /\ Len(t) <= 2 => Len(t) \in {1, 2}
         /\ Len(t) <= 4 => Len(t) \in {1, 2, 3, 4}
         /\ t[1] \in A
         /\ Len(t) >= 2 => t[2] \in A
         /\ Len(t) >= 3 => t[3] \in A
         /\ Len(t) >= 4 => t[4] \in A
<1> DEFINE n == Len(t)
<1>1. n \in Nat /\ \A k \in 1..n : t[k] \in A
  OBVIOUS
<1>2. 0 < n
  OBVIOUS
<1> HIDE DEF n
<1>3. /\ n <= 2 => n \in {1, 2}
      /\ n <= 4 => n \in {1, 2, 3, 4}
  BY <1>1, <1>2
<1>4. /\ 1 \in 1..n
      /\ n >= 2 => 2 \in 1..n
      /\ n >= 3 => 3 \in 1..n
      /\ n >= 4 => 4 \in 1..n
  BY <1>1, <1>2
<1>5. QED
  BY <1>1, <1>3, <1>4 DEF n

LEMMA HalvesSum ==
  ASSUME NEW bytes \in Seq(Byte)
  PROVE  Total(Halves(bytes)) = Little(bytes)
<1> DEFINE S == {u \in Seq(Byte) : Total(Halves(u)) = Little(u)}
<1>0. 0..M \subseteq Nat /\ Seq(0..M) \subseteq Seq(Nat)
  <2>1. 0..M \subseteq Nat
    BY Widths
  <2>2. QED
    BY <2>1, SeqMonotonic
<1>1. << >> \in S
  <2>1. << >> \in Seq(Byte) /\ Len(<< >>) = 2 * 0 /\ 0 \in Nat
    OBVIOUS
  <2>2. Halves(<< >>) \in Seq(0..M) /\ Len(Halves(<< >>)) = 0
    BY <2>1, HalvesAre
  <2>3. Halves(<< >>) = << >>
    BY <2>2, EmptySeq
  <2>4. 0 \in Nat /\ << >> \in Seq(Nat)
    OBVIOUS
  <2>5. QED
    BY <2>1, <2>3, <2>4, LittleEmpty, TotalAppend
<1>2. ASSUME NEW s \in Seq(Byte), NEW t \in Seq(Byte), NEW n \in Nat,
             s \in S, Len(s) = 2 * n, 0 < Len(t), Len(t) <= 2
      PROVE  s \o t \in S
  <2> DEFINE u == s \o t
             x == IF Len(t) = 1 THEN t[1] ELSE t[1] + B * t[2]
  <2>1. /\ u \in Seq(Byte) /\ Len(u) = 2 * n + Len(t)
        /\ \A k \in 1..(2 * n) : u[k] = s[k]
        /\ u[2 * n + 1] = t[1]
        /\ Len(t) = 2 => u[2 * n + 2] = t[2]
    BY <1>2, ConcatProperties
  <2>2. Len(t) \in {1, 2} /\ t[1] \in Byte /\ (Len(t) = 2 => t[2] \in Byte)
    <3>1. 0 < Len(t) /\ Len(t) <= 2
      BY <1>2
    <3>2. QED
      BY <3>1, ShortSequence
  <2>3. x \in 0..M
    <3>1. Byte \subseteq 0..M
      BY Widths, HalfType DEF Byte
    <3>2. QED
      BY <2>2, <3>1, HalfType
  <2> HIDE DEF u
  <2>4. /\ Halves(s) \in Seq(0..M) /\ Len(Halves(s)) = n
        /\ \A k \in 1..n : Halves(s)[k] = s[2 * k - 1] + B * s[2 * k]
    BY <1>2, HalvesAre
  <2>5. /\ Halves(u) \in Seq(0..M) /\ Len(Halves(u)) = n + 1
        /\ \A k \in 1..n : Halves(u)[k] = u[2 * k - 1] + B * u[2 * k]
        /\ Halves(u)[n + 1] = x
    <3>1. CASE Len(t) = 1
      <4>1. Len(u) = 2 * n + 1 /\ Len(u) # 2 * n
        BY <2>1, <3>1
      <4>2. QED
        BY <2>1, <3>1, <4>1, HalvesAre
    <3>2. CASE Len(t) = 2
      <4>1. Len(u) = 2 * (n + 1) /\ n + 1 \in Nat /\ n + 1 \in 1..(n + 1)
            /\ 2 * (n + 1) - 1 = 2 * n + 1 /\ 2 * (n + 1) = 2 * n + 2
        BY <2>1, <3>2
      <4>2. /\ Halves(u) \in Seq(0..M) /\ Len(Halves(u)) = n + 1
            /\ \A k \in 1..(n + 1) : Halves(u)[k] = u[2 * k - 1] + B * u[2 * k]
        BY <2>1, <4>1, HalvesAre
      <4>3. Halves(u)[n + 1] = u[2 * n + 1] + B * u[2 * n + 2]
        BY <4>1, <4>2
      <4>4. QED
        BY <2>1, <3>2, <4>2, <4>3
    <3>3. QED
      BY <2>2, <3>1, <3>2
  <2> HIDE DEF x
  <2>6. Halves(u) = Append(Halves(s), x)
    <3>1. /\ Append(Halves(s), x) \in Seq(0..M) /\ Len(Append(Halves(s), x)) = n + 1
          /\ \A k \in 1..n : Append(Halves(s), x)[k] = Halves(s)[k]
          /\ Append(Halves(s), x)[n + 1] = x
      BY <2>3, <2>4, AppendProperties
    <3>2. \A k \in 1..n : Halves(u)[k] = Halves(s)[k]
      <4>1. \A k \in 1..n : 2 * k - 1 \in 1..(2 * n) /\ 2 * k \in 1..(2 * n)
        OBVIOUS
      <4>2. QED
        BY <2>1, <2>4, <2>5, <4>1
    <3>3. \A k \in 1..(n + 1) : Halves(u)[k] = Append(Halves(s), x)[k]
      <4>1. \A k \in 1..(n + 1) : k \in 1..n \/ k = n + 1
        OBVIOUS
      <4>2. QED
        BY <2>5, <3>1, <3>2, <4>1, Zenon
    <3>4. QED
      BY <2>5, <3>1, <3>3, SeqEqual
  <2>7. Total(Halves(u)) = Total(Halves(s)) + x
    BY <1>0, <2>3, <2>4, <2>6, TotalAppend
  <2>8. Little(t) = x
    BY <2>2, LittleSmall DEF x
  <2>9. Little(u) = Little(s) + Little(t)
    <3>1. Len(s) % 2 = 0
      BY <1>2
    <3>2. QED
      BY <3>1, LittleConcat DEF u
  <2>10. Total(Halves(s)) = Little(s)
    BY <1>2
  <2>11. u \in S
    BY <2>1, <2>7, <2>8, <2>9, <2>10
  <2>12. QED
    BY <2>11 DEF u
<1>3. Seq(Byte) \subseteq S
  <2> HIDE DEF S
  <2>1. 2 \in Nat \ {0}
    OBVIOUS
  <2>2. QED
    BY <1>1, <1>2, <2>1, ChunkInduction
<1>4. QED
  BY <1>3

LEMMA HighLike ==
  ASSUME NEW x \in Nat
  PROVE  Like(Half * x, x)
<1>1. Half \in Nat /\ Half = M + 1 /\ M \in Nat
  BY Widths
<1>2. Half * x = x + x * M /\ x * M \in Nat
  BY <1>1
<1>3. QED
  BY <1>1, <1>2 DEF Like

LEMMA ConcatParts ==
  ASSUME NEW A, NEW s \in Seq(A), NEW t \in Seq(A), NEW m \in Nat, Len(s) = m
  PROVE  /\ s \o t \in Seq(A) /\ Len(s \o t) = m + Len(t) /\ Len(t) \in Nat
         /\ \A k \in 1..m : (s \o t)[k] = s[k]
         /\ \A k \in 1..Len(t) : (s \o t)[m + k] = t[k]
OBVIOUS

LEMMA LastChunk ==
  ASSUME NEW A, NEW s \in Seq(A), NEW t \in Seq(A), NEW n \in Nat, Len(s) = 4 * n, 0 < Len(t)
  PROVE  /\ s \o t \in Seq(A) /\ Len(s \o t) = 4 * n + Len(t)
         /\ (s \o t)[4 * n + 1] = t[1]
         /\ Len(t) >= 2 => (s \o t)[4 * n + 2] = t[2]
         /\ Len(t) >= 3 => (s \o t)[4 * n + 3] = t[3]
         /\ Len(t) >= 4 => (s \o t)[4 * n + 4] = t[4]
<1> DEFINE u == s \o t
           m == Len(t)
<1>1. 4 * n \in Nat
  OBVIOUS
<1>2. /\ u \in Seq(A) /\ Len(u) = 4 * n + m /\ m \in Nat /\ 0 < m
      /\ \A k \in 1..m : u[4 * n + k] = t[k]
  BY <1>1, ConcatParts
<1> HIDE DEF u, m
<1>3. /\ u[4 * n + 1] = t[1]
      /\ m >= 2 => u[4 * n + 2] = t[2]
      /\ m >= 3 => u[4 * n + 3] = t[3]
      /\ m >= 4 => u[4 * n + 4] = t[4]
  BY <1>2
<1>4. QED
  BY <1>2, <1>3 DEF u, m

(* The words of a sequence that is longer.                                 *)
LEMMA WordsConcat ==
  ASSUME NEW s \in Seq(Byte), NEW t \in Seq(Byte), NEW n \in Nat, Len(s) = 4 * n
  PROVE  /\ [k \in 1..n |-> Half32(s \o t, 4 * k - 3)] = Addends(s)
         /\ Addends(s) \in Seq(Words) /\ Len(Addends(s)) = n
<1>1. \A k \in 1..(4 * n) : (s \o t)[k] = s[k]
  BY ConcatProperties
<1>2. ASSUME NEW k \in 1..n PROVE Half32(s \o t, 4 * k - 3) = Half32(s, 4 * k - 3)
  <2>1. /\ 4 * k - 3 \in 1..(4 * n) /\ (4 * k - 3) + 1 \in 1..(4 * n)
        /\ (4 * k - 3) + 2 \in 1..(4 * n) /\ ((4 * k - 3) + 2) + 1 \in 1..(4 * n)
    OBVIOUS
  <2>2. QED
    BY <1>1, <2>1 DEF Half32, Half16
<1>3. 0 \in 0..3 /\ Len(s) = 4 * n + 0
  OBVIOUS
<1>4. /\ [k \in 1..n |-> Half32(s, 4 * k - 3)] \in Seq(Words)
      /\ Len([k \in 1..n |-> Half32(s, 4 * k - 3)]) = n
      /\ Addends(s) = [k \in 1..n |-> Half32(s, 4 * k - 3)]
  BY <1>3, AddendsAre
<1>5. QED
  BY <1>2, <1>4

LEMMA AddendsType ==
  ASSUME NEW bytes \in Seq(Byte)
  PROVE  Addends(bytes) \in Seq(Words)
<1> DEFINE n == Len(bytes) \div 4
           r == Len(bytes) % 4
           words == [k \in 1..n |-> Half32(bytes, 4 * k - 3)]
           half  == bytes[4 * n + 1] + B * bytes[4 * n + 2]
           last  == bytes[4 * n + r]
<1>1. n \in Nat /\ r \in 0..3 /\ Len(bytes) = 4 * n + r
  OBVIOUS
<1> HIDE DEF n, r
<1>2. /\ words \in Seq(Words) /\ Len(words) = n
      /\ r = 0 => Addends(bytes) = words
      /\ r = 1 => Addends(bytes) = Append(words, last) /\ last \in Words
      /\ r = 2 => Addends(bytes) = Append(words, half) /\ half \in Words
      /\ r = 3 => /\ Addends(bytes) = Append(Append(words, half), last)
                  /\ half \in Words /\ last \in Words
  BY <1>1, AddendsAre
<1> HIDE DEF words, half, last
<1>3. r = 0 \/ r = 1 \/ r = 2 \/ r = 3
  BY <1>1
<1>4. CASE r = 0
  BY <1>2, <1>4
<1>5. CASE r = 1
  BY <1>2, <1>5, AppendProperties
<1>6. CASE r = 2
  BY <1>2, <1>6, AppendProperties
<1>7. CASE r = 3
  <2>1. Append(words, half) \in Seq(Words)
    BY <1>2, <1>7, AppendProperties
  <2>2. QED
    BY <1>2, <1>7, <2>1, AppendProperties
<1>8. QED
  BY <1>3, <1>4, <1>5, <1>6, <1>7

LEMMA AddendsSum ==
  ASSUME NEW bytes \in Seq(Byte)
  PROVE  Like(Total(Addends(bytes)), Little(bytes))
<1> DEFINE S == {u \in Seq(Byte) : Like(Total(Addends(u)), Little(u))}
<1>0. Words \subseteq Nat /\ Seq(Words) \subseteq Seq(Nat)
  <2>1. Words \subseteq Nat
    BY Widths DEF Words
  <2>2. QED
    BY <2>1, SeqMonotonic
<1>1. << >> \in S
  <2>1. << >> \in Seq(Byte) /\ Len(<< >>) = 4 * 0 /\ 0 \in Nat
    OBVIOUS
  <2>2. Addends(<< >>) \in Seq(Words) /\ Len(Addends(<< >>)) = 0
    BY <2>1, WordsConcat
  <2>3. Addends(<< >>) = << >>
    BY <2>2, EmptySeq
  <2>4. 0 \in Nat /\ << >> \in Seq(Nat)
    OBVIOUS
  <2>5. QED
    BY <2>1, <2>3, <2>4, LittleEmpty, TotalAppend, LikeSelf
<1>2. ASSUME NEW s \in Seq(Byte), NEW t \in Seq(Byte), NEW n \in Nat,
             s \in S, Len(s) = 4 * n, 0 < Len(t), Len(t) <= 4
      PROVE  s \o t \in S
  <2> DEFINE u == s \o t
             a == Addends(s)
             words == [k \in 1..n |-> Half32(u, 4 * k - 3)]
             half  == t[1] + B * t[2]
             half2 == t[3] + B * t[4]
  <2>1. /\ u \in Seq(Byte) /\ Len(u) = 4 * n + Len(t)
        /\ u[4 * n + 1] = t[1]
        /\ Len(t) >= 2 => u[4 * n + 2] = t[2]
        /\ Len(t) >= 3 => u[4 * n + 3] = t[3]
        /\ Len(t) >= 4 => u[4 * n + 4] = t[4]
    <3>1. 0 < Len(t) /\ Len(s) = 4 * n
      BY <1>2
    <3>2. QED
      BY <3>1, LastChunk
  <2>2. /\ Len(t) \in {1, 2, 3, 4} /\ t[1] \in Byte
        /\ Len(t) >= 2 => t[2] \in Byte
        /\ Len(t) >= 3 => t[3] \in Byte
        /\ Len(t) >= 4 => t[4] \in Byte
    <3>1. 0 < Len(t) /\ Len(t) <= 4
      BY <1>2
    <3>2. QED
      BY <3>1, ShortSequence
  <2>3. words = a /\ a \in Seq(Words) /\ Len(a) = n /\ a \in Seq(Nat)
    BY <1>0, <1>2, WordsConcat
  <2>4. Little(u) = Little(s) + Little(t)
    <3>1. Len(s) % 2 = 0
      BY <1>2
    <3>2. QED
      BY <3>1, LittleConcat
  <2>5. Like(Total(a), Little(s))
    BY <1>2
  <2> SUFFICES u \in S
    OBVIOUS
  <2> HIDE DEF u, a
  <2>6. ASSUME NEW x \in Nat, Total(Addends(u)) = Total(a) + x, Like(x, Little(t))
        PROVE  u \in S
    <3>1. Like(Total(Addends(u)), Little(u))
      BY <2>4, <2>5, <2>6, LikePlus
    <3>2. QED
      BY <2>1, <3>1
  <2>7. CASE Len(t) = 1
    <3>1. Len(u) = 4 * n + 1 /\ 1 \in 0..3
      BY <2>1, <2>7
    <3>2. Addends(u) = Append(words, u[4 * n + 1]) /\ u[4 * n + 1] \in Words
      BY <2>1, <3>1, AddendsAre
    <3>3. t[1] \in Nat /\ Little(t) = t[1]
      BY <2>2, <2>7, ByteType, LittleSmall
    <3>4. Total(Addends(u)) = Total(a) + t[1]
      <4>1. Total(Append(words, t[1])) = Total(words) + t[1]
        BY <2>3, <3>3, TotalAppend
      <4>2. QED
        BY <2>1, <2>3, <3>2, <4>1
    <3>5. QED
      BY <2>6, <3>3, <3>4, LikeSelf
  <2>8. CASE Len(t) = 2
    <3>1. Len(u) = 4 * n + 2 /\ 2 \in 0..3
      BY <2>1, <2>8
    <3>2. Addends(u) = Append(words, u[4 * n + 1] + B * u[4 * n + 2])
      BY <2>1, <3>1, AddendsAre
    <3>3. half \in Nat /\ Little(t) = half
      BY <2>2, <2>8, HalfType, LittleSmall
    <3>4. Addends(u) = Append(a, half)
      BY <2>1, <2>3, <2>8, <3>2
    <3> HIDE DEF half
    <3>5. Total(Addends(u)) = Total(a) + half
      BY <2>3, <3>3, <3>4, TotalAppend
    <3>6. QED
      BY <2>6, <3>3, <3>5, LikeSelf
  <2>9. CASE Len(t) = 3
    <3>1. Len(u) = 4 * n + 3 /\ 3 \in 0..3
      BY <2>1, <2>9
    <3>2. Addends(u) = Append(Append(words, u[4 * n + 1] + B * u[4 * n + 2]), u[4 * n + 3])
      BY <2>1, <3>1, AddendsAre
    <3>3. half \in Nat /\ t[3] \in Nat /\ Little(t) = half + t[3]
      BY <2>2, <2>9, HalfType, ByteType, LittleSmall
    <3>4. Addends(u) = Append(Append(a, half), t[3])
      BY <2>1, <2>3, <2>9, <3>2
    <3> HIDE DEF half
    <3>5. Append(a, half) \in Seq(Nat) /\ Total(Append(a, half)) = Total(a) + half
          /\ Total(a) \in Nat
      BY <2>3, <3>3, AppendProperties, TotalAppend
    <3>6. Total(Addends(u)) = (Total(a) + half) + t[3]
      BY <3>3, <3>4, <3>5, TotalAppend
    <3>7. Total(Addends(u)) = Total(a) + (half + t[3]) /\ half + t[3] \in Nat
      BY <3>3, <3>5, <3>6
    <3>8. QED
      BY <2>6, <3>3, <3>7, LikeSelf
  <2>10. CASE Len(t) = 4
    <3>1. Len(u) = 4 * (n + 1) + 0 /\ 0 \in 0..3 /\ n + 1 \in Nat
      BY <2>1, <2>10
    <3> DEFINE more == [k \in 1..(n + 1) |-> Half32(u, 4 * k - 3)]
    <3>2. Addends(u) = more /\ more \in Seq(Words) /\ Len(more) = n + 1
      BY <2>1, <3>1, AddendsAre
    <3>3. half \in Nat /\ half2 \in Nat /\ half \in 0..M /\ half2 \in 0..M
      BY <2>2, <2>10, HalfType
    <3>4. more[n + 1] = half + Half * half2
      <4>1. more[n + 1] = Half32(u, 4 * (n + 1) - 3)
        OBVIOUS
      <4>2. /\ 4 * (n + 1) - 3 = 4 * n + 1 /\ (4 * n + 1) + 1 = 4 * n + 2
            /\ (4 * n + 1) + 2 = 4 * n + 3 /\ (4 * n + 3) + 1 = 4 * n + 4
        OBVIOUS
      <4>3. Half32(u, 4 * n + 1) = (u[4 * n + 1] + B * u[4 * n + 2])
                                     + Half * (u[4 * n + 3] + B * u[4 * n + 4])
        BY <4>2 DEF Half32, Half16
      <4>4. QED
        BY <2>1, <2>10, <4>1, <4>2, <4>3
    <3> DEFINE word == half + Half * half2
    <3>5. word \in Words /\ word \in Nat
      BY <1>0, <3>3, WordType
    <3>6. Little(t) = half + half2
      <4>1. Little(t) = t[1] + B * t[2] + t[3] + B * t[4]
        BY <2>10, LittleSmall
      <4>2. t[1] \in Nat /\ B * t[2] \in Nat /\ t[3] \in Nat /\ B * t[4] \in Nat
        BY <2>2, <2>10, ByteType
      <4>3. QED
        BY <4>1, <4>2
    <3>7. more = Append(a, word)
      <4>1. \A k \in 1..n : more[k] = a[k]
        BY <2>3
      <4> HIDE DEF more, words, word
      <4>2. /\ Append(a, word) \in Seq(Words) /\ Len(Append(a, word)) = n + 1
            /\ \A k \in 1..n : Append(a, word)[k] = a[k]
            /\ Append(a, word)[n + 1] = word
        BY <2>3, <3>5, AppendProperties
      <4>3. \A k \in 1..(n + 1) : k \in 1..n \/ k = n + 1
        OBVIOUS
      <4>4. more[n + 1] = word
        BY <3>4 DEF word
      <4>5. \A k \in 1..(n + 1) : more[k] = Append(a, word)[k]
        BY <4>1, <4>2, <4>3, <4>4, Zenon
      <4>6. QED
        BY <3>2, <4>2, <4>5, SeqEqual
    <3>8. Like(word, Little(t))
      BY <3>3, <3>6, HighLike, LikeSelf, LikePlus
    <3> HIDE DEF more, word
    <3>9. Total(Addends(u)) = Total(a) + word
      BY <2>3, <3>2, <3>5, <3>7, TotalAppend
    <3>10. QED
      BY <2>6, <3>5, <3>8, <3>9
  <2>11. QED
    BY <2>2, <2>7, <2>8, <2>9, <2>10
<1>3. Seq(Byte) \subseteq S
  <2> HIDE DEF S
  <2>1. 4 \in Nat \ {0}
    OBVIOUS
  <2>2. QED
    BY <1>1, <1>2, <2>1, ChunkInduction
<1>4. QED
  BY <1>3

-----------------------------------------------------------------------------
(* The functions of the code, and the reference.                           *)

LEMMA ComplementIs ==
  ASSUME NEW sum \in Nat, NEW t \in Nat, Like(sum, t)
  PROVE  Complement(sum) = M - Norm(t)
<1>1. Folded[sum] = Norm(sum)
  BY FoldedIs
<1>2. Norm(sum) \in 0..M /\ Like(Norm(sum), t)
  BY NormIs, LikeTrans
<1>3. Norm(sum) = Norm(t)
  BY <1>2, NormUnique
<1>4. QED
  BY <1>1, <1>3 DEF Complement, M

LEMMA LittleType ==
  ASSUME NEW bytes \in Seq(Byte)
  PROVE  Little(bytes) \in Nat /\ Big(bytes) \in Nat
<1>1. 0 \in Byte
  BY Widths DEF Byte
<1>2. QED
  BY <1>1, LittleAppend

(* check_ics is the complement of the one's complement sum of the 16-bit   *)
(* words, the low byte first, for every sequence of bytes: no carry is     *)
(* lost between the words of 32 bits it adds, nor in the last ones.        *)
THEOREM CheckIcs ==
  ASSUME NEW bytes \in Seq(Byte)
  PROVE  check_ics(bytes) = M - Norm(Little(bytes))
<1>1. Addends(bytes) \in Seq(Words)
  BY AddendsType
<1>2. /\ Accumulated(AddWithCarry, Addends(bytes)) \in Words
      /\ Like(Accumulated(AddWithCarry, Addends(bytes)), Total(Addends(bytes)))
  BY <1>1, CarrySum
<1>3. Like(Accumulated(AddWithCarry, Addends(bytes)), Little(bytes))
  BY <1>2, AddendsSum, LikeTrans
<1>4. Accumulated(AddWithCarry, Addends(bytes)) \in Nat
  BY <1>3 DEF Like
<1>5. QED
  BY <1>3, <1>4, LittleType, ComplementIs DEF check_ics

(* ip_checksum2 computes the same of an even pseudo header and the data    *)
(* behind it, although it folds its carries at other times.                *)
THEOREM IpChecksum ==
  ASSUME NEW data1 \in Seq(Byte), NEW data2 \in Seq(Byte), Len(data1) % 2 = 0
  PROVE  ip_checksum2(data1, data2) = check_ics(data1 \o data2)
<1> DEFINE h1 == Halves(data1)
           h2 == Halves(data2)
<1>1. /\ 0..M \subseteq Nat
      /\ \A bytes \in Seq(Byte) : Halves(bytes) \in Seq(0..M)
  <2>1. ASSUME NEW bytes \in Seq(Byte) PROVE Halves(bytes) \in Seq(0..M)
    <3> DEFINE n == Len(bytes) \div 2
    <3>1. n \in Nat /\ (Len(bytes) = 2 * n \/ Len(bytes) = 2 * n + 1)
      OBVIOUS
    <3> HIDE DEF n
    <3>2. QED
      BY <3>1, HalvesAre
  <2>2. 0..M \subseteq Nat
    BY Widths
  <2>3. QED
    BY <2>1, <2>2
<1>2. h1 \in Seq(Nat) /\ h2 \in Seq(Nat)
  BY <1>1, SeqMonotonic
<1>3. Total(h1) = Little(data1) /\ Total(h2) = Little(data2)
  BY HalvesSum
<1> HIDE DEF h1, h2
<1>4. h1 \o h2 \in Seq(Nat) /\ Total(h1 \o h2) = Little(data1) + Little(data2)
  BY <1>2, <1>3, TotalConcat, ConcatProperties
<1>5. data1 \o data2 \in Seq(Byte) /\ Total(h1 \o h2) = Little(data1 \o data2)
  BY <1>4, LittleConcat, ConcatProperties
<1>6. Like(Accumulated(AddFolding, h1 \o h2), Little(data1 \o data2))
  BY <1>4, <1>5, FoldingSum
<1>7. Accumulated(AddFolding, h1 \o h2) \in Nat
  BY <1>6 DEF Like
<1>8. ip_checksum2(data1, data2) = M - Norm(Little(data1 \o data2))
  BY <1>5, <1>6, <1>7, LittleType, ComplementIs DEF ip_checksum2, h1, h2
<1>9. QED
  BY <1>5, <1>8, CheckIcs

(* Its sum fits in 32 bits whatever is added to it, so that nothing is     *)
(* lost although it is not reduced after every addition.                   *)
THEOREM FoldingFits ==
  ASSUME NEW sum \in 0..((Word \div 2) - 1), NEW s \in 0..M
  PROVE  sum + s < Word /\ AddFolding(sum, s) \in 0..((Word \div 2) - 1)
<1> DEFINE h == Word \div 2
           x == sum + s
           q == x \div Half
           r == x % Half
<1>1. Word \in Nat /\ Word = Half * Half /\ Half \in Nat /\ Half >= 4 /\ Half = M + 1 /\ M \in Nat
  BY Widths
<1>2. h \in Nat /\ (Word = 2 * h \/ Word = 2 * h + 1)
  BY <1>1
<1>3. Half * Half >= 4 * Half
  BY <1>1
<1> HIDE DEF h
<1>4. sum \in 0..(h - 1) /\ x \in Nat /\ x < h + Half
  BY <1>1, <1>2 DEF h
<1>5. h > Half /\ 2 * h >= 4 * Half - 1
  BY <1>1, <1>2, <1>3
<1>6. x < Word
  BY <1>1, <1>2, <1>4, <1>5
<1>7. CASE x < h
  BY <1>1, <1>2, <1>4, <1>6, <1>7 DEF AddFolding, h
<1>8. CASE x >= h
  <2>1. q \in Nat /\ r \in 0..(Half - 1) /\ x = Half * q + r
    <3>1. x \in Nat /\ Half \in Nat \ {0}
      BY <1>1, <1>4
    <3>2. QED
      BY <3>1, DivMod
  <2>2. AddFolding(sum, s) = r + q
    BY <1>8 DEF AddFolding, h
  <2> HIDE DEF q, r, x
  <2>3. 2 * q <= Half + 1
    <3>1. 2 * (Half * q) < Half * Half + 2 * Half
      BY <1>1, <1>2, <1>4, <2>1
    <3>2. CASE 2 * q >= Half + 2
      <4>1. Half * (2 * q) >= Half * (Half + 2)
        BY <1>1, <2>1, <3>2
      <4>2. Half * (2 * q) = 2 * (Half * q) /\ Half * (Half + 2) = Half * Half + 2 * Half
        BY <1>1, <2>1
      <4>3. QED
        BY <1>1, <2>1, <3>1, <4>1, <4>2
    <3>3. QED
      BY <1>1, <2>1, <3>2
  <2>4. r + q \in 0..(h - 1)
    BY <1>1, <1>2, <1>5, <2>1, <2>3
  <2>5. QED
    BY <1>6, <2>2, <2>4 DEF h, x
<1>9. QED
  BY <1>1, <1>2, <1>4, <1>7, <1>8

LEMMA RfcIs ==
  ASSUME NEW bytes \in Seq(Byte)
  PROVE  RfcSum(bytes) = M - Norm(Big(bytes))
BY DEF RfcSum, Norm, M, Big, BigTerms, Total

(* The two bytes of a number, in the other order.                          *)
Swapped(sum) == B * (sum % B) + (sum \div B)

LEMMA SwappedIs ==
  ASSUME NEW t \in Nat
  PROVE  Swapped(M - Norm(t)) = M - Norm(B * t)
<1> DEFINE x  == Norm(t)
           v  == M - x
           hi == v \div B
           lo == v % B
<1>1. B \in Nat /\ B >= 2 /\ Half = B * B /\ Half = M + 1 /\ M \in Nat
  BY Widths
<1>2. x \in 0..M /\ Like(x, t)
  BY NormIs
<1>3. v \in Nat
  BY <1>1, <1>2
<1>4. hi \in Nat /\ lo \in 0..(B - 1) /\ v = B * hi + lo
  <2>1. v \in Nat /\ B \in Nat \ {0}
    BY <1>1, <1>3
  <2>2. QED
    BY <2>1, DivMod
<1>5. Swapped(M - Norm(t)) = B * lo + hi
  BY DEF Swapped
<1> HIDE DEF x, hi, lo
<1>6. hi < B
  <2>1. B * hi < B * B
    BY <1>1, <1>2, <1>4
  <2>2. CASE hi >= B
    <3>1. B * hi >= B * B
      BY <1>1, <1>4, <2>2
    <3>2. B * hi \in Nat /\ B * B \in Nat
      BY <1>1, <1>4
    <3>3. QED
      BY <2>1, <3>1, <3>2
  <2>3. QED
    BY <1>1, <1>4, <2>2
<1> DEFINE hi2 == (B - 1) - hi
           lo2 == (B - 1) - lo
           y   == B * lo2 + hi2
<1>7. hi2 \in 0..(B - 1) /\ lo2 \in 0..(B - 1)
  BY <1>1, <1>4, <1>6
<1>8. x = B * hi2 + lo2
  <2>1. x = M - (B * hi + lo)
    BY <1>1, <1>2, <1>4
  <2>2. B * hi2 = (B * B - B) - B * hi
    BY <1>1, <1>4
  <2>3. B * hi \in Nat /\ B * B \in Nat
    BY <1>1, <1>4
  <2>4. QED
    BY <1>1, <1>4, <2>1, <2>2, <2>3
<1>9. y = M - (B * lo + hi)
  <2>1. B * lo2 = (B * B - B) - B * lo
    BY <1>1, <1>4
  <2>2. B * lo \in Nat /\ B * B \in Nat
    BY <1>1, <1>4
  <2>3. QED
    BY <1>1, <1>4, <2>1, <2>2
<1> HIDE DEF hi2, lo2
<1>10. Like(y, B * x)
  <2>1. B * x = y + hi2 * M
    <3>1. B * x = B * (B * hi2) + B * lo2
      BY <1>1, <1>7, <1>8
    <3>2. B * (B * hi2) = (M + 1) * hi2
      BY <1>1, <1>7
    <3>3. (M + 1) * hi2 = hi2 * M + hi2 /\ hi2 * M \in Nat /\ B * lo2 \in Nat
      BY <1>1, <1>7
    <3>4. QED
      BY <1>1, <1>7, <3>1, <3>2, <3>3
  <2>2. y \in Nat /\ B * x \in Nat /\ hi2 * M \in Nat /\ B * lo2 \in Nat
    BY <1>1, <1>2, <1>7
  <2>3. hi2 * M >= hi2
    BY <1>1, <1>7
  <2>4. y = 0 <=> B * x = 0
    <3>1. CASE y = 0
      <4>1. hi2 = 0
        BY <1>7, <2>2, <3>1
      <4>2. 0 * M = 0
        BY <1>1
      <4>3. QED
        BY <2>1, <3>1, <4>1, <4>2
    <3>2. CASE B * x = 0
      BY <2>1, <2>2, <3>2
    <3>3. QED
      BY <3>1, <3>2
  <2>5. y = B * x + (-hi2) * M /\ -hi2 \in Int
    BY <1>1, <1>7, <2>1, <2>2
  <2>6. QED
    BY <2>2, <2>4, <2>5 DEF Like
<1>11. Like(B * x, B * t)
  <2>1. PICK k \in Int : x = t + k * M
    BY <1>2 DEF Like
  <2>2. B * x = B * t + (B * k) * M /\ B * k \in Int
    BY <1>1, <2>1
  <2>3. x \in Nat /\ (x = 0 <=> t = 0)
    BY <1>2 DEF Like
  <2>4. \A n \in Nat : B * n \in Nat /\ (B * n = 0 <=> n = 0)
    BY <1>1
  <2>5. QED
    BY <2>2, <2>3, <2>4 DEF Like
<1>12. y \in 0..M
  <2>1. B * lo \in Nat
    BY <1>1, <1>4
  <2>2. B * lo2 \in Nat
    BY <1>1, <1>7
  <2>3. QED
    BY <1>1, <1>4, <1>7, <1>9, <2>1, <2>2
<1>13. y = Norm(B * t)
  BY <1>10, <1>11, <1>12, LikeTrans, NormUnique
<1>14. B * lo + hi = M - y
  <2>1. B * lo \in Nat
    BY <1>1, <1>4
  <2>2. QED
    BY <1>1, <1>4, <1>9, <2>1
<1>15. QED
  BY <1>5, <1>13, <1>14

(* The checksum of the code, stored low byte first, is that of RFC 1071,   *)
(* stored high byte first: for every width of a byte, and for every        *)
(* sequence of bytes, even and odd.                                        *)
THEOREM ChecksumIsRfc ==
  ASSUME NEW bytes \in Seq(Byte)
  PROVE  Swapped(check_ics(bytes)) = RfcSum(bytes)
<1>1. Swapped(check_ics(bytes)) = M - Norm(B * Little(bytes))
  BY CheckIcs, LittleType, SwappedIs
<1>2. Norm(B * Little(bytes)) = Norm(Big(bytes))
  <2>1. B * Little(bytes) \in Nat /\ Big(bytes) \in Nat
    BY LittleType, Widths
  <2>2. Like(Norm(Big(bytes)), B * Little(bytes))
    BY <2>1, BigIs, NormIs, LikeTrans
  <2>3. QED
    BY <2>1, <2>2, NormIs, NormUnique
<1>3. QED
  BY <1>1, <1>2, RfcIs

-----------------------------------------------------------------------------
(* Types.                                                                  *)

(* What the assumptions say of the constants.                              *)
LEMMA Constants ==
  /\ EthHdr \in Nat /\ NRF9160_MTU \in Nat /\ NRF9160_MTU < B /\ IpHdr = 6
  /\ \A size \in FragSizes : size \in Nat /\ EthHdr + 6 <= size /\ size <= NRF9160_MTU
  /\ server \in Byte /\ my_ip_addr \in Byte /\ server_port \in Byte
  /\ 0 \in Byte
BY PacketAssumption, Widths DEF IpHdr, Byte

(* The rows of the table hold bytes, and are told apart by either port.    *)
LEMMA RowsAre ==
  /\ \A row \in pmap : row.client \in Byte /\ row.eth_port \in Byte /\ row.lte_port \in Byte
  /\ \A row, other \in pmap : row.lte_port = other.lte_port => row = other
  /\ \A row, other \in pmap :
       row.client = other.client /\ row.eth_port = other.eth_port => row = other
  /\ LtePorts \subseteq Byte
BY TableAssumption

LEMMA PortsForType ==
  ASSUME NEW w, NEW port \in PortsFor(w)
  PROVE  port \in Byte
<1>1. CASE RowsByClient(w) # {}
  BY <1>1, RowsAre DEF PortsFor, RowsByClient
<1>2. CASE RowsByClient(w) = {}
  BY <1>2, RowsAre DEF PortsFor
<1>3. QED
  BY <1>1, <1>2

LEMMA BufferIsSeq ==
  ASSUME NEW buffer \in Buffers
  PROVE  buffer \in Seq(Byte) /\ Len(buffer) = NRF9160_MTU
BY Constants, FunctionIsSeq DEF Buffers

(* The two ways to write 16 bits into a sequence.                          *)
LEMMA SplitHalf ==
  ASSUME NEW value \in 0..M
  PROVE  value % B \in Byte /\ value \div B \in Byte /\ value = (value % B) + B * (value \div B)
<1>1. value \in Nat /\ B \in Nat \ {0} /\ value < B * B
  BY Widths
<1>2. /\ value = B * (value \div B) + (value % B)
      /\ value % B \in 0..(B - 1) /\ value \div B \in Nat
  BY <1>1, DivMod
<1> DEFINE hi == value \div B
           lo == value % B
<1> HIDE DEF hi, lo
<1>3. CASE hi >= B
  <2>1. hi \in Nat /\ lo \in Nat /\ value = B * hi + lo
    BY <1>1, <1>2 DEF hi, lo
  <2>2. B * hi >= B * B
    BY <1>1, <1>3, <2>1
  <2>3. B * hi \in Nat /\ B * B \in Nat
    BY <1>1, <2>1
  <2>4. QED
    BY <1>1, <2>1, <2>2, <2>3
<1>4. CASE ~(hi >= B)
  <2>1. hi \in 0..(B - 1)
    BY <1>1, <1>2, <1>4 DEF hi
  <2>2. B * hi \in Nat
    BY <1>1, <2>1
  <2>3. QED
    BY <1>1, <1>2, <2>1, <2>2 DEF hi, lo, Byte
<1>5. QED
  BY <1>3, <1>4

(* Both ways to store 16 bits change two bytes and no more.                *)
LEMMA StoreType ==
  ASSUME NEW bytes \in Seq(Byte), NEW pos \in Nat, NEW value \in 0..M
  PROVE  /\ Store16(bytes, pos, value) \in Seq(Byte)
         /\ Len(Store16(bytes, pos, value)) = Len(bytes)
         /\ \A i \in 1..Len(bytes) :
              Store16(bytes, pos, value)[i] =
                IF i = pos THEN value % B ELSE IF i = pos + 1 THEN value \div B ELSE bytes[i]
         /\ HighFirst(bytes, pos, value) \in Seq(Byte)
         /\ Len(HighFirst(bytes, pos, value)) = Len(bytes)
         /\ \A i \in 1..Len(bytes) :
              HighFirst(bytes, pos, value)[i] =
                IF i = pos THEN value \div B ELSE IF i = pos + 1 THEN value % B ELSE bytes[i]
<1> DEFINE lo == value % B
           hi == value \div B
           n  == Len(bytes)
<1>1. lo \in Byte /\ hi \in Byte
  BY SplitHalf
<1>2. n \in Nat /\ bytes \in [1..n -> Byte]
  OBVIOUS
<1> HIDE DEF lo, hi, n
<1>3. /\ Store16(bytes, pos, value) = [bytes EXCEPT ![pos] = lo, ![pos + 1] = hi]
      /\ HighFirst(bytes, pos, value) = [bytes EXCEPT ![pos] = hi, ![pos + 1] = lo]
  BY DEF Store16, HighFirst, lo, hi
<1> DEFINE Put(x, y) == [bytes EXCEPT ![pos] = x, ![pos + 1] = y]
<1>4. ASSUME NEW x \in Byte, NEW y \in Byte
      PROVE  /\ Put(x, y) \in [1..n -> Byte]
             /\ \A i \in 1..n :
                  Put(x, y)[i] = IF i = pos THEN x ELSE IF i = pos + 1 THEN y ELSE bytes[i]
  <2> DEFINE mid == [bytes EXCEPT ![pos] = x]
  <2>1. mid \in [1..n -> Byte] /\ \A i \in 1..n : mid[i] = IF i = pos THEN x ELSE bytes[i]
    BY <1>2
  <2>2. Put(x, y) = [mid EXCEPT ![pos + 1] = y]
    OBVIOUS
  <2> HIDE DEF mid, Put
  <2>3. pos # pos + 1
    OBVIOUS
  <2>4. Put(x, y) \in [1..n -> Byte]
        /\ \A i \in 1..n : Put(x, y)[i] = IF i = pos + 1 THEN y ELSE mid[i]
    BY <2>1, <2>2
  <2>5. QED
    BY <2>1, <2>3, <2>4
<1>5. ASSUME NEW x \in Byte, NEW y \in Byte
      PROVE  Put(x, y) \in Seq(Byte) /\ Len(Put(x, y)) = n
  BY <1>2, <1>4, FunctionIsSeq
<1>6. QED
  BY <1>1, <1>3, <1>4, <1>5 DEF lo, hi, n

LEMMA StoreOK ==
  ASSUME NEW bytes \in Seq(Byte), NEW pos \in Nat, NEW value \in 0..M
  PROVE  /\ Store16(bytes, pos, value) \in Seq(Byte)
         /\ Len(Store16(bytes, pos, value)) = Len(bytes)
         /\ HighFirst(bytes, pos, value) \in Seq(Byte)
         /\ Len(HighFirst(bytes, pos, value)) = Len(bytes)
BY StoreType

LEMMA SumTypes ==
  ASSUME NEW bytes \in Seq(Byte)
  PROVE  check_ics(bytes) \in 0..M /\ RfcSum(bytes) \in 0..M
<1>1. ASSUME NEW t \in Nat PROVE M - Norm(t) \in 0..M
  <2>1. Norm(t) \in 0..M /\ M \in Nat
    BY NormIs, Widths
  <2>2. QED
    BY <2>1
<1>2. QED
  BY <1>1, CheckIcs, RfcIs, LittleType

(* The parts of a packet.                                                  *)
Packets == {packet \in Seq(Byte) : IpHdr <= Len(packet) /\ Len(packet) < B}

(* A packet is its header and its data.                                    *)
LEMMA PartTypes ==
  ASSUME NEW packet \in Packets
  PROVE  /\ IpHdr \in Nat
         /\ packet \in Seq(Byte) /\ Len(packet) \in Nat /\ Len(packet) >= IpHdr /\ Len(packet) < B
         /\ Header(packet) \in Seq(Byte) /\ Len(Header(packet)) = IpHdr
         /\ \A i \in 1..IpHdr : Header(packet)[i] = packet[i]
         /\ Data(packet) \in Seq(Byte) /\ Len(Data(packet)) = Len(packet) - IpHdr
         /\ \A i \in 1..(Len(packet) - IpHdr) : Data(packet)[i] = packet[IpHdr + i]
         /\ packet = Header(packet) \o Data(packet)
         /\ \A i \in 1..IpHdr : packet[i] \in Byte
<1>1. /\ packet \in Seq(Byte) /\ Len(packet) \in Nat /\ Len(packet) >= IpHdr /\ Len(packet) < B
      /\ IpHdr \in Nat
  BY DEF Packets, IpHdr
<1>2. IpHdr \in 0..Len(packet)
  BY <1>1
<1>3. /\ Header(packet) \in Seq(Byte) /\ Len(Header(packet)) = IpHdr
      /\ \A i \in 1..IpHdr : Header(packet)[i] = packet[i]
  BY <1>1, <1>2, PrefixType DEF Header
<1>4. /\ Data(packet) \in Seq(Byte) /\ Len(Data(packet)) = Len(packet) - IpHdr
      /\ \A i \in 1..(Len(packet) - IpHdr) : Data(packet)[i] = packet[IpHdr + i]
  BY <1>1, <1>2, SuffixType DEF Data
<1>5. packet = Header(packet) \o Data(packet)
  BY <1>1, <1>2, Split DEF Header, Data
<1>6. \A i \in 1..IpHdr : packet[i] \in Byte
  BY <1>1
<1>7. QED
  BY <1>1, <1>3, <1>4, <1>5, <1>6

LEMMA PseudoType ==
  ASSUME NEW packet \in Packets
  PROVE  Pseudo(packet) \in Seq(Byte) /\ Len(Pseudo(packet)) = 4
<1>1. packet[5] \in Byte /\ packet[6] \in Byte /\ packet[2] \in Byte
  BY PartTypes DEF IpHdr
<1>2. Len(packet) - IpHdr \in Byte
  <2>1. /\ Len(packet) \in Nat /\ Len(packet) >= IpHdr /\ Len(packet) < B
        /\ B \in Nat /\ IpHdr \in Nat
    BY PartTypes, Widths
  <2>2. QED
    BY <2>1 DEF Byte
<1>3. QED
  BY <1>1, <1>2 DEF Pseudo

(* ip_checksum2 of pseudo header and data is check_ics of both in a row.   *)
LEMMA PseudoSum ==
  ASSUME NEW packet \in Packets, NEW bytes \in Seq(Byte)
  PROVE  /\ ip_checksum2(Pseudo(packet), bytes) = check_ics(Pseudo(packet) \o bytes)
         /\ ip_checksum2(Pseudo(packet), bytes) \in 0..M
         /\ Pseudo(packet) \o bytes \in Seq(Byte)
<1>1. Pseudo(packet) \in Seq(Byte) /\ Len(Pseudo(packet)) % 2 = 0
  <2>1. 4 % 2 = 0
    OBVIOUS
  <2>2. QED
    BY <2>1, PseudoType, Zenon
<1>2. ip_checksum2(Pseudo(packet), bytes) = check_ics(Pseudo(packet) \o bytes)
  BY <1>1, IpChecksum
<1>3. Pseudo(packet) \o bytes \in Seq(Byte)
  BY <1>1, ConcatProperties
<1>4. QED
  BY <1>2, <1>3, SumTypes

(* Two sequences in a row.                                                 *)
LEMMA WholeType ==
  ASSUME NEW h \in Seq(Byte), NEW d \in Seq(Byte)
  PROVE  /\ h \o d \in Seq(Byte) /\ Len(h \o d) = Len(h) + Len(d)
         /\ \A i \in 1..Len(h) : (h \o d)[i] = h[i]
         /\ \A i \in 1..Len(d) : (h \o d)[Len(h) + i] = d[i]
BY ConcatParts

(* The checksum that Resummed stores with the data.                        *)
DataSum(packet) ==
  IF packet[2] = IPPROTO_ICMP
  THEN check_ics(Store16(Data(packet), 3, 0))
  ELSE ip_checksum2(Pseudo(packet), Store16(Data(packet), 3, 0))

(* The header and the data of a packet with its sums computed anew.        *)
LEMMA ResummedParts ==
  ASSUME NEW packet \in Packets
  PROVE  /\ DataSum(packet) \in 0..M
         /\ Resummed(packet) \in Packets /\ Len(Resummed(packet)) = Len(packet)
         /\ Header(Resummed(packet)) = calc_ics(Header(packet), 3)
         /\ Data(Resummed(packet)) =
              Store16(Store16(Data(packet), 3, 0), 3, DataSum(packet))
<1> DEFINE header == calc_ics(Header(packet), 3)
           bare   == Store16(Data(packet), 3, 0)
           data   == Store16(bare, 3, DataSum(packet))
           n      == Len(packet)
           whole  == Resummed(packet)
<1>1. /\ IpHdr \in Nat /\ n \in Nat /\ n >= IpHdr /\ n < B /\ 0 \in 0..M /\ 3 \in Nat
      /\ Header(packet) \in Seq(Byte) /\ Len(Header(packet)) = IpHdr
      /\ Data(packet) \in Seq(Byte) /\ Len(Data(packet)) = n - IpHdr
  BY PartTypes, Widths
<1>2. bare \in Seq(Byte) /\ Len(bare) = n - IpHdr
  BY <1>1, StoreOK
<1>3. DataSum(packet) \in 0..M
  BY <1>2, SumTypes, PseudoSum DEF DataSum
<1>4. data \in Seq(Byte) /\ Len(data) = n - IpHdr
  BY <1>1, <1>2, <1>3, StoreOK
<1>5. header \in Seq(Byte) /\ Len(header) = IpHdr
  <2>1. Store16(Header(packet), 3, 0) \in Seq(Byte)
    BY <1>1, StoreOK
  <2>2. check_ics(Store16(Header(packet), 3, 0)) \in 0..M
    BY <2>1, SumTypes
  <2>3. QED
    BY <1>1, <2>2, StoreOK DEF calc_ics
<1>6. whole = header \o data
  BY DEF Resummed, DataSum
<1> HIDE DEF header, bare, data, n, whole
<1>7. /\ whole \in Seq(Byte) /\ Len(whole) = IpHdr + (n - IpHdr) /\ Len(whole) = n
      /\ \A i \in 1..IpHdr : whole[i] = header[i]
      /\ \A i \in 1..(n - IpHdr) : whole[IpHdr + i] = data[i]
  <2> DEFINE k == n - IpHdr
  <2>1. k \in Nat /\ IpHdr + k = n /\ IpHdr \in Nat
    BY <1>1
  <2>2. Len(header) = IpHdr /\ Len(data) = k /\ header \in Seq(Byte) /\ data \in Seq(Byte)
    BY <1>4, <1>5
  <2> HIDE DEF k
  <2>3. /\ header \o data \in Seq(Byte) /\ Len(header \o data) = IpHdr + k
        /\ \A i \in 1..IpHdr : (header \o data)[i] = header[i]
        /\ \A i \in 1..k : (header \o data)[IpHdr + i] = data[i]
    <3>1. /\ header \o data \in Seq(Byte) /\ Len(header \o data) = Len(header) + Len(data)
          /\ \A i \in 1..Len(header) : (header \o data)[i] = header[i]
          /\ \A i \in 1..Len(data) : (header \o data)[Len(header) + i] = data[i]
      BY <2>2, WholeType
    <3>2. QED
      BY <2>2, <3>1
  <2>4. QED
    BY <1>6, <2>1, <2>3 DEF k
<1>8. whole \in Packets
  BY <1>1, <1>7 DEF Packets
<1>9. Header(whole) = header
  <2>1. /\ Header(whole) \in Seq(Byte) /\ Len(Header(whole)) = IpHdr
        /\ \A i \in 1..IpHdr : Header(whole)[i] = whole[i]
    BY <1>8, PartTypes
  <2>2. \A i \in 1..IpHdr : Header(whole)[i] = header[i]
    BY <1>7, <2>1
  <2>3. QED
    BY <1>5, <2>1, <2>2, SeqEqual
<1>10. Data(whole) = data
  <2>1. /\ Data(whole) \in Seq(Byte) /\ Len(Data(whole)) = n - IpHdr
        /\ \A i \in 1..(n - IpHdr) : Data(whole)[i] = whole[IpHdr + i]
    BY <1>7, <1>8, PartTypes
  <2>2. \A i \in 1..(n - IpHdr) : Data(whole)[i] = data[i]
    BY <1>7, <2>1
  <2>3. QED
    BY <1>4, <2>1, <2>2, SeqEqual
<1>11. QED
  BY <1>3, <1>7, <1>8, <1>9, <1>10 DEF whole, header, data, bare, n

-----------------------------------------------------------------------------
(* Reassembly.                                                             *)

(* The buffer when n bytes of a frame's packet have been copied.           *)
Filled(frame, buffer, n) ==
  [i \in 1..NRF9160_MTU |-> IF i <= n THEN frame[EthHdr + i] ELSE buffer[i]]

LEMMA SmallerIs ==
  ASSUME NEW m \in Int, NEW n \in Int
  PROVE  /\ Smaller(m, n) \in {m, n}
         /\ Smaller(m, n) <= m /\ Smaller(m, n) <= n
BY DEF Smaller

(* The bytes of frag stand in the frame behind its first at bytes.         *)
CutFrom(frame, at, frag) == \A j \in 1..Len(frag) : frag[j] = frame[at + j]

(* What a turn of eth_recv_cb's loop adds: sums of the smaller of two.     *)
TurnAdds(tsz, at, end, hdr) ==
  LET dsz == Smaller(tsz, at - hdr)
  IN  /\ dsz < tsz => at + 0 = hdr + dsz
      /\ dsz + Smaller((end - at) - 0, tsz - dsz) = Smaller(tsz, end - hdr)

LEMMA TurnSum ==
  ASSUME NEW tsz \in Nat, NEW at \in Nat, NEW end \in Nat, NEW hdr \in Nat,
         hdr <= at, at <= end
  PROVE  TurnAdds(tsz, at, end, hdr)
BY DEF Smaller, TurnAdds

(* One turn of the loop copies on from where the last one ended.           *)
LEMMA CopiedIs ==
  ASSUME NEW frame, NEW buffer, NEW tsz \in 0..NRF9160_MTU, NEW dsz \in 0..tsz,
         NEW frag \in Seq(Byte), NEW skip \in 0..Len(frag), NEW at \in Nat,
         CutFrom(frame, at, frag),
         dsz < tsz => at + skip = EthHdr + dsz,
         skip = 0 \/ (dsz = 0 /\ Len(frag) <= NRF9160_MTU)
  PROVE  LET more == dsz + Smaller(Len(frag) - skip, tsz - dsz)
         IN  Copied(tsz, dsz, frag, skip, Filled(frame, buffer, dsz)) =
               [dsz |-> more, data |-> Filled(frame, buffer, more)]
<1> DEFINE n == Len(frag)
           s == Smaller(n - skip, tsz - dsz)
           part == SubSeq(frag, skip + 1, skip + s)
           mem == Filled(frame, buffer, dsz)
<1>1. /\ n \in Nat /\ NRF9160_MTU \in Nat /\ EthHdr \in Nat /\ skip \in 0..n
      /\ \A j \in 1..n : frag[j] \in Byte /\ frag[j] = frame[at + j]
  BY Constants DEF CutFrom
<1>2. Smaller(Smaller(NRF9160_MTU - dsz, n) - skip, tsz - dsz) = s
  <2>1. n - skip \in Nat /\ (skip = 0 \/ (dsz = 0 /\ n <= NRF9160_MTU))
    BY <1>1
  <2> HIDE DEF n
  <2>2. QED
    BY <1>1, <2>1 DEF Smaller
<1>3. s \in 0..(n - skip) /\ s <= tsz - dsz
  BY <1>1 DEF Smaller
<1>4. Copied(tsz, dsz, frag, skip, mem) =
        [dsz |-> dsz + s, data |-> Overwritten(mem, dsz, part)]
  BY <1>2 DEF Copied
<1> HIDE DEF n, s
<1>5. /\ part \in Seq(Byte) /\ Len(part) = s
      /\ \A j \in 1..s : part[j] = frag[skip + j]
  <2>1. \A j \in (skip + 1)..(skip + s) : frag[j] \in Byte
    BY <1>1, <1>3
  <2>2. /\ part \in Seq(Byte)
        /\ Len(part) = IF skip + 1 <= skip + s THEN (skip + s) - (skip + 1) + 1 ELSE 0
        /\ \A j \in 1..((skip + s) - (skip + 1) + 1) : part[j] = frag[(skip + 1) + j - 1]
    <3>1. skip + 1 \in Int /\ skip + s \in Int
      BY <1>1, <1>3
    <3>2. QED
      BY <2>1, <3>1, SubSeqProperties
  <2>3. /\ (IF skip + 1 <= skip + s THEN (skip + s) - (skip + 1) + 1 ELSE 0) = s
        /\ (skip + s) - (skip + 1) + 1 = s
        /\ \A j \in 1..s : (skip + 1) + j - 1 = skip + j
    BY <1>1, <1>3
  <2>4. QED
    BY <2>2, <2>3
<1> HIDE DEF part
<1>6. DOMAIN part = 1..s
  BY <1>5
<1>7. Overwritten(mem, dsz, part) = Filled(frame, buffer, dsz + s)
  <2>1. ASSUME NEW i \in 1..NRF9160_MTU
        PROVE  (IF i - dsz \in 1..s THEN part[i - dsz] ELSE mem[i]) =
                 IF i <= dsz + s THEN frame[EthHdr + i] ELSE buffer[i]
    <3>1. CASE i - dsz \in 1..s
      <4>1. i <= dsz + s /\ dsz < tsz /\ skip + (i - dsz) \in 1..n
        BY <1>1, <1>3, <3>1
      <4>2. part[i - dsz] = frame[at + (skip + (i - dsz))]
        BY <1>1, <1>5, <3>1, <4>1
      <4>3. at + (skip + (i - dsz)) = EthHdr + i
        BY <1>1, <4>1
      <4>4. QED
        BY <3>1, <4>1, <4>2, <4>3
    <3>2. CASE ~(i - dsz \in 1..s)
      <4>1. i <= dsz + s <=> i <= dsz
        BY <1>1, <1>3, <3>2
      <4>2. mem[i] = IF i <= dsz THEN frame[EthHdr + i] ELSE buffer[i]
        BY DEF Filled
      <4>3. QED
        BY <3>2, <4>1, <4>2
    <3>3. QED
      BY <3>1, <3>2
  <2>2. DOMAIN mem = 1..NRF9160_MTU
    BY DEF Filled
  <2> HIDE DEF mem
  <2>3. Overwritten(mem, dsz, part) =
          [i \in 1..NRF9160_MTU |-> IF i - dsz \in 1..s THEN part[i - dsz] ELSE mem[i]]
    BY <1>6, <2>2 DEF Overwritten
  <2>4. QED
    BY <2>1, <2>3 DEF Filled
<1>8. QED
  BY <1>4, <1>7 DEF s, n

(* The fragments of a frame follow each other and leave nothing out.       *)
LEMMA FragmentIs ==
  ASSUME NEW frame \in Seq(Byte), NEW size \in Nat \ {0}, Len(frame) > 0
  PROVE  LET frags == Fragments(frame, size)
             n     == Len(frame)
         IN  /\ Len(frags) \in Nat /\ Len(frags) >= 1
             /\ Len(frags) * size >= n
             /\ \A k \in 1..Len(frags) :
                  /\ (k - 1) * size < n
                  /\ frags[k] \in Seq(Byte)
                  /\ Len(frags[k]) = Smaller(k * size, n) - (k - 1) * size
                  /\ \A j \in 1..Len(frags[k]) : frags[k][j] = frame[(k - 1) * size + j]
<1> DEFINE frags == Fragments(frame, size)
           n     == Len(frame)
           c     == (n + size - 1) \div size
<1>1. n \in Nat /\ n > 0 /\ \A i \in 1..n : frame[i] \in Byte
  OBVIOUS
<1> HIDE DEF n
<1>2. c \in Nat /\ c >= 1 /\ c * size >= n /\ \A k \in 1..c : (k - 1) * size < n
  <2> DEFINE a == n + size - 1
             r == a % size
  <2>1. a \in Nat
    BY <1>1
  <2>2. a = size * c + r /\ r \in 0..(size - 1) /\ c \in Nat
    BY <2>1, DivMod
  <2> HIDE DEF c, r
  <2>3. c * size >= n /\ c * size < n + size /\ size * c = c * size
    BY <1>1, <2>1, <2>2
  <2>4. c >= 1
    <3>1. CASE c = 0
      BY <1>1, <2>3, <3>1
    <3>2. QED
      BY <2>2, <3>1
  <2>5. ASSUME NEW k \in 1..c PROVE (k - 1) * size < n
    <3>1. (k - 1) * size <= (c - 1) * size
      BY <2>2
    <3>2. (c - 1) * size = c * size - size
      BY <2>2
    <3>3. c * size \in Int /\ (k - 1) * size \in Int
      BY <2>2
    <3>4. QED
      BY <1>1, <2>3, <3>1, <3>2, <3>3
  <2>6. QED
    BY <2>2, <2>3, <2>4, <2>5
<1> HIDE DEF c
<1>3. frags = [k \in 1..c |-> SubSeq(frame, (k - 1) * size + 1, Smaller(k * size, n))]
  BY DEF Fragments, c, n
<1>4. Len(frags) = c
  BY <1>2, <1>3
<1> HIDE DEF frags
<1>5. ASSUME NEW k \in 1..c
      PROVE  /\ frags[k] \in Seq(Byte)
             /\ Len(frags[k]) = Smaller(k * size, n) - (k - 1) * size
             /\ \A j \in 1..Len(frags[k]) : frags[k][j] = frame[(k - 1) * size + j]
  <2> DEFINE from == (k - 1) * size
             to   == Smaller(k * size, n)
  <2>1. from \in Nat /\ k * size = from + size /\ k * size \in Nat
    BY <1>2
  <2>2. from < n /\ to \in Nat /\ to <= n /\ to > from
    BY <1>1, <1>2, <2>1 DEF Smaller
  <2> HIDE DEF from, to
  <2>3. \A i \in (from + 1)..to : frame[i] \in Byte
    BY <1>1, <2>1, <2>2
  <2>4. /\ SubSeq(frame, from + 1, to) \in Seq(Byte)
        /\ Len(SubSeq(frame, from + 1, to)) =
             IF from + 1 <= to THEN to - (from + 1) + 1 ELSE 0
        /\ \A j \in 1..(to - (from + 1) + 1) :
             SubSeq(frame, from + 1, to)[j] = frame[(from + 1) + j - 1]
    <3>1. from + 1 \in Int /\ to \in Int
      BY <2>1, <2>2
    <3>2. QED
      BY <2>3, <3>1, SubSeqProperties
  <2>5. /\ (IF from + 1 <= to THEN to - (from + 1) + 1 ELSE 0) = to - from
        /\ to - (from + 1) + 1 = to - from
        /\ \A j \in 1..(to - from) : (from + 1) + j - 1 = from + j
    BY <2>1, <2>2
  <2>6. frags[k] = SubSeq(frame, from + 1, to)
    BY <1>3 DEF from, to
  <2>7. QED
    BY <2>4, <2>5, <2>6 DEF from, to
<1>6. QED
  BY <1>2, <1>4, <1>5 DEF n, frags

(* Over all turns: the buffer holds the packet, as much of it as came.     *)
LEMMA ReassembledIs ==
  ASSUME NEW frame \in Seq(Byte), NEW size \in FragSizes, NEW buffer \in Buffers,
         Len(frame) >= EthHdr + IpHdr, NEW tsz \in 0..NRF9160_MTU, tsz = frame[EthHdr + 1]
  PROVE  Reassembled(Fragments(frame, size), buffer) =
           Filled(frame, buffer, Smaller(tsz, Len(frame) - EthHdr))
<1> DEFINE frags == Fragments(frame, size)
           n     == Len(frame)
           c     == Len(frags)
           At(k)  == (k - 1) * size
           End(k) == Smaller(k * size, n)
           Got(k) == IF k = 0 THEN 0 ELSE Smaller(tsz, End(k) - EthHdr)
           Copy(k) == [dsz |-> Got(k), data |-> Filled(frame, buffer, Got(k))]
           Turn(copy, k) ==
             Copied(tsz, copy[k - 1].dsz, frags[k], IF k = 1 THEN EthHdr ELSE 0, copy[k - 1].data)
           Loop(copy) ==
             [k \in 0..c |-> IF k = 0 THEN [dsz |-> 0, data |-> buffer] ELSE Turn(copy, k)]
           all  == [k \in 0..c |-> Copy(k)]
           loop == CHOOSE copy : copy = Loop(copy)
<1>1. /\ size \in Nat /\ EthHdr \in Nat /\ NRF9160_MTU \in Nat /\ n \in Nat
      /\ EthHdr < size /\ size <= NRF9160_MTU /\ EthHdr < n
  BY Constants DEF IpHdr
<1>2. /\ c \in Nat /\ c >= 1 /\ c * size >= n
      /\ \A k \in 1..c :
           /\ At(k) < n
           /\ frags[k] \in Seq(Byte)
           /\ Len(frags[k]) = End(k) - At(k)
           /\ \A j \in 1..Len(frags[k]) : frags[k][j] = frame[At(k) + j]
  <2>1. size \in Nat \ {0} /\ Len(frame) > 0
    BY <1>1
  <2>2. QED
    BY <2>1, FragmentIs
<1>3. /\ c \in Nat /\ 1 \in 1..c /\ c \in 1..c
      /\ \A k \in 1..c : (k = 1 \/ k - 1 \in 1..c) /\ k - 1 \in 0..c /\ k \in 0..c /\ k # 0
      /\ \A k \in 0..c : k = 0 \/ k \in 1..c
  BY <1>2
<1>4. At(1) = 0 /\ \A k \in 1..c : frags[k] \in Seq(Byte) /\ Len(frags[k]) = End(k) - At(k)
  BY <1>1, <1>2
<1>5. \A k \in 1..c : \A j \in 1..Len(frags[k]) : frags[k][j] = frame[At(k) + j]
  BY <1>2
<1>6. /\ End(c) = n
      /\ \A k \in 1..c :
           /\ At(k) \in Nat /\ End(k) \in Nat
           /\ At(k) <= End(k) /\ End(k) <= At(k) + size /\ End(k) <= n /\ EthHdr < End(k)
           /\ k > 1 => At(k) >= size /\ End(k - 1) = At(k)
  <2>1. c * size >= n /\ \A k \in 1..c : At(k) < n
    BY <1>2
  <2>2. ASSUME NEW k \in 1..c
        PROVE  /\ At(k) \in Nat /\ k * size = At(k) + size
               /\ k > 1 => At(k) >= size
               /\ End(k - 1) = Smaller(At(k), n)
    <3>1. k \in Nat /\ k - 1 \in Nat /\ (k > 1 => k - 2 \in Nat)
      BY <1>3
    <3>2. k > 1 => (k - 1) * size = (k - 2) * size + size /\ (k - 2) * size \in Nat
      BY <1>1, <3>1
    <3>3. QED
      BY <1>1, <3>1, <3>2
  <2>3. c * size \in Int
    BY <1>1, <1>3
  <2>4. End(c) = n
    BY <1>1, <2>1, <2>3 DEF Smaller
  <2>5. ASSUME NEW k \in 1..c
        PROVE  /\ End(k) \in Nat /\ At(k) <= End(k) /\ End(k) <= At(k) + size
               /\ End(k) <= n /\ EthHdr < End(k)
               /\ k > 1 => End(k - 1) = At(k)
    <3>1. End(k) = Smaller(At(k) + size, n)
      BY <2>2
    <3>2. At(k) \in Nat /\ At(k) < n /\ (k > 1 => End(k - 1) = Smaller(At(k), n))
      BY <2>1, <2>2
    <3> HIDE DEF At, End
    <3>3. QED
      BY <1>1, <3>1, <3>2 DEF Smaller
  <2>6. QED
    BY <2>2, <2>4, <2>5
<1> HIDE DEF frags, n, c, At, End
<1>7. \A k \in 0..c : Got(k) \in 0..tsz
  <2>1. tsz \in Nat
    BY <1>1
  <2>2. ASSUME NEW k \in 1..c PROVE Smaller(tsz, End(k) - EthHdr) \in 0..tsz
    <3>1. End(k) \in Nat /\ EthHdr < End(k)
      BY <1>6
    <3>2. QED
      BY <1>1, <2>1, <3>1 DEF Smaller
  <2>3. 0 \in 0..tsz
    BY <2>1
  <2>4. QED
    BY <1>3, <2>2, <2>3
<1>8. frags[1][EthHdr + 1] = tsz
  <2>1. EthHdr + 1 \in 1..(End(1) - At(1)) /\ At(1) + (EthHdr + 1) = EthHdr + 1
    <3>1. EthHdr \in Nat /\ At(1) = 0 /\ End(1) \in Nat /\ EthHdr < End(1)
      BY <1>1, <1>3, <1>4, <1>6
    <3>2. QED
      BY ONLY <3>1
  <2>2. EthHdr + 1 \in 1..Len(frags[1])
    BY <1>3, <1>4, <2>1
  <2>3. QED
    BY <1>3, <1>5, <2>1, <2>2
<1>9. ASSUME NEW k \in 1..c PROVE Turn(all, k) = Copy(k)
  <2> DEFINE dsz  == Got(k - 1)
             skip == IF k = 1 THEN EthHdr ELSE 0
             s    == Smaller(Len(frags[k]) - skip, tsz - dsz)
  <2>1. all[k - 1] = Copy(k - 1)
    BY <1>3
  <2>2. Turn(all, k) = Copied(tsz, dsz, frags[k], skip, Filled(frame, buffer, dsz))
    BY <2>1
  <2>3. dsz \in 0..tsz
    BY <1>3, <1>7
  <2>4. frags[k] \in Seq(Byte) /\ Len(frags[k]) = End(k) - At(k)
    BY <1>4
  <2>5. /\ At(k) \in Nat /\ End(k) \in Nat /\ EthHdr < End(k)
        /\ At(k) <= End(k) /\ End(k) <= At(k) + size
    BY <1>6
  <2>6. /\ skip \in 0..Len(frags[k])
        /\ skip = 0 \/ (dsz = 0 /\ Len(frags[k]) <= NRF9160_MTU)
        /\ dsz < tsz => At(k) + skip = EthHdr + dsz
        /\ dsz + s = Got(k)
    <3>1. Got(k) = Smaller(tsz, End(k) - EthHdr)
      BY <1>3
    <3>2. CASE k = 1
      <4>1. At(k) = 0 /\ skip = EthHdr /\ dsz = 0
        BY <1>4, <3>2
      <4> SUFFICES /\ EthHdr \in 0..(End(k) - 0) /\ End(k) - 0 <= NRF9160_MTU
                   /\ 0 + EthHdr = EthHdr + 0
                   /\ 0 + Smaller((End(k) - 0) - EthHdr, tsz - 0) = Smaller(tsz, End(k) - EthHdr)
        BY <2>4, <3>1, <4>1
      <4>2. End(k) <= size
        BY <1>1, <2>5, <4>1
      <4> HIDE DEF dsz, skip, s, Got
      <4>3. QED
        BY <1>1, <2>5, <4>2 DEF Smaller
    <3>3. CASE k # 1
      <4>1. /\ dsz = Smaller(tsz, At(k) - EthHdr) /\ skip = 0 /\ At(k) >= size
        BY <1>3, <1>6, <3>3
      <4> SUFFICES /\ 0 \in 0..(End(k) - At(k))
                   /\ dsz < tsz => At(k) + 0 = EthHdr + dsz
                   /\ dsz + Smaller((End(k) - At(k)) - 0, tsz - dsz) = Smaller(tsz, End(k) - EthHdr)
        BY <2>4, <3>1, <4>1
      <4>2. tsz \in Nat /\ EthHdr \in Nat /\ EthHdr <= At(k) /\ 0 \in 0..(End(k) - At(k))
        BY <1>1, <2>5, <4>1
      <4> HIDE DEF dsz, skip, s, Got
      <4>3. TurnAdds(tsz, At(k), End(k), EthHdr)
        BY ONLY <4>2, <2>5, TurnSum
      <4>4. QED
        BY ONLY <4>1, <4>2, <4>3 DEF TurnAdds
    <3>4. QED
      BY <3>2, <3>3
  <2>7. \A j \in 1..Len(frags[k]) : frags[k][j] = frame[At(k) + j]
    BY <1>5
  <2> HIDE DEF dsz, skip, Turn, Got
  <2>8. Copied(tsz, dsz, frags[k], skip, Filled(frame, buffer, dsz)) =
          [dsz |-> dsz + s, data |-> Filled(frame, buffer, dsz + s)]
    <3> DEFINE frag == frags[k]
               at == At(k)
    <3>1. /\ frag \in Seq(Byte) /\ skip \in 0..Len(frag) /\ at \in Nat
          /\ CutFrom(frame, at, frag)
          /\ dsz < tsz => at + skip = EthHdr + dsz
          /\ skip = 0 \/ (dsz = 0 /\ Len(frag) <= NRF9160_MTU)
      BY <2>4, <2>5, <2>6, <2>7 DEF CutFrom
    <3>2. s = Smaller(Len(frag) - skip, tsz - dsz)
      OBVIOUS
    <3> HIDE DEF frag, at, s
    <3>3. QED
      BY <2>3, <3>1, <3>2, CopiedIs DEF frag
  <2>9. QED
    BY <2>2, <2>6, <2>8
<1>10. Copy(0) = [dsz |-> 0, data |-> buffer]
  <2>1. buffer = [i \in 1..NRF9160_MTU |-> buffer[i]]
    BY DEF Buffers
  <2>2. Filled(frame, buffer, 0) = [i \in 1..NRF9160_MTU |-> buffer[i]]
    <3>1. \A i \in 1..NRF9160_MTU : ~(i <= 0)
      BY <1>1
    <3>2. QED
      BY <3>1 DEF Filled
  <2>3. QED
    BY <2>1, <2>2
<1> HIDE DEF Turn, Copy
<1>11. all = Loop(all)
  <2>1. ASSUME NEW k \in 0..c
        PROVE  Copy(k) = IF k = 0 THEN [dsz |-> 0, data |-> buffer] ELSE Turn(all, k)
    <3>1. k = 0 \/ k \in 1..c
      BY <1>3
    <3>2. QED
      BY <1>9, <1>10, <3>1
  <2> HIDE DEF all
  <2>2. Loop(all) = [k \in 0..c |-> Copy(k)]
    BY <2>1
  <2>3. QED
    BY <2>2 DEF all
<1>12. loop = Loop(loop)
  BY <1>11
<1>13. Reassembled(frags, buffer) = loop[c].data
  BY <1>8 DEF Reassembled, Turn, c
<1> HIDE DEF loop
<1>14. InStep(all, loop, c)
  <2>1. all[0] = loop[0]
    BY <1>2, <1>10, <1>12
  <2>2. ASSUME NEW k \in 1..c, all[k - 1] = loop[k - 1] PROVE all[k] = loop[k]
    <3>1. k \in 0..c /\ k # 0
      BY <1>2
    <3>2. all[k] = Turn(all, k) /\ loop[k] = Turn(loop, k)
      BY <1>9, <1>12, <3>1
    <3>3. Turn(all, k) = Turn(loop, k)
      BY <2>2 DEF Turn
    <3>4. QED
      BY <3>2, <3>3
  <2>3. QED
    BY <2>1, <2>2 DEF InStep
<1>15. all[c] = loop[c]
  BY <1>2, <1>14, SameTurns
<1>16. Got(c) = Smaller(tsz, n - EthHdr)
  BY <1>3, <1>6
<1>17. all[c] = Copy(c)
  BY <1>2
<1>18. Reassembled(frags, buffer) = Filled(frame, buffer, Got(c))
  BY <1>13, <1>15, <1>17 DEF Copy
<1>19. QED
  BY <1>16, <1>18 DEF frags, n

-----------------------------------------------------------------------------
(* What a change of one byte does to the sums.                             *)

Weight(pos) == IF pos % 2 = 1 THEN 1 ELSE B

LEMMA WeightType ==
  ASSUME NEW pos, NEW b \in Byte
  PROVE  Weight(pos) \in {1, B} /\ Weight(pos) * b \in Nat
<1>1. Weight(pos) \in {1, B}
  BY DEF Weight
<1>2. 1 * b \in Nat /\ B * b \in Nat
  BY ByteType
<1>3. QED
  BY <1>1, <1>2

(* Replace one byte.                                                       *)
Put(s, pos, x) == [s EXCEPT ![pos] = x]

LEMMA PutType ==
  ASSUME NEW s \in Seq(Byte), NEW pos \in 1..Len(s), NEW x \in Byte
  PROVE  /\ Put(s, pos, x) \in Seq(Byte) /\ Len(Put(s, pos, x)) = Len(s)
         /\ \A i \in 1..Len(s) : Put(s, pos, x)[i] = IF i = pos THEN x ELSE s[i]
BY DEF Put

LEMMA PutAppend ==
  ASSUME NEW t \in Seq(Byte), NEW z \in Byte, NEW y \in Byte
  PROVE  /\ Put(Append(t, z), Len(t) + 1, y) = Append(t, y)
         /\ \A p \in 1..Len(t) : Put(Append(t, z), p, y) = Append(Put(t, p, y), z)
<1> DEFINE n == Len(t)
           u == Append(t, z)
<1>1. /\ n \in Nat /\ u \in Seq(Byte) /\ Len(u) = n + 1 /\ u[n + 1] = z
      /\ \A i \in 1..n : u[i] = t[i]
      /\ \A p \in 1..n : p # n + 1 /\ p \in 1..(n + 1)
      /\ \A i \in 1..(n + 1) : i \in 1..n \/ i = n + 1
      /\ n + 1 \in 1..(n + 1)
  BY AppendProperties
<1>2. \A x \in Byte : \A v \in Seq(Byte) : Len(v) = n =>
        /\ Append(v, x) \in Seq(Byte) /\ Len(Append(v, x)) = n + 1
        /\ Append(v, x)[n + 1] = x /\ \A i \in 1..n : Append(v, x)[i] = v[i]
  BY AppendProperties
<1> HIDE DEF u
<1>3. \A p \in 1..Len(u) :
        /\ Put(u, p, y) \in Seq(Byte) /\ Len(Put(u, p, y)) = Len(u)
        /\ \A i \in 1..Len(u) : Put(u, p, y)[i] = IF i = p THEN y ELSE u[i]
  <2>1. u \in Seq(Byte)
    BY <1>1
  <2>2. TAKE p \in 1..Len(u)
  <2>3. QED
    BY ONLY <2>1, y \in Byte, p \in 1..Len(u) DEF Put
<1>4. \A p \in 1..n :
        /\ Put(t, p, y) \in Seq(Byte) /\ Len(Put(t, p, y)) = n
        /\ \A i \in 1..n : Put(t, p, y)[i] = IF i = p THEN y ELSE t[i]
  BY PutType
<1>5. Put(u, n + 1, y) = Append(t, y)
  <2>1. /\ Put(u, n + 1, y) \in Seq(Byte) /\ Len(Put(u, n + 1, y)) = n + 1
        /\ \A i \in 1..(n + 1) : Put(u, n + 1, y)[i] = IF i = n + 1 THEN y ELSE u[i]
    BY <1>1, <1>3
  <2>2. /\ Append(t, y) \in Seq(Byte) /\ Len(Append(t, y)) = n + 1
        /\ Append(t, y)[n + 1] = y /\ \A i \in 1..n : Append(t, y)[i] = t[i]
    BY <1>2
  <2> HIDE DEF n
  <2>3. \A i \in 1..(n + 1) : Put(u, n + 1, y)[i] = Append(t, y)[i]
    BY <1>1, <2>1, <2>2
  <2>4. QED
    BY <2>1, <2>2, <2>3, SeqEqual
<1>6. ASSUME NEW p \in 1..n PROVE Put(u, p, y) = Append(Put(t, p, y), z)
  <2> DEFINE v == Put(t, p, y)
             w == Append(v, z)
  <2>1. /\ Put(u, p, y) \in Seq(Byte) /\ Len(Put(u, p, y)) = n + 1
        /\ \A i \in 1..(n + 1) : Put(u, p, y)[i] = IF i = p THEN y ELSE u[i]
    BY <1>1, <1>3
  <2>2. /\ v \in Seq(Byte) /\ Len(v) = n
        /\ \A i \in 1..n : v[i] = IF i = p THEN y ELSE t[i]
    BY <1>4
  <2> HIDE DEF v
  <2>3. /\ w \in Seq(Byte) /\ Len(w) = n + 1 /\ w[n + 1] = z
        /\ \A i \in 1..n : w[i] = v[i]
    BY <1>2, <2>2
  <2> HIDE DEF n, w
  <2>4. \A i \in 1..(n + 1) : Put(u, p, y)[i] = w[i]
    BY <1>1, <2>1, <2>2, <2>3
  <2>5. Put(u, p, y) = w
    BY <2>1, <2>3, <2>4, SeqEqual
  <2>6. QED
    BY <2>5 DEF v, w
<1>7. QED
  BY <1>5, <1>6 DEF u

(* A byte that changes takes its old weight from the sum and adds its new. *)
LEMMA LittlePut ==
  ASSUME NEW s \in Seq(Byte), NEW pos \in 1..Len(s), NEW x \in Byte
  PROVE  Little(Put(s, pos, x)) + Weight(pos) * s[pos] = Little(s) + Weight(pos) * x
<1> DEFINE Right(t) == \A p \in 1..Len(t), y \in Byte :
                         Little(Put(t, p, y)) + Weight(p) * t[p] = Little(t) + Weight(p) * y
           S == {t \in Seq(Byte) : Right(t)}
<1>1. << >> \in S
  OBVIOUS
<1>2. ASSUME NEW t \in Seq(Byte), NEW z \in Byte, Right(t) PROVE Right(Append(t, z))
  <2> DEFINE n == Len(t)
             u == Append(t, z)
             Add(b) == IF n % 2 = 0 THEN b ELSE B * b
  <2>1. /\ n \in Nat /\ u \in Seq(Byte) /\ Len(u) = n + 1 /\ u[n + 1] = z
        /\ \A i \in 1..n : u[i] = t[i] /\ t[i] \in Byte
    BY AppendProperties
  <2>2. \A b \in Byte : Little(t) \in Nat /\ Little(Append(t, b)) = Little(t) + Add(b)
    BY LittleAppend
  <2>3. \A b \in Byte : Add(b) \in Nat
    BY ByteType
  <2>4. Weight(n + 1) = (IF n % 2 = 0 THEN 1 ELSE B)
    BY <2>1 DEF Weight
  <2>5. \A b \in Byte : Weight(n + 1) * b = Add(b)
    BY <2>4, ByteType
  <2>6. \A b \in Byte : \A p \in 1..n : Weight(p) * b \in Nat
    BY WeightType
  <2>7. ASSUME NEW p \in 1..n, NEW y \in Byte
        PROVE  Little(Put(u, p, y)) + Weight(p) * u[p] = Little(u) + Weight(p) * y
    <3>1. Put(t, p, y) \in Seq(Byte) /\ Len(Put(t, p, y)) = n
      BY PutType
    <3>2. Put(u, p, y) = Append(Put(t, p, y), z)
      BY PutAppend
    <3>3. /\ Little(Put(t, p, y)) \in Nat
          /\ Little(Put(u, p, y)) = Little(Put(t, p, y)) + Add(z)
      BY <3>1, <3>2, LittleAppend
    <3>4. Little(Put(t, p, y)) + Weight(p) * t[p] = Little(t) + Weight(p) * y
      BY <1>2
    <3>5. /\ u[p] = t[p] /\ Weight(p) * t[p] \in Nat /\ Weight(p) * y \in Nat
          /\ Little(t) \in Nat /\ Add(z) \in Nat /\ Little(u) = Little(t) + Add(z)
      BY <2>1, <2>2, <2>3, <2>6
    <3> DEFINE old == Weight(p) * t[p]
               new == Weight(p) * y
               lp  == Little(Put(t, p, y))
               lt  == Little(t)
    <3>6. /\ old \in Nat /\ new \in Nat /\ lp \in Nat /\ lt \in Nat /\ Add(z) \in Nat
          /\ lp + old = lt + new
      BY <3>3, <3>4, <3>5
    <3>7. /\ Little(Put(u, p, y)) = lp + Add(z) /\ Little(u) = lt + Add(z)
          /\ Weight(p) * u[p] = old
      BY <3>3, <3>5
    <3>8. (lp + Add(z)) + old = (lt + Add(z)) + new
      <4> DEFINE az == Add(z)
      <4>1. old \in Nat /\ new \in Nat /\ lp \in Nat /\ lt \in Nat /\ az \in Nat
        BY <3>6
      <4>2. lp + old = lt + new
        BY <3>6
      <4> HIDE DEF old, new, lp, lt, az
      <4>3. (lp + az) + old = (lt + az) + new
        BY ONLY <4>1, <4>2
      <4>4. QED
        BY ONLY <4>3 DEF az
    <3> HIDE DEF u, n, Add, lp, lt, old
    <3>9. QED
      BY <3>7, <3>8
  <2>8. ASSUME NEW y \in Byte
        PROVE  Little(Put(u, n + 1, y)) + Weight(n + 1) * u[n + 1] = Little(u) + Weight(n + 1) * y
    <3>1. Put(u, n + 1, y) = Append(t, y)
      BY PutAppend
    <3>2. /\ Little(t) \in Nat /\ Little(Append(t, y)) = Little(t) + Add(y)
          /\ Little(u) = Little(t) + Add(z) /\ Add(y) \in Nat /\ Add(z) \in Nat
          /\ u[n + 1] = z
      BY <2>1, <2>2, <2>3
    <3>3. Weight(n + 1) * z = Add(z) /\ Weight(n + 1) * y = Add(y)
      BY <2>5
    <3> DEFINE lt == Little(t)
    <3>4. /\ Little(Put(u, n + 1, y)) = lt + Add(y) /\ Little(u) = lt + Add(z)
          /\ Weight(n + 1) * u[n + 1] = Add(z) /\ Weight(n + 1) * y = Add(y)
      BY <3>1, <3>2, <3>3
    <3>5. (lt + Add(y)) + Add(z) = (lt + Add(z)) + Add(y)
      <4> HIDE DEF lt, Add
      <4>1. QED
        BY <3>2 DEF lt
    <3> HIDE DEF u, n, Add, lt
    <3>6. QED
      BY <3>4, <3>5
  <2>9. \A p \in 1..(n + 1) : p \in 1..n \/ p = n + 1
    BY <2>1
  <2> HIDE DEF u, n, Add
  <2>10. QED
    BY <2>1, <2>7, <2>8, <2>9 DEF u
<1>3. \A t \in Seq(Byte), z \in Byte : t \in S => Append(t, z) \in S
  <2>1. \A t \in Seq(Byte), z \in Byte : Append(t, z) \in Seq(Byte)
    BY AppendProperties
  <2> HIDE DEF Right
  <2>2. QED
    BY <1>2, <2>1
<1> HIDE DEF S
<1>4. Seq(Byte) \subseteq S
  BY <1>1, <1>3, SequenceInduction
<1>5. QED
  BY <1>4 DEF S

(* A check passes if and only if the sum is a multiple of 2^16 - 1, not 0. *)
LEMMA CheckZero ==
  ASSUME NEW bytes \in Seq(Byte)
  PROVE  /\ check_ics(bytes) = 0 <=> Norm(Little(bytes)) = M
         /\ RfcSum(bytes) = 0 <=> check_ics(bytes) = 0
<1> DEFINE c == check_ics(bytes)
<1>1. /\ Little(bytes) \in Nat /\ Norm(Little(bytes)) \in 0..M /\ M \in Nat
      /\ c = M - Norm(Little(bytes))
  BY LittleType, NormIs, Widths, CheckIcs
<1>2. c = 0 <=> Norm(Little(bytes)) = M
  BY <1>1
<1>3. c \in 0..M /\ RfcSum(bytes) = Swapped(c)
  BY SumTypes, ChecksumIsRfc
<1>4. c % B \in Byte /\ c \div B \in Byte /\ c = (c % B) + B * (c \div B)
  BY <1>3, SplitHalf
<1>5. Swapped(c) = 0 <=> c = 0
  <2> DEFINE lo == c % B
             hi == c \div B
  <2>1. lo \in Nat /\ hi \in Nat /\ B * lo \in Nat /\ B * hi \in Nat
    BY <1>4, ByteType
  <2>2. (B * lo = 0 <=> lo = 0) /\ (B * hi = 0 <=> hi = 0)
    BY <2>1, Widths
  <2>3. Swapped(c) = B * lo + hi /\ c = lo + B * hi
    BY <1>4 DEF Swapped
  <2> HIDE DEF c, lo, hi
  <2>4. QED
    BY <2>1, <2>2, <2>3
<1>6. QED
  BY <1>2, <1>3, <1>5

(* A byte that has changed is seen by the checksum: what it adds is less   *)
(* than M, and only multiples of M are not seen.                           *)
LEMMA ChangeSeen ==
  ASSUME NEW s \in Seq(Byte), NEW pos \in 1..Len(s), NEW x \in Byte, x # s[pos],
         check_ics(s) = 0
  PROVE  check_ics(Put(s, pos, x)) # 0
<1> SUFFICES ASSUME check_ics(Put(s, pos, x)) = 0 PROVE FALSE
  OBVIOUS
<1> DEFINE a == Little(s)
           b == Little(Put(s, pos, x))
           w == Weight(pos)
           y == s[pos]
<1>1. y \in Byte /\ Put(s, pos, x) \in Seq(Byte)
  BY PutType
<1>2. a \in Nat /\ b \in Nat /\ Norm(a) = M /\ Norm(b) = M
  BY <1>1, CheckZero, LittleType
<1>3. PICK j \in Int : M = a + j * M
  BY <1>2, NormIs DEF Like
<1>4. PICK k \in Int : M = b + k * M
  BY <1>2, NormIs DEF Like
<1>5. b + w * y = a + w * x
  BY LittlePut
<1>6. w \in {1, B} /\ w * x \in Nat /\ w * y \in Nat
  BY <1>1, WeightType
<1> HIDE DEF a, b, w, y
<1>7. (k - j) * M = a - b
  <2>1. M \in Nat /\ j * M \in Int /\ k * M \in Int /\ (k - j) * M = k * M - j * M
    BY <1>3, <1>4, Widths
  <2>2. QED
    BY <1>2, <1>3, <1>4, <2>1
<1>8. a - b = w * y - w * x /\ a - b # 0
  <2>1. x \in Nat /\ y \in Nat /\ B \in Nat /\ B >= 2 /\ x # y
    BY <1>1, ByteType, Widths DEF y
  <2>2. w * y # w * x
    BY <1>6, <2>1
  <2>3. QED
    BY <1>2, <1>5, <1>6, <2>2
<1>9. a - b < M /\ b - a < M
  <2>1. ASSUME NEW v \in Byte PROVE w * v < M
    <3>1. v \in Nat /\ v <= B - 1 /\ B \in Nat /\ B >= 2 /\ M = B * B - 1
      BY Widths DEF Byte, M
    <3>2. 1 * v <= B * v /\ B * v <= B * (B - 1)
      BY <3>1
    <3>3. B * (B - 1) = B * B - B /\ B * v \in Nat /\ B * B \in Nat
      BY <3>1
    <3>4. B * v < M /\ 1 * v < M
      BY <3>1, <3>2, <3>3
    <3>5. QED
      BY <1>6, <3>4
  <2>2. w * y < M /\ w * x < M /\ M \in Nat
    BY <1>1, <2>1, Widths
  <2>3. QED
    BY <1>2, <1>6, <1>8, <2>2
<1>10. QED
  <2> DEFINE q == k - j
             p == q * M
  <2>1. q \in Int /\ M \in Nat /\ M >= 3
    BY Widths
  <2> HIDE DEF q
  <2>2. q >= 1 => p >= M
    BY <2>1
  <2>3. q <= -1 => p <= -M
    BY <2>1
  <2>4. q = 0 => p = 0
    BY <2>1
  <2>5. p = a - b
    BY <1>7 DEF q
  <2>6. p \in Int
    BY <2>1
  <2> HIDE DEF p
  <2>7. QED
    BY <1>2, <1>8, <1>9, <2>1, <2>2, <2>3, <2>4, <2>5, <2>6

(* To store 16 bits is to put two bytes.                                   *)
LEMMA StoreIsPut ==
  ASSUME NEW bytes \in Seq(Byte), NEW pos \in Nat, NEW value \in 0..M
  PROVE  Store16(bytes, pos, value) =
           Put(Put(bytes, pos, value % B), pos + 1, value \div B)
BY DEF Store16, Put

(* Filling in a sum where there is zero adds it, and the whole verifies.   *)
LEMMA LittleStore ==
  ASSUME NEW bytes \in Seq(Byte), NEW pos \in 1..(Len(bytes) - 1), pos % 2 = 1,
         bytes[pos] = 0, bytes[pos + 1] = 0, NEW value \in 0..M
  PROVE  Little(Store16(bytes, pos, value)) = Little(bytes) + value
<1> DEFINE n  == Len(bytes)
           lo == value % B
           hi == value \div B
           mid == Put(bytes, pos, lo)
<1>1. lo \in Byte /\ hi \in Byte /\ value = lo + B * hi
  BY SplitHalf
<1>2. n \in Nat /\ pos \in 1..n /\ pos + 1 \in 1..n /\ pos + 1 # pos /\ pos \in Nat
  OBVIOUS
<1>3. Weight(pos) = 1 /\ Weight(pos + 1) = B
  BY DEF Weight
<1>4. Store16(bytes, pos, value) = Put(mid, pos + 1, hi)
  BY <1>2, StoreIsPut
<1> HIDE DEF n, lo, hi
<1>5. /\ mid \in Seq(Byte) /\ Len(mid) = n /\ mid[pos + 1] = 0
      /\ Little(mid) + Weight(pos) * bytes[pos] = Little(bytes) + Weight(pos) * lo
  <2>1. pos \in 1..Len(bytes)
    BY <1>2 DEF n
  <2>2. /\ mid \in Seq(Byte) /\ Len(mid) = Len(bytes)
        /\ \A i \in 1..Len(bytes) : mid[i] = IF i = pos THEN lo ELSE bytes[i]
    <3>1. \A x \in Byte : /\ Put(bytes, pos, x) \in Seq(Byte)
                          /\ Len(Put(bytes, pos, x)) = Len(bytes)
                          /\ \A i \in 1..Len(bytes) :
                               Put(bytes, pos, x)[i] = IF i = pos THEN x ELSE bytes[i]
      BY ONLY <2>1, bytes \in Seq(Byte), PutType
    <3>2. QED
      BY <1>1, <3>1
  <2>3. Little(mid) + Weight(pos) * bytes[pos] = Little(bytes) + Weight(pos) * lo
    BY <1>1, <2>1, LittlePut
  <2> HIDE DEF mid
  <2>4. mid[pos + 1] = 0
    BY <1>2, <2>2 DEF n
  <2>5. QED
    BY <2>2, <2>3, <2>4 DEF n
<1> HIDE DEF mid
<1>6. Little(Put(mid, pos + 1, hi)) + Weight(pos + 1) * mid[pos + 1] =
        Little(mid) + Weight(pos + 1) * hi
  BY <1>1, <1>2, <1>5, LittlePut
<1>7. /\ 1 * 0 = 0 /\ B * 0 = 0 /\ 1 * lo = lo /\ lo \in Nat /\ B * hi \in Nat
      /\ B \in Nat
  BY <1>1, ByteType, Widths
<1>8. /\ Little(mid) \in Nat /\ Little(bytes) \in Nat
      /\ Store16(bytes, pos, value) \in Seq(Byte)
  BY <1>2, <1>5, LittleType, StoreOK
<1>9. /\ Little(mid) + 0 = Little(bytes) + lo
      /\ Little(Store16(bytes, pos, value)) + 0 = Little(mid) + B * hi
  BY <1>3, <1>4, <1>5, <1>6, <1>7
<1>10. Little(Store16(bytes, pos, value)) \in Nat
  BY <1>8, LittleType
<1>11. QED
  <2> DEFINE p == B * hi
             l == Little(Store16(bytes, pos, value))
  <2>1. p \in Nat /\ lo \in Nat /\ value = lo + p /\ l \in Nat
    BY <1>1, <1>7, <1>10
  <2>2. Little(mid) + 0 = Little(bytes) + lo /\ l + 0 = Little(mid) + p
    BY <1>9
  <2> HIDE DEF p, l
  <2>3. l = Little(bytes) + value
    BY <1>8, <2>1, <2>2
  <2>4. QED
    BY <2>3 DEF l

(* A sum and its complement fill up to 2^16 - 1.                           *)
LEMMA FilledUp ==
  ASSUME NEW t \in Nat
  PROVE  Norm(t + (M - Norm(t))) = M
<1> DEFINE r == Norm(t)
<1>1. r \in 0..M /\ Like(r, t) /\ M \in Nat /\ M >= 3
  BY NormIs, Widths
<1>2. PICK k \in Int : r = t + k * M
  BY <1>1 DEF Like
<1>3. t = 0 <=> r = 0
  BY <1>1 DEF Like
<1> HIDE DEF r
<1>4. t + (M - r) \in Nat /\ t + (M - r) # 0
  BY <1>1, <1>3
<1>5. M = (t + (M - r)) + k * M
  <2>1. k * M \in Int
    BY <1>1
  <2>2. QED
    BY <1>1, <1>2, <2>1
<1>6. Like(M, t + (M - r))
  BY <1>1, <1>4, <1>5 DEF Like
<1>7. M \in 0..M
  BY <1>1
<1>8. QED
  BY <1>6, <1>7, NormUnique DEF r

(* What is stored where zeros were makes the check pass.                   *)
LEMMA StoreVerifies ==
  ASSUME NEW pre \in Seq(Byte), Len(pre) % 2 = 0,
         NEW bytes \in Seq(Byte), NEW pos \in 1..(Len(bytes) - 1), pos % 2 = 1,
         bytes[pos] = 0, bytes[pos + 1] = 0
  PROVE  check_ics(pre \o Store16(bytes, pos, check_ics(pre \o bytes))) = 0
<1> DEFINE value == check_ics(pre \o bytes)
           full  == Store16(bytes, pos, value)
           t     == Little(pre \o bytes)
<1>1. pre \o bytes \in Seq(Byte)
  BY ConcatProperties
<1>2. value \in 0..M /\ value = M - Norm(t) /\ t \in Nat
  BY <1>1, SumTypes, CheckIcs, LittleType
<1>3. full \in Seq(Byte) /\ Little(full) = Little(bytes) + value
  <2>1. pos \in Nat
    OBVIOUS
  <2> HIDE DEF value
  <2>2. QED
    BY <1>2, <2>1, LittleStore, StoreOK
<1> HIDE DEF value, full
<1>4. pre \o full \in Seq(Byte)
  BY <1>3, ConcatProperties
<1>5. /\ Little(pre \o full) = Little(pre) + Little(full)
      /\ t = Little(pre) + Little(bytes)
      /\ Little(pre) \in Nat /\ Little(bytes) \in Nat
  BY <1>3, LittleConcat, LittleType
<1>6. Little(pre \o full) = t + (M - Norm(t))
  <2>1. Norm(t) \in 0..M /\ M \in Nat
    BY <1>2, NormIs, Widths
  <2>2. QED
    BY <1>2, <1>3, <1>5, <2>1
<1>7. QED
  BY <1>2, <1>4, <1>6, FilledUp, CheckZero DEF full, value

-----------------------------------------------------------------------------
(* The packets that hosts send, and those that the gateway makes of them.  *)

(* The sum of the host and that of the gateway have their bytes swapped.   *)
LEMMA SwappedParts ==
  ASSUME NEW value \in 0..M
  PROVE  /\ Swapped(value) \div B = value % B /\ Swapped(value) % B = value \div B
<1> DEFINE lo == value % B
           hi == value \div B
           v  == B * lo + hi
<1>1. lo \in 0..(B - 1) /\ hi \in 0..(B - 1) /\ B \in Nat \ {0}
  <2>1. lo \in Byte /\ hi \in Byte
    BY SplitHalf
  <2> HIDE DEF lo, hi
  <2>2. QED
    BY <2>1, Widths DEF Byte
<1> HIDE DEF lo, hi
<1>2. v \in Nat
  BY <1>1
<1>3. v = B * (v \div B) + (v % B) /\ v % B \in 0..(B - 1) /\ v \div B \in Nat
  BY <1>1, <1>2, DivMod
<1> DEFINE q == v \div B
           r == v % B
           d == lo - q
<1>4. d = 0
  <2>1. q \in Nat /\ r \in 0..(B - 1) /\ B * lo + hi = B * q + r
    BY <1>3
  <2> HIDE DEF q, r
  <2>2. d \in Int /\ B * d = r - hi
    BY <1>1, <2>1
  <2> HIDE DEF d
  <2>3. r - hi < B /\ -(r - hi) < B /\ r - hi \in Int
    BY <1>1, <2>1
  <2>4. (d >= 1 => B * d >= B) /\ (d <= -1 => B * d <= -B)
    BY <1>1, <2>2
  <2> DEFINE p == B * d
  <2>5. p \in Int /\ p < B /\ -p < B /\ (d >= 1 => p >= B) /\ (d <= -1 => p <= -B)
    BY <1>1, <2>2, <2>3, <2>4
  <2> HIDE DEF p
  <2>6. ~(d >= 1) /\ ~(d <= -1)
    BY <1>1, <2>2, <2>5
  <2>7. QED
    BY <2>2, <2>6
<1>5. q = lo /\ r = hi
  <2>1. q \in Nat /\ r \in 0..(B - 1) /\ B * lo + hi = B * q + r
    BY <1>3
  <2> HIDE DEF q, r
  <2>2. q = lo
    BY <1>1, <1>4, <2>1
  <2>3. QED
    BY <1>1, <2>1, <2>2
<1>6. QED
  BY <1>5 DEF Swapped, lo, hi

(* Writing a host's checksum high byte first is writing check_ics's low    *)
(* byte first.                                                             *)
LEMMA SameStore ==
  ASSUME NEW bytes \in Seq(Byte), NEW summed \in Seq(Byte), NEW pos
  PROVE  HighFirst(bytes, pos, RfcSum(summed)) = Store16(bytes, pos, check_ics(summed))
<1> DEFINE v == check_ics(summed)
<1>1. v \in 0..M /\ RfcSum(summed) = Swapped(v)
  BY SumTypes, ChecksumIsRfc
<1> HIDE DEF v
<1>2. Swapped(v) \div B = v % B /\ Swapped(v) % B = v \div B
  BY <1>1, SwappedParts
<1>3. QED
  BY <1>1, <1>2 DEF HighFirst, Store16, v

LEMMA TenFields ==
  ASSUME NEW a1 \in Byte, NEW a2 \in Byte, NEW a3 \in Byte, NEW a4 \in Byte, NEW a5 \in Byte,
         NEW a6 \in Byte, NEW a7 \in Byte, NEW a8 \in Byte, NEW a9 \in Byte, NEW a10 \in Byte
  PROVE  LET t == <<a1, a2, a3, a4, a5, a6, a7, a8, a9, a10>>
         IN  /\ t \in Seq(Byte) /\ Len(t) = 10
             /\ t[1] = a1 /\ t[2] = a2 /\ t[3] = a3 /\ t[4] = a4 /\ t[5] = a5
             /\ t[6] = a6 /\ t[7] = a7 /\ t[8] = a8 /\ t[9] = a9 /\ t[10] = a10
OBVIOUS

(* A packet whose checksums are still to be filled in.                     *)
Bare(proto, from, to, port1, port2, data) ==
  <<10 + Len(data), proto, 0, 0, from, to, port1, port2, 0, 0>> \o data

(* A packet before its checksums, field by field.                          *)
LEMMA BareIs ==
  ASSUME NEW proto \in Protocols, NEW from \in Byte, NEW to \in Byte,
         NEW port1 \in Byte, NEW port2 \in Byte, NEW data \in Seq(Byte), 10 + Len(data) < B
  PROVE  LET bare == Bare(proto, from, to, port1, port2, data)
         IN  /\ bare \in Packets /\ Len(bare) = 10 + Len(data)
             /\ bare[1] = 10 + Len(data) /\ bare[2] = proto /\ bare[3] = 0 /\ bare[4] = 0
             /\ bare[5] = from /\ bare[6] = to /\ bare[7] = port1 /\ bare[8] = port2
             /\ bare[9] = 0 /\ bare[10] = 0
             /\ \A i \in 1..Len(data) : bare[10 + i] = data[i]
<1> DEFINE t == <<10 + Len(data), proto, 0, 0, from, to, port1, port2, 0, 0>>
           bare == t \o data
<1>1. 10 + Len(data) \in Byte /\ proto \in Byte /\ 0 \in Byte
  <2>1. Len(data) \in Nat /\ B \in Nat
    BY Widths
  <2> DEFINE n == Len(data)
  <2> HIDE DEF n
  <2>2. n \in Nat /\ B \in Nat /\ 10 + n < B
    BY <2>1 DEF n
  <2>3. 10 + n \in Byte /\ 1 \in Byte /\ 2 \in Byte /\ 3 \in Byte /\ 0 \in Byte
    BY <2>2 DEF Byte
  <2>4. QED
    BY <2>3 DEF n, Protocols, IPPROTO_ICMP, IPPROTO_TCP, IPPROTO_UDP
<1>2. /\ t \in Seq(Byte) /\ Len(t) = 10
      /\ t[1] = 10 + Len(data) /\ t[2] = proto /\ t[3] = 0 /\ t[4] = 0 /\ t[5] = from
      /\ t[6] = to /\ t[7] = port1 /\ t[8] = port2 /\ t[9] = 0 /\ t[10] = 0
  BY <1>1, TenFields
<1> HIDE DEF t
<1>3. /\ bare \in Seq(Byte) /\ Len(bare) = 10 + Len(data)
      /\ \A i \in 1..10 : bare[i] = t[i]
      /\ \A i \in 1..Len(data) : bare[10 + i] = data[i]
  <2>1. /\ bare \in Seq(Byte) /\ Len(bare) = Len(t) + Len(data)
        /\ \A i \in 1..Len(t) : bare[i] = t[i]
        /\ \A i \in 1..Len(data) : bare[Len(t) + i] = data[i]
    BY <1>2, WholeType
  <2>2. QED
    BY <1>2, <2>1, Zenon
<1> HIDE DEF bare
<1>4. bare \in Packets
  <2>1. IpHdr <= 10 + Len(data)
    BY DEF IpHdr
  <2>2. QED
    BY <1>3, <2>1 DEF Packets
<1>5. /\ bare[1] = t[1] /\ bare[2] = t[2] /\ bare[3] = t[3] /\ bare[4] = t[4] /\ bare[5] = t[5]
      /\ bare[6] = t[6] /\ bare[7] = t[7] /\ bare[8] = t[8] /\ bare[9] = t[9]
      /\ bare[10] = t[10]
  BY <1>3
<1>6. bare = Bare(proto, from, to, port1, port2, data)
  BY DEF bare, t, Bare
<1>7. QED
  BY <1>2, <1>3, <1>4, <1>5, <1>6, Zenon

LEMMA SummedType ==
  ASSUME NEW proto, NEW packet \in Packets
  PROVE  /\ Summed(proto, packet) \in Seq(Byte)
         /\ RfcSum(Summed(proto, packet)) \in 0..M
         /\ check_ics(Summed(proto, packet)) \in 0..M
<1>1. Data(packet) \in Seq(Byte)
  BY PartTypes
<1>2. Pseudo(packet) \o Data(packet) \in Seq(Byte)
  BY <1>1, PseudoSum
<1>3. Summed(proto, packet) \in Seq(Byte)
  BY <1>1, <1>2 DEF Summed
<1>4. QED
  BY <1>3, SumTypes

(* What Store16 and HighFirst have in common.                              *)
HalfPut(new, old, pos, first, second) ==
  /\ new \in Seq(Byte) /\ Len(new) = Len(old)
  /\ \A i \in 1..Len(old) :
       new[i] = IF i = pos THEN first ELSE IF i = pos + 1 THEN second ELSE old[i]

LEMMA StorePuts ==
  ASSUME NEW bytes \in Seq(Byte), NEW pos \in Nat, NEW value \in 0..M
  PROVE  /\ HalfPut(Store16(bytes, pos, value), bytes, pos, value % B, value \div B)
         /\ HalfPut(HighFirst(bytes, pos, value), bytes, pos, value \div B, value % B)
<1>1. HalfPut(Store16(bytes, pos, value), bytes, pos, value % B, value \div B)
  BY StoreType DEF HalfPut
<1>2. HalfPut(HighFirst(bytes, pos, value), bytes, pos, value \div B, value % B)
  BY StoreType DEF HalfPut
<1>3. QED
  BY <1>1, <1>2

(* Writing 16 bits into the header or the data of a packet.                *)
LEMMA StoreParts ==
  ASSUME NEW packet \in Packets, Len(packet) >= 10, NEW sum \in 0..M, NEW value \in 0..M
  PROVE  LET p == HighFirst(HighFirst(packet, 9, sum), 3, value)
         IN  /\ p \in Packets /\ Len(p) = Len(packet)
             /\ \A i \in 1..Len(packet) : i \notin {3, 4, 9, 10} => p[i] = packet[i]
             /\ p[9] = sum \div B /\ p[10] = sum % B
             /\ Header(p) = HighFirst(Header(packet), 3, value)
             /\ Data(p) = HighFirst(Data(packet), 3, sum)
<1> DEFINE n   == Len(packet)
           h   == Header(packet)
           d   == Data(packet)
           mid == HighFirst(packet, 9, sum)
           p   == HighFirst(mid, 3, value)
           k   == n - IpHdr
<1>1. /\ packet \in Seq(Byte) /\ n \in Nat /\ n >= 10 /\ n < B /\ 3 \in Nat /\ 9 \in Nat
      /\ h \in Seq(Byte) /\ Len(h) = IpHdr /\ \A i \in 1..IpHdr : h[i] = packet[i]
      /\ d \in Seq(Byte) /\ Len(d) = k /\ \A i \in 1..k : d[i] = packet[IpHdr + i]
  BY PartTypes
<1> DEFINE sh == sum \div B
           sl == sum % B
           vh == value \div B
           vl == value % B
<1>a. HalfPut(mid, packet, 9, sh, sl)
  BY <1>1, StorePuts
<1>b. mid \in Seq(Byte)
  BY <1>a DEF HalfPut
<1> HIDE DEF mid
<1>c. HalfPut(p, mid, 3, vh, vl)
  BY <1>1, <1>b, StorePuts
<1>d. HalfPut(HighFirst(h, 3, value), h, 3, vh, vl) /\ HalfPut(HighFirst(d, 3, sum), d, 3, sh, sl)
  BY <1>1, StorePuts
<1> HIDE DEF p, h, d, n, k, sh, sl, vh, vl
<1>2. /\ mid \in Seq(Byte) /\ Len(mid) = n
      /\ \A i \in 1..n : mid[i] = IF i = 9 THEN sh ELSE IF i = 9 + 1 THEN sl ELSE packet[i]
  BY <1>a DEF HalfPut, n
<1>3. /\ p \in Seq(Byte) /\ Len(p) = n
      /\ \A i \in 1..n : p[i] = IF i = 3 THEN vh ELSE IF i = 3 + 1 THEN vl ELSE mid[i]
  BY <1>2, <1>c DEF HalfPut
<1>4. p \in Packets
  <2>1. IpHdr <= n
    BY <1>1 DEF IpHdr
  <2>2. QED
    BY <1>1, <1>3, <2>1 DEF Packets
<1>5. /\ Header(p) \in Seq(Byte) /\ Len(Header(p)) = IpHdr
      /\ \A i \in 1..IpHdr : Header(p)[i] = p[i]
      /\ Data(p) \in Seq(Byte) /\ Len(Data(p)) = k
      /\ \A i \in 1..k : Data(p)[i] = p[IpHdr + i]
  BY <1>3, <1>4, PartTypes DEF k
<1>6. /\ HighFirst(h, 3, value) \in Seq(Byte) /\ Len(HighFirst(h, 3, value)) = IpHdr
      /\ \A i \in 1..IpHdr :
           HighFirst(h, 3, value)[i] = IF i = 3 THEN vh ELSE IF i = 3 + 1 THEN vl ELSE h[i]
  BY <1>1, <1>d DEF HalfPut
<1>7. /\ HighFirst(d, 3, sum) \in Seq(Byte) /\ Len(HighFirst(d, 3, sum)) = k
      /\ \A i \in 1..k :
           HighFirst(d, 3, sum)[i] = IF i = 3 THEN sh ELSE IF i = 3 + 1 THEN sl ELSE d[i]
  BY <1>1, <1>d DEF HalfPut
<1>8. /\ \A i \in 1..IpHdr : i \in 1..n /\ i # 9 /\ i # 9 + 1
      /\ k \in Nat
      /\ \A i \in 1..k : /\ IpHdr + i \in 1..n /\ IpHdr + i # 3 /\ IpHdr + i # 3 + 1
                         /\ IpHdr + i = 9 <=> i = 3
                         /\ IpHdr + i = 9 + 1 <=> i = 3 + 1
  BY <1>1 DEF IpHdr, k
<1> DEFINE hh == HighFirst(h, 3, value)
           dd == HighFirst(d, 3, sum)
<1> HIDE DEF hh, dd
<1>9. ASSUME NEW i \in 1..IpHdr PROVE Header(p)[i] = hh[i]
  <2>1. /\ Header(p)[i] = p[i] /\ h[i] = packet[i]
        /\ hh[i] = IF i = 3 THEN vh ELSE IF i = 3 + 1 THEN vl ELSE h[i]
    BY <1>1, <1>5, <1>6 DEF hh
  <2>2. i \in 1..n /\ i # 9 /\ i # 9 + 1
    BY <1>8
  <2>3. p[i] = IF i = 3 THEN vh ELSE IF i = 3 + 1 THEN vl ELSE packet[i]
    BY <1>2, <1>3, <2>2
  <2>4. QED
    BY <2>1, <2>3
<1>10. Header(p) = hh
  <2>1. hh \in Seq(Byte) /\ Len(hh) = IpHdr
    BY <1>6 DEF hh
  <2>2. QED
    BY <1>5, <1>9, <2>1, SeqEqual
<1>11. ASSUME NEW i \in 1..k PROVE Data(p)[i] = dd[i]
  <2>1. /\ Data(p)[i] = p[IpHdr + i] /\ d[i] = packet[IpHdr + i]
        /\ dd[i] = IF i = 3 THEN sh ELSE IF i = 3 + 1 THEN sl ELSE d[i]
    BY <1>1, <1>5, <1>7 DEF dd
  <2> DEFINE m == IpHdr + i
  <2>2. /\ m \in 1..n /\ m # 3 /\ m # 3 + 1
        /\ m = 9 <=> i = 3
        /\ m = 9 + 1 <=> i = 3 + 1
    BY <1>8
  <2> HIDE DEF m
  <2>3. p[m] = IF i = 3 THEN sh ELSE IF i = 3 + 1 THEN sl ELSE packet[m]
    BY <1>2, <1>3, <2>2
  <2>4. QED
    BY <2>1, <2>3 DEF m
<1>12. Data(p) = dd
  <2>1. dd \in Seq(Byte) /\ Len(dd) = k
    BY <1>7 DEF dd
  <2>2. QED
    BY <1>5, <1>11, <2>1, SeqEqual
<1>13. /\ \A i \in 1..n : i \notin {3, 4, 9, 10} => p[i] = packet[i]
       /\ p[9] = sh /\ p[10] = sl
  <2>1. 9 \in 1..n /\ 10 \in 1..n
    BY <1>1
  <2>2. QED
    BY <1>2, <1>3, <2>1
<1>14. QED
  BY <1>3, <1>4, <1>10, <1>12, <1>13 DEF p, mid, h, d, n, sh, sl, hh, dd

(* What Resummed makes of a packet with the fields of a host's is a host's *)
(* packet with its checksums; its header needs those of the header only.   *)
SameBut(q, b, n) == \A i \in 1..n : i \notin {3, 4, 9, 10} => q[i] = b[i]

(* p is the packet bare with its checksums.                                *)
Completed(p, bare, proto, withSum) ==
  /\ p \in Packets /\ Len(p) = Len(bare) /\ SameBut(p, bare, Len(bare))
  /\ ~withSum => p[9] = 0 /\ p[10] = 0
  /\ Header(p) = Store16(Header(bare), 3, check_ics(Header(bare)))
  /\ Data(p) = Store16(Data(bare), 3, IF withSum THEN check_ics(Summed(proto, bare)) ELSE 0)

(* What a host sends is the bare packet with both sums of the gateway.     *)
LEMMA PacketIs ==
  ASSUME NEW proto \in Protocols, NEW from \in Byte, NEW to \in Byte,
         NEW port1 \in Byte, NEW port2 \in Byte, NEW data \in Seq(Byte), 10 + Len(data) < B,
         NEW withSum \in BOOLEAN
  PROVE  Completed(Packet(proto, from, to, port1, port2, data, withSum),
                   Bare(proto, from, to, port1, port2, data), proto, withSum)
<1> DEFINE bare == Bare(proto, from, to, port1, port2, data)
           sum  == IF withSum THEN check_ics(Summed(proto, bare)) ELSE 0
           rfc  == IF withSum THEN RfcSum(Summed(proto, bare)) ELSE 0
           rh   == RfcSum(Header(bare))
           p    == HighFirst(HighFirst(bare, 9, rfc), 3, rh)
<1>1. bare \in Packets /\ Len(bare) >= 10
  <2>1. bare \in Packets /\ Len(bare) = 10 + Len(data)
    BY BareIs
  <2>2. Len(data) \in Nat
    OBVIOUS
  <2>3. QED
    BY <2>1, <2>2
<1>2. Packet(proto, from, to, port1, port2, data, withSum) = p
  BY DEF Packet, Bare
<1> HIDE DEF bare
<1>3. /\ Header(bare) \in Seq(Byte) /\ Data(bare) \in Seq(Byte)
      /\ Summed(proto, bare) \in Seq(Byte)
  BY <1>1, PartTypes, SummedType
<1>4. rh \in 0..M /\ rfc \in 0..M
  BY <1>1, <1>3, SumTypes, SummedType, Widths
<1>5. /\ HighFirst(Header(bare), 3, rh) = Store16(Header(bare), 3, check_ics(Header(bare)))
  BY <1>3, SameStore
<1>6. HighFirst(Data(bare), 3, rfc) = Store16(Data(bare), 3, sum)
  <2>1. CASE withSum
    BY <1>3, <2>1, SameStore
  <2>2. CASE ~withSum
    <3>1. 0 \div B = 0 /\ 0 % B = 0
      BY Widths
    <3>2. QED
      BY <2>2, <3>1 DEF HighFirst, Store16
  <2>3. QED
    BY <2>1, <2>2
<1>7. ~withSum => rfc \div B = 0 /\ rfc % B = 0
  BY Widths
<1> HIDE DEF rh, rfc
<1>8. /\ p \in Packets /\ Len(p) = Len(bare)
      /\ \A i \in 1..Len(bare) : i \notin {3, 4, 9, 10} => p[i] = bare[i]
      /\ p[9] = rfc \div B /\ p[10] = rfc % B
      /\ Header(p) = HighFirst(Header(bare), 3, rh)
      /\ Data(p) = HighFirst(Data(bare), 3, rfc)
  BY <1>1, <1>4, StoreParts
<1> HIDE DEF p, sum
<1>9. QED
  BY <1>2, <1>5, <1>6, <1>7, <1>8 DEF bare, sum, Completed, SameBut

(* The second of two stores in one place is the one that stays.            *)
LEMMA StoreTwice ==
  ASSUME NEW bytes \in Seq(Byte), NEW pos \in Nat, NEW first \in 0..M, NEW value \in 0..M
  PROVE  Store16(Store16(bytes, pos, first), pos, value) = Store16(bytes, pos, value)
<1> DEFINE once  == Store16(bytes, pos, first)
           twice == Store16(once, pos, value)
           new   == Store16(bytes, pos, value)
<1>1. HalfPut(once, bytes, pos, first % B, first \div B)
  BY StorePuts
<1>2. once \in Seq(Byte)
  BY <1>1 DEF HalfPut
<1> HIDE DEF once
<1>3. HalfPut(twice, once, pos, value % B, value \div B)
  BY <1>2, StorePuts
<1>4. HalfPut(new, bytes, pos, value % B, value \div B)
  BY StorePuts
<1> HIDE DEF twice, new
<1>5. twice = new
  BY <1>1, <1>3, <1>4, SeqEqual DEF HalfPut
<1>6. QED
  BY <1>5 DEF twice, once, new

(* calc_ics clears the place first.                                        *)
LEMMA CalcIcs ==
  ASSUME NEW bytes \in Seq(Byte), NEW pos \in Nat
  PROVE  LET zeroed == Store16(bytes, pos, 0)
         IN  calc_ics(bytes, pos) = Store16(zeroed, pos, check_ics(zeroed))
<1> DEFINE zeroed == Store16(bytes, pos, 0)
<1>1. 0 \in 0..M
  BY Widths
<1>2. check_ics(zeroed) \in 0..M
  BY <1>1, StoreOK, SumTypes
<1>3. Store16(zeroed, pos, check_ics(zeroed)) = Store16(bytes, pos, check_ics(zeroed))
  BY <1>1, <1>2, StoreTwice
<1>4. QED
  BY <1>3 DEF calc_ics

(* Without the sums, a header that differs in them only is the bare one.   *)
LEMMA HeaderZeroed ==
  ASSUME NEW q \in Packets, NEW b \in Packets, b[3] = 0, b[4] = 0,
         SameBut(q, b, IpHdr)
  PROVE  Store16(Header(q), 3, 0) = Header(b)
<1> DEFINE h == Header(q)
           z == Store16(h, 3, 0)
<1>0. 0 \in 0..M /\ 3 \in Nat /\ 0 % B = 0 /\ 0 \div B = 0
  BY Widths
<1>1. /\ 0 \in 0..M /\ 3 \in Nat /\ 0 % B = 0 /\ 0 \div B = 0
      /\ h \in Seq(Byte) /\ Len(h) = IpHdr /\ \A i \in 1..IpHdr : h[i] = q[i]
      /\ Header(b) \in Seq(Byte) /\ Len(Header(b)) = IpHdr
      /\ \A i \in 1..IpHdr : Header(b)[i] = b[i]
  BY <1>0, PartTypes
<1>2. HalfPut(z, h, 3, 0 % B, 0 \div B)
  BY <1>1, StorePuts
<1>3. z \in Seq(Byte) /\ Len(z) = IpHdr
      /\ \A i \in 1..IpHdr : z[i] = IF i = 3 THEN 0 ELSE IF i = 3 + 1 THEN 0 ELSE h[i]
  BY <1>1, <1>2 DEF HalfPut
<1> HIDE DEF z, h
<1>4. ASSUME NEW i \in 1..IpHdr PROVE z[i] = Header(b)[i]
  <2>1. i \notin {9, 10}
    BY DEF IpHdr
  <2>2. i \notin {3, 4} => q[i] = b[i]
    BY <2>1 DEF SameBut
  <2>3. QED
    BY <1>1, <1>3, <2>2
<1>5. z = Header(b)
  BY <1>1, <1>3, <1>4, SeqEqual
<1>6. QED
  BY <1>5 DEF z, h

LEMMA DataZeroed ==
  ASSUME NEW q \in Packets, NEW b \in Packets, Len(q) = Len(b), b[9] = 0, b[10] = 0,
         SameBut(q, b, Len(b))
  PROVE  Store16(Data(q), 3, 0) = Data(b)
<1> DEFINE d == Data(q)
           z == Store16(d, 3, 0)
           n == Len(b)
           k == n - IpHdr
<1>0. 0 \in 0..M /\ 3 \in Nat /\ 0 % B = 0 /\ 0 \div B = 0
  BY Widths
<1>1. /\ 0 \in 0..M /\ 3 \in Nat /\ 0 % B = 0 /\ 0 \div B = 0
      /\ d \in Seq(Byte) /\ Len(d) = k /\ \A i \in 1..k : d[i] = q[IpHdr + i]
      /\ Data(b) \in Seq(Byte) /\ Len(Data(b)) = k
      /\ \A i \in 1..k : Data(b)[i] = b[IpHdr + i]
      /\ n \in Nat /\ n >= IpHdr
  BY <1>0, PartTypes
<1>2. HalfPut(z, d, 3, 0 % B, 0 \div B)
  BY <1>1, StorePuts
<1> HIDE DEF d, n, k
<1>3. z \in Seq(Byte) /\ Len(z) = k
      /\ \A i \in 1..k : z[i] = IF i = 3 THEN 0 ELSE IF i = 3 + 1 THEN 0 ELSE d[i]
  BY <1>1, <1>2 DEF HalfPut
<1> HIDE DEF z
<1>4. ASSUME NEW i \in 1..k PROVE z[i] = Data(b)[i]
  <2> DEFINE m == IpHdr + i
  <2>1. m \in 1..n /\ m \notin {3, 4} /\ (m = 9 <=> i = 3) /\ (m = 10 <=> i = 3 + 1)
    BY <1>1 DEF IpHdr, k
  <2>2. d[i] = q[m] /\ Data(b)[i] = b[m]
    BY <1>1
  <2>3. z[i] = IF i = 3 THEN 0 ELSE IF i = 3 + 1 THEN 0 ELSE d[i]
    BY <1>3
  <2> HIDE DEF m
  <2>4. m \notin {9, 10} => q[m] = b[m]
    BY <2>1 DEF n, SameBut
  <2>5. QED
    BY <2>1, <2>2, <2>3, <2>4
<1>5. z = Data(b)
  BY <1>1, <1>3, <1>4, SeqEqual
<1>6. QED
  BY <1>5 DEF z, d

(* So the sums computed anew are those of the packet as a host sends it.   *)
LEMMA ResummedHeader ==
  ASSUME NEW q \in Packets,
         NEW proto \in Protocols, NEW from \in Byte, NEW to \in Byte,
         NEW port1 \in Byte, NEW port2 \in Byte, NEW data \in Seq(Byte), 10 + Len(data) < B,
         NEW withSum \in BOOLEAN,
         SameBut(q, Bare(proto, from, to, port1, port2, data), IpHdr)
  PROVE  Header(Resummed(q)) = Header(Packet(proto, from, to, port1, port2, data, withSum))
<1> DEFINE bare == Bare(proto, from, to, port1, port2, data)
<1>1. bare \in Packets /\ bare[3] = 0 /\ bare[4] = 0
  BY BareIs
<1>2. Header(Packet(proto, from, to, port1, port2, data, withSum))
        = Store16(Header(bare), 3, check_ics(Header(bare)))
  BY PacketIs DEF Completed
<1>3. SameBut(q, bare, IpHdr)
  OBVIOUS
<1> HIDE DEF bare
<1>4. Store16(Header(q), 3, 0) = Header(bare)
  BY <1>1, <1>3, HeaderZeroed
<1>5. Header(Resummed(q)) = calc_ics(Header(q), 3)
  BY ResummedParts
<1>6. calc_ics(Header(q), 3) = Store16(Header(bare), 3, check_ics(Header(bare)))
  <2>1. Header(q) \in Seq(Byte) /\ 3 \in Nat
    BY PartTypes
  <2>2. QED
    BY <1>4, <2>1, CalcIcs
<1>7. QED
  BY <1>2, <1>5, <1>6

LEMMA ResummedIs ==
  ASSUME NEW q \in Packets,
         NEW proto \in Protocols, NEW from \in Byte, NEW to \in Byte,
         NEW port1 \in Byte, NEW port2 \in Byte, NEW data \in Seq(Byte), 10 + Len(data) < B,
         Len(q) = 10 + Len(data),
         SameBut(q, Bare(proto, from, to, port1, port2, data), Len(q))
  PROVE  Resummed(q) = Packet(proto, from, to, port1, port2, data, TRUE)
<1> DEFINE bare == Bare(proto, from, to, port1, port2, data)
           p    == Packet(proto, from, to, port1, port2, data, TRUE)
           r    == Resummed(q)
<1>1. /\ bare \in Packets /\ bare[2] = proto /\ bare[9] = 0 /\ bare[10] = 0
      /\ Len(bare) = Len(q)
  BY BareIs
<1>2. /\ p \in Packets
      /\ Data(p) = Store16(Data(bare), 3, check_ics(Summed(proto, bare)))
  <2>1. TRUE \in BOOLEAN
    OBVIOUS
  <2>2. Completed(p, bare, proto, TRUE)
    BY <2>1, PacketIs, Zenon
  <2>3. QED
    BY <2>2 DEF Completed
<1>3. /\ r \in Packets /\ Data(r) = Store16(Store16(Data(q), 3, 0), 3, DataSum(q))
  BY ResummedParts
<1>4. SameBut(q, bare, Len(q))
  OBVIOUS
<1> HIDE DEF bare
<1>5. IpHdr \in 0..Len(q) /\ 2 \in 1..Len(q) /\ 5 \in 1..Len(q) /\ 6 \in 1..Len(q)
  <2>1. Len(q) \in Nat /\ Len(q) >= IpHdr
    BY PartTypes
  <2>2. QED
    BY <2>1 DEF IpHdr
<1>6. SameBut(q, bare, IpHdr)
  BY <1>4, <1>5 DEF SameBut
<1>7. Header(r) = Header(p)
  <2>1. \A w \in BOOLEAN :
          Header(r) = Header(Packet(proto, from, to, port1, port2, data, w))
    BY <1>6, ResummedHeader DEF bare
  <2>2. QED
    BY <2>1
<1>8. q[2] = bare[2] /\ q[5] = bare[5] /\ q[6] = bare[6]
  BY <1>4, <1>5 DEF SameBut
<1>9. Pseudo(q) = Pseudo(bare)
  BY <1>1, <1>8 DEF Pseudo
<1>10. Store16(Data(q), 3, 0) = Data(bare)
  BY <1>1, <1>4, DataZeroed
<1>11. DataSum(q) = check_ics(Summed(proto, bare))
  <2>1. Data(bare) \in Seq(Byte)
    BY <1>1, PartTypes
  <2>2. ip_checksum2(Pseudo(bare), Data(bare)) = check_ics(Pseudo(bare) \o Data(bare))
    BY <1>1, <2>1, PseudoSum
  <2>3. q[2] = proto
    BY <1>1, <1>8
  <2>4. QED
    BY <1>9, <1>10, <2>2, <2>3 DEF DataSum, Summed
<1>12. Data(r) = Data(p)
  BY <1>2, <1>3, <1>10, <1>11
<1> HIDE DEF r, p
<1>13. r = Header(r) \o Data(r) /\ p = Header(p) \o Data(p)
  BY <1>2, <1>3, PartTypes
<1>14. r = p
  BY <1>7, <1>12, <1>13
<1>15. QED
  BY <1>14 DEF r, p

(* Whatever is in a packet, it has the right sums when they are new.       *)
LEMMA ResummedVerifies ==
  ASSUME NEW q \in Packets, Len(q) >= 10
  PROVE  Verifies(Resummed(q))
<1> DEFINE r == Resummed(q)
           zh == Store16(Header(q), 3, 0)
           zd == Store16(Data(q), 3, 0)
           n  == Len(q)
<1>0. 0 \in 0..M /\ 3 \in Nat /\ 0 % B = 0 /\ 0 \div B = 0
  BY Widths
<1>1. /\ 0 \in 0..M /\ 3 \in Nat /\ 0 % B = 0 /\ 0 \div B = 0
      /\ Header(q) \in Seq(Byte) /\ Len(Header(q)) = IpHdr
      /\ \A i \in 1..IpHdr : Header(q)[i] = q[i]
      /\ Data(q) \in Seq(Byte) /\ Len(Data(q)) = n - IpHdr
      /\ n \in Nat
  BY <1>0, PartTypes
<1>a. n >= 10
  OBVIOUS
<1>2. HalfPut(zh, Header(q), 3, 0 % B, 0 \div B) /\ HalfPut(zd, Data(q), 3, 0 % B, 0 \div B)
  BY <1>1, StorePuts
<1> HIDE DEF zh, zd, n
<1>3. /\ zh \in Seq(Byte) /\ Len(zh) = IpHdr
      /\ \A i \in 1..IpHdr : zh[i] = IF i = 3 THEN 0 ELSE IF i = 3 + 1 THEN 0 ELSE q[i]
      /\ zd \in Seq(Byte) /\ Len(zd) = n - IpHdr
      /\ \A i \in 1..(n - IpHdr) :
           zd[i] = IF i = 3 THEN 0 ELSE IF i = 3 + 1 THEN 0 ELSE Data(q)[i]
  BY <1>1, <1>2 DEF HalfPut
<1>4. /\ 3 \in 1..IpHdr /\ 3 + 1 \in 1..IpHdr /\ 3 \in 1..(IpHdr - 1) /\ 3 % 2 = 1
      /\ 3 \in 1..(n - IpHdr) /\ 3 + 1 \in 1..(n - IpHdr) /\ 3 \in 1..((n - IpHdr) - 1)
      /\ 2 \in 1..IpHdr /\ 5 \in 1..IpHdr /\ 6 \in 1..IpHdr
  BY <1>1, <1>a DEF IpHdr
<1>5. /\ zh[3] = 0 /\ zh[3 + 1] = 0 /\ 3 \in 1..(Len(zh) - 1)
      /\ zd[3] = 0 /\ zd[3 + 1] = 0 /\ 3 \in 1..(Len(zd) - 1)
  BY <1>3, <1>4
<1>6. /\ r \in Packets /\ Len(r) = n
      /\ Header(r) = Store16(zh, 3, check_ics(zh))
      /\ Data(r) = Store16(zd, 3, DataSum(q)) /\ DataSum(q) \in 0..M
  BY <1>1, ResummedParts, CalcIcs DEF zh, zd, n
<1> HIDE DEF r
<1>7. ASSUME NEW pre \in Seq(Byte), Len(pre) % 2 = 0
      PROVE  /\ check_ics(pre \o Store16(zh, 3, check_ics(pre \o zh))) = 0
             /\ check_ics(pre \o Store16(zd, 3, check_ics(pre \o zd))) = 0
  BY <1>3, <1>4, <1>5, <1>7, StoreVerifies
<1>8. /\ check_ics(Store16(zh, 3, check_ics(zh))) = 0
      /\ check_ics(Store16(zd, 3, check_ics(zd))) = 0
  <2>1. << >> \in Seq(Byte) /\ Len(<< >>) % 2 = 0
    OBVIOUS
  <2>2. \A s \in Seq(Byte) : << >> \o s = s
    BY ConcatEmptySeq
  <2>3. Store16(zh, 3, check_ics(zh)) \in Seq(Byte) /\ Store16(zd, 3, check_ics(zd)) \in Seq(Byte)
    BY <1>1, <1>3, SumTypes, StoreOK
  <2>4. << >> \o zh = zh /\ << >> \o zd = zd
    BY <1>3, <2>2
  <2>5. QED
    BY <1>7, <2>1, <2>2, <2>3, <2>4
<1>9. RfcSum(Header(r)) = 0
  <2>1. Header(r) \in Seq(Byte)
    BY <1>6, PartTypes
  <2>2. QED
    BY <1>6, <1>8, <2>1, CheckZero
<1>10. r[2] = q[2] /\ r[5] = q[5] /\ r[6] = q[6]
  <2>1. HalfPut(Header(r), zh, 3, check_ics(zh) % B, check_ics(zh) \div B)
    BY <1>1, <1>3, <1>6, SumTypes, StorePuts
  <2>2. \A i \in 1..IpHdr : i # 3 /\ i # 3 + 1 => Header(r)[i] = q[i]
    BY <1>3, <2>1 DEF HalfPut
  <2>3. \A i \in 1..IpHdr : Header(r)[i] = r[i]
    BY <1>6, PartTypes
  <2>4. QED
    BY <1>4, <2>2, <2>3
<1>11. Pseudo(r) = Pseudo(q)
  BY <1>6, <1>10 DEF Pseudo, n
<1>12. check_ics(Summed(r[2], r)) = 0
  <2>1. CASE q[2] = IPPROTO_ICMP
    <3>1. DataSum(q) = check_ics(zd)
      BY <2>1 DEF DataSum, zd
    <3>2. QED
      BY <1>6, <1>8, <1>10, <2>1, <3>1 DEF Summed
  <2>2. CASE q[2] # IPPROTO_ICMP
    <3>1. DataSum(q) = check_ics(Pseudo(q) \o zd)
      BY <1>3, <2>2, PseudoSum DEF DataSum, zd
    <3>2. Pseudo(q) \in Seq(Byte) /\ Len(Pseudo(q)) % 2 = 0
      <4>1. 4 % 2 = 0
        OBVIOUS
      <4>2. QED
        BY <4>1, PseudoType, Zenon
    <3>3. check_ics(Pseudo(q) \o Data(r)) = 0
      BY <1>6, <1>7, <3>1, <3>2
    <3>4. QED
      BY <1>10, <1>11, <2>2, <3>3 DEF Summed
  <2>3. QED
    BY <2>1, <2>2
<1>13. RfcSum(Summed(r[2], r)) = 0
  BY <1>6, <1>12, SummedType, CheckZero
<1>14. QED
  BY <1>9, <1>13 DEF Verifies, r

-----------------------------------------------------------------------------
(* What the two ways see of what arrives.                                  *)

(* The packet begins behind the Ethernet header.                           *)
LEMMA FrameIs ==
  ASSUME NEW packet \in Packets, NEW padding \in Seq(Byte)
  PROVE  LET frame == [i \in 1..EthHdr |-> 0] \o packet \o padding
         IN  /\ frame \in Seq(Byte)
             /\ Len(frame) = EthHdr + Len(packet) + Len(padding)
             /\ \A i \in 1..Len(packet) : frame[EthHdr + i] = packet[i]
<1> DEFINE z == [i \in 1..EthHdr |-> 0]
           m == z \o packet
           n == Len(packet)
           frame == m \o padding
<1>1. z \in Seq(Byte) /\ Len(z) = EthHdr /\ EthHdr \in Nat
  <2>1. z \in [1..EthHdr -> Byte] /\ EthHdr \in Nat
    BY Constants
  <2> HIDE DEF z
  <2>2. QED
    BY <2>1, FunctionIsSeq
<1>2. packet \in Seq(Byte) /\ n \in Nat /\ Len(padding) \in Nat
  BY PartTypes
<1> HIDE DEF z, n
<1>3. /\ m \in Seq(Byte) /\ Len(m) = EthHdr + n
      /\ \A i \in 1..n : m[EthHdr + i] = packet[i]
  <2>1. /\ m \in Seq(Byte) /\ Len(m) = EthHdr + Len(packet)
        /\ \A i \in 1..Len(packet) : m[EthHdr + i] = packet[i]
    BY <1>1, <1>2, ConcatParts
  <2>2. QED
    BY <2>1 DEF n
<1> HIDE DEF m
<1>4. /\ frame \in Seq(Byte) /\ Len(frame) = Len(m) + Len(padding)
      /\ \A i \in 1..Len(m) : frame[i] = m[i]
  BY <1>3, WholeType
<1> HIDE DEF frame
<1>5. \A i \in 1..n : EthHdr + i \in 1..(EthHdr + n)
  BY <1>1, <1>2
<1>6. /\ frame \in Seq(Byte) /\ Len(frame) = EthHdr + n + Len(padding)
      /\ \A i \in 1..n : frame[EthHdr + i] = packet[i]
  BY <1>3, <1>4, <1>5
<1>7. QED
  BY <1>6 DEF frame, m, z, n

(* The first fragment shows the headers that are checked.                  *)
LEMMA SeenIs ==
  ASSUME NEW frame \in Seq(Byte), NEW size \in FragSizes, Len(frame) >= EthHdr + IpHdr
  PROVE  LET first == Fragments(frame, size)[1]
             seen  == SubSeq(first, EthHdr + 1, Len(first))
         IN  /\ seen \in Seq(Byte) /\ Len(seen) >= IpHdr /\ Len(seen) \in Nat
             /\ \A i \in 1..IpHdr : seen[i] = frame[EthHdr + i]
<1> DEFINE frags == Fragments(frame, size)
           first == frags[1]
           seen  == SubSeq(first, EthHdr + 1, Len(first))
           n     == Len(frame)
           m     == Len(first)
<1>1. /\ size \in Nat /\ EthHdr \in Nat /\ IpHdr \in Nat /\ IpHdr > 0 /\ n \in Nat
      /\ EthHdr + IpHdr <= size /\ EthHdr + IpHdr <= n
  BY Constants DEF IpHdr
<1>2. /\ first \in Seq(Byte) /\ m = Smaller(size, n)
      /\ \A j \in 1..m : first[j] = frame[j]
  <2>1. size \in Nat \ {0} /\ Len(frame) > 0
    BY <1>1
  <2> DEFINE c == Len(frags)
  <2>2. /\ c \in Nat /\ c >= 1
        /\ \A k \in 1..c :
             /\ frags[k] \in Seq(Byte)
             /\ Len(frags[k]) = Smaller(k * size, n) - (k - 1) * size
             /\ \A j \in 1..Len(frags[k]) : frags[k][j] = frame[(k - 1) * size + j]
    BY <2>1, FragmentIs
  <2> HIDE DEF c, frags, n
  <2>3. 1 \in 1..c /\ (1 - 1) * size = 0 /\ 1 * size = size
    BY <1>1, <2>2
  <2>4. m \in Nat
    BY <2>2, <2>3
  <2>5. /\ first \in Seq(Byte) /\ m = Smaller(size, n) - 0
        /\ \A j \in 1..m : first[j] = frame[0 + j]
    BY <2>2, <2>3
  <2>6. Smaller(size, n) - 0 = Smaller(size, n) /\ \A j \in 1..m : 0 + j = j
    BY <1>1, <2>4 DEF Smaller
  <2>7. QED
    BY <2>5, <2>6
<1> HIDE DEF frags, first, n
<1>3. m \in Nat /\ m >= EthHdr + IpHdr
  BY <1>1, <1>2 DEF Smaller
<1>4. /\ seen \in Seq(Byte) /\ Len(seen) = m - EthHdr
      /\ \A i \in 1..(m - EthHdr) : seen[i] = first[EthHdr + i]
  <2>1. EthHdr \in 0..Len(first)
    BY <1>1, <1>3
  <2>2. QED
    BY <1>2, <2>1, SuffixType
<1>5. \A i \in 1..IpHdr : i \in 1..(m - EthHdr) /\ EthHdr + i \in 1..m
  BY <1>1, <1>3
<1>6. m - EthHdr >= IpHdr /\ m - EthHdr \in Nat
  BY <1>1, <1>3
<1> HIDE DEF seen, m
<1>7. /\ seen \in Seq(Byte) /\ Len(seen) >= IpHdr /\ Len(seen) \in Nat
      /\ \A i \in 1..IpHdr : seen[i] = frame[EthHdr + i]
  BY <1>2, <1>4, <1>5, <1>6
<1>8. QED
  BY <1>7 DEF seen, m, first, frags

(* The header checks look at the header only.                              *)
LEMMA HeaderChecks ==
  ASSUME NEW s \in Seq(Byte), NEW t \in Seq(Byte), Len(s) >= IpHdr, Len(t) >= IpHdr,
         \A i \in 1..IpHdr : s[i] = t[i]
  PROVE  Header(s) = Header(t) /\ (HeaderOK(s) <=> HeaderOK(t)) /\ s[1] = t[1] /\ s[1] \in Byte
<1>1. IpHdr \in 0..Len(s) /\ IpHdr \in 0..Len(t) /\ 1 \in 1..IpHdr /\ 2 \in 1..IpHdr
  <2>1. Len(s) \in Nat /\ Len(t) \in Nat
    OBVIOUS
  <2>2. QED
    BY <2>1 DEF IpHdr
<1>2. Header(s) = Header(t)
  <2>1. /\ Header(s) \in Seq(Byte) /\ Len(Header(s)) = IpHdr
        /\ \A i \in 1..IpHdr : Header(s)[i] = s[i]
        /\ Header(t) \in Seq(Byte) /\ Len(Header(t)) = IpHdr
        /\ \A i \in 1..IpHdr : Header(t)[i] = t[i]
    BY <1>1, PrefixType DEF Header
  <2>2. QED
    BY <2>1, SeqEqual
<1>3. s[1] = t[1] /\ s[2] = t[2]
  BY <1>1
<1>4. s[1] \in Byte
  <2>1. 1 \in 1..Len(s)
    BY <1>1
  <2>2. QED
    BY <2>1
<1>5. QED
  BY <1>2, <1>3, <1>4 DEF HeaderOK

(* What is written into a buffer stays inside it.                          *)
LEMMA OverwrittenType ==
  ASSUME NEW buffer \in Buffers, NEW bytes \in Seq(Byte)
  PROVE  /\ Overwritten(buffer, 0, bytes) \in Buffers
         /\ \A i \in 1..NRF9160_MTU :
              i <= Len(bytes) => Overwritten(buffer, 0, bytes)[i] = bytes[i]
<1> DEFINE n == Len(bytes)
<1>1. /\ n \in Nat /\ DOMAIN bytes = 1..n /\ \A i \in 1..n : bytes[i] \in Byte
      /\ DOMAIN buffer = 1..NRF9160_MTU /\ \A i \in 1..NRF9160_MTU : buffer[i] \in Byte
      /\ NRF9160_MTU \in Nat
  BY Constants DEF Buffers
<1> HIDE DEF n
<1>2. \A i \in 1..NRF9160_MTU : i - 0 = i /\ (i \in 1..n <=> i <= n)
  BY <1>1
<1>3. Overwritten(buffer, 0, bytes) =
        [i \in 1..NRF9160_MTU |-> IF i - 0 \in 1..n THEN bytes[i - 0] ELSE buffer[i]]
  BY <1>1 DEF Overwritten
<1>4. \A i \in 1..NRF9160_MTU :
        /\ Overwritten(buffer, 0, bytes)[i] = IF i <= n THEN bytes[i] ELSE buffer[i]
        /\ (IF i <= n THEN bytes[i] ELSE buffer[i]) \in Byte
  BY <1>1, <1>2, <1>3
<1>5. Overwritten(buffer, 0, bytes) \in Buffers
  BY <1>3, <1>4 DEF Buffers
<1>6. QED
  BY <1>4, <1>5 DEF n

LEMMA FilledType ==
  ASSUME NEW frame \in Seq(Byte), NEW buffer \in Buffers, NEW n \in Nat,
         EthHdr + n <= Len(frame)
  PROVE  /\ Filled(frame, buffer, n) \in Buffers
         /\ \A i \in 1..NRF9160_MTU : i <= n => Filled(frame, buffer, n)[i] = frame[EthHdr + i]
<1>1. EthHdr \in Nat /\ NRF9160_MTU \in Nat /\ Len(frame) \in Nat
  BY Constants
<1>2. \A i \in 1..Len(frame) : frame[i] \in Byte
  OBVIOUS
<1>3. \A i \in 1..NRF9160_MTU : i <= n => EthHdr + i \in 1..Len(frame)
  BY <1>1
<1>4. \A i \in 1..NRF9160_MTU : (IF i <= n THEN frame[EthHdr + i] ELSE buffer[i]) \in Byte
  BY <1>2, <1>3 DEF Buffers
<1>5. QED
  BY <1>4 DEF Filled, Buffers

(* w is what a way works on when other arrives: as many bytes as its first *)
(* says, the first of them those that arrived.                             *)
Gets(w, other) ==
  /\ w \in Packets
  /\ Len(w) = w[1]
  /\ \A i \in 1..Len(w) : i <= Len(other) => w[i] = other[i]

(* What is read from a filled buffer is what came, as far as it came.      *)
LEMMA BufferGets ==
  ASSUME NEW buffer \in Buffers, NEW other \in Packets, NEW n \in Nat,
         IpHdr <= n, IpHdr < other[1], other[1] <= NRF9160_MTU, n <= Len(other),
         n < Len(other) => other[1] <= n,
         \A i \in 1..NRF9160_MTU : i <= n => buffer[i] = other[i]
  PROVE  Gets(SubSeq(buffer, 1, other[1]), other)
<1> DEFINE len == other[1]
           w   == SubSeq(buffer, 1, len)
<1>1. /\ NRF9160_MTU \in Nat /\ NRF9160_MTU < B /\ IpHdr \in Nat /\ IpHdr >= 1 /\ B \in Nat
      /\ Len(other) \in Nat
  BY Constants, PartTypes, Widths DEF IpHdr
<1>2. len \in Nat
  <2>1. 1 \in 1..IpHdr
    BY <1>1
  <2>2. QED
    BY <2>1, PartTypes, ByteType
<1>3. buffer \in Seq(Byte) /\ Len(buffer) = NRF9160_MTU
  BY BufferIsSeq
<1>4. len > IpHdr /\ len <= NRF9160_MTU /\ (n < Len(other) => len <= n)
  OBVIOUS
<1> HIDE DEF len
<1>5. len \in 0..Len(buffer)
  BY <1>1, <1>2, <1>3, <1>4
<1>6. w \in Seq(Byte) /\ Len(w) = len /\ \A i \in 1..len : w[i] = buffer[i]
  BY <1>3, <1>5, PrefixType
<1> HIDE DEF w
<1>7. w \in Packets
  BY <1>1, <1>2, <1>4, <1>6 DEF Packets
<1>8. \A i \in 1..len : i \in 1..NRF9160_MTU /\ (i <= Len(other) => i <= n)
  BY <1>1, <1>2, <1>4
<1>9. \A i \in 1..len : i <= Len(other) => w[i] = other[i]
  BY <1>6, <1>8
<1>10. w[1] = len
  <2>1. 1 \in 1..len /\ 1 <= Len(other)
    BY <1>1, <1>2, <1>4
  <2>2. QED
    BY <1>9, <2>1 DEF len
<1>11. QED
  BY <1>6, <1>7, <1>9, <1>10 DEF Gets, w, len

(* An address and a port are written over.                                 *)
Edited(w, at1, x, at2, y) == [w EXCEPT ![at1] = x, ![at2] = y]

(* Two bytes are written over and no other.                                *)
LEMMA EditedType ==
  ASSUME NEW w \in Packets, NEW at1 \in Nat, NEW at2 \in Nat, at1 # at2,
         NEW x \in Byte, NEW y \in Byte
  PROVE  /\ Edited(w, at1, x, at2, y) \in Packets
         /\ Len(Edited(w, at1, x, at2, y)) = Len(w)
         /\ \A i \in 1..Len(w) :
              Edited(w, at1, x, at2, y)[i] = IF i = at1 THEN x ELSE IF i = at2 THEN y ELSE w[i]
<1> DEFINE n == Len(w)
           e == Edited(w, at1, x, at2, y)
           mid == [w EXCEPT ![at1] = x]
<1>1. n \in Nat /\ w \in [1..n -> Byte] /\ IpHdr <= n /\ n < B
  BY PartTypes
<1> HIDE DEF n
<1>2. mid \in [1..n -> Byte] /\ \A i \in 1..n : mid[i] = IF i = at1 THEN x ELSE w[i]
  BY <1>1
<1>3. e = [mid EXCEPT ![at2] = y]
  BY DEF Edited
<1> HIDE DEF mid, e
<1>4. e \in [1..n -> Byte] /\ \A i \in 1..n : e[i] = IF i = at2 THEN y ELSE mid[i]
  BY <1>2, <1>3
<1>5. e \in Seq(Byte) /\ Len(e) = n
  BY <1>1, <1>4, FunctionIsSeq
<1>6. \A i \in 1..n : e[i] = IF i = at1 THEN x ELSE IF i = at2 THEN y ELSE w[i]
  BY <1>2, <1>4
<1>7. QED
  BY <1>1, <1>5, <1>6 DEF e, n, Packets

ToLte(w, port)     == Resummed(Edited(w, 5, my_ip_addr, 7, port))
ToEth(w, to, port) == Resummed(Edited(w, 6, to, 8, port))

LEMMA RewrittenType ==
  ASSUME NEW w \in Packets, NEW to \in Byte, NEW port \in Byte
  PROVE  /\ ToLte(w, port) \in Packets /\ ToEth(w, to, port) \in Packets
         /\ ToLte(w, port) \in Seq(Byte) /\ ToEth(w, to, port) \in Seq(Byte)
<1>1. 5 # 7 /\ 6 # 8 /\ 5 \in Nat /\ 6 \in Nat /\ 7 \in Nat /\ 8 \in Nat
  OBVIOUS
<1>2. Edited(w, 5, my_ip_addr, 7, port) \in Packets
  BY <1>1, Constants, EditedType
<1>3. Edited(w, 6, to, 8, port) \in Packets
  BY <1>1, EditedType
<1>4. QED
  BY <1>2, <1>3, ResummedParts DEF ToLte, ToEth, Packets

(* Upwards.                                                                *)
UpSends(w) ==
  \/ \E port \in PortsFor(w) : sent' = ToLte(w, port)
  \/ RowsByClient(w) = {} /\ sent' = << >>

LEMMA UpStep ==
  ASSUME lte_tx_ip_pkt \in Buffers, NEW other \in Packets, NEW frags \in FramesOf(other),
         eth_recv_cb(frags)
  PROVE  /\ lte_tx_ip_pkt' \in Buffers /\ UNCHANGED lte_rx_ip_raw_packet
         /\ \/ sent' = << >> /\ (other[1] > NRF9160_MTU \/ ~HeaderOK(other))
            \/ \E w : Gets(w, other) /\ HeaderOK(other) /\ UpSends(w)
<1> DEFINE seen  == SubSeq(frags[1], EthHdr + 1, Len(frags[1]))
           whole == Reassembled(frags, lte_tx_ip_pkt)
           tsz   == other[1]
           w     == SubSeq(whole, 1, tsz)
<1>1. PICK padding \in {<< >>, <<B - 1, B - 1>>}, size \in FragSizes :
        frags = Fragments([i \in 1..EthHdr |-> 0] \o other \o padding, size)
  <2> DEFINE F(padding, size) ==
        Fragments([i \in 1..EthHdr |-> 0] \o other \o padding, size)
  <2>1. frags \in {F(padding, size) : padding \in {<< >>, <<B - 1, B - 1>>}, size \in FragSizes}
    <3>1. FramesOf(other) =
            {F(padding, size) : padding \in {<< >>, <<B - 1, B - 1>>}, size \in FragSizes}
      BY DEF FramesOf
    <3> HIDE DEF F
    <3>2. QED
      BY <3>1
  <2> HIDE DEF F
  <2>2. \E padding \in {<< >>, <<B - 1, B - 1>>}, size \in FragSizes : frags = F(padding, size)
    BY <2>1
  <2>3. QED
    BY <2>2 DEF F
<1> DEFINE frame == [i \in 1..EthHdr |-> 0] \o other \o padding
<1>2. padding \in Seq(Byte)
  <2>1. B - 1 \in Byte
    BY Widths DEF Byte
  <2>2. << >> \in Seq(Byte) /\ <<B - 1, B - 1>> \in Seq(Byte)
    BY <2>1
  <2>3. QED
    BY <2>2
<1>3. /\ frame \in Seq(Byte) /\ Len(frame) = EthHdr + Len(other) + Len(padding)
      /\ \A i \in 1..Len(other) : frame[EthHdr + i] = other[i]
  BY <1>2, FrameIs
<1>4. /\ EthHdr \in Nat /\ NRF9160_MTU \in Nat /\ Len(other) \in Nat /\ Len(padding) \in Nat
      /\ IpHdr \in Nat /\ IpHdr >= 1 /\ Len(other) >= IpHdr /\ other \in Seq(Byte)
      /\ EthHdr + IpHdr <= NRF9160_MTU
  BY <1>2, Constants, PartTypes, PacketAssumption DEF IpHdr
<1>5. frags = Fragments(frame, size)
  BY <1>1
<1> HIDE DEF frame
<1>6. Len(frame) >= EthHdr + IpHdr /\ Len(frame) - EthHdr >= Len(other) /\ Len(frame) \in Nat
  BY <1>3, <1>4
<1>7. /\ seen \in Seq(Byte) /\ Len(seen) >= IpHdr
      /\ \A i \in 1..IpHdr : seen[i] = frame[EthHdr + i]
  <2> DEFINE cut == Fragments(frame, size)
  <2>1. LET first == cut[1]
            s     == SubSeq(first, EthHdr + 1, Len(first))
        IN  /\ s \in Seq(Byte) /\ Len(s) >= IpHdr
            /\ \A i \in 1..IpHdr : s[i] = frame[EthHdr + i]
    BY <1>3, <1>6, SeenIs
  <2> HIDE DEF cut
  <2>2. frags = cut
    BY <1>5 DEF cut
  <2>3. QED
    BY <2>1, <2>2
<1> HIDE DEF seen
<1>8. \A i \in 1..IpHdr : i \in 1..Len(other)
  BY <1>4
<1>9. \A i \in 1..IpHdr : seen[i] = other[i]
  BY <1>3, <1>7, <1>8
<1>10. (HeaderOK(seen) <=> HeaderOK(other)) /\ seen[1] = tsz /\ seen[1] \in Byte
  BY <1>4, <1>7, <1>9, HeaderChecks
<1>11. tsz \in Nat /\ frame[EthHdr + 1] = tsz
  <2>1. 1 \in 1..Len(other)
    BY <1>4
  <2>2. QED
    BY <1>3, <1>10, <2>1, ByteType
<1> HIDE DEF tsz
<1> DEFINE n == Smaller(tsz, Len(frame) - EthHdr)
<1>12. n \in Nat /\ EthHdr + n <= Len(frame) /\ (n < Len(other) => n = tsz) /\ n <= tsz
  BY <1>4, <1>6, <1>11 DEF Smaller
<1>13. ASSUME tsz <= NRF9160_MTU
       PROVE  /\ whole \in Buffers
              /\ \A i \in 1..NRF9160_MTU : i <= n => whole[i] = frame[EthHdr + i]
  <2>1. tsz \in 0..NRF9160_MTU /\ tsz = frame[EthHdr + 1]
    BY <1>4, <1>11, <1>13
  <2>2. whole = Filled(frame, lte_tx_ip_pkt, n)
    BY <1>3, <1>5, <1>6, <2>1, ReassembledIs
  <2> HIDE DEF n
  <2>3. QED
    BY <1>3, <1>12, <2>2, FilledType
<1> HIDE DEF whole
<1>14. ASSUME tsz <= NRF9160_MTU, HeaderOK(other) PROVE Gets(w, other)
  <2> DEFINE m == Smaller(n, Len(other))
  <2>1. m \in Nat /\ m <= n /\ m <= Len(other) /\ (m < Len(other) => tsz <= m)
    BY <1>4, <1>12 DEF Smaller
  <2>2. IpHdr < tsz
    BY <1>11, <1>14 DEF HeaderOK, tsz
  <2>3. IpHdr <= m
    BY <1>4, <1>11, <1>12, <2>1, <2>2 DEF Smaller
  <2> HIDE DEF n, m
  <2>4. \A i \in 1..NRF9160_MTU : i <= m => i <= n /\ i \in 1..Len(other)
    BY <1>4, <1>12, <2>1
  <2>5. \A i \in 1..NRF9160_MTU : i <= m => whole[i] = other[i]
    BY <1>3, <1>13, <1>14, <2>4
  <2>6. QED
    BY <1>13, <1>14, <2>1, <2>2, <2>3, <2>5, BufferGets DEF tsz
<1>15. UNCHANGED lte_rx_ip_raw_packet
  BY DEF eth_recv_cb
<1> DEFINE R(port) == Resummed([SubSeq(whole, 1, tsz) EXCEPT ![5] = my_ip_addr, ![7] = port])
<1>16. IF tsz > NRF9160_MTU
       THEN sent' = << >> /\ UNCHANGED lte_tx_ip_pkt
       ELSE IF ~HeaderOK(seen)
       THEN sent' = << >> /\ lte_tx_ip_pkt' = whole
       ELSE \/ /\ \E port \in PortsFor(SubSeq(whole, 1, tsz)) : sent' = R(port)
               /\ lte_tx_ip_pkt' = Overwritten(lte_tx_ip_pkt, 0, sent')
            \/ /\ RowsByClient(SubSeq(whole, 1, tsz)) = {}
               /\ sent' = << >> /\ lte_tx_ip_pkt' = whole
  BY <1>10, Zenon DEF eth_recv_cb, seen, whole
<1>17. w = SubSeq(whole, 1, tsz) /\ \A port : R(port) = ToLte(w, port)
  BY DEF ToLte, Edited
<1> HIDE DEF R, w
<1>18. CASE tsz > NRF9160_MTU
  BY <1>15, <1>16, <1>18 DEF tsz
<1>19. CASE ~(tsz > NRF9160_MTU) /\ ~HeaderOK(other)
  BY <1>4, <1>10, <1>11, <1>13, <1>15, <1>16, <1>19
<1>20. CASE ~(tsz > NRF9160_MTU) /\ HeaderOK(other)
  <2>1. tsz <= NRF9160_MTU
    BY <1>4, <1>11, <1>20
  <2>2. Gets(w, other)
    BY <1>14, <1>20, <2>1
  <2>3. \/ \E port \in PortsFor(w) :
             sent' = ToLte(w, port) /\ lte_tx_ip_pkt' = Overwritten(lte_tx_ip_pkt, 0, sent')
        \/ RowsByClient(w) = {} /\ sent' = << >> /\ lte_tx_ip_pkt' = whole
    BY <1>10, <1>16, <1>17, <1>20
  <2>4. CASE \E port \in PortsFor(w) :
               sent' = ToLte(w, port) /\ lte_tx_ip_pkt' = Overwritten(lte_tx_ip_pkt, 0, sent')
    <3>1. PICK port \in PortsFor(w) :
            sent' = ToLte(w, port) /\ lte_tx_ip_pkt' = Overwritten(lte_tx_ip_pkt, 0, sent')
      BY <2>4
    <3>2. sent' \in Seq(Byte)
      BY <2>2, <3>1, PortsForType, Constants, RewrittenType DEF Gets
    <3>3. lte_tx_ip_pkt' \in Buffers
      BY <3>1, <3>2, OverwrittenType
    <3>4. UpSends(w)
      BY <3>1 DEF UpSends
    <3>5. QED
      BY <1>15, <1>20, <2>2, <3>3, <3>4
  <2>5. CASE RowsByClient(w) = {} /\ sent' = << >> /\ lte_tx_ip_pkt' = whole
    <3>1. UpSends(w)
      BY <2>5 DEF UpSends
    <3>2. lte_tx_ip_pkt' \in Buffers
      BY <1>13, <2>1, <2>5
    <3>3. QED
      BY <1>15, <1>20, <2>2, <3>1, <3>2
  <2>6. QED
    BY <2>3, <2>4, <2>5
<1>21. QED
  BY <1>18, <1>19, <1>20

(* Downwards.  What is looked up is what the buffer holds.                 *)
Held(w, buffer) == \A i \in 1..Len(w) : w[i] = buffer[i]

LEMMA DownStep ==
  ASSUME lte_rx_ip_raw_packet \in Buffers, NEW other \in Packets, eth_tx_thread(other)
  PROVE  /\ lte_rx_ip_raw_packet' \in Buffers /\ UNCHANGED lte_tx_ip_pkt
         /\ \/ /\ sent' = << >>
               /\ \/ other[1] > NRF9160_MTU \/ other[6] # my_ip_addr \/ ~HeaderOK(other)
                  \/ \E w : Gets(w, other) /\ (~DataOK(w) \/ RowsByServer(w) = {})
            \/ \E w : /\ Gets(w, other) /\ HeaderOK(other) /\ DataOK(w)
                      /\ Held(w, lte_rx_ip_raw_packet')
                      /\ \E row \in RowsByServer(w) :
                           sent' = ToEth(w, row.client, row.eth_port)
<1> DEFINE buffer == Overwritten(lte_rx_ip_raw_packet, 0, other)
           n      == Len(other)
           tsz    == other[1]
           w      == SubSeq(buffer, 1, tsz)
<1>1. /\ NRF9160_MTU \in Nat /\ n \in Nat /\ n >= IpHdr /\ other \in Seq(Byte)
      /\ IpHdr \in Nat /\ IpHdr >= 1 /\ EthHdr \in Nat /\ EthHdr + IpHdr <= NRF9160_MTU
  BY Constants, PartTypes, PacketAssumption DEF IpHdr
<1>2. /\ buffer \in Buffers
      /\ \A i \in 1..NRF9160_MTU : i <= n => buffer[i] = other[i]
  BY <1>1, OverwrittenType
<1>3. buffer \in Seq(Byte) /\ Len(buffer) = NRF9160_MTU
  BY <1>2, BufferIsSeq
<1> HIDE DEF buffer, n
<1>4. \A i \in 1..IpHdr : i \in 1..NRF9160_MTU /\ i <= n
  BY <1>1
<1>5. \A i \in 1..IpHdr : buffer[i] = other[i]
  BY <1>2, <1>4
<1>6. Len(buffer) >= IpHdr
  BY <1>1, <1>3
<1>7. (HeaderOK(buffer) <=> HeaderOK(other)) /\ buffer[1] = tsz /\ tsz \in Nat
  <2>1. (HeaderOK(buffer) <=> HeaderOK(other)) /\ buffer[1] = tsz /\ buffer[1] \in Byte
    BY <1>1, <1>3, <1>5, <1>6, HeaderChecks DEF n
  <2>2. QED
    BY <2>1, ByteType
<1>8. buffer[6] = other[6]
  <2>1. 6 \in 1..IpHdr
    BY DEF IpHdr
  <2>2. QED
    BY <1>5, <2>1
<1>9. ASSUME tsz <= NRF9160_MTU, HeaderOK(other) PROVE Gets(w, other)
  <2>1. IpHdr < tsz
    BY <1>7, <1>9 DEF HeaderOK
  <2>2. ~(n < n) /\ n <= n
    BY <1>1
  <2>3. QED
    BY <1>1, <1>2, <1>9, <2>1, <2>2, BufferGets DEF n
<1> DEFINE R(row) ==
             Resummed([SubSeq(buffer, 1, tsz) EXCEPT ![6] = row.client, ![8] = row.eth_port])
<1>10. /\ lte_rx_ip_raw_packet' = buffer
       /\ IF /\ tsz <= NRF9160_MTU /\ other[6] = my_ip_addr /\ HeaderOK(buffer) /\ DataOK(w)
             /\ RowsByServer(w) # {}
          THEN \E row \in RowsByServer(w) : sent' = R(row)
          ELSE sent' = << >>
       /\ UNCHANGED lte_tx_ip_pkt
  BY <1>7, <1>8, Zenon DEF eth_tx_thread, buffer
<1>11. \A row : R(row) = ToEth(w, row.client, row.eth_port)
  BY DEF ToEth, Edited
<1>12. ASSUME tsz <= NRF9160_MTU, HeaderOK(other) PROVE Held(w, buffer)
  <2>1. tsz \in 0..Len(buffer)
    BY <1>1, <1>3, <1>7, <1>12
  <2> HIDE DEF tsz
  <2>2. Len(w) = tsz /\ \A i \in 1..tsz : w[i] = buffer[i]
    BY <1>3, <2>1, PrefixType
  <2>3. QED
    BY <2>2 DEF Held
<1> HIDE DEF R, w
<1>13. tsz <= NRF9160_MTU \/ tsz > NRF9160_MTU
  BY <1>1, <1>7
<1>14. CASE /\ tsz <= NRF9160_MTU /\ other[6] = my_ip_addr /\ HeaderOK(other) /\ DataOK(w)
            /\ RowsByServer(w) # {}
  <2>1. Gets(w, other) /\ Held(w, lte_rx_ip_raw_packet')
    BY <1>9, <1>10, <1>12, <1>14
  <2>2. \E row \in RowsByServer(w) : sent' = ToEth(w, row.client, row.eth_port)
    BY <1>7, <1>10, <1>11, <1>14
  <2>3. QED
    BY <1>2, <1>10, <1>14, <2>1, <2>2
<1>15. CASE ~(/\ tsz <= NRF9160_MTU /\ other[6] = my_ip_addr /\ HeaderOK(other) /\ DataOK(w)
              /\ RowsByServer(w) # {})
  <2>1. sent' = << >>
    BY <1>7, <1>10, <1>15
  <2>2. \/ other[1] > NRF9160_MTU \/ other[6] # my_ip_addr \/ ~HeaderOK(other)
        \/ \E v : Gets(v, other) /\ (~DataOK(v) \/ RowsByServer(v) = {})
    BY <1>9, <1>13, <1>15
  <2>3. QED
    BY <1>2, <1>10, <2>1, <2>2
<1>16. QED
  BY <1>14, <1>15

-----------------------------------------------------------------------------
(* Damage.                                                                 *)

(* A damaged byte is not the byte that was there.                          *)
LEMMA TurnedByte ==
  ASSUME NEW x \in Byte
  PROVE  (x + B \div 2) % B \in Byte /\ (x + B \div 2) % B # x
<1> DEFINE h == B \div 2
           s == x + h
<1>1. x \in 0..(B - 1) /\ B \in Nat /\ B >= 2
  BY Widths DEF Byte
<1>2. h \in Nat /\ h >= 1 /\ h < B
  BY <1>1
<1> HIDE DEF h
<1>3. s \in Nat /\ s < 2 * B
  BY <1>1, <1>2
<1>4. s % B = IF s < B THEN s ELSE s - B
  <2> HIDE DEF s
  <2>1. s = B * (s \div B) + (s % B) /\ s % B \in 0..(B - 1) /\ s \div B \in Nat
    <3>1. s \in Nat /\ B \in Nat \ {0}
      BY <1>1, <1>3
    <3>2. QED
      BY ONLY <3>1, DivMod
  <2> DEFINE q == s \div B
             r == s % B
             p == B * q
  <2>2. q \in Nat /\ r \in 0..(B - 1) /\ s = p + r /\ p \in Nat
    BY <1>1, <2>1
  <2>3. (q >= 2 => p >= 2 * B) /\ (q = 1 => p = B) /\ (q = 0 => p = 0)
    <3> HIDE DEF q
    <3>1. QED
      BY <1>1, <2>2
  <2>4. r = IF s < B THEN s ELSE s - B
    <3> HIDE DEF p, q, r
    <3>1. QED
      BY <1>1, <1>3, <2>2, <2>3
  <2>5. QED
    BY <2>4
<1>5. s % B # x /\ s % B \in 0..(B - 1)
  BY <1>1, <1>2, <1>3, <1>4
<1>6. QED
  BY <1>5 DEF h, Byte

(* A packet with one byte that is not as it was: in its header, or behind. *)
Differs(w, p, from, to) ==
  \E pos \in from..to, x \in Byte : x # p[pos] /\ w = Put(p, pos, x)

(* Damage is one byte that differs, or the last one missing.               *)
LEMMA DamageIs ==
  ASSUME NEW p \in Packets, Len(p) > IpHdr, NEW other \in Damage(p)
  PROVE  /\ other \in Packets
         /\ \/ Differs(other, p, 1, Len(p))
            \/ Len(other) = Len(p) - 1 /\ \A i \in 1..(Len(p) - 1) : other[i] = p[i]
<1> DEFINE n == Len(p)
           turned == {[p EXCEPT ![pos] = (@ + B \div 2) % B] : pos \in Hurt \cap DOMAIN p}
<1>1. /\ p \in Seq(Byte) /\ n \in Nat /\ n > IpHdr /\ n < B /\ DOMAIN p = 1..n
      /\ IpHdr \in Nat /\ IpHdr >= 1 /\ \A i \in 1..n : p[i] \in Byte
  <2>1. p \in Seq(Byte) /\ IpHdr \in Nat /\ IpHdr >= 1 /\ n < B
    BY PartTypes DEF IpHdr
  <2>2. QED
    BY <2>1
<1>2. CASE other \in turned
  <2>1. PICK pos \in Hurt \cap DOMAIN p : other = [p EXCEPT ![pos] = (@ + B \div 2) % B]
    BY <1>2
  <2> DEFINE x == (p[pos] + B \div 2) % B
  <2>2. other = Put(p, pos, x)
    BY <2>1 DEF Put
  <2>3. pos \in 1..n /\ p[pos] \in Byte
    BY <1>1, <2>1
  <2>4. x \in Byte /\ x # p[pos]
    BY <2>3, TurnedByte
  <2> HIDE DEF x
  <2>5. Differs(other, p, 1, n)
    BY <2>2, <2>3, <2>4 DEF Differs
  <2>6. other \in Seq(Byte) /\ Len(other) = n
    BY <1>1, <2>2, <2>3, <2>4, PutType
  <2>7. other \in Packets
    <3> HIDE DEF n
    <3>1. QED
      BY <1>1, <2>6 DEF Packets
  <2>8. QED
    BY <2>5, <2>7
<1>3. CASE other = SubSeq(p, 1, n - 1)
  <2> DEFINE m == n - 1
  <2>1. m \in 0..n
    BY <1>1
  <2>2. other \in Seq(Byte) /\ Len(other) = m /\ \A i \in 1..m : other[i] = p[i]
    BY <1>1, <1>3, <2>1, PrefixType
  <2>3. m \in Nat /\ m >= IpHdr /\ m < B
    <3>1. n \in Nat /\ n > IpHdr /\ n < B /\ IpHdr \in Nat
      BY <1>1
    <3>2. B \in Nat
      BY Widths
    <3> HIDE DEF n
    <3>3. QED
      BY ONLY <3>1, <3>2
  <2> HIDE DEF m
  <2>4. other \in Packets
    BY <1>1, <2>2, <2>3 DEF Packets
  <2>5. QED
    BY <2>2, <2>4 DEF m
<1>4. QED
  BY <1>2, <1>3 DEF Damage

(* A packet as a host sends it: its length in its first byte, the checksum *)
(* of its header right.                                                    *)
Sound(p) ==
  /\ p \in Packets /\ Len(p) >= 10 /\ p[1] = Len(p)
  /\ check_ics(Header(p)) = 0

(* A byte of the header that changes is changed in the header.             *)
LEMMA PutHeader ==
  ASSUME NEW p \in Packets, NEW pos \in 1..IpHdr, NEW x \in Byte
  PROVE  Header(Put(p, pos, x)) = Put(Header(p), pos, x)
<1> DEFINE w == Put(p, pos, x)
           h == Header(p)
           n == Len(p)
<1>1. /\ p \in Seq(Byte) /\ n \in Nat /\ n >= IpHdr /\ IpHdr \in Nat
      /\ h \in Seq(Byte) /\ Len(h) = IpHdr /\ \A i \in 1..IpHdr : h[i] = p[i]
  BY PartTypes
<1>2. pos \in 1..n /\ pos \in 1..Len(h) /\ \A i \in 1..IpHdr : i \in 1..n
  BY <1>1
<1>3. w \in Seq(Byte) /\ Len(w) = n /\ \A i \in 1..n : w[i] = IF i = pos THEN x ELSE p[i]
  BY <1>1, <1>2, PutType
<1>4. /\ Put(h, pos, x) \in Seq(Byte) /\ Len(Put(h, pos, x)) = IpHdr
      /\ \A i \in 1..IpHdr : Put(h, pos, x)[i] = IF i = pos THEN x ELSE h[i]
  <2> HIDE DEF h
  <2>1. /\ Put(h, pos, x) \in Seq(Byte) /\ Len(Put(h, pos, x)) = Len(h)
        /\ \A i \in 1..Len(h) : Put(h, pos, x)[i] = IF i = pos THEN x ELSE h[i]
    BY <1>1, <1>2, PutType
  <2>2. QED
    BY <1>1, <2>1
<1> HIDE DEF w, n
<1>5. IpHdr \in 0..Len(w)
  BY <1>1, <1>3
<1>6. Header(w) \in Seq(Byte) /\ Len(Header(w)) = IpHdr /\ \A i \in 1..IpHdr : Header(w)[i] = w[i]
  BY <1>3, <1>5, PrefixType DEF Header
<1> HIDE DEF h
<1>7. \A i \in 1..IpHdr : Header(w)[i] = Put(h, pos, x)[i]
  BY <1>1, <1>2, <1>3, <1>4, <1>6
<1>8. Header(w) = Put(h, pos, x)
  BY <1>4, <1>6, <1>7, SeqEqual
<1>9. QED
  BY <1>8 DEF w, h

(* Damage to the header does not pass the checks, so what is taken has the *)
(* header and the length that were sent, and all of its bytes but one.     *)
LEMMA Received ==
  ASSUME NEW p, Sound(p), NEW other, other = p \/ other \in Damage(p),
         NEW w, Gets(w, other), HeaderOK(other)
  PROVE  /\ w \in Packets /\ Len(w) = Len(p)
         /\ \A i \in 1..IpHdr : w[i] = p[i] /\ other[i] = p[i]
         /\ other = p => w = p
         /\ w = p \/ Differs(w, p, IpHdr + 1, Len(p))
<1> DEFINE n == Len(p)
<1>1. /\ p \in Packets /\ p \in Seq(Byte) /\ n \in Nat /\ n >= 10 /\ n > IpHdr /\ IpHdr \in Nat
      /\ IpHdr >= 1 /\ p[1] = n
  BY PartTypes DEF Sound, IpHdr
<1>2. /\ w \in Packets /\ w \in Seq(Byte) /\ Len(w) = w[1]
      /\ \A i \in 1..Len(w) : i <= Len(other) => w[i] = other[i]
      /\ Len(w) \in Nat /\ Len(w) >= IpHdr
  BY PartTypes DEF Gets
<1> HIDE DEF n
<1> DEFINE Kept == /\ Len(w) = n
                   /\ \A i \in 1..IpHdr : w[i] = p[i] /\ other[i] = p[i]
                   /\ other = p => w = p
                   /\ w = p \/ Differs(w, p, IpHdr + 1, n)
<1>3. ASSUME Len(other) \in Nat, Len(other) >= IpHdr, \A i \in 1..IpHdr : other[i] = p[i]
      PROVE  Len(w) = n /\ \A i \in 1..IpHdr : w[i] = p[i]
  <2>1. \A i \in 1..IpHdr : i \in 1..Len(w) /\ i <= Len(other)
    BY <1>1, <1>2, <1>3
  <2>2. \A i \in 1..IpHdr : w[i] = p[i]
    BY <1>2, <1>3, <2>1
  <2>3. 1 \in 1..IpHdr
    BY <1>1
  <2>4. QED
    BY <1>1, <1>2, <2>2, <2>3
<1>4. CASE other = p
  <2>1. Len(other) \in Nat /\ Len(other) >= IpHdr /\ Len(other) = n
    BY <1>1, <1>4 DEF n
  <2>2. Len(w) = n /\ \A i \in 1..IpHdr : w[i] = p[i]
    BY <1>3, <1>4, <2>1
  <2>3. \A i \in 1..n : w[i] = p[i]
    BY <1>1, <1>2, <1>4, <2>1, <2>2
  <2>4. w = p
    <3>1. Len(p) = n
      BY DEF n
    <3>2. QED
      BY <1>1, <1>2, <2>2, <2>3, <3>1, SeqEqual
  <2>5. QED
    BY <1>2, <1>4, <2>2, <2>4 DEF n
<1>5. ASSUME NEW pos \in 1..n, NEW x \in Byte, x # p[pos], other = Put(p, pos, x)
      PROVE  Kept
  <2>1. /\ other \in Seq(Byte) /\ Len(other) = n
        /\ \A i \in 1..n : other[i] = IF i = pos THEN x ELSE p[i]
    <3>1. pos \in 1..Len(p) /\ x \in Byte /\ p \in Seq(Byte)
      BY <1>1, <1>5 DEF n
    <3>2. /\ Put(p, pos, x) \in Seq(Byte) /\ Len(Put(p, pos, x)) = Len(p)
          /\ \A i \in 1..Len(p) : Put(p, pos, x)[i] = IF i = pos THEN x ELSE p[i]
      BY ONLY <3>1 DEF Put
    <3>3. QED
      BY <1>5, <3>2 DEF n
  <2>2. pos \notin 1..IpHdr
    <3> SUFFICES ASSUME pos \in 1..IpHdr PROVE FALSE
      OBVIOUS
    <3>1. Header(other) = Put(Header(p), pos, x)
      BY <1>1, <1>5, PutHeader
    <3>2. /\ Header(p) \in Seq(Byte) /\ Len(Header(p)) = IpHdr
          /\ \A i \in 1..IpHdr : Header(p)[i] = p[i]
      BY <1>1, PartTypes
    <3>3. pos \in 1..Len(Header(p)) /\ x # Header(p)[pos]
      BY <1>5, <3>2
    <3>4. check_ics(Header(p)) = 0
      BY DEF Sound
    <3>5. check_ics(Header(other)) # 0
      BY <3>1, <3>2, <3>3, <3>4, ChangeSeen
    <3>6. QED
      BY <3>5 DEF HeaderOK
  <2>3. \A i \in 1..IpHdr : i \in 1..n /\ i # pos
    BY <1>1, <2>2
  <2>4. \A i \in 1..IpHdr : other[i] = p[i]
    BY <2>1, <2>3
  <2>5. Len(w) = n /\ \A i \in 1..IpHdr : w[i] = p[i]
    BY <1>1, <1>3, <2>1, <2>4
  <2>6. \A i \in 1..n : w[i] = other[i]
    BY <1>1, <1>2, <2>1, <2>5
  <2>7. w = other
    BY <1>2, <2>1, <2>5, <2>6, SeqEqual
  <2>8. pos \in (IpHdr + 1)..n
    BY <1>1, <2>2
  <2>9. other # p
    BY <1>5, <2>1
  <2>10. QED
    BY <1>5, <2>4, <2>5, <2>7, <2>8, <2>9 DEF Differs
<1>6. ASSUME Len(other) = n - 1, \A i \in 1..(n - 1) : other[i] = p[i] PROVE Kept
  <2>1. Len(other) \in Nat /\ Len(other) >= IpHdr /\ \A i \in 1..IpHdr : i \in 1..(n - 1)
    BY <1>1, <1>6
  <2>2. \A i \in 1..IpHdr : other[i] = p[i]
    BY <1>6, <2>1
  <2>3. Len(w) = n /\ \A i \in 1..IpHdr : w[i] = p[i]
    BY <1>3, <2>1, <2>2
  <2> DEFINE x == w[n]
  <2>4. n \in 1..n /\ x \in Byte
    BY <1>1, <1>2, <2>3
  <2>5. \A i \in 1..(n - 1) : i \in 1..n /\ i <= Len(other) /\ i # n
    BY <1>1, <1>6
  <2>6. \A i \in 1..(n - 1) : w[i] = p[i]
    BY <1>2, <1>6, <2>3, <2>5
  <2>7. other # p
    <3>1. Len(p) = n /\ n # n - 1
      BY <1>1 DEF n
    <3>2. QED
      BY <1>6, <3>1
  <2>8. \A i \in 1..n : i = n \/ i \in 1..(n - 1)
    BY <1>1
  <2>9. CASE x = p[n]
    <3>1. \A i \in 1..n : w[i] = p[i]
      BY <2>6, <2>8, <2>9
    <3>2. w = p
      <4>1. Len(p) = n
        BY DEF n
      <4>2. QED
        BY <1>1, <1>2, <2>3, <3>1, <4>1, SeqEqual
    <3>3. QED
      BY <2>2, <2>3, <2>7, <3>2
  <2>10. CASE x # p[n]
    <3>1. /\ Put(p, n, x) \in Seq(Byte) /\ Len(Put(p, n, x)) = n
          /\ \A i \in 1..n : Put(p, n, x)[i] = IF i = n THEN x ELSE p[i]
      <4> HIDE DEF x
      <4>1. n \in 1..Len(p) /\ x \in Byte /\ p \in Seq(Byte)
        BY <1>1, <2>4 DEF n
      <4>2. /\ Put(p, n, x) \in Seq(Byte) /\ Len(Put(p, n, x)) = Len(p)
            /\ \A i \in 1..Len(p) : Put(p, n, x)[i] = IF i = n THEN x ELSE p[i]
        BY ONLY <4>1 DEF Put
      <4>3. QED
        BY <4>2 DEF n
    <3>2. \A i \in 1..n : w[i] = Put(p, n, x)[i]
      BY <2>5, <2>6, <2>8, <3>1
    <3>3. w = Put(p, n, x)
      BY <1>2, <2>3, <3>1, <3>2, SeqEqual
    <3>4. n \in (IpHdr + 1)..n
      BY <1>1
    <3> HIDE DEF x
    <3>5. Differs(w, p, IpHdr + 1, n)
      BY <2>4, <2>10, <3>3, <3>4 DEF Differs
    <3>6. QED
      BY <2>2, <2>3, <2>7, <3>5
  <2>11. QED
    BY <2>9, <2>10
<1>7. CASE other \in Damage(p)
  <2>1. /\ other \in Packets
        /\ \/ Differs(other, p, 1, n)
           \/ Len(other) = n - 1 /\ \A i \in 1..(n - 1) : other[i] = p[i]
    BY <1>1, <1>7, DamageIs DEF n
  <2>2. CASE Differs(other, p, 1, n)
    BY <1>2, <1>5, <2>2 DEF Differs, n
  <2>3. CASE Len(other) = n - 1 /\ \A i \in 1..(n - 1) : other[i] = p[i]
    BY <1>2, <1>6, <2>3 DEF n
  <2>4. QED
    BY <2>1, <2>2, <2>3
<1>8. QED
  BY <1>4, <1>7

(* A byte that changes behind a pseudo header changes in what is summed.   *)
LEMMA PutConcat ==
  ASSUME NEW c \in Seq(Byte), NEW d \in Seq(Byte), NEW pos \in 1..Len(d), NEW x \in Byte
  PROVE  /\ Len(c) + pos \in 1..Len(c \o d) /\ (c \o d)[Len(c) + pos] = d[pos]
         /\ c \o Put(d, pos, x) = Put(c \o d, Len(c) + pos, x)
<1> DEFINE m == Len(c)
           n == Len(d)
           e == Put(d, pos, x)
           s == c \o d
           t == c \o e
           u == Put(s, m + pos, x)
<1>1. m \in Nat /\ n \in Nat /\ pos \in 1..n
  OBVIOUS
<1>2. /\ e \in Seq(Byte) /\ Len(e) = n
      /\ \A i \in 1..n : e[i] = IF i = pos THEN x ELSE d[i]
  BY ONLY PutType, d \in Seq(Byte), pos \in 1..Len(d), x \in Byte
<1>3. /\ s \in Seq(Byte) /\ Len(s) = m + n
      /\ \A i \in 1..m : s[i] = c[i]
      /\ \A i \in 1..n : s[m + i] = d[i]
  BY ONLY WholeType, c \in Seq(Byte), d \in Seq(Byte)
<1> HIDE DEF e
<1>4. /\ t \in Seq(Byte) /\ Len(t) = m + n
      /\ \A i \in 1..m : t[i] = c[i]
      /\ \A i \in 1..n : t[m + i] = e[i]
  <2>1. /\ t \in Seq(Byte) /\ Len(t) = Len(c) + Len(e)
        /\ \A i \in 1..Len(c) : t[i] = c[i]
        /\ \A i \in 1..Len(e) : t[Len(c) + i] = e[i]
    BY ONLY WholeType, c \in Seq(Byte), <1>2
  <2>2. QED
    BY <1>2, <2>1
<1> HIDE DEF s, t
<1>5. m + pos \in 1..(m + n) /\ m + pos \in 1..Len(s)
  <2> HIDE DEF m, n
  <2>1. QED
    BY <1>1, <1>3
<1>6. /\ u \in Seq(Byte) /\ Len(u) = m + n
      /\ \A i \in 1..(m + n) : u[i] = IF i = m + pos THEN x ELSE s[i]
  <2>1. /\ u \in Seq(Byte) /\ Len(u) = Len(s)
        /\ \A i \in 1..Len(s) : u[i] = IF i = m + pos THEN x ELSE s[i]
    BY ONLY <1>3, <1>5, PutType, x \in Byte
  <2>2. QED
    BY <1>3, <2>1
<1> HIDE DEF m, n, u
<1>7. \A i \in 1..(m + n) : t[i] = u[i]
  <2> TAKE i \in 1..(m + n)
  <2>1. CASE i \in 1..m
    <3>1. i # m + pos /\ i \in 1..(m + n)
      BY <1>1, <2>1
    <3>2. QED
      BY <1>3, <1>4, <1>6, <2>1, <3>1
  <2>2. CASE i \notin 1..m
    <3> DEFINE j == i - m
    <3>1. j \in 1..n /\ i = m + j /\ (i = m + pos <=> j = pos)
      BY <1>1, <2>2
    <3> HIDE DEF j
    <3>2. t[i] = e[j] /\ s[i] = d[j]
      BY <1>3, <1>4, <3>1
    <3>3. QED
      BY <1>2, <1>6, <3>1, <3>2
  <2>3. QED
    BY <2>1, <2>2
<1>8. t = u
  BY <1>4, <1>6, <1>7, SeqEqual
<1>9. s[m + pos] = d[pos]
  BY <1>1, <1>3
<1>10. QED
  BY <1>5, <1>8, <1>9 DEF e, m, n, s, t, u

(* A byte of the data that changed is seen by the check of UDP and ICMP.   *)
LEMMA DataKept ==
  ASSUME NEW p \in Packets, p[2] = IPPROTO_ICMP \/ p[2] = IPPROTO_UDP,
         check_ics(Summed(p[2], p)) = 0,
         NEW w \in Packets, Len(w) = Len(p), \A i \in 1..IpHdr : w[i] = p[i],
         Differs(w, p, IpHdr + 1, Len(p))
  PROVE  ~DataOK(w)
<1> DEFINE n == Len(p) - IpHdr
           d == Data(p)
<1>1. PICK pos \in (IpHdr + 1)..Len(p), x \in Byte : x # p[pos] /\ w = Put(p, pos, x)
  BY DEF Differs
<1> DEFINE at == pos - IpHdr
<1>2. /\ p \in Seq(Byte) /\ Len(p) \in Nat /\ Len(p) >= IpHdr /\ IpHdr \in Nat
      /\ d \in Seq(Byte) /\ Len(d) = n /\ \A i \in 1..n : d[i] = p[IpHdr + i]
      /\ Data(w) \in Seq(Byte) /\ Len(Data(w)) = n /\ \A i \in 1..n : Data(w)[i] = w[IpHdr + i]
  BY PartTypes
<1>3. /\ n \in Nat /\ at \in 1..n /\ pos = IpHdr + at /\ pos \in 1..Len(p)
      /\ \A i \in 1..n : IpHdr + i \in 1..Len(p) /\ (IpHdr + i = pos <=> i = at)
  <2>1. pos \in (IpHdr + 1)..Len(p) /\ Len(p) \in Nat /\ Len(p) >= IpHdr /\ IpHdr \in Nat
    BY <1>1, <1>2
  <2>2. QED
    BY ONLY <2>1
<1>4. \A i \in 1..Len(p) : w[i] = IF i = pos THEN x ELSE p[i]
  <2>1. \A i \in 1..Len(p) : Put(p, pos, x)[i] = IF i = pos THEN x ELSE p[i]
    <3>1. p \in Seq(Byte) /\ pos \in 1..Len(p)
      BY <1>2, <1>3
    <3>2. QED
      BY ONLY <3>1, PutType, x \in Byte
  <2>2. QED
    BY <1>1, <2>1
<1> HIDE DEF n, at, d
<1>5. Data(w) = Put(d, at, x)
  <2>1. /\ Put(d, at, x) \in Seq(Byte) /\ Len(Put(d, at, x)) = n
        /\ \A i \in 1..n : Put(d, at, x)[i] = IF i = at THEN x ELSE d[i]
    <3>1. at \in 1..Len(d) /\ d \in Seq(Byte)
      BY <1>2, <1>3
    <3>2. /\ Put(d, at, x) \in Seq(Byte) /\ Len(Put(d, at, x)) = Len(d)
          /\ \A i \in 1..Len(d) : Put(d, at, x)[i] = IF i = at THEN x ELSE d[i]
      BY ONLY <3>1, x \in Byte DEF Put
    <3>3. QED
      BY <1>2, <3>2
  <2>2. \A i \in 1..n : Data(w)[i] = Put(d, at, x)[i]
    <3> TAKE i \in 1..n
    <3>1. Data(w)[i] = w[IpHdr + i] /\ d[i] = p[IpHdr + i]
      BY <1>2
    <3>2. w[IpHdr + i] = IF i = at THEN x ELSE p[IpHdr + i]
      BY <1>3, <1>4
    <3>3. QED
      BY <2>1, <3>1, <3>2
  <2>3. QED
    BY <1>2, <2>1, <2>2, SeqEqual
<1>6. at \in 1..Len(d) /\ x # d[at]
  BY <1>1, <1>2, <1>3
<1>7. w[2] = p[2] /\ w[5] = p[5] /\ w[6] = p[6]
  BY DEF IpHdr
<1>8. CASE p[2] = IPPROTO_ICMP
  <2>1. check_ics(d) = 0
    BY <1>8 DEF Summed, d
  <2>2. check_ics(Put(d, at, x)) # 0
    BY <1>2, <1>6, <2>1, ChangeSeen
  <2>3. w[2] = IPPROTO_ICMP /\ IPPROTO_ICMP # IPPROTO_UDP
    BY <1>7, <1>8 DEF IPPROTO_ICMP, IPPROTO_UDP
  <2>4. QED
    BY <1>5, <2>2, <2>3 DEF DataOK
<1>9. CASE p[2] = IPPROTO_UDP
  <2> DEFINE c == Pseudo(p)
  <2>1. w[2] = IPPROTO_UDP /\ IPPROTO_ICMP # IPPROTO_UDP
    BY <1>7, <1>9 DEF IPPROTO_ICMP, IPPROTO_UDP
  <2>2. check_ics(c \o d) = 0
    BY <1>9, <2>1 DEF Summed, d
  <2>3. c \in Seq(Byte)
    BY PseudoType
  <2>4. Pseudo(w) = c
    BY <1>7 DEF Pseudo
  <2> HIDE DEF c
  <2>5. ip_checksum2(Pseudo(w), Data(w)) = check_ics(c \o Put(d, at, x))
    BY <1>2, <1>5, <2>4, PseudoSum
  <2>6. /\ Len(c) + at \in 1..Len(c \o d) /\ (c \o d)[Len(c) + at] = d[at]
        /\ c \o Put(d, at, x) = Put(c \o d, Len(c) + at, x)
    BY <1>2, <1>6, <2>3, PutConcat
  <2>7. c \o d \in Seq(Byte)
    BY <1>2, <2>3
  <2>8. check_ics(Put(c \o d, Len(c) + at, x)) # 0
    BY <1>6, <2>2, <2>6, <2>7, ChangeSeen
  <2>9. QED
    BY <2>1, <2>5, <2>6, <2>8 DEF DataOK
<1>10. QED
  BY <1>8, <1>9

-----------------------------------------------------------------------------
(* The packets of the hosts.                                               *)

HasFields(p, proto, from, to, port1, port2, data) ==
  /\ Len(p) = 10 + Len(data)
  /\ p[1] = 10 + Len(data) /\ p[2] = proto /\ p[5] = from /\ p[6] = to
  /\ p[7] = port1 /\ p[8] = port2
  /\ SubSeq(p, 11, Len(p)) = data

(* A packet of a host, field by field.                                     *)
LEMMA PacketFields ==
  ASSUME NEW proto \in Protocols, NEW from \in Byte, NEW to \in Byte,
         NEW port1 \in Byte, NEW port2 \in Byte, NEW data \in Seq(Byte), 10 + Len(data) < B,
         NEW withSum \in BOOLEAN
  PROVE  HasFields(Packet(proto, from, to, port1, port2, data, withSum),
                   proto, from, to, port1, port2, data)
<1> DEFINE bare == Bare(proto, from, to, port1, port2, data)
           p    == Packet(proto, from, to, port1, port2, data, withSum)
           n    == Len(data)
           m    == 10 + n
           ten  == 10
<1>1. /\ bare \in Packets /\ Len(bare) = m
      /\ bare[1] = m /\ bare[2] = proto /\ bare[5] = from /\ bare[6] = to
      /\ bare[7] = port1 /\ bare[8] = port2
      /\ \A i \in 1..n : bare[10 + i] = data[i]
  BY BareIs
<1>2. Completed(p, bare, proto, withSum)
  BY PacketIs
<1>3. n \in Nat /\ m \in Nat /\ m = ten + n /\ ten = 10
  OBVIOUS
<1> HIDE DEF bare, p, n, m
<1>4. p \in Packets /\ Len(p) = m /\ \A i \in 1..m : i \notin {3, 4, 9, 10} => p[i] = bare[i]
  BY <1>1, <1>2 DEF Completed, SameBut
<1>5. p[1] = m /\ p[2] = proto /\ p[5] = from /\ p[6] = to /\ p[7] = port1 /\ p[8] = port2
  <2>1. \A i \in 1..10 : i \in 1..m
    BY <1>3
  <2>2. \A i \in {1, 2, 5, 6, 7, 8} : p[i] = bare[i]
    BY <1>4, <2>1
  <2>3. QED
    BY <1>1, <2>2
<1>6. \A i \in 1..n : p[10 + i] = data[i]
  <2>1. \A i \in 1..n : 10 + i \in 1..m /\ 10 + i \notin {3, 4, 9, 10}
    BY <1>3
  <2>2. QED
    BY <1>1, <1>4, <2>1
<1>7. SubSeq(p, 11, Len(p)) = data
  <2>1. p \in Seq(Byte)
    BY <1>4, PartTypes
  <2>2. ten \in 0..Len(p)
    BY <1>3, <1>4
  <2> HIDE DEF ten
  <2>3. /\ SubSeq(p, ten + 1, Len(p)) \in Seq(Byte)
        /\ Len(SubSeq(p, ten + 1, Len(p))) = Len(p) - ten
        /\ \A i \in 1..(Len(p) - ten) : SubSeq(p, ten + 1, Len(p))[i] = p[ten + i]
    BY ONLY <2>1, <2>2, SuffixType
  <2> DEFINE s == SubSeq(p, ten + 1, Len(p))
  <2>4. m - ten = n
    BY <1>3
  <2>5. s \in Seq(Byte) /\ Len(s) = n /\ \A i \in 1..n : s[i] = p[ten + i]
    BY <1>4, <2>3, <2>4
  <2>6. ten + 1 = 11 /\ Len(data) = n /\ \A i \in 1..n : p[ten + i] = data[i]
    BY <1>3, <1>6 DEF n
  <2>7. s = SubSeq(p, 11, Len(p))
    BY <2>6
  <2> HIDE DEF s
  <2>8. s = data
    BY <2>5, <2>6, SeqEqual
  <2>9. QED
    BY <2>7, <2>8
<1>8. QED
  BY <1>4, <1>5, <1>7 DEF p, m, n, HasFields

(* What a host sends has the length in its first byte and the sum of its   *)
(* header right; its other checksum is right, or left out.                 *)
Hosted(p, withSum) ==
  /\ Sound(p)
  /\ withSum => check_ics(Summed(p[2], p)) = 0
  /\ ~withSum => p[9] = 0 /\ p[10] = 0

LEMMA HostPacket ==
  ASSUME NEW proto \in Protocols, NEW from \in Byte, NEW to \in Byte,
         NEW port1 \in Byte, NEW port2 \in Byte, NEW data \in Seq(Byte), 10 + Len(data) < B,
         NEW withSum \in BOOLEAN, NEW p,
         p = Packet(proto, from, to, port1, port2, data, withSum)
  PROVE  Hosted(p, withSum)
<1> DEFINE bare == Bare(proto, from, to, port1, port2, data)
           r    == Resummed(p)
<1>1. bare \in Packets
  BY BareIs
<1>2. Completed(p, bare, proto, withSum)
  BY PacketIs
<1>3. /\ p \in Packets /\ Len(p) = Len(bare) /\ SameBut(p, bare, Len(p))
      /\ ~withSum => p[9] = 0 /\ p[10] = 0
  BY <1>2 DEF Completed
<1>4. Len(p) = 10 + Len(data) /\ p[1] = Len(p) /\ Len(p) >= 10
  <2>1. Len(p) = 10 + Len(data) /\ p[1] = 10 + Len(data)
    <3>1. HasFields(p, proto, from, to, port1, port2, data)
      BY PacketFields
    <3>2. QED
      BY <3>1 DEF HasFields
  <2>2. Len(data) \in Nat
    OBVIOUS
  <2>3. QED
    BY <2>1, <2>2
<1>5. SameBut(p, bare, IpHdr)
  <2> HIDE DEF bare
  <2>1. \A i \in 1..IpHdr : i \in 1..Len(p)
    BY <1>3, PartTypes
  <2>2. QED
    BY <1>3, <2>1 DEF SameBut
<1>6. Header(r) = Header(p)
  BY <1>3, <1>5, ResummedHeader
<1>7. r \in Packets /\ RfcSum(Header(r)) = 0 /\ RfcSum(Summed(r[2], r)) = 0
  BY <1>3, <1>4, ResummedVerifies, ResummedParts DEF Verifies
<1>8. check_ics(Header(p)) = 0
  <2>1. Header(p) \in Seq(Byte) /\ RfcSum(Header(p)) = 0
    BY <1>3, <1>6, <1>7, PartTypes
  <2>2. QED
    BY <2>1, CheckZero
<1>9. ASSUME withSum PROVE check_ics(Summed(p[2], p)) = 0
  <2>1. r = p
    <3>1. withSum = TRUE
      BY <1>9
    <3>2. SameBut(p, Bare(proto, from, to, port1, port2, data), Len(p))
      BY <1>3
    <3>3. \A q \in Packets :
            Len(q) = 10 + Len(data) /\ SameBut(q, Bare(proto, from, to, port1, port2, data), Len(q))
              => Resummed(q) = Packet(proto, from, to, port1, port2, data, TRUE)
      BY ResummedIs
    <3>4. r = Packet(proto, from, to, port1, port2, data, TRUE)
      BY <1>3, <1>4, <3>2, <3>3, Zenon
    <3>5. QED
      BY <3>1, <3>4, Zenon
  <2>2. RfcSum(Summed(p[2], p)) = 0
    BY <1>7, <2>1
  <2>3. Summed(p[2], p) \in Seq(Byte)
    BY <1>3, SummedType
  <2>4. QED
    BY <2>2, <2>3, CheckZero
<1>10. QED
  BY <1>3, <1>4, <1>8, <1>9 DEF Hosted, Sound

(* What is rewritten ends as the packet that was meant: its header if that *)
(* is right but for the checksum, all of it if all is.                     *)
Full(proto, from, to, port1, port2, data) ==
  Packet(proto, from, to, port1, port2, data, TRUE)

Becomes(q, full, bare) ==
  /\ Verifies(Resummed(q))
  /\ Header(Resummed(q)) = Header(full)
  /\ SameBut(q, bare, Len(q)) => Resummed(q) = full

LEMMA ResummedBecomes ==
  ASSUME NEW proto \in Protocols, NEW from \in Byte, NEW to \in Byte,
         NEW port1 \in Byte, NEW port2 \in Byte, NEW data \in Seq(Byte), 10 + Len(data) < B,
         NEW q \in Packets, Len(q) = 10 + Len(data),
         SameBut(q, Bare(proto, from, to, port1, port2, data), IpHdr)
  PROVE  Becomes(q, Full(proto, from, to, port1, port2, data),
                 Bare(proto, from, to, port1, port2, data))
<1> DEFINE bare == Bare(proto, from, to, port1, port2, data)
           full == Packet(proto, from, to, port1, port2, data, TRUE)
<1>1. Verifies(Resummed(q))
  <2>1. Len(q) >= 10
    <3>1. Len(data) \in Nat
      OBVIOUS
    <3>2. QED
      BY <3>1
  <2>2. QED
    BY <2>1, ResummedVerifies
<1>2. Header(Resummed(q)) = Header(full)
  <2>1. TRUE \in BOOLEAN
    OBVIOUS
  <2>2. ASSUME NEW withSum \in BOOLEAN
        PROVE  Header(Resummed(q)) = Header(Packet(proto, from, to, port1, port2, data, withSum))
    BY ResummedHeader
  <2>3. QED
    BY <2>1, <2>2, Zenon
<1>3. SameBut(q, bare, Len(q)) => Resummed(q) = full
  BY ResummedIs
<1>4. QED
  BY <1>1, <1>2, <1>3 DEF Becomes, Full

Fields(b, proto, from, to, port1, port2, data) ==
  /\ b[1] = 10 + Len(data) /\ b[2] = proto /\ b[3] = 0 /\ b[4] = 0
  /\ b[5] = from /\ b[6] = to /\ b[7] = port1 /\ b[8] = port2
  /\ b[9] = 0 /\ b[10] = 0
  /\ \A i \in 1..Len(data) : b[10 + i] = data[i]

LEMMA BareFields ==
  ASSUME NEW proto \in Protocols, NEW from \in Byte, NEW to \in Byte,
         NEW port1 \in Byte, NEW port2 \in Byte, NEW data \in Seq(Byte), 10 + Len(data) < B
  PROVE  Fields(Bare(proto, from, to, port1, port2, data), proto, from, to, port1, port2, data)
<1> DEFINE b == Bare(proto, from, to, port1, port2, data)
<1>1. /\ b[1] = 10 + Len(data) /\ b[2] = proto /\ b[3] = 0 /\ b[4] = 0
      /\ b[5] = from /\ b[6] = to /\ b[7] = port1 /\ b[8] = port2
      /\ b[9] = 0 /\ b[10] = 0
      /\ \A i \in 1..Len(data) : b[10 + i] = data[i]
  BY BareIs
<1> HIDE DEF b
<1>2. Fields(b, proto, from, to, port1, port2, data)
  BY <1>1 DEF Fields
<1>3. QED
  BY <1>2 DEF b

EditOf(e, w, at1, x, at2, y) ==
  /\ e \in Packets /\ Len(e) = Len(w)
  /\ \A i \in 1..Len(w) : e[i] = IF i = at1 THEN x ELSE IF i = at2 THEN y ELSE w[i]

LEMMA EditedIs ==
  ASSUME NEW w \in Packets, NEW x \in Byte, NEW y \in Byte
  PROVE  /\ EditOf(Edited(w, 5, x, 7, y), w, 5, x, 7, y)
         /\ EditOf(Edited(w, 6, x, 8, y), w, 6, x, 8, y)
<1>1. ASSUME NEW at1 \in Nat, NEW at2 \in Nat, at1 # at2
      PROVE  EditOf(Edited(w, at1, x, at2, y), w, at1, x, at2, y)
  BY <1>1, EditedType DEF EditOf
<1>2. 5 \in Nat /\ 6 \in Nat /\ 7 \in Nat /\ 8 \in Nat /\ 5 # 7 /\ 6 # 8
  OBVIOUS
<1>3. QED
  BY <1>1, <1>2

(* The rewriting of the address and the port, of a packet that has the     *)
(* header that was sent, or all that was sent.                             *)
Becoming(w, p, rewritten, full) ==
  /\ Verifies(rewritten) /\ Header(rewritten) = Header(full)
  /\ w = p => rewritten = full

LEMMA RewrittenIs ==
  ASSUME NEW proto \in Protocols, NEW from \in Byte, NEW to \in Byte,
         NEW port1 \in Byte, NEW port2 \in Byte, NEW data \in Seq(Byte), 10 + Len(data) < B,
         NEW withSum \in BOOLEAN, NEW p,
         p = Packet(proto, from, to, port1, port2, data, withSum),
         NEW w \in Packets, Len(w) = Len(p), \A i \in 1..IpHdr : w[i] = p[i],
         NEW lte_port \in Byte, NEW client \in Byte, NEW eth_port \in Byte
  PROVE  /\ Becoming(w, p, ToLte(w, lte_port), Full(proto, my_ip_addr, to, lte_port, port2, data))
         /\ Becoming(w, p, ToEth(w, client, eth_port),
                     Full(proto, from, client, port1, eth_port, data))
<1> DEFINE up   == Full(proto, my_ip_addr, to, lte_port, port2, data)
           down == Full(proto, from, client, port1, eth_port, data)
           bare == Bare(proto, from, to, port1, port2, data)
           bup  == Bare(proto, my_ip_addr, to, lte_port, port2, data)
           bdn  == Bare(proto, from, client, port1, eth_port, data)
           eup  == Edited(w, 5, my_ip_addr, 7, lte_port)
           edn  == Edited(w, 6, client, 8, eth_port)
           n    == Len(w)
<1>1. my_ip_addr \in Byte /\ lte_port \in Byte /\ client \in Byte /\ eth_port \in Byte
  BY Constants
<1>3. n = 10 + Len(data) /\ n \in Nat /\ Len(data) \in Nat
  <2>1. Len(p) = 10 + Len(data)
    <3>1. HasFields(p, proto, from, to, port1, port2, data)
      BY PacketFields
    <3>2. QED
      BY <3>1 DEF HasFields
  <2>2. Len(data) \in Nat
    OBVIOUS
  <2>3. QED
    BY <2>1, <2>2
<1>4. SameBut(p, bare, n)
  <2>1. Completed(p, bare, proto, withSum)
    BY PacketIs
  <2>2. QED
    BY <2>1 DEF Completed
<1>5. /\ bup[5] = my_ip_addr /\ bup[7] = lte_port
      /\ \A i \in 1..n : i # 5 /\ i # 7 => bup[i] = bare[i]
      /\ bdn[6] = client /\ bdn[8] = eth_port
      /\ \A i \in 1..n : i # 6 /\ i # 8 => bdn[i] = bare[i]
  <2> DEFINE len == Len(data)
  <2>1. /\ Fields(bare, proto, from, to, port1, port2, data)
        /\ Fields(bup, proto, my_ip_addr, to, lte_port, port2, data)
        /\ Fields(bdn, proto, from, client, port1, eth_port, data)
    BY <1>1, BareFields
  <2>2. len \in Nat /\ n = 10 + len
    BY <1>3
  <2> HIDE DEF bare, bup, bdn, n, len
  <2>3. \A i \in 1..n : \/ i \in {1, 2, 3, 4, 5, 6, 7, 8, 9, 10}
                        \/ \E j \in 1..len : i = 10 + j
    <3> TAKE i \in 1..n
    <3>1. CASE i <= 10
      BY <3>1, <2>2
    <3>2. CASE i > 10
      <4>1. i - 10 \in 1..len /\ i = 10 + (i - 10)
        BY <3>2, <2>2
      <4>2. QED
        BY <4>1
    <3>3. QED
      BY <3>1, <3>2, <2>2
  <2>4. ASSUME NEW i \in 1..n PROVE /\ i # 5 /\ i # 7 => bup[i] = bare[i]
                                    /\ i # 6 /\ i # 8 => bdn[i] = bare[i]
    <3>1. CASE i \in {1, 2, 3, 4, 5, 6, 7, 8, 9, 10}
      BY <2>1, <3>1 DEF Fields
    <3>2. CASE \E j \in 1..len : i = 10 + j
      BY <2>1, <3>2 DEF Fields, len
    <3>3. QED
      BY <2>3, <3>1, <3>2
  <2>5. QED
    BY <2>1, <2>4 DEF Fields
<1>6. /\ EditOf(eup, w, 5, my_ip_addr, 7, lte_port)
      /\ EditOf(edn, w, 6, client, 8, eth_port)
  BY <1>1, EditedIs
<1>7. ToLte(w, lte_port) = Resummed(eup) /\ ToEth(w, client, eth_port) = Resummed(edn)
  BY DEF ToLte, ToEth
<1>8. IpHdr \in Nat /\ IpHdr <= n
  BY PartTypes
<1> DEFINE Agrees(m) == \A i \in 1..m : w[i] = p[i]
<1>9. ASSUME NEW m \in Nat, m <= n, Agrees(m)
      PROVE  SameBut(eup, bup, m) /\ SameBut(edn, bdn, m)
  <2> HIDE DEF eup, edn, bup, bdn, bare
  <2>1. /\ \A i \in 1..n : eup[i] = IF i = 5 THEN my_ip_addr ELSE IF i = 7 THEN lte_port ELSE w[i]
        /\ \A i \in 1..n : edn[i] = IF i = 6 THEN client ELSE IF i = 8 THEN eth_port ELSE w[i]
    BY <1>6 DEF EditOf
  <2> HIDE DEF n
  <2>2. \A i \in 1..m : i \in 1..n /\ w[i] = p[i]
    BY <1>3, <1>9
  <2>3. \A i \in 1..m : i \notin {3, 4, 9, 10} => w[i] = bare[i]
    BY <1>4, <2>2 DEF SameBut
  <2>4. \A i \in 1..m : i \notin {3, 4, 9, 10} => eup[i] = bup[i]
    BY <1>5, <2>1, <2>2, <2>3
  <2>5. \A i \in 1..m : i \notin {3, 4, 9, 10} => edn[i] = bdn[i]
    BY <1>5, <2>1, <2>2, <2>3
  <2>6. QED
    BY <2>4, <2>5 DEF SameBut
<1>10. SameBut(eup, bup, IpHdr) /\ SameBut(edn, bdn, IpHdr)
  BY <1>8, <1>9
<1>11. eup \in Packets /\ edn \in Packets /\ Len(eup) = n /\ Len(edn) = n
  BY <1>6 DEF EditOf
<1>12. w = p => SameBut(eup, bup, Len(eup)) /\ SameBut(edn, bdn, Len(edn))
  BY <1>3, <1>9, <1>11
<1> HIDE DEF eup, edn
<1>13. Len(eup) = 10 + Len(data) /\ Len(edn) = 10 + Len(data)
  BY <1>3, <1>11
<1>14. Becomes(eup, up, bup)
  BY <1>1, <1>10, <1>11, <1>13, ResummedBecomes
<1>15. Becomes(edn, down, bdn)
  BY <1>1, <1>10, <1>11, <1>13, ResummedBecomes
<1> HIDE DEF bup, bdn, up, down
<1>16. Becoming(w, p, ToLte(w, lte_port), up)
  BY <1>7, <1>12, <1>14 DEF Becomes, Becoming
<1>17. Becoming(w, p, ToEth(w, client, eth_port), down)
  BY <1>7, <1>12, <1>15 DEF Becomes, Becoming
<1>18. QED
  BY <1>16, <1>17 DEF up, down

(* The header of a packet says nothing of its ports.                       *)
LEMMA HeaderOfFull ==
  ASSUME NEW proto \in Protocols, NEW from \in Byte, NEW to \in Byte,
         NEW port1 \in Byte, NEW other1 \in Byte, NEW port2 \in Byte,
         NEW data \in Seq(Byte), 10 + Len(data) < B
  PROVE  Header(Full(proto, from, to, port1, port2, data))
           = Header(Full(proto, from, to, other1, port2, data))
<1> DEFINE a == Bare(proto, from, to, port1, port2, data)
           b == Bare(proto, from, to, other1, port2, data)
<1>1. Header(a) = Header(b)
  <2>1. /\ a \in Seq(Byte) /\ b \in Seq(Byte) /\ Len(a) >= IpHdr /\ Len(b) >= IpHdr
        /\ Len(a) \in Nat /\ Len(b) \in Nat /\ IpHdr = 6
    BY BareIs, PartTypes DEF IpHdr
  <2>2. /\ a[1] = b[1] /\ a[2] = b[2] /\ a[3] = b[3] /\ a[4] = b[4] /\ a[5] = b[5]
        /\ a[6] = b[6]
    <3>1. /\ Fields(a, proto, from, to, port1, port2, data)
          /\ Fields(b, proto, from, to, other1, port2, data)
      BY BareFields
    <3> HIDE DEF a, b
    <3>2. QED
      BY <3>1 DEF Fields
  <2> HIDE DEF a, b
  <2>3. IpHdr \in 0..Len(a) /\ IpHdr \in 0..Len(b)
    BY <2>1
  <2>4. /\ Header(a) \in Seq(Byte) /\ Len(Header(a)) = IpHdr
        /\ \A i \in 1..IpHdr : Header(a)[i] = a[i]
    BY <2>1, <2>3, PrefixType DEF Header
  <2>5. /\ Header(b) \in Seq(Byte) /\ Len(Header(b)) = IpHdr
        /\ \A i \in 1..IpHdr : Header(b)[i] = b[i]
    BY <2>1, <2>3, PrefixType DEF Header
  <2>6. \A i \in 1..IpHdr : a[i] = b[i]
    BY <2>1, <2>2
  <2>7. QED
    BY <2>4, <2>5, <2>6, SeqEqual
<1>2. /\ Completed(Full(proto, from, to, port1, port2, data), a, proto, TRUE)
      /\ Completed(Full(proto, from, to, other1, port2, data), b, proto, TRUE)
  <2>1. TRUE \in BOOLEAN
    OBVIOUS
  <2>2. ASSUME NEW port \in Byte, NEW withSum \in BOOLEAN
        PROVE  Completed(Packet(proto, from, to, port, port2, data, withSum),
                         Bare(proto, from, to, port, port2, data), proto, withSum)
    BY PacketIs
  <2>3. QED
    BY <2>1, <2>2, Zenon DEF Full
<1> HIDE DEF a, b
<1>3. QED
  BY <1>1, <1>2 DEF Completed

-----------------------------------------------------------------------------
(* One packet on its way.                                                  *)

(* What a host sends passes the checks of the header.                      *)
LEMMA SoundPasses ==
  ASSUME NEW p, Sound(p)
  PROVE  /\ p \in Packets /\ p \in Seq(Byte) /\ p[1] = Len(p)
         /\ p[2] \in Protocols => HeaderOK(p)
         /\ \A other \in Damage(p) : other \in Packets
<1>1. /\ p \in Packets /\ Len(p) >= 10 /\ p[1] = Len(p) /\ check_ics(Header(p)) = 0
  BY DEF Sound
<1>2. p \in Seq(Byte) /\ Len(p) \in Nat
  BY <1>1, PartTypes
<1>3. Len(p) > IpHdr
  BY <1>1, <1>2 DEF IpHdr
<1>4. \A other \in Damage(p) : other \in Packets
  BY <1>1, <1>3, DamageIs
<1>5. QED
  BY <1>1, <1>2, <1>3, <1>4 DEF HeaderOK

(* What verifies for the host passes the checks of the data.               *)
LEMMA DataPasses ==
  ASSUME NEW p \in Packets, check_ics(Summed(p[2], p)) = 0
  PROVE  DataOK(p)
<1>1. IPPROTO_ICMP # IPPROTO_UDP
  BY DEF IPPROTO_ICMP, IPPROTO_UDP
<1>2. CASE p[2] = IPPROTO_UDP
  <2>1. check_ics(Pseudo(p) \o Data(p)) = 0
    BY <1>1, <1>2 DEF Summed
  <2>2. Data(p) \in Seq(Byte)
    BY PartTypes
  <2>3. ip_checksum2(Pseudo(p), Data(p)) = 0
    BY <2>1, <2>2, PseudoSum
  <2>4. QED
    BY <1>1, <1>2, <2>3 DEF DataOK
<1>3. CASE p[2] = IPPROTO_ICMP
  <2>1. check_ics(Data(p)) = 0
    BY <1>3 DEF Summed
  <2>2. QED
    BY <1>1, <1>3, <2>1 DEF DataOK
<1>4. CASE p[2] # IPPROTO_UDP /\ p[2] # IPPROTO_ICMP
  BY <1>4 DEF DataOK
<1>5. QED
  BY <1>2, <1>3, <1>4

ToServer(packet, row) ==
  Full(packet[2], my_ip_addr, server, row.lte_port, server_port, SubSeq(packet, 11, Len(packet)))

ToClient(packet, row) ==
  Full(packet[2], server, row.client, server_port, row.eth_port, SubSeq(packet, 11, Len(packet)))

(* A packet from Ethernet, as it was sent or damaged.                      *)
LEMMA UpResult ==
  ASSUME lte_tx_ip_pkt \in Buffers,
         NEW row \in pmap,
         NEW proto \in Protocols, NEW data \in Payloads, NEW withSum \in BOOLEAN,
         NEW p, p = FromClient(row, proto, data, withSum),
         NEW other, other = p \/ other \in Damage(p),
         NEW frags \in FramesOf(other), eth_recv_cb(frags)
  PROVE  /\ lte_tx_ip_pkt' \in Buffers /\ UNCHANGED lte_rx_ip_raw_packet
         /\ p \in Seq(Byte) /\ sent' \in Seq(Byte) /\ RowsByClient(p) = {row}
         /\ sent' # << >> => Verifies(sent') /\ Header(sent') = Header(ToServer(p, row))
         /\ other = p /\ Len(p) <= NRF9160_MTU => sent' = ToServer(p, row)
<1>1. /\ row.client \in Byte /\ server \in Byte /\ row.eth_port \in Byte
      /\ server_port \in Byte /\ my_ip_addr \in Byte /\ row.lte_port \in Byte
      /\ data \in Seq(Byte) /\ 10 + Len(data) < B
  BY Constants, RowsAre, PacketAssumption
<1>2. p = Packet(proto, row.client, server, row.eth_port, server_port, data, withSum)
  BY DEF FromClient
<1>3. Sound(p)
  <2>1. Hosted(p, withSum)
    BY <1>1, <1>2, HostPacket
  <2>2. QED
    BY <2>1 DEF Hosted
<1>4. HasFields(p, proto, row.client, server, row.eth_port, server_port, data)
  BY <1>1, <1>2, PacketFields
<1>5. /\ p[2] = proto
      /\ ToServer(p, row) = Full(proto, my_ip_addr, server, row.lte_port, server_port, data)
      /\ RowsByClient(p) = {row}
  <2>1. p[2] = proto /\ SubSeq(p, 11, Len(p)) = data /\ p[5] = row.client /\ p[7] = row.eth_port
    BY <1>4 DEF HasFields
  <2>2. \A r \in pmap : r.client = p[5] /\ r.eth_port = p[7] <=> r = row
    BY <2>1, RowsAre
  <2>3. RowsByClient(p) = {row}
    BY <2>2 DEF RowsByClient
  <2>4. QED
    BY <2>1, <2>3 DEF ToServer
<1>6. /\ p \in Packets /\ p \in Seq(Byte) /\ p[1] = Len(p) /\ Len(p) \in Nat
      /\ HeaderOK(p) /\ other \in Packets
  BY <1>3, <1>5, SoundPasses, PartTypes
<1> DEFINE up(port) == Full(proto, my_ip_addr, server, port, server_port, data)
<1>7. ASSUME NEW w, Gets(w, other), HeaderOK(other), NEW port \in PortsFor(w),
             sent' = ToLte(w, port)
      PROVE  /\ sent' \in Seq(Byte) /\ Verifies(sent') /\ Header(sent') = Header(up(row.lte_port))
             /\ other = p => sent' = up(row.lte_port)
  <2>1. /\ w \in Packets /\ Len(w) = Len(p) /\ \A i \in 1..IpHdr : w[i] = p[i]
        /\ other = p => w = p
    BY <1>3, <1>7, Received
  <2>2. port \in Byte
    BY <1>7, PortsForType
  <2>3. Becoming(w, p, ToLte(w, port), up(port))
    BY <1>1, <1>2, <2>1, <2>2, RewrittenIs
  <2>4. Header(up(port)) = Header(up(row.lte_port))
    BY <1>1, <2>2, HeaderOfFull
  <2>5. w = p => port = row.lte_port
    BY <1>5, <1>7 DEF PortsFor
  <2>6. ToLte(w, port) \in Seq(Byte)
    BY <1>1, <2>1, <2>2, RewrittenType
  <2> HIDE DEF up
  <2>7. QED
    BY <1>7, <2>1, <2>3, <2>4, <2>5, <2>6 DEF Becoming
<1> HIDE DEF up
<1>8. /\ lte_tx_ip_pkt' \in Buffers /\ UNCHANGED lte_rx_ip_raw_packet
      /\ \/ sent' = << >> /\ (other[1] > NRF9160_MTU \/ ~HeaderOK(other))
         \/ \E w : Gets(w, other) /\ HeaderOK(other) /\ UpSends(w)
  BY <1>6, UpStep
<1>9. CASE sent' = << >> /\ (other[1] > NRF9160_MTU \/ ~HeaderOK(other))
  <2>1. ~(other = p /\ Len(p) <= NRF9160_MTU)
    BY <1>6, <1>9, Constants
  <2>2. sent' \in Seq(Byte)
    BY <1>9
  <2>3. QED
    BY <1>5, <1>6, <1>8, <1>9, <2>1, <2>2
<1>10. CASE \E w : Gets(w, other) /\ HeaderOK(other) /\ UpSends(w)
  <2>1. PICK w : Gets(w, other) /\ HeaderOK(other) /\ UpSends(w)
    BY <1>10
  <2>2. CASE \E port \in PortsFor(w) : sent' = ToLte(w, port)
    BY <1>5, <1>6, <1>7, <1>8, <2>1, <2>2 DEF up
  <2>3. CASE RowsByClient(w) = {} /\ sent' = << >>
    <3>1. other = p => w = p
      BY <1>3, <2>1, Received
    <3>2. other # p
      BY <1>5, <2>3, <3>1
    <3>3. sent' \in Seq(Byte)
      BY <2>3
    <3>4. QED
      BY <1>5, <1>6, <1>8, <2>3, <3>2, <3>3
  <2>4. QED
    BY <2>1, <2>2, <2>3 DEF UpSends
<1>11. QED
  BY <1>8, <1>9, <1>10

(* A packet from LTE, as it was sent or damaged.                           *)
LEMMA DownResult ==
  ASSUME lte_rx_ip_raw_packet \in Buffers,
         NEW row \in pmap,
         NEW proto \in Protocols, NEW data \in Payloads, NEW withSum \in SumChoices(proto),
         NEW p, p = FromServer(row, proto, data, withSum),
         NEW other, other = p \/ other \in Damage(p), eth_tx_thread(other)
  PROVE  /\ lte_rx_ip_raw_packet' \in Buffers /\ UNCHANGED lte_tx_ip_pkt
         /\ p \in Seq(Byte) /\ sent' \in Seq(Byte) /\ RowsByServer(p) = {row}
         /\ sent' # << >> => Verifies(sent')
         /\ sent' # << >> /\ lte_rx_ip_raw_packet'[8] = p[8]
              => Header(sent') = Header(ToClient(p, row))
         /\ sent' # << >> /\ p[2] # IPPROTO_TCP /\ ~NoSum(p) => sent' = ToClient(p, row)
         /\ other = p /\ Len(p) <= NRF9160_MTU /\ ~NoSum(p) => sent' = ToClient(p, row)
<1>1. /\ my_ip_addr \in Byte /\ server \in Byte /\ server_port \in Byte
      /\ row.lte_port \in Byte /\ row.client \in Byte /\ row.eth_port \in Byte
      /\ data \in Seq(Byte) /\ 10 + Len(data) < B
  BY Constants, RowsAre, PacketAssumption
<1>2. p = Packet(proto, server, my_ip_addr, server_port, row.lte_port, data, withSum)
  BY DEF FromServer
<1>3. withSum \in BOOLEAN /\ (~withSum => proto = IPPROTO_UDP)
  BY DEF SumChoices
<1>4. /\ Sound(p)
      /\ withSum => check_ics(Summed(p[2], p)) = 0
      /\ ~withSum => p[9] = 0 /\ p[10] = 0
  <2>1. Hosted(p, withSum)
    BY <1>1, <1>2, <1>3, HostPacket
  <2>2. QED
    BY <2>1 DEF Hosted
<1>5. HasFields(p, proto, server, my_ip_addr, server_port, row.lte_port, data)
  BY <1>1, <1>2, <1>3, PacketFields
<1>6. /\ p[2] = proto /\ p[6] = my_ip_addr
      /\ p[8] = row.lte_port /\ Len(p) >= 10
      /\ ToClient(p, row) = Full(proto, server, row.client, server_port, row.eth_port, data)
      /\ RowsByServer(p) = {row}
  <2>1. /\ p[2] = proto /\ p[5] = server /\ p[6] = my_ip_addr /\ p[8] = row.lte_port
        /\ SubSeq(p, 11, Len(p)) = data /\ Len(p) = 10 + Len(data)
    BY <1>5 DEF HasFields
  <2>2. Len(p) >= 10
    <3>1. Len(data) \in Nat
      BY <1>1
    <3>2. QED
      BY <2>1, <3>1
  <2>3. \A r \in pmap : p[5] = server /\ r.lte_port = p[8] <=> r = row
    BY <2>1, RowsAre
  <2>4. RowsByServer(p) = {row}
    BY <2>3 DEF RowsByServer
  <2>5. QED
    BY <2>1, <2>2, <2>4 DEF ToClient
<1>7. /\ p \in Packets /\ p \in Seq(Byte) /\ p[1] = Len(p) /\ Len(p) \in Nat
      /\ HeaderOK(p) /\ other \in Packets
  BY <1>4, <1>6, SoundPasses, PartTypes
<1>8. ~NoSum(p) => check_ics(Summed(p[2], p)) = 0
  BY <1>3, <1>4, <1>6 DEF NoSum
<1> DEFINE down(r) == Full(proto, server, r.client, server_port, r.eth_port, data)
<1>9. ASSUME NEW w, Gets(w, other), HeaderOK(other)
      PROVE  /\ w \in Packets /\ Len(w) = Len(p)
             /\ other = p => w = p
             /\ DataOK(w) /\ p[2] # IPPROTO_TCP /\ ~NoSum(p) => w = p
             /\ \A r \in pmap :
                  /\ ToEth(w, r.client, r.eth_port) \in Seq(Byte)
                  /\ Becoming(w, p, ToEth(w, r.client, r.eth_port), down(r))
  <2>1. /\ w \in Packets /\ Len(w) = Len(p) /\ \A i \in 1..IpHdr : w[i] = p[i]
        /\ other = p => w = p
        /\ w = p \/ Differs(w, p, IpHdr + 1, Len(p))
    BY <1>4, <1>9, Received
  <2>2. ASSUME NEW r \in pmap
        PROVE  /\ ToEth(w, r.client, r.eth_port) \in Seq(Byte)
               /\ Becoming(w, p, ToEth(w, r.client, r.eth_port), down(r))
    <3>1. r.client \in Byte /\ r.eth_port \in Byte
      BY RowsAre
    <3>2. ToEth(w, r.client, r.eth_port) \in Seq(Byte)
      BY <2>1, <3>1, RewrittenType
    <3>3. Becoming(w, p, ToEth(w, r.client, r.eth_port), down(r))
      BY <1>1, <1>2, <1>3, <2>1, <3>1, RewrittenIs
    <3>4. QED
      BY <3>2, <3>3
  <2> HIDE DEF down
  <2>3. p[2] # IPPROTO_TCP => p[2] = IPPROTO_ICMP \/ p[2] = IPPROTO_UDP
    BY <1>6 DEF Protocols
  <2>4. DataOK(w) /\ p[2] # IPPROTO_TCP /\ ~NoSum(p) => w = p
    BY <1>7, <1>8, <2>1, <2>3, DataKept
  <2>5. QED
    BY <2>1, <2>2, <2>4
<1>10. ToClient(p, row) = down(row)
  BY <1>6
<1> HIDE DEF down
<1>11. /\ lte_rx_ip_raw_packet' \in Buffers /\ UNCHANGED lte_tx_ip_pkt
       /\ \/ /\ sent' = << >>
             /\ \/ other[1] > NRF9160_MTU \/ other[6] # my_ip_addr \/ ~HeaderOK(other)
                \/ \E w : Gets(w, other) /\ (~DataOK(w) \/ RowsByServer(w) = {})
          \/ \E w : /\ Gets(w, other) /\ HeaderOK(other) /\ DataOK(w)
                    /\ Held(w, lte_rx_ip_raw_packet')
                    /\ \E r \in RowsByServer(w) : sent' = ToEth(w, r.client, r.eth_port)
  BY <1>7, DownStep
<1>12. CASE /\ sent' = << >>
            /\ \/ other[1] > NRF9160_MTU \/ other[6] # my_ip_addr \/ ~HeaderOK(other)
               \/ \E w : Gets(w, other) /\ (~DataOK(w) \/ RowsByServer(w) = {})
  <2>1. ~(other = p /\ Len(p) <= NRF9160_MTU /\ ~NoSum(p))
    <3> SUFFICES ASSUME other = p, Len(p) <= NRF9160_MTU, ~NoSum(p)
                 PROVE  FALSE
      OBVIOUS
    <3>1. ~(other[1] > NRF9160_MTU) /\ other[6] = my_ip_addr /\ HeaderOK(other)
      BY <1>6, <1>7, Constants
    <3>2. PICK w : Gets(w, other) /\ (~DataOK(w) \/ RowsByServer(w) = {})
      BY <1>12, <3>1
    <3>3. w = p
      BY <1>9, <3>1, <3>2
    <3>4. DataOK(p) /\ RowsByServer(p) # {}
      BY <1>6, <1>7, <1>8, DataPasses
    <3>5. QED
      BY <3>2, <3>3, <3>4
  <2>2. sent' \in Seq(Byte)
    BY <1>12
  <2>3. QED
    BY <1>6, <1>7, <1>11, <1>12, <2>1, <2>2
<1>13. CASE \E w : /\ Gets(w, other) /\ HeaderOK(other) /\ DataOK(w)
                   /\ Held(w, lte_rx_ip_raw_packet')
                   /\ \E r \in RowsByServer(w) : sent' = ToEth(w, r.client, r.eth_port)
  <2>1. PICK w : /\ Gets(w, other) /\ HeaderOK(other) /\ DataOK(w)
                 /\ Held(w, lte_rx_ip_raw_packet')
                 /\ \E r \in RowsByServer(w) : sent' = ToEth(w, r.client, r.eth_port)
    BY <1>13
  <2>2. PICK r \in RowsByServer(w) : sent' = ToEth(w, r.client, r.eth_port)
    BY <2>1
  <2>3. r \in pmap /\ r.lte_port = w[8]
    BY <2>2 DEF RowsByServer
  <2>4. sent' \in Seq(Byte) /\ Becoming(w, p, sent', down(r))
    BY <1>9, <2>1, <2>2, <2>3
  <2>5. lte_rx_ip_raw_packet'[8] = p[8] => r = row
    <3>1. 8 \in 1..Len(w)
      BY <1>6, <1>7, <1>9, <2>1
    <3>2. w[8] = lte_rx_ip_raw_packet'[8]
      BY <2>1, <3>1 DEF Held
    <3>3. QED
      BY <1>6, <2>3, <3>2, RowsAre
  <2>6. w = p => r = row
    BY <1>6, <2>3, RowsAre
  <2>7. Verifies(sent')
    BY <2>4 DEF Becoming
  <2>8. lte_rx_ip_raw_packet'[8] = p[8] => Header(sent') = Header(ToClient(p, row))
    BY <1>10, <2>4, <2>5 DEF Becoming
  <2>9. w = p => sent' = ToClient(p, row)
    BY <1>10, <2>4, <2>6 DEF Becoming
  <2>10. /\ other = p => w = p
         /\ p[2] # IPPROTO_TCP /\ ~NoSum(p) => w = p
    BY <1>9, <2>1
  <2>11. QED
    BY <1>6, <1>7, <1>11, <2>4, <2>7, <2>8, <2>9, <2>10
<1>14. QED
  BY <1>11, <1>12, <1>13

-----------------------------------------------------------------------------
(* The theorems.                                                           *)

Delivered == ForwardedWhole /\ SentVerifies /\ DamageContained

(* A step of eth_recv_cb makes the properties true of its packet.          *)
LEMMA UpKeeps ==
  ASSUME TypeOK, FromEthernet
  PROVE  TypeOK' /\ Delivered'
<1>0. PICK row \in pmap, proto \in Protocols, data \in Payloads : \E withSum \in SumChoices(proto) :
        LET p == FromClient(row, proto, data, withSum)
        IN  /\ way' = "up" /\ meant' = p
            /\ \/ damaged' = FALSE /\ \E frags \in FramesOf(p) : eth_recv_cb(frags)
               \/ /\ damaged' = TRUE
                  /\ \E other \in Damage(p) : \E frags \in FramesOf(other) : eth_recv_cb(frags)
  BY Zenon DEF FromEthernet, Arrives
<1>1. PICK withSum \in SumChoices(proto) :
        LET p == FromClient(row, proto, data, withSum)
        IN  /\ way' = "up" /\ meant' = p
            /\ \/ damaged' = FALSE /\ \E frags \in FramesOf(p) : eth_recv_cb(frags)
               \/ /\ damaged' = TRUE
                  /\ \E other \in Damage(p) : \E frags \in FramesOf(other) : eth_recv_cb(frags)
  BY <1>0, Zenon
<1> DEFINE p == FromClient(row, proto, data, withSum)
<1> HIDE DEF p
<1>2. /\ way' = "up" /\ meant' = p /\ damaged' \in BOOLEAN
      /\ \E other, frags : /\ other = p \/ other \in Damage(p)
                           /\ ~damaged' => other = p
                           /\ frags \in FramesOf(other) /\ eth_recv_cb(frags)
  BY <1>1 DEF p
<1>3. PICK other, frags : /\ other = p \/ other \in Damage(p)
                          /\ ~damaged' => other = p
                          /\ frags \in FramesOf(other) /\ eth_recv_cb(frags)
  BY <1>2
<1>4. /\ lte_tx_ip_pkt' \in Buffers /\ UNCHANGED lte_rx_ip_raw_packet
      /\ p \in Seq(Byte) /\ sent' \in Seq(Byte) /\ RowsByClient(p) = {row}
      /\ sent' # << >> => Verifies(sent') /\ Header(sent') = Header(ToServer(p, row))
      /\ other = p /\ Len(p) <= NRF9160_MTU => sent' = ToServer(p, row)
  <2>1. lte_tx_ip_pkt \in Buffers
    BY DEF TypeOK
  <2>2. withSum \in BOOLEAN
    BY DEF SumChoices
  <2>3. p = FromClient(row, proto, data, withSum)
    BY DEF p
  <2>4. QED
    BY <1>3, <2>1, <2>2, <2>3, UpResult
<1>5. Translated(meant)' = ToServer(p, row)
  <2>1. Translated(meant)' =
          ToServer(p, CHOOSE r \in IF way' = "up" THEN RowsByClient(p) ELSE RowsByServer(p) : TRUE)
    BY <1>2 DEF Translated, ToServer, Full
  <2>2. (CHOOSE r \in IF way' = "up" THEN RowsByClient(p) ELSE RowsByServer(p) : TRUE) = row
    BY <1>2, <1>4
  <2>3. QED
    BY <2>1, <2>2
<1>6. TypeOK'
  BY <1>2, <1>4 DEF TypeOK
<1>7. SentVerifies'
  BY <1>4 DEF SentVerifies
<1>8. ForwardedWhole'
  BY <1>2, <1>3, <1>4, <1>5 DEF ForwardedWhole
<1>9. DamageContained'
  BY <1>2, <1>4, <1>5 DEF DamageContained
<1>10. QED
  BY <1>6, <1>7, <1>8, <1>9 DEF Delivered

(* A step of eth_tx_thread does.                                           *)
LEMMA DownKeeps ==
  ASSUME TypeOK, FromLte
  PROVE  TypeOK' /\ Delivered'
<1>0. PICK row \in pmap, proto \in Protocols, data \in Payloads : \E withSum \in SumChoices(proto) :
        LET p == FromServer(row, proto, data, withSum)
        IN  /\ way' = "down" /\ meant' = p
            /\ \/ damaged' = FALSE /\ eth_tx_thread(p)
               \/ damaged' = TRUE /\ \E other \in Damage(p) : eth_tx_thread(other)
  BY Zenon DEF FromLte, Arrives
<1>1. PICK withSum \in SumChoices(proto) :
        LET p == FromServer(row, proto, data, withSum)
        IN  /\ way' = "down" /\ meant' = p
            /\ \/ damaged' = FALSE /\ eth_tx_thread(p)
               \/ damaged' = TRUE /\ \E other \in Damage(p) : eth_tx_thread(other)
  BY <1>0, Zenon
<1> DEFINE p == FromServer(row, proto, data, withSum)
<1> HIDE DEF p
<1>2. /\ way' = "down" /\ meant' = p /\ damaged' \in BOOLEAN
      /\ \E other : /\ other = p \/ other \in Damage(p)
                    /\ ~damaged' => other = p
                    /\ eth_tx_thread(other)
  BY <1>1 DEF p
<1>3. PICK other : /\ other = p \/ other \in Damage(p)
                   /\ ~damaged' => other = p
                   /\ eth_tx_thread(other)
  BY <1>2
<1>4. /\ lte_rx_ip_raw_packet' \in Buffers /\ UNCHANGED lte_tx_ip_pkt
      /\ p \in Seq(Byte) /\ sent' \in Seq(Byte) /\ RowsByServer(p) = {row}
      /\ sent' # << >> => Verifies(sent')
      /\ sent' # << >> /\ lte_rx_ip_raw_packet'[8] = p[8]
           => Header(sent') = Header(ToClient(p, row))
      /\ sent' # << >> /\ p[2] # IPPROTO_TCP /\ ~NoSum(p) => sent' = ToClient(p, row)
      /\ other = p /\ Len(p) <= NRF9160_MTU /\ ~NoSum(p) => sent' = ToClient(p, row)
  <2>1. lte_rx_ip_raw_packet \in Buffers
    BY DEF TypeOK
  <2>2. p = FromServer(row, proto, data, withSum)
    BY DEF p
  <2>3. QED
    BY <1>3, <2>1, <2>2, DownResult
<1>5. Translated(meant)' = ToClient(p, row)
  <2>1. Translated(meant)' =
          ToClient(p, CHOOSE r \in IF way' = "up" THEN RowsByClient(p) ELSE RowsByServer(p) : TRUE)
    BY <1>2 DEF Translated, ToClient, Full
  <2>2. (CHOOSE r \in IF way' = "up" THEN RowsByClient(p) ELSE RowsByServer(p) : TRUE) = row
    BY <1>2, <1>4
  <2>3. QED
    BY <2>1, <2>2
<1>6. TypeOK'
  BY <1>2, <1>4 DEF TypeOK
<1>7. SentVerifies'
  BY <1>4 DEF SentVerifies
<1>8. ForwardedWhole'
  BY <1>2, <1>3, <1>4, <1>5 DEF ForwardedWhole
<1>9. DamageContained'
  BY <1>2, <1>4, <1>5 DEF DamageContained
<1>10. QED
  BY <1>6, <1>7, <1>8, <1>9 DEF Delivered

(* The properties hold together; each step makes them true from the types. *)
LEMMA Holds == Spec => [](TypeOK /\ Delivered)
<1>1. Init => TypeOK /\ Delivered
  <2> SUFFICES ASSUME Init PROVE TypeOK /\ Delivered
    OBVIOUS
  <2>1. TypeOK
    <3>1. [i \in 1..NRF9160_MTU |-> 0] \in Buffers
      BY Constants DEF Buffers
    <3>2. << >> \in Seq(Byte)
      OBVIOUS
    <3>3. QED
      BY <3>1, <3>2 DEF Init, TypeOK
  <2>2. meant = << >> /\ sent = << >>
    BY DEF Init
  <2>3. Delivered
    BY <2>2, Zenon DEF Delivered, ForwardedWhole, SentVerifies, DamageContained
  <2>4. QED
    BY <2>1, <2>3
<1>2. (TypeOK /\ Delivered) /\ [Next]_vars => (TypeOK /\ Delivered)'
  <2> SUFFICES ASSUME TypeOK, Delivered, [Next]_vars
               PROVE  TypeOK' /\ Delivered'
    OBVIOUS
  <2>1. CASE FromEthernet
    BY <2>1, UpKeeps
  <2>2. CASE FromLte
    BY <2>2, DownKeeps
  <2>3. CASE UNCHANGED vars
    <3>1. TypeOK'
      BY <2>3 DEF TypeOK, vars
    <3>2. Translated(meant)' = Translated(meant)
      BY <2>3 DEF Translated, vars
    <3>3. Delivered'
      BY <2>3, <3>2 DEF Delivered, ForwardedWhole, SentVerifies, DamageContained, vars
    <3>4. QED
      BY <3>1, <3>3
  <2>4. QED
    BY <2>1, <2>2, <2>3 DEF Next
<1>3. QED
  BY <1>1, <1>2, PTL DEF Spec

(* Whatever arrives, the buffers hold bytes and keep their length: nothing *)
(* is copied behind their end, however short or long the packet says it is *)
(* and however it is cut into fragments.                                   *)
THEOREM TypesRight == Spec => []TypeOK
<1>1. QED
  BY Holds, PTL

(* Both checksum functions agree with RFC 1071 and with each other on      *)
(* every part of the buffer, whatever the traffic left in it.              *)
THEOREM SumsRight == Spec => []SumsAgree
<1>1. TypeOK => SumsAgree
  <2> SUFFICES ASSUME TypeOK PROVE SumsAgree
    OBVIOUS
  <2>1. /\ lte_tx_ip_pkt \in Seq(Byte) /\ Len(lte_tx_ip_pkt) = NRF9160_MTU
        /\ NRF9160_MTU \in Nat
    BY BufferIsSeq, Constants DEF TypeOK
  <2>2. ASSUME NEW length \in 0..NRF9160_MTU,
               NEW bytes, bytes = SubSeq(lte_tx_ip_pkt, 1, length)
        PROVE  /\ Swapped(check_ics(bytes)) = RfcSum(bytes)
               /\ \A half \in 0..(length \div 2) :
                    ip_checksum2(SubSeq(bytes, 1, 2 * half), SubSeq(bytes, 2 * half + 1, length))
                      = check_ics(bytes)
    <3>1. bytes \in Seq(Byte) /\ Len(bytes) = length
      BY <2>1, <2>2, PrefixType
    <3>2. Swapped(check_ics(bytes)) = RfcSum(bytes)
      BY <3>1, ChecksumIsRfc
    <3>3. ASSUME NEW half \in 0..(length \div 2)
          PROVE  ip_checksum2(SubSeq(bytes, 1, 2 * half), SubSeq(bytes, 2 * half + 1, length))
                   = check_ics(bytes)
      <4> DEFINE m == 2 * half
      <4>1. m \in 0..length /\ m % 2 = 0
        BY <2>1, <3>3
      <4> HIDE DEF m
      <4>2. m \in 0..Len(bytes)
        BY <3>1, <4>1
      <4>3. /\ SubSeq(bytes, 1, m) \in Seq(Byte) /\ Len(SubSeq(bytes, 1, m)) = m
            /\ SubSeq(bytes, m + 1, Len(bytes)) \in Seq(Byte)
            /\ bytes = SubSeq(bytes, 1, m) \o SubSeq(bytes, m + 1, Len(bytes))
        BY <3>1, <4>2, Split
      <4>4. ip_checksum2(SubSeq(bytes, 1, m), SubSeq(bytes, m + 1, Len(bytes))) = check_ics(bytes)
        BY <4>1, <4>3, IpChecksum
      <4>5. QED
        BY <3>1, <4>4 DEF m
    <3>4. QED
      BY <3>2, <3>3
  <2>3. QED
    BY <2>2 DEF SumsAgree, Swapped
<1>2. QED
  BY <1>1, Holds, PTL

(* What comes undamaged goes on with the other address and port and not a  *)
(* byte changed besides, over every cutting into fragments, but for the    *)
(* packets that the property names.                                        *)
THEOREM WholePacketsForwarded == Spec => []ForwardedWhole
<1>1. Delivered => ForwardedWhole
  BY DEF Delivered
<1>2. QED
  BY <1>1, Holds, PTL

(* Every packet that leaves has the checksums that its receiver expects.   *)
THEOREM ChecksumsSentRight == Spec => []SentVerifies
<1>1. Delivered => SentVerifies
  BY DEF Delivered
<1>2. QED
  BY <1>1, Holds, PTL

(* No byte that is damaged, and no byte that is missing, changes to which  *)
(* host a packet goes, but for the destination port of one from LTE; nor,  *)
(* from LTE, that or anything else in an echo or in a UDP datagram with a  *)
(* checksum.                                                               *)
THEOREM DamageStopped == Spec => []DamageContained
<1>1. Delivered => DamageContained
  BY DEF Delivered
<1>2. QED
  BY <1>1, Holds, PTL
===============================================================================
