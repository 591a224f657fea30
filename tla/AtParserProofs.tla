---------------------------- MODULE AtParserProofs ----------------------------
(***************************************************************************)
(* Theorems about AtParser, for every number, every text and response of   *)
(* another form, and every bound on the fields.                            *)
(*                                                                         *)
(* The loops of the parser, of atoi and of the printing are recursive      *)
(* functions; each is first shown to do what its text says, by the         *)
(* induction of DataInduction.  Then:                                      *)
(*   - atoi reads back what is printed (NumbersReadBack);                  *)
(*   - no text takes the parser out of the characters it holds, and behind *)
(*     a field parse_buf is empty, or, while only empty fields were read,  *)
(*     as it was before (TextLeaves);                                      *)
(*   - a field, and the character behind it, adds what the modem wrote     *)
(*     (FieldParsed), except that a number may differ if parse_buf was not *)
(*     empty; so do the fields of a response one after the other           *)
(*     (ResponseParsed), and what follows its end of line is not read      *)
(*     (DoneStays);                                                        *)
(*   - ReadsBack follows with an invariant that says why parse_buf may not *)
(*     be empty (LeftoverDoubted) and that a response that is parsed once  *)
(*     more is still in buf (ResponseHeld).                                *)
(***************************************************************************)
EXTENDS AtParser, DataInduction

-----------------------------------------------------------------------------
(* The loop of the parser, one character after the other.                  *)

(* f holds the parser before each character, and at the end.               *)
Reads(f, p, text) ==
  /\ f[0] = p
  /\ \A k \in 1..Len(text) : f[k] = __at_res_parse(f[k - 1], text[k])

LEMMA ParsedReads ==
  ASSUME NEW p, NEW text \in Seq(Char)
  PROVE  \E f : Reads(f, p, text) /\ Parsed(p, text) = f[Len(text)]
<1> DEFINE n == Len(text)
           Loop(f, m) == [k \in 0..m |-> IF k = 0 THEN p ELSE __at_res_parse(f[k - 1], text[k])]
           S == {m \in Nat : \E f : f = Loop(f, m)}
<1>1. 0 \in S
  <2> DEFINE f == [k \in 0..0 |-> p]
  <2>1. f = Loop(f, 0)
    OBVIOUS
  <2>2. QED
    BY <2>1
<1>2. ASSUME NEW m \in Nat, m \in S PROVE m + 1 \in S
  <2>1. PICK f : f = Loop(f, m)
    BY <1>2
  <2> DEFINE next == __at_res_parse(f[m], text[m + 1])
             g == [k \in 0..(m + 1) |-> IF k <= m THEN f[k] ELSE next]
  <2>2. \A k \in 0..m : f[k] = IF k = 0 THEN p ELSE __at_res_parse(f[k - 1], text[k])
    BY <2>1
  <2>3. ASSUME NEW k \in 0..(m + 1)
        PROVE  g[k] = IF k = 0 THEN p ELSE __at_res_parse(g[k - 1], text[k])
    <3>1. CASE k <= m
      <4>1. k \in 0..m /\ g[k] = f[k] /\ (k # 0 => g[k - 1] = f[k - 1])
        BY <3>1
      <4>2. QED
        BY <2>2, <4>1
    <3>2. CASE k = m + 1
      <4>1. k # 0 /\ g[k] = next /\ g[k - 1] = f[m]
        BY <3>2
      <4>2. QED
        BY <3>2, <4>1
    <3>3. QED
      BY <3>1, <3>2
  <2> HIDE DEF next
  <2>4. g = Loop(g, m + 1)
    BY <2>3
  <2> HIDE DEF g
  <2>5. \E h : h = Loop(h, m + 1)
    BY <2>4
  <2>6. m + 1 \in Nat
    OBVIOUS
  <2> HIDE DEF Loop
  <2>7. QED
    BY <2>5, <2>6
<1>3. Nat \subseteq S
  <2> HIDE DEF S
  <2>1. QED
    BY <1>1, <1>2, Induction
<1>4. n \in Nat
  OBVIOUS
<1> HIDE DEF n
<1>5. \E f : f = Loop(f, n)
  BY <1>3, <1>4
<1> DEFINE after == CHOOSE f : f = Loop(f, n)
<1>6. after = Loop(after, n)
  BY <1>5
<1>7. Parsed(p, text) = after[n]
  BY DEF Parsed, n
<1> HIDE DEF after
<1>8. Reads(after, p, text)
  <2>1. \A k \in 0..n : after[k] = IF k = 0 THEN p ELSE __at_res_parse(after[k - 1], text[k])
    BY <1>6
  <2>2. 0 \in 0..n /\ \A k \in 1..n : k \in 0..n /\ k # 0
    BY <1>4
  <2>3. QED
    BY <2>1, <2>2 DEF Reads, n
<1>9. QED
  BY <1>7, <1>8 DEF n

LEMMA ParsedEmpty ==
  ASSUME NEW p
  PROVE  Parsed(p, << >>) = p
<1>1. << >> \in Seq(Char) /\ Len(<< >>) = 0
  OBVIOUS
<1>2. PICK f : Reads(f, p, << >>) /\ Parsed(p, << >>) = f[Len(<< >>)]
  BY <1>1, ParsedReads
<1>3. f[0] = p
  BY <1>2 DEF Reads
<1>4. QED
  BY <1>1, <1>2, <1>3

LEMMA ParsedAppend ==
  ASSUME NEW p, NEW s \in Seq(Char), NEW c \in Char
  PROVE  Parsed(p, Append(s, c)) = __at_res_parse(Parsed(p, s), c)
<1> DEFINE n == Len(s)
           t == Append(s, c)
<1>1. /\ n \in Nat /\ t \in Seq(Char) /\ Len(t) = n + 1 /\ t[n + 1] = c
      /\ \A k \in 1..n : t[k] = s[k]
  BY AppendProperties
<1> HIDE DEF t
<1>2. PICK f : Reads(f, p, s) /\ Parsed(p, s) = f[n]
  BY ParsedReads
<1>3. PICK g : Reads(g, p, t) /\ Parsed(p, t) = g[n + 1]
  BY <1>1, ParsedReads
<1>4. \A k \in 1..(n + 1) : g[k] = __at_res_parse(g[k - 1], t[k])
  BY <1>1, <1>3 DEF Reads
<1>5. InStep(f, g, n)
  <2>1. \A k \in 1..n : f[k] = __at_res_parse(f[k - 1], s[k])
    BY <1>2 DEF Reads
  <2>2. \A k \in 1..n : k \in 1..(n + 1) /\ t[k] = s[k]
    BY <1>1
  <2>3. f[0] = g[0]
    BY <1>2, <1>3 DEF Reads
  <2> HIDE DEF n
  <2>4. QED
    BY <1>4, <2>1, <2>2, <2>3 DEF InStep
<1>6. f[n] = g[n]
  BY <1>1, <1>5, SameTurns
<1>7. n + 1 \in 1..(n + 1) /\ (n + 1) - 1 = n
  BY <1>1
<1> HIDE DEF n
<1>8. g[n + 1] = __at_res_parse(f[n], c)
  BY <1>1, <1>4, <1>6, <1>7
<1>9. QED
  BY <1>2, <1>3, <1>8 DEF t

LEMMA ParsedOne ==
  ASSUME NEW p, NEW c \in Char
  PROVE  Parsed(p, <<c>>) = __at_res_parse(p, c)
<1>1. << >> \in Seq(Char) /\ Append(<< >>, c) = <<c>>
  OBVIOUS
<1>2. Parsed(p, Append(<< >>, c)) = __at_res_parse(Parsed(p, << >>), c)
  BY <1>1, ParsedAppend
<1>3. QED
  BY <1>1, <1>2, ParsedEmpty

LEMMA Associate ==
  ASSUME NEW s \in Seq(Char), NEW t \in Seq(Char), NEW u \in Seq(Char)
  PROVE  (s \o t) \o u = s \o (t \o u)
BY ONLY s \in Seq(Char), t \in Seq(Char), u \in Seq(Char), ConcatAssociative

LEMMA AppendOver ==
  ASSUME NEW s \in Seq(Char), NEW t \in Seq(Char), NEW c \in Char
  PROVE  Append(s \o t, c) = s \o Append(t, c) /\ (s \o t) \o <<c>> = s \o Append(t, c)
<1> DEFINE one == <<c>>
<1>1. one \in Seq(Char) /\ s \o t \in Seq(Char)
  OBVIOUS
<1>2. Append(s \o t, c) = (s \o t) \o one /\ Append(t, c) = t \o one
  BY <1>1, AppendIsConcat
<1> HIDE DEF one
<1>3. (s \o t) \o one = s \o (t \o one)
  BY ONLY <1>1, Associate, s \in Seq(Char), t \in Seq(Char)
<1>4. QED
  BY ONLY <1>2, <1>3 DEF one

LEMMA ParsedConcat ==
  ASSUME NEW p, NEW s \in Seq(Char), NEW t \in Seq(Char)
  PROVE  Parsed(p, s \o t) = Parsed(Parsed(p, s), t)
<1> DEFINE Right(u) == Parsed(p, s \o u) = Parsed(Parsed(p, s), u)
           S == {u \in Seq(Char) : Right(u)}
<1>1. << >> \in S
  <2>1. s \o << >> = s
    OBVIOUS
  <2>2. QED
    BY <2>1, ParsedEmpty
<1>2. ASSUME NEW u \in Seq(Char), NEW c \in Char, Right(u) PROVE Right(Append(u, c))
  <2>1. s \o Append(u, c) = Append(s \o u, c) /\ s \o u \in Seq(Char)
    OBVIOUS
  <2>2. Parsed(p, Append(s \o u, c)) = __at_res_parse(Parsed(p, s \o u), c)
    BY <2>1, ParsedAppend
  <2>3. Parsed(Parsed(p, s), Append(u, c)) = __at_res_parse(Parsed(Parsed(p, s), u), c)
    BY ParsedAppend
  <2>4. QED
    BY <1>2, <2>1, <2>2, <2>3
<1>3. \A u \in Seq(Char), c \in Char : u \in S => Append(u, c) \in S
  <2>1. \A u \in Seq(Char), c \in Char : Append(u, c) \in Seq(Char)
    OBVIOUS
  <2> HIDE DEF Right
  <2>2. QED
    BY <1>2, <2>1
<1>4. Seq(Char) \subseteq S
  <2> HIDE DEF S
  <2>1. QED
    BY <1>1, <1>3, SequenceInduction
<1>5. QED
  BY <1>4

-----------------------------------------------------------------------------
(* Numbers.                                                                *)

Digit(c) == (CHOOSE n \in 1..10 : Numerals[n] = c) - 1

LEMMA DigitsAre ==
  /\ \A n \in 0..9 : Numerals[n + 1] \in Digits /\ Digit(Numerals[n + 1]) = n
  /\ \A c \in Digits : c \in Char /\ Digit(c) \in 0..9
  /\ Digits \cap Signs = {}
<1>1. /\ \A m, n \in 1..10 : Numerals[m] = Numerals[n] => m = n
      /\ \A n \in 1..10 : Numerals[n] \in Char /\ Numerals[n] \notin Signs
  <2>1. \A n \in 1..10 : n = 1 \/ n = 2 \/ n = 3 \/ n = 4 \/ n = 5 \/ n = 6 \/ n = 7
                           \/ n = 8 \/ n = 9 \/ n = 10
    OBVIOUS
  <2>2. /\ Numerals[1] = "0" /\ Numerals[2] = "1" /\ Numerals[3] = "2" /\ Numerals[4] = "3"
        /\ Numerals[5] = "4" /\ Numerals[6] = "5" /\ Numerals[7] = "6" /\ Numerals[8] = "7"
        /\ Numerals[9] = "8" /\ Numerals[10] = "9"
    BY DEF Numerals
  <2>3. \A m, n \in 1..10 : Numerals[m] = Numerals[n] => m = n
    BY <2>1, <2>2
  <2>4. \A n \in 1..10 : Numerals[n] \in Char
    BY ResponseAssumption DEF Digits
  <2>5. \A n \in 1..10 : Numerals[n] \notin Signs
    BY <2>1, <2>2 DEF Signs
  <2>6. QED
    BY <2>3, <2>4, <2>5
<1>2. \A n \in 1..10 : (CHOOSE m \in 1..10 : Numerals[m] = Numerals[n]) = n
  <2> SUFFICES ASSUME NEW n \in 1..10
               PROVE  (CHOOSE m \in 1..10 : Numerals[m] = Numerals[n]) = n
    OBVIOUS
  <2> DEFINE x == CHOOSE m \in 1..10 : Numerals[m] = Numerals[n]
  <2>1. x \in 1..10 /\ Numerals[x] = Numerals[n]
    OBVIOUS
  <2> HIDE DEF x
  <2>2. x = n
    BY <1>1, <2>1
  <2>3. QED
    BY <2>2 DEF x
<1>3. \A n \in 0..9 : Numerals[n + 1] \in Digits /\ Digit(Numerals[n + 1]) = n
  <2> SUFFICES ASSUME NEW n \in 0..9
               PROVE  Numerals[n + 1] \in Digits /\ Digit(Numerals[n + 1]) = n
    OBVIOUS
  <2>1. n + 1 \in 1..10
    OBVIOUS
  <2>2. (CHOOSE m \in 1..10 : Numerals[m] = Numerals[n + 1]) = n + 1
    BY <1>2, <2>1
  <2>3. Digit(Numerals[n + 1]) = (n + 1) - 1
    BY <2>2 DEF Digit
  <2>4. Numerals[n + 1] \in Digits
    BY <2>1 DEF Digits
  <2>5. QED
    BY <2>3, <2>4
<1>4. \A c \in Digits : c \in Char /\ Digit(c) \in 0..9 /\ c \notin Signs
  <2> SUFFICES ASSUME NEW n \in 1..10
               PROVE  /\ Numerals[n] \in Char /\ Digit(Numerals[n]) \in 0..9
                      /\ Numerals[n] \notin Signs
    BY DEF Digits
  <2>1. Digit(Numerals[n]) = n - 1
    BY <1>2 DEF Digit
  <2>2. QED
    BY <1>1, <2>1
<1>5. QED
  BY <1>3, <1>4

(* f holds the value of the digits before each, and at the end of all.     *)
Counts(f, digits) ==
  /\ f \in [0..Len(digits) -> Nat] /\ f[0] = 0
  /\ \A k \in 1..Len(digits) : f[k] = 10 * f[k - 1] + Digit(digits[k])

LEMMA ValueCounts ==
  ASSUME NEW digits \in Seq(Digits)
  PROVE  \E f : Counts(f, digits) /\ Value(digits) = f[Len(digits)]
<1> DEFINE n == Len(digits)
           step == [k \in Nat |-> [a \in Nat |->
                      IF k \in 1..n THEN 10 * a + Digit(digits[k]) ELSE a]]
<1>1. n \in Nat /\ \A k \in 1..n : Digit(digits[k]) \in Nat
  <2>1. n \in Nat /\ \A k \in 1..n : digits[k] \in Digits
    OBVIOUS
  <2>2. \A c \in Digits : Digit(c) \in Nat
    <3>1. \A c \in Digits : Digit(c) \in 0..9
      BY DigitsAre
    <3>2. \A k \in 0..9 : k \in Nat
      OBVIOUS
    <3>3. QED
      BY <3>1, <3>2
  <2> HIDE DEF n
  <2>3. QED
    BY <2>1, <2>2
<1> HIDE DEF n
<1>2. step \in [Nat -> [Nat -> Nat]]
  BY <1>1
<1>3. PICK f \in [0..n -> Nat] : Runs(f, step, n)
  <2> HIDE DEF step
  <2>1. QED
    BY <1>1, <1>2, LoopRuns
<1>4. f[0] = 0 /\ \A k \in 1..n : f[k] = 10 * f[k - 1] + Digit(digits[k])
  <2>1. f[0] = 0 /\ \A k \in 1..n : f[k] = step[k][f[k - 1]]
    BY <1>3 DEF Runs
  <2>2. ASSUME NEW k \in 1..n PROVE step[k][f[k - 1]] = 10 * f[k - 1] + Digit(digits[k])
    <3>1. k \in Nat /\ f[k - 1] \in Nat
      BY <1>1
    <3>2. QED
      BY <3>1
  <2> HIDE DEF step
  <2>3. QED
    BY <2>1, <2>2
<1> HIDE DEF step
<1> DEFINE Loop(g) == [k \in 0..n |-> IF k = 0 THEN 0 ELSE 10 * g[k - 1] + Digit(digits[k])]
           value == CHOOSE g : g = Loop(g)
<1>5. f = Loop(f)
  BY <1>4
<1>6. value = Loop(value)
  BY <1>5
<1>7. Value(digits) = value[n]
  BY DEF Value, Digit, n
<1> HIDE DEF value
<1>8. \A k \in 0..n : value[k] = IF k = 0 THEN 0 ELSE 10 * value[k - 1] + Digit(digits[k])
  BY <1>6
<1>9. InStep(f, value, n)
  <2>1. \A k \in 1..n : k \in 0..n /\ k # 0
    BY <1>1
  <2>2. 0 \in 0..n
    BY <1>1
  <2>3. f[0] = value[0]
    BY <1>4, <1>8, <2>2
  <2>4. QED
    BY <1>4, <1>8, <2>1, <2>3 DEF InStep
<1>10. value[n] = f[n]
  BY <1>1, <1>9, SameTurns
<1>11. QED
  BY <1>4, <1>7, <1>10 DEF Counts, n

LEMMA ValueType ==
  ASSUME NEW digits \in Seq(Digits)
  PROVE  Value(digits) \in Nat
<1>1. PICK f : Counts(f, digits) /\ Value(digits) = f[Len(digits)]
  BY ValueCounts
<1>2. QED
  BY <1>1 DEF Counts

LEMMA ValueEmpty == Value(<< >>) = 0
<1>1. << >> \in Seq(Digits) /\ Len(<< >>) = 0
  OBVIOUS
<1>2. QED
  BY <1>1, ValueCounts DEF Counts

LEMMA ValueAppend ==
  ASSUME NEW s \in Seq(Digits), NEW c \in Digits
  PROVE  Value(Append(s, c)) = 10 * Value(s) + Digit(c)
<1> DEFINE n == Len(s)
           t == Append(s, c)
<1>1. /\ n \in Nat /\ t \in Seq(Digits) /\ Len(t) = n + 1 /\ t[n + 1] = c
      /\ \A k \in 1..n : t[k] = s[k]
  BY AppendProperties
<1> HIDE DEF t
<1>2. PICK f : Counts(f, s) /\ Value(s) = f[n]
  BY ValueCounts
<1>3. PICK g : Counts(g, t) /\ Value(t) = g[n + 1]
  BY <1>1, ValueCounts
<1>4. g[0] = 0 /\ \A k \in 1..(n + 1) : g[k] = 10 * g[k - 1] + Digit(t[k])
  BY <1>1, <1>3 DEF Counts
<1>5. InStep(f, g, n)
  <2>1. f[0] = 0 /\ \A k \in 1..n : f[k] = 10 * f[k - 1] + Digit(s[k])
    BY <1>2 DEF Counts
  <2>2. \A k \in 1..n : k \in 1..(n + 1) /\ t[k] = s[k]
    BY <1>1
  <2> HIDE DEF n
  <2>3. QED
    BY <1>4, <2>1, <2>2 DEF InStep
<1>6. f[n] = g[n]
  BY <1>1, <1>5, SameTurns
<1>7. n + 1 \in 1..(n + 1) /\ (n + 1) - 1 = n
  BY <1>1
<1> HIDE DEF n
<1>8. g[n + 1] = 10 * f[n] + Digit(c)
  BY <1>1, <1>4, <1>6, <1>7
<1>9. QED
  BY <1>2, <1>3, <1>8 DEF t

(* Decimal is written digit by digit, those of a tenth first.              *)
LEMMA DecimalIs ==
  ASSUME NEW n \in Nat
  PROVE  Decimal[n] = IF n < 10 THEN <<Numerals[n + 1]>>
                      ELSE Append(Decimal[n \div 10], Numerals[(n % 10) + 1])
<1> DEFINE Step(f, k) == IF k < 10 THEN <<Numerals[k + 1]>>
                         ELSE Append(f[k \div 10], Numerals[(k % 10) + 1])
           A == [Nat -> Seq(Char)]
           base == [k \in Nat |-> <<Numerals[1]>>]
           step == [m \in Nat |-> [f \in A |-> [f EXCEPT ![m] = Step(f, m)]]]
<1>1. ASSUME NEW f \in A, NEW k \in Nat PROVE Step(f, k) \in Seq(Char)
  <2>1. CASE k < 10
    <3>1. k \in 0..9
      BY <2>1
    <3>2. Numerals[k + 1] \in Char
      BY <3>1, DigitsAre
    <3>3. QED
      BY <2>1, <3>2
  <2>2. CASE ~(k < 10)
    <3>1. k % 10 \in 0..9 /\ k \div 10 \in Nat
      BY DivMod
    <3>2. Numerals[(k % 10) + 1] \in Char
      BY <3>1, DigitsAre
    <3>3. f[k \div 10] \in Seq(Char)
      BY <3>1
    <3>4. QED
      BY <2>2, <3>2, <3>3
  <2>3. QED
    BY <2>1, <2>2
<1>2. base \in A
  <2>1. 0 \in 0..9 /\ 0 + 1 = 1
    OBVIOUS
  <2>2. Numerals[1] \in Char
    BY <2>1, DigitsAre
  <2>3. QED
    BY <2>2
<1>3. step \in [Nat -> [A -> A]]
  <2> HIDE DEF Step
  <2>1. QED
    BY <1>1
<1>4. \A m \in Nat, f \in A : step[m][f] = [f EXCEPT ![m] = Step(f, m)]
  OBVIOUS
<1> HIDE DEF step, base
<1>5. PICK h \in [Nat -> A] :
             \A m \in Nat : h[m] = IF m = 0 THEN base ELSE step[m][h[m - 1]]
  <2> HIDE DEF A
  <2>1. QED
    BY <1>2, <1>3, Recursion
<1>6. /\ h[0] = base
      /\ \A m \in Nat : m > 0 => m - 1 \in Nat /\ h[m - 1] \in A
                                 /\ h[m] = [h[m - 1] EXCEPT ![m] = Step(h[m - 1], m)]
  <2> HIDE DEF A, Step
  <2>1. \A m \in Nat : m > 0 => m # 0 /\ m - 1 \in Nat
    OBVIOUS
  <2>2. \A m \in Nat : m > 0 => h[m - 1] \in A
    BY <1>5, <2>1
  <2>3. QED
    BY <1>4, <1>5, <2>1, <2>2
<1> DEFINE g == [k \in Nat |-> h[k][k]]
           Agree == {m \in Nat : \A k \in 0..m : h[m][k] = g[k]}
<1>7. Nat \subseteq Agree
  <2>1. 0 \in Agree
    <3>1. \A k \in 0..0 : k = 0
      OBVIOUS
    <3>2. g[0] = h[0][0]
      OBVIOUS
    <3> HIDE DEF g
    <3>3. QED
      BY <3>1, <3>2
  <2>2. ASSUME NEW m \in Nat, m \in Agree PROVE m + 1 \in Agree
    <3>1. m + 1 \in Nat /\ m + 1 > 0 /\ (m + 1) - 1 = m
      OBVIOUS
    <3>2. h[m] \in A /\ h[m + 1] = [h[m] EXCEPT ![m + 1] = Step(h[m], m + 1)]
      BY <1>6, <3>1
    <3>3. \A k \in 0..m : k \in Nat /\ k # m + 1 /\ h[m][k] = g[k]
      BY <2>2
    <3>4. \A k \in 0..m : h[m + 1][k] = g[k]
      <4> HIDE DEF Step, g
      <4>1. QED
        BY <3>2, <3>3
    <3>5. h[m + 1][m + 1] = g[m + 1]
      BY <3>1
    <3>6. \A k \in 0..(m + 1) : k \in 0..m \/ k = m + 1
      OBVIOUS
    <3> HIDE DEF g
    <3>7. QED
      BY <3>1, <3>4, <3>5, <3>6
  <2> HIDE DEF Agree
  <2>3. QED
    BY <2>1, <2>2, Induction
<1>8. ASSUME NEW m \in Nat PROVE g[m] = Step(g, m)
  <2>1. CASE m < 10
    <3>1. CASE m = 0
      <4>1. h[0][0] = <<Numerals[1]>> /\ 0 + 1 = 1
        BY <1>6 DEF base
      <4>2. g[m] = <<Numerals[m + 1]>>
        BY <3>1, <4>1
      <4> HIDE DEF g
      <4>3. QED
        BY <2>1, <4>2
    <3>2. CASE m > 0
      <4>1. h[m - 1] \in A /\ h[m] = [h[m - 1] EXCEPT ![m] = Step(h[m - 1], m)]
        BY <1>6, <3>2
      <4>2. Step(h[m - 1], m) = <<Numerals[m + 1]>> /\ Step(g, m) = <<Numerals[m + 1]>>
        BY <2>1
      <4> HIDE DEF Step
      <4>3. h[m][m] = Step(h[m - 1], m)
        BY <4>1
      <4>4. QED
        BY <4>2, <4>3
    <3>3. QED
      BY <3>1, <3>2
  <2>2. CASE ~(m < 10)
    <3>1. m > 0 /\ m - 1 \in Nat /\ m \div 10 \in 0..(m - 1)
      BY <2>2
    <3>2. h[m - 1] \in A /\ h[m] = [h[m - 1] EXCEPT ![m] = Step(h[m - 1], m)]
      BY <1>6, <3>1
    <3>3. h[m - 1][m \div 10] = g[m \div 10]
      BY <1>7, <3>1
    <3> HIDE DEF g
    <3>4. Step(h[m - 1], m) = Step(g, m)
      BY <3>3
    <3> HIDE DEF Step
    <3>5. h[m][m] = Step(h[m - 1], m)
      BY <3>2
    <3>6. QED
      BY <3>4, <3>5 DEF g
  <2>3. QED
    BY <2>1, <2>2
<1> HIDE DEF g
<1> DEFINE Fun(f) == [k \in Nat |-> Step(f, k)]
           dec == CHOOSE f : f = Fun(f)
<1>9. g = Fun(g)
  <2>1. g = [k \in Nat |-> g[k]]
    BY DEF g
  <2> HIDE DEF Step
  <2>2. QED
    BY <1>8, <2>1
<1>10. dec = Fun(dec)
  BY <1>9
<1>11. Decimal = dec
  BY DEF Decimal
<1> HIDE DEF dec
<1>12. QED
  BY <1>10, <1>11

LEMMA DecimalDigits ==
  ASSUME NEW n \in Nat
  PROVE  Decimal[n] \in Seq(Digits) /\ Len(Decimal[n]) > 0 /\ Value(Decimal[n]) = n
<1> DEFINE Right(m) == Decimal[m] \in Seq(Digits) /\ Len(Decimal[m]) > 0 /\ Value(Decimal[m]) = m
           Wrong == {m \in Nat : ~Right(m)}
<1>1. CASE Wrong = {}
  BY <1>1
<1>2. CASE Wrong # {}
  <2>1. PICK m \in Wrong : \A k \in Wrong : m <= k
    <3> HIDE DEF Right
    <3>1. Wrong \in SUBSET Nat
      OBVIOUS
    <3> HIDE DEF Wrong
    <3>2. QED
      BY <1>2, <3>1, LeastMember
  <2>2. m \in Nat /\ ~Right(m)
    OBVIOUS
  <2>3. CASE m < 10
    <3> DEFINE c == Numerals[m + 1]
    <3>1. c \in Digits /\ Digit(c) = m
      BY <2>2, <2>3, DigitsAre
    <3>2. Decimal[m] = <<c>>
      BY <2>2, <2>3, DecimalIs
    <3> HIDE DEF c
    <3>3. << >> \in Seq(Digits) /\ <<c>> = Append(<< >>, c) /\ <<c>> \in Seq(Digits) /\ Len(<<c>>) = 1
      BY <3>1
    <3>4. Value(<<c>>) = 10 * 0 + Digit(c)
      BY <3>1, <3>3, ValueEmpty, ValueAppend
    <3>5. QED
      BY <2>2, <3>1, <3>2, <3>3, <3>4
  <2>4. CASE ~(m < 10)
    <3> DEFINE t == m \div 10
               r == m % 10
               c == Numerals[r + 1]
    <3>1. t \in Nat /\ r \in 0..9 /\ m = 10 * t + r
      BY <2>2, DivMod
    <3>2. t < m
      BY <2>2, <2>4
    <3>3. Decimal[m] = Append(Decimal[t], c)
      BY <2>2, <2>4, DecimalIs
    <3>4. c \in Digits /\ Digit(c) = r
      BY <3>1, DigitsAre
    <3> HIDE DEF t, r, c
    <3>5. Right(t)
      <4> HIDE DEF Right
      <4>1. t \in Wrong => m <= t
        BY <2>1
      <4>2. QED
        BY <2>2, <3>1, <3>2, <4>1
    <3> DEFINE d == Decimal[t]
    <3>6. d \in Seq(Digits) /\ Value(d) = t
      BY <3>5
    <3> HIDE DEF d
    <3>7. Append(d, c) \in Seq(Digits) /\ Len(Append(d, c)) > 0
      BY <3>4, <3>6
    <3>8. Value(Append(d, c)) = m
      BY <3>1, <3>4, <3>6, ValueAppend
    <3>9. QED
      BY <2>2, <3>3, <3>7, <3>8 DEF d
  <2>5. QED
    BY <2>3, <2>4
<1>3. QED
  BY <1>1, <1>2

LEMMA Narrower ==
  ASSUME NEW A, NEW C, NEW s \in Seq(A), \A i \in 1..Len(s) : s[i] \in C
  PROVE  s \in Seq(C)
<1> DEFINE n == Len(s)
<1>1. n \in Nat /\ s = [i \in 1..n |-> s[i]]
  OBVIOUS
<1>2. \A i \in 1..n : s[i] \in C
  OBVIOUS
<1> HIDE DEF n
<1>3. [i \in 1..n |-> s[i]] \in [1..n -> C]
  BY <1>2
<1>4. [i \in 1..n |-> s[i]] \in Seq(C)
  BY <1>1, <1>3, FunctionIsSeq
<1>5. QED
  BY <1>1, <1>4

LEMMA WiderDigits ==
  ASSUME NEW s \in Seq(Digits)
  PROVE  s \in Seq(Char)
<1>1. \A i \in 1..Len(s) : s[i] \in Char
  BY DigitsAre
<1>2. QED
  BY <1>1, Narrower

(* The digits that atoi takes, and where it stops.                         *)
Leading(s) ==
  LET other == SelectInSeq(s, LAMBDA c : c \notin Digits)
  IN  IF other = 0 THEN s ELSE SubSeq(s, 1, other - 1)

LEMMA LeadingIs ==
  ASSUME NEW s \in Seq(Char)
  PROVE  /\ Leading(s) \in Seq(Digits)
         /\ s \in Seq(Digits) => Leading(s) = s
<1> DEFINE Others == {i \in 1..Len(s) : s[i] \notin Digits}
           other  == SelectInSeq(s, LAMBDA c : c \notin Digits)
<1>1. Len(s) \in Nat /\ Others \in SUBSET Nat /\ \A i \in Others : i > 0
  OBVIOUS
<1>2. other = IF Others # {} THEN Min(Others) ELSE 0
  BY DEF SelectInSeq
<1>3. Leading(s) = IF other = 0 THEN s ELSE SubSeq(s, 1, other - 1)
  BY DEF Leading
<1> HIDE DEF other
<1>4. CASE Others = {}
  <2>1. \A i \in 1..Len(s) : s[i] \in Digits
    BY <1>4
  <2>2. Leading(s) = s
    BY <1>2, <1>3, <1>4
  <2>3. QED
    BY <2>1, <2>2, Narrower
<1>5. CASE Others # {}
  <2>1. \E m \in Others : \A i \in Others : m <= i
    <3> HIDE DEF Others
    <3>1. QED
      BY <1>1, <1>5, LeastMember
  <2>2. Min(Others) \in Others /\ \A i \in Others : Min(Others) <= i
    BY <2>1 DEF Min
  <2>3. other \in Others /\ \A i \in Others : other <= i
    BY <1>2, <1>5, <2>2
  <2>4. other \in 1..Len(s) /\ s[other] \notin Digits
    BY <2>3
  <2>5. other - 1 \in 0..Len(s) /\ \A i \in 1..(other - 1) : i \in 1..Len(s) /\ i \notin Others
    BY <1>1, <2>3, <2>4
  <2> DEFINE t == SubSeq(s, 1, other - 1)
  <2>6. t \in Seq(Char) /\ Len(t) = other - 1 /\ \A i \in 1..(other - 1) : t[i] = s[i]
    BY <2>5, PrefixType
  <2> HIDE DEF t
  <2>7. \A i \in 1..Len(t) : t[i] \in Digits
    BY <2>5, <2>6
  <2>8. t \in Seq(Digits)
    BY <2>6, <2>7, Narrower
  <2>9. s \notin Seq(Digits)
    BY <2>4
  <2>10. Leading(s) = t
    BY <1>1, <1>3, <2>4 DEF t
  <2>11. QED
    BY <2>8, <2>9, <2>10
<1>6. QED
  BY <1>4, <1>5

LEMMA AtoiIs ==
  ASSUME NEW chars
  PROVE  LET signed   == chars # << >> /\ chars[1] \in Signs
             unsigned == IF signed THEN Tail(chars) ELSE chars
             abs      == Value(Leading(unsigned))
         IN  atoi(chars) = IF signed /\ chars[1] = "-" THEN -abs ELSE abs
BY DEF atoi, Leading

LEMMA AtoiType ==
  ASSUME NEW chars \in Seq(Char)
  PROVE  atoi(chars) \in Int
<1> DEFINE signed   == chars # << >> /\ chars[1] \in Signs
           unsigned == IF signed THEN Tail(chars) ELSE chars
           abs      == Value(Leading(unsigned))
<1>1. unsigned \in Seq(Char)
  <2>1. chars # << >> => Tail(chars) \in Seq(Char)
    OBVIOUS
  <2>2. QED
    BY <2>1
<1>2. atoi(chars) = IF signed /\ chars[1] = "-" THEN -abs ELSE abs
  BY AtoiIs
<1> HIDE DEF unsigned
<1>3. abs \in Nat
  BY <1>1, LeadingIs, ValueType
<1> HIDE DEF abs, signed
<1>4. QED
  BY <1>2, <1>3

(* atoi reads what the modem prints.                                       *)
LEMMA AtoiDigits ==
  ASSUME NEW s \in Seq(Digits), Len(s) > 0
  PROVE  atoi(s) = Value(s) /\ atoi(<<"-">> \o s) = -Value(s)
<1>1. s \in Seq(Char) /\ Leading(s) = s /\ Value(s) \in Nat
  BY WiderDigits, LeadingIs, ValueType
<1>2. s[1] \notin Signs
  <2>1. s[1] \in Digits
    OBVIOUS
  <2>2. QED
    BY <2>1, DigitsAre
<1>3. atoi(s) = Value(s)
  BY <1>1, <1>2, AtoiIs
<1> DEFINE t == <<"-">> \o s
<1>4. t # << >> /\ t[1] = "-" /\ Tail(t) = s
  OBVIOUS
<1> HIDE DEF t
<1>5. t[1] \in Signs
  BY <1>4 DEF Signs
<1>6. atoi(t) = -Value(s)
  BY <1>1, <1>4, <1>5, AtoiIs
<1>7. QED
  BY <1>3, <1>6 DEF t

(* Every number that a response may hold is read back by atoi.             *)
THEOREM NumbersReadBack ==
  ASSUME NEW n \in Int
  PROVE  atoi(Printed(n)) = n
<1>1. CASE n < 0
  <2>1. -n \in Nat /\ -(-n) = n
    BY <1>1
  <2> DEFINE s == Decimal[-n]
  <2>2. s \in Seq(Digits) /\ Len(s) > 0 /\ Value(s) = -n
    BY <2>1, DecimalDigits
  <2> HIDE DEF s
  <2>3. atoi(<<"-">> \o s) = n
    BY <2>1, <2>2, AtoiDigits
  <2>4. QED
    BY <1>1, <2>3 DEF Printed, s
<1>2. CASE ~(n < 0)
  <2>1. n \in Nat
    BY <1>2
  <2> DEFINE s == Decimal[n]
  <2>2. s \in Seq(Digits) /\ Len(s) > 0 /\ Value(s) = n
    BY <2>1, DecimalDigits
  <2> HIDE DEF s
  <2>3. atoi(s) = n
    BY <2>2, AtoiDigits
  <2>4. QED
    BY <1>2, <2>3 DEF Printed, s
<1>3. QED
  BY <1>1, <1>2

-----------------------------------------------------------------------------
(* What one character does to a parser.                                    *)

AnyField == {NoField} \cup {IntField(n) : n \in Int}
                      \cup {StrField(s, n) : s \in Seq(Char), n \in Nat}

Parsers == [state : Int, idx : Nat, chars : Seq(Char), list : Seq(AnyField)]

(* idx never leaves the characters that parse_buf holds.                   *)
Sound(p) == p \in Parsers /\ p.idx <= Len(p.chars)

LEMMA Characters ==
  /\ Digits \subseteq Char /\ Signs \subseteq Char
  /\ "," \in Char /\ "\"" \in Char /\ "r" \in Char /\ "zero" \in Char
  /\ "X" \in Char /\ ":" \in Char /\ " " \in Char
BY ResponseAssumption

LEMMA DigitsDiffer ==
  ASSUME NEW c \in Digits
  PROVE  c \notin {",", "\"", "r", "zero", " "}
<1>1. \A n \in 1..10 : n = 1 \/ n = 2 \/ n = 3 \/ n = 4 \/ n = 5 \/ n = 6 \/ n = 7
                       \/ n = 8 \/ n = 9 \/ n = 10
  OBVIOUS
<1>2. /\ Numerals[1] = "0" /\ Numerals[2] = "1" /\ Numerals[3] = "2" /\ Numerals[4] = "3"
      /\ Numerals[5] = "4" /\ Numerals[6] = "5" /\ Numerals[7] = "6" /\ Numerals[8] = "7"
      /\ Numerals[9] = "8" /\ Numerals[10] = "9"
  BY DEF Numerals
<1>3. \A n \in 1..10 : Numerals[n] \notin {",", "\"", "r", "zero", " "}
  BY <1>1, <1>2
<1>4. PICK n \in 1..10 : c = Numerals[n]
  BY DEF Digits
<1>5. QED
  BY <1>3, <1>4

LEMMA ParserFields ==
  ASSUME NEW p, Sound(p)
  PROVE  /\ p \in Parsers /\ p.state \in Int /\ p.idx \in Nat /\ p.chars \in Seq(Char)
         /\ p.list \in Seq(AnyField) /\ p.idx <= Len(p.chars) /\ Len(p.chars) \in Nat
BY DEF Sound, Parsers

LEMMA ToIs ==
  ASSUME NEW p, Sound(p), NEW state \in Int
  PROVE  /\ Sound(To(p, state)) /\ To(p, state).state = state
         /\ To(p, state).idx = p.idx /\ To(p, state).chars = p.chars
         /\ To(p, state).list = p.list
BY DEF Sound, Parsers, To

LEMMA FieldIs ==
  ASSUME NEW p, Sound(p), NEW field \in AnyField, NEW state \in Int
  PROVE  /\ Sound(Field(p, field, state)) /\ Field(p, field, state).state = state
         /\ Field(p, field, state).idx = 0 /\ Field(p, field, state).chars = << >>
         /\ Field(p, field, state).list = Append(p.list, field)
<1> DEFINE q == Field(p, field, state)
<1>1. p.list \in Seq(AnyField)
  BY ParserFields
<1>2. Append(p.list, field) \in Seq(AnyField)
  BY <1>1
<1>3. << >> \in Seq(Char) /\ Len(<< >>) = 0
  OBVIOUS
<1>4. p \in Parsers
  BY ParserFields
<1>5. q = [p EXCEPT !.list = Append(p.list, field), !.idx = 0, !.chars = << >>, !.state = state]
  BY DEF Field
<1>6. /\ q \in Parsers /\ q.state = state /\ q.idx = 0 /\ q.chars = << >>
      /\ q.list = Append(p.list, field)
  <2> DEFINE more == Append(p.list, field)
  <2> HIDE DEF more, q
  <2>1. QED
    BY <1>2, <1>3, <1>4, <1>5 DEF Parsers, more
<1> HIDE DEF q
<1>7. QED
  BY <1>3, <1>6 DEF Sound, q

LEMMA CollectIs ==
  ASSUME NEW p, Sound(p), NEW c \in Char
  PROVE  /\ Sound(Collect(p, c)) /\ Collect(p, c).state = p.state
         /\ Collect(p, c).idx = p.idx + 1 /\ Collect(p, c).list = p.list
         /\ Collect(p, c).chars[p.idx + 1] = c
         /\ \A i \in 1..p.idx : Collect(p, c).chars[i] = p.chars[i]
         /\ Len(Collect(p, c).chars) = IF p.idx < Len(p.chars) THEN Len(p.chars)
                                                              ELSE p.idx + 1
<1> DEFINE m == p.idx
           s == p.chars
           t == IF m < Len(s) THEN [s EXCEPT ![m + 1] = c] ELSE Append(s, c)
           q == Collect(p, c)
<1>1. p \in Parsers /\ m \in Nat /\ s \in Seq(Char) /\ m <= Len(s) /\ Len(s) \in Nat
  BY ParserFields
<1>2. /\ t \in Seq(Char) /\ t[m + 1] = c /\ (\A i \in 1..m : t[i] = s[i])
      /\ Len(t) = IF m < Len(s) THEN Len(s) ELSE m + 1
  <2> HIDE DEF m, s
  <2>1. CASE m < Len(s)
    <3>1. m + 1 \in 1..Len(s) /\ t = [s EXCEPT ![m + 1] = c]
      BY <1>1, <2>1
    <3>2. QED
      BY <1>1, <2>1, <3>1
  <2>2. CASE ~(m < Len(s))
    <3>1. m = Len(s) /\ t = Append(s, c)
      BY <1>1, <2>2
    <3>2. QED
      BY <1>1, <2>2, <3>1, AppendProperties
  <2>3. QED
    BY <2>1, <2>2
<1>3. q = [p EXCEPT !.idx = m + 1, !.chars = t]
  BY DEF Collect
<1> HIDE DEF t
<1>4. /\ q \in Parsers /\ q.state = p.state /\ q.idx = m + 1 /\ q.list = p.list /\ q.chars = t
  <2> DEFINE k == m + 1
  <2>1. p \in Parsers /\ k \in Nat /\ t \in Seq(Char) /\ q = [p EXCEPT !.idx = k, !.chars = t]
    BY <1>1, <1>2, <1>3
  <2> HIDE DEF q, k
  <2>2. q \in Parsers /\ q.state = p.state /\ q.idx = k /\ q.list = p.list /\ q.chars = t
    BY ONLY <2>1 DEF Parsers
  <2>3. QED
    BY <2>2 DEF k
<1>5. q.idx <= Len(q.chars)
  <2> HIDE DEF q, m, s
  <2>1. QED
    BY <1>1, <1>2, <1>4
<1> HIDE DEF q
<1>6. QED
  BY <1>2, <1>4, <1>5 DEF Sound, q

(* The types of what is read.                                              *)
TextField(p) ==
  StrField(SubSeq(p.chars, 1, IF p.idx < Len(p.chars) THEN p.idx + 1 ELSE p.idx), p.idx)

LEMMA FieldTypes ==
  ASSUME NEW p, Sound(p)
  PROVE  /\ NoField \in AnyField /\ IntField(atoi(p.chars)) \in AnyField
         /\ TextField(p) \in AnyField
<1>1. p.idx \in Nat /\ p.chars \in Seq(Char) /\ p.idx <= Len(p.chars) /\ Len(p.chars) \in Nat
  BY ParserFields
<1>2. atoi(p.chars) \in Int
  BY <1>1, AtoiType
<1> DEFINE m == IF p.idx < Len(p.chars) THEN p.idx + 1 ELSE p.idx
<1>3. m \in 0..Len(p.chars)
  BY <1>1
<1> HIDE DEF m
<1>4. SubSeq(p.chars, 1, m) \in Seq(Char)
  BY <1>1, <1>3, PrefixType
<1>5. NoField \in AnyField
  BY DEF AnyField
<1>6. IntField(atoi(p.chars)) \in AnyField
  BY <1>2 DEF AnyField
<1>7. TextField(p) \in AnyField
  <2>1. \A s \in Seq(Char), n \in Nat : StrField(s, n) \in AnyField
    BY DEF AnyField
  <2>2. StrField(SubSeq(p.chars, 1, m), p.idx) \in AnyField
    BY <1>1, <1>4, <2>1
  <2>3. QED
    BY <2>2 DEF TextField, m
<1>8. QED
  BY <1>5, <1>6, <1>7

(* The places of the parser between fields, and what parse_buf holds       *)
(* there: nothing, or as long as only empty fields were read what was left *)
(* in it.                                                                  *)
Leftover(p, left) ==
  p.state \in {0, 3, 4, Done} =>
    \/ p.chars = << >>
    \/ p.chars = left /\ \A i \in DOMAIN p.list : p.list[i] = NoField

LEMMA StepLeaves ==
  ASSUME NEW p, Sound(p), NEW c \in Char, NEW left, Leftover(p, left)
  PROVE  Sound(__at_res_parse(p, c)) /\ Leftover(__at_res_parse(p, c), left)
<1> DEFINE q == __at_res_parse(p, c)
<1>1. /\ \A state \in Int : Sound(To(p, state)) /\ To(p, state).state = state
                            /\ To(p, state).chars = p.chars /\ To(p, state).list = p.list
      /\ {0, 1, 2, 3, 4, Done, Failed} \subseteq Int /\ Failed \notin {0, 3, 4, Done}
      /\ 1 # Done /\ 2 # Done
  BY ToIs DEF Done, Failed
<1>2. ASSUME NEW state \in Int, state \in {0, 3, 4, Done} => p.state \in {0, 3, 4, Done}
      PROVE  Sound(To(p, state)) /\ Leftover(To(p, state), left)
  BY <1>1, <1>2 DEF Leftover
<1>3. ASSUME NEW field \in AnyField, NEW state \in Int
      PROVE  Sound(Field(p, field, state)) /\ Leftover(Field(p, field, state), left)
  BY FieldIs DEF Leftover
<1>4. CASE p.state = 0
  <2>1. q = To(p, IF c = " " THEN 3 ELSE IF c = "zero" THEN Done ELSE 0)
    BY <1>4 DEF __at_res_parse
  <2>2. (IF c = " " THEN 3 ELSE IF c = "zero" THEN Done ELSE 0) \in Int
    BY <1>1
  <2>3. QED
    BY <1>2, <1>4, <2>1, <2>2
<1>5. CASE p.state = 1
  <2>1. q = InInt(p, c)
    BY <1>5 DEF __at_res_parse
  <2>2. \/ q = To(p, Failed)
        \/ q = Field(p, IntField(atoi(p.chars)), IF c = "," THEN 3 ELSE Done)
        \/ q = Collect(p, c)
    BY <2>1 DEF InInt
  <2>3. CASE q = To(p, Failed)
    BY <1>1, <1>2, <2>3
  <2>4. CASE q = Field(p, IntField(atoi(p.chars)), IF c = "," THEN 3 ELSE Done)
    <3>1. (IF c = "," THEN 3 ELSE Done) \in Int
      BY <1>1
    <3>2. QED
      BY <1>3, <2>4, <3>1, FieldTypes
  <2>5. CASE q = Collect(p, c)
    BY <1>1, <1>5, <2>5, CollectIs DEF Leftover, Done
  <2>6. QED
    BY <2>2, <2>3, <2>4, <2>5
<1>6. CASE p.state = 2
  <2>1. q = InStr(p, c)
    BY <1>6 DEF __at_res_parse
  <2>2. \/ q = To(p, Failed)
        \/ q = Field(p, TextField(p), 4)
        \/ q = Collect(p, c)
    BY <2>1 DEF InStr, TextField
  <2>3. CASE q = To(p, Failed)
    BY <1>1, <1>2, <2>3
  <2>4. CASE q = Field(p, TextField(p), 4)
    BY <1>1, <1>3, <2>4, FieldTypes
  <2>5. CASE q = Collect(p, c)
    BY <1>1, <1>6, <2>5, CollectIs DEF Leftover, Done
  <2>6. QED
    BY <2>2, <2>3, <2>4, <2>5
<1>7. CASE p.state = 3
  <2>1. q = Ready(p, c)
    BY <1>7 DEF __at_res_parse
  <2>2. \/ \E state \in {Done, 2, Failed} : q = To(p, state)
        \/ q = To(Collect(p, c), 1)
        \/ q = [p EXCEPT !.list = Append(@, NoField)]
    BY <2>1 DEF Ready
  <2>3. CASE \E state \in {Done, 2, Failed} : q = To(p, state)
    <3>1. PICK state \in {Done, 2, Failed} : q = To(p, state)
      BY <2>3
    <3>2. state \in Int /\ (state \in {0, 3, 4, Done} => p.state \in {0, 3, 4, Done})
      BY <1>1, <1>7
    <3>3. QED
      BY <1>2, <3>1, <3>2
  <2>4. CASE q = To(Collect(p, c), 1)
    <3>1. Sound(Collect(p, c)) /\ 1 \in Int
      BY CollectIs
    <3>2. Sound(q) /\ q.state = 1
      BY ONLY <2>4, <3>1, ToIs
    <3>3. QED
      BY <3>2 DEF Leftover, Done
  <2>5. CASE q = [p EXCEPT !.list = Append(@, NoField)]
    <3> DEFINE list == p.list
               more == Append(list, NoField)
    <3>1. p \in Parsers /\ list \in Seq(AnyField) /\ NoField \in AnyField
      BY ParserFields, FieldTypes
    <3>2. /\ more \in Seq(AnyField)
          /\ (\A i \in DOMAIN list : list[i] = NoField) => \A i \in DOMAIN more : more[i] = NoField
      <4> HIDE DEF list
      <4>1. QED
        BY <3>1, AppendProperties
    <3>3. q = [p EXCEPT !.list = more]
      BY <2>5
    <3> HIDE DEF more, q
    <3>4. /\ q \in Parsers /\ q.state = p.state /\ q.idx = p.idx /\ q.chars = p.chars
          /\ q.list = more
      BY <3>1, <3>2, <3>3 DEF Parsers
    <3>5. Sound(q)
      BY <3>4 DEF Sound
    <3>6. Leftover(q, left)
      BY <1>7, <3>2, <3>4 DEF Leftover
    <3>7. QED
      BY <3>5, <3>6 DEF q
  <2>6. QED
    BY <2>2, <2>3, <2>4, <2>5
<1>8. CASE p.state = 4
  <2>1. q = AfterStr(p, c)
    BY <1>8 DEF __at_res_parse
  <2>2. \E state \in {3, Done, Failed} : q = To(p, state)
    BY <2>1 DEF AfterStr
  <2>3. QED
    BY <1>1, <1>2, <1>8, <2>2
<1>9. CASE p.state \notin {0, 1, 2, 3, 4}
  BY <1>9 DEF __at_res_parse
<1>10. QED
  BY <1>4, <1>5, <1>6, <1>7, <1>8, <1>9

LEMMA TextLeaves ==
  ASSUME NEW p, Sound(p), NEW text \in Seq(Char), NEW left, Leftover(p, left)
  PROVE  Sound(Parsed(p, text)) /\ Leftover(Parsed(p, text), left)
<1> DEFINE Right(t) == Sound(Parsed(p, t)) /\ Leftover(Parsed(p, t), left)
           S == {t \in Seq(Char) : Right(t)}
<1>1. << >> \in S
  <2>1. << >> \in Seq(Char)
    OBVIOUS
  <2>2. QED
    BY <2>1, ParsedEmpty
<1>2. ASSUME NEW t \in Seq(Char), NEW c \in Char, t \in S PROVE Append(t, c) \in S
  <2>1. Append(t, c) \in Seq(Char) /\ Right(t)
    BY <1>2
  <2>2. Parsed(p, Append(t, c)) = __at_res_parse(Parsed(p, t), c)
    BY ParsedAppend
  <2>3. QED
    BY <2>1, <2>2, StepLeaves
<1>3. Seq(Char) \subseteq S
  <2> HIDE DEF S
  <2>1. QED
    BY <1>1, <1>2, SequenceInduction
<1>4. QED
  BY <1>3

-----------------------------------------------------------------------------
(* What a field does.  q collects s since p, in state.                     *)
Collects(q, p, state, s) ==
  /\ Sound(q) /\ q.state = state /\ q.list = p.list /\ q.idx = Len(s)
  /\ \A i \in 1..Len(s) : q.chars[i] = s[i]
  /\ p.chars = << >> => Len(q.chars) = Len(s)

LEMMA CollectsNext ==
  ASSUME NEW p, NEW q, NEW state, NEW s \in Seq(Char), NEW c \in Char,
         Collects(q, p, state, s)
  PROVE  Collects(Collect(q, c), p, state, Append(s, c))
<1> DEFINE n == Len(s)
           t == Append(s, c)
           r == Collect(q, c)
<1>1. /\ n \in Nat /\ t \in Seq(Char) /\ Len(t) = n + 1 /\ t[n + 1] = c
      /\ \A i \in 1..n : t[i] = s[i]
  BY AppendProperties
<1> HIDE DEF t
<1>2. /\ Sound(q) /\ q.state = state /\ q.list = p.list /\ q.idx = n
      /\ \A i \in 1..n : q.chars[i] = s[i]
      /\ p.chars = << >> => Len(q.chars) = n
  BY DEF Collects
<1>3. /\ Sound(r) /\ r.state = q.state /\ r.idx = n + 1 /\ r.list = q.list
      /\ r.chars[n + 1] = c
      /\ \A i \in 1..n : r.chars[i] = q.chars[i]
      /\ Len(r.chars) = IF n < Len(q.chars) THEN Len(q.chars) ELSE n + 1
  <2> HIDE DEF n, r
  <2>1. /\ Sound(r) /\ r.state = q.state /\ r.idx = q.idx + 1 /\ r.list = q.list
        /\ r.chars[q.idx + 1] = c
        /\ \A i \in 1..q.idx : r.chars[i] = q.chars[i]
        /\ Len(r.chars) = IF q.idx < Len(q.chars) THEN Len(q.chars) ELSE q.idx + 1
    BY ONLY <1>2, c \in Char, CollectIs DEF r
  <2>2. QED
    BY <1>2, <2>1
<1> HIDE DEF r, n
<1>4. \A i \in 1..(n + 1) : i \in 1..n \/ i = n + 1
  BY <1>1
<1>5. \A i \in 1..(n + 1) : r.chars[i] = t[i]
  BY <1>1, <1>2, <1>3, <1>4
<1>6. p.chars = << >> => Len(r.chars) = n + 1
  BY <1>1, <1>2, <1>3
<1>7. Collects(r, p, state, t)
  BY <1>1, <1>2, <1>3, <1>5, <1>6 DEF Collects
<1>8. QED
  BY <1>7 DEF r, t

(* What is collected is what parse_buf holds, if nothing was left in it.   *)
LEMMA CollectsAll ==
  ASSUME NEW p, NEW q, NEW state, NEW s \in Seq(Char), Collects(q, p, state, s),
         p.chars = << >>
  PROVE  q.chars = s
<1>1. Sound(q) /\ Len(q.chars) = Len(s) /\ \A i \in 1..Len(s) : q.chars[i] = s[i]
  BY DEF Collects
<1>2. q.chars \in Seq(Char)
  BY <1>1, ParserFields
<1>3. QED
  BY <1>1, <1>2, SeqEqual

LEMMA Single ==
  ASSUME NEW x \in Char
  PROVE  /\ <<x>> \in Seq(Char) /\ Len(<<x>>) = 1 /\ <<x>>[1] = x /\ <<x>> \o << >> = <<x>>
         /\ \A s \in Seq(Char) : <<x>> \o s \in Seq(Char)
         /\ \A s \in Seq(Char), c \in Char : <<x>> \o Append(s, c) = Append(<<x>> \o s, c)
<1> DEFINE one == <<x>>
<1>1. one \in Seq(Char) /\ Len(one) = 1 /\ one[1] = x /\ one \o << >> = one
  OBVIOUS
<1> HIDE DEF one
<1>2. \A s \in Seq(Char), c \in Char : one \o Append(s, c) = Append(one \o s, c)
  BY <1>1
<1>3. \A s \in Seq(Char) : one \o s \in Seq(Char)
  BY <1>1
<1>4. QED
  BY <1>1, <1>2, <1>3 DEF one

LEMMA NumberOpens ==
  ASSUME NEW p, Sound(p), p.state = 3, p.idx = 0, NEW x \in Digits \cup Signs
  PROVE  x \in Char /\ Collects(__at_res_parse(p, x), p, 1, <<x>>)
<1>1. x \in Char
  BY Characters
<1>2. x \notin {"zero", "r"} /\ x # "," /\ x # "\""
  <2>1. CASE x \in Digits
    BY <2>1, DigitsDiffer
  <2>2. CASE x \in Signs
    BY <2>2 DEF Signs
  <2>3. QED
    BY <2>1, <2>2
<1> DEFINE q == Collect(p, x)
           r == To(q, 1)
           s == <<x>>
<1>3. __at_res_parse(p, x) = r
  <2>1. __at_res_parse(p, x) = Ready(p, x)
    BY DEF __at_res_parse
  <2> HIDE DEF q
  <2>2. Ready(p, x) = r
    BY <1>2 DEF Ready, q
  <2>3. QED
    BY <2>1, <2>2
<1>4. Len(s) = 1 /\ s[1] = x /\ (p.chars = << >> => Len(p.chars) = 0)
  OBVIOUS
<1> HIDE DEF s
<1>5. /\ Sound(q) /\ q.idx = p.idx + 1 /\ q.list = p.list /\ q.chars[p.idx + 1] = x
      /\ Len(q.chars) = IF p.idx < Len(p.chars) THEN Len(p.chars) ELSE p.idx + 1
  BY ONLY Sound(p), <1>1, CollectIs
<1> HIDE DEF q
<1>6. Sound(r) /\ r.state = 1 /\ r.idx = q.idx /\ r.chars = q.chars /\ r.list = q.list
  <2>1. 1 \in Int
    OBVIOUS
  <2>2. QED
    BY ONLY <2>1, <1>5, ToIs
<1> HIDE DEF r
<1>7. r.idx = 1 /\ r.chars[1] = x /\ (p.chars = << >> => Len(r.chars) = 1)
  <2>1. p.idx = 0 /\ 0 + 1 = 1 /\ p.idx + 1 = 1
    OBVIOUS
  <2>2. q.idx = 1 /\ q.chars[1] = x
    BY <1>5, <2>1
  <2>3. p.chars = << >> => Len(q.chars) = 1
    <3>1. CASE p.chars = << >>
      <4>1. Len(p.chars) = 0 /\ ~(0 < 0)
        BY <1>4, <3>1
      <4>2. QED
        BY <1>5, <2>1, <4>1
    <3>2. QED
      BY <3>1
  <2>4. QED
    BY <1>6, <2>2, <2>3
<1>8. \A i \in 1..1 : i = 1
  OBVIOUS
<1>9. Collects(r, p, 1, s)
  BY <1>4, <1>5, <1>6, <1>7, <1>8 DEF Collects
<1>10. QED
  BY <1>1, <1>3, <1>9 DEF s

LEMMA NumberCollected ==
  ASSUME NEW p, Sound(p), p.state = 3, p.idx = 0, NEW x \in Digits \cup Signs,
         NEW digits \in Seq(Digits)
  PROVE  Collects(Parsed(p, <<x>> \o digits), p, 1, <<x>> \o digits)
<1> DEFINE Right(d) == Collects(Parsed(p, <<x>> \o d), p, 1, <<x>> \o d)
           S == {d \in Seq(Digits) : Right(d)}
<1>1. x \in Char /\ Collects(__at_res_parse(p, x), p, 1, <<x>>)
  BY NumberOpens
<1>2. << >> \in S
  <2>1. <<x>> \o << >> = <<x>> /\ << >> \in Seq(Digits)
    BY <1>1, Single
  <2>2. Parsed(p, <<x>>) = __at_res_parse(p, x)
    BY <1>1, ParsedOne
  <2>3. QED
    BY <1>1, <2>1, <2>2
<1>3. ASSUME NEW d \in Seq(Digits), NEW c \in Digits, d \in S PROVE Append(d, c) \in S
  <2> DEFINE s == <<x>> \o d
             q == Parsed(p, s)
  <2>1. d \in Seq(Char) /\ c \in Char
    BY WiderDigits, DigitsAre
  <2>2. s \in Seq(Char) /\ <<x>> \o Append(d, c) = Append(s, c)
    BY <1>1, <2>1, Single
  <2>3. Collects(q, p, 1, s)
    BY <1>3
  <2> HIDE DEF s
  <2>4. Parsed(p, Append(s, c)) = __at_res_parse(q, c)
    BY <2>1, <2>2, ParsedAppend
  <2> HIDE DEF q
  <2>5. q.state = 1
    BY <2>3 DEF Collects
  <2>6. __at_res_parse(q, c) = InInt(q, c)
    BY <2>5 DEF __at_res_parse
  <2>7. InInt(q, c) = Collect(q, c)
    <3>1. c \notin {",", "r", "zero"}
      BY DigitsDiffer
    <3>2. QED
      BY <3>1 DEF InInt
  <2>8. Collects(Collect(q, c), p, 1, Append(s, c))
    BY <2>1, <2>2, <2>3, CollectsNext
  <2>9. Append(d, c) \in Seq(Digits)
    OBVIOUS
  <2>10. Right(Append(d, c))
    BY <2>2, <2>4, <2>6, <2>7, <2>8
  <2>11. QED
    BY <2>9, <2>10
<1>4. Seq(Digits) \subseteq S
  <2> HIDE DEF S
  <2>1. QED
    BY <1>2, <1>3, SequenceInduction
<1>5. QED
  BY <1>4

Inner == Char \ {"\"", "r", "zero"}

LEMMA TextOpens ==
  ASSUME NEW p, Sound(p), p.state = 3, p.idx = 0
  PROVE  Collects(__at_res_parse(p, "\""), p, 2, << >>)
<1> DEFINE q == To(p, 2)
           s == << >>
<1>1. __at_res_parse(p, "\"") = q
  <2>1. __at_res_parse(p, "\"") = Ready(p, "\"")
    BY DEF __at_res_parse
  <2>2. "\"" \notin {"zero", "r"} /\ "\"" # "," /\ "\"" \notin Digits \cup Signs
    BY DigitsDiffer DEF Signs
  <2>3. ASSUME NEW c, c \notin {"zero", "r"}, c # ",", c = "\"", c \notin Digits \cup Signs
        PROVE  Ready(p, c) = q
    BY <2>3 DEF Ready
  <2> HIDE DEF q
  <2>4. Ready(p, "\"") = q
    BY <2>2, <2>3
  <2>5. QED
    BY <2>1, <2>4
<1>2. Sound(q) /\ q.state = 2 /\ q.idx = p.idx /\ q.chars = p.chars /\ q.list = p.list
  <2>1. 2 \in Int
    OBVIOUS
  <2>2. QED
    BY ONLY Sound(p), <2>1, ToIs
<1> HIDE DEF q
<1>3. Len(s) = 0 /\ (p.chars = << >> => Len(p.chars) = 0) /\ \A i \in 1..0 : FALSE
  OBVIOUS
<1> HIDE DEF s
<1>4. Collects(q, p, 2, s)
  BY <1>2, <1>3 DEF Collects
<1>5. QED
  BY <1>1, <1>4 DEF s

LEMMA TextCollected ==
  ASSUME NEW p, Sound(p), p.state = 3, p.idx = 0, NEW text \in Seq(Inner)
  PROVE  Collects(Parsed(p, <<"\"">> \o text), p, 2, text)
<1> DEFINE quote == "\""
           Right(t) == Collects(Parsed(p, <<quote>> \o t), p, 2, t)
           S == {t \in Seq(Inner) : Right(t)}
<1>1. quote \in Char /\ Collects(__at_res_parse(p, quote), p, 2, << >>)
  BY Characters, TextOpens
<1> HIDE DEF quote
<1>2. << >> \in S
  <2>1. <<quote>> \o << >> = <<quote>> /\ << >> \in Seq(Inner)
    BY <1>1, Single
  <2>2. Parsed(p, <<quote>>) = __at_res_parse(p, quote)
    BY <1>1, ParsedOne
  <2>3. QED
    BY <1>1, <2>1, <2>2
<1>3. ASSUME NEW t \in Seq(Inner), NEW c \in Inner, t \in S PROVE Append(t, c) \in S
  <2> DEFINE s == <<quote>> \o t
             q == Parsed(p, s)
  <2>1. t \in Seq(Char) /\ c \in Char /\ c # "\"" /\ c \notin {"r", "zero"}
    <3>1. \A d \in Inner : d \in Char /\ d # "\"" /\ d \notin {"r", "zero"}
      BY DEF Inner
    <3>2. \A i \in 1..Len(t) : t[i] \in Inner
      OBVIOUS
    <3>3. \A i \in 1..Len(t) : t[i] \in Char
      BY <3>1, <3>2
    <3>4. t \in Seq(Char)
      BY <3>3, Narrower
    <3>5. QED
      BY <3>1, <3>4
  <2>2. s \in Seq(Char) /\ <<quote>> \o Append(t, c) = Append(s, c)
    BY <1>1, <2>1, Single
  <2>3. Collects(q, p, 2, t)
    BY <1>3
  <2> HIDE DEF s
  <2>4. Parsed(p, Append(s, c)) = __at_res_parse(q, c)
    BY <2>1, <2>2, ParsedAppend
  <2> HIDE DEF q
  <2>5. q.state = 2
    BY <2>3 DEF Collects
  <2>6. __at_res_parse(q, c) = InStr(q, c)
    BY <2>5 DEF __at_res_parse
  <2>7. InStr(q, c) = Collect(q, c)
    BY <2>1 DEF InStr
  <2>8. Collects(Collect(q, c), p, 2, Append(t, c))
    BY <2>1, <2>3, CollectsNext
  <2>9. Append(t, c) \in Seq(Inner)
    OBVIOUS
  <2>10. Right(Append(t, c))
    BY <2>2, <2>4, <2>6, <2>7, <2>8
  <2>11. QED
    BY <2>9, <2>10
<1>4. Seq(Inner) \subseteq S
  <2> HIDE DEF S
  <2>1. QED
    BY <1>2, <1>3, SequenceInduction
<1>5. Right(text)
  BY <1>4
<1>6. QED
  BY <1>5 DEF quote

-----------------------------------------------------------------------------
(* What a whole field does, with the character behind it.                  *)

Ends == {",", "r"}

Ending(c) == IF c = "," THEN 3 ELSE Done

LEMMA EndsAre ==
  ASSUME NEW c \in Ends
  PROVE  /\ c \in Char /\ Ending(c) \in Int /\ c \in {",", "r", "zero"} /\ (c # "," => c = "r")
         /\ c # "\"" /\ c \notin Digits \cup Signs
<1>1. c = "," \/ c = "r"
  BY DEF Ends
<1>2. c \in Char
  BY <1>1, Characters
<1>3. Done \in Int /\ 3 \in Int
  BY DEF Done
<1>4. Ending(c) \in Int
  BY <1>3 DEF Ending
<1>5. c # "\"" /\ c \notin Signs
  BY <1>1 DEF Signs
<1>6. c \notin Digits
  BY <1>1, DigitsDiffer
<1>7. QED
  BY <1>1, <1>2, <1>4, <1>5, <1>6

LEMMA NumberCloses ==
  ASSUME NEW q, Sound(q), q.state = 1, NEW c \in Ends,
         ~(Len(q.chars) <= 1 /\ q.chars[1] \in Signs)
  PROVE  __at_res_parse(q, c) = Field(q, IntField(atoi(q.chars)), Ending(c))
<1>1. __at_res_parse(q, c) = InInt(q, c)
  BY DEF __at_res_parse
<1>2. c \in {",", "r", "zero"} /\ c \notin Digits
  BY EndsAre
<1>3. InInt(q, c) = IF Len(q.chars) <= 1 /\ q.chars[1] \in Signs THEN To(q, Failed)
                    ELSE Field(q, IntField(atoi(q.chars)), Ending(c))
  BY <1>2 DEF InInt, Ending
<1>4. InInt(q, c) = Field(q, IntField(atoi(q.chars)), Ending(c))
  BY <1>3
<1>5. QED
  BY <1>1, <1>4

(* A number is a digit or a sign and then digits, one at least behind a    *)
(* sign.                                                                   *)
LEMMA PrintedIs ==
  ASSUME NEW n \in Int
  PROVE  \E x \in Digits \cup Signs, digits \in Seq(Digits) :
           Printed(n) = <<x>> \o digits /\ (x \in Signs => Len(digits) > 0)
<1>1. CASE n < 0
  <2> DEFINE digits == Decimal[-n]
  <2>1. -n \in Nat
    BY <1>1
  <2>2. digits \in Seq(Digits) /\ Len(digits) > 0
    BY <2>1, DecimalDigits
  <2>3. Printed(n) = <<"-">> \o digits
    BY <1>1 DEF Printed
  <2>4. "-" \in Digits \cup Signs
    BY DEF Signs
  <2> HIDE DEF digits
  <2>5. QED
    BY <2>2, <2>3, <2>4
<1>2. CASE ~(n < 0)
  <2> DEFINE s == Decimal[n]
             x == Head(s)
             digits == Tail(s)
  <2>1. n \in Nat
    BY <1>2
  <2>2. s \in Seq(Digits) /\ Len(s) > 0
    BY <2>1, DecimalDigits
  <2>3. Printed(n) = s
    BY <1>2 DEF Printed
  <2> HIDE DEF s
  <2>4. x \in Digits /\ digits \in Seq(Digits) /\ s = <<x>> \o digits
    BY <2>2
  <2>5. x \notin Signs
    BY <2>4, DigitsAre
  <2> HIDE DEF x, digits
  <2>6. QED
    BY <2>3, <2>4, <2>5
<1>3. QED
  BY <1>1, <1>2

LEMMA NumberParsed ==
  ASSUME NEW p, Sound(p), p.state = 3, p.idx = 0, NEW n \in Int, NEW c \in Ends
  PROVE  LET q == Parsed(p, Append(Printed(n), c))
         IN  /\ Sound(q) /\ q.state = Ending(c) /\ q.idx = 0 /\ q.chars = << >>
             /\ \E m \in Int : /\ q.list = Append(p.list, IntField(m))
                               /\ p.chars = << >> => m = n
<1> DEFINE s == Printed(n)
           r == Parsed(p, s)
           q == Parsed(p, Append(s, c))
<1>1. PICK x \in Digits \cup Signs, digits \in Seq(Digits) :
             s = <<x>> \o digits /\ (x \in Signs => Len(digits) > 0)
  BY PrintedIs
<1>2. x \in Char /\ digits \in Seq(Char) /\ c \in Char /\ Ending(c) \in Int
  BY NumberOpens, WiderDigits, EndsAre
<1>3. s \in Seq(Char) /\ s[1] = x /\ Len(s) = 1 + Len(digits) /\ Len(digits) \in Nat
  <2> HIDE DEF s
  <2>1. QED
    BY <1>1, <1>2
<1>4. Collects(r, p, 1, s)
  <2>1. Collects(Parsed(p, <<x>> \o digits), p, 1, <<x>> \o digits)
    BY NumberCollected
  <2> HIDE DEF s
  <2>2. QED
    BY <1>1, <2>1
<1> HIDE DEF s
<1>5. q = __at_res_parse(r, c)
  BY <1>2, <1>3, ParsedAppend
<1> HIDE DEF r, q
<1>6. /\ Sound(r) /\ r.state = 1 /\ r.list = p.list /\ r.idx = Len(s) /\ r.chars[1] = x
      /\ r.chars \in Seq(Char) /\ Len(r.chars) \in Nat /\ r.idx <= Len(r.chars)
  <2>1. Sound(r) /\ r.state = 1 /\ r.list = p.list /\ r.idx = Len(s)
    BY <1>4 DEF Collects
  <2>2. 1 \in 1..Len(s) /\ \A i \in 1..Len(s) : r.chars[i] = s[i]
    BY <1>3, <1>4 DEF Collects
  <2>3. QED
    BY <1>3, <2>1, <2>2, ParserFields
<1>7. ~(Len(r.chars) <= 1 /\ r.chars[1] \in Signs)
  BY <1>1, <1>3, <1>6
<1>8. q = Field(r, IntField(atoi(r.chars)), Ending(c))
  BY <1>5, <1>6, <1>7, NumberCloses
<1>9. IntField(atoi(r.chars)) \in AnyField /\ atoi(r.chars) \in Int
  BY <1>6, FieldTypes, AtoiType
<1>10. /\ Sound(q) /\ q.state = Ending(c) /\ q.idx = 0 /\ q.chars = << >>
       /\ q.list = Append(p.list, IntField(atoi(r.chars)))
  <2> DEFINE field == IntField(atoi(r.chars))
             state == Ending(c)
  <2>1. Sound(r) /\ field \in AnyField /\ state \in Int /\ q = Field(r, field, state)
    BY <1>2, <1>6, <1>8, <1>9
  <2> HIDE DEF field, state
  <2>2. /\ Sound(q) /\ q.state = state /\ q.idx = 0 /\ q.chars = << >>
        /\ q.list = Append(r.list, field)
    BY ONLY <2>1, FieldIs
  <2>3. QED
    BY <1>6, <2>2 DEF field, state
<1>11. p.chars = << >> => atoi(r.chars) = n
  <2>1. SUFFICES ASSUME p.chars = << >> PROVE atoi(r.chars) = n
    OBVIOUS
  <2>2. r.chars = s
    BY <1>3, <1>4, <2>1, CollectsAll
  <2>3. QED
    BY <2>2, NumbersReadBack DEF s
<1>12. QED
  BY <1>9, <1>10, <1>11 DEF q, s

LEMMA TextCloses ==
  ASSUME NEW q, Sound(q), q.state = 2
  PROVE  __at_res_parse(q, "\"") = Field(q, TextField(q), 4)
BY DEF __at_res_parse, InStr, TextField

LEMMA TextIs ==
  ASSUME NEW p, NEW q, NEW text \in Seq(Char), Collects(q, p, 2, text)
  PROVE  StrOf(TextField(q)) = text
<1> DEFINE n == Len(text)
           chars == q.chars
           m == IF n < Len(chars) THEN n + 1 ELSE n
           s == SubSeq(chars, 1, m)
<1>1. /\ n \in Nat /\ chars \in Seq(Char) /\ Len(chars) \in Nat /\ n <= Len(chars)
      /\ q.idx = n /\ \A i \in 1..n : chars[i] = text[i]
  BY ParserFields DEF Collects
<1>2. TextField(q) = StrField(s, n)
  BY <1>1 DEF TextField
<1>3. StrOf(TextField(q)) = SubSeq(s, 1, n)
  <2>1. \A str, len : StrOf(StrField(str, len)) = SubSeq(str, 1, len)
    BY DEF StrOf, StrField
  <2> HIDE DEF s, n
  <2>2. QED
    BY <1>2, <2>1
<1> HIDE DEF chars, n
<1>4. m \in 0..Len(chars) /\ n \in 0..m
  BY <1>1
<1> HIDE DEF m
<1>5. s \in Seq(Char) /\ Len(s) = m /\ \A i \in 1..m : s[i] = chars[i]
  BY <1>1, <1>4
<1> HIDE DEF s
<1>6. /\ SubSeq(s, 1, n) \in Seq(Char) /\ Len(SubSeq(s, 1, n)) = n
      /\ \A i \in 1..n : SubSeq(s, 1, n)[i] = s[i] /\ i \in 1..m
  BY <1>1, <1>4, <1>5
<1>7. \A i \in 1..n : SubSeq(s, 1, n)[i] = text[i]
  BY <1>1, <1>5, <1>6
<1>8. SubSeq(s, 1, n) = text
  BY <1>6, <1>7, SeqEqual DEF n
<1>9. QED
  BY <1>3, <1>8

LEMMA TextParsed ==
  ASSUME NEW p, Sound(p), p.state = 3, p.idx = 0, NEW text \in Seq(Inner), NEW c \in Ends
  PROVE  LET q == Parsed(p, Append(<<"\"">> \o text \o <<"\"">>, c))
         IN  /\ Sound(q) /\ q.state = Ending(c) /\ q.idx = 0 /\ q.chars = << >>
             /\ \E field \in AnyField : /\ q.list = Append(p.list, field)
                                        /\ field.param_type = 2 /\ StrOf(field) = text
<1> DEFINE quote == "\""
           s == <<quote>> \o text
           t == s \o <<quote>>
           q1 == Parsed(p, s)
           q2 == Parsed(p, t)
           q3 == Parsed(p, Append(t, c))
<1>1. /\ quote \in Char /\ c \in Char /\ Ending(c) \in Int /\ text \in Seq(Char)
      /\ Collects(q1, p, 2, text)
  <2>1. \A i \in 1..Len(text) : text[i] \in Char
    <3>1. \A d \in Inner : d \in Char
      BY DEF Inner
    <3>2. \A i \in 1..Len(text) : text[i] \in Inner
      OBVIOUS
    <3>3. QED
      BY <3>1, <3>2
  <2>2. text \in Seq(Char)
    BY <2>1, Narrower
  <2>3. Collects(q1, p, 2, text)
    BY TextCollected
  <2>4. quote \in Char
    BY Characters
  <2>5. c \in Char /\ Ending(c) \in Int
    BY EndsAre
  <2>6. QED
    BY <2>2, <2>3, <2>4, <2>5
<1> HIDE DEF quote
<1>2. s \in Seq(Char) /\ <<quote>> \in Seq(Char)
  BY <1>1, Single
<1> HIDE DEF s
<1>4. t \in Seq(Char) /\ t = Append(s, quote)
  BY <1>1, <1>2
<1> HIDE DEF t
<1>5. q2 = __at_res_parse(q1, quote) /\ q3 = __at_res_parse(q2, c)
  BY <1>1, <1>2, <1>4, ParsedAppend
<1> HIDE DEF q1, q2, q3
<1>6. Sound(q1) /\ q1.state = 2 /\ q1.list = p.list
  BY <1>1 DEF Collects
<1>7. __at_res_parse(q1, quote) = Field(q1, TextField(q1), 4)
  BY <1>6, TextCloses DEF quote
<1>8. TextField(q1) \in AnyField /\ TextField(q1).param_type = 2 /\ StrOf(TextField(q1)) = text
  <2>1. TextField(q1).param_type = 2
    BY DEF TextField, StrField
  <2>2. QED
    BY <1>1, <1>6, <2>1, FieldTypes, TextIs
<1>9. /\ Sound(q2) /\ q2.state = 4 /\ q2.idx = 0 /\ q2.chars = << >>
      /\ q2.list = Append(p.list, TextField(q1))
  <2> DEFINE field == TextField(q1)
  <2>1. q2 = Field(q1, field, 4) /\ field \in AnyField
    BY <1>5, <1>7, <1>8
  <2> HIDE DEF field
  <2>2. 4 \in Int /\ Sound(q1)
    BY <1>6
  <2>3. /\ Sound(q2) /\ q2.state = 4 /\ q2.idx = 0 /\ q2.chars = << >>
        /\ q2.list = Append(q1.list, field)
    BY ONLY <2>1, <2>2, FieldIs
  <2>4. QED
    BY <1>6, <2>3 DEF field
<1>10. q3 = To(q2, Ending(c))
  <2>1. q3 = AfterStr(q2, c)
    <3>1. q2.state = 4 /\ q3 = __at_res_parse(q2, c)
      BY <1>5, <1>9
    <3>2. QED
      BY ONLY <3>1 DEF __at_res_parse
  <2>2. AfterStr(q2, c) = To(q2, Ending(c))
    BY EndsAre DEF AfterStr, Ending
  <2>3. QED
    BY <2>1, <2>2
<1>11. /\ Sound(q3) /\ q3.state = Ending(c) /\ q3.idx = 0 /\ q3.chars = << >>
       /\ q3.list = Append(p.list, TextField(q1))
  BY <1>1, <1>9, <1>10, ToIs
<1>12. QED
  BY <1>8, <1>11 DEF q3, t, s, quote

LEMMA EmptyParsed ==
  ASSUME NEW p, Sound(p), p.state = 3, p.idx = 0, NEW c \in Ends
  PROVE  LET q == Parsed(p, <<c>>)
         IN  /\ Sound(q) /\ q.state = Ending(c) /\ q.idx = 0 /\ q.chars = p.chars
             /\ q.list = IF c = "," THEN Append(p.list, NoField) ELSE p.list
<1> DEFINE q == Parsed(p, <<c>>)
<1>1. q = Ready(p, c)
  <2>1. q = __at_res_parse(p, c)
    BY EndsAre, ParsedOne
  <2>2. QED
    BY <2>1 DEF __at_res_parse
<1>2. CASE c = ","
  <2> DEFINE more == Append(p.list, NoField)
  <2>1. p \in Parsers /\ p.list \in Seq(AnyField) /\ NoField \in AnyField
    BY ParserFields, FieldTypes
  <2>2. more \in Seq(AnyField)
    BY <2>1
  <2>3. q = [p EXCEPT !.list = more]
    <3>1. c \notin {"zero", "r"} /\ c = "," /\ c # "\"" /\ c \notin Digits \cup Signs
      BY <1>2, EndsAre
    <3> HIDE DEF q
    <3>2. QED
      BY ONLY <1>1, <3>1 DEF Ready, more
  <2> HIDE DEF more, q
  <2>4. /\ q \in Parsers /\ q.state = p.state /\ q.idx = p.idx /\ q.chars = p.chars
        /\ q.list = more
    BY <2>1, <2>2, <2>3 DEF Parsers
  <2>5. Sound(q)
    BY <2>4 DEF Sound
  <2>6. QED
    BY <1>2, <2>4, <2>5 DEF q, more, Ending
<1>3. CASE c = "r"
  <2>1. q = To(p, Done) /\ Done \in Int /\ c # ","
    <3>1. c \in {"zero", "r"} /\ c # "," /\ c # "\"" /\ c \notin Digits \cup Signs
      BY <1>3, EndsAre
    <3>2. Done \in Int
      BY DEF Done
    <3>3. Ready(p, c) = To(p, Done)
      BY <3>1 DEF Ready
    <3>4. QED
      BY <1>1, <3>1, <3>2, <3>3
  <2> HIDE DEF q
  <2>2. /\ Sound(q) /\ q.state = Done /\ q.idx = p.idx /\ q.chars = p.chars /\ q.list = p.list
    BY <2>1, ToIs
  <2>3. QED
    BY <2>1, <2>2 DEF q, Ending
<1>4. QED
  BY <1>2, <1>3, EndsAre

(* q is a parser that read field, and the character c behind it, since p.  *)
(* A number is wrong only if p.chars still held something.                 *)
FieldRead(p, field, c, q) ==
  /\ Sound(q) /\ q.state = Ending(c) /\ q.idx = 0
  /\ IF field = NoField
     THEN q.chars = p.chars /\ q.list = IF c = "," THEN Append(p.list, NoField) ELSE p.list
     ELSE /\ q.chars = << >>
          /\ \E read \in AnyField :
               /\ q.list = Append(p.list, read)
               /\ \/ Same(read, field)
                  \/ p.chars # << >> /\ field.param_type = 1 /\ read.param_type = 1

LEMMA FieldParsed ==
  ASSUME NEW p, Sound(p), p.state = 3, p.idx = 0, NEW field \in Fields, NEW c \in Ends
  PROVE  /\ Written(field) \in Seq(Char)
         /\ FieldRead(p, field, c, Parsed(p, Append(Written(field), c)))
<1>1. CASE field = NoField
  <2>1. Written(field) = << >>
    BY <1>1 DEF Written, NoField
  <2>2. Append(<< >>, c) = <<c>> /\ << >> \in Seq(Char)
    OBVIOUS
  <2> DEFINE q == Parsed(p, <<c>>)
  <2>3. /\ Sound(q) /\ q.state = Ending(c) /\ q.idx = 0 /\ q.chars = p.chars
        /\ q.list = IF c = "," THEN Append(p.list, NoField) ELSE p.list
    BY EmptyParsed
  <2> HIDE DEF q
  <2>4. FieldRead(p, field, c, q)
    BY <1>1, <2>3 DEF FieldRead
  <2>5. QED
    BY <2>1, <2>2, <2>4 DEF q
<1>2. ASSUME NEW n \in Numbers, field = IntField(n)
      PROVE  /\ Written(field) \in Seq(Char)
             /\ FieldRead(p, field, c, Parsed(p, Append(Written(field), c)))
  <2>1. n \in Int
    BY ResponseAssumption
  <2>2. field.param_type = 1 /\ field.int_value = n /\ field # NoField
    <3>1. IntField(n).param_type = 1 /\ IntField(n).int_value = n /\ NoField.param_type = 0
      BY DEF IntField, NoField
    <3>2. field.param_type = 1 /\ field.int_value = n /\ NoField.param_type = 0 /\ 1 # 0
      BY <1>2, <3>1
    <3>3. QED
      BY <3>2
  <2>3. Written(field) = Printed(n)
    BY <2>2 DEF Written
  <2>4. Printed(n) \in Seq(Char)
    <3>1. PICK x \in Digits \cup Signs, digits \in Seq(Digits) : Printed(n) = <<x>> \o digits
      BY <2>1, PrintedIs
    <3>2. x \in Char /\ digits \in Seq(Char)
      BY NumberOpens, WiderDigits
    <3>3. QED
      BY <3>1, <3>2, Single
  <2> DEFINE q == Parsed(p, Append(Printed(n), c))
  <2>5. /\ Sound(q) /\ q.state = Ending(c) /\ q.idx = 0 /\ q.chars = << >>
        /\ \E m \in Int : q.list = Append(p.list, IntField(m)) /\ (p.chars = << >> => m = n)
    BY <2>1, NumberParsed
  <2> HIDE DEF q
  <2>6. PICK m \in Int : q.list = Append(p.list, IntField(m)) /\ (p.chars = << >> => m = n)
    BY <2>5
  <2> DEFINE read == IntField(m)
  <2>7. read.param_type = 1 /\ read.int_value = m /\ read \in AnyField
    BY DEF IntField, AnyField
  <2>8. q.list = Append(p.list, read)
    BY <2>6
  <2> HIDE DEF read
  <2>9. Same(read, field) \/ p.chars # << >>
    <3>1. CASE m = n
      <4>1. Same(read, field)
        BY <2>2, <2>7, <3>1 DEF Same
      <4>2. QED
        BY <4>1
    <3>2. QED
      BY <2>6, <3>1
  <2>10. FieldRead(p, field, c, q)
    BY <2>2, <2>5, <2>7, <2>8, <2>9 DEF FieldRead
  <2>11. QED
    BY <2>3, <2>4, <2>10 DEF q
<1>3. ASSUME NEW text \in Texts, field = StrField(text, Len(text))
      PROVE  /\ Written(field) \in Seq(Char)
             /\ FieldRead(p, field, c, Parsed(p, Append(Written(field), c)))
  <2>1. text \in Seq(Inner) /\ text \in Seq(Char)
    <3>1. text \in Seq(Char) /\ \A i \in DOMAIN text : text[i] \notin {"\"", "r", "zero"}
      BY ResponseAssumption
    <3>2. DOMAIN text = 1..Len(text) /\ \A i \in 1..Len(text) : text[i] \in Char
      <4>1. text \in Seq(Char)
        BY <3>1
      <4>2. QED
        BY ONLY <4>1
    <3>3. \A i \in 1..Len(text) : text[i] \in Inner
      BY <3>1, <3>2 DEF Inner
    <3>4. text \in Seq(Inner)
      BY <3>1, <3>3, Narrower
    <3>5. QED
      BY <3>1, <3>4
  <2>2. /\ field.param_type = 2 /\ field.str_data = text /\ field.str_len = Len(text)
        /\ field # NoField
    <3>1. /\ StrField(text, Len(text)).param_type = 2
          /\ StrField(text, Len(text)).str_data = text
          /\ StrField(text, Len(text)).str_len = Len(text)
          /\ NoField.param_type = 0
      BY DEF StrField, NoField
    <3>2. field.param_type = 2 /\ NoField.param_type = 0 /\ 2 # 0
      BY <1>3, <3>1
    <3>3. QED
      BY <1>3, <3>1, <3>2
  <2> DEFINE written == <<"\"">> \o text \o <<"\"">>
  <2>3. Written(field) = written
    <3>1. /\ field.param_type = 2 /\ field.str_data = text
          /\ field.param_type # 0 /\ field.param_type # 1
      BY <2>2
    <3>2. Written(field) = <<"\"">> \o field.str_data \o <<"\"">>
      BY ONLY <3>1 DEF Written
    <3>3. QED
      BY <3>1, <3>2
  <2>4. written \in Seq(Char)
    <3> DEFINE quote == "\""
    <3>1. quote \in Char
      BY Characters
    <3> HIDE DEF quote
    <3>2. <<quote>> \in Seq(Char)
      BY <3>1
    <3>3. <<quote>> \o text \o <<quote>> \in Seq(Char)
      BY <2>1, <3>2
    <3>4. QED
      BY <3>3 DEF quote
  <2> DEFINE q == Parsed(p, Append(written, c))
  <2>5. /\ Sound(q) /\ q.state = Ending(c) /\ q.idx = 0 /\ q.chars = << >>
        /\ \E read \in AnyField : /\ q.list = Append(p.list, read)
                                  /\ read.param_type = 2 /\ StrOf(read) = text
    BY <2>1, TextParsed
  <2> HIDE DEF q
  <2>6. PICK read \in AnyField : /\ q.list = Append(p.list, read)
                                 /\ read.param_type = 2 /\ StrOf(read) = text
    BY <2>5
  <2>7. StrOf(field) = text
    BY <2>1, <2>2 DEF StrOf
  <2>8. Same(read, field)
    BY <2>2, <2>6, <2>7 DEF Same
  <2>9. FieldRead(p, field, c, q)
    BY <2>2, <2>5, <2>6, <2>8 DEF FieldRead
  <2>10. QED
    BY <2>3, <2>4, <2>9 DEF q
<1>4. QED
  BY <1>1, <1>2, <1>3 DEF Fields

-----------------------------------------------------------------------------
(* A response, field after field.                                          *)

Mark(fields, k) == IF k = Len(fields) THEN "r" ELSE ","

(* text holds what is written before each field, and at the end.           *)
Writes(text, fields) ==
  /\ text[0] = Name
  /\ \A k \in 1..Len(fields) :
       text[k] = text[k - 1] \o Written(fields[k]) \o <<Mark(fields, k)>>

LEMMA ResponseWrites ==
  ASSUME NEW fields \in Seq(Fields)
  PROVE  \E text : Writes(text, fields) /\ Response(fields) = text[Len(fields)]
<1> DEFINE n == Len(fields)
           Next1(f, k) == f[k - 1] \o Written(fields[k]) \o <<IF k = n THEN "r" ELSE ",">>
           Loop(f, m) == [k \in 0..m |-> IF k = 0 THEN Name ELSE Next1(f, k)]
           S == {m \in Nat : \E f : f = Loop(f, m)}
<1>1. 0 \in S
  <2> DEFINE f == [k \in 0..0 |-> Name]
  <2>1. f = Loop(f, 0)
    OBVIOUS
  <2>2. QED
    BY <2>1
<1>2. ASSUME NEW m \in Nat, m \in S PROVE m + 1 \in S
  <2>1. PICK f : f = Loop(f, m)
    BY <1>2
  <2> DEFINE last == f[m] \o Written(fields[m + 1]) \o <<IF m + 1 = n THEN "r" ELSE ",">>
             g == [k \in 0..(m + 1) |-> IF k <= m THEN f[k] ELSE last]
  <2>2. \A k \in 0..m : f[k] = IF k = 0 THEN Name ELSE Next1(f, k)
    <3> HIDE DEF Next1
    <3>1. QED
      BY <2>1
  <2>3. ASSUME NEW h, h[m] = f[m] PROVE Next1(h, m + 1) = last
    <3>1. (m + 1) - 1 = m
      OBVIOUS
    <3>2. QED
      BY <2>3, <3>1
  <2>4. ASSUME NEW h, NEW k, h[k - 1] = f[k - 1] PROVE Next1(h, k) = Next1(f, k)
    BY <2>4
  <2> HIDE DEF last, Next1
  <2>5. ASSUME NEW k \in 0..(m + 1)
        PROVE  g[k] = IF k = 0 THEN Name ELSE Next1(g, k)
    <3>1. CASE k <= m
      <4>1. k \in 0..m /\ g[k] = f[k] /\ (k # 0 => g[k - 1] = f[k - 1])
        BY <3>1
      <4> HIDE DEF g
      <4>2. k # 0 => Next1(g, k) = Next1(f, k)
        BY <2>4, <4>1
      <4>3. QED
        BY <2>2, <4>1, <4>2
    <3>2. CASE k = m + 1
      <4>1. k # 0 /\ g[k] = last /\ g[k - 1] = f[m]
        BY <3>2
      <4>2. g[m] = f[m]
        BY <3>2, <4>1
      <4> HIDE DEF g
      <4>3. Next1(g, k) = last
        BY <2>3, <3>2, <4>2
      <4>4. QED
        BY <4>1, <4>3
    <3>3. QED
      BY <3>1, <3>2
  <2>6. g = Loop(g, m + 1)
    BY <2>5
  <2> HIDE DEF g
  <2>7. \E h : h = Loop(h, m + 1)
    BY <2>6
  <2>8. m + 1 \in Nat
    OBVIOUS
  <2> HIDE DEF Loop
  <2>9. QED
    BY <2>7, <2>8
<1>3. Nat \subseteq S
  <2> HIDE DEF S
  <2>1. QED
    BY <1>1, <1>2, Induction
<1>4. n \in Nat
  OBVIOUS
<1> HIDE DEF n
<1>5. \E f : f = Loop(f, n)
  BY <1>3, <1>4
<1> DEFINE text == CHOOSE f : f = Loop(f, n)
<1>6. text = Loop(text, n)
  BY <1>5
<1>7. Response(fields) = text[n]
  BY DEF Response, n
<1> HIDE DEF text
<1>8. Writes(text, fields)
  <2>1. \A k \in 0..n : text[k] = IF k = 0 THEN Name ELSE Next1(text, k)
    <3> HIDE DEF Next1
    <3>1. QED
      BY <1>6
  <2>2. 0 \in 0..n /\ \A k \in 1..n : k \in 0..n /\ k # 0
    BY <1>4
  <2>3. \A k \in 1..n : text[k] = Next1(text, k)
    <3> HIDE DEF Next1
    <3>1. QED
      BY <2>1, <2>2
  <2>4. text[0] = Name
    BY <2>1, <2>2
  <2>5. QED
    BY <2>3, <2>4 DEF Writes, Mark, n
<1>9. QED
  BY <1>7, <1>8 DEF n

(* An empty field at the end is not counted.                               *)
Counted(fields, k) == IF k = Len(fields) /\ fields[k] = NoField THEN k - 1 ELSE k

(* q has read the first k fields.  left is what parse_buf held before.     *)
FieldsRead(q, fields, k, left) ==
  /\ Sound(q) /\ q.idx = 0 /\ q.state = IF k = Len(fields) THEN Done ELSE 3
  /\ Len(q.list) = Counted(fields, k)
  /\ \/ q.chars = << >>
     \/ q.chars = left /\ \A j \in 1..k : fields[j] = NoField
  /\ \A i \in 1..Counted(fields, k) :
       \/ Same(q.list[i], fields[i])
       \/ /\ left # << >>
          /\ fields[i].param_type = 1 /\ q.list[i].param_type = 1
          /\ \A j \in 1..(i - 1) : fields[j] = NoField

LEMMA FieldsReadNext ==
  ASSUME NEW fields \in Seq(Fields), NEW k \in 0..(Len(fields) - 1), NEW left,
         NEW p, NEW q, FieldsRead(p, fields, k, left),
         FieldRead(p, fields[k + 1], Mark(fields, k + 1), q)
  PROVE  FieldsRead(q, fields, k + 1, left)
<1> DEFINE n == Len(fields)
           field == fields[k + 1]
           c == Mark(fields, k + 1)
           Good(i, read) ==
             \/ Same(read, fields[i])
             \/ /\ left # << >>
                /\ fields[i].param_type = 1 /\ read.param_type = 1
                /\ \A j \in 1..(i - 1) : fields[j] = NoField
<1>1. n \in Nat /\ k \in Nat /\ k < n /\ k + 1 <= n /\ k # n
  OBVIOUS
<1>2. Counted(fields, k) = k
  BY <1>1 DEF Counted
<1>3. /\ Sound(p) /\ Len(p.list) = k
      /\ \/ p.chars = << >>
         \/ p.chars = left /\ \A j \in 1..k : fields[j] = NoField
      /\ \A i \in 1..k : Good(i, p.list[i])
  BY <1>2 DEF FieldsRead
<1>4. p.list \in Seq(AnyField) /\ NoField \in AnyField
  BY <1>3, ParserFields, FieldTypes
<1>5. Sound(q) /\ q.idx = 0 /\ q.state = Ending(c)
  BY DEF FieldRead
<1>6. Ending(c) = IF k + 1 = n THEN Done ELSE 3
  BY DEF Ending, Mark
<1>7. \A j \in 1..(k + 1) : j \in 1..k \/ j = k + 1
  BY <1>1
<1>8. ASSUME NEW read \in AnyField, q.list = Append(p.list, read), Good(k + 1, read)
      PROVE  Len(q.list) = k + 1 /\ \A i \in 1..(k + 1) : Good(i, q.list[i])
  <2>1. /\ Len(q.list) = k + 1 /\ q.list[k + 1] = read
        /\ \A i \in 1..k : q.list[i] = p.list[i]
    BY <1>3, <1>4, <1>8, AppendProperties
  <2> HIDE DEF Good
  <2>2. QED
    BY <1>3, <1>7, <1>8, <2>1
<1>9. CASE field = NoField /\ k + 1 = n
  <2>1. c # ","
    BY <1>9 DEF Mark
  <2>2. q.chars = p.chars /\ q.list = p.list
    BY <1>9, <2>1 DEF FieldRead
  <2>3. Counted(fields, k + 1) = k
    BY <1>1, <1>9 DEF Counted
  <2>4. p.chars = << >> \/ (p.chars = left /\ \A j \in 1..(k + 1) : fields[j] = NoField)
    BY <1>3, <1>7, <1>9
  <2>5. QED
    BY <1>3, <1>5, <1>6, <2>2, <2>3, <2>4 DEF FieldsRead
<1>10. CASE field = NoField /\ k + 1 # n
  <2>1. c = ","
    BY <1>10 DEF Mark
  <2>2. q.chars = p.chars /\ q.list = Append(p.list, NoField)
    BY <1>10, <2>1 DEF FieldRead
  <2>3. Counted(fields, k + 1) = k + 1
    BY <1>1, <1>10 DEF Counted
  <2>4. p.chars = << >> \/ (p.chars = left /\ \A j \in 1..(k + 1) : fields[j] = NoField)
    BY <1>3, <1>7, <1>10
  <2>5. Good(k + 1, NoField)
    <3>1. NoField.param_type = 0
      BY DEF NoField
    <3>2. Same(NoField, NoField)
      BY <3>1 DEF Same
    <3>3. QED
      BY <1>10, <3>2
  <2>6. Len(q.list) = k + 1 /\ \A i \in 1..(k + 1) : Good(i, q.list[i])
    BY <1>4, <1>8, <2>2, <2>5
  <2>7. QED
    BY <1>5, <1>6, <2>2, <2>3, <2>4, <2>6 DEF FieldsRead
<1>11. CASE field # NoField
  <2>1. /\ q.chars = << >>
        /\ \E read \in AnyField :
             /\ q.list = Append(p.list, read)
             /\ \/ Same(read, field)
                \/ p.chars # << >> /\ field.param_type = 1 /\ read.param_type = 1
    BY <1>11 DEF FieldRead
  <2>2. PICK read \in AnyField :
          /\ q.list = Append(p.list, read)
          /\ \/ Same(read, field)
             \/ p.chars # << >> /\ field.param_type = 1 /\ read.param_type = 1
    BY <2>1
  <2>3. Counted(fields, k + 1) = k + 1
    BY <1>11 DEF Counted
  <2>4. Good(k + 1, read)
    <3>1. CASE Same(read, field)
      BY <3>1
    <3>2. CASE p.chars # << >> /\ field.param_type = 1 /\ read.param_type = 1
      <4>1. left # << >> /\ \A j \in 1..k : fields[j] = NoField
        BY <1>3, <3>2
      <4>2. (k + 1) - 1 = k
        BY <1>1
      <4>3. QED
        BY <3>2, <4>1, <4>2
    <3>3. QED
      BY <2>2, <3>1, <3>2
  <2>5. Len(q.list) = k + 1 /\ \A i \in 1..(k + 1) : Good(i, q.list[i])
    BY <1>8, <2>2, <2>4
  <2>6. QED
    BY <1>5, <1>6, <2>1, <2>3, <2>5 DEF FieldsRead
<1>12. QED
  BY <1>9, <1>10, <1>11

LEMMA DoneStays ==
  ASSUME NEW p, p.state = Done, NEW text \in Seq(Char)
  PROVE  Parsed(p, text) = p
<1> DEFINE S == {t \in Seq(Char) : Parsed(p, t) = p}
<1>1. << >> \in S
  BY ParsedEmpty
<1>2. ASSUME NEW t \in Seq(Char), NEW c \in Char, t \in S PROVE Append(t, c) \in S
  <2>1. Parsed(p, Append(t, c)) = __at_res_parse(p, c)
    BY <1>2, ParsedAppend
  <2>2. __at_res_parse(p, c) = p
    BY DEF __at_res_parse, Done
  <2>3. QED
    BY <2>1, <2>2
<1>3. Seq(Char) \subseteq S
  <2> HIDE DEF S
  <2>1. QED
    BY <1>1, <1>2, SequenceInduction
<1>4. QED
  BY <1>3

LEMMA ParserIs ==
  ASSUME NEW left \in Seq(Char)
  PROVE  /\ Sound(Parser(left)) /\ Parser(left).state = 0 /\ Parser(left).idx = 0
         /\ Parser(left).chars = left /\ Parser(left).list = << >>
<1>1. 0 \in Int /\ 0 \in Nat /\ << >> \in Seq(AnyField) /\ Len(left) \in Nat
  OBVIOUS
<1>2. QED
  BY <1>1 DEF Parser, Sound, Parsers

LEMMA BeforeSpace ==
  ASSUME NEW p, Sound(p), p.state = 0, NEW c \in Char, c # " ", c # "zero"
  PROVE  __at_res_parse(p, c) = To(p, 0)
<1>1. __at_res_parse(p, c) = To(p, IF c = " " THEN 3 ELSE IF c = "zero" THEN Done ELSE 0)
  BY ONLY p.state = 0 DEF __at_res_parse
<1>2. QED
  BY <1>1

(* The name ends with the first space.                                     *)
LEMMA NameParsed ==
  ASSUME NEW left \in Seq(Char)
  PROVE  LET p == Parsed(Parser(left), Name)
         IN  /\ Name \in Seq(Char) /\ Sound(p) /\ p.state = 3 /\ p.idx = 0
             /\ p.chars = left /\ p.list = << >>
<1> DEFINE p0 == Parser(left)
           x == "X"
           y == ":"
           z == " "
           One(p) == Parsed(p, <<x>>)
           Two(p) == Parsed(p, Append(<<x>>, y))
           Three(p) == Parsed(p, Append(Append(<<x>>, y), z))
           Begins(p, state) == /\ Sound(p) /\ p.state = state /\ p.idx = 0
                               /\ p.chars = left /\ p.list = << >>
<1>1. Begins(p0, 0)
  BY ParserIs
<1>2. x \in Char /\ y \in Char /\ z \in Char
  BY Characters
<1>3. x # " " /\ x # "zero" /\ y # " " /\ y # "zero" /\ z = " "
  OBVIOUS
<1>4. Name = Append(Append(<<x>>, y), z)
  <2>1. Name = <<x, y, z>>
    BY DEF Name
  <2> HIDE DEF x, y, z
  <2>2. <<x, y, z>> = Append(Append(<<x>>, y), z)
    BY <1>2
  <2>3. QED
    BY <2>1, <2>2
<1> HIDE DEF p0, x, y, z
<1>5. ASSUME NEW p, NEW c \in Char, Begins(p, 0), c # " ", c # "zero"
      PROVE  Begins(__at_res_parse(p, c), 0)
  <2>1. __at_res_parse(p, c) = To(p, 0)
    BY <1>5, BeforeSpace
  <2>2. Begins(p, 0)
    BY <1>5
  <2>3. 0 \in Int
    OBVIOUS
  <2>4. Begins(To(p, 0), 0)
    BY <2>2, <2>3, ToIs
  <2>5. QED
    BY <2>1, <2>4
<1>6. ASSUME NEW p, Begins(p, 0) PROVE Begins(__at_res_parse(p, " "), 3)
  <2>1. __at_res_parse(p, " ") = To(p, 3)
    BY <1>6 DEF __at_res_parse
  <2>2. Sound(p) /\ 3 \in Int
    BY <1>6
  <2>3. Begins(To(p, 3), 3)
    BY <1>6, <2>2, ToIs
  <2>4. QED
    BY <2>1, <2>3
<1>7. <<x>> \in Seq(Char) /\ Append(<<x>>, y) \in Seq(Char)
      /\ Append(Append(<<x>>, y), z) \in Seq(Char)
  BY <1>2
<1> HIDE DEF Begins
<1>8. Begins(One(p0), 0)
  BY <1>1, <1>2, <1>3, <1>5, ParsedOne
<1>9. Begins(Two(p0), 0)
  <2>1. Two(p0) = __at_res_parse(One(p0), y)
    BY <1>2, <1>7, ParsedAppend
  <2>2. QED
    BY <1>2, <1>3, <1>5, <1>8, <2>1
<1>10. Begins(Three(p0), 3)
  <2>1. Three(p0) = __at_res_parse(Two(p0), z)
    BY <1>2, <1>7, ParsedAppend
  <2>2. QED
    BY <1>3, <1>6, <1>9, <2>1
<1>11. QED
  BY <1>4, <1>7, <1>10 DEF Begins, p0

(* Behind its end of line a response may be followed by anything.          *)
LEMMA ResponseParsed ==
  ASSUME NEW fields \in Seq(Fields), Len(fields) > 0, NEW left \in Seq(Char)
  PROVE  /\ Response(fields) \in Seq(Char) /\ IsPrefix(Name, Response(fields))
         /\ \A rest \in Seq(Char) :
              FieldsRead(Parsed(Parser(left), Response(fields) \o rest),
                         fields, Len(fields), left)
<1> DEFINE n == Len(fields)
           p0 == Parser(left)
<1>1. PICK text : Writes(text, fields) /\ Response(fields) = text[n]
  BY ResponseWrites
<1>2. n \in Nat /\ n > 0 /\ n # 0 /\ n \in 1..n
  OBVIOUS
<1> DEFINE Good(k) == /\ \E more \in Seq(Char) : text[k] = Name \o more
                      /\ text[k] \in Seq(Char)
                      /\ FieldsRead(Parsed(p0, text[k]), fields, k, left)
           S == {k \in Nat : k <= n => Good(k)}
<1> HIDE DEF p0
<1>3. 0 \in S
  <2> DEFINE p == Parsed(p0, Name)
  <2>1. /\ Name \in Seq(Char) /\ Sound(p) /\ p.state = 3 /\ p.idx = 0
        /\ p.chars = left /\ p.list = << >>
    BY NameParsed DEF p0
  <2> HIDE DEF p
  <2>2. text[0] = Name
    BY <1>1 DEF Writes
  <2>3. Name = Name \o << >> /\ << >> \in Seq(Char)
    BY <2>1
  <2>4. Counted(fields, 0) = 0
    BY <1>2 DEF Counted
  <2>5. Len(<< >>) = 0 /\ \A j \in 1..0 : FALSE
    OBVIOUS
  <2>6. FieldsRead(p, fields, 0, left)
    BY <1>2, <2>1, <2>4, <2>5 DEF FieldsRead
  <2>7. Good(0)
    BY <2>1, <2>2, <2>3, <2>6 DEF p
  <2>8. QED
    BY <2>7
<1>4. ASSUME NEW k \in Nat, k \in S PROVE k + 1 \in S
  <2> SUFFICES ASSUME k + 1 <= n PROVE Good(k + 1)
    <3> HIDE DEF Good, n
    <3>1. k + 1 \in Nat
      OBVIOUS
    <3>2. QED
      BY <3>1
  <2> DEFINE field == fields[k + 1]
             c == Mark(fields, k + 1)
             p == Parsed(p0, text[k])
             w == Append(Written(field), c)
             q == Parsed(p, w)
  <2>1. k <= n /\ k # n /\ k + 1 \in 1..n /\ (k + 1) - 1 = k /\ k \in 0..(n - 1)
    BY <1>2
  <2>2. Good(k)
    BY <1>4, <2>1
  <2>3. field \in Fields
    BY <2>1
  <2>4. c \in Ends /\ c \in Char
    <3>1. c \in Ends
      BY DEF Mark, Ends
    <3>2. QED
      BY <3>1, EndsAre
  <2>5. Sound(p) /\ p.state = 3 /\ p.idx = 0
    BY <2>1, <2>2 DEF FieldsRead
  <2>6. text[k + 1] = text[k] \o Written(field) \o <<c>>
    BY <1>1, <2>1 DEF Writes
  <2>7. FieldsRead(p, fields, k, left)
    BY <2>2
  <2>8. PICK more \in Seq(Char) : text[k] = Name \o more
    BY <2>2
  <2>9. text[k] \in Seq(Char) /\ Name \in Seq(Char)
    BY <2>2, NameParsed
  <2> HIDE DEF p, field, c
  <2>10. Written(field) \in Seq(Char) /\ FieldRead(p, field, c, q)
    BY <2>3, <2>4, <2>5, FieldParsed
  <2> HIDE DEF q
  <2>11. FieldsRead(q, fields, k + 1, left)
    BY <2>1, <2>7, <2>10, FieldsReadNext DEF field, c
  <2>12. w \in Seq(Char)
    BY <2>4, <2>10
  <2>13. text[k + 1] = text[k] \o w
    <3>1. text[k] \o Written(field) \o <<c>> = text[k] \o w
      BY <2>4, <2>9, <2>10, AppendOver
    <3>2. QED
      BY <2>6, <3>1
  <2>14. text[k + 1] = Name \o (more \o w) /\ more \o w \in Seq(Char)
    <3> HIDE DEF w
    <3>1. (Name \o more) \o w = Name \o (more \o w)
      BY ONLY <2>9, <2>12, more \in Seq(Char), Associate
    <3>2. more \o w \in Seq(Char)
      BY <2>12
    <3>3. QED
      BY <2>8, <2>13, <3>1, <3>2
  <2> HIDE DEF w
  <2>15. text[k + 1] \in Seq(Char)
    BY <2>9, <2>12, <2>13
  <2>16. Parsed(p0, text[k + 1]) = q
    BY <2>9, <2>12, <2>13, ParsedConcat DEF p, q
  <2>17. QED
    BY <2>11, <2>14, <2>15, <2>16
<1>5. Nat \subseteq S
  <2> HIDE DEF S
  <2>1. QED
    BY <1>3, <1>4, Induction
<1>6. Good(n)
  <2>1. n <= n /\ n \in S
    <3> HIDE DEF S, n
    <3>1. QED
      BY <1>2, <1>5
  <2>2. n <= n => Good(n)
    BY <2>1
  <2> HIDE DEF Good, n
  <2>3. QED
    BY <2>1, <2>2
<1> DEFINE response == Response(fields)
           p == Parsed(p0, response)
<1>7. response \in Seq(Char) /\ FieldsRead(p, fields, n, left)
  BY <1>1, <1>6
<1>8. IsPrefix(Name, response)
  <2>1. PICK more \in Seq(Char) : response = Name \o more
    BY <1>1, <1>6
  <2>2. Name \in Seq(Char)
    BY NameParsed
  <2> HIDE DEF response
  <2>3. QED
    BY <2>1, <2>2 DEF IsPrefix
<1>9. ASSUME NEW rest \in Seq(Char) PROVE Parsed(p0, response \o rest) = p
  <2>1. p.state = Done
    BY <1>7 DEF FieldsRead
  <2> HIDE DEF response
  <2>2. Parsed(p0, response \o rest) = Parsed(p, rest)
    BY <1>7, ParsedConcat
  <2> HIDE DEF p
  <2>3. QED
    BY <2>1, <2>2, DoneStays
<1>10. QED
  BY <1>7, <1>8, <1>9 DEF p0

-----------------------------------------------------------------------------
(* The reader.                                                             *)

(* The response that said tells of begins buf, and the reader knows of it. *)
ResponseHeld ==
  said # NoResponse =>
    /\ is_done /\ said \in Seq(Fields) /\ Len(said) > 0
    /\ \E rest \in Seq(Char) : buf = Response(said) \o rest

(* What is left in parse_buf is of a response that failed, the last one or *)
(* one since which only empty fields were read.                            *)
LeftoverDoubted == parse_buf # << >> => NothingReadSince

ReaderInv ==
  /\ buf \in Seq(Char) /\ is_done \in BOOLEAN /\ parse_buf \in Seq(Char)
  /\ ResponseHeld
  /\ LeftoverDoubted
  /\ ReadsBack

LEMMA ZeroEnds ==
  ASSUME NEW text \in Seq(Char)
  PROVE  Append(text, "zero") \in Seq(Char)
<1> DEFINE zero == "zero"
<1>1. zero \in Char
  BY Characters
<1> HIDE DEF zero
<1>2. Append(text, zero) \in Seq(Char)
  BY <1>1
<1>3. QED
  BY <1>2 DEF zero

LEMMA ParseIs ==
  ASSUME NEW text, at_res_parse(text), LeftoverDoubted
  PROVE  LET end == Parsed(Parser(parse_buf), Append(text, "zero"))
         IN  /\ parse_buf' = end.chars
             /\ at_res_list' = IF end.state = Done THEN end.list ELSE << >>
             /\ ret' = IF end.state = Done THEN 0 ELSE -1
             /\ parse_buf # << >> => doubt'
<1> DEFINE end == Parsed(Parser(parse_buf), Append(text, "zero"))
<1>1. parse_buf' = end.chars
  BY Zenon DEF at_res_parse
<1>2. at_res_list' = IF end.state = Done THEN end.list ELSE << >>
  BY Zenon DEF at_res_parse
<1>3. ret' = IF end.state = Done THEN 0 ELSE -1
  BY Zenon DEF at_res_parse
<1>4. doubt' = NothingReadSince
  BY Zenon DEF at_res_parse
<1>5. parse_buf # << >> => doubt'
  BY Zenon, <1>4 DEF LeftoverDoubted
<1>6. QED
  BY Zenon, <1>1, <1>2, <1>3, <1>5

LEMMA ParseLeaves ==
  ASSUME parse_buf \in Seq(Char), LeftoverDoubted, NEW text \in Seq(Char), at_res_parse(text)
  PROVE  parse_buf' \in Seq(Char) /\ LeftoverDoubted'
<1> DEFINE p == Parser(parse_buf)
           end == Parsed(p, Append(text, "zero"))
<1>1. Append(text, "zero") \in Seq(Char)
  BY ZeroEnds
<1>2. Sound(p) /\ Leftover(p, parse_buf)
  BY ParserIs DEF Leftover
<1> HIDE DEF p
<1>3. Sound(end) /\ Leftover(end, parse_buf)
  BY <1>1, <1>2, TextLeaves
<1>4. /\ parse_buf' = end.chars
      /\ at_res_list' = IF end.state = Done THEN end.list ELSE << >>
      /\ ret' = IF end.state = Done THEN 0 ELSE -1
      /\ parse_buf # << >> => doubt'
  <2>1. QED
    BY ParseIs DEF p
<1> HIDE DEF end
<1>5. parse_buf' \in Seq(Char)
  BY <1>3, <1>4, ParserFields
<1>6. CASE end.state = Done
  <2>1. end.state \in {0, 3, 4, Done} /\ at_res_list' = end.list
    BY <1>4, <1>6
  <2>2. CASE end.chars = << >>
    BY <1>4, <1>5, <2>2 DEF LeftoverDoubted
  <2>3. CASE end.chars = parse_buf /\ \A i \in DOMAIN end.list : end.list[i] = NoField
    <3>1. parse_buf' = parse_buf /\ \A i \in DOMAIN at_res_list' : at_res_list'[i] = NoField
      BY <1>4, <2>1, <2>3
    <3>2. QED
      BY <1>4, <1>5, <3>1 DEF LeftoverDoubted, NothingReadSince
  <2>4. QED
    BY <1>3, <1>5, <2>1, <2>2, <2>3 DEF Leftover
<1>7. CASE end.state # Done
  <2>1. ret' = -1 /\ -1 # 0
    BY <1>4, <1>7
  <2>2. QED
    BY <1>5, <2>1 DEF LeftoverDoubted, NothingReadSince
<1>8. QED
  BY <1>5, <1>6, <1>7

LEMMA ParseReadsBack ==
  ASSUME parse_buf \in Seq(Char), LeftoverDoubted,
         NEW fields \in Seq(Fields), Len(fields) > 0, said' = fields,
         NEW rest \in Seq(Char), at_res_parse(Response(fields) \o rest)
  PROVE  ReadsBack'
<1> DEFINE p == Parser(parse_buf)
           response == Response(fields)
           end == Parsed(p, response \o Append(rest, "zero"))
           n == Len(fields)
           m == Counted(fields, n)
<1>1. response \in Seq(Char) /\ FieldsRead(end, fields, n, parse_buf)
  <2>1. Append(rest, "zero") \in Seq(Char)
    BY ZeroEnds
  <2>2. QED
    BY <2>1, ResponseParsed
<1> HIDE DEF p, response
<1>2. Append(response \o rest, "zero") = response \o Append(rest, "zero")
  <2> DEFINE zero == "zero"
  <2>1. zero \in Char
    BY Characters
  <2> HIDE DEF zero
  <2>2. Append(response \o rest, zero) = response \o Append(rest, zero)
    BY <1>1, <2>1, AppendOver
  <2>3. QED
    BY <2>2 DEF zero
<1>3. /\ at_res_list' = IF end.state = Done THEN end.list ELSE << >>
      /\ ret' = IF end.state = Done THEN 0 ELSE -1
      /\ parse_buf # << >> => doubt'
  <2> DEFINE text == Append(response \o rest, "zero")
             last == Parsed(p, text)
  <2>1. /\ at_res_list' = IF last.state = Done THEN last.list ELSE << >>
        /\ ret' = IF last.state = Done THEN 0 ELSE -1
        /\ parse_buf # << >> => doubt'
    BY ParseIs DEF p, response
  <2>2. last = end
    BY <1>2
  <2> HIDE DEF last, end
  <2>3. QED
    BY <2>1, <2>2
<1> HIDE DEF end
<1>4. n \in Nat /\ n > 0 /\ m = n - (IF fields[n] = NoField THEN 1 ELSE 0)
  BY DEF Counted
<1>5. Last(said') = fields[n] /\ Len(said') = n
  BY DEF Last
<1> HIDE DEF n, m
<1>6. end.state = Done
  BY <1>1 DEF FieldsRead, n
<1>7. ret' = 0 /\ at_res_list' = end.list
  BY <1>3, <1>6
<1>8. Sound(end) /\ Len(end.list) = m
  BY <1>1 DEF FieldsRead, m
<1>9. DOMAIN end.list = 1..m
  <2>1. end.list \in Seq(AnyField)
    BY <1>8, ParserFields
  <2>2. QED
    BY <1>8, <2>1
<1>10. \A i \in 1..m :
         \/ Same(end.list[i], fields[i])
         \/ /\ parse_buf # << >>
            /\ fields[i].param_type = 1 /\ end.list[i].param_type = 1
            /\ \A k \in 1..(i - 1) : fields[k] = NoField
  BY <1>1 DEF FieldsRead, m
<1>11. Len(at_res_list') = Len(said') - (IF Last(said') = NoField THEN 1 ELSE 0)
  BY <1>4, <1>5, <1>7, <1>8
<1>12. \A i \in DOMAIN at_res_list' :
         \/ Same(at_res_list'[i], said'[i])
         \/ /\ doubt'
            /\ said'[i].param_type = 1 /\ at_res_list'[i].param_type = 1
            /\ \A k \in 1..(i - 1) : said'[k] = NoField
  BY <1>3, <1>7, <1>9, <1>10
<1>13. QED
  BY <1>7, <1>11, <1>12 DEF ReadsBack

LEMMA ReaderInit == atInit => ReaderInv
<1> SUFFICES ASSUME atInit PROVE ReaderInv
  OBVIOUS
<1>1. << >> \in Seq(Char) /\ FALSE \in BOOLEAN
  OBVIOUS
<1>2. QED
  BY <1>1 DEF atInit, ReaderInv, ResponseHeld, LeftoverDoubted, ReadsBack

LEMMA ReaderNext == ReaderInv /\ [at_cesq_read2]_atVars => ReaderInv'
<1> SUFFICES ASSUME ReaderInv, [at_cesq_read2]_atVars PROVE ReaderInv'
  OBVIOUS
<1>1. /\ buf \in Seq(Char) /\ is_done \in BOOLEAN /\ parse_buf \in Seq(Char)
      /\ ResponseHeld /\ LeftoverDoubted /\ ReadsBack
  BY DEF ReaderInv
<1>2. ASSUME NEW response \in Seq(Char), Answered(response)
      PROVE  /\ \E rest \in Seq(Char) : buf' = response \o rest
             /\ buf' \in Seq(Char) /\ is_done' \in BOOLEAN
             /\ is_done' = (is_done \/ IsPrefix(Name, response))
             /\ IF is_done' THEN at_res_parse(buf')
                            ELSE UNCHANGED <<parse_buf, at_res_list, ret, doubt>>
             /\ parse_buf' \in Seq(Char) /\ LeftoverDoubted'
  <2> DEFINE rest == SubSeq(buf, Len(response) + 1, Len(buf))
  <2>1. /\ buf' = response \o rest
        /\ is_done' = (is_done \/ IsPrefix(Name, response))
        /\ IF is_done' THEN at_res_parse(buf')
                       ELSE UNCHANGED <<parse_buf, at_res_list, ret, doubt>>
    BY <1>2 DEF Answered
  <2>2. rest \in Seq(Char)
    BY <1>1
  <2> HIDE DEF rest
  <2>3. buf' \in Seq(Char)
    BY <2>1, <2>2
  <2>4. is_done' \in BOOLEAN
    BY <2>1
  <2>5. CASE is_done'
    BY <1>1, <2>1, <2>2, <2>3, <2>4, <2>5, ParseLeaves
  <2>6. CASE ~is_done'
    <3>1. UNCHANGED <<parse_buf, at_res_list, ret, doubt>>
      BY <2>1, <2>6
    <3>2. parse_buf' \in Seq(Char) /\ LeftoverDoubted'
      BY <1>1, <3>1 DEF LeftoverDoubted, NothingReadSince
    <3>3. QED
      BY <2>1, <2>2, <2>3, <2>4, <3>2
  <2>7. QED
    BY <2>5, <2>6
<1>3. ASSUME NEW n \in 1..MaxFields, NEW fields \in [1..n -> Fields], said' = fields,
             Answered(Response(fields))
      PROVE  ReaderInv'
  <2>1. n \in Nat /\ n > 0
    <3>1. MaxFields \in Nat
      BY ResponseAssumption
    <3>2. QED
      BY ONLY <3>1, n \in 1..MaxFields
  <2>2. fields \in Seq(Fields) /\ Len(fields) > 0
    BY <2>1, FunctionIsSeq
  <2> DEFINE response == Response(fields)
  <2>3. response \in Seq(Char) /\ IsPrefix(Name, response)
    BY <1>1, <2>2, ResponseParsed
  <2>4. Answered(response)
    BY <1>3
  <2> HIDE DEF response
  <2>5. PICK rest \in Seq(Char) : buf' = response \o rest
    BY <1>2, <2>3, <2>4
  <2>6. /\ buf' \in Seq(Char) /\ is_done' \in BOOLEAN /\ is_done' /\ at_res_parse(buf')
        /\ parse_buf' \in Seq(Char) /\ LeftoverDoubted'
    BY <1>2, <2>3, <2>4
  <2>7. ReadsBack'
    BY <1>1, <1>3, <2>2, <2>5, <2>6, ParseReadsBack DEF response
  <2>8. ResponseHeld'
    BY <1>3, <2>2, <2>5, <2>6 DEF ResponseHeld, response
  <2>9. QED
    BY <2>6, <2>7, <2>8 DEF ReaderInv
<1>4. ASSUME NEW response \in Malformed, said' = NoResponse, Answered(response)
      PROVE  ReaderInv'
  <2>1. response \in Seq(Char)
    BY ResponseAssumption
  <2>2. /\ buf' \in Seq(Char) /\ is_done' \in BOOLEAN
        /\ parse_buf' \in Seq(Char) /\ LeftoverDoubted'
    BY <1>2, <1>4, <2>1
  <2>3. ResponseHeld' /\ ReadsBack'
    BY <1>4 DEF ResponseHeld, ReadsBack
  <2>4. QED
    BY <2>2, <2>3 DEF ReaderInv
<1>5. CASE is_done /\ at_res_parse(buf) /\ UNCHANGED <<buf, is_done, said>>
  <2>1. parse_buf' \in Seq(Char) /\ LeftoverDoubted'
    BY <1>1, <1>5, ParseLeaves
  <2>2. ResponseHeld'
    BY <1>1, <1>5 DEF ResponseHeld
  <2>3. ReadsBack'
    <3>1. CASE said = NoResponse
      BY <1>5, <3>1 DEF ReadsBack
    <3>2. CASE said # NoResponse
      <4>1. said \in Seq(Fields) /\ Len(said) > 0 /\ said' = said
        BY <1>1, <1>5, <3>2 DEF ResponseHeld
      <4>2. PICK rest \in Seq(Char) : buf = Response(said) \o rest
        BY <1>1, <3>2 DEF ResponseHeld
      <4>3. at_res_parse(Response(said) \o rest)
        BY <1>5, <4>2
      <4>4. QED
        BY <1>1, <4>1, <4>3, ParseReadsBack
    <3>3. QED
      BY <3>1, <3>2
  <2>4. QED
    BY <1>1, <1>5, <2>1, <2>2, <2>3 DEF ReaderInv
<1>6. CASE UNCHANGED atVars
  BY <1>1, <1>6 DEF atVars, ReaderInv, ResponseHeld, LeftoverDoubted, NothingReadSince, ReadsBack
<1>7. QED
  BY <1>3, <1>4, <1>5, <1>6 DEF at_cesq_read2

(* The invariant holds whatever responses come, in whatever order.         *)
LEMMA ReaderInvariant == atSpec => []ReaderInv
BY ReaderInit, ReaderNext, PTL DEF atSpec

(* Every response of the right form is read as the modem wrote it, however *)
(* many fields it has and whatever came before it; only the first number   *)
(* after a response that failed may be wrong.                              *)
THEOREM ResponsesReadBack == atSpec => []ReadsBack
<1>1. ReaderInv => ReadsBack
  BY DEF ReaderInv
<1>2. QED
  BY <1>1, ReaderInvariant, PTL
=============================================================================
