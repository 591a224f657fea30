------------------------------ MODULE Checksum ------------------------------
(***************************************************************************)
(* The Internet checksums of nrf91_util.c, over bytes of B values, on a    *)
(* little-endian processor: B is 256 in the code, where the sums are kept  *)
(* in 32 bits and the checksum in 16.                                      *)
(***************************************************************************)
EXTENDS Integers, Sequences

CONSTANT B

ASSUME ByteAssumption == B \in Nat /\ B > 1

Byte == 0..(B - 1)
Half == B * B        \* 2^16
Word == Half * Half  \* 2^32

Half16(bytes, i) == bytes[i] + B * bytes[i + 1]
Half32(bytes, i) == Half16(bytes, i) + Half * Half16(bytes, i + 2)

(* while (sum > 0xFFFF): the carries are added to the low half.            *)
Folded[sum \in Nat] ==
  IF sum < Half THEN sum ELSE Folded[(sum % Half) + (sum \div Half)]

Complement(sum) == (Half - 1) - Folded[sum]

(* A loop that adds one after the other: FoldLeft from zero, as a function *)
(* of the number of turns.                                                 *)
Accumulated(Add(_, _), addends) ==
  LET sum[k \in 0..Len(addends)] ==
        IF k = 0 THEN 0 ELSE Add(sum[k - 1], addends[k])
  IN  sum[Len(addends)]

-----------------------------------------------------------------------------
(* check_ics: words, then a half word and a byte if they remain.           *)

\* Mistake on purpose: the carry out of 32 bits is lost.
AddWithCarry_Lost(hcs, s) == (hcs + s) % Word

AddWithCarry(hcs, s) ==
  LET sum == (hcs + s) % Word IN IF sum < s THEN sum + 1 ELSE sum

Addends(bytes) ==
  LET words == Len(bytes) \div 4
      rest  == Len(bytes) % 4
  IN  [k \in 1..words |-> Half32(bytes, 4 * k - 3)]
      \o (IF rest >= 2 THEN <<Half16(bytes, 4 * words + 1)>> ELSE << >>)
      \o (IF rest % 2 = 1 THEN <<bytes[Len(bytes)]>> ELSE << >>)

check_ics(bytes) ==
  Complement(Accumulated(AddWithCarry, Addends(bytes)))

\* Mistake on purpose: the low byte is not cut out.
Store16_Unmasked(bytes, pos, value) ==
  [bytes EXCEPT ![pos] = value, ![pos + 1] = value \div B]

(* Where the sum belongs is cleared, and the sum stored there, low byte    *)
(* first.                                                                  *)
Store16(bytes, pos, value) ==
  [bytes EXCEPT ![pos] = value % B, ![pos + 1] = value \div B]

calc_ics(bytes, pos) == Store16(bytes, pos, check_ics(Store16(bytes, pos, 0)))

-----------------------------------------------------------------------------
(* ip_checksum2, of a pseudo header and the data behind it.  The pseudo    *)
(* header is always even: the branch for an odd one is left out.           *)

AddFolding(sum, s) ==
  IF sum + s >= Word \div 2 THEN ((sum + s) % Half) + ((sum + s) \div Half)
                            ELSE sum + s

\* Mistake on purpose: the odd byte is taken as the high one.
Halves_OddHigh(bytes) ==
  [k \in 1..(Len(bytes) \div 2) |-> Half16(bytes, 2 * k - 1)]
  \o (IF Len(bytes) % 2 = 1 THEN <<B * bytes[Len(bytes)]>> ELSE << >>)

Halves(bytes) ==
  [k \in 1..(Len(bytes) \div 2) |-> Half16(bytes, 2 * k - 1)]
  \o (IF Len(bytes) % 2 = 1 THEN <<bytes[Len(bytes)]>> ELSE << >>)

ip_checksum2(data1, data2) ==
  Complement(Accumulated(AddFolding, Halves(data1) \o Halves(data2)))

-----------------------------------------------------------------------------
(* The reference, RFC 1071: the complement of the one's complement sum of  *)
(* the 16-bit words, in network order, the last one filled up with zero.   *)
(* It is stored and compared high byte first.                              *)

Plus(sum, s) == sum + s

RfcSum(bytes) ==
  LET value(k) == IF k % 2 = 1 THEN B * bytes[k] ELSE bytes[k]
      total == Accumulated(Plus, [k \in DOMAIN bytes |-> value(k)])
      \* the representative of total modulo Half - 1 that is 0 for 0 only
      sum == IF total = 0 THEN 0 ELSE 1 + ((total - 1) % (Half - 1))
  IN  (Half - 1) - sum
=============================================================================
