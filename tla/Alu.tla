--------------------------------- MODULE Alu ---------------------------------
(***************************************************************************)
(* alu::Alu::execute, the integer operations, on words of Bits bits.  The  *)
(* code's Bits is 64, and the *w operations take the low halves.  The      *)
(* overflow flag of the pair is left out: no caller reads it.  Where C++   *)
(* leaves an operation undefined (Undefined), execute gives the outcome of *)
(* a machine whose division does not trap; on x86 the process ends.        *)
(***************************************************************************)
EXTENDS Integers

CONSTANT Bits

ASSUME BitsAssumption == Bits \in Nat /\ Bits >= 2 /\ Bits % 2 = 0

\* 2^n, by its recursion: proofs about ^ end where the provers' numbers do.
Power[n \in 0 .. Bits] == IF n = 0 THEN 1 ELSE 2 * Power[n - 1]

Half == Power[Bits \div 2]
Low(w) == w % Half
SignedLow(w) == IF 2 * Low(w) < Half THEN Low(w) ELSE Low(w) - Half

Pow == Power[Bits]
SignedOf(w) == IF 2 * w < Pow THEN w ELSE w - Pow

\* Mutant: the half of a *w result is extended with zeros.
ExtendedWithZeros(n) == Low(n)

\* static_cast<uint64_t>(static_cast<int32_t>(n))
Extended(n) == SignedLow(n % Pow) % Pow

BoolWord(b) == IF b THEN 1 ELSE 0

Abs(n) == IF n < 0 THEN -n ELSE n
Sign(n) == IF n < 0 THEN -1 ELSE 1

\* Mutant: division that rounds towards minus infinity.
TruncDivFloor(a, b) == (a * Sign(b)) \div Abs(b)

\* Division and remainder of int64_t: C++ rounds towards zero.
TruncDiv(a, b) == Sign(a) * Sign(b) * (Abs(a) \div Abs(b))
TruncRem(a, b) == a - b * TruncDiv(a, b)

\* The divisor is compared with zero as a whole where its low half divides, and the
\* one quotient that no signed word holds is looked for by kDiv and kDivw alone.
Undefined(op, a, b) ==
    \/ op \in {"kDivuw", "kRemw", "kRemuw"} /\ b # 0 /\ Low(b) = 0
    \/ op = "kRem" /\ SignedOf(a) = -(Pow \div 2) /\ SignedOf(b) = -1
    \/ op = "kRemw" /\ SignedLow(a) = -(Half \div 2) /\ SignedLow(b) = -1

\* Mutant: a negative product is shifted towards zero.
HighTowardsZero(n) == TruncDiv(n, Pow) % Pow

\* The high half of a product.  \div rounds towards minus infinity, as >> does, here
\* and in the arithmetic shifts to the right.
High(n) == (n \div Pow) % Pow

\* Mutant: the mask of a half in the shifts of a word.
ShiftAmountOfHalf(b) == b % (Bits \div 2)

ShiftAmount(b) == b % Bits
ShiftAmountw(b) == b % (Bits \div 2)

\* Bit i of w, and the word of such bits.
BitOf(w, i) == (w \div Power[i]) % 2
FromBits(bits) ==
    LET above[i \in 0 .. Bits] == IF i = Bits THEN 0 ELSE bits[i] + 2 * above[i + 1]
    IN above[0]

\* &, | and ^.
And(a, b) == FromBits([i \in 0 .. (Bits - 1) |-> BitOf(a, i) * BitOf(b, i)])
Or(a, b) == FromBits([i \in 0 .. (Bits - 1) |-> IF BitOf(a, i) + BitOf(b, i) > 0 THEN 1 ELSE 0])
Xor(a, b) == FromBits([i \in 0 .. (Bits - 1) |-> (BitOf(a, i) + BitOf(b, i)) % 2])

executew(op, a, b) ==
    LET sa == SignedLow(a)
        sb == SignedLow(b)
    IN CASE op = "kAddw" -> Extended(sa + sb)
         [] op = "kSubw" -> Extended(sa - sb)
         [] op = "kMulw" -> Extended(sa * sb)
         [] op = "kDivw" -> IF sb = 0 THEN 0 ELSE Extended(TruncDiv(sa, sb))
         [] op = "kDivuw" -> IF Low(b) = 0 THEN 0 ELSE Low(a) \div Low(b)
         [] op = "kRemw" -> CASE b = 0 -> 0
                              [] sb = 0 -> Extended(sa)
                              [] OTHER -> Extended(TruncRem(sa, sb))
         [] op = "kRemuw" -> CASE b = 0 -> 0
                               [] Low(b) = 0 -> Low(a)
                               [] OTHER -> Low(a) % Low(b)
         [] op = "kSllw" -> Extended(Low(a) * Power[ShiftAmountw(b)])
         [] op = "kSrlw" -> Extended(Low(a) \div Power[ShiftAmountw(b)])
         [] op = "kSraw" -> Extended(sa \div Power[ShiftAmountw(b)])
         [] OTHER -> 0

execute(op, a, b) ==
    LET sa == SignedOf(a)
        sb == SignedOf(b)
    IN CASE op = "kAdd" -> (sa + sb) % Pow
         [] op = "kSub" -> (sa - sb) % Pow
         [] op = "kMul" -> (sa * sb) % Pow
         [] op = "kMulh" -> High(sa * sb)
         [] op = "kMulhsu" -> High(sa * b)
         [] op = "kMulhu" -> High(a * b)
         [] op = "kDiv" -> CASE sb = 0 -> 0
                             [] sa = -(Pow \div 2) /\ sb = -1 -> (Pow \div 2) - 1
                             [] OTHER -> TruncDiv(sa, sb) % Pow
         [] op = "kDivu" -> IF b = 0 THEN 0 ELSE a \div b
         [] op = "kRem" -> IF b = 0 THEN 0 ELSE TruncRem(sa, sb) % Pow
         [] op = "kRemu" -> IF b = 0 THEN 0 ELSE a % b
         [] op = "kAnd" -> And(a, b)
         [] op = "kOr" -> Or(a, b)
         [] op = "kXor" -> Xor(a, b)
         [] op = "kSll" -> (a * Power[ShiftAmount(b)]) % Pow
         [] op = "kSrl" -> a \div Power[ShiftAmount(b)]
         [] op = "kSra" -> (sa \div Power[ShiftAmount(b)]) % Pow
         [] op = "kSlt" -> BoolWord(sa < sb)
         [] op = "kSltu" -> BoolWord(a < b)
         [] OTHER -> executew(op, a, b)
=============================================================================
