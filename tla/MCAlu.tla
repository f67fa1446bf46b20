-------------------------------- MODULE MCAlu --------------------------------
(***************************************************************************)
(* Every pair of operands is given to the operations of the ALU, and the   *)
(* operations that compute parts of one result are compared.               *)
(***************************************************************************)
EXTENDS Alu

VARIABLES a, b

Word == 0 .. (Pow - 1)

Init == a \in Word /\ b = 0
NextOperand == b' = (b + 1) % Pow /\ UNCHANGED a
Spec == Init /\ [][NextOperand]_<<a, b>>

Result(op) == execute(op, a, b)

\* The halves of a product, the high one computed with the signs of its operation
\* (kMulh, kMulhsu, kMulhu of Alu::execute), are the whole product.
ProductHalves ==
    /\ SignedOf(Result("kMulh")) * Pow + Result("kMul") = SignedOf(a) * SignedOf(b)
    /\ SignedOf(Result("kMulhsu")) * Pow + Result("kMul") = SignedOf(a) * b
    /\ Result("kMulhu") * Pow + Result("kMul") = a * b

\* n = q * d + r with a remainder that is smaller than the divisor and has the sign of
\* the dividend.
Divides(n, d, q, r) ==
    d # 0 => n = q * d + r /\ Abs(r) < Abs(d) /\ (r # 0 => Sign(r) = Sign(n))

\* Quotient and remainder of the same operands, of words and of low halves, signed and
\* unsigned, give back the dividend wherever C++ defines them (kDiv to kRemuw).
DivisionPairs ==
    /\ ~Undefined("kRem", a, b) =>
          Divides(SignedOf(a), SignedOf(b), SignedOf(Result("kDiv")), SignedOf(Result("kRem")))
    /\ Divides(a, b, Result("kDivu"), Result("kRemu"))
    /\ ~Undefined("kRemw", a, b) =>
          Divides(SignedLow(a), SignedLow(b), SignedOf(Result("kDivw")),
                  SignedOf(Result("kRemw")))
    /\ ~Undefined("kDivuw", a, b) =>
          Divides(Low(a), Low(b), Result("kDivuw"), Result("kRemuw"))

\* A shift moves every bit by the low bits of its second operand, and what comes in is
\* zero or the sign (kSll, kSrl, kSra).
ShiftsBits ==
    LET n == b % Bits
        Moved(op, i, j, in) ==
            BitOf(Result(op), i) = IF j \in 0 .. (Bits - 1) THEN BitOf(a, j) ELSE in
    IN \A i \in 0 .. (Bits - 1) :
          /\ Moved("kSll", i, i - n, 0)
          /\ Moved("kSrl", i, i + n, 0)
          /\ Moved("kSra", i, i + n, BitOf(a, Bits - 1))

\* A *w operation has the result of the operation on the low halves, whatever the high
\* halves hold, extended by its sign.  kDivuw and kRemuw, which extend with zeros, are
\* left to DivisionPairs.
ExtendsHalves ==
    LET Signed(w) == SignedLow(w) % Pow
        n == b % (Bits \div 2)
        Agrees(opw, op, x, y) == Result(opw) = Signed(execute(op, x, y))
    IN /\ Agrees("kAddw", "kAdd", a, b)
       /\ Agrees("kSubw", "kSub", a, b)
       /\ Agrees("kMulw", "kMul", a, b)
       /\ Agrees("kDivw", "kDiv", Signed(a), Signed(b))
       /\ Agrees("kSllw", "kSll", a, n)
       /\ Agrees("kSrlw", "kSrl", Low(a), n)
       /\ Agrees("kSraw", "kSra", Signed(a), n)
=============================================================================
