---------------------------- MODULE Riscv_proofs ----------------------------
(***************************************************************************)
(* Lemmas about the operators both engines are built from, for every word, *)
(* byte and register-file size and every ALU.                              *)
(***************************************************************************)
EXTENDS Riscv, FiniteSetTheorems, TLAPS

\* ToWord makes a word of every integer.
LEMMA ToWordType == ASSUME NEW n \in Int PROVE ToWord(n) \in Word
BY SizeAssumption DEF ToWord, Word

\* Clearing bit 0 of a word leaves a word.
LEMMA ClearBit0Type == ASSUME NEW w \in Word PROVE ClearBit0(w) \in Word
<1>1. w % 2 \in 0 .. 1 /\ w % 2 <= w
    BY SizeAssumption DEF Word
<1>2. QED
    BY <1>1, SizeAssumption DEF ClearBit0, Word

\* lui and auipc produce words.
LEMMA UpperType ==
    ASSUME NEW pc \in Word, NEW imm \in Int
    PROVE  LuiValue(imm) \in Word /\ AuipcValue(pc, imm) \in Word
<1>1. imm * UShift \in Int /\ pc + imm * UShift \in Int
    BY SizeAssumption DEF Word
<1>2. AuipcValue(pc, imm) \in Word
    BY <1>1, ToWordType DEF AuipcValue
<1>3. (imm * UShift) % HalfSize \in Int
    BY <1>1, SizeAssumption
<1>4. LuiValue(imm) \in Word
    BY <1>3, ToWordType, SizeAssumption DEF LuiValue
<1>5. QED
    BY <1>2, <1>4

\* Every address of a program text reads as an instruction word.
LEMMA ReadInstrType ==
    ASSUME NEW t, IsText(t), NEW a PROVE ReadInstr(t, a) \in Instr
<1>1. ZeroInstr \in Instr
    BY SizeAssumption DEF ZeroInstr, Instr, Opcode, Reg
<1>2. QED
    BY <1>1 DEF IsText, ReadInstr

\* The control unit produces control signals.
LEMMA SignalsType == ASSUME NEW i PROVE SetControlSignals(i) \in ControlSignals
BY DEF SetControlSignals, ControlSignals

\* The control unit selects an operation the ALU has.
LEMMA GetAluSignalType == ASSUME NEW i \in Instr PROVE GetAluSignal(i) \in AluOp
<1>1. i.funct3 \in 0 .. 7
    BY DEF Instr
<1>2. BaseOps[i.funct3 + 1] \in AluOp /\ MulOps[i.funct3 + 1] \in AluOp
    BY <1>1 DEF BaseOps, MulOps, AluOp
<1>3. QED
    BY <1>2 DEF GetAluSignal, AluOp

\* A read returns a number, of any width.
LEMMA ReadType ==
    ASSUME NEW m, IsMemory(m), NEW a \in Int
    PROVE  /\ Read(m, a) \in Int
           /\ Read2(m, a) \in Int
           /\ Read4(m, a) \in Int
           /\ Read8(m, a) \in Int
<1>1. \A b \in Int : Read(m, b) \in Int
    BY SizeAssumption DEF Read, IsMemory
<1>2. \A b \in Int : Read2(m, b) \in Int
    BY <1>1, SizeAssumption DEF Read2
<1>3. \A b \in Int : Read4(m, b) \in Int
    BY <1>2, SizeAssumption DEF Read4
<1>4. \A b \in Int : Read8(m, b) \in Int
    BY <1>3, SizeAssumption DEF Read8
<1>5. QED
    BY <1>1, <1>2, <1>3, <1>4

\* A load returns a word.
LEMMA MemLoadType ==
    ASSUME NEW m, IsMemory(m), NEW a \in Word, NEW f
    PROVE  MemLoad(f, m, a) \in Word
<1>1. a \in Int
    BY SizeAssumption DEF Word
<1>2. /\ Read(m, a) \in Int /\ Read2(m, a) \in Int
      /\ Read4(m, a) \in Int /\ Read8(m, a) \in Int
    BY <1>1, ReadType
<1>3. ByteSize * ByteSize \in Int
    BY SizeAssumption
<1>4. \A v, s \in Int : SignExtend(v, s) \in Int
    BY DEF SignExtend
<1>5. QED
    BY <1>2, <1>3, <1>4, ToWordType, SizeAssumption DEF MemLoad

\* A write leaves a memory.
LEMMA WriteType ==
    ASSUME NEW m, IsMemory(m), NEW a \in Int, NEW v \in Int
    PROVE  IsMemory(Write(m, a, v))
<1>1. ToWord(a) \in Word
    BY ToWordType
<1>2. v % ByteSize \in 0 .. (ByteSize - 1)
    BY SizeAssumption
<1>3. QED
    BY <1>1, <1>2 DEF IsMemory, Write

\* A store leaves a memory.
LEMMA MemStoreType ==
    ASSUME NEW m, IsMemory(m), NEW a \in Word, NEW v \in Word, NEW f
    PROVE  IsMemory(MemStore(f, m, a, v))
<1>1. a \in Int /\ v \in Int
    BY SizeAssumption DEF Word
<1>2. \A n : IsMemory(n) =>
        \A b, w \in Int : IsMemory(Write2(n, b, w))
  <2>1. \A w \in Int : w \div ByteSize \in Int
    BY SizeAssumption
  <2>2. QED
    BY <2>1, WriteType DEF Write2
<1>3. \A n : IsMemory(n) =>
        \A b, w \in Int : IsMemory(Write4(n, b, w))
  <2>1. \A w \in Int : w \div (ByteSize * ByteSize) \in Int
    <3>1. ByteSize * ByteSize \in Nat \ {0}
      BY SizeAssumption
    <3>2. QED
      BY <3>1
  <2>2. QED
    BY <2>1, <1>2 DEF Write4
<1>4. \A n : IsMemory(n) =>
        \A b, w \in Int : IsMemory(Write8(n, b, w))
  <2>1. \A w \in Int : w \div HalfSize \in Int
    BY SizeAssumption
  <2>2. QED
    BY <2>1, <1>3 DEF Write8
<1>5. QED
    BY <1>1, <1>2, <1>3, <1>4, WriteType DEF MemStore
-----------------------------------------------------------------------------
(* Numbers.                                                                *)

\* Induction over the numbers from 0 to n: the initial segments that leave S have
\* a least one.
LEMMA SegmentInduction ==
    ASSUME NEW n \in Nat, NEW S, 0 \in S, \A k \in 0 .. (n - 1) : k \in S => k + 1 \in S
    PROVE  0 .. n \subseteq S
<1> DEFINE T == {0 .. k : k \in (0 .. n) \ S}
<1>1. SUFFICES ASSUME T # {} PROVE FALSE
    OBVIOUS
<1>2. T \subseteq FiniteSubsetsOf(Nat)
  <2>1. \A k \in 0 .. n : IsFiniteSet(0 .. k)
    BY FS_Interval
  <2>2. QED
    BY <2>1 DEF FiniteSubsetsOf
<1>3. PICK X \in T : \A Y \in T : ~(<<Y, X>> \in StrictSubsetOrdering(Nat))
  <2>1. IsWellFoundedOn(StrictSubsetOrdering(Nat), FiniteSubsetsOf(Nat))
    BY FS_StrictSubsetOrderingWellFounded
  <2> HIDE DEF T
  <2>2. QED
    BY <1>1, <1>2, <2>1, WFMin
<1>4. PICK k \in (0 .. n) \ S : X = 0 .. k
    OBVIOUS
<1>5. k # 0 /\ k - 1 \in 0 .. (n - 1)
    OBVIOUS
<1>6. k - 1 \notin S
    BY <1>5
<1>7. 0 .. (k - 1) \in T
    BY <1>5, <1>6
<1>8. <<0 .. (k - 1), 0 .. k>> \in StrictSubsetOrdering(Nat)
  <2>1. k \in 0 .. k /\ k \notin 0 .. (k - 1) /\ 0 .. (k - 1) \subseteq 0 .. k
    BY <1>5
  <2>2. 0 .. k \subseteq Nat /\ 0 .. (k - 1) \subseteq Nat
    OBVIOUS
  <2>3. QED
    BY <2>1, <2>2 DEF StrictSubsetOrdering
<1>9. QED
    BY <1>3, <1>4, <1>7, <1>8

\* The quotient and the remainder of a number are unique.
LEMMA Unique ==
    ASSUME NEW m \in Int, m > 0, NEW q \in Int, NEW r \in 0 .. (m - 1),
           NEW n \in Int, n = q * m + r
    PROVE  n \div m = q /\ n % m = r
OBVIOUS

LEMMA Divided ==
    ASSUME NEW m \in Int, m > 0, NEW n \in Int
    PROVE  n = m * (n \div m) + (n % m) /\ n \div m \in Int /\ n % m \in 0 .. (m - 1)
OBVIOUS

\* The remainder for twice a divisor has the number's lowest bit and the remainder of
\* its half.
LEMMA HalfStep ==
    ASSUME NEW m \in Int, m > 0, NEW n \in Int
    PROVE  (n % 2) + 2 * ((n \div 2) % m) = n % (2 * m)
<1> DEFINE h == n \div 2
           q == h \div m
           r == h % m
           d == 2 * m
           s == 2 * r + (n % 2)
<1>1. n = 2 * h + (n % 2) /\ h \in Int /\ n % 2 \in 0 .. 1
    OBVIOUS
<1>2. h = m * q + r /\ q \in Int /\ r \in 0 .. (m - 1)
    BY <1>1, Divided
<1>3. d \in Int /\ d > 0 /\ s \in 0 .. (d - 1)
    BY <1>1, <1>2
<1> HIDE DEF h, q, r
<1>4. n = q * d + s
    BY <1>1, <1>2
<1> HIDE DEF d, s
<1>5. n % d = s
    BY <1>2, <1>3, <1>4, Unique
<1>6. QED
    BY <1>5 DEF d, s, r, h

\* Half of a quotient is the quotient by twice the divisor.
LEMMA Twice ==
    ASSUME NEW m \in Int, m > 0, NEW n \in Int
    PROVE  (n \div m) \div 2 = n \div (2 * m)
<1> DEFINE h == n \div m
           q == h \div 2
           d == 2 * m
           s == m * (h % 2) + (n % m)
<1>1. n = m * h + (n % m) /\ h \in Int /\ n % m \in 0 .. (m - 1)
    BY Divided
<1>2. h = 2 * q + (h % 2) /\ q \in Int /\ h % 2 \in {0, 1}
    BY <1>1
<1> HIDE DEF h, q
<1>3. d \in Int /\ d > 0 /\ s \in 0 .. (d - 1)
    BY <1>1, <1>2
<1>4. n = q * d + s
    BY <1>1, <1>2
<1> HIDE DEF d, s
<1>5. n \div d = q
    BY <1>2, <1>3, <1>4, Unique
<1>6. QED
    BY <1>5 DEF d, q, h

\* The powers of two that a word of 32 bits needs.
Doubles(n) == 2^n \in Int /\ 2^n > 0 /\ 2^(n + 1) = 2 * 2^n

LEMMA Powers == \A n \in 0 .. 32 : Doubles(n)
<1>1. /\ Doubles(0) /\ Doubles(1) /\ Doubles(2) /\ Doubles(3) /\ Doubles(4) /\ Doubles(5)
      /\ Doubles(6) /\ Doubles(7) /\ Doubles(8) /\ Doubles(9) /\ Doubles(10) /\ Doubles(11)
      /\ Doubles(12) /\ Doubles(13) /\ Doubles(14) /\ Doubles(15) /\ Doubles(16) /\ Doubles(17)
      /\ Doubles(18) /\ Doubles(19) /\ Doubles(20) /\ Doubles(21) /\ Doubles(22) /\ Doubles(23)
      /\ Doubles(24) /\ Doubles(25) /\ Doubles(26) /\ Doubles(27) /\ Doubles(28) /\ Doubles(29)
      /\ Doubles(30) /\ Doubles(31) /\ Doubles(32)
    BY DEF Doubles
<1>2. QED
    BY <1>1
=============================================================================
