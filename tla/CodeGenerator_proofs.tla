------------------------ MODULE CodeGenerator_proofs ------------------------
(***************************************************************************)
(* Every unit whose number its format has room for is decoded from its     *)
(* word as what was written: the parts that generateMachineCode ors into   *)
(* a word do not overlap where the VM extracts a field, the immediate is   *)
(* put together again with its sign, and the tables, the control unit and  *)
(* the branches agree on every mnemonic.                                   *)
(***************************************************************************)
EXTENDS CodeGenerator, Riscv_proofs

\* Numbers of width bits, above[at] being a whole field and above[i] its part from bit i on.
Solves(above, word, at, width) ==
    above = [i \in at .. (at + width) |->
                IF i = at + width THEN 0 ELSE word[i] + 2 * above[i + 1]]

\* The equation by which Extract is defined has a solution.
LEMMA ExtractExists ==
    ASSUME NEW word, NEW at \in Nat, NEW width \in Nat
    PROVE  \E above : Solves(above, word, at, width)
<1> DEFINE End == at + width
           S == {k \in 0 .. width : \E above :
                    above = [i \in (End - k) .. End |->
                                IF i = End THEN 0 ELSE word[i] + 2 * above[i + 1]]}
<1>1. 0 \in S
  <2> DEFINE f == [i \in (End - 0) .. End |-> 0]
  <2>1. f = [i \in (End - 0) .. End |-> IF i = End THEN 0 ELSE word[i] + 2 * f[i + 1]]
    OBVIOUS
  <2> HIDE DEF f
  <2>2. QED
    BY <2>1
<1>2. ASSUME NEW k \in 0 .. (width - 1), k \in S PROVE k + 1 \in S
  <2>1. PICK g : g = [i \in (End - k) .. End |->
                        IF i = End THEN 0 ELSE word[i] + 2 * g[i + 1]]
    BY <1>2
  <2> DEFINE low == End - (k + 1)
             f == [i \in low .. End |-> IF i = low THEN word[low] + 2 * g[low + 1] ELSE g[i]]
  <2>2. low \in Nat /\ low < End /\ low + 1 = End - k /\ End \in Nat
    OBVIOUS
  <2> HIDE DEF low
  <2>3. \A i \in (low + 1) .. End : f[i] = g[i]
    BY <2>2
  <2>4. ASSUME NEW i \in low .. End
        PROVE  f[i] = IF i = End THEN 0 ELSE word[i] + 2 * f[i + 1]
    <3>1. CASE i = low
      BY <3>1, <2>2
    <3>2. CASE i # low
      <4>1. i \in (low + 1) .. End /\ (i # End => i + 1 \in (low + 1) .. End)
        BY <3>2, <2>2
      <4>2. QED
        BY <4>1, <2>1, <2>2, <2>3
    <3>3. QED
      BY <3>1, <3>2
  <2>5. f = [i \in low .. End |-> IF i = End THEN 0 ELSE word[i] + 2 * f[i + 1]]
    BY <2>4
  <2> HIDE DEF f
  <2>6. QED
    BY <2>5 DEF low
<1> HIDE DEF S
<1>3. width \in S
  <2>1. 0 .. width \subseteq S
    BY <1>1, <1>2, SegmentInduction
  <2>2. QED
    BY <2>1
<1>4. QED
  <2>1. (at + width) - width = at
    OBVIOUS
  <2>2. QED
    BY <1>3, <2>1 DEF S, Solves

\* The bits of a number from bit from on, width of them, as a number, and a word that
\* holds them at bit at.
PartOf(v, from, width) == (v \div 2^from) % 2^width
Holds(word, at, width, v, from) ==
    /\ v \in Int /\ from \in Nat /\ at \in Nat /\ width \in Nat /\ from + width =< 32
    /\ \A j \in 0 .. (width - 1) : word[at + j] = Bit(v, from + j)

\* A field of a word whose bits are bits of a number is that part of the number.
LEMMA ExtractField ==
    ASSUME NEW word, NEW at, NEW width, NEW v, NEW from, Holds(word, at, width, v, from)
    PROVE  Extract(word, at, width) = PartOf(v, from, width)
<1>0. /\ v \in Int /\ from \in Nat /\ at \in Nat /\ width \in Nat /\ from + width =< 32
      /\ \A j \in 0 .. (width - 1) : word[at + j] = Bit(v, from + j)
    BY DEF Holds
<1> USE <1>0
<1> DEFINE above == CHOOSE g : Solves(g, word, at, width)
           part(k) == (v \div 2^(from + width - k)) % 2^k
           S == {k \in 0 .. width : above[at + width - k] = part(k)}
<1>1. Solves(above, word, at, width)
    BY ExtractExists
<1>2. Extract(word, at, width) = above[at]
    BY DEF Extract, Solves
<1> HIDE DEF above
<1>3. 0 \in S
  <2>1. above[at + width] = 0
    BY <1>1 DEF Solves
  <2>2. 2^(from + width) \in Int /\ 2^(from + width) > 0
    <3>1. Doubles(from + width)
      BY Powers
    <3>2. QED
      BY <3>1 DEF Doubles
  <2>3. v \div 2^(from + width) \in Int
    BY <2>2, Divided
  <2>4. (v \div 2^(from + width)) % 1 = 0
    BY <2>3
  <2>5. QED
    BY <2>1, <2>4
<1>4. ASSUME NEW k \in 0 .. (width - 1), k \in S PROVE k + 1 \in S
  <2> DEFINE i == width - (k + 1)
             n == v \div 2^(from + i)
  <2>1. i \in 0 .. (width - 1) /\ from + i \in 0 .. 31 /\ k \in 0 .. 31
    OBVIOUS
  <2>2. above[at + i] = word[at + i] + 2 * above[at + i + 1]
    BY <1>1, <2>1 DEF Solves
  <2>3. above[at + i + 1] = (v \div 2^(from + i + 1)) % 2^k
    <3>1. at + width - k = at + i + 1 /\ from + width - k = from + i + 1
      OBVIOUS
    <3>2. QED
      BY <1>4, <3>1
  <2>4. word[at + i] = n % 2
    BY <2>1 DEF Bit
  <2>5. /\ 2^(from + i) \in Int /\ 2^(from + i) > 0 /\ 2^(from + i + 1) = 2 * 2^(from + i)
        /\ 2^k \in Int /\ 2^k > 0 /\ 2^(k + 1) = 2 * 2^k
    <3>1. Doubles(from + i) /\ Doubles(k)
      BY <2>1, Powers
    <3>2. QED
      BY <3>1 DEF Doubles
  <2>6. n \in Int /\ n \div 2 = v \div 2^(from + i + 1)
    <3> DEFINE m == 2^(from + i)
    <3>1. m \in Int /\ m > 0
      BY <2>5
    <3> HIDE DEF m
    <3>2. v \div m \in Int /\ (v \div m) \div 2 = v \div (2 * m)
      BY <3>1, Divided, Twice
    <3>3. QED
      BY <2>5, <3>2 DEF m
  <2>7. (n % 2) + 2 * ((n \div 2) % 2^k) = n % 2^(k + 1)
    BY <2>5, <2>6, HalfStep
  <2> HIDE DEF n
  <2>8. above[at + i] = n % 2^(k + 1)
    BY <2>2, <2>3, <2>4, <2>6, <2>7
  <2>9. at + width - (k + 1) = at + i /\ from + width - (k + 1) = from + i
    OBVIOUS
  <2>10. QED
    BY <2>8, <2>9 DEF n
<1> HIDE DEF S
<1>5. width \in S
  <2>1. 0 .. width \subseteq S
    BY <1>3, <1>4, SegmentInduction
  <2>2. QED
    BY <2>1
<1>6. QED
  <2>1. at + width - width = at /\ from + width - width = from
    OBVIOUS
  <2>2. QED
    BY <1>2, <1>5, <2>1 DEF S, PartOf

\* Part q leaves the bits from at on, width of them, to the others.
Quiet(q, at, width) == q.value = 0 \/ q.at + q.width =< at \/ at + width =< q.at

IsPart(q) == q.value \in Int /\ q.from \in Nat /\ q.width \in Nat /\ q.at \in Nat
             /\ q.from + q.width =< 32 /\ q.at + q.width =< 32

\* A field that one part covers and no other touches holds the part's bits.
LEMMA FieldOfPart ==
    ASSUME NEW parts, \A q \in parts : IsPart(q),
           NEW p \in parts, NEW at \in Nat, NEW width \in Nat,
           p.at =< at, at + width =< p.at + p.width,
           \A q \in parts : q # p => Quiet(q, at, width)
    PROVE  Extract(OrOf(parts), at, width) = PartOf(p.value, p.from + (at - p.at), width)
<1> DEFINE from == p.from + (at - p.at)
<1>1. /\ p.at \in Nat /\ p.width \in Nat /\ p.from \in Nat /\ p.value \in Int
      /\ from \in Nat /\ from + width =< 32 /\ at + width =< 32
    BY DEF IsPart
<1>2. ASSUME NEW j \in 0 .. (width - 1)
      PROVE  OrOf(parts)[at + j] = Bit(p.value, from + j)
  <2> DEFINE b == at + j
  <2>1. b \in 0 .. 31 /\ b \in p.at .. (p.at + p.width - 1) /\ p.from + b - p.at = from + j
    BY <1>1
  <2>2. ASSUME NEW q \in parts, q # p, b \in q.at .. (q.at + q.width - 1)
        PROVE  Bit(q.value, q.from + b - q.at) = 0
    <3>1. q.value = 0 /\ q.from + b - q.at \in 0 .. 32
      <4>1. IsPart(q) /\ Quiet(q, at, width)
        BY <2>2
      <4>2. at =< b /\ b < at + width /\ b \in Nat
        BY <1>1
      <4>3. /\ q.at \in Nat /\ q.width \in Nat /\ q.from \in Nat
            /\ q.from + q.width =< 32
        BY <4>1 DEF IsPart
      <4>4. q.at =< b /\ b < q.at + q.width
        BY <2>2, <4>2, <4>3
      <4> HIDE DEF b
      <4>5. q.value = 0
        BY <4>1, <4>2, <4>3, <4>4 DEF Quiet
      <4>6. q.from + b - q.at \in 0 .. 32
        BY <4>2, <4>3, <4>4
      <4>7. QED
        BY <4>5, <4>6
    <3> DEFINE i == q.from + b - q.at
    <3>2. Doubles(i)
      <4> HIDE DEF i
      <4>1. QED
        BY <3>1, Powers DEF i
    <3>3. 0 \div 2^(q.from + b - q.at) = 0
      BY <3>2 DEF Doubles
    <3>4. QED
      BY <3>1, <3>3 DEF Bit
  <2>3. Bit(p.value, from + j) \in {0, 1}
    <3>1. Doubles(from + j)
      BY <1>1, Powers
    <3>2. p.value \div 2^(from + j) \in Int
      BY <3>1, <1>1, Divided DEF Doubles
    <3>3. QED
      BY <3>2 DEF Bit
  <2> HIDE DEF b, from
  <2>4. OrOf(parts)[b] = IF \E q \in parts : /\ b \in q.at .. (q.at + q.width - 1)
                                            /\ Bit(q.value, q.from + b - q.at) = 1
                         THEN 1 ELSE 0
    BY <2>1 DEF OrOf
  <2>5. CASE Bit(p.value, from + j) = 1
    <3>1. Bit(p.value, p.from + b - p.at) = 1
      BY <2>1, <2>5
    <3>2. QED
      BY <2>1, <2>4, <2>5, <3>1 DEF b
  <2>6. CASE Bit(p.value, from + j) = 0
    <3>1. ~ \E q \in parts : /\ b \in q.at .. (q.at + q.width - 1)
                             /\ Bit(q.value, q.from + b - q.at) = 1
      <4>1. Bit(p.value, p.from + b - p.at) = 0
        BY <2>1, <2>6
      <4>2. \A q \in parts : b \in q.at .. (q.at + q.width - 1) =>
                Bit(q.value, q.from + b - q.at) = 0
        BY <2>2, <4>1 DEF b
      <4>3. QED
        BY <4>2
    <3>2. QED
      BY <3>1, <2>4, <2>6 DEF b
  <2>7. QED
    BY <2>3, <2>5, <2>6
<1> HIDE DEF from
<1>3. Holds(OrOf(parts), at, width, p.value, from)
    BY <1>1, <1>2 DEF Holds
<1>4. QED
    BY <1>3, ExtractField DEF from

-----------------------------------------------------------------------------
(* The words of units.                                                     *)

\* The rows of the tables.
Row(e) ==
    /\ e.format \in {"R", "I1", "I2", "I3", "S", "B", "U", "J"}
    /\ e.opcode \in 0 .. 127 /\ e.funct3 \in 0 .. 7 /\ e.funct7 \in {0, 1, 32}
    /\ e.format = "R" => e.opcode = 51
    /\ e.format = "I1" => e.opcode \in {3, 19, 103} /\ e.funct7 = 0
    /\ e.format = "I2" => e.opcode = 19 /\ e.funct7 \in {0, 32}
    /\ e.format = "I3" => e.opcode = 115 /\ e.funct7 = 0
    /\ e.format = "S" => e.opcode = 35 /\ e.funct7 = 0
    /\ e.format = "B" => e.opcode = 99 /\ e.funct7 = 0
    /\ e.format = "U" => e.opcode \in {23, 55} /\ e.funct3 = 0 /\ e.funct7 = 0
    /\ e.format = "J" => e.opcode = 111 /\ e.funct3 = 0 /\ e.funct7 = 0

LEMMA Rows == ASSUME NEW m \in Mnemonic PROVE Row(EncodingOf(m))
<1>1. ASSUME NEW n \in DOMAIN R_type_instruction_encoding_map
      PROVE  Row(R_type_instruction_encoding_map[n])
  <2> DEFINE r == R_type_instruction_encoding_map[n]
  <2>1. r.format = "R" /\ r.opcode = 51
    BY DEF R_type_instruction_encoding_map, Enc
  <2>2. r.funct3 \in 0 .. 7
    BY DEF R_type_instruction_encoding_map, Enc
  <2>3. r.funct7 \in {0, 1, 32}
    BY DEF R_type_instruction_encoding_map, Enc
  <2> HIDE DEF r
  <2>4. Row(r)
    BY <2>1, <2>2, <2>3 DEF Row
  <2>5. QED
    BY <2>4 DEF r
<1>2. ASSUME NEW n \in DOMAIN I_type_instruction_encoding_map
      PROVE  Row(I_type_instruction_encoding_map[n])
  <2> DEFINE r == I_type_instruction_encoding_map[n]
  <2>1. \/ r.format = "I1" /\ r.opcode \in {3, 19, 103} /\ r.funct7 = 0
        \/ r.format = "I2" /\ r.opcode = 19 /\ r.funct7 \in {0, 32}
        \/ r.format = "I3" /\ r.opcode = 115 /\ r.funct7 = 0
    BY DEF I_type_instruction_encoding_map, Enc
  <2>2. r.funct3 \in 0 .. 7
    BY DEF I_type_instruction_encoding_map, Enc
  <2> HIDE DEF r
  <2>3. Row(r)
    BY <2>1, <2>2 DEF Row
  <2>4. QED
    BY <2>3 DEF r
<1>3. ASSUME NEW n \in DOMAIN OtherEncodings
      PROVE  Row(OtherEncodings[n])
  <2> DEFINE r == OtherEncodings[n]
  <2>1. \/ r.format \in {"S", "B"} /\ r.opcode = (IF r.format = "S" THEN 35 ELSE 99)
        \/ r.format = "U" /\ r.opcode \in {23, 55} /\ r.funct3 = 0
        \/ r.format = "J" /\ r.opcode = 111 /\ r.funct3 = 0
    BY DEF OtherEncodings, Enc
  <2>2. r.funct3 \in 0 .. 7 /\ r.funct7 = 0
    BY DEF OtherEncodings, Enc
  <2> HIDE DEF r
  <2>3. Row(r)
    BY <2>1, <2>2 DEF Row
  <2>4. QED
    BY <2>3 DEF r
<1>4. QED
    BY <1>1, <1>2, <1>3, Zenon DEF EncodingOf, Mnemonic

\* Units with registers that a word has room for.
Writable(u) ==
    /\ u.opcode \in Mnemonic /\ u.imm \in Int
    /\ u.rd \in 0 .. 31 /\ u.rs1 \in 0 .. 31 /\ u.rs2 \in 0 .. 31

\* The parts of a unit's word are parts of a word.
LEMMA PartsFit == ASSUME NEW u, Writable(u) PROVE \A q \in Parts(u) : IsPart(q)
<1> DEFINE e == EncodingOf(u.opcode)
<1>1. Row(e)
    BY Rows DEF Writable
<1>2. Parts(u) = {Part(e.opcode, 0, 7, 0), Part(e.funct3, 0, 3, 12), Part(e.funct7, 0, 7, 25)}
                   \cup ImmediateParts(e.format, u.imm)
                   \cup (IF HasRd(e.format) THEN {Part(u.rd, 0, 5, 7)} ELSE {})
                   \cup (IF HasRs1(e.format) THEN {Part(u.rs1, 0, 5, 15)} ELSE {})
                   \cup (IF HasRs2(e.format) THEN {Part(u.rs2, 0, 5, 20)} ELSE {})
    BY DEF Parts
<1> HIDE DEF e
<1>3. \A q \in ImmediateParts(e.format, u.imm) : IsPart(q)
    BY <1>1 DEF ImmediateParts, Part, IsPart, Row, Writable
<1>4. QED
    BY <1>1, <1>2, <1>3 DEF Part, IsPart, Row, Writable

\* The fields that hold no immediate.
LEMMA FixedFields ==
    ASSUME NEW u, Writable(u), NEW e, e = EncodingOf(u.opcode)
    PROVE  LET word == MachineCode(u)
           IN /\ Extract(word, 0, 7) = e.opcode
              /\ HasRd(e.format) => Extract(word, 7, 5) = u.rd
              /\ HasRs1(e.format) => Extract(word, 15, 5) = u.rs1
              /\ HasRs2(e.format) => Extract(word, 20, 5) = u.rs2
              /\ e.format \notin {"U", "J"} => Extract(word, 12, 3) = e.funct3
              /\ e.format = "R" => Extract(word, 25, 7) = e.funct7
<1> DEFINE parts == Parts(u)
<1>1. Row(e)
    BY Rows DEF Writable
<1>2. parts = {Part(e.opcode, 0, 7, 0), Part(e.funct3, 0, 3, 12), Part(e.funct7, 0, 7, 25)}
                   \cup ImmediateParts(e.format, u.imm)
                   \cup (IF HasRd(e.format) THEN {Part(u.rd, 0, 5, 7)} ELSE {})
                   \cup (IF HasRs1(e.format) THEN {Part(u.rs1, 0, 5, 15)} ELSE {})
                   \cup (IF HasRs2(e.format) THEN {Part(u.rs2, 0, 5, 20)} ELSE {})
    BY DEF Parts
<1>3. \A q \in parts : IsPart(q)
    BY PartsFit
<1>4. MachineCode(u) = OrOf(parts)
    BY DEF MachineCode
<1> HIDE DEF parts
<1> DEFINE Alone(v, width, at) ==
               /\ Part(v, 0, width, at) \in parts /\ v \in 0 .. (2^width - 1)
               /\ \A q \in parts : q # Part(v, 0, width, at) => Quiet(q, at, width)
<1>5. ASSUME NEW v, NEW width \in {3, 5, 7}, NEW at \in 0 .. 31, Alone(v, width, at)
      PROVE  Extract(MachineCode(u), at, width) = v
  <2> DEFINE p == Part(v, 0, width, at)
  <2>1. p \in parts /\ p.value = v /\ p.from = 0 /\ p.width = width /\ p.at = at
    BY <1>5 DEF Part
  <2> HIDE DEF p
  <2>2. /\ p.at =< at /\ at + width =< p.at + p.width
        /\ \A q \in parts : q # p => Quiet(q, at, width)
    BY <1>5, <2>1 DEF p
  <2>3. Extract(OrOf(parts), at, width) = PartOf(p.value, p.from + (at - p.at), width)
    BY <1>3, <2>1, <2>2, FieldOfPart
  <2>4. p.from + (at - p.at) = 0
    BY <2>1
  <2>5. PartOf(v, 0, width) = v
    BY <1>5 DEF PartOf
  <2>6. QED
    BY <1>4, <2>1, <2>3, <2>4, <2>5
<1> HIDE DEF Alone
<1>6. Extract(MachineCode(u), 0, 7) = e.opcode
  <2>1. Part(e.opcode, 0, 7, 0) \in parts
    BY <1>2
  <2>2. e.opcode \in 0 .. (2^7 - 1)
    BY <1>1 DEF Row
  <2>3. \A q \in parts : q # Part(e.opcode, 0, 7, 0) => Quiet(q, 0, 7)
    <3>1. \A q \in ImmediateParts(e.format, u.imm) : Quiet(q, 0, 7)
      BY <1>1 DEF Part, Quiet, ImmediateParts, Row
    <3>2. QED
      BY <1>1, <1>2, <3>1 DEF Part, Quiet, Row, Writable
  <2>4. Alone(e.opcode, 7, 0)
    BY <2>1, <2>2, <2>3 DEF Alone
  <2>5. QED
    BY <1>5, <2>4
<1>7. ASSUME HasRd(e.format) PROVE Extract(MachineCode(u), 7, 5) = u.rd
  <2>1. Part(u.rd, 0, 5, 7) \in parts
    BY <1>2, <1>7
  <2>2. u.rd \in 0 .. (2^5 - 1)
    BY DEF Writable
  <2>3. \A q \in parts : q # Part(u.rd, 0, 5, 7) => Quiet(q, 7, 5)
    <3>1. \A q \in ImmediateParts(e.format, u.imm) : Quiet(q, 7, 5)
      BY <1>1, <1>7 DEF Part, Quiet, ImmediateParts, HasRd, Row
    <3>2. QED
      BY <1>1, <1>2, <3>1, <1>7 DEF Part, Quiet, HasRd, Row, Writable
  <2>4. Alone(u.rd, 5, 7)
    BY <2>1, <2>2, <2>3 DEF Alone
  <2>5. QED
    BY <1>5, <2>4
<1>8. ASSUME HasRs1(e.format) PROVE Extract(MachineCode(u), 15, 5) = u.rs1
  <2>1. Part(u.rs1, 0, 5, 15) \in parts
    BY <1>2, <1>8
  <2>2. u.rs1 \in 0 .. (2^5 - 1)
    BY DEF Writable
  <2>3. \A q \in parts : q # Part(u.rs1, 0, 5, 15) => Quiet(q, 15, 5)
    <3>1. \A q \in ImmediateParts(e.format, u.imm) : Quiet(q, 15, 5)
      BY <1>1, <1>8 DEF Part, Quiet, ImmediateParts, HasRs1, Row
    <3>2. QED
      BY <1>1, <1>2, <3>1, <1>8 DEF Part, Quiet, HasRs1, Row, Writable
  <2>4. Alone(u.rs1, 5, 15)
    BY <2>1, <2>2, <2>3 DEF Alone
  <2>5. QED
    BY <1>5, <2>4
<1>9. ASSUME HasRs2(e.format) PROVE Extract(MachineCode(u), 20, 5) = u.rs2
  <2>1. Part(u.rs2, 0, 5, 20) \in parts
    BY <1>2, <1>9
  <2>2. u.rs2 \in 0 .. (2^5 - 1)
    BY DEF Writable
  <2>3. \A q \in parts : q # Part(u.rs2, 0, 5, 20) => Quiet(q, 20, 5)
    <3>1. \A q \in ImmediateParts(e.format, u.imm) : Quiet(q, 20, 5)
      BY <1>1, <1>9 DEF Part, Quiet, ImmediateParts, HasRs2, Row
    <3>2. QED
      BY <1>1, <1>2, <3>1, <1>9 DEF Part, Quiet, HasRs2, Row, Writable
  <2>4. Alone(u.rs2, 5, 20)
    BY <2>1, <2>2, <2>3 DEF Alone
  <2>5. QED
    BY <1>5, <2>4
<1>10. ASSUME e.format \notin {"U", "J"} PROVE Extract(MachineCode(u), 12, 3) = e.funct3
  <2>1. Part(e.funct3, 0, 3, 12) \in parts
    BY <1>2, <1>10
  <2>2. e.funct3 \in 0 .. (2^3 - 1)
    BY <1>1 DEF Row
  <2>3. \A q \in parts : q # Part(e.funct3, 0, 3, 12) => Quiet(q, 12, 3)
    <3>1. \A q \in ImmediateParts(e.format, u.imm) : Quiet(q, 12, 3)
      BY <1>1, <1>10 DEF Part, Quiet, ImmediateParts, Row
    <3>2. QED
      BY <1>1, <1>2, <3>1, <1>10 DEF Part, Quiet, Row, Writable
  <2>4. Alone(e.funct3, 3, 12)
    BY <2>1, <2>2, <2>3 DEF Alone
  <2>5. QED
    BY <1>5, <2>4
<1>11. ASSUME e.format = "R" PROVE Extract(MachineCode(u), 25, 7) = e.funct7
  <2>1. Part(e.funct7, 0, 7, 25) \in parts
    BY <1>2, <1>11
  <2>2. e.funct7 \in 0 .. (2^7 - 1)
    BY <1>1 DEF Row
  <2>3. \A q \in parts : q # Part(e.funct7, 0, 7, 25) => Quiet(q, 25, 7)
    <3>1. \A q \in ImmediateParts(e.format, u.imm) : Quiet(q, 25, 7)
      BY <1>1, <1>11 DEF Part, Quiet, ImmediateParts, Row
    <3>2. QED
      BY <1>1, <1>2, <3>1, <1>11 DEF Part, Quiet, Row, Writable
  <2>4. Alone(e.funct7, 7, 25)
    BY <2>1, <2>2, <2>3 DEF Alone
  <2>5. QED
    BY <1>5, <2>4
<1>12. QED
    BY <1>6, <1>7, <1>8, <1>9, <1>10, <1>11

\* A part that no other touches is extracted whole.
LEMMA WholePart ==
    ASSUME NEW u, Writable(u), NEW v, NEW from, NEW width, NEW at,
           Part(v, from, width, at) \in Parts(u),
           \A q \in Parts(u) : q # Part(v, from, width, at) => Quiet(q, at, width)
    PROVE  Extract(MachineCode(u), at, width) = PartOf(v, from, width)
<1> DEFINE p == Part(v, from, width, at)
           parts == Parts(u)
<1>1. /\ p.value = v /\ p.from = from /\ p.width = width /\ p.at = at
      /\ p \in parts /\ \A q \in parts : q # p => Quiet(q, at, width)
    BY DEF Part
<1>2. \A q \in parts : IsPart(q)
    BY PartsFit
<1> HIDE DEF p, parts
<1>3. at \in Nat /\ width \in Nat /\ from \in Nat
    BY <1>1, <1>2 DEF IsPart
<1>4. p.at =< at /\ at + width =< p.at + p.width /\ p.from + (at - p.at) = from
    BY <1>1, <1>3
<1>5. Extract(OrOf(parts), at, width) = PartOf(p.value, p.from + (at - p.at), width)
    BY <1>1, <1>2, <1>3, <1>4, FieldOfPart
<1>6. QED
    BY <1>1, <1>4, <1>5 DEF MachineCode, parts

\* The fields of the immediates.
LEMMA ImmediateFields ==
    ASSUME NEW u, Writable(u), NEW format, format = FormatOf(u.opcode)
    PROVE  LET word == MachineCode(u)
           IN /\ format = "I1" => Extract(word, 20, 12) = u.imm % 4096
              /\ format = "S" => /\ Extract(word, 7, 5) = u.imm % 32
                                 /\ Extract(word, 25, 7) = (u.imm \div 32) % 128
              /\ format = "B" => /\ Extract(word, 8, 4) = (u.imm \div 2) % 16
                                 /\ Extract(word, 25, 6) = (u.imm \div 32) % 64
                                 /\ Extract(word, 7, 1) = (u.imm \div 2048) % 2
                                 /\ Extract(word, 31, 1) = (u.imm \div 4096) % 2
              /\ format = "U" => Extract(word, 12, 20) = u.imm % 1048576
              /\ format = "J" => /\ Extract(word, 21, 10) = (u.imm \div 2) % 1024
                                 /\ Extract(word, 20, 1) = (u.imm \div 2048) % 2
                                 /\ Extract(word, 12, 8) = (u.imm \div 4096) % 256
                                 /\ Extract(word, 31, 1) = (u.imm \div 1048576) % 2
<1> DEFINE e == EncodingOf(u.opcode)
           parts == Parts(u)
           Alone(p) == p \in parts /\ \A q \in parts : q # p => Quiet(q, p.at, p.width)
<1>1. Row(e) /\ e.format = format
    BY Rows DEF Writable, FormatOf
<1>2. parts = {Part(e.opcode, 0, 7, 0), Part(e.funct3, 0, 3, 12), Part(e.funct7, 0, 7, 25)}
                \cup ImmediateParts(e.format, u.imm)
                \cup (IF HasRd(e.format) THEN {Part(u.rd, 0, 5, 7)} ELSE {})
                \cup (IF HasRs1(e.format) THEN {Part(u.rs1, 0, 5, 15)} ELSE {})
                \cup (IF HasRs2(e.format) THEN {Part(u.rs2, 0, 5, 20)} ELSE {})
    BY DEF Parts
<1>3. \A v, from, width, at : Alone(Part(v, from, width, at)) =>
          Extract(MachineCode(u), at, width) = PartOf(v, from, width)
    BY WholePart DEF Part
<1> HIDE DEF e, parts
<1>4. ASSUME format = "I1" PROVE Extract(MachineCode(u), 20, 12) = u.imm % 4096
  <2>1. Alone(Part(u.imm, 0, 12, 20))
    BY <1>1, <1>2, <1>4 DEF Part, Quiet, ImmediateParts, HasRd, HasRs1, HasRs2, Row
  <2> HIDE DEF Alone
  <2>2. PartOf(u.imm, 0, 12) = u.imm % 4096
    BY DEF PartOf, Writable
  <2>3. QED
    BY <1>3, <2>1, <2>2
<1>5. ASSUME format = "S"
      PROVE  /\ Extract(MachineCode(u), 7, 5) = u.imm % 32
             /\ Extract(MachineCode(u), 25, 7) = (u.imm \div 32) % 128
  <2>1. Alone(Part(u.imm, 0, 5, 7)) /\ Alone(Part(u.imm, 5, 7, 25))
    BY <1>1, <1>2, <1>5 DEF Part, Quiet, ImmediateParts, HasRd, HasRs1, HasRs2, Row
  <2> HIDE DEF Alone
  <2>2. /\ PartOf(u.imm, 0, 5) = u.imm % 32
        /\ PartOf(u.imm, 5, 7) = (u.imm \div 32) % 128
    BY DEF PartOf, Writable
  <2>3. QED
    BY <1>3, <2>1, <2>2
<1>6. ASSUME format = "B"
      PROVE  /\ Extract(MachineCode(u), 8, 4) = (u.imm \div 2) % 16
             /\ Extract(MachineCode(u), 25, 6) = (u.imm \div 32) % 64
             /\ Extract(MachineCode(u), 7, 1) = (u.imm \div 2048) % 2
             /\ Extract(MachineCode(u), 31, 1) = (u.imm \div 4096) % 2
  <2>1. /\ Alone(Part(u.imm, 12, 1, 31)) /\ Alone(Part(u.imm, 5, 6, 25))
        /\ Alone(Part(u.imm, 1, 4, 8)) /\ Alone(Part(u.imm, 11, 1, 7))
    BY <1>1, <1>2, <1>6 DEF Part, Quiet, ImmediateParts, HasRd, HasRs1, HasRs2, Row
  <2> HIDE DEF Alone
  <2>2. /\ PartOf(u.imm, 1, 4) = (u.imm \div 2) % 16
        /\ PartOf(u.imm, 5, 6) = (u.imm \div 32) % 64
        /\ PartOf(u.imm, 11, 1) = (u.imm \div 2048) % 2
        /\ PartOf(u.imm, 12, 1) = (u.imm \div 4096) % 2
    BY DEF PartOf, Writable
  <2>3. QED
    BY <1>3, <2>1, <2>2
<1>7. ASSUME format = "U" PROVE Extract(MachineCode(u), 12, 20) = u.imm % 1048576
  <2>1. Alone(Part(u.imm, 0, 20, 12))
    BY <1>1, <1>2, <1>7 DEF Part, Quiet, ImmediateParts, HasRd, HasRs1, HasRs2, Row
  <2> HIDE DEF Alone
  <2>2. PartOf(u.imm, 0, 20) = u.imm % 1048576
    BY DEF PartOf, Writable
  <2>3. QED
    BY <1>3, <2>1, <2>2
<1>8. ASSUME format = "J"
      PROVE  /\ Extract(MachineCode(u), 21, 10) = (u.imm \div 2) % 1024
             /\ Extract(MachineCode(u), 20, 1) = (u.imm \div 2048) % 2
             /\ Extract(MachineCode(u), 12, 8) = (u.imm \div 4096) % 256
             /\ Extract(MachineCode(u), 31, 1) = (u.imm \div 1048576) % 2
  <2>1. /\ Alone(Part(u.imm, 20, 1, 31)) /\ Alone(Part(u.imm, 1, 10, 21))
        /\ Alone(Part(u.imm, 11, 1, 20)) /\ Alone(Part(u.imm, 12, 8, 12))
    BY <1>1, <1>2, <1>8 DEF Part, Quiet, ImmediateParts, HasRd, HasRs1, HasRs2, Row
  <2> HIDE DEF Alone
  <2>2. /\ PartOf(u.imm, 1, 10) = (u.imm \div 2) % 1024
        /\ PartOf(u.imm, 11, 1) = (u.imm \div 2048) % 2
        /\ PartOf(u.imm, 12, 8) = (u.imm \div 4096) % 256
        /\ PartOf(u.imm, 20, 1) = (u.imm \div 1048576) % 2
    BY DEF PartOf, Writable
  <2>3. QED
    BY <1>3, <2>1, <2>2
<1>9. QED
    BY <1>4, <1>5, <1>6, <1>7, <1>8

LEMMA ShiftParts ==
    ASSUME NEW imm PROVE {Part(imm, 0, 12, 20)} = ImmediateParts("I2", imm)
BY DEF ImmediateParts

\* The fields of a shift by an immediate, in which funct6 stands above the amount.
LEMMA ShiftFields ==
    ASSUME NEW u, Writable(u), FormatOf(u.opcode) = "I2", u.imm \in 0 .. 31
    PROVE  LET word == MachineCode(u)
               funct7 == EncodingOf(u.opcode).funct7
           IN Extract(word, 20, 12) = u.imm + 32 * funct7 /\ Extract(word, 25, 7) = funct7
<1> DEFINE e == EncodingOf(u.opcode)
           v == u.imm + 32 * e.funct7
           word == MachineCode(u)
           fixed == {Part(e.opcode, 0, 7, 0), Part(e.funct3, 0, 3, 12), Part(u.rd, 0, 5, 7),
                     Part(u.rs1, 0, 5, 15)}
           parts == fixed \cup {Part(u.imm, 0, 12, 20), Part(e.funct7, 0, 7, 25)}
<1>1. Row(e) /\ e.format = "I2"
    BY Rows DEF Writable, FormatOf
<1>2. word = OrOf(parts)
  <2>1. HasRd("I2") /\ HasRs1("I2") /\ ~HasRs2("I2")
    BY DEF HasRd, HasRs1, HasRs2
  <2>2. Parts(u) = parts
    BY <1>1, <2>1, ShiftParts DEF Parts
  <2>3. QED
    BY <2>2 DEF MachineCode
<1>3. e.funct7 \in {0, 32}
    BY <1>1 DEF Row
<1> HIDE DEF e, word
<1>4. ASSUME NEW j \in 0 .. 11
      PROVE  word[20 + j] = IF Bit(u.imm, j) = 1 \/ (j >= 5 /\ Bit(e.funct7, j - 5) = 1)
                            THEN 1 ELSE 0
  <2> DEFINE b == 20 + j
             Sets(q) == b \in q.at .. (q.at + q.width - 1) /\ Bit(q.value, q.from + b - q.at) = 1
  <2>1. \A q \in fixed : ~Sets(q)
    BY DEF Part
  <2>2. Sets(Part(u.imm, 0, 12, 20)) <=> Bit(u.imm, j) = 1
    <3>1. b \in 20 .. (20 + 12 - 1) /\ 0 + b - 20 = j
      OBVIOUS
    <3>2. QED
      BY <3>1 DEF Part
  <2>3. Sets(Part(e.funct7, 0, 7, 25)) <=> j >= 5 /\ Bit(e.funct7, j - 5) = 1
    <3>1. (b \in 25 .. (25 + 7 - 1) <=> j >= 5) /\ 0 + b - 25 = j - 5
      OBVIOUS
    <3>2. QED
      BY <3>1 DEF Part
  <2>4. OrOf(parts)[b] = IF \E q \in parts : Sets(q) THEN 1 ELSE 0
    <3>1. b \in 0 .. 31
      OBVIOUS
    <3> HIDE DEF b, parts
    <3>2. QED
      BY <3>1 DEF OrOf
  <2> HIDE DEF Sets, b, fixed
  <2>5. (\E q \in parts : Sets(q)) <=> Bit(u.imm, j) = 1 \/ (j >= 5 /\ Bit(e.funct7, j - 5) = 1)
    BY <2>1, <2>2, <2>3
  <2>6. QED
    BY <1>2, <2>4, <2>5 DEF b
<1>5. \A j \in 0 .. 11 : word[20 + j] = Bit(v, j)
  <2> DEFINE Same(j) ==
        Bit(v, j) = IF Bit(u.imm, j) = 1 \/ (j >= 5 /\ Bit(e.funct7, j - 5) = 1) THEN 1 ELSE 0
  <2>1. Same(0) /\ Same(1) /\ Same(2) /\ Same(3) /\ Same(4)
    BY <1>3 DEF Bit
  <2>2. Same(5) /\ Same(6) /\ Same(7) /\ Same(8) /\ Same(9) /\ Same(10) /\ Same(11)
    BY <1>3 DEF Bit
  <2> HIDE DEF Same
  <2>3. \A j \in 0 .. 11 : Same(j)
    BY <2>1, <2>2
  <2>4. QED
    BY <1>4, <2>3 DEF Same
<1>6. v \in 0 .. 1055 /\ PartOf(v, 0, 12) = v /\ PartOf(v, 5, 7) = e.funct7
  <2>1. CASE e.funct7 = 0
    BY <2>1 DEF PartOf
  <2>2. CASE e.funct7 = 32
    BY <2>2 DEF PartOf
  <2>3. QED
    BY <1>3, <2>1, <2>2
<1> HIDE DEF v
<1>7. Holds(word, 20, 12, v, 0)
    BY <1>5, <1>6 DEF Holds
<1>8. Holds(word, 25, 7, v, 5)
  <2>1. \A j \in 0 .. 6 : word[25 + j] = Bit(v, 5 + j)
    <3> TAKE j \in 0 .. 6
    <3>1. 5 + j \in 0 .. 11 /\ 20 + (5 + j) = 25 + j
      OBVIOUS
    <3>2. QED
      BY <1>5, <3>1
  <2>2. QED
    BY <1>6, <2>1 DEF Holds
<1>9. QED
  <2>1. Extract(word, 20, 12) = v
    BY <1>6, <1>7, ExtractField
  <2>2. Extract(word, 25, 7) = e.funct7
    BY <1>6, <1>8, ExtractField
  <2>3. QED
    BY <2>1, <2>2 DEF word, e, v



\* An immediate is put together again from its fields, with its sign.
Imm12S(n) == (n % 32) + 2^5 * ((n \div 32) % 128)
Imm13(n) == 2 * (((n \div 2) % 16) + 2^4 * ((n \div 32) % 64) + 2^10 * ((n \div 2048) % 2)
                 + 2^11 * ((n \div 4096) % 2))
Imm21(n) == 2 * (((n \div 2) % 1024) + 2^10 * ((n \div 2048) % 2)
                 + 2^11 * ((n \div 4096) % 256) + 2^19 * ((n \div 1048576) % 2))

LEMMA RejoinedI ==
    ASSUME NEW n \in Int, -2048 =< n, n < 2048
    PROVE  sign_extend(n % 4096, 12) = n
BY SMT DEF sign_extend, SignExtend

LEMMA RejoinedS ==
    ASSUME NEW n \in Int, -2048 =< n, n < 2048
    PROVE  sign_extend(Imm12S(n), 12) = n
BY SMT DEF sign_extend, SignExtend, Imm12S

LEMMA RejoinedShift == \A n \in 0 .. 31, f \in {0, 32} : sign_extend(n + 32 * f, 12) % 64 = n
BY SMT DEF sign_extend, SignExtend

LEMMA RejoinedB ==
    ASSUME NEW n \in Int, -4096 =< n, n < 4096, n % 2 = 0
    PROVE  sign_extend(Imm13(n), 13) = n
<1>1. n = 2 * (n \div 2) /\ n \div 2 = 16 * (n \div 32) + ((n \div 2) % 16)
    BY SMT
<1>2. n \div 32 = 64 * (n \div 2048) + ((n \div 32) % 64)
    BY SMT
<1>3. n \div 2048 = 2 * (n \div 4096) + ((n \div 2048) % 2)
    BY SMT
<1>4. n \div 4096 = IF n < 0 THEN -1 ELSE 0
    BY SMT
<1>5. (n \div 4096) % 2 = IF n < 0 THEN 1 ELSE 0
    BY SMT, <1>4
<1> DEFINE h == n \div 2
           a == h % 16
           b == (n \div 32) % 64
           c == (n \div 2048) % 2
           d == (n \div 4096) % 2
<1>6. /\ n \div 32 \in Int /\ n \div 2048 \in Int /\ h \in Int
      /\ a \in 0 .. 15 /\ b \in 0 .. 63 /\ c \in 0 .. 1 /\ d \in 0 .. 1
    BY SMT
<1>7. Imm13(n) = 2 * (a + 16 * b + 1024 * c + 2048 * d)
    BY SMT DEF Imm13
<1> HIDE DEF h, a, b, c, d
<1>8. Imm13(n) = IF n < 0 THEN n + 8192 ELSE n
    BY SMT, <1>1, <1>2, <1>3, <1>4, <1>5, <1>6, <1>7 DEF h, a, b, c, d
<1>9. QED
    BY SMT, <1>8 DEF sign_extend, SignExtend

LEMMA RejoinedJ ==
    ASSUME NEW n \in Int, -1048576 =< n, n < 1048576, n % 2 = 0
    PROVE  sign_extend(Imm21(n), 21) = n
<1>1. n = 2 * (n \div 2) /\ n \div 2 = 1024 * (n \div 2048) + ((n \div 2) % 1024)
    BY SMT
<1>2. n \div 2048 = 2 * (n \div 4096) + ((n \div 2048) % 2)
    BY SMT
<1>3. n \div 4096 = 256 * (n \div 1048576) + ((n \div 4096) % 256)
    BY SMT
<1>4. n \div 1048576 = IF n < 0 THEN -1 ELSE 0
    BY SMT
<1>5. (n \div 1048576) % 2 = IF n < 0 THEN 1 ELSE 0
    BY SMT, <1>4
<1> DEFINE h == n \div 2
           a == h % 1024
           c == (n \div 2048) % 2
           b == (n \div 4096) % 256
           d == (n \div 1048576) % 2
<1>6. /\ n \div 4096 \in Int /\ n \div 2048 \in Int /\ h \in Int
      /\ a \in 0 .. 1023 /\ b \in 0 .. 255 /\ c \in 0 .. 1 /\ d \in 0 .. 1
    BY SMT
<1>7. Imm21(n) = 2 * (a + 1024 * c + 2048 * b + 524288 * d)
    BY SMT DEF Imm21
<1> HIDE DEF h, a, b, c, d
<1>8. Imm21(n) = IF n < 0 THEN n + 2097152 ELSE n
    BY SMT, <1>1, <1>2, <1>3, <1>4, <1>5, <1>6, <1>7 DEF h, a, b, c, d
<1>9. QED
    BY SMT, <1>8 DEF sign_extend, SignExtend

\* What ImmGenerator makes of a word, by its opcode.
LEMMA Generated ==
    ASSUME NEW word, NEW opcode, Extract(word, 0, 7) = opcode
    PROVE  /\ opcode \in {19, 3, 103} =>
                  ImmGenerator(word) = sign_extend(Extract(word, 20, 12), 12)
           /\ opcode = 35 =>
                  ImmGenerator(word) =
                      sign_extend(Extract(word, 7, 5) + 2^5 * Extract(word, 25, 7), 12)
           /\ opcode = 99 =>
                  ImmGenerator(word) =
                      sign_extend(2 * (Extract(word, 8, 4) + 2^4 * Extract(word, 25, 6)
                                       + 2^10 * Extract(word, 7, 1)
                                       + 2^11 * Extract(word, 31, 1)), 13)
           /\ opcode \in {55, 23} => ImmGenerator(word) = Extract(word, 12, 20)
           /\ opcode = 111 =>
                  ImmGenerator(word) =
                      sign_extend(2 * (Extract(word, 21, 10) + 2^10 * Extract(word, 20, 1)
                                       + 2^11 * Extract(word, 12, 8)
                                       + 2^19 * Extract(word, 31, 1)), 21)
BY SMT DEF ImmGenerator

\* The immediate the VM generates is the unit's.
LEMMA ImmediateKept ==
    ASSUME NEW u, Writable(u), Fits(u)
    PROVE  LET imm == ImmGenerator(MachineCode(u))
               format == FormatOf(u.opcode)
           IN /\ format \in {"I1", "S", "B", "J"} => imm = u.imm
              /\ format = "U" => imm = u.imm % 2^20
              /\ format = "I2" => imm % 64 = u.imm
<1> DEFINE e == EncodingOf(u.opcode)
           word == MachineCode(u)
           format == FormatOf(u.opcode)
<1>1. Row(e) /\ e.format = format
    BY Rows DEF Writable, FormatOf
<1>2. Extract(word, 0, 7) = e.opcode
    BY FixedFields
<1>3. ASSUME format = "I1" PROVE ImmGenerator(word) = u.imm
  <2>1. Extract(word, 20, 12) = u.imm % 4096
    BY SMT, <1>3, ImmediateFields
  <2>2. u.imm \in Int /\ -2048 =< u.imm /\ u.imm < 2048
    BY SMT, <1>3 DEF Fits, Writable
  <2>3. e.opcode \in {19, 3, 103}
    BY <1>1, <1>3 DEF Row
  <2> HIDE DEF e, word, format
  <2>4. ImmGenerator(word) = sign_extend(Extract(word, 20, 12), 12)
    BY SMT, <1>2, <2>3, Generated
  <2>5. QED
    BY SMT, <2>1, <2>2, <2>4, RejoinedI
<1>4. ASSUME format = "S" PROVE ImmGenerator(word) = u.imm
  <2>1. Extract(word, 7, 5) = u.imm % 32 /\ Extract(word, 25, 7) = (u.imm \div 32) % 128
    BY SMT, <1>4, ImmediateFields
  <2>2. u.imm \in Int /\ -2048 =< u.imm /\ u.imm < 2048
    BY SMT, <1>4 DEF Fits, Writable
  <2>3. e.opcode = 35
    BY <1>1, <1>4 DEF Row
  <2> HIDE DEF e, word, format
  <2>4. ImmGenerator(word) = sign_extend(Imm12S(u.imm), 12)
    BY SMT, <1>2, <2>1, <2>3, Generated DEF Imm12S
  <2>5. QED
    BY SMT, <2>2, <2>4, RejoinedS
<1>5. ASSUME format = "B" PROVE ImmGenerator(word) = u.imm
  <2>1. /\ Extract(word, 8, 4) = (u.imm \div 2) % 16 /\ Extract(word, 25, 6) = (u.imm \div 32) % 64
        /\ Extract(word, 7, 1) = (u.imm \div 2048) % 2
        /\ Extract(word, 31, 1) = (u.imm \div 4096) % 2
    BY SMT, <1>5, ImmediateFields
  <2>2. u.imm \in Int /\ -4096 =< u.imm /\ u.imm < 4096 /\ u.imm % 2 = 0
    BY SMT, <1>5 DEF Fits, Writable
  <2>3. e.opcode = 99
    BY <1>1, <1>5 DEF Row
  <2> HIDE DEF e, word, format
  <2>4. ImmGenerator(word) = sign_extend(Imm13(u.imm), 13)
    BY SMT, <1>2, <2>1, <2>3, Generated DEF Imm13
  <2>5. QED
    BY SMT, <2>2, <2>4, RejoinedB
<1>6. ASSUME format = "J" PROVE ImmGenerator(word) = u.imm
  <2>1. /\ Extract(word, 21, 10) = (u.imm \div 2) % 1024
        /\ Extract(word, 20, 1) = (u.imm \div 2048) % 2
        /\ Extract(word, 12, 8) = (u.imm \div 4096) % 256
        /\ Extract(word, 31, 1) = (u.imm \div 1048576) % 2
    BY SMT, <1>6, ImmediateFields
  <2>2. u.imm \in Int /\ -1048576 =< u.imm /\ u.imm < 1048576 /\ u.imm % 2 = 0
    BY SMT, <1>6 DEF Fits, Writable
  <2>3. e.opcode = 111
    BY SMT, <1>1, <1>6 DEF Row
  <2> HIDE DEF e, word, format
  <2>4. ImmGenerator(word) = sign_extend(Imm21(u.imm), 21)
    BY SMT, <1>2, <2>1, <2>3, Generated DEF Imm21
  <2>5. QED
    BY SMT, <2>2, <2>4, RejoinedJ
<1>7. ASSUME format = "U" PROVE ImmGenerator(word) = u.imm % 2^20
  <2>1. Extract(word, 12, 20) = u.imm % 1048576
    BY SMT, <1>7, ImmediateFields
  <2>2. e.opcode \in {55, 23}
    BY <1>1, <1>7 DEF Row
  <2> HIDE DEF e, word, format
  <2>3. ImmGenerator(word) = Extract(word, 12, 20)
    BY SMT, <1>2, <2>2, Generated
  <2>4. QED
    BY SMT, <2>1, <2>3
<1>8. ASSUME format = "I2" PROVE ImmGenerator(word) % 64 = u.imm
  <2>1. u.imm \in 0 .. 31
    BY SMT, <1>8 DEF Fits, Writable
  <2>2. Extract(word, 20, 12) = u.imm + 32 * e.funct7
    BY <1>8, <2>1, ShiftFields
  <2>3. e.opcode = 19 /\ e.funct7 \in {0, 32}
    BY <1>1, <1>8 DEF Row
  <2> HIDE DEF e, word, format
  <2>4. ImmGenerator(word) = sign_extend(u.imm + 32 * e.funct7, 12)
    BY SMT, <1>2, <2>2, <2>3, Generated
  <2>5. QED
    BY <2>1, <2>3, <2>4, RejoinedShift
<1> HIDE DEF word, format
<1>9. QED
    BY <1>3, <1>4, <1>5, <1>6, <1>7, <1>8 DEF word, format

\* The tables are disjoint.
LEMMA Tables ==
    /\ \A m \in DOMAIN R_type_instruction_encoding_map :
          /\ EncodingOf(m) = R_type_instruction_encoding_map[m]
          /\ FormatOf(m) = "R"
    /\ \A m \in DOMAIN I_type_instruction_encoding_map :
          EncodingOf(m) = I_type_instruction_encoding_map[m]
    /\ \A m \in DOMAIN OtherEncodings : EncodingOf(m) = OtherEncodings[m]
<1>1. /\ \A m \in DOMAIN R_type_instruction_encoding_map :
            m \notin DOMAIN I_type_instruction_encoding_map
      /\ \A m \in DOMAIN OtherEncodings :
            /\ m \notin DOMAIN R_type_instruction_encoding_map
            /\ m \notin DOMAIN I_type_instruction_encoding_map
  <2>1. \A m \in DOMAIN R_type_instruction_encoding_map :
            m \notin DOMAIN I_type_instruction_encoding_map
    BY DEF R_type_instruction_encoding_map, I_type_instruction_encoding_map
  <2>2. \A m \in DOMAIN OtherEncodings : m \notin DOMAIN R_type_instruction_encoding_map
    BY DEF R_type_instruction_encoding_map, OtherEncodings
  <2>3. \A m \in DOMAIN OtherEncodings : m \notin DOMAIN I_type_instruction_encoding_map
    BY DEF I_type_instruction_encoding_map, OtherEncodings
  <2>4. QED
    BY <2>1, <2>2, <2>3
<1>2. \A m \in DOMAIN R_type_instruction_encoding_map :
          R_type_instruction_encoding_map[m].format = "R"
    BY DEF R_type_instruction_encoding_map, Enc
<1>3. QED
    BY <1>1, <1>2 DEF EncodingOf, FormatOf

\* What the engines read out of a row of the tables.
Reads(d, e) ==
    /\ d.opcode = OpcodeClass(e.opcode)
    /\ e.format \notin {"U", "J"} => d.funct3 = e.funct3
    /\ e.format \in {"R", "I2"} => d.funct7 = e.funct7

LEMMA Classes ==
    /\ OpcodeClass(51) = "R" /\ OpcodeClass(3) = "LOAD" /\ OpcodeClass(35) = "STORE"
    /\ OpcodeClass(99) = "BRANCH" /\ OpcodeClass(19) = "IMM" /\ OpcodeClass(55) = "LUI"
    /\ OpcodeClass(23) = "AUIPC" /\ OpcodeClass(111) = "JAL" /\ OpcodeClass(103) = "JALR"
    /\ OpcodeClass(115) = "SYSTEM"
BY SMT DEF OpcodeClass

\* The tables and the control unit agree on every mnemonic of the ALU.
LEMMA AluAgrees ==
    ASSUME NEW m \in DOMAIN AluMeaning, NEW d, Reads(d, EncodingOf(m))
    PROVE  /\ d.opcode \in {"R", "IMM"}
           /\ GetAluSignal(d) = AluMeaning[m]
           /\ SetControlSignals(d).alu_src = (FormatOf(m) # "R")
<1> DEFINE e == EncodingOf(m)
<1>1. /\ e.format = "R" => d.opcode = "R" /\ d.funct3 = e.funct3 /\ d.funct7 = e.funct7
      /\ e.format = "I1" => d.opcode = OpcodeClass(e.opcode) /\ d.funct3 = e.funct3
      /\ e.format = "I2" => d.opcode = OpcodeClass(e.opcode) /\ d.funct3 = e.funct3
                            /\ d.funct7 = e.funct7
    BY Rows DEF Reads, Row, OpcodeClass, AluMeaning, Mnemonic, R_type_instruction_encoding_map,
                I_type_instruction_encoding_map
<1>2. CASE m \in DOMAIN R_type_instruction_encoding_map
  <2>1. e = R_type_instruction_encoding_map[m] /\ e.format = "R" /\ FormatOf(m) = "R"
    BY <1>2, Tables DEF FormatOf
  <2>2. GetAluSignal(d) = AluMeaning[m]
    BY <1>1, <1>2, <2>1 DEF GetAluSignal, AluMeaning, R_type_instruction_encoding_map, Enc,
                            BaseOps, MulOps
  <2>3. QED
    BY <1>1, <2>1, <2>2 DEF SetControlSignals
<1>3. CASE m \notin DOMAIN R_type_instruction_encoding_map
  <2>1. m \in DOMAIN I_type_instruction_encoding_map /\ e = I_type_instruction_encoding_map[m]
    <3>1. m \in DOMAIN I_type_instruction_encoding_map
        BY <1>3 DEF AluMeaning, R_type_instruction_encoding_map, I_type_instruction_encoding_map
    <3>2. QED
        BY <3>1, Tables
  <2>5. e.format \in {"I1", "I2"} /\ e.opcode = 19
    BY <1>3, <2>1 DEF AluMeaning, R_type_instruction_encoding_map,
                      I_type_instruction_encoding_map, Enc
  <2>2. d.opcode = "IMM"
    BY <1>1, <2>5, Classes
  <2>3. GetAluSignal(d) = AluMeaning[m]
    BY <1>1, <1>3, <2>1, <2>2 DEF GetAluSignal, AluMeaning, R_type_instruction_encoding_map,
       I_type_instruction_encoding_map, Enc, BaseOps
  <2>4. QED
    BY <2>2, <2>3, <2>5 DEF SetControlSignals, FormatOf
<1>4. QED
    BY <1>2, <1>3

\* So do they on every branch.
LEMMA BranchesAgree ==
    ASSUME NEW m \in Mnemonic, FormatOf(m) = "B", NEW d, Reads(d, EncodingOf(m))
    PROVE  /\ d.opcode = "BRANCH"
           /\ \A a, b \in Word : BranchTaken(d.funct3, a, b) = Compares(m, a, b)
<1>1. d.opcode = "BRANCH" /\ d.funct3 = EncodingOf(m).funct3
    BY Rows DEF Reads, Row, OpcodeClass, FormatOf
<1>2. \/ m = "beq" /\ d.funct3 = 0
      \/ m = "bne" /\ d.funct3 = 1
      \/ m = "blt" /\ d.funct3 = 4
      \/ m = "bge" /\ d.funct3 = 5
      \/ m = "bltu" /\ d.funct3 = 6
      \/ m = "bgeu" /\ d.funct3 = 7
  <2>1. m \in DOMAIN OtherEncodings
    <3>1. /\ \A k \in DOMAIN R_type_instruction_encoding_map :
                R_type_instruction_encoding_map[k].format # "B"
          /\ \A k \in DOMAIN I_type_instruction_encoding_map :
                I_type_instruction_encoding_map[k].format # "B"
        BY DEF R_type_instruction_encoding_map, I_type_instruction_encoding_map, Enc
    <3>2. QED
        BY <3>1, Tables DEF FormatOf, Mnemonic
  <2>2. d.funct3 = OtherEncodings[m].funct3 /\ OtherEncodings[m].format = "B"
    BY <1>1, <2>1, Tables DEF FormatOf
  <2>3. m \in {"beq", "bne", "blt", "bge", "bltu", "bgeu"}
    BY <2>1, <2>2 DEF OtherEncodings, Enc
  <2>4. /\ OtherEncodings["beq"].funct3 = 0 /\ OtherEncodings["bne"].funct3 = 1
        /\ OtherEncodings["blt"].funct3 = 4 /\ OtherEncodings["bge"].funct3 = 5
        /\ OtherEncodings["bltu"].funct3 = 6 /\ OtherEncodings["bgeu"].funct3 = 7
    BY DEF OtherEncodings, Enc
  <2>5. QED
    BY <2>2, <2>3, <2>4
<1>3. ASSUME NEW a \in Word, NEW b \in Word
      PROVE  BranchTaken(d.funct3, a, b) = Compares(m, a, b)
  <2> DEFINE less == Signed(a) < Signed(b)
             most == Signed(a) >= Signed(b)
  <2>1. CASE m = "beq" /\ d.funct3 = 0
    BY <2>1 DEF BranchTaken, Compares
  <2>2. CASE m = "bne" /\ d.funct3 = 1
    BY <2>2 DEF BranchTaken, Compares
  <2>3. CASE m = "blt" /\ d.funct3 = 4
    BY <2>3 DEF BranchTaken, Compares
  <2>4. CASE m = "bge" /\ d.funct3 = 5
    BY <2>4 DEF BranchTaken, Compares
  <2>5. CASE m = "bltu" /\ d.funct3 = 6
    BY <2>5 DEF BranchTaken, Compares
  <2>6. CASE m = "bgeu" /\ d.funct3 = 7
    BY <2>6 DEF BranchTaken, Compares
  <2>7. QED
    BY <1>2, <2>1, <2>2, <2>3, <2>4, <2>5, <2>6
<1>4. QED
    BY <1>1, <1>3

\* And on what is neither.
LEMMA OthersAgree ==
    ASSUME NEW m \in Mnemonic, NEW d, Reads(d, EncodingOf(m))
    PROVE  /\ FormatOf(m) = "S" => SetControlSignals(d).mem_write
           /\ m \in {"lb", "lh", "lw", "ld", "lbu", "lhu", "lwu"} =>
                  SetControlSignals(d).mem_to_reg
           /\ m = "jal" => d.opcode = "JAL"
           /\ m = "jalr" => d.opcode = "JALR"
           /\ m = "lui" => d.opcode = "LUI"
           /\ m = "auipc" => d.opcode = "AUIPC"
           /\ m = "ecall" => d.opcode = "SYSTEM" /\ d.funct3 = 0
<1> DEFINE e == EncodingOf(m)
<1>1. /\ FormatOf(m) = "S" => e.opcode = 35
      /\ m \in {"lb", "lh", "lw", "ld", "lbu", "lhu", "lwu"} => e.opcode = 3
      /\ m = "jal" => e.opcode = 111
      /\ m = "jalr" => e.opcode = 103
      /\ m = "lui" => e.opcode = 55
      /\ m = "auipc" => e.opcode = 23
      /\ m = "ecall" => e.opcode = 115 /\ e.funct3 = 0 /\ e.format = "I3"
  <2>1. m \in DOMAIN R_type_instruction_encoding_map => e.format = "R"
    BY Tables DEF FormatOf
  <2>2. CASE m \in DOMAIN R_type_instruction_encoding_map
    BY <2>1, <2>2 DEF FormatOf, R_type_instruction_encoding_map
  <2>3. CASE m \in DOMAIN I_type_instruction_encoding_map
    <3>1. e = I_type_instruction_encoding_map[m]
      BY <2>3, Tables
    <3>2. QED
      BY <2>3, <3>1 DEF FormatOf, I_type_instruction_encoding_map, Enc
  <2>4. CASE m \in DOMAIN OtherEncodings
    <3>1. e = OtherEncodings[m]
      BY <2>4, Tables
    <3>2. QED
      BY <2>4, <3>1 DEF FormatOf, OtherEncodings, Enc
  <2>5. QED
    BY <2>2, <2>3, <2>4 DEF Mnemonic
<1> HIDE DEF e
<1>2. d.opcode = OpcodeClass(e.opcode) /\ (e.format = "I3" => d.funct3 = e.funct3)
    BY DEF Reads, e
<1>3. /\ SetControlSignals(d).mem_write = (d.opcode = "STORE")
      /\ SetControlSignals(d).mem_to_reg = (d.opcode = "LOAD")
    BY DEF SetControlSignals
<1>4. FormatOf(m) = "S" => d.opcode = "STORE"
    BY <1>1, <1>2, Classes
<1>5. m \in {"lb", "lh", "lw", "ld", "lbu", "lhu", "lwu"} => d.opcode = "LOAD"
    BY <1>1, <1>2, Classes
<1>6. /\ m = "jal" => d.opcode = "JAL"
      /\ m = "jalr" => d.opcode = "JALR"
      /\ m = "lui" => d.opcode = "LUI"
      /\ m = "auipc" => d.opcode = "AUIPC"
      /\ m = "ecall" => d.opcode = "SYSTEM" /\ d.funct3 = 0
    BY <1>1, <1>2, Classes
<1>7. QED
    BY <1>3, <1>4, <1>5, <1>6

\* A unit is decoded from its word as what was written.
LEMMA UnitDecoded ==
    ASSUME NEW u, Writable(u), Fits(u)
    PROVE  Means(Decode(MachineCode(u)), u)
<1> DEFINE word == MachineCode(u)
           d == Decode(word)
           e == EncodingOf(u.opcode)
           format == FormatOf(u.opcode)
           m == u.opcode
<1>1. Row(e) /\ e.format = format /\ m \in Mnemonic
    BY Rows DEF Writable, FormatOf
<1>2. /\ d.opcode = OpcodeClass(Extract(word, 0, 7)) /\ d.rd = Extract(word, 7, 5)
      /\ d.rs1 = Extract(word, 15, 5) /\ d.rs2 = Extract(word, 20, 5)
      /\ d.funct3 = Extract(word, 12, 3) /\ d.funct7 = Extract(word, 25, 7)
      /\ d.imm = ImmGenerator(word)
    BY DEF Decode
<1>3. /\ Extract(word, 0, 7) = e.opcode
      /\ HasRd(e.format) => Extract(word, 7, 5) = u.rd
      /\ HasRs1(e.format) => Extract(word, 15, 5) = u.rs1
      /\ HasRs2(e.format) => Extract(word, 20, 5) = u.rs2
      /\ e.format \notin {"U", "J"} => Extract(word, 12, 3) = e.funct3
      /\ e.format = "R" => Extract(word, 25, 7) = e.funct7
    BY FixedFields
<1>4. format = "I2" => Extract(word, 25, 7) = e.funct7
  <2>1. format = "I2" => u.imm \in 0 .. 31
    BY SMT DEF Fits, Writable
  <2>2. QED
    BY <2>1, ShiftFields
<1>5. /\ format \in {"I1", "S", "B", "J"} => ImmGenerator(word) = u.imm
      /\ format = "U" => ImmGenerator(word) = u.imm % 2^20
      /\ format = "I2" => ImmGenerator(word) % 64 = u.imm
    BY ImmediateKept
<1> HIDE DEF word, d, e, format
<1>6. Reads(d, e)
    BY <1>1, <1>2, <1>3, <1>4 DEF Reads
<1>7. /\ HasRd(format) => d.rd = u.rd
      /\ HasRs1(format) => d.rs1 = u.rs1
      /\ HasRs2(format) => d.rs2 = u.rs2
    BY <1>1, <1>2, <1>3
<1>8. m \in DOMAIN AluMeaning => /\ d.opcode \in {"R", "IMM"}
                                 /\ GetAluSignal(d) = AluMeaning[m]
                                 /\ SetControlSignals(d).alu_src = (format # "R")
    BY <1>6, AluAgrees DEF e, format
<1>9. format = "B" => /\ d.opcode = "BRANCH"
                      /\ \A a, b \in Word : BranchTaken(d.funct3, a, b) = Compares(m, a, b)
    BY <1>1, <1>6, BranchesAgree DEF e, format
<1>10. /\ format = "S" => SetControlSignals(d).mem_write
       /\ m \in {"lb", "lh", "lw", "ld", "lbu", "lhu", "lwu"} => SetControlSignals(d).mem_to_reg
       /\ m = "jal" => d.opcode = "JAL"
       /\ m = "jalr" => d.opcode = "JALR"
       /\ m = "lui" => d.opcode = "LUI"
       /\ m = "auipc" => d.opcode = "AUIPC"
       /\ m = "ecall" => d.opcode = "SYSTEM" /\ d.funct3 = 0
    BY <1>1, <1>6, OthersAgree DEF e, format
<1>11. QED
    BY <1>2, <1>5, <1>7, <1>8, <1>9, <1>10 DEF Means, d, word, format
=============================================================================
