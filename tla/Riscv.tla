-------------------------------- MODULE Riscv --------------------------------
(***************************************************************************)
(* The instruction words, registers and control signals shared by the      *)
(* simulator's engines.                                                    *)
(*                                                                         *)
(* An instruction word is the record of the bit fields the code extracts   *)
(* from it.  EVERY word has every field, whatever its format: the rd field *)
(* of a store and the rs2 field of an addi hold immediate bits, and the    *)
(* hazard detection compares them all the same.  imm is what               *)
(* VmBase::ImmGenerator returns for the word, a signed number.             *)
(*                                                                         *)
(* The ALU is a parameter: what is proved about the engines holds for      *)
(* every ALU.  Module Alu is the one TLC uses.                             *)
(***************************************************************************)
EXTENDS Integers

CONSTANTS
    WordSize,             \* number of uint64_t values, 2^64 in the code
    HalfSize,             \* number of uint32_t values, 2^32 in the code: 4 bytes
    UShift,               \* the factor 2^12 of lui and auipc
    NumGpr,               \* number of integer registers, 32 in the code
    ByteSize,             \* number of uint8_t values, 2^8 in the code
    alu_execute(_, _, _)  \* alu::Alu::execute: operation, two operands

Word == 0 .. (WordSize - 1)
Reg == 0 .. (NumGpr - 1)

Opcode == {"R", "LOAD", "STORE", "BRANCH", "IMM", "LUI", "AUIPC", "JAL", "JALR",
           "SYSTEM", "OTHER"}
    \* SYSTEM: ecall and the csr operations, which only the single-cycle engine
    \* executes.  OTHER: fence, the *w operations and the zero word.  The control
    \* units set no signal for either.

AluOp == {"kAdd", "kSub", "kMul", "kMulh", "kMulhsu", "kMulhu", "kDiv", "kDivu",
          "kRem", "kRemu", "kAnd", "kOr", "kXor", "kSll", "kSrl", "kSra", "kSlt",
          "kSltu", "kNone"}

Instr == [opcode : Opcode, rd : Reg, rs1 : Reg, rs2 : Reg,
          funct3 : 0 .. 7, funct7 : 0 .. 127, imm : Int]

\* The word 0, which is also what an address never written reads as.
ZeroInstr == [opcode |-> "OTHER", rd |-> 0, rs1 |-> 0, rs2 |-> 0,
              funct3 |-> 0, funct7 |-> 0, imm |-> 0]

\* Program text: a sparse memory of instruction words.
IsText(text) == /\ DOMAIN text \subseteq Word
                /\ \A a \in DOMAIN text : text[a] \in Instr

\* memory_controller_.ReadWord(address) of an instruction.
ReadInstr(text, address) ==
    IF address \in DOMAIN text THEN text[address] ELSE ZeroInstr

ASSUME SizeAssumption == /\ WordSize \in Nat \ {0}
                         /\ HalfSize \in Nat \ {0}
                         /\ UShift \in Nat \ {0}
                         /\ NumGpr \in Nat \ {0}
                         /\ ByteSize \in Nat \ {0}

ASSUME AluAssumption ==
    \A op \in AluOp, a \in Word, b \in Word : alu_execute(op, a, b) \in Word
-----------------------------------------------------------------------------
\* A signed 64-bit number kept in a uint64_t.
ToWord(n) == n % WordSize

\* The int64_t that a uint64_t holds.
Signed(w) == IF 2 * w < WordSize THEN w ELSE w - WordSize

\* A faulty lui that does not wrap the extended sign into 64 bits.
LuiValueUnwrapped(imm) == imm * UShift - HalfSize

\* The int32_t imm << 12, sign-extended to 64 bits (lui).
LuiValue(imm) ==
    LET low == (imm * UShift) % HalfSize
    IN ToWord(IF 2 * low < HalfSize THEN low ELSE low - HalfSize)

\* pc + (uint64_t(imm) << 12) (auipc); imm is the unsigned 20-bit field.
AuipcValue(pc, imm) == ToWord(pc + imm * UShift)

\* exec_result & ~1ULL (jalr).
ClearBit0(w) == w - (w % 2)

\* The comparison a conditional branch makes, by its funct3.
BranchTaken(funct3, a, b) ==
    CASE funct3 = 0 -> a = b
      [] funct3 = 1 -> a # b
      [] funct3 = 4 -> Signed(a) < Signed(b)
      [] funct3 = 5 -> Signed(a) >= Signed(b)
      [] funct3 = 6 -> a < b
      [] funct3 = 7 -> a >= b
      [] OTHER -> FALSE
-----------------------------------------------------------------------------
\* The data memory: the bytes written so far, by address.  Accesses that run
\* past the last address throw in the code and are outside the model.
IsMemory(mem) == /\ DOMAIN mem \subseteq Word
                 /\ \A a \in DOMAIN mem : mem[a] \in 0 .. (ByteSize - 1)

\* Memory::Read: an address in no block reads as 0.
Read(mem, address) ==
    LET a == ToWord(address) IN IF a \in DOMAIN mem THEN mem[a] ELSE 0

\* ReadGeneric<T> for types of 2, 4 and 8 bytes, least significant byte first.
Read2(mem, a) == Read(mem, a) + ByteSize * Read(mem, a + 1)
Read4(mem, a) == Read2(mem, a) + ByteSize * ByteSize * Read2(mem, a + 2)
Read8(mem, a) == Read4(mem, a) + HalfSize * Read4(mem, a + 4)

\* The signed number that an unsigned value below size stands for.
SignExtend(value, size) == IF 2 * value < size THEN value ELSE value - size

\* The value of lb, lh, lw, ld, lbu, lhu, lwu (funct3 0 to 6).
MemLoad(funct3, mem, a) ==
    ToWord(CASE funct3 = 0 -> SignExtend(Read(mem, a), ByteSize)
             [] funct3 = 1 -> SignExtend(Read2(mem, a), ByteSize * ByteSize)
             [] funct3 = 2 -> SignExtend(Read4(mem, a), HalfSize)
             [] funct3 = 4 -> Read(mem, a)
             [] funct3 = 5 -> Read2(mem, a)
             [] funct3 = 6 -> Read4(mem, a)
             [] OTHER -> Read8(mem, a))

\* Memory::Write.
Write(mem, address, value) ==
    LET a == ToWord(address)
    IN [b \in DOMAIN mem \cup {a} |-> IF b = a THEN value % ByteSize ELSE mem[b]]

\* WriteGeneric<T> for types of 2, 4 and 8 bytes.
Write2(mem, a, value) == Write(Write(mem, a, value), a + 1, value \div ByteSize)
Write4(mem, a, value) ==
    Write2(Write2(mem, a, value), a + 2, value \div (ByteSize * ByteSize))
Write8(mem, a, value) == Write4(Write4(mem, a, value), a + 4, value \div HalfSize)

\* sb, sh, sw, sd (funct3 0 to 3); no other funct3 writes.
MemStore(funct3, mem, a, value) ==
    CASE funct3 = 0 -> Write(mem, a, value)
      [] funct3 = 1 -> Write2(mem, a, value)
      [] funct3 = 2 -> Write4(mem, a, value)
      [] funct3 = 3 -> Write8(mem, a, value)
      [] OTHER -> mem
-----------------------------------------------------------------------------
ControlSignals == [alu_src : BOOLEAN, mem_to_reg : BOOLEAN, reg_write : BOOLEAN,
                   mem_read : BOOLEAN, mem_write : BOOLEAN, branch : BOOLEAN]

NoSignals == [alu_src |-> FALSE, mem_to_reg |-> FALSE, reg_write |-> FALSE,
              mem_read |-> FALSE, mem_write |-> FALSE, branch |-> FALSE]

\* RV5SControlUnit::SetControlSignals.  alu_op_ is left out: nothing reads it.
SetControlSignals(i) ==
    [alu_src    |-> i.opcode \in {"LOAD", "STORE", "IMM", "LUI", "AUIPC", "JALR"},
     mem_to_reg |-> i.opcode = "LOAD",
     reg_write  |-> i.opcode \in {"R", "LOAD", "IMM", "LUI", "AUIPC", "JAL", "JALR"},
     mem_read   |-> i.opcode = "LOAD",
     mem_write  |-> i.opcode = "STORE",
     branch     |-> i.opcode \in {"BRANCH", "JAL", "JALR"}]

\* The operations of the funct3 values 0..7 for funct7 = 0 and for funct7 = 1.
BaseOps == <<"kAdd", "kSll", "kSlt", "kSltu", "kXor", "kSrl", "kOr", "kAnd">>
MulOps == <<"kMul", "kMulh", "kMulhsu", "kMulhu", "kDiv", "kDivu", "kRem", "kRemu">>

\* RV5SControlUnit::GetAluSignal; an encoding no case matches adds.  (The single-cycle
\* control unit has no operation for such an R or IMM encoding, which the assembler
\* never generates.)  What the ALU computes for a SYSTEM or OTHER word reaches no
\* register and no memory.
GetAluSignal(i) ==
    CASE i.opcode \in {"SYSTEM", "OTHER"} -> "kNone"
      [] i.opcode = "R" /\ i.funct7 = 0 -> BaseOps[i.funct3 + 1]
      [] i.opcode = "R" /\ i.funct7 = 1 -> MulOps[i.funct3 + 1]
      [] i.opcode = "R" /\ i.funct7 = 32 /\ i.funct3 = 0 -> "kSub"
      [] i.opcode \in {"R", "IMM"} /\ i.funct7 = 32 /\ i.funct3 = 5 -> "kSra"
      [] i.opcode = "IMM" /\ (i.funct3 # 5 \/ i.funct7 = 0) -> BaseOps[i.funct3 + 1]
      [] i.opcode = "BRANCH" /\ i.funct3 \in {0, 1} -> "kSub"
      [] i.opcode = "BRANCH" /\ i.funct3 \in {4, 5} -> "kSlt"
      [] i.opcode = "BRANCH" /\ i.funct3 \in {6, 7} -> "kSltu"
      [] OTHER -> "kAdd"
=============================================================================
