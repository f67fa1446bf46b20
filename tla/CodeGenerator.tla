---------------------------- MODULE CodeGenerator ----------------------------
(***************************************************************************)
(* From intermediate code to machine words and back: the encoding tables   *)
(* of common/instructions.cpp, the generate... functions of                *)
(* assembler/code_generator.cpp, and the fields that the VM extracts from  *)
(* a word, with VmBase::ImmGenerator.  Decode of a word is the record      *)
(* that module Riscv calls an instruction.                                 *)
(*                                                                         *)
(* The widths are the code's.  A word is the function of its 32 bits.      *)
(* Floating point, csr operations and the *w instructions are left out.    *)
(***************************************************************************)
EXTENDS Riscv

BitWord == [0 .. 31 -> {0, 1}]
-----------------------------------------------------------------------------
(* The tables: for each mnemonic its format, opcode, funct3 and funct7     *)
(* (funct6 of an I2 instruction, shifted to where funct7 is).              *)

Enc(format, opcode, funct3, funct7) ==
    [format |-> format, opcode |-> opcode, funct3 |-> funct3, funct7 |-> funct7]

R_type_instruction_encoding_map ==
    [add  |-> Enc("R", 51, 0, 0),  sub   |-> Enc("R", 51, 0, 32),
     xor  |-> Enc("R", 51, 4, 0),  or    |-> Enc("R", 51, 6, 0),
     and  |-> Enc("R", 51, 7, 0),  sll   |-> Enc("R", 51, 1, 0),
     srl  |-> Enc("R", 51, 5, 0),  sra   |-> Enc("R", 51, 5, 32),
     slt  |-> Enc("R", 51, 2, 0),  sltu  |-> Enc("R", 51, 3, 0),
     mul  |-> Enc("R", 51, 0, 1),  mulh  |-> Enc("R", 51, 1, 1),
     mulhsu |-> Enc("R", 51, 2, 1), mulhu |-> Enc("R", 51, 3, 1),
     div  |-> Enc("R", 51, 4, 1),  divu  |-> Enc("R", 51, 5, 1),
     rem  |-> Enc("R", 51, 6, 1),  remu  |-> Enc("R", 51, 7, 1)]

I_type_instruction_encoding_map ==
    [addi |-> Enc("I1", 19, 0, 0), xori  |-> Enc("I1", 19, 4, 0),
     ori  |-> Enc("I1", 19, 6, 0), andi  |-> Enc("I1", 19, 7, 0),
     slti |-> Enc("I1", 19, 2, 0), sltiu |-> Enc("I1", 19, 3, 0),
     slli |-> Enc("I2", 19, 1, 0), srli  |-> Enc("I2", 19, 5, 0),
     srai |-> Enc("I2", 19, 5, 32), jalr |-> Enc("I1", 103, 0, 0),
     lb   |-> Enc("I1", 3, 0, 0),  lh    |-> Enc("I1", 3, 1, 0),
     lw   |-> Enc("I1", 3, 2, 0),  ld    |-> Enc("I1", 3, 3, 0),
     lbu  |-> Enc("I1", 3, 4, 0),  lhu   |-> Enc("I1", 3, 5, 0),
     lwu  |-> Enc("I1", 3, 6, 0),  ecall |-> Enc("I3", 115, 0, 0)]

OtherEncodings ==
    [sb  |-> Enc("S", 35, 0, 0),   sh    |-> Enc("S", 35, 1, 0),
     sw  |-> Enc("S", 35, 2, 0),   sd    |-> Enc("S", 35, 3, 0),
     beq |-> Enc("B", 99, 0, 0),   bne   |-> Enc("B", 99, 1, 0),
     blt |-> Enc("B", 99, 4, 0),   bge   |-> Enc("B", 99, 5, 0),
     bltu |-> Enc("B", 99, 6, 0),  bgeu  |-> Enc("B", 99, 7, 0),
     lui |-> Enc("U", 55, 0, 0),   auipc |-> Enc("U", 23, 0, 0),
     jal |-> Enc("J", 111, 0, 0)]

Mnemonic == DOMAIN R_type_instruction_encoding_map
              \cup DOMAIN I_type_instruction_encoding_map \cup DOMAIN OtherEncodings

EncodingOf(opcode) ==
    CASE opcode \in DOMAIN R_type_instruction_encoding_map ->
             R_type_instruction_encoding_map[opcode]
      [] opcode \in DOMAIN I_type_instruction_encoding_map ->
             I_type_instruction_encoding_map[opcode]
      [] OTHER -> OtherEncodings[opcode]

FormatOf(opcode) == EncodingOf(opcode).format
-----------------------------------------------------------------------------
(* generateMachineCode: the words are put together by shifts and ors of    *)
(* parts.  [value, from, width, at]: width bits of value, from bit from    *)
(* on, are set at bit at.                                                  *)

Bit(value, i) == (value \div 2^i) % 2

Part(value, from, width, at) ==
    [value |-> value, from |-> from, width |-> width, at |-> at]

OrOf(parts) ==
    [b \in 0 .. 31 |->
        IF \E p \in parts : /\ b \in p.at .. (p.at + p.width - 1)
                            /\ Bit(p.value, p.from + b - p.at) = 1
        THEN 1 ELSE 0]

\* A faulty B format that writes bit 11 of the immediate where bit 12 belongs.
ImmediatePartsB11(format, imm) ==
    CASE format \in {"I1", "I2"} -> {Part(imm, 0, 12, 20)}
      [] format = "S" -> {Part(imm, 0, 5, 7), Part(imm, 5, 7, 25)}
      [] format = "B" -> {Part(imm, 11, 1, 31), Part(imm, 5, 6, 25),
                          Part(imm, 1, 4, 8), Part(imm, 11, 1, 7)}
      [] format = "U" -> {Part(imm, 0, 20, 12)}
      [] format = "J" -> {Part(imm, 20, 1, 31), Part(imm, 1, 10, 21),
                          Part(imm, 11, 1, 20), Part(imm, 12, 8, 12)}
      [] OTHER -> {}

ImmediateParts(format, imm) ==
    CASE format \in {"I1", "I2"} -> {Part(imm, 0, 12, 20)}
      [] format = "S" -> {Part(imm, 0, 5, 7), Part(imm, 5, 7, 25)}
      [] format = "B" -> {Part(imm, 12, 1, 31), Part(imm, 5, 6, 25),
                          Part(imm, 1, 4, 8), Part(imm, 11, 1, 7)}
      [] format = "U" -> {Part(imm, 0, 20, 12)}
      [] format = "J" -> {Part(imm, 20, 1, 31), Part(imm, 1, 10, 21),
                          Part(imm, 11, 1, 20), Part(imm, 12, 8, 12)}
      [] OTHER -> {}

\* The registers a format has; ecall's are the constant 0.
HasRd(format) == format \in {"R", "I1", "I2", "U", "J"}
HasRs1(format) == format \in {"R", "I1", "I2", "S", "B"}
HasRs2(format) == format \in {"R", "S", "B"}

Parts(unit) ==
    LET e == EncodingOf(unit.opcode)
    IN {Part(e.opcode, 0, 7, 0), Part(e.funct3, 0, 3, 12), Part(e.funct7, 0, 7, 25)}
       \cup ImmediateParts(e.format, unit.imm)
       \cup (IF HasRd(e.format) THEN {Part(unit.rd, 0, 5, 7)} ELSE {})
       \cup (IF HasRs1(e.format) THEN {Part(unit.rs1, 0, 5, 15)} ELSE {})
       \cup (IF HasRs2(e.format) THEN {Part(unit.rs2, 0, 5, 20)} ELSE {})

MachineCode(unit) == OrOf(Parts(unit))
-----------------------------------------------------------------------------
(* Decoding.                                                               *)

\* (word >> at) & mask, with a mask of width ones.
Extract(word, at, width) ==
    LET above[i \in at .. (at + width)] ==
            IF i = at + width THEN 0 ELSE word[i] + 2 * above[i + 1]
    IN above[at]

sign_extend(value, bits) == SignExtend(value, 2^bits)

ImmGenerator(word) ==
    LET opcode == Extract(word, 0, 7)
    IN CASE opcode \in {19, 3, 103, 15, 7} -> sign_extend(Extract(word, 20, 12), 12)
         [] opcode \in {35, 39} ->
                sign_extend(Extract(word, 7, 5) + 2^5 * Extract(word, 25, 7), 12)
         [] opcode = 99 ->
                sign_extend(2 * (Extract(word, 8, 4) + 2^4 * Extract(word, 25, 6)
                                 + 2^10 * Extract(word, 7, 1)
                                 + 2^11 * Extract(word, 31, 1)), 13)
         [] opcode \in {55, 23} -> Extract(word, 12, 20)
         [] opcode = 111 ->
                sign_extend(2 * (Extract(word, 21, 10) + 2^10 * Extract(word, 20, 1)
                                 + 2^11 * Extract(word, 12, 8)
                                 + 2^19 * Extract(word, 31, 1)), 21)
         [] OTHER -> 0

OpcodeClass(opcode) ==
    CASE opcode = 51 -> "R"       [] opcode = 3 -> "LOAD"    [] opcode = 35 -> "STORE"
      [] opcode = 99 -> "BRANCH"  [] opcode = 19 -> "IMM"    [] opcode = 55 -> "LUI"
      [] opcode = 23 -> "AUIPC"   [] opcode = 111 -> "JAL"   [] opcode = 103 -> "JALR"
      [] opcode = 115 -> "SYSTEM" [] OTHER -> "OTHER"

\* The fields that the stages of the engines extract from a word.
Decode(word) ==
    [opcode |-> OpcodeClass(Extract(word, 0, 7)),
     rd |-> Extract(word, 7, 5), rs1 |-> Extract(word, 15, 5), rs2 |-> Extract(word, 20, 5),
     funct3 |-> Extract(word, 12, 3), funct7 |-> Extract(word, 25, 7),
     imm |-> ImmGenerator(word)]
-----------------------------------------------------------------------------
(* What a mnemonic stands for, by the instruction set manual's definition  *)
(* of it and independently of its encoding.                                *)

AluMeaning ==
    [add |-> "kAdd", sub |-> "kSub", xor |-> "kXor", or |-> "kOr", and |-> "kAnd",
     sll |-> "kSll", srl |-> "kSrl", sra |-> "kSra", slt |-> "kSlt", sltu |-> "kSltu",
     mul |-> "kMul", mulh |-> "kMulh", mulhsu |-> "kMulhsu", mulhu |-> "kMulhu",
     div |-> "kDiv", divu |-> "kDivu", rem |-> "kRem", remu |-> "kRemu",
     addi |-> "kAdd", xori |-> "kXor", ori |-> "kOr", andi |-> "kAnd",
     slti |-> "kSlt", sltiu |-> "kSltu", slli |-> "kSll", srli |-> "kSrl", srai |-> "kSra"]

Compares(opcode, a, b) ==
    CASE opcode = "beq" -> a = b
      [] opcode = "bne" -> a # b
      [] opcode = "blt" -> Signed(a) < Signed(b)
      [] opcode = "bge" -> Signed(a) >= Signed(b)
      [] opcode = "bltu" -> a < b
      [] opcode = "bgeu" -> a >= b

\* A unit's number has room in its format.
Fits(unit) ==
    LET format == FormatOf(unit.opcode)
    IN /\ format = "I2" => 0 =< unit.imm /\ unit.imm < 32
       /\ format \in {"I1", "S"} => -2048 =< unit.imm /\ unit.imm < 2048
       /\ format = "B" => -4096 =< unit.imm /\ unit.imm < 4096 /\ unit.imm % 2 = 0
       /\ format = "J" => -1048576 =< unit.imm /\ unit.imm < 1048576 /\ unit.imm % 2 = 0

\* The VM does with the word what the unit says: what its mnemonic names, on the
\* registers and the immediate that were written.
Means(d, unit) ==
    LET format == FormatOf(unit.opcode)
    IN /\ HasRd(format) => d.rd = unit.rd
       /\ HasRs1(format) => d.rs1 = unit.rs1
       /\ HasRs2(format) => d.rs2 = unit.rs2
       /\ format \in {"I1", "S", "B", "J"} => d.imm = unit.imm
       /\ format = "U" => d.imm = unit.imm % 2^20
       /\ format = "I2" => d.imm % 64 = unit.imm
       /\ unit.opcode \in DOMAIN AluMeaning =>
              /\ d.opcode \in {"R", "IMM"}
              /\ GetAluSignal(d) = AluMeaning[unit.opcode]
              /\ SetControlSignals(d).alu_src = (format # "R")
       /\ format = "B" =>
              /\ d.opcode = "BRANCH"
              /\ \A a, b \in Word : BranchTaken(d.funct3, a, b) = Compares(unit.opcode, a, b)
       /\ format = "S" => SetControlSignals(d).mem_write
       /\ unit.opcode \in {"lb", "lh", "lw", "ld", "lbu", "lhu", "lwu"} =>
              SetControlSignals(d).mem_to_reg
       /\ unit.opcode = "jal" => d.opcode = "JAL"
       /\ unit.opcode = "jalr" => d.opcode = "JALR"
       /\ unit.opcode = "lui" => d.opcode = "LUI"
       /\ unit.opcode = "auipc" => d.opcode = "AUIPC"
       /\ unit.opcode = "ecall" => d.opcode = "SYSTEM" /\ d.funct3 = 0
=============================================================================
