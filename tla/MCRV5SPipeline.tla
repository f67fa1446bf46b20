--------------------------- MODULE MCRV5SPipeline ---------------------------
(***************************************************************************)
(* Instances of RV5SPipeline for TLC.  The machine is the real one at one  *)
(* eighth of its widths: words of 8 bits, 4-bit int32_t, bytes of one bit, *)
(* so that lb, lh, lw and ld keep the widths 1, 2, 4 and 8; four registers *)
(* with 2-bit register fields.                                             *)
(***************************************************************************)
EXTENDS RV5SPipeline, Sequences

CONSTANT Bits
ALU == INSTANCE Alu

MCExecute(op, a, b) == ALU!execute(op, a, b)

\* Encoders: what the register fields of each format hold.
R(f3, f7, rd, rs1, rs2) ==
    [opcode |-> "R", rd |-> rd, rs1 |-> rs1, rs2 |-> rs2, funct3 |-> f3,
     funct7 |-> f7, imm |-> 0]
I(op, f3, rd, rs1, imm) ==
    [opcode |-> op, rd |-> rd, rs1 |-> rs1, rs2 |-> imm % NumGpr, funct3 |-> f3,
     funct7 |-> 0, imm |-> imm]
S(f3, rs2, rs1, imm) ==
    [opcode |-> "STORE", rd |-> imm % NumGpr, rs1 |-> rs1, rs2 |-> rs2,
     funct3 |-> f3, funct7 |-> 0, imm |-> imm]
B(f3, rs1, rs2, imm) ==
    [opcode |-> "BRANCH", rd |-> (imm \div 2) % NumGpr, rs1 |-> rs1, rs2 |-> rs2,
     funct3 |-> f3, funct7 |-> 0, imm |-> imm]
U(op, rd, imm) ==
    [opcode |-> op, rd |-> rd, rs1 |-> imm % NumGpr, rs2 |-> (imm \div NumGpr) % NumGpr,
     funct3 |-> 0, funct7 |-> 0, imm |-> imm]

Add(rd, rs1, rs2) == R(0, 0, rd, rs1, rs2)
Addi(rd, rs1, imm) == I("IMM", 0, rd, rs1, imm)

\* All the programs with one instruction of the menu in each of n places.
ProgramsOf(menu, n) ==
    {[text |-> [a \in {4 * k : k \in 0 .. (n - 1)} |-> f[(a \div 4) + 1]],
      size |-> 4 * n] : f \in [1 .. n -> menu]}

MCRegisters == [r \in Reg |-> <<0, 1, 130, 4>>[r + 1]]
MCLoopRegisters == [r \in Reg |-> IF r = 3 THEN 4 ELSE 0]
MCMemory == [a \in {} |-> 0]

Setup(modes, programs, registers) ==
    {[mode |-> m, text |-> p.text, size |-> p.size, registers |-> registers] :
        m \in modes, p \in programs}

\* The setups without the defects that the violation runs show.
Supporting(setups) == {s \in setups : Supports(s.mode, s.text, s.size)}
-----------------------------------------------------------------------------
\* Modes 1 and 2: every format, with source and destination fields that
\* collide; in mode 1 the programs that need no hazard detection.
MCMenu == {Add(1, 1, 2), Addi(2, 1, 1), I("LOAD", 2, 1, 3, 2), S(2, 1, 3, 1),
           B(0, 1, 2, -4), B(6, 0, 1, 8), U("LUI", 1, 3), U("AUIPC", 2, 1),
           U("JAL", 3, 8), I("JALR", 0, 1, 3, 4)}
MCStallSetups == Supporting(Setup({1, 2}, ProgramsOf(MCMenu, 4), MCRegisters))

\* Modes 3 to 5: no instruction of the menu overwrites its own operands.
MCForwardingMenu == {Add(1, 2, 3), Add(2, 1, 1), I("LOAD", 2, 1, 3, 2),
                     I("LOAD", 0, 2, 1, 0), S(0, 2, 1, 2), B(0, 1, 2, -4), B(6, 2, 1, 8),
                     U("LUI", 1, 3), U("JAL", 3, 8), I("JALR", 0, 1, 3, 4)}

\* Loops that the 1-bit predictor learns and leaves: with MCLoopRegisters the
\* backward branches are taken a few times and then not.
MCLoopMenu == {Addi(1, 2, 1), Addi(2, 1, 1), I("LOAD", 0, 2, 1, 0), S(0, 2, 1, 0),
               B(1, 2, 3, -8), B(4, 1, 3, -8)}

MCForwardingSetups ==
    Supporting(Setup({3, 4}, ProgramsOf(MCForwardingMenu, 4), MCRegisters)
                   \cup Setup({5}, ProgramsOf(MCLoopMenu, 5), MCLoopRegisters))

MCPipelineSetups == MCStallSetups \cup MCForwardingSetups
-----------------------------------------------------------------------------
\* Programs that show the defects: MCSelfOverwrite and MCJalr have runs of their
\* own; the README says how to run the other two.

\* Mode 3: an instruction overwrites its own operand.
MCSelfOverwrite == Setup({3}, ProgramsOf({Addi(1, 1, 1), Addi(2, 3, 1)}, 3), MCRegisters)

\* Mode 3: a lui or an auipc and a reader of its result right behind it.
MCUpper == Setup({3}, ProgramsOf({U("LUI", 1, 3), U("AUIPC", 1, 3), Addi(2, 1, 1)}, 3),
                 MCRegisters)

\* Mode 4: a jalr, to the absolute address that x0 and its immediate give.
MCJalr == Setup({4}, ProgramsOf({I("JALR", 0, 1, 0, 12), Addi(2, 3, 1)}, 4), MCRegisters)

\* Mode 4: a taken branch to a jal, which is fetched when the pipeline recovers.
MCRecovery ==
    Setup({4}, {p \in ProgramsOf({B(0, 0, 0, 8), U("JAL", 3, 8), Addi(2, 3, 1)}, 5) :
                    /\ p.text[0].opcode = "BRANCH"
                    /\ \A a \in {4, 12, 16} : p.text[a].opcode = "IMM"
                    /\ p.text[8].opcode # "BRANCH"}, MCRegisters)
=============================================================================
