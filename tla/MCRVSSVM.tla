------------------------------ MODULE MCRVSSVM ------------------------------
(***************************************************************************)
(* Instances of RVSSVM for TLC: the machine of MCRV5SPipeline (8-bit words,*)
(* bytes of one bit) with eight registers, so that a system call finds its *)
(* four.                                                                   *)
(***************************************************************************)
EXTENDS RVSSVM

CONSTANT Bits
ALU == INSTANCE Alu

MCExecute(op, a, b) == ALU!execute(op, a, b)

W(op, f3, rd, rs1, rs2, imm) ==
    [opcode |-> op, rd |-> rd, rs1 |-> rs1, rs2 |-> rs2, funct3 |-> f3,
     funct7 |-> 0, imm |-> imm]

Add(rd, rs1, rs2) == W("R", 0, rd, rs1, rs2, 0)
Addi(rd, rs1, imm) == W("IMM", 0, rd, rs1, imm % NumGpr, imm)
Ecall == W("SYSTEM", 0, 0, 0, 0, 0)
Csrrw(rd, csr, rs1) == W("SYSTEM", 1, rd, rs1, csr, 0)
Csrrci(rd, csr, uimm) == W("SYSTEM", 7, rd, uimm, csr, 0)

ProgramsOf(menu, n) ==
    {[text |-> [a \in {4 * k : k \in 0 .. (n - 1)} |-> f[(a \div 4) + 1]],
      size |-> 4 * n, data |-> [a \in {2} |-> 1]] : f \in [1 .. n -> menu]}

Setup(sessions, programs, registers) ==
    {[session |-> s, text |-> p.text, size |-> p.size, data |-> p.data,
      registers |-> r] : s \in sessions, p \in programs, r \in registers}

\* x1 .. x3 hold numbers, a0 .. a2 and a7 (x4 .. x7) the arguments of a call.
Registers(a0, a1, a2, a7) == [r \in Reg |-> <<0, 1, 2, 130, a0, a1, a2, a7>>[r + 1]]
MCRead == Registers(0, 1, 2, 63)
MCWrite == Registers(1, 1, 3, 64)
MCExit == Registers(0, 0, 0, 10)
MCPrint == Registers(0, 0, 0, 1)

MCTracked == {"step", "undo", "redo", "reset"}
MCDebugged == {"run_debug", "step", "undo", "redo", "breakpoints"}
MCReloaded == {"run", "step", "undo", "redo", "load", "reset"}
MCModified == {"step", "undo", "redo", "modify", "reset"}

\* Instructions that change a register, the memory or the pc, or nothing.
MCMenu == {Add(1, 1, 2), Addi(1, 3, 1), W("LOAD", 3, 2, 0, 2, 2),
           W("STORE", 3, 0, 2, 3, 0), W("STORE", 0, 1, 2, 1, 1),
           W("BRANCH", 4, 4, 3, 1, 8), W("BRANCH", 0, 4, 1, 2, -4), W("JAL", 0, 3, 0, 0, 8),
           W("JALR", 0, 3, 2, 2, 6), W("AUIPC", 0, 2, 1, 0, 1), W("LUI", 0, 1, 3, 3, 15),
           Ecall}
MCSmallMenu == {Add(1, 1, 2), W("STORE", 0, 1, 2, 1, 1), Csrrw(1, 1, 2), Csrrci(2, 1, 2)}

MCSetups == Setup({MCTracked}, ProgramsOf(MCMenu, 2), {MCRead, MCWrite})
              \cup Setup({MCDebugged}, ProgramsOf({Ecall, Addi(1, 3, 1)}, 2),
                         {MCExit, MCPrint})
              \cup Setup({MCReloaded, MCModified}, ProgramsOf(MCSmallMenu, 2), {MCPrint})
MCPrograms == ProgramsOf({Addi(1, 1, 1)}, 3)
MCInputs == {<<1>>, <<1, 0, 1>>}
MCEdits == {<<0, 3>>, <<1, 3>>}
-----------------------------------------------------------------------------
\* A run before the steps.
MCRunSetups == Setup({{"run", "step", "undo"}},
                     ProgramsOf({Addi(1, 1, 1), Addi(2, 2, 1)}, 3), {MCPrint})

\* A csr operation that is stepped.
MCCsrSetups == Setup({{"step", "undo"}}, ProgramsOf({Csrrw(1, 1, 2)}, 2), {MCPrint})
=============================================================================
