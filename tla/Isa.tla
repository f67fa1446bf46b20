--------------------------------- MODULE Isa ---------------------------------
(***************************************************************************)
(* What every engine of the simulator promises: the loaded program runs as *)
(* if its instructions were executed one at a time, in program order, each *)
(* reading the registers, the memory and the pc that the previous one      *)
(* left.  The meaning of an instruction is stated by its opcode, without   *)
(* the control signals through which the engines compute it.  SYSTEM words *)
(* do nothing here: the engines differ on them.                            *)
(***************************************************************************)
EXTENDS Riscv

VARIABLES
    text,          \* the instruction words that are not zero, by address
    program_size,  \* one past the last byte of the program
    pc,
    regs,
    mem

isaVars == <<text, program_size, pc, regs, mem>>
-----------------------------------------------------------------------------
\* x0 reads as zero whatever the register file holds.
Gpr(r) == IF r = 0 THEN 0 ELSE regs[r]

\* rs1 + imm: the address of a load or a store, and the target of a jalr.
Address(i) == alu_execute("kAdd", Gpr(i.rs1), ToWord(i.imm))

\* The value an instruction with a destination register leaves in it.
DestValue(i) ==
    CASE i.opcode = "R" -> alu_execute(GetAluSignal(i), Gpr(i.rs1), Gpr(i.rs2))
      [] i.opcode = "IMM" -> alu_execute(GetAluSignal(i), Gpr(i.rs1), ToWord(i.imm))
      [] i.opcode = "LOAD" -> MemLoad(i.funct3, mem, Address(i))
      [] i.opcode = "LUI" -> LuiValue(i.imm)
      [] i.opcode = "AUIPC" -> AuipcValue(pc, i.imm)
      [] i.opcode \in {"JAL", "JALR"} -> ToWord(pc + 4)

HasDest(i) == i.opcode \notin {"STORE", "BRANCH", "SYSTEM", "OTHER"} /\ i.rd # 0

NextPc(i) ==
    CASE i.opcode = "JAL" -> ToWord(pc + i.imm)
      [] i.opcode = "JALR" -> ClearBit0(Address(i))
      [] i.opcode = "BRANCH" /\ BranchTaken(i.funct3, Gpr(i.rs1), Gpr(i.rs2))
            -> ToWord(pc + i.imm)
      [] OTHER -> ToWord(pc + 4)

\* Execute the instruction at pc.
Execute ==
    LET i == ReadInstr(text, pc) IN
    /\ pc < program_size
    /\ pc' = NextPc(i)
    /\ regs' = IF HasDest(i) THEN [regs EXCEPT ![i.rd] = DestValue(i)] ELSE regs
    /\ mem' = IF i.opcode = "STORE"
              THEN MemStore(i.funct3, mem, Address(i), Gpr(i.rs2)) ELSE mem
    /\ UNCHANGED <<text, program_size>>

Init ==
    /\ IsText(text)
    /\ program_size \in Word
    /\ pc = 0
    /\ regs \in [Reg -> Word]
    /\ IsMemory(mem)

Spec == Init /\ [][Execute]_isaVars
=============================================================================
