------------------------------- MODULE RVSSVM -------------------------------
(***************************************************************************)
(* The single-cycle engine: execution of one instruction, the record it    *)
(* keeps of it for undo and redo, and the commands that change the machine.*)
(*                                                                         *)
(* Run and DebugRun are loops that a stop request or the limit can end     *)
(* after any iteration, so the iterations are the actions.  That undo and  *)
(* redo do not meet a running loop is module VmThread's concern.           *)
(*                                                                         *)
(* Left out: floating point; cycle_s_, which always changes together with  *)
(* instructions_retired_; output_status_ and the dumps; the encodings that *)
(* do not exist (branches with funct3 2 and 3, loads with 7).  The text is *)
(* kept apart from the rest of the memory; a breakpoint's line is the      *)
(* address it stands for; the csr file has as many registers as the integer*)
(* file, selected by the rs2 bits of the address.                          *)
(* RVSSControlUnit sets the signals of the integer instructions as         *)
(* RV5SControlUnit does, so both engines use module Riscv's.               *)
(***************************************************************************)
EXTENDS Riscv, Sequences, FiniteSets

CONSTANTS
    Setups,           \* programs with the registers and the session they start in
    Programs,         \* what load may load
    Inputs,           \* strings of bytes that vm_stdin may have delivered
    Edits,            \* pairs <<register or address, value>> the user may write
    A0, A1, A2, A7,   \* the registers of a system call: 10, 11, 12, 17 in the code
    MaxRetired        \* bound on instructions_retired_

Command == {"step", "run_debug", "undo", "redo", "reset", "breakpoints", "run",
            "load", "modify"}

Byte == 0 .. (ByteSize - 1)

ASSUME SetupAssumption ==
    /\ \A p \in Setups : /\ IsText(p.text) /\ p.size \in Word /\ IsMemory(p.data)
                         /\ p.registers \in [Reg -> Word] /\ p.registers[0] = 0
                         /\ p.session \subseteq Command
    /\ \A p \in Programs : IsText(p.text) /\ p.size \in Word /\ IsMemory(p.data)
    /\ Inputs \subseteq Seq(Byte)
    /\ Edits \subseteq Reg \X Word
    /\ {A0, A1, A2, A7} \subseteq Reg \ {0}
    /\ MaxRetired \in Nat

\* The immediate of a csr operation is the rs1 field.
ASSUME FieldAssumption == Reg \subseteq Word

\* What the conditional branches rely on the ALU for.
ASSUME BranchAluAssumption ==
    \A a \in Word, b \in Word :
        /\ alu_execute("kSub", a, b) = 0 <=> a = b
        /\ alu_execute("kSlt", a, b) = IF Signed(a) < Signed(b) THEN 1 ELSE 0
        /\ alu_execute("kSltu", a, b) = IF a < b THEN 1 ELSE 0

VARIABLES
    session,          \* the commands the user gives
    text, program_size_, breakpoints_,
    program_counter_,
    gpr_, csr_,
    memory_,
    instructions_retired_,
    current_delta_,   \* the changes of registers and memory recorded so far
    undo_stack_, redo_stack_,   \* the top is the last element
    exited            \* the program has called exit

program == <<text, program_size_, breakpoints_>>
machine == <<program_counter_, gpr_, csr_, memory_, instructions_retired_>>
vars == <<session, program, machine, current_delta_, undo_stack_, redo_stack_, exited>>

\* The records of changes, and current_delta_ (its pcs are set when it is pushed).
RegisterRecord == [reg : Reg, old_value : Word, new_value : Word]
MemoryRecord == {c \in [address : Word, old_bytes : Seq(Byte), new_bytes : Seq(Byte)] :
                    Len(c.old_bytes) = Len(c.new_bytes)}
Changes == [registers : Seq(RegisterRecord), memory : Seq(MemoryRecord)]

Delta == [old_pc : Word, new_pc : Word,
          registers : Seq(RegisterRecord), memory : Seq(MemoryRecord)]

StepDelta(old_pc, new_pc, changes) ==
    [old_pc |-> old_pc, new_pc |-> new_pc, registers |-> changes.registers,
     memory |-> changes.memory]

NoChanges == [registers |-> <<>>, memory |-> <<>>]
-----------------------------------------------------------------------------
\* Execution of the instruction at the pc.

\* RegisterFile::ReadGpr and WriteGpr.
ReadGpr(r) == IF r = 0 THEN 0 ELSE gpr_[r]
WriteGpr(gpr, r, value) == IF r = 0 THEN gpr ELSE [gpr EXCEPT ![r] = value]

current_instruction_ == ReadInstr(text, program_counter_)

Operand2(i) == IF SetControlSignals(i).alu_src THEN ToWord(i.imm) ELSE ReadGpr(i.rs2)

\* The ALU's result.  (That of auipc is replaced: see WriteBackValue.)
execution_result_(i) == alu_execute(GetAluSignal(i), ReadGpr(i.rs1), Operand2(i))

\* A branch is decided by the ALU: kSub, kSlt or kSltu, by funct3.
branch_flag_(i) ==
    \/ i.funct3 \in {0, 5, 7} /\ execution_result_(i) = 0
    \/ i.funct3 = 1 /\ execution_result_(i) # 0
    \/ i.funct3 \in {4, 6} /\ execution_result_(i) = 1

\* A faulty pc that adds the offset to the pc that Fetch has advanced.
NewPcAdvanced(i) ==
    IF i.opcode = "BRANCH" /\ branch_flag_(i)
    THEN ToWord(program_counter_ + 4 + i.imm) ELSE ToWord(program_counter_ + 4)

\* The pc that Fetch and Execute leave.
NewPc(i) ==
    CASE i.opcode = "JALR" -> execution_result_(i)
      [] i.opcode = "JAL" -> ToWord(program_counter_ + i.imm)
      [] i.opcode = "BRANCH" /\ branch_flag_(i) -> ToWord(program_counter_ + i.imm)
      [] OTHER -> ToWord(program_counter_ + 4)

WriteBackValue(i) ==
    CASE i.opcode \in {"R", "IMM"} -> execution_result_(i)
      [] i.opcode = "AUIPC" -> ToWord(program_counter_ + LuiValue(i.imm))
      [] i.opcode = "LOAD" -> MemLoad(i.funct3, memory_, execution_result_(i))
      [] i.opcode \in {"JAL", "JALR"} -> ToWord(program_counter_ + 4)
      [] i.opcode = "LUI" -> LuiValue(i.imm)

\* The n bytes from an address on.
Bytes(mem, address, n) == [k \in 1 .. n |-> Read(mem, address + k - 1)]

\* What current_delta_ gains from writing a register, and from writing memory.
RegisterChange(r, old, new) ==
    IF old # new THEN <<[reg |-> r, old_value |-> old, new_value |-> new]>> ELSE <<>>

MemoryChange(address, n, old, new) ==
    [address |-> address, old_bytes |-> Bytes(old, address, n),
     new_bytes |-> Bytes(new, address, n)]

\* A faulty Record that keeps the value after the change as the one before it.
RecordNewAsOld(registers, memory) ==
    [registers |-> current_delta_.registers
                     \o [k \in DOMAIN registers |->
                            [registers[k] EXCEPT !.old_value = registers[k].new_value]],
     memory |-> current_delta_.memory \o memory]

\* current_delta_ once these changes have been appended.
Record(registers, memory) ==
    [registers |-> current_delta_.registers \o registers,
     memory |-> current_delta_.memory \o memory]

\* An effect: what an instruction leaves in the machine and in current_delta_.
Effect(pc, gpr, csr, mem, delta) ==
    [pc |-> pc, gpr |-> gpr, csr |-> csr, mem |-> mem, delta |-> delta]

\* Execute, WriteMemory and WriteBack of an instruction of the base set.
BaseEffect(i) ==
    LET writes == SetControlSignals(i).reg_write
        gpr == IF writes THEN WriteGpr(gpr_, i.rd, WriteBackValue(i)) ELSE gpr_
        address == execution_result_(i)
        width == <<1, 2, 4, 8>>[i.funct3 + 1]
        mem == MemStore(i.funct3, memory_, address, ReadGpr(i.rs2))
        stored == MemoryChange(address, width, memory_, mem)
    IN CASE i.opcode = "STORE" /\ i.funct3 \in 0 .. 3 ->
              Effect(NewPc(i), gpr_, csr_, mem,
                     Record(<<>>, IF stored.old_bytes # stored.new_bytes
                                  THEN <<stored>> ELSE <<>>))
         [] OTHER ->
              Effect(NewPc(i), gpr, csr_, memory_,
                     Record(RegisterChange(i.rd, ReadGpr(i.rd), gpr[i.rd]), <<>>))

\* ExecuteCsr and WriteBackCsr: nothing is recorded.
CsrEffect(i) ==
    LET csr == i.rs2
        old == csr_[csr]
        operand == IF i.funct3 <= 3 THEN ReadGpr(i.rs1) ELSE i.rs1
        new == CASE i.funct3 \in {1, 5} -> operand
                 [] i.funct3 \in {2, 6} -> alu_execute("kOr", old, operand)
                 [] i.funct3 \in {3, 7} ->
                       alu_execute("kAnd", old, ToWord(-1 - operand))
    IN Effect(NewPc(i), WriteGpr(gpr_, i.rd, old),
              IF i.funct3 \in {1, 5} \/ operand # 0
              THEN [csr_ EXCEPT ![csr] = new] ELSE csr_,
              memory_, Record(<<>>, <<>>))

\* SYSCALL_READ from standard input: what is stored of the input, with a zero
\* behind it if there is room.
ReadInput(input) ==
    LET address == gpr_[A1]
        length == gpr_[A2]
        byte(k) == IF k <= Len(input) THEN input[k]
                   ELSE IF k = Len(input) + 1 THEN 0 ELSE Read(memory_, address + k - 1)
        cells == {ToWord(address + k - 1) : k \in 1 .. length}
        mem == [a \in DOMAIN memory_ \cup cells |->
                  IF a \in cells THEN byte(ToWord(a - address) + 1) ELSE memory_[a]]
        count == IF length < Len(input) THEN length ELSE Len(input)
    IN Effect(NewPc(current_instruction_), [gpr_ EXCEPT ![A0] = count], csr_, mem,
              Record(RegisterChange(A0, gpr_[A0], count),
                     <<MemoryChange(address, length, memory_, mem)>>))

\* HandleSyscall.  The calls that print leave the machine alone; for SYSCALL_EXIT
\* see Exit.
SyscallEffect(input) ==
    LET nothing == Effect(NewPc(current_instruction_), gpr_, csr_, memory_,
                          Record(<<>>, <<>>))
    IN CASE gpr_[A7] = 63 /\ gpr_[A0] = 0 -> ReadInput(input)
         [] gpr_[A7] = 64 /\ gpr_[A0] = 1 ->
               [nothing EXCEPT !.gpr = [gpr_ EXCEPT ![A0] = gpr_[A2]],
                               !.delta = Record(RegisterChange(A0, 1, gpr_[A2]), <<>>)]
         [] OTHER -> nothing

\* Execute, WriteMemory and WriteBack.  No csr operation has funct3 4: a word with
\* it changes nothing but the pc.
EffectOf(i, input) ==
    CASE i.opcode = "SYSTEM" /\ i.funct3 = 0 -> SyscallEffect(input)
      [] i.opcode = "SYSTEM" /\ i.funct3 \notin {0, 4} -> CsrEffect(i)
      [] OTHER -> BaseEffect(i)

\* The instruction is an ecall with SYSCALL_EXIT.
Exits == /\ current_instruction_.opcode = "SYSTEM" /\ current_instruction_.funct3 = 0
         /\ gpr_[A7] = 10

\* Fetch, Decode, Execute, WriteMemory, WriteBack.
Instruction(effect) ==
    /\ ~exited /\ ~Exits
    /\ program_counter_ < program_size_
    /\ instructions_retired_ < MaxRetired
    /\ program_counter_' = effect.pc
    /\ gpr_' = effect.gpr
    /\ csr_' = effect.csr
    /\ memory_' = effect.mem
    /\ instructions_retired_' = instructions_retired_ + 1
    /\ UNCHANGED <<session, program, exited>>
-----------------------------------------------------------------------------
\* Commands.

\* A faulty Push that keeps what was undone.
PushKeepsRedo(effect) ==
    /\ undo_stack_' = Append(undo_stack_,
                             StepDelta(program_counter_, effect.pc, effect.delta))
    /\ current_delta_' = NoChanges
    /\ UNCHANGED redo_stack_

\* What Step and DebugRun do with the record of the instruction.
Push(effect) ==
    /\ undo_stack_' = Append(undo_stack_,
                             StepDelta(program_counter_, effect.pc, effect.delta))
    /\ redo_stack_' = <<>>
    /\ current_delta_' = NoChanges

Step ==
    /\ "step" \in session
    /\ \E input \in Inputs :
          LET effect == EffectOf(current_instruction_, input)
          IN Instruction(effect) /\ Push(effect)

\* One iteration of DebugRun's loop.
DebugRun ==
    /\ "run_debug" \in session
    /\ program_counter_ \notin breakpoints_
    /\ \E input \in Inputs :
          LET effect == EffectOf(current_instruction_, input)
          IN Instruction(effect) /\ Push(effect)

\* One iteration of Run's loop: what it records stays in current_delta_.
Run ==
    /\ "run" \in session
    /\ \E input \in Inputs :
          LET effect == EffectOf(current_instruction_, input)
          IN Instruction(effect) /\ current_delta_' = effect.delta
    /\ UNCHANGED <<undo_stack_, redo_stack_>>

\* The records of a list that nothing later in the list overwrites, among those
\* for which hit holds: at most one.
Last(list, hit(_)) ==
    {n \in DOMAIN list : hit(list[n]) /\ \A m \in DOMAIN list : m > n => ~hit(list[m])}

\* The registers after writing, in the order of the records, the old or the new
\* values of a delta: the last record of a register decides.
GprWith(gpr, delta, new) ==
    LET last(r) == Last(delta.registers, LAMBDA c : c.reg = r)
    IN [r \in Reg |->
          IF r = 0 \/ last(r) = {} THEN gpr[r]
          ELSE LET c == delta.registers[CHOOSE n \in last(r) : TRUE]
               IN IF new THEN c.new_value ELSE c.old_value]

\* The memory likewise.
MemWith(mem, delta, new) ==
    LET cells(c) == {ToWord(c.address + k - 1) : k \in DOMAIN c.old_bytes}
        last(a) == Last(delta.memory, LAMBDA c : a \in cells(c))
        written == {a \in Word : last(a) # {}}
    IN [a \in DOMAIN mem \cup written |->
          IF a \notin written THEN mem[a]
          ELSE LET c == delta.memory[CHOOSE n \in last(a) : TRUE]
                   k == CHOOSE j \in DOMAIN c.old_bytes : ToWord(c.address + j - 1) = a
               IN IF new THEN c.new_bytes[k] ELSE c.old_bytes[k]]

Top(stack) == stack[Len(stack)]
Pop(stack) == SubSeq(stack, 1, Len(stack) - 1)

Undo ==
    /\ "undo" \in session
    /\ ~exited
    /\ undo_stack_ # <<>>
    /\ gpr_' = GprWith(gpr_, Top(undo_stack_), FALSE)
    /\ memory_' = MemWith(memory_, Top(undo_stack_), FALSE)
    /\ program_counter_' = Top(undo_stack_).old_pc
    /\ instructions_retired_' = instructions_retired_ - 1
    /\ redo_stack_' = Append(redo_stack_, Top(undo_stack_))
    /\ undo_stack_' = Pop(undo_stack_)
    /\ UNCHANGED <<session, program, csr_, current_delta_, exited>>

\* A faulty Redo that does not count the instruction again.
RedoUncounted ==
    /\ "redo" \in session
    /\ ~exited
    /\ redo_stack_ # <<>>
    /\ gpr_' = GprWith(gpr_, Top(redo_stack_), TRUE)
    /\ memory_' = MemWith(memory_, Top(redo_stack_), TRUE)
    /\ program_counter_' = Top(redo_stack_).new_pc
    /\ undo_stack_' = Append(undo_stack_, Top(redo_stack_))
    /\ redo_stack_' = Pop(redo_stack_)
    /\ UNCHANGED <<session, program, csr_, current_delta_, exited, instructions_retired_>>

Redo ==
    /\ "redo" \in session
    /\ ~exited
    /\ redo_stack_ # <<>>
    /\ gpr_' = GprWith(gpr_, Top(redo_stack_), TRUE)
    /\ memory_' = MemWith(memory_, Top(redo_stack_), TRUE)
    /\ program_counter_' = Top(redo_stack_).new_pc
    /\ instructions_retired_' = instructions_retired_ + 1
    /\ undo_stack_' = Append(undo_stack_, Top(redo_stack_))
    /\ redo_stack_' = Pop(redo_stack_)
    /\ UNCHANGED <<session, program, csr_, current_delta_, exited>>

\* exit(0) in the middle of Execute: the process is gone.
Exit ==
    /\ ~exited /\ Exits
    /\ program_counter_ < program_size_
    /\ \/ {"step", "run"} \cap session # {}
       \/ "run_debug" \in session /\ program_counter_ \notin breakpoints_
    /\ exited' = TRUE
    /\ UNCHANGED <<session, program, machine, current_delta_, undo_stack_, redo_stack_>>

\* A faulty Reset that keeps the records of the steps it has erased.
ResetKeepsUndo ==
    /\ "reset" \in session
    /\ ~exited
    /\ program_counter_' = 0
    /\ gpr_' = [r \in Reg |-> 0] /\ csr_' = [r \in Reg |-> 0]
    /\ memory_' = [a \in {} |-> 0] /\ text' = [a \in {} |-> ZeroInstr]
    /\ instructions_retired_' = 0
    /\ current_delta_' = NoChanges
    /\ UNCHANGED <<session, program_size_, breakpoints_, undo_stack_, redo_stack_, exited>>

\* Reset clears the memory, the program's text with it, and keeps its size.
Reset ==
    /\ "reset" \in session
    /\ ~exited
    /\ program_counter_' = 0
    /\ gpr_' = [r \in Reg |-> 0] /\ csr_' = [r \in Reg |-> 0]
    /\ memory_' = [a \in {} |-> 0] /\ text' = [a \in {} |-> ZeroInstr]
    /\ instructions_retired_' = 0
    /\ current_delta_' = NoChanges
    /\ undo_stack_' = <<>> /\ redo_stack_' = <<>>
    /\ UNCHANGED <<session, program_size_, breakpoints_, exited>>

\* LoadProgram writes text and data over what the memory holds, adds a
\* breakpoint behind the program and leaves everything else alone.
LoadProgram ==
    /\ "load" \in session
    /\ ~exited
    /\ \E p \in Programs :
          /\ text' = [a \in DOMAIN p.text \cup DOMAIN text |->
                        IF a \in DOMAIN p.text THEN p.text[a] ELSE text[a]]
          /\ memory_' = [a \in DOMAIN p.data \cup DOMAIN memory_ |->
                           IF a \in DOMAIN p.data THEN p.data[a] ELSE memory_[a]]
          /\ program_size_' = p.size
          /\ breakpoints_' = breakpoints_ \cup {p.size}
    /\ UNCHANGED <<session, program_counter_, gpr_, csr_, instructions_retired_,
                   current_delta_, undo_stack_, redo_stack_, exited>>

\* The addresses that the lines of the loaded program stand for.
Lines == {a \in Word : a % 4 = 0 /\ a < program_size_}

AddBreakpoint ==
    /\ "breakpoints" \in session
    /\ ~exited
    /\ \E a \in Lines \ breakpoints_ : breakpoints_' = breakpoints_ \cup {a}
    /\ UNCHANGED <<session, text, program_size_, machine, current_delta_, undo_stack_,
                   redo_stack_, exited>>

RemoveBreakpoint ==
    /\ "breakpoints" \in session
    /\ ~exited
    /\ \E a \in Lines \cap breakpoints_ : breakpoints_' = breakpoints_ \ {a}
    /\ UNCHANGED <<session, text, program_size_, machine, current_delta_, undo_stack_,
                   redo_stack_, exited>>

\* modify_register, of the integer and the csr registers.
ModifyRegister ==
    /\ "modify" \in session
    /\ ~exited
    /\ \E edit \in Edits :
          \/ gpr_' = WriteGpr(gpr_, edit[1], edit[2]) /\ UNCHANGED csr_
          \/ csr_' = [csr_ EXCEPT ![edit[1]] = edit[2]] /\ UNCHANGED gpr_
    /\ UNCHANGED <<session, program, program_counter_, memory_, instructions_retired_,
                   current_delta_, undo_stack_, redo_stack_, exited>>

\* modify_memory of a byte, half, word or double.
ModifyMemory ==
    /\ "modify" \in session
    /\ ~exited
    /\ \E edit \in Edits, width \in 0 .. 3 :
          memory_' = MemStore(width, memory_, edit[1], edit[2])
    /\ UNCHANGED <<session, program, program_counter_, gpr_, csr_,
                   instructions_retired_, current_delta_, undo_stack_, redo_stack_,
                   exited>>
-----------------------------------------------------------------------------
\* A fresh VM in which a program has been loaded.
Init ==
    /\ \E p \in Setups : /\ session = p.session
                         /\ text = p.text /\ program_size_ = p.size
                         /\ breakpoints_ = {p.size}
                         /\ gpr_ = p.registers
                         /\ memory_ = p.data
    /\ program_counter_ = 0
    /\ csr_ = [r \in Reg |-> 0]
    /\ instructions_retired_ = 0
    /\ current_delta_ = NoChanges
    /\ undo_stack_ = <<>> /\ redo_stack_ = <<>>
    /\ exited = FALSE

Next == \/ Step \/ DebugRun \/ Run \/ Undo \/ Redo \/ Exit \/ Reset \/ LoadProgram
        \/ AddBreakpoint \/ RemoveBreakpoint \/ ModifyRegister \/ ModifyMemory

Spec == Init /\ [][Next]_vars
-----------------------------------------------------------------------------
\* The registers hold words, x0 is zero, a record has as many bytes before as
\* after, and the counter of the instructions has not gone below zero, where the
\* code's unsigned counter would wrap.
TypeOK ==
    /\ session \subseteq Command
    /\ IsText(text) /\ program_size_ \in Word /\ breakpoints_ \subseteq Word
    /\ program_counter_ \in Word
    /\ gpr_ \in [Reg -> Word] /\ gpr_[0] = 0
    /\ csr_ \in [Reg -> Word]
    /\ IsMemory(memory_)
    /\ instructions_retired_ \in Nat
    /\ current_delta_ \in Changes
    /\ undo_stack_ \in Seq(Delta) /\ redo_stack_ \in Seq(Delta)
    /\ exited \in BOOLEAN

\* Every step that can be undone is counted, whatever was run, loaded, reset or
\* modified in between: undo never takes the counter below zero.
RetiredCovers == Len(undo_stack_) <= instructions_retired_

\* The user only steps, undoes, redoes and resets: neither run, nor load, nor
\* an edit changes the machine behind the history's back.
Tracked == session \cap {"run", "load", "modify"} = {}

\* The two stacks are one chain of steps through the pc, and nothing of a
\* finished step is left to be attributed to the next.
Connected ==
    Tracked =>
        /\ current_delta_ = NoChanges
        /\ undo_stack_ # <<>> => Top(undo_stack_).new_pc = program_counter_
        /\ redo_stack_ # <<>> => Top(redo_stack_).old_pc = program_counter_
        /\ \A k \in 1 .. (Len(undo_stack_) - 1) :
              undo_stack_[k].new_pc = undo_stack_[k + 1].old_pc
        /\ \A k \in 1 .. (Len(redo_stack_) - 1) :
              redo_stack_[k].old_pc = redo_stack_[k + 1].new_pc
-----------------------------------------------------------------------------
(***************************************************************************)
(* The history that the two stacks stand for: the states that undoing and  *)
(* redoing them would lead to.                                             *)
(***************************************************************************)

\* A byte that was never written reads as zero.
Nonzero(mem) == [a \in {b \in DOMAIN mem : mem[b] # 0} |-> mem[a]]

present == [pc |-> program_counter_, gpr |-> gpr_, csr |-> csr_, mem |-> Nonzero(memory_)]

Moved(state, delta, new) ==
    [pc |-> IF new THEN delta.new_pc ELSE delta.old_pc,
     gpr |-> GprWith(state.gpr, delta, new),
     csr |-> state.csr,
     mem |-> Nonzero(MemWith(state.mem, delta, new))]

\* The states that undoing (or redoing) the records of a stack one after the
\* other leads to, nearest first.
Replayed(state, stack, new) ==
    LET n == Len(stack)
        f[k \in 0 .. n] ==
            IF k = 0 THEN state ELSE Moved(f[k - 1], stack[n + 1 - k], new)
    IN [k \in 1 .. n |-> f[k]]

past == LET n == Len(undo_stack_)
            p == Replayed(present, undo_stack_, FALSE)
        IN [k \in 1 .. n |-> p[n - k + 1]]
future == Replayed(present, redo_stack_, TRUE)

H == INSTANCE History

\* Undo and redo walk a history: a step, an undo, a redo and a reset do to the
\* registers, the memory and the pc what they do to a list of remembered states,
\* although only differences are remembered.
KeepsHistory == [][Tracked => [H!Next]_(H!historyVars)]_vars

\* "Reverts the last executed step": what a step records leads back to the
\* state before it, whatever the user did earlier.
StepUndoable == [][Step => H!Do]_vars

ISA == INSTANCE Isa WITH program_size <- program_size_, pc <- program_counter_,
                         regs <- gpr_, mem <- memory_

\* Words on which the two engines agree: the pipelined one clears bit 0 of a
\* jalr's target and does not extend the sign of an auipc; the branches 2 and 3 do
\* not exist.
EnginesAgree(i) ==
    CASE i.opcode = "BRANCH" -> i.funct3 \notin {2, 3}
      [] i.opcode = "JALR" -> execution_result_(i) % 2 = 0
      [] i.opcode = "AUIPC" -> i.imm * UShift = LuiValue(i.imm)
      [] OTHER -> i.opcode # "SYSTEM"

\* The engine implements the sequential machine that the pipeline implements:
\* an instruction has the effect Isa says, whether it is stepped, run, or run to
\* a breakpoint, and whatever was undone, loaded or modified before.
ExecutesIsa ==
    [][(Step \/ DebugRun \/ Run) /\ EnginesAgree(current_instruction_)
           => ISA!Execute]_vars
=============================================================================
