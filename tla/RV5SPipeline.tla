---------------------------- MODULE RV5SPipeline ----------------------------
(***************************************************************************)
(* RV5SVM::ExecutePipelineCycle and the five stages it calls, for the      *)
(* pipelined modes 1 to 5.                                                 *)
(*                                                                         *)
(* One action per stage, in the order in which a cycle calls them: WB, MEM,*)
(* EX, ID, IF.  Each stage reads the buffer in front of it as the later    *)
(* stages of the SAME cycle left it, so the order is part of the design.   *)
(*                                                                         *)
(* Left out of the buffers: fields that are projections of the instruction *)
(* word (opcode, rs1, rs2, rd, imm) and fields that nothing reads (the     *)
(* register values ID reads, branch_taken, branch_target, *_forward_data). *)
(* Left out of the counters: data_hazards, control_hazards and cycle_s_,   *)
(* which are only printed.                                                 *)
(***************************************************************************)
EXTENDS Riscv

CONSTANTS
    Setups,         \* what may be set up before the first cycle: a mode, a
                    \* program text and its size, and the registers' contents
    InitialMemory,
    MaxCycles       \* bound on cycle_count

ASSUME InitialAssumption ==
    /\ \A p \in Setups : /\ p.mode \in 1 .. 5
                         /\ IsText(p.text) /\ p.size \in Word
                         /\ p.registers \in [Reg -> Word]
    /\ IsMemory(InitialMemory)
    /\ MaxCycles \in Nat

VARIABLES
    pipelined_mode,         \* globals::pipelined_mode, set by the command line
    text,                   \* the part of the memory that holds the program
    program_size_,
    program_counter_,
    registers_,
    memory_,                \* the rest of the memory
    if_id_buf_, id_ex_buf_, ex_mem_buf_, mem_wb_buf_,
    pipeline_stall, pipeline_flush,
    branch_mispredicted_, correct_branch_target_,
    branch_predictor_,      \* the pcs whose prediction bit is "taken"
    stage,                  \* the stage ExecutePipelineCycle calls next
    cycle_count, instructions_retired_, stall_cycles, flush_cycles

buffers == <<if_id_buf_, id_ex_buf_, ex_mem_buf_, mem_wb_buf_>>
prediction == <<branch_mispredicted_, correct_branch_target_, branch_predictor_>>
counters == <<cycle_count, instructions_retired_, stall_cycles, flush_cycles>>
program == <<pipelined_mode, text, program_size_>>
vars == <<program, program_counter_, registers_, memory_, buffers, pipeline_stall,
          pipeline_flush, prediction, stage, counters>>

IfIdBuffer == [instruction : Instr, pc : Word, valid : BOOLEAN, is_nop : BOOLEAN]
IdExBuffer == [instruction : Instr, pc : Word, valid : BOOLEAN, is_nop : BOOLEAN,
               signals : ControlSignals]
ExMemBuffer == [instruction : Instr, pc : Word, valid : BOOLEAN, is_nop : BOOLEAN,
                signals : ControlSignals, exec_result : Word, rs2_value : Word]
MemWbBuffer == [instruction : Instr, pc : Word, valid : BOOLEAN, is_nop : BOOLEAN,
                signals : ControlSignals, result : Word, mem_result : Word]

EmptyIfId == [instruction |-> ZeroInstr, pc |-> 0, valid |-> FALSE, is_nop |-> FALSE]
EmptyIdEx == [instruction |-> ZeroInstr, pc |-> 0, valid |-> FALSE, is_nop |-> FALSE,
              signals |-> NoSignals]
EmptyExMem == [instruction |-> ZeroInstr, pc |-> 0, valid |-> FALSE, is_nop |-> FALSE,
               signals |-> NoSignals, exec_result |-> 0, rs2_value |-> 0]
EmptyMemWb == [instruction |-> ZeroInstr, pc |-> 0, valid |-> FALSE, is_nop |-> FALSE,
               signals |-> NoSignals, result |-> 0, mem_result |-> 0]

\* A buffer that holds an instruction, not a bubble.
Holds(buf) == buf.valid /\ ~buf.is_nop
Holding(buf) == IF Holds(buf) THEN 1 ELSE 0

\* The instruction in a buffer will write a register other than x0.
Writes(buf) == buf.valid /\ buf.signals.reg_write /\ buf.instruction.rd # 0
-----------------------------------------------------------------------------
\* Hazard detection, for the instruction that is in ID.

RegisterMatch(buf) ==
    buf.instruction.rd \in {if_id_buf_.instruction.rs1, if_id_buf_.instruction.rs2}

\* A faulty DetectLoadUseHazard that also waits for a load that has its value.
DetectLoadUseHazardTwice ==
    /\ Holds(if_id_buf_)
    /\ \E buf \in {ex_mem_buf_, mem_wb_buf_} :
          buf.signals.mem_read /\ Writes(buf) /\ RegisterMatch(buf)

DetectLoadUseHazard ==
    /\ pipelined_mode # 1
    /\ Holds(if_id_buf_)
    /\ ex_mem_buf_.signals.mem_read
    /\ Writes(ex_mem_buf_)
    /\ RegisterMatch(ex_mem_buf_)

DetectDataHazard ==
    /\ pipelined_mode = 2
    /\ Holds(if_id_buf_)
    /\ \/ Writes(ex_mem_buf_) /\ RegisterMatch(ex_mem_buf_)
       \/ Writes(mem_wb_buf_) /\ RegisterMatch(mem_wb_buf_)

\* DetectForwarding, for the instruction that is in EX.  ex_mem is the EX/MEM
\* buffer as PipelineEX has filled it so far when it asks.

Produces(buf, reg) ==
    pipelined_mode >= 3 /\ Writes(buf) /\ buf.instruction.rd = reg

ForwardA(ex_mem) ==
    LET rs1 == id_ex_buf_.instruction.rs1 IN
    CASE Produces(ex_mem, rs1) -> "FORWARD_FROM_MEM"
      [] OTHER -> IF Produces(mem_wb_buf_, rs1) THEN "FORWARD_FROM_WB" ELSE "NO_FORWARD"

\* A faulty ForwardB that never forwards the second operand.
ForwardBNever(ex_mem) == "NO_FORWARD"

ForwardB(ex_mem) ==
    LET rs2 == id_ex_buf_.instruction.rs2 IN
    IF Produces(ex_mem, rs2) \/ Produces(mem_wb_buf_, rs2)
    THEN "FORWARD_FROM_WB" ELSE "NO_FORWARD"

GetForwardedValue(reg, ex_mem, forward_type) ==
    CASE forward_type = "FORWARD_FROM_MEM" -> ex_mem.exec_result
      [] forward_type = "FORWARD_FROM_WB" ->
            IF mem_wb_buf_.signals.mem_to_reg
            THEN mem_wb_buf_.mem_result ELSE mem_wb_buf_.result
      [] forward_type = "NO_FORWARD" -> IF reg # 0 THEN registers_[reg] ELSE 0

\* PredictBranch.  A pc that is not in the map is entered as "not taken".
PredictBranch(pc, i) ==
    \/ i.opcode \in {"JAL", "JALR"}
    \/ i.opcode = "BRANCH" /\ pipelined_mode = 5 /\ pc \in branch_predictor_
-----------------------------------------------------------------------------
\* The value WB writes for an instruction that went through ALU and memory.
WriteValue(i, pc, mem_to_reg, mem_result, result) ==
    CASE i.opcode \in {"JAL", "JALR"} -> ToWord(pc + 4)
      [] i.opcode = "LUI" -> LuiValue(i.imm)
      [] i.opcode = "AUIPC" -> AuipcValue(pc, i.imm)
      [] OTHER -> IF mem_to_reg THEN mem_result ELSE result

PipelineWB ==
    /\ stage = "WB"
    /\ registers_' =
         IF Holds(mem_wb_buf_) /\ Writes(mem_wb_buf_)
         THEN [registers_ EXCEPT ![mem_wb_buf_.instruction.rd] =
                  WriteValue(mem_wb_buf_.instruction, mem_wb_buf_.pc,
                             mem_wb_buf_.signals.mem_to_reg,
                             mem_wb_buf_.mem_result, mem_wb_buf_.result)]
         ELSE registers_
    /\ instructions_retired_' =
         instructions_retired_ + (IF Holds(mem_wb_buf_) THEN 1 ELSE 0)
    /\ mem_wb_buf_' = [mem_wb_buf_ EXCEPT !.valid = FALSE]
    /\ stage' = "MEM"
    /\ UNCHANGED <<program, program_counter_, memory_, if_id_buf_, id_ex_buf_,
                   ex_mem_buf_, pipeline_stall, pipeline_flush, prediction,
                   cycle_count, stall_cycles, flush_cycles>>

\* What MEM leaves in the MEM/WB buffer.
MemWbNext ==
    LET b == ex_mem_buf_ IN
    CASE Holds(b) ->
           [instruction |-> b.instruction, pc |-> b.pc, valid |-> TRUE,
            is_nop |-> FALSE, signals |-> b.signals, result |-> b.exec_result,
            mem_result |-> IF b.signals.mem_read
                           THEN MemLoad(b.instruction.funct3, memory_, b.exec_result)
                           ELSE mem_wb_buf_.mem_result]
      [] b.valid /\ b.is_nop -> [EmptyMemWb EXCEPT !.valid = TRUE, !.is_nop = TRUE]
      [] ~b.valid -> [mem_wb_buf_ EXCEPT !.valid = FALSE]

PipelineMEM ==
    /\ stage = "MEM"
    /\ mem_wb_buf_' = MemWbNext
    /\ memory_' = IF Holds(ex_mem_buf_) /\ ex_mem_buf_.signals.mem_write
                  THEN MemStore(ex_mem_buf_.instruction.funct3, memory_,
                                ex_mem_buf_.exec_result, ex_mem_buf_.rs2_value)
                  ELSE memory_
    /\ ex_mem_buf_' = [ex_mem_buf_ EXCEPT !.valid = FALSE]
    /\ stage' = "EX"
    /\ UNCHANGED <<program, program_counter_, registers_, if_id_buf_, id_ex_buf_,
                   pipeline_stall, pipeline_flush, prediction, counters>>
-----------------------------------------------------------------------------
\* The EX/MEM buffer once EX has copied the instruction and its signals into
\* it, and before the ALU has run: exec_result is still the previous one.
ExMemCopied ==
    [instruction |-> id_ex_buf_.instruction, pc |-> id_ex_buf_.pc, valid |-> TRUE,
     is_nop |-> FALSE, signals |-> id_ex_buf_.signals,
     exec_result |-> ex_mem_buf_.exec_result, rs2_value |-> ex_mem_buf_.rs2_value]

Operand1 ==
    LET r == id_ex_buf_.instruction.rs1 IN
    IF r # 0 THEN GetForwardedValue(r, ExMemCopied, ForwardA(ExMemCopied)) ELSE 0

Operand2 ==
    LET r == id_ex_buf_.instruction.rs2 IN
    IF r # 0 THEN GetForwardedValue(r, ExMemCopied, ForwardB(ExMemCopied)) ELSE 0

AluInput2 == IF id_ex_buf_.signals.alu_src
             THEN ToWord(id_ex_buf_.instruction.imm) ELSE Operand2

ExecResult == alu_execute(GetAluSignal(id_ex_buf_.instruction), Operand1, AluInput2)

ActuallyTaken ==
    LET i == id_ex_buf_.instruction IN
    \/ i.opcode \in {"JAL", "JALR"}
    \/ i.opcode = "BRANCH" /\ BranchTaken(i.funct3, Operand1, AluInput2)

ActualTarget ==
    LET i == id_ex_buf_.instruction IN
    CASE i.opcode = "JALR" -> ClearBit0(ExecResult)
      [] i.opcode # "JALR" /\ ActuallyTaken -> ToWord(id_ex_buf_.pc + i.imm)
      [] i.opcode # "JALR" /\ ~ActuallyTaken -> ToWord(id_ex_buf_.pc + 4)

\* A faulty ResolveBranch whose predictor learns "taken" and never unlearns it.
ResolveBranchSticky ==
    IF pipelined_mode >= 4
    THEN IF PredictBranch(id_ex_buf_.pc, id_ex_buf_.instruction) # ActuallyTaken
         THEN /\ branch_mispredicted_' = TRUE
              /\ correct_branch_target_' = ActualTarget
              /\ pipeline_flush' = TRUE
              /\ flush_cycles' = flush_cycles + 2
              /\ branch_predictor_' = branch_predictor_ \cup {id_ex_buf_.pc}
              /\ UNCHANGED program_counter_
         ELSE UNCHANGED <<prediction, pipeline_flush, flush_cycles, program_counter_>>
    ELSE /\ program_counter_' = ActualTarget
         /\ pipeline_flush' = TRUE
         /\ flush_cycles' = flush_cycles + 2
         /\ UNCHANGED prediction

\* The part of EX that resolves a branch or a jump.
ResolveBranch ==
    IF pipelined_mode >= 4
    THEN IF PredictBranch(id_ex_buf_.pc, id_ex_buf_.instruction) # ActuallyTaken
         THEN /\ branch_mispredicted_' = TRUE
              /\ correct_branch_target_' = ActualTarget
              /\ pipeline_flush' = TRUE
              /\ flush_cycles' = flush_cycles + 2
              /\ branch_predictor_' =
                    CASE pipelined_mode # 5 -> branch_predictor_
                      [] pipelined_mode = 5 /\ ActuallyTaken
                            -> branch_predictor_ \cup {id_ex_buf_.pc}
                      [] pipelined_mode = 5 /\ ~ActuallyTaken
                            -> branch_predictor_ \ {id_ex_buf_.pc}
              /\ UNCHANGED program_counter_
         ELSE UNCHANGED <<prediction, pipeline_flush, flush_cycles, program_counter_>>
    ELSE /\ program_counter_' = ActualTarget
         /\ pipeline_flush' = TRUE
         /\ flush_cycles' = flush_cycles + 2
         /\ UNCHANGED prediction

ExMemNext ==
    CASE Holds(id_ex_buf_) -> [ExMemCopied EXCEPT !.exec_result = ExecResult,
                                                  !.rs2_value = Operand2]
      [] id_ex_buf_.valid /\ id_ex_buf_.is_nop ->
            [EmptyExMem EXCEPT !.valid = TRUE, !.is_nop = TRUE]
      [] ~id_ex_buf_.valid -> [ex_mem_buf_ EXCEPT !.valid = FALSE]

PipelineEX ==
    /\ stage = "EX"
    /\ ex_mem_buf_' = ExMemNext
    /\ IF Holds(id_ex_buf_) /\ id_ex_buf_.signals.branch
       THEN ResolveBranch
       ELSE UNCHANGED <<prediction, pipeline_flush, flush_cycles, program_counter_>>
    /\ id_ex_buf_' = [id_ex_buf_ EXCEPT !.valid = FALSE]
    /\ stage' = "ID"
    /\ UNCHANGED <<program, registers_, memory_, if_id_buf_, mem_wb_buf_,
                   pipeline_stall, cycle_count, instructions_retired_, stall_cycles>>
-----------------------------------------------------------------------------
Hazard == DetectLoadUseHazard \/ DetectDataHazard

\* ID of an instruction that a branch in EX has just cancelled.
FlushID ==
    /\ pipeline_flush
    /\ id_ex_buf_' = [id_ex_buf_ EXCEPT !.valid = FALSE, !.is_nop = FALSE]
    /\ UNCHANGED <<if_id_buf_, pipeline_stall, stall_cycles>>

\* A faulty InsertStall that does not count the cycle.
InsertStallUncounted ==
    /\ ~pipeline_flush
    /\ Hazard
    /\ id_ex_buf_' = [id_ex_buf_ EXCEPT
           !.valid = TRUE, !.is_nop = TRUE, !.instruction = ZeroInstr,
           !.signals = [@ EXCEPT !.reg_write = FALSE, !.mem_read = FALSE,
                                 !.mem_write = FALSE, !.branch = FALSE]]
    /\ pipeline_stall' = TRUE
    /\ UNCHANGED <<if_id_buf_, stall_cycles>>

InsertStall ==
    /\ ~pipeline_flush
    /\ Hazard
    /\ id_ex_buf_' = [id_ex_buf_ EXCEPT
           !.valid = TRUE, !.is_nop = TRUE, !.instruction = ZeroInstr,
           !.signals = [@ EXCEPT !.reg_write = FALSE, !.mem_read = FALSE,
                                 !.mem_write = FALSE, !.branch = FALSE]]
    /\ stall_cycles' = stall_cycles + 1
    /\ pipeline_stall' = TRUE
    /\ UNCHANGED if_id_buf_

\* A faulty Decode that leaves the stall of the cycle before in force.
DecodeStillStalled ==
    /\ ~pipeline_flush
    /\ ~Hazard
    /\ id_ex_buf_' =
         IF Holds(if_id_buf_)
         THEN [instruction |-> if_id_buf_.instruction, pc |-> if_id_buf_.pc,
               valid |-> TRUE, is_nop |-> FALSE,
               signals |-> SetControlSignals(if_id_buf_.instruction)]
         ELSE [id_ex_buf_ EXCEPT !.valid = FALSE]
    /\ if_id_buf_' = [if_id_buf_ EXCEPT !.valid = FALSE]
    /\ UNCHANGED <<pipeline_stall, stall_cycles>>

Decode ==
    /\ ~pipeline_flush
    /\ ~Hazard
    /\ pipeline_stall' = FALSE
    /\ id_ex_buf_' =
         IF Holds(if_id_buf_)
         THEN [instruction |-> if_id_buf_.instruction, pc |-> if_id_buf_.pc,
               valid |-> TRUE, is_nop |-> FALSE,
               signals |-> SetControlSignals(if_id_buf_.instruction)]
         ELSE [id_ex_buf_ EXCEPT !.valid = FALSE]
    /\ if_id_buf_' = [if_id_buf_ EXCEPT !.valid = FALSE]
    /\ UNCHANGED stall_cycles

PipelineID ==
    /\ stage = "ID"
    /\ FlushID \/ InsertStall \/ Decode
    /\ stage' = "IF"
    /\ UNCHANGED <<program, program_counter_, registers_, memory_, ex_mem_buf_,
                   mem_wb_buf_, pipeline_flush, prediction, cycle_count,
                   instructions_retired_, flush_cycles>>
-----------------------------------------------------------------------------
Fetched(address) == [instruction |-> ReadInstr(text, address), pc |-> address,
                     valid |-> TRUE, is_nop |-> FALSE]

\* The address after the one fetched, or the predicted target (modes 4 and 5).
PredictedPc(address) ==
    LET i == ReadInstr(text, address)
    IN IF /\ pipelined_mode >= 4
          /\ i.opcode \in {"JAL", "BRANCH"}
          /\ PredictBranch(address, i)
       THEN ToWord(address + i.imm)
       ELSE ToWord(address + 4)

HoldIF ==
    /\ pipeline_stall
    /\ UNCHANGED <<program_counter_, if_id_buf_, branch_mispredicted_>>

\* A RecoverIF that leaves the pc at the instruction it has just fetched.
RecoverIFTwice ==
    /\ ~pipeline_stall
    /\ branch_mispredicted_
    /\ if_id_buf_' = Fetched(correct_branch_target_)
    /\ program_counter_' = correct_branch_target_
    /\ branch_mispredicted_' = FALSE

RecoverIF ==
    /\ ~pipeline_stall
    /\ branch_mispredicted_
    /\ if_id_buf_' = Fetched(correct_branch_target_)
    /\ program_counter_' = ToWord(correct_branch_target_ + 4)
    /\ branch_mispredicted_' = FALSE

FlushIF ==
    /\ ~pipeline_stall
    /\ ~branch_mispredicted_
    /\ pipeline_flush
    /\ if_id_buf_' = [if_id_buf_ EXCEPT !.valid = FALSE, !.is_nop = FALSE]
    /\ UNCHANGED <<program_counter_, branch_mispredicted_>>

FetchIF ==
    /\ ~pipeline_stall
    /\ ~branch_mispredicted_
    /\ ~pipeline_flush
    /\ IF program_counter_ < program_size_
       THEN /\ if_id_buf_' = Fetched(program_counter_)
            /\ program_counter_' = PredictedPc(program_counter_)
       ELSE /\ if_id_buf_' = [if_id_buf_ EXCEPT !.valid = FALSE]
            /\ UNCHANGED program_counter_
    /\ UNCHANGED branch_mispredicted_

PipelineIF ==
    /\ stage = "IF"
    /\ HoldIF \/ RecoverIF \/ FlushIF \/ FetchIF
    /\ stage' = "end"
    /\ UNCHANGED <<program, registers_, memory_, id_ex_buf_, ex_mem_buf_, mem_wb_buf_,
                   pipeline_stall, pipeline_flush, correct_branch_target_,
                   branch_predictor_, counters>>

\* The end of ExecutePipelineCycle.
EndCycle ==
    /\ stage = "end"
    /\ pipeline_flush' = FALSE
    /\ cycle_count' = cycle_count + 1
    /\ stage' = "WB"
    /\ UNCHANGED <<program, program_counter_, registers_, memory_, buffers,
                   pipeline_stall, prediction, instructions_retired_, stall_cycles,
                   flush_cycles>>
-----------------------------------------------------------------------------
\* A freshly constructed RV5SVM in which a program has been loaded (and the
\* registers perhaps modified by the user) before the first cycle.
Init ==
    /\ \E p \in Setups : /\ pipelined_mode = p.mode
                         /\ text = p.text /\ program_size_ = p.size
                         /\ registers_ = p.registers
    /\ program_counter_ = 0
    /\ memory_ = InitialMemory
    /\ if_id_buf_ = EmptyIfId
    /\ id_ex_buf_ = EmptyIdEx
    /\ ex_mem_buf_ = EmptyExMem
    /\ mem_wb_buf_ = EmptyMemWb
    /\ pipeline_stall = FALSE
    /\ pipeline_flush = FALSE
    /\ branch_mispredicted_ = FALSE
    /\ correct_branch_target_ = 0
    /\ branch_predictor_ = {}
    /\ stage = "WB"
    /\ cycle_count = 0
    /\ instructions_retired_ = 0
    /\ stall_cycles = 0
    /\ flush_cycles = 0

\* Step's guard: the VM starts a cycle as long as there is something to fetch
\* or something in flight.
Busy == \/ program_counter_ < program_size_
        \/ if_id_buf_.valid \/ id_ex_buf_.valid
        \/ ex_mem_buf_.valid \/ mem_wb_buf_.valid

\* The first stage of a cycle.
StartCycle == Busy /\ cycle_count < MaxCycles /\ PipelineWB

Next == StartCycle \/ PipelineMEM \/ PipelineEX \/ PipelineID \/ PipelineIF \/ EndCycle

Spec == Init /\ [][Next]_vars

\* Run calls ExecutePipelineCycle in a loop: a cycle that can start does start,
\* and a stage that is due is executed.
FairSpec == Spec /\ WF_vars(Next)
-----------------------------------------------------------------------------
\* The buffers hold instructions, signals and words, in every mode.
TypeOK ==
    /\ pipelined_mode \in 1 .. 5
    /\ IsText(text) /\ program_size_ \in Word
    /\ program_counter_ \in Word
    /\ registers_ \in [Reg -> Word]
    /\ IsMemory(memory_)
    /\ if_id_buf_ \in IfIdBuffer
    /\ id_ex_buf_ \in IdExBuffer
    /\ ex_mem_buf_ \in ExMemBuffer
    /\ mem_wb_buf_ \in MemWbBuffer
    /\ pipeline_stall \in BOOLEAN /\ pipeline_flush \in BOOLEAN
    /\ branch_mispredicted_ \in BOOLEAN /\ correct_branch_target_ \in Word
    /\ branch_predictor_ \subseteq Word
    /\ stage \in {"WB", "MEM", "EX", "ID", "IF", "end"}
    /\ cycle_count \in Nat /\ instructions_retired_ \in Nat
    /\ stall_cycles \in Nat /\ flush_cycles \in Nat
-----------------------------------------------------------------------------
(***************************************************************************)
(* The programs that a mode executes as written.  A program outside them   *)
(* meets one of the defects that the violation runs and the README show.   *)
(***************************************************************************)

\* The registers whose contents an instruction's effect depends on.
Sources(i) ==
    CASE i.opcode \in {"R", "STORE", "BRANCH"} -> {i.rs1, i.rs2}
      [] i.opcode \in {"LOAD", "IMM", "JALR"} -> {i.rs1}
      [] OTHER -> {}

Destinations(i) == IF SetControlSignals(i).reg_write THEN {i.rd} \ {0} ELSE {}

\* No instruction reads what the one just before it in the program writes:
\* mode 1 waits for nothing.
NoBackToBack(p) ==
    \A a \in DOMAIN p :
        Destinations(p[a]) \cap Sources(ReadInstr(p, ToWord(a + 4))) = {}

\* No instruction overwrites one of its own operands: with forwarding it would
\* take its own, not yet computed, result for that operand.
NoSelfOverwrite(p) ==
    \A a \in DOMAIN p : Sources(p[a]) \cap Destinations(p[a]) = {}

\* The instruction executed right after a lui, an auipc or (links) a predicted
\* jal, whose ALU result is not the value they write, does not read that value.
NoEarlyUse(p, links) ==
    \A a \in DOMAIN p :
        LET next == ToWord(a + (IF p[a].opcode = "JAL" THEN p[a].imm ELSE 4))
        IN \/ p[a].opcode \in {"LUI", "AUIPC"}
           \/ links /\ p[a].opcode = "JAL"
           => Destinations(p[a]) \cap Sources(ReadInstr(p, next)) = {}

\* There is no jalr, and a misprediction never resumes at the end of the program
\* or at an instruction that is itself predicted to be taken.
NoLostPrediction(p, size, mode) ==
    \A a \in DOMAIN p :
        /\ p[a].opcode # "JALR"
        /\ p[a].opcode = "BRANCH" =>
             \A t \in {ToWord(a + p[a].imm)} \cup (IF mode = 5 THEN {ToWord(a + 4)} ELSE {}) :
                /\ t < size
                /\ ReadInstr(p, t).opcode # "JAL"
                /\ mode = 5 => ReadInstr(p, t).opcode # "BRANCH"

Supports(mode, p, size) ==
    /\ mode = 1 => NoBackToBack(p)
    /\ mode >= 3 => NoSelfOverwrite(p) /\ NoEarlyUse(p, mode >= 4)
    /\ mode >= 4 => NoLostPrediction(p, size, mode)

\* Every program, in mode 2.
Supported == Supports(pipelined_mode, text, program_size_)
-----------------------------------------------------------------------------
(***************************************************************************)
(* The inductive invariant of the pipeline.                                *)
(***************************************************************************)

\* What a buffer holds is an instruction word of the program text, with the
\* signals the control unit derives from it; a bubble writes nothing back.
BuffersFaithful ==
    /\ if_id_buf_.valid => ~if_id_buf_.is_nop
    /\ if_id_buf_.valid => if_id_buf_.instruction = ReadInstr(text, if_id_buf_.pc)
    /\ \A buf \in {id_ex_buf_, ex_mem_buf_, mem_wb_buf_} : Holds(buf) =>
         /\ buf.instruction = ReadInstr(text, buf.pc)
         /\ buf.signals = SetControlSignals(buf.instruction)
    /\ mem_wb_buf_.valid /\ mem_wb_buf_.is_nop => ~mem_wb_buf_.signals.reg_write

\* Which buffers are empty, and which flags are set, when a stage is due.
StageOrder ==
    /\ stage = "MEM" => ~mem_wb_buf_.valid
    /\ stage = "EX" => ~ex_mem_buf_.valid
    /\ stage = "ID" => ~id_ex_buf_.valid
    /\ stage = "IF" /\ ~pipeline_stall /\ ~pipeline_flush => ~if_id_buf_.valid
    /\ pipeline_flush => stage \in {"ID", "IF", "end"} /\ ~Holds(id_ex_buf_)
    /\ pipeline_flush /\ stage = "end" => (if_id_buf_.valid <=> pipelined_mode >= 4)
    /\ branch_mispredicted_ <=>
           pipeline_flush /\ pipelined_mode >= 4 /\ stage \in {"ID", "IF"}

\* A stall holds an instruction in IF/ID behind a bubble, and no branch can be
\* resolved, hence nothing flushed, while it lasts.
StallHoldsInstruction ==
    /\ pipeline_stall => if_id_buf_.valid /\ ~pipeline_flush
    /\ pipeline_stall /\ stage # "ID" => id_ex_buf_.valid /\ id_ex_buf_.is_nop
    /\ pipeline_stall /\ stage = "ID" => ~ex_mem_buf_.signals.mem_read
    /\ id_ex_buf_.valid /\ id_ex_buf_.is_nop => pipeline_stall

\* What holds of the stages in every mode, whatever the program.
StagesAgree == BuffersFaithful /\ StageOrder /\ StallHoldsInstruction

\* A recovery resumes inside the program, where no jump is predicted.
RecoveryInProgram ==
    branch_mispredicted_ =>
        /\ correct_branch_target_ < program_size_
        /\ PredictedPc(correct_branch_target_) = ToWord(correct_branch_target_ + 4)

\* Fetch has followed the predictions, unless a flush is under way: the pc, IF/ID
\* and ID/EX, and in ID the instruction that EX has just executed, are in line.
FetchInOrder ==
    /\ if_id_buf_.valid => if_id_buf_.pc < program_size_
    /\ Holds(id_ex_buf_) => id_ex_buf_.pc < program_size_
    /\ (pipeline_flush => stage = "end") =>
         LET next == IF if_id_buf_.valid THEN if_id_buf_.pc ELSE program_counter_ IN
         /\ if_id_buf_.valid => program_counter_ = PredictedPc(if_id_buf_.pc)
         /\ Holds(id_ex_buf_) => next = PredictedPc(id_ex_buf_.pc)
         /\ stage = "ID" /\ Holds(ex_mem_buf_) =>
              /\ next = PredictedPc(ex_mem_buf_.pc)
              /\ pipelined_mode < 4 => ~ex_mem_buf_.signals.branch

\* The instruction in ID/EX reads no register that will be neither written nor
\* forwarded when EX reads its operands: without forwarding none that the
\* instruction before it writes, with it none whose value is not an ALU result.
OperandsSettled ==
    LET pending == IF stage = "EX" THEN mem_wb_buf_ ELSE ex_mem_buf_ IN
    /\ Holds(id_ex_buf_) /\ Holds(pending) /\ Writes(pending)
    /\ pending.instruction.rd \in Sources(id_ex_buf_.instruction)
    => /\ pipelined_mode >= 3
       /\ pending.instruction.opcode \notin {"LUI", "AUIPC", "JAL", "JALR"}

\* The pipeline never hands EX a stale operand or an instruction that is out of
\* turn, whatever is stalled, flushed, predicted and fetched meanwhile.
ProgramOrder == RecoveryInProgram /\ FetchInOrder /\ OperandsSettled

PipelineSafe == StagesAgree /\ (Supported => ProgramOrder)
-----------------------------------------------------------------------------
(***************************************************************************)
(* Refinement.  The pipeline's architectural state is that of the          *)
(* sequential machine after every instruction that EX has executed: the    *)
(* instructions in EX/MEM and MEM/WB count as done, those in IF/ID and     *)
(* ID/EX as not begun.                                                     *)
(***************************************************************************)

\* The registers once MEM/WB has written back ...
RegsAfterWB ==
    IF Holds(mem_wb_buf_) /\ Writes(mem_wb_buf_)
    THEN [registers_ EXCEPT ![mem_wb_buf_.instruction.rd] =
             WriteValue(mem_wb_buf_.instruction, mem_wb_buf_.pc,
                        mem_wb_buf_.signals.mem_to_reg,
                        mem_wb_buf_.mem_result, mem_wb_buf_.result)]
    ELSE registers_

\* ... and then EX/MEM, which may still have to read the memory.
IsaRegs ==
    IF Holds(ex_mem_buf_) /\ Writes(ex_mem_buf_)
    THEN [RegsAfterWB EXCEPT ![ex_mem_buf_.instruction.rd] =
             WriteValue(ex_mem_buf_.instruction, ex_mem_buf_.pc,
                        ex_mem_buf_.signals.mem_to_reg,
                        MemLoad(ex_mem_buf_.instruction.funct3, memory_,
                                ex_mem_buf_.exec_result),
                        ex_mem_buf_.exec_result)]
    ELSE RegsAfterWB

IsaMem ==
    IF Holds(ex_mem_buf_) /\ ex_mem_buf_.signals.mem_write
    THEN MemStore(ex_mem_buf_.instruction.funct3, memory_,
                  ex_mem_buf_.exec_result, ex_mem_buf_.rs2_value)
    ELSE memory_

\* The oldest instruction that EX has yet to execute.  The one in IF/ID is
\* cancelled by a flush until IF has replaced it.
IsaPc ==
    CASE Holds(id_ex_buf_) -> id_ex_buf_.pc
      [] ~Holds(id_ex_buf_) /\ branch_mispredicted_ -> correct_branch_target_
      [] ~Holds(id_ex_buf_) /\ ~branch_mispredicted_ ->
            IF if_id_buf_.valid /\ (pipeline_flush => stage = "end")
            THEN if_id_buf_.pc ELSE program_counter_

ISA == INSTANCE Isa WITH program_size <- program_size_, pc <- IsaPc,
                         regs <- IsaRegs, mem <- IsaMem

\* Stalls, forwarding, flushes and prediction are invisible: whatever they do,
\* the loaded program has the effect it has one instruction at a time.
RefinesIsa == ISA!Spec
-----------------------------------------------------------------------------
(***************************************************************************)
(* Properties of the cycle itself.                                         *)
(***************************************************************************)

\* Between two cycles, with nothing left to fetch and nothing in flight.
Drained == stage = "WB" /\ ~Busy

\* The statistics Run prints add up.  Every cycle either brings an instruction
\* to ID, or is counted as a stall, or is lost to a flush, or fills or drains
\* the pipeline (4 cycles, 2 of which a final branch's flush also counts).
\* A flush of modes 4 and 5 is counted as 2 cycles and loses 1: IF fetches the
\* right target in the very cycle of the flush.
CyclesAccounted ==
    Drained /\ cycle_count > 0 =>
        cycle_count =
            instructions_retired_ + stall_cycles
            + (IF pipelined_mode >= 4 THEN flush_cycles \div 2 ELSE flush_cycles)
            + (IF pipelined_mode < 4 /\ mem_wb_buf_.signals.branch THEN 2 ELSE 4)

\* With forwarding, an instruction is held in ID for at most one cycle: the
\* load it waits for has reached MEM/WB when it is decoded again.
StallsOnce == [][pipelined_mode >= 3 /\ stage = "ID" /\ pipeline_stall
                     => ~pipeline_stall']_vars

\* The 1-bit predictor holds the last outcome of every branch that EX resolves,
\* although it is updated only after a misprediction.
PredictsLastOutcome ==
    [][pipelined_mode = 5 /\ stage = "EX" /\ Holds(id_ex_buf_)
           /\ id_ex_buf_.instruction.opcode = "BRANCH"
           => (id_ex_buf_.pc \in branch_predictor_' <=> ActuallyTaken)]_vars

\* The program has no jump or branch that leads back.
ForwardOnly ==
    \A a \in DOMAIN text : /\ text[a].opcode # "JALR"
                           /\ text[a].opcode \in {"BRANCH", "JAL"} => text[a].imm > 0

\* No stall or flush holds the pipeline for ever: a program without backward
\* jumps is fetched to its end and drains, so that the loop of Run ends and
\* VM_PROGRAM_END is reported.
Finishes == ForwardOnly => <>Drained
=============================================================================
