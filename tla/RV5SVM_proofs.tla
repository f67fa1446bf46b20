--------------------------- MODULE RV5SVM_proofs ---------------------------
(***************************************************************************)
(* Proofs about the pipelined engine, for every program, every ALU, every  *)
(* word, byte and register-file size: what the stages keep, that a program *)
(* the mode supports has the effect it has on the sequential machine, and  *)
(* that a user's session of commands implements Session.                   *)
(***************************************************************************)
EXTENDS RV5SVM, Riscv_proofs

-----------------------------------------------------------------------------
\* One run of the pipeline (RV5SPipeline): PipelineInvariant to SupportedRefinesIsa.

\* The initial contents of the buffers.
LEMMA EmptyTypes ==
    /\ ZeroInstr \in Instr
    /\ NoSignals \in ControlSignals
    /\ EmptyIfId \in IfIdBuffer
    /\ EmptyIdEx \in IdExBuffer
    /\ EmptyExMem \in ExMemBuffer
    /\ EmptyMemWb \in MemWbBuffer
<1>1. 0 \in Word /\ 0 \in Reg
    BY SizeAssumption DEF Word, Reg
<1>2. ZeroInstr \in Instr
    BY <1>1 DEF ZeroInstr, Instr, Opcode
<1>3. NoSignals \in ControlSignals
    BY DEF NoSignals, ControlSignals
<1>4. QED
    BY <1>1, <1>2, <1>3 DEF EmptyIfId, IfIdBuffer, EmptyIdEx, IdExBuffer,
       EmptyExMem, ExMemBuffer, EmptyMemWb, MemWbBuffer

\* What WB writes for an instruction is a word.
LEMMA WriteValueType ==
    ASSUME NEW i \in Instr, NEW pc \in Word, NEW b \in BOOLEAN,
           NEW m \in Word, NEW r \in Word
    PROVE  WriteValue(i, pc, b, m, r) \in Word
<1>1. i.imm \in Int /\ pc \in Int
    BY SizeAssumption DEF Instr, Word
<1>2. ToWord(pc + 4) \in Word
    BY <1>1, ToWordType
<1>3. LuiValue(i.imm) \in Word /\ AuipcValue(pc, i.imm) \in Word
    BY <1>1, UpperType
<1>4. QED
    BY <1>2, <1>3 DEF WriteValue

\* EX computes words from words.
LEMMA ExTypes ==
    ASSUME TypeOK
    PROVE  /\ Operand1 \in Word
           /\ Operand2 \in Word
           /\ ExecResult \in Word
           /\ ActualTarget \in Word
<1>1. /\ id_ex_buf_.instruction \in Instr
      /\ id_ex_buf_.instruction.rs1 \in Reg
      /\ id_ex_buf_.instruction.rs2 \in Reg
      /\ id_ex_buf_.instruction.imm \in Int
      /\ id_ex_buf_.pc \in Word
    BY DEF TypeOK, IdExBuffer, Instr
<1>2. ExMemCopied.exec_result \in Word
    BY DEF TypeOK, ExMemCopied, ExMemBuffer
<1>3. mem_wb_buf_.mem_result \in Word /\ mem_wb_buf_.result \in Word
    BY DEF TypeOK, MemWbBuffer
<1>4. ASSUME NEW r \in Reg,
             NEW fw \in {"NO_FORWARD", "FORWARD_FROM_MEM", "FORWARD_FROM_WB"}
      PROVE  GetForwardedValue(r, ExMemCopied, fw) \in Word
  <2>1. 0 \in Word /\ registers_[r] \in Word
    BY SizeAssumption DEF TypeOK, Word
  <2>2. QED
    BY <1>2, <1>3, <2>1 DEF GetForwardedValue
<1>5. /\ ForwardA(ExMemCopied) \in {"NO_FORWARD", "FORWARD_FROM_MEM", "FORWARD_FROM_WB"}
      /\ ForwardB(ExMemCopied) \in {"NO_FORWARD", "FORWARD_FROM_MEM", "FORWARD_FROM_WB"}
    BY DEF ForwardA, ForwardB
<1>6. Operand1 \in Word /\ Operand2 \in Word
    BY <1>1, <1>4, <1>5, SizeAssumption DEF Operand1, Operand2, Word
<1>7. AluInput2 \in Word
    BY <1>1, <1>6, ToWordType DEF AluInput2
<1>8. ExecResult \in Word
    BY <1>1, <1>6, <1>7, GetAluSignalType, AluAssumption DEF ExecResult
<1>9. ActualTarget \in Word
  <2>1. /\ ToWord(id_ex_buf_.pc + id_ex_buf_.instruction.imm) \in Word
        /\ ToWord(id_ex_buf_.pc + 4) \in Word
    BY <1>1, ToWordType, SizeAssumption DEF Word
  <2>2. QED
    BY <1>8, <2>1, ClearBit0Type DEF ActualTarget
<1>10. QED
    BY <1>6, <1>8, <1>9

\* The stages keep every variable in its type.
LEMMA TypeWB == ASSUME TypeOK, PipelineWB PROVE TypeOK'
<1>1. mem_wb_buf_' \in MemWbBuffer
    BY DEF TypeOK, PipelineWB, MemWbBuffer
<1>2. registers_' \in [Reg -> Word]
  <2>1. /\ mem_wb_buf_.instruction \in Instr /\ mem_wb_buf_.pc \in Word
        /\ mem_wb_buf_.signals.mem_to_reg \in BOOLEAN
        /\ mem_wb_buf_.mem_result \in Word /\ mem_wb_buf_.result \in Word
    BY DEF TypeOK, MemWbBuffer, ControlSignals
  <2>2. QED
    BY <2>1, WriteValueType DEF TypeOK, PipelineWB
<1>3. instructions_retired_' \in Nat
    BY DEF TypeOK, PipelineWB
<1>4. QED
    BY <1>1, <1>2, <1>3 DEF TypeOK, PipelineWB, program, prediction

LEMMA TypeStep == ASSUME TypeOK, [Next]_vars PROVE TypeOK'
<1>1. CASE StartCycle
    BY <1>1, TypeWB DEF StartCycle
<1>2. CASE PipelineMEM
  <2>1. mem_wb_buf_' \in MemWbBuffer
    <3>1. ex_mem_buf_ \in ExMemBuffer /\ mem_wb_buf_ \in MemWbBuffer
      BY DEF TypeOK
    <3>2. MemLoad(ex_mem_buf_.instruction.funct3, memory_, ex_mem_buf_.exec_result)
              \in Word
      BY <3>1, MemLoadType DEF TypeOK, ExMemBuffer
    <3>3. QED
      BY <1>2, <3>1, <3>2, EmptyTypes
         DEF PipelineMEM, MemWbNext, Holds, ExMemBuffer, MemWbBuffer
  <2>2. IsMemory(memory_')
    <3>1. ex_mem_buf_.exec_result \in Word /\ ex_mem_buf_.rs2_value \in Word
      BY DEF TypeOK, ExMemBuffer
    <3>2. QED
      BY <1>2, <3>1, MemStoreType DEF TypeOK, PipelineMEM
  <2>3. ex_mem_buf_' \in ExMemBuffer
    BY <1>2 DEF TypeOK, PipelineMEM, ExMemBuffer
  <2>4. QED
    BY <1>2, <2>1, <2>2, <2>3 DEF TypeOK, PipelineMEM, program, prediction, counters
<1>3. CASE PipelineEX
  <2>1. ex_mem_buf_' \in ExMemBuffer
    <3>1. ExMemCopied \in ExMemBuffer
      BY DEF TypeOK, ExMemCopied, ExMemBuffer, IdExBuffer
    <3>2. QED
      BY <1>3, <3>1, ExTypes, EmptyTypes
         DEF TypeOK, PipelineEX, ExMemNext, Holds, ExMemBuffer, IdExBuffer
  <2>2. id_ex_buf_' \in IdExBuffer
    BY <1>3 DEF TypeOK, PipelineEX, IdExBuffer
  <2>3. id_ex_buf_.pc \in Word
    BY DEF TypeOK, IdExBuffer
  <2>4. /\ program_counter_' \in Word
        /\ pipeline_flush' \in BOOLEAN
        /\ flush_cycles' \in Nat
        /\ branch_mispredicted_' \in BOOLEAN
        /\ correct_branch_target_' \in Word
        /\ branch_predictor_' \subseteq Word
    <3>1. CASE Holds(id_ex_buf_) /\ id_ex_buf_.signals.branch
      <4>1. ResolveBranch /\ ActualTarget \in Word
        BY <1>3, <3>1, ExTypes DEF PipelineEX
      <4>2. flush_cycles' \in Nat
        BY <4>1 DEF TypeOK, ResolveBranch
      <4>3. branch_predictor_' \subseteq Word
        BY <2>3, <4>1 DEF TypeOK, ResolveBranch, prediction
      <4>4. QED
        BY <4>1, <4>2, <4>3 DEF TypeOK, ResolveBranch, prediction
    <3>2. CASE ~(Holds(id_ex_buf_) /\ id_ex_buf_.signals.branch)
      BY <1>3, <3>2 DEF TypeOK, PipelineEX, prediction
    <3>3. QED
      BY <3>1, <3>2
  <2>5. QED
    BY <1>3, <2>1, <2>2, <2>4 DEF TypeOK, PipelineEX, program
<1>4. CASE PipelineID
  <2>1. /\ id_ex_buf_' \in IdExBuffer
        /\ if_id_buf_' \in IfIdBuffer
        /\ pipeline_stall' \in BOOLEAN
        /\ stall_cycles' \in Nat
    <3>1. CASE FlushID
      BY <3>1 DEF TypeOK, FlushID, IdExBuffer
    <3>2. CASE InsertStall
      <4>1. id_ex_buf_ \in IdExBuffer
        BY DEF TypeOK
      <4>2. [id_ex_buf_.signals EXCEPT !.reg_write = FALSE, !.mem_read = FALSE,
                !.mem_write = FALSE, !.branch = FALSE] \in ControlSignals
        BY <4>1 DEF IdExBuffer, ControlSignals
      <4>3. id_ex_buf_' \in IdExBuffer
        BY <3>2, <4>1, <4>2, EmptyTypes DEF InsertStall, IdExBuffer
      <4>4. QED
        BY <3>2, <4>3 DEF TypeOK, InsertStall
    <3>3. CASE Decode
      <4>1. if_id_buf_ \in IfIdBuffer /\ id_ex_buf_ \in IdExBuffer
        BY DEF TypeOK
      <4>2. QED
        BY <3>3, <4>1, SignalsType DEF TypeOK, Decode, IdExBuffer, IfIdBuffer
    <3>4. QED
      BY <1>4, <3>1, <3>2, <3>3 DEF PipelineID
  <2>2. QED
    BY <1>4, <2>1 DEF TypeOK, PipelineID, program, prediction
<1>5. CASE PipelineIF
  <2>1. \A a \in Word : Fetched(a) \in IfIdBuffer /\ ToWord(a + 4) \in Word
    BY ReadInstrType, ToWordType, SizeAssumption DEF TypeOK, Fetched, IfIdBuffer, Word
  <2>2. PredictedPc(program_counter_) \in Word
    <3>1. /\ ReadInstr(text, program_counter_).imm \in Int
          /\ program_counter_ \in Int
      BY ReadInstrType, SizeAssumption DEF TypeOK, Instr, Word
    <3>2. QED
      BY <3>1, ToWordType DEF PredictedPc
  <2>3. /\ if_id_buf_' \in IfIdBuffer
        /\ program_counter_' \in Word
        /\ branch_mispredicted_' \in BOOLEAN
    <3>1. CASE HoldIF
      BY <3>1 DEF TypeOK, HoldIF
    <3>2. CASE RecoverIF
      BY <3>2, <2>1 DEF TypeOK, RecoverIF
    <3>3. CASE FlushIF
      BY <3>3 DEF TypeOK, FlushIF, IfIdBuffer
    <3>4. CASE FetchIF
      BY <3>4, <2>1, <2>2 DEF TypeOK, FetchIF, IfIdBuffer
    <3>5. QED
      BY <1>5, <3>1, <3>2, <3>3, <3>4 DEF PipelineIF
  <2>4. QED
    BY <1>5, <2>3 DEF TypeOK, PipelineIF, program, counters
<1>6. CASE EndCycle
  <2>1. cycle_count' \in Nat
    BY <1>6 DEF TypeOK, EndCycle
  <2>2. QED
    BY <1>6, <2>1 DEF TypeOK, EndCycle, program, buffers, prediction
<1>7. CASE UNCHANGED vars
  BY <1>7 DEF TypeOK, vars, program, buffers, prediction, counters
<1>8. QED
  BY <1>1, <1>2, <1>3, <1>4, <1>5, <1>6, <1>7 DEF Next

\* TypeOK holds initially.
LEMMA TypeInit == ASSUME Init PROVE TypeOK
<1>1. 0 \in Word
    BY SizeAssumption DEF Word
<1>2. QED
    BY <1>1, EmptyTypes, InitialAssumption DEF Init, TypeOK

\* Type correctness of the pipeline, in every mode and for every ALU: no
\* stage, bubble or flush leaves a register, a buffer or the pc with a value
\* the code's fixed-width variables could not hold.
THEOREM TypeCorrect == Spec => []TypeOK
<1>1. Init => TypeOK
    BY TypeInit
<1>2. TypeOK /\ [Next]_vars => TypeOK'
    BY TypeStep
<1>3. QED
    BY <1>1, <1>2, PTL DEF Spec
-----------------------------------------------------------------------------
(***************************************************************************)
(* What holds of the stages in every mode, whatever the program: one lemma *)
(* per stage.                                                              *)
(***************************************************************************)

LEMMA StagesInit == ASSUME Init PROVE StagesAgree
BY DEF Init, StagesAgree, BuffersFaithful, StageOrder, StallHoldsInstruction, Holds,
       EmptyIfId, EmptyIdEx, EmptyExMem, EmptyMemWb

\* WB only empties MEM/WB.
LEMMA StagesWB == ASSUME TypeOK, StagesAgree, PipelineWB PROVE StagesAgree'
<1> USE DEF PipelineWB, program, prediction, Holds
<1>1. ~mem_wb_buf_'.valid
    BY DEF TypeOK, MemWbBuffer
<1>2. BuffersFaithful'
    BY <1>1 DEF StagesAgree, BuffersFaithful
<1>3. StageOrder'
    BY <1>1 DEF StagesAgree, StageOrder
<1>4. StallHoldsInstruction'
    BY DEF StagesAgree, StallHoldsInstruction
<1>5. QED
    BY <1>2, <1>3, <1>4 DEF StagesAgree

\* MEM moves the contents of EX/MEM to MEM/WB.
LEMMA StagesMEM == ASSUME TypeOK, StagesAgree, PipelineMEM PROVE StagesAgree'
<1> USE DEF PipelineMEM, program, prediction, counters, Holds
<1>1. ~ex_mem_buf_'.valid
    BY DEF TypeOK, ExMemBuffer
<1>2. BuffersFaithful'
  <2>1. CASE Holds(ex_mem_buf_)
    <3>1. /\ mem_wb_buf_'.instruction = ex_mem_buf_.instruction
          /\ mem_wb_buf_'.pc = ex_mem_buf_.pc
          /\ mem_wb_buf_'.signals = ex_mem_buf_.signals
          /\ ~mem_wb_buf_'.is_nop
      BY <2>1 DEF MemWbNext
    <3>2. QED
      BY <1>1, <2>1, <3>1 DEF StagesAgree, BuffersFaithful
  <2>2. CASE ex_mem_buf_.valid /\ ex_mem_buf_.is_nop
    <3>1. mem_wb_buf_'.is_nop /\ mem_wb_buf_'.signals = NoSignals
      BY <2>2 DEF MemWbNext, EmptyMemWb
    <3>2. QED
      BY <1>1, <3>1 DEF StagesAgree, BuffersFaithful, NoSignals
  <2>3. CASE ~ex_mem_buf_.valid
    <3>1. ~mem_wb_buf_'.valid
      BY <2>3 DEF MemWbNext, TypeOK, MemWbBuffer
    <3>2. QED
      BY <1>1, <3>1 DEF StagesAgree, BuffersFaithful
  <2>4. QED
    BY <2>1, <2>2, <2>3
<1>3. StageOrder'
    BY <1>1 DEF StagesAgree, StageOrder
<1>4. StallHoldsInstruction'
    BY DEF StagesAgree, StallHoldsInstruction
<1>5. QED
    BY <1>2, <1>3, <1>4 DEF StagesAgree

\* What EX leaves in EX/MEM: the instruction with its signals, a bubble without
\* signals, or nothing.
LEMMA ExMemContents ==
    ASSUME TypeOK, PipelineEX
    PROVE  /\ Holds(id_ex_buf_) =>
                /\ Holds(ex_mem_buf_)'
                /\ ex_mem_buf_'.instruction = id_ex_buf_.instruction
                /\ ex_mem_buf_'.pc = id_ex_buf_.pc
                /\ ex_mem_buf_'.signals = id_ex_buf_.signals
                /\ ex_mem_buf_'.exec_result = ExecResult
                /\ ex_mem_buf_'.rs2_value = Operand2
           /\ id_ex_buf_.valid /\ id_ex_buf_.is_nop =>
                /\ ex_mem_buf_'.valid /\ ex_mem_buf_'.is_nop
                /\ ex_mem_buf_'.signals = NoSignals
           /\ ~id_ex_buf_.valid => ~ex_mem_buf_'.valid
<1> USE DEF PipelineEX, Holds
<1>1. CASE Holds(id_ex_buf_)
    BY <1>1 DEF ExMemNext, ExMemCopied
<1>2. CASE id_ex_buf_.valid /\ id_ex_buf_.is_nop
    BY <1>2 DEF ExMemNext, EmptyExMem
<1>3. CASE ~id_ex_buf_.valid
    BY <1>3 DEF ExMemNext, TypeOK, ExMemBuffer
<1>4. QED
    BY <1>1, <1>2, <1>3

\* EX empties ID/EX; only an instruction it resolves, never a bubble, starts a flush.
LEMMA StagesEX == ASSUME TypeOK, StagesAgree, PipelineEX PROVE StagesAgree'
<1> USE DEF PipelineEX, program, Holds
<1>1. ~id_ex_buf_'.valid
    BY DEF TypeOK, IdExBuffer
<1>2. BuffersFaithful'
  <2>1. ASSUME Holds(ex_mem_buf_)'
        PROVE  /\ ex_mem_buf_'.instruction = ReadInstr(text, ex_mem_buf_'.pc)
               /\ ex_mem_buf_'.signals = SetControlSignals(ex_mem_buf_'.instruction)
    BY <2>1, ExMemContents DEF StagesAgree, BuffersFaithful
  <2>2. QED
    BY <1>1, <2>1 DEF StagesAgree, BuffersFaithful
<1>3. ~pipeline_flush /\ ~branch_mispredicted_
    BY DEF StagesAgree, StageOrder
<1>4. /\ pipeline_flush' => Holds(id_ex_buf_)
      /\ branch_mispredicted_' <=> pipeline_flush' /\ pipelined_mode >= 4
  <2>1. CASE Holds(id_ex_buf_) /\ id_ex_buf_.signals.branch
    <3>1. ResolveBranch
      BY <2>1
    <3>2. CASE pipelined_mode >= 4
      BY <1>3, <2>1, <3>1, <3>2 DEF ResolveBranch, prediction
    <3>3. CASE ~(pipelined_mode >= 4)
      BY <1>3, <2>1, <3>1, <3>3 DEF ResolveBranch, prediction
    <3>4. QED
      BY <3>2, <3>3
  <2>2. CASE ~(Holds(id_ex_buf_) /\ id_ex_buf_.signals.branch)
    BY <1>3, <2>2 DEF prediction
  <2>3. QED
    BY <2>1, <2>2
<1>5. StageOrder'
    BY <1>1, <1>4 DEF StagesAgree, StageOrder
<1>6. StallHoldsInstruction'
  <2>1. pipeline_stall => ~pipeline_flush' /\ ex_mem_buf_'.signals = NoSignals
    BY <1>4, ExMemContents DEF StagesAgree, StallHoldsInstruction
  <2>2. QED
    BY <1>1, <2>1 DEF StagesAgree, StallHoldsInstruction, NoSignals
<1>7. QED
    BY <1>2, <1>5, <1>6 DEF StagesAgree

\* ID cancels, holds or passes on the instruction in IF/ID.
LEMMA StagesID == ASSUME TypeOK, StagesAgree, PipelineID PROVE StagesAgree'
<1> USE DEF PipelineID, program, prediction, Holds
<1>0. /\ if_id_buf_ \in IfIdBuffer /\ id_ex_buf_ \in IdExBuffer
      /\ ~id_ex_buf_.valid
    BY DEF TypeOK, StagesAgree, StageOrder
<1>1. CASE FlushID
  <2>1. ~id_ex_buf_'.valid
    BY <1>0, <1>1 DEF FlushID, IdExBuffer
  <2>2. BuffersFaithful'
    BY <1>1, <2>1 DEF FlushID, StagesAgree, BuffersFaithful
  <2>3. StageOrder' /\ StallHoldsInstruction'
    BY <1>1, <2>1 DEF FlushID, StagesAgree, StageOrder, StallHoldsInstruction
  <2>4. QED
    BY <2>2, <2>3 DEF StagesAgree
<1>2. CASE InsertStall
  <2>1. id_ex_buf_'.valid /\ id_ex_buf_'.is_nop /\ if_id_buf_.valid
    BY <1>0, <1>2 DEF InsertStall, IdExBuffer, Hazard, DetectLoadUseHazard,
                      DetectDataHazard
  <2>2. BuffersFaithful'
    BY <1>2, <2>1 DEF InsertStall, StagesAgree, BuffersFaithful
  <2>3. StageOrder' /\ StallHoldsInstruction'
    BY <1>2, <2>1 DEF InsertStall, StagesAgree, StageOrder, StallHoldsInstruction
  <2>4. QED
    BY <2>2, <2>3 DEF StagesAgree
<1>3. CASE Decode
  <2>1. ~if_id_buf_'.valid
    BY <1>0, <1>3 DEF Decode, IfIdBuffer
  <2>2. id_ex_buf_'.valid =>
               /\ Holds(if_id_buf_) /\ ~id_ex_buf_'.is_nop
               /\ id_ex_buf_'.instruction = if_id_buf_.instruction
               /\ id_ex_buf_'.pc = if_id_buf_.pc
               /\ id_ex_buf_'.signals = SetControlSignals(if_id_buf_.instruction)
    BY <1>0, <1>3 DEF Decode, IdExBuffer
  <2>3. BuffersFaithful'
    BY <1>3, <2>1, <2>2 DEF Decode, StagesAgree, BuffersFaithful
  <2>4. StageOrder' /\ StallHoldsInstruction'
    BY <1>3, <2>1, <2>2 DEF Decode, StagesAgree, StageOrder, StallHoldsInstruction
  <2>5. QED
    BY <2>3, <2>4 DEF StagesAgree
<1>4. QED
    BY <1>1, <1>2, <1>3

\* IF fetches an instruction of the text, unless it holds or drops one.
LEMMA StagesIF == ASSUME TypeOK, StagesAgree, PipelineIF PROVE StagesAgree'
<1> USE DEF PipelineIF, program, counters, Holds
<1>0. if_id_buf_ \in IfIdBuffer
    BY DEF TypeOK
<1>1. UNCHANGED <<id_ex_buf_, ex_mem_buf_, mem_wb_buf_, text, pipeline_stall, pipeline_flush>>
    OBVIOUS
<1>2. /\ if_id_buf_'.valid =>
           /\ ~if_id_buf_'.is_nop
           /\ if_id_buf_'.instruction = ReadInstr(text, if_id_buf_'.pc)
      /\ ~branch_mispredicted_'
      /\ pipeline_stall => if_id_buf_'.valid
      /\ pipeline_flush => (if_id_buf_'.valid <=> pipelined_mode >= 4)
  <2>1. CASE HoldIF
    BY <2>1 DEF HoldIF, StagesAgree, BuffersFaithful, StageOrder, StallHoldsInstruction
  <2>2. CASE RecoverIF
    BY <2>2 DEF RecoverIF, Fetched, StagesAgree, StageOrder
  <2>3. CASE FlushIF
    BY <1>0, <2>3 DEF FlushIF, IfIdBuffer, StagesAgree, StageOrder
  <2>4. CASE FetchIF
    BY <1>0, <2>4 DEF FetchIF, Fetched, IfIdBuffer
  <2>5. QED
    BY <2>1, <2>2, <2>3, <2>4
<1>3. BuffersFaithful'
    BY <1>1, <1>2 DEF StagesAgree, BuffersFaithful
<1>4. StageOrder'
    BY <1>1, <1>2 DEF StagesAgree, StageOrder
<1>5. StallHoldsInstruction'
    BY <1>1, <1>2 DEF StagesAgree, StallHoldsInstruction
<1>6. QED
    BY <1>3, <1>4, <1>5 DEF StagesAgree

\* The end of the cycle clears the flush.
LEMMA StagesEnd == ASSUME TypeOK, StagesAgree, EndCycle PROVE StagesAgree'
<1> USE DEF EndCycle, program, buffers, prediction, Holds
<1>1. BuffersFaithful'
    BY DEF StagesAgree, BuffersFaithful
<1>2. StageOrder' /\ StallHoldsInstruction'
    BY DEF StagesAgree, StageOrder, StallHoldsInstruction
<1>3. QED
    BY <1>1, <1>2 DEF StagesAgree

LEMMA StagesStutter == ASSUME StagesAgree, UNCHANGED vars PROVE StagesAgree'
BY DEF vars, program, buffers, prediction, counters, StagesAgree, BuffersFaithful,
       StageOrder, StallHoldsInstruction, Holds

LEMMA StagesStep == ASSUME TypeOK, StagesAgree, [Next]_vars PROVE StagesAgree'
BY StagesWB, StagesMEM, StagesEX, StagesID, StagesIF, StagesEnd, StagesStutter
   DEF Next, StartCycle

LEMMA StageInvariant == Spec => [](TypeOK /\ StagesAgree)
<1>1. Init => TypeOK /\ StagesAgree
    BY TypeInit, StagesInit
<1>2. TypeOK /\ StagesAgree /\ [Next]_vars => (TypeOK /\ StagesAgree)'
    BY TypeStep, StagesStep
<1>3. QED
    BY <1>1, <1>2, PTL DEF Spec
-----------------------------------------------------------------------------
(***************************************************************************)
(* Two action properties of the cycle, in every mode.                      *)
(***************************************************************************)

\* With forwarding an instruction is held in ID for at most one cycle, in every
\* program: one that is decoded again never waits again.
THEOREM AtMostOneStall == Spec => StallsOnce
<1>1. ASSUME TypeOK, StagesAgree, [Next]_vars, pipelined_mode >= 3, stage = "ID", pipeline_stall
      PROVE  ~pipeline_stall' \/ UNCHANGED vars
  <2>1. CASE PipelineID
    <3>1. ~pipeline_flush /\ ~ex_mem_buf_.signals.mem_read
      BY <1>1 DEF StagesAgree, StallHoldsInstruction
    <3>2. ~Hazard
      BY <1>1, <3>1 DEF TypeOK, Hazard, DetectLoadUseHazard, DetectDataHazard
    <3>3. QED
      BY <2>1, <3>1, <3>2 DEF PipelineID, FlushID, InsertStall, Decode
  <2>2. QED
    BY <1>1, <2>1
       DEF Next, StartCycle, PipelineWB, PipelineMEM, PipelineEX, PipelineIF, EndCycle
<1>2. TypeOK /\ StagesAgree /\ [Next]_vars =>
          [pipelined_mode >= 3 /\ stage = "ID" /\ pipeline_stall => ~pipeline_stall']_vars
    BY <1>1
<1>3. QED
    BY <1>2, StageInvariant, PTL DEF Spec, StallsOnce

\* In mode 5 the predictor holds the last outcome of every branch that EX resolves,
\* in every program, although only a misprediction updates it.
THEOREM PredictorFollows == Spec => PredictsLastOutcome
<1>1. ASSUME TypeOK, StagesAgree, [Next]_vars, pipelined_mode = 5, stage = "EX", Holds(id_ex_buf_),
             id_ex_buf_.instruction.opcode = "BRANCH"
      PROVE  \/ id_ex_buf_.pc \in branch_predictor_' <=> ActuallyTaken
             \/ UNCHANGED vars
  <2>1. CASE PipelineEX
    <3>1. id_ex_buf_.signals = SetControlSignals(id_ex_buf_.instruction)
      BY <1>1 DEF StagesAgree, BuffersFaithful
    <3>2. ResolveBranch
      <4>1. id_ex_buf_.signals.branch =
                (id_ex_buf_.instruction.opcode \in {"BRANCH", "JAL", "JALR"})
        BY <3>1 DEF SetControlSignals
      <4>2. QED
        BY <1>1, <2>1, <4>1 DEF PipelineEX
    <3>3. PredictBranch(id_ex_buf_.pc, id_ex_buf_.instruction)
              <=> id_ex_buf_.pc \in branch_predictor_
      BY <1>1 DEF PredictBranch
    <3>4. ActuallyTaken \in BOOLEAN
          /\ PredictBranch(id_ex_buf_.pc, id_ex_buf_.instruction) \in BOOLEAN
      BY DEF ActuallyTaken, PredictBranch
    <3>5. CASE PredictBranch(id_ex_buf_.pc, id_ex_buf_.instruction) = ActuallyTaken
      <4>1. branch_predictor_' = branch_predictor_
        BY <1>1, <3>2, <3>5 DEF ResolveBranch, prediction
      <4>2. QED
        BY <3>3, <3>5, <4>1
    <3>6. CASE PredictBranch(id_ex_buf_.pc, id_ex_buf_.instruction) # ActuallyTaken
      <4>1. branch_predictor_' = IF ActuallyTaken
                                 THEN branch_predictor_ \cup {id_ex_buf_.pc}
                                 ELSE branch_predictor_ \ {id_ex_buf_.pc}
        BY <1>1, <3>2, <3>4, <3>6 DEF ResolveBranch
      <4>2. QED
        BY <3>4, <4>1
    <3>7. QED
      BY <3>5, <3>6
  <2>2. QED
    BY <1>1, <2>1
       DEF Next, StartCycle, PipelineWB, PipelineMEM, PipelineID, PipelineIF, EndCycle
<1>2. TypeOK /\ StagesAgree /\ [Next]_vars =>
          [pipelined_mode = 5 /\ stage = "EX" /\ Holds(id_ex_buf_)
               /\ id_ex_buf_.instruction.opcode = "BRANCH"
               => (id_ex_buf_.pc \in branch_predictor_' <=> ActuallyTaken)]_vars
    BY <1>1
<1>3. QED
    BY <1>2, StageInvariant, PTL DEF Spec, PredictsLastOutcome
-----------------------------------------------------------------------------
(***************************************************************************)
(* The statistics, in every mode and for every program.  Every cycle has   *)
(* one EX; the ones that executed no instruction, and that neither a stall *)
(* nor a flush has been counted for, are spent filling or draining the     *)
(* pipeline.  How many they are so far follows from what is in flight.     *)
(***************************************************************************)

Executed == instructions_retired_ + Holding(ex_mem_buf_) + Holding(mem_wb_buf_)

\* The cycles in which EX has been called, and the cycle of a bubble, which is
\* counted when it is inserted.
ExCycles == cycle_count + (IF stage \in {"ID", "IF", "end"} THEN 1 ELSE 0)
                        + (IF id_ex_buf_.valid /\ id_ex_buf_.is_nop THEN 1 ELSE 0)

\* The cycles that flushes lose, half of those counted if IF recovers at once.
Lost == IF pipelined_mode >= 4 THEN flush_cycles \div 2 ELSE flush_cycles

\* EX has been called and IF, which may fetch, has not.
AfterEX == stage \in {"ID", "IF"}

\* With nothing left to decode: the last instruction that EX executed was a branch
\* that flushed, and how many cycles ago that was.
FlushedLast == pipelined_mode < 4 /\ (IF ex_mem_buf_.valid THEN ex_mem_buf_.signals.branch
                                                          ELSE mem_wb_buf_.signals.branch)
Drain == CASE stage = "EX" -> IF mem_wb_buf_.valid THEN 0 ELSE 1
           [] stage = "MEM" -> IF ex_mem_buf_.valid THEN 0 ELSE 1
           [] OTHER -> IF ex_mem_buf_.valid THEN 0 ELSE IF mem_wb_buf_.valid THEN 1 ELSE 2

\* The cycles that are accounted for by nothing but filling and draining.
Idle ==
    CASE AfterEX /\ pipeline_flush -> IF pipelined_mode >= 4 THEN 1 ELSE 0
      [] ~(AfterEX /\ pipeline_flush) /\ id_ex_buf_.valid -> 2
      [] ~(AfterEX /\ pipeline_flush) /\ ~id_ex_buf_.valid /\ if_id_buf_.valid ->
            IF stage = "ID" THEN 2 ELSE 1
      [] OTHER -> IF cycle_count = 0 THEN IF AfterEX THEN 1 ELSE 0
                  ELSE IF FlushedLast THEN Drain ELSE Drain + 2

CyclesBalance == ExCycles = Executed + stall_cycles + Lost + Idle

\* When IF still finds something to fetch.
FetchesLeft ==
    /\ cycle_count = 0 =>
         /\ ~id_ex_buf_.valid /\ ~ex_mem_buf_.valid /\ ~mem_wb_buf_.valid
         /\ ~pipeline_flush
         /\ if_id_buf_.valid <=> stage = "end"
         /\ stage \notin {"WB", "end"} => program_counter_ < program_size_
    /\ AfterEX /\ pipeline_flush /\ pipelined_mode < 4 =>
         ex_mem_buf_.valid /\ ex_mem_buf_.signals.branch
    /\ id_ex_buf_.valid /\ ~if_id_buf_.valid /\ stage # "IF" =>
         program_counter_ >= program_size_
    /\ cycle_count > 0 /\ ~id_ex_buf_.valid /\ ~if_id_buf_.valid
         /\ ~(AfterEX /\ pipeline_flush) /\ program_counter_ < program_size_ =>
         FlushedLast /\ Drain = (IF AfterEX THEN 1 ELSE 0)
    /\ ex_mem_buf_.valid /\ ex_mem_buf_.is_nop => ~ex_mem_buf_.signals.branch

Accounts == FetchesLeft /\ CyclesBalance

LEMMA BalanceTypes == ASSUME TypeOK PROVE Executed \in Nat /\ Lost \in Nat /\ ExCycles \in Nat
<1>1. Executed \in Nat /\ ExCycles \in Nat
    BY DEF TypeOK, Executed, Holding, ExCycles
<1>2. flush_cycles \div 2 \in Nat
    BY DEF TypeOK
<1>3. QED
    BY <1>1, <1>2 DEF TypeOK, Lost

LEMMA AccountsInit == ASSUME Init PROVE Accounts
<1>1. FetchesLeft
    BY DEF Init, FetchesLeft, AfterEX, EmptyIfId, EmptyIdEx, EmptyExMem, EmptyMemWb
<1>2. Executed = 0 /\ ExCycles = 0 /\ Idle = 0
    BY DEF Init, Executed, Holding, Holds, ExCycles, Idle, AfterEX, EmptyIfId, EmptyIdEx,
           EmptyExMem, EmptyMemWb
<1>3. Lost = 0
  <2>1. flush_cycles = 0 /\ 0 \div 2 = 0
    BY DEF Init
  <2>2. QED
    BY <2>1 DEF Lost
<1>4. QED
    BY <1>1, <1>2, <1>3 DEF Init, Accounts, CyclesBalance

\* WB retires what had been executed; a cycle starts only when IF can still fetch
\* or something is in flight.
LEMMA AccountsWB ==
    ASSUME TypeOK, StagesAgree, Accounts, Busy, PipelineWB PROVE Accounts'
<1> USE DEF PipelineWB, program, prediction
<1>1. ~mem_wb_buf_'.valid /\ mem_wb_buf_'.signals = mem_wb_buf_.signals
    BY DEF TypeOK, MemWbBuffer
<1>2. ~pipeline_flush
    BY DEF StagesAgree, StageOrder
<1>3. cycle_count \in Nat
    BY DEF TypeOK
<1>4. UNCHANGED <<ExCycles, Lost>>
    BY DEF ExCycles, Lost
<1>5. UNCHANGED Executed
    BY <1>1 DEF Executed, Holding, Holds, TypeOK
<1>6. UNCHANGED Idle
    BY <1>1, <1>2, <1>3
       DEF Accounts, FetchesLeft, Busy, Idle, AfterEX, FlushedLast, Drain
<1>7. FetchesLeft'
    BY <1>1, <1>2, <1>3
       DEF Accounts, FetchesLeft, Busy, AfterEX, FlushedLast, Drain
<1>8. QED
    BY <1>4, <1>5, <1>6, <1>7 DEF Accounts, CyclesBalance

\* MEM moves what had been executed on.
LEMMA AccountsMEM ==
    ASSUME TypeOK, StagesAgree, Accounts, PipelineMEM PROVE Accounts'
<1> USE DEF PipelineMEM, program, prediction, counters
<1>1. ~mem_wb_buf_.valid /\ ~ex_mem_buf_'.valid /\ ~pipeline_flush
    BY DEF TypeOK, ExMemBuffer, StagesAgree, StageOrder
<1>2. /\ mem_wb_buf_'.valid = ex_mem_buf_.valid
      /\ ex_mem_buf_.valid => mem_wb_buf_'.is_nop = ex_mem_buf_.is_nop
      /\ Holds(ex_mem_buf_) => mem_wb_buf_'.signals = ex_mem_buf_.signals
      /\ ex_mem_buf_.valid /\ ex_mem_buf_.is_nop => mem_wb_buf_'.signals = NoSignals
      /\ ~ex_mem_buf_.valid => mem_wb_buf_'.signals = mem_wb_buf_.signals
    BY DEF MemWbNext, EmptyMemWb, Holds, TypeOK, MemWbBuffer, ExMemBuffer
<1>3. cycle_count \in Nat
    BY DEF TypeOK
<1>4. UNCHANGED <<ExCycles, Lost>>
    BY DEF ExCycles, Lost
<1>5. UNCHANGED Executed
    BY <1>1, <1>2 DEF Executed, Holding, Holds, TypeOK
<1>6. UNCHANGED FlushedLast
    BY <1>1, <1>2 DEF Accounts, FetchesLeft, FlushedLast, Holds, NoSignals
<1>7. UNCHANGED Drain
    BY <1>2 DEF Drain
<1>8. UNCHANGED Idle
    BY <1>1, <1>6, <1>7 DEF Idle, AfterEX
<1>9. FetchesLeft'
    BY <1>1, <1>2, <1>3, <1>6, <1>7 DEF Accounts, FetchesLeft, AfterEX
<1>10. QED
    BY <1>4, <1>5, <1>8, <1>9 DEF Accounts, CyclesBalance

\* EX executes an instruction or uses up a bubble, or the cycle is idle; a flush
\* counts in advance the cycles that it will lose.
LEMMA AccountsEX ==
    ASSUME TypeOK, StagesAgree, Accounts, PipelineEX PROVE Accounts'
<1> USE DEF PipelineEX, program
<1>1. ~id_ex_buf_'.valid /\ ~ex_mem_buf_.valid /\ ~pipeline_flush
    BY DEF TypeOK, IdExBuffer, StagesAgree, StageOrder
<1>2. /\ ex_mem_buf_'.valid <=> id_ex_buf_.valid
      /\ id_ex_buf_.valid => (ex_mem_buf_'.is_nop <=> id_ex_buf_.is_nop)
      /\ Holds(id_ex_buf_) => ex_mem_buf_'.signals = id_ex_buf_.signals
      /\ id_ex_buf_.valid /\ id_ex_buf_.is_nop => ex_mem_buf_'.signals = NoSignals
    BY ExMemContents DEF Holds
<1>3. /\ cycle_count \in Nat /\ instructions_retired_ \in Nat /\ flush_cycles \in Nat
      /\ stall_cycles \in Nat /\ pipelined_mode \in 1 .. 5
    BY DEF TypeOK
<1>4. Executed' = Executed + Holding(id_ex_buf_)
    BY <1>1, <1>2, <1>3 DEF Executed, Holding, Holds
<1>5. ExCycles' = ExCycles + (IF id_ex_buf_.valid /\ id_ex_buf_.is_nop THEN 0 ELSE 1)
    BY <1>1, <1>3 DEF ExCycles
<1>6. Lost \in Nat
    BY BalanceTypes
<1>7. CASE pipeline_flush'
  <2>1. /\ Holds(id_ex_buf_) /\ id_ex_buf_.signals.branch
        /\ flush_cycles' = flush_cycles + 2
    BY <1>1, <1>7 DEF ResolveBranch
  <2>2. Lost' = Lost + (IF pipelined_mode >= 4 THEN 1 ELSE 2)
    <3>1. (flush_cycles + 2) \div 2 = (flush_cycles \div 2) + 1
      BY <1>3
    <3>2. QED
      BY <2>1, <3>1 DEF Lost
  <2>3. Idle = 2 /\ Idle' = (IF pipelined_mode >= 4 THEN 1 ELSE 0)
    BY <1>1, <1>7, <2>1 DEF Idle, AfterEX, Holds
  <2>4. FetchesLeft'
    BY <1>1, <1>2, <1>7, <2>1 DEF Accounts, FetchesLeft, AfterEX, Holds
  <2>5. CyclesBalance'
    BY <1>3, <1>4, <1>5, <1>6, <2>1, <2>2, <2>3
       DEF Accounts, CyclesBalance, Holding, Holds, Executed
  <2>6. QED
    BY <2>4, <2>5 DEF Accounts
<1>8. CASE ~pipeline_flush'
  <2>1. UNCHANGED <<program_counter_, flush_cycles>>
    BY <1>8 DEF ResolveBranch
  <2>2. UNCHANGED Lost
    BY <2>1 DEF Lost
  <2>3. Holds(id_ex_buf_) /\ pipelined_mode < 4 => ~id_ex_buf_.signals.branch
    BY <1>3, <1>8 DEF ResolveBranch
  <2>4. id_ex_buf_.valid => ~FlushedLast' /\ Drain' = 0
    BY <1>2, <2>3 DEF FlushedLast, Drain, Holds, NoSignals
  <2>5. ~id_ex_buf_.valid => FlushedLast' = FlushedLast /\ Drain' = Drain + 1
    BY <1>1, <1>2 DEF FlushedLast, Drain
  <2>6. Idle' = Idle + (IF id_ex_buf_.valid THEN 0 ELSE 1)
    <3>1. CASE id_ex_buf_.valid
      <4>1. Idle = 2 /\ cycle_count # 0
        BY <1>1, <3>1 DEF Accounts, FetchesLeft, Idle, AfterEX
      <4>2. Idle' = 2
        BY <1>1, <1>8, <2>4, <3>1, <4>1 DEF Idle, AfterEX
      <4>3. QED
        BY <3>1, <4>1, <4>2
    <3>2. CASE ~id_ex_buf_.valid
      <4>1. Idle = IF if_id_buf_.valid THEN 1 ELSE IF cycle_count = 0 THEN 0
                   ELSE IF FlushedLast THEN Drain ELSE Drain + 2
        BY <1>1, <3>2 DEF Idle, AfterEX
      <4>2. Idle' = IF if_id_buf_.valid THEN 2 ELSE IF cycle_count = 0 THEN 1
                    ELSE IF FlushedLast THEN Drain + 1 ELSE (Drain + 1) + 2
        BY <1>1, <1>8, <2>5, <3>2 DEF Idle, AfterEX
      <4>3. Drain \in {0, 1}
        BY DEF Drain
      <4>4. QED
        BY <3>2, <4>1, <4>2, <4>3
    <3>3. QED
      BY <3>1, <3>2
  <2>7. FetchesLeft'
    <3>1. CASE id_ex_buf_.valid
      <4>1. ~if_id_buf_.valid => ~(program_counter_ < program_size_)
        <5>1. program_counter_ \in Int /\ program_size_ \in Int
          BY SizeAssumption DEF TypeOK, Word
        <5>2. QED
          BY <3>1, <5>1 DEF Accounts, FetchesLeft
      <4>2. cycle_count # 0
        BY <3>1 DEF Accounts, FetchesLeft
      <4>3. QED
        BY <1>1, <1>2, <1>8, <2>1, <4>1, <4>2 DEF FetchesLeft, AfterEX, NoSignals, Holds
    <3>2. CASE ~id_ex_buf_.valid
      <4>1. Drain = 0 => Drain' = 1
        BY <2>5, <3>2
      <4>2. QED
        BY <1>1, <1>2, <1>3, <1>8, <2>1, <2>5, <3>2, <4>1
           DEF Accounts, FetchesLeft, AfterEX, Holds, NoSignals
    <3>3. QED
      BY <3>1, <3>2
  <2>8. CyclesBalance'
    BY <1>3, <1>4, <1>5, <1>6, <2>2, <2>6
       DEF Accounts, CyclesBalance, Holding, Holds, Executed, Idle, Drain
  <2>9. QED
    BY <2>7, <2>8 DEF Accounts
<1>9. QED
    BY <1>7, <1>8

\* ID decodes, cancels or inserts a bubble, which it counts as a stall.
LEMMA AccountsID ==
    ASSUME TypeOK, StagesAgree, Accounts, PipelineID PROVE Accounts'
<1> USE DEF PipelineID, program, prediction
<1>1. /\ if_id_buf_ \in IfIdBuffer /\ id_ex_buf_ \in IdExBuffer /\ ~id_ex_buf_.valid
      /\ if_id_buf_.valid => ~if_id_buf_.is_nop
    BY DEF TypeOK, StagesAgree, StageOrder, BuffersFaithful
<1>2. cycle_count \in Nat /\ stall_cycles \in Nat
    BY DEF TypeOK
<1>3. UNCHANGED <<Executed, Lost, FlushedLast, Drain>>
    BY DEF Executed, Holding, Holds, Lost, FlushedLast, Drain
<1>4. CASE FlushID
  <2>1. ~id_ex_buf_'.valid /\ pipeline_flush
    BY <1>1, <1>4 DEF FlushID, IdExBuffer
  <2>2. UNCHANGED <<ExCycles, Idle>>
    BY <1>1, <1>4, <2>1 DEF ExCycles, Idle, AfterEX, FlushID
  <2>3. FetchesLeft'
    BY <1>1, <1>3, <1>4, <2>1 DEF FlushID, Accounts, FetchesLeft, AfterEX
  <2>4. QED
    BY <1>3, <1>4, <2>2, <2>3 DEF FlushID, Accounts, CyclesBalance
<1>5. CASE InsertStall
  <2>1. /\ id_ex_buf_'.valid /\ id_ex_buf_'.is_nop
        /\ if_id_buf_.valid /\ ~pipeline_flush
    BY <1>1, <1>5 DEF InsertStall, IdExBuffer, Hazard, DetectLoadUseHazard,
                      DetectDataHazard, Holds
  <2>2. ExCycles' = ExCycles + 1
    BY <1>1, <1>2, <2>1 DEF ExCycles
  <2>3. Idle = 2 /\ Idle' = 2
    BY <1>1, <2>1 DEF Idle, AfterEX
  <2>4. FetchesLeft'
    BY <1>1, <1>3, <1>5, <2>1 DEF InsertStall, Accounts, FetchesLeft, AfterEX
  <2>5. CyclesBalance'
    <3>1. stall_cycles' = stall_cycles + 1
      BY <1>5 DEF InsertStall
    <3>2. Executed \in Nat /\ Lost \in Nat /\ ExCycles \in Nat
      BY BalanceTypes
    <3>3. QED
      BY <1>2, <1>3, <2>2, <2>3, <3>1, <3>2 DEF Accounts, CyclesBalance
  <2>6. QED
    BY <2>4, <2>5 DEF Accounts
<1>6. CASE Decode
  <2>1. /\ ~if_id_buf_'.valid /\ ~pipeline_flush
        /\ id_ex_buf_'.valid <=> if_id_buf_.valid
        /\ id_ex_buf_'.valid => ~id_ex_buf_'.is_nop
    BY <1>1, <1>6 DEF Decode, Holds, IdExBuffer, IfIdBuffer
  <2>2. UNCHANGED <<ExCycles, Idle>>
    BY <1>1, <1>3, <2>1 DEF ExCycles, Idle, AfterEX
  <2>3. FetchesLeft'
    BY <1>1, <1>3, <2>1 DEF Accounts, FetchesLeft, AfterEX
  <2>4. QED
    BY <1>3, <1>6, <2>2, <2>3 DEF Decode, Accounts, CyclesBalance
<1>7. QED
    BY <1>4, <1>5, <1>6

\* IF fetches as long as there is something to fetch, and recovers at once.
LEMMA AccountsIF ==
    ASSUME TypeOK, StagesAgree, Accounts, PipelineIF PROVE Accounts'
<1> USE DEF PipelineIF, program, counters
<1>1. /\ if_id_buf_ \in IfIdBuffer
      /\ program_counter_ \in Int /\ program_size_ \in Int /\ cycle_count \in Nat
    BY SizeAssumption DEF TypeOK, Word
<1>2. UNCHANGED <<Executed, Lost, ExCycles, FlushedLast, Drain>>
    BY DEF Executed, Holding, Holds, Lost, ExCycles, FlushedLast, Drain
<1>3. CASE HoldIF
  <2>1. if_id_buf_.valid /\ id_ex_buf_.valid /\ ~pipeline_flush
    BY <1>3 DEF HoldIF, StagesAgree, StallHoldsInstruction
  <2>2. UNCHANGED Idle
    BY <1>3, <2>1 DEF HoldIF, Idle, AfterEX
  <2>3. FetchesLeft'
    BY <1>2, <1>3, <2>1 DEF HoldIF, Accounts, FetchesLeft, AfterEX
  <2>4. QED
    BY <1>2, <2>2, <2>3 DEF Accounts, CyclesBalance
<1>4. CASE RecoverIF
  <2>1. /\ pipeline_flush /\ pipelined_mode >= 4
        /\ ~id_ex_buf_.valid
        /\ if_id_buf_'.valid
    BY <1>4 DEF RecoverIF, Fetched, StagesAgree, StageOrder, StallHoldsInstruction, Holds
  <2>2. UNCHANGED Idle
    BY <2>1 DEF Idle, AfterEX
  <2>3. FetchesLeft'
    BY <1>2, <2>1 DEF Accounts, FetchesLeft, AfterEX
  <2>4. QED
    BY <1>2, <2>2, <2>3 DEF Accounts, CyclesBalance
<1>5. CASE FlushIF
  <2>1. /\ pipeline_flush /\ ~(pipelined_mode >= 4)
        /\ ~id_ex_buf_.valid
        /\ ~if_id_buf_'.valid
    BY <1>1, <1>5 DEF FlushIF, IfIdBuffer, StagesAgree, StageOrder, StallHoldsInstruction,
                      Holds
  <2>2. FlushedLast /\ Drain = 0 /\ cycle_count # 0
    BY <2>1 DEF Accounts, FetchesLeft, AfterEX, FlushedLast, Drain, TypeOK
  <2>3. UNCHANGED Idle
    BY <1>2, <2>1, <2>2 DEF Idle, AfterEX
  <2>4. FetchesLeft'
    BY <1>2, <2>1, <2>2 DEF Accounts, FetchesLeft, AfterEX
  <2>5. QED
    BY <1>2, <2>3, <2>4 DEF Accounts, CyclesBalance
<1>6. CASE FetchIF
  <2>1. ~pipeline_flush /\ ~if_id_buf_.valid
    BY <1>6 DEF FetchIF, StagesAgree, StageOrder
  <2>2. CASE program_counter_ < program_size_
    <3>1. if_id_buf_'.valid
      BY <1>6, <2>2 DEF FetchIF, Fetched
    <3>2. UNCHANGED Idle
      BY <1>1, <1>2, <2>1, <2>2, <3>1 DEF Accounts, FetchesLeft, Idle, AfterEX
    <3>3. FetchesLeft'
      BY <1>2, <2>1, <3>1 DEF Accounts, FetchesLeft, AfterEX
    <3>4. QED
      BY <1>2, <3>2, <3>3 DEF Accounts, CyclesBalance
  <2>3. CASE ~(program_counter_ < program_size_)
    <3>1. ~if_id_buf_'.valid /\ UNCHANGED program_counter_ /\ cycle_count # 0
      BY <1>1, <1>6, <2>3 DEF FetchIF, IfIdBuffer, Accounts, FetchesLeft
    <3>2. UNCHANGED Idle
      BY <1>2, <2>1, <3>1 DEF Idle, AfterEX
    <3>3. FetchesLeft'
      BY <1>1, <1>2, <2>1, <2>3, <3>1 DEF Accounts, FetchesLeft, AfterEX
    <3>4. QED
      BY <1>2, <3>2, <3>3 DEF Accounts, CyclesBalance
  <2>4. QED
    BY <2>2, <2>3
<1>7. QED
    BY <1>3, <1>4, <1>5, <1>6

LEMMA AccountsEnd ==
    ASSUME TypeOK, StagesAgree, Accounts, EndCycle PROVE Accounts'
<1> USE DEF EndCycle, program, buffers, prediction
<1>1. cycle_count \in Nat
    BY DEF TypeOK
<1>2. UNCHANGED <<Executed, Lost, ExCycles, FlushedLast, Drain>>
    BY <1>1 DEF Executed, Holding, Holds, Lost, ExCycles, FlushedLast, Drain
<1>3. UNCHANGED Idle
    BY <1>1, <1>2 DEF Idle, AfterEX, Accounts, FetchesLeft
<1>4. FetchesLeft'
    BY <1>1, <1>2 DEF Accounts, FetchesLeft, AfterEX
<1>5. QED
    BY <1>2, <1>3, <1>4 DEF Accounts, CyclesBalance

LEMMA AccountsStutter == ASSUME Accounts, UNCHANGED vars PROVE Accounts'
<1> USE DEF vars, program, buffers, prediction, counters
<1>1. UNCHANGED <<Executed, Lost, ExCycles, FlushedLast, Drain>>
    BY DEF Executed, Holding, Holds, Lost, ExCycles, FlushedLast, Drain
<1>2. UNCHANGED Idle
    BY <1>1 DEF Idle, AfterEX
<1>3. FetchesLeft'
    BY <1>1 DEF Accounts, FetchesLeft, AfterEX
<1>4. QED
    BY <1>1, <1>2, <1>3 DEF Accounts, CyclesBalance

\* In every mode and for every program the statistics that Run prints add up: a
\* cycle brings an instruction to ID, or is counted as a stall, or is lost to a
\* flush, or fills or drains the pipeline.
THEOREM StatisticsAddUp == Spec => []CyclesAccounted
<1>1. Init => Accounts
    BY AccountsInit
<1>2. TypeOK /\ StagesAgree /\ Accounts /\ [Next]_vars => Accounts'
    BY AccountsWB, AccountsMEM, AccountsEX, AccountsID, AccountsIF, AccountsEnd,
       AccountsStutter DEF Next, StartCycle
<1>3. TypeOK /\ Accounts => CyclesAccounted
  <2>1. SUFFICES ASSUME TypeOK, Accounts, Drained, cycle_count > 0
                 PROVE  cycle_count = instructions_retired_ + stall_cycles + Lost
                            + (IF pipelined_mode < 4 /\ mem_wb_buf_.signals.branch
                               THEN 2 ELSE 4)
    BY DEF CyclesAccounted, Lost
  <2>2. /\ stage = "WB" /\ ~if_id_buf_.valid /\ ~id_ex_buf_.valid
        /\ ~ex_mem_buf_.valid /\ ~mem_wb_buf_.valid
    BY <2>1 DEF Drained, Busy
  <2>3. instructions_retired_ \in Nat /\ cycle_count \in Nat
    BY <2>1 DEF TypeOK
  <2>4. Executed = instructions_retired_ /\ ExCycles = cycle_count
    BY <2>2, <2>3 DEF Executed, Holding, Holds, ExCycles
  <2>5. Idle = IF pipelined_mode < 4 /\ mem_wb_buf_.signals.branch THEN 2 ELSE 4
    BY <2>1, <2>2, <2>3 DEF Idle, AfterEX, FlushedLast, Drain
  <2>6. QED
    BY <2>1, <2>4, <2>5 DEF Accounts, CyclesBalance
<1>4. QED
    BY <1>1, <1>2, <1>3, StageInvariant, PTL DEF Spec

-----------------------------------------------------------------------------
(***************************************************************************)
(* Refinement.  In every mode the pipeline implements the sequential       *)
(* machine Isa, for every ALU and every program that the mode supports: in *)
(* mode 2, for every program.                                              *)
(***************************************************************************)

\* The same text and predictor predict the same.
LEMMA SamePrediction ==
    ASSUME UNCHANGED <<pipelined_mode, text, branch_predictor_>>, NEW a
    PROVE  PredictedPc(a)' = PredictedPc(a)
BY DEF PredictedPc, PredictBranch

LEMMA OrderInit == ASSUME Init PROVE ProgramOrder
BY DEF Init, ProgramOrder, RecoveryInProgram, FetchInOrder, OperandsSettled, Holds,
       EmptyIfId, EmptyIdEx

\* WB only empties MEM/WB.
LEMMA OrderWB ==
    ASSUME TypeOK, StagesAgree, ProgramOrder, PipelineWB PROVE ProgramOrder'
<1> USE DEF PipelineWB, program, prediction, Holds, Writes
<1>1. RecoveryInProgram'
    BY SamePrediction DEF ProgramOrder, RecoveryInProgram
<1>2. FetchInOrder'
    BY SamePrediction DEF ProgramOrder, FetchInOrder
<1>3. OperandsSettled'
    BY DEF ProgramOrder, OperandsSettled
<1>4. QED
    BY <1>1, <1>2, <1>3 DEF ProgramOrder

\* MEM moves the instruction whose destination matters from EX/MEM to MEM/WB.
LEMMA OrderMEM ==
    ASSUME TypeOK, StagesAgree, ProgramOrder, PipelineMEM PROVE ProgramOrder'
<1> USE DEF PipelineMEM, program, prediction, counters, Holds, Writes
<1>1. RecoveryInProgram'
    BY SamePrediction DEF ProgramOrder, RecoveryInProgram
<1>2. FetchInOrder'
    BY SamePrediction DEF ProgramOrder, FetchInOrder
<1>3. OperandsSettled'
  <2>1. ASSUME Holds(mem_wb_buf_)', Writes(mem_wb_buf_)'
        PROVE  /\ Holds(ex_mem_buf_) /\ Writes(ex_mem_buf_)
               /\ mem_wb_buf_'.instruction = ex_mem_buf_.instruction
    BY <2>1 DEF TypeOK, ExMemBuffer, MemWbBuffer, MemWbNext, EmptyMemWb, StageOrder,
                StagesAgree
  <2>2. QED
    BY <2>1 DEF ProgramOrder, OperandsSettled
<1>4. QED
    BY <1>1, <1>2, <1>3 DEF ProgramOrder

\* The instruction words that lie in the program text.
LEMMA InText ==
    ASSUME NEW t, NEW a, ReadInstr(t, a).opcode # "OTHER"
    PROVE  a \in DOMAIN t /\ ReadInstr(t, a) = t[a]
BY DEF ReadInstr, ZeroInstr

\* What EX needs to know of the instruction it has.
LEMMA InEX ==
    ASSUME TypeOK, StagesAgree, Holds(id_ex_buf_), NEW i, i = id_ex_buf_.instruction
    PROVE  /\ i \in Instr
           /\ i = ReadInstr(text, id_ex_buf_.pc)
           /\ id_ex_buf_.signals = SetControlSignals(i)
           /\ id_ex_buf_.signals.branch = (i.opcode \in {"BRANCH", "JAL", "JALR"})
<1>1. /\ i \in Instr
      /\ i = ReadInstr(text, id_ex_buf_.pc)
      /\ id_ex_buf_.signals = SetControlSignals(i)
    BY DEF TypeOK, IdExBuffer, StagesAgree, BuffersFaithful
<1>2. QED
    BY <1>1 DEF SetControlSignals

\* In the modes that predict, EX finds a misprediction of a conditional branch
\* only, and the target it corrects it to is one that the program allows.
LEMMA Mispredicted ==
    ASSUME TypeOK, StagesAgree, Supported, pipelined_mode >= 4,
           Holds(id_ex_buf_), id_ex_buf_.signals.branch
    PROVE  /\ id_ex_buf_.instruction.opcode # "JALR"
           /\ PredictBranch(id_ex_buf_.pc, id_ex_buf_.instruction) = ActuallyTaken =>
                ActualTarget = PredictedPc(id_ex_buf_.pc)
           /\ PredictBranch(id_ex_buf_.pc, id_ex_buf_.instruction) # ActuallyTaken =>
                /\ ActualTarget < program_size_
                /\ ReadInstr(text, ActualTarget).opcode # "JAL"
                /\ pipelined_mode = 5 => ReadInstr(text, ActualTarget).opcode # "BRANCH"
<1> DEFINE i == id_ex_buf_.instruction
           a == id_ex_buf_.pc
<1>1. i = ReadInstr(text, a) /\ i.opcode \in {"BRANCH", "JAL", "JALR"}
    BY InEX
<1>2. a \in DOMAIN text /\ i = text[a]
    BY <1>1, InText
<1>3. NoLostPrediction(text, program_size_, pipelined_mode)
    BY DEF Supported, Supports
<1>4. i.opcode # "JALR"
    BY <1>2, <1>3 DEF NoLostPrediction
<1>5. ActuallyTaken \in BOOLEAN /\ PredictBranch(a, i) \in BOOLEAN
    BY DEF ActuallyTaken, PredictBranch
<1>6. ActualTarget = IF ActuallyTaken THEN ToWord(a + i.imm) ELSE ToWord(a + 4)
    BY <1>4, <1>5 DEF ActualTarget
<1>7. PredictedPc(a) = IF PredictBranch(a, i) THEN ToWord(a + i.imm) ELSE ToWord(a + 4)
    BY <1>1, <1>4 DEF PredictedPc
<1>8. ASSUME PredictBranch(a, i) # ActuallyTaken
      PROVE  /\ ActualTarget < program_size_
             /\ ReadInstr(text, ActualTarget).opcode # "JAL"
             /\ pipelined_mode = 5 => ReadInstr(text, ActualTarget).opcode # "BRANCH"
  <2>1. i.opcode = "BRANCH"
    BY <1>1, <1>4, <1>8 DEF PredictBranch, ActuallyTaken
  <2>2. pipelined_mode # 5 => ~PredictBranch(a, i)
    BY <2>1 DEF PredictBranch
  <2>3. ActualTarget \in {ToWord(a + i.imm)}
            \cup (IF pipelined_mode = 5 THEN {ToWord(a + 4)} ELSE {})
    BY <1>5, <1>6, <1>8, <2>2
  <2>4. QED
    BY <1>2, <1>3, <2>1, <2>3 DEF NoLostPrediction
<1>9. QED
    BY <1>4, <1>6, <1>7, <1>8

\* EX empties ID/EX; a branch it resolves starts a flush, or was predicted right.
LEMMA OrderEX ==
    ASSUME TypeOK, StagesAgree, Supported, ProgramOrder, PipelineEX PROVE ProgramOrder'
<1> USE DEF PipelineEX, program, Holds
<1>1. ~id_ex_buf_'.valid
    BY DEF TypeOK, IdExBuffer
<1>2. ~pipeline_flush /\ ~branch_mispredicted_ /\ pipelined_mode \in 1 .. 5
    BY DEF StagesAgree, StageOrder, TypeOK
<1>3. CASE pipeline_flush'
  <2>1. FetchInOrder'
    BY <1>1, <1>3 DEF ProgramOrder, FetchInOrder
  <2>2. ASSUME branch_mispredicted_'
        PROVE  /\ correct_branch_target_' < program_size_
               /\ PredictedPc(correct_branch_target_)' = ToWord(correct_branch_target_ + 4)'
    <3>1. /\ pipelined_mode >= 4 /\ id_ex_buf_.signals.branch
          /\ PredictBranch(id_ex_buf_.pc, id_ex_buf_.instruction) # ActuallyTaken
          /\ correct_branch_target_' = ActualTarget
      BY <1>2, <2>2 DEF ResolveBranch, prediction
    <3>2. Holds(id_ex_buf_)
      BY <1>2, <2>2 DEF prediction
    <3>3. /\ ActualTarget < program_size_
          /\ ReadInstr(text, ActualTarget).opcode # "JAL"
          /\ pipelined_mode = 5 => ReadInstr(text, ActualTarget).opcode # "BRANCH"
      BY <3>1, <3>2, Mispredicted
    <3>4. QED
      BY <3>1, <3>3 DEF PredictedPc, PredictBranch
  <2>3. RecoveryInProgram'
    BY <2>2 DEF RecoveryInProgram
  <2>4. QED
    BY <1>1, <2>1, <2>3 DEF ProgramOrder, OperandsSettled
<1>4. CASE ~pipeline_flush'
  <2>1. /\ UNCHANGED <<branch_mispredicted_, branch_predictor_, program_counter_>>
        /\ Holds(id_ex_buf_) /\ pipelined_mode < 4 => ~id_ex_buf_.signals.branch
    BY <1>2, <1>4 DEF ResolveBranch, prediction
  <2>2. RecoveryInProgram'
    BY <1>2, <2>1 DEF RecoveryInProgram
  <2>3. ASSUME Holds(ex_mem_buf_)'
        PROVE  /\ Holds(id_ex_buf_)
               /\ ex_mem_buf_'.pc = id_ex_buf_.pc
               /\ ex_mem_buf_'.signals = id_ex_buf_.signals
    BY <2>3, ExMemContents
  <2>4. FetchInOrder'
    BY <1>1, <1>2, <1>4, <2>1, <2>3, SamePrediction DEF ProgramOrder, FetchInOrder
  <2>5. QED
    BY <1>1, <2>2, <2>4 DEF ProgramOrder, OperandsSettled
<1>5. QED
    BY <1>3, <1>4

\* What the instruction before leaves unsettled, the program does not read: the
\* reason that the restrictions of each mode are enough.
LEMMA DecodedSettled ==
    ASSUME TypeOK, StagesAgree, Supported, ProgramOrder, stage = "ID", Decode,
           Holds(if_id_buf_), Holds(ex_mem_buf_), Writes(ex_mem_buf_),
           ex_mem_buf_.instruction.rd \in Sources(if_id_buf_.instruction)
    PROVE  /\ pipelined_mode >= 3
           /\ ex_mem_buf_.instruction.opcode \notin {"LUI", "AUIPC", "JAL", "JALR"}
<1> DEFINE i == ex_mem_buf_.instruction
           j == if_id_buf_.instruction
           a == ex_mem_buf_.pc
<1> USE DEF Holds
<1>1. /\ i = ReadInstr(text, a) /\ ex_mem_buf_.signals = SetControlSignals(i)
      /\ j = ReadInstr(text, if_id_buf_.pc)
    BY DEF StagesAgree, BuffersFaithful
<1>2. /\ if_id_buf_.pc = PredictedPc(a)
      /\ pipelined_mode < 4 => ~ex_mem_buf_.signals.branch
    BY DEF Decode, ProgramOrder, FetchInOrder
<1>3. /\ ex_mem_buf_.signals.branch = (i.opcode \in {"BRANCH", "JAL", "JALR"})
      /\ ex_mem_buf_.signals.reg_write =
            (i.opcode \in {"R", "LOAD", "IMM", "LUI", "AUIPC", "JAL", "JALR"})
    BY <1>1 DEF SetControlSignals
<1>4. i.opcode # "OTHER" /\ i.rd \in Destinations(i)
    BY <1>1, <1>3 DEF Writes, Destinations
<1>5. a \in DOMAIN text /\ i = text[a]
    BY <1>1, <1>4, InText
<1>6. pipelined_mode \in 1 .. 5
    BY DEF TypeOK
<1>7. CASE pipelined_mode = 1
  <2>1. if_id_buf_.pc = ToWord(a + 4)
    BY <1>2, <1>7 DEF PredictedPc
  <2>2. NoBackToBack(text)
    BY <1>7 DEF Supported, Supports
  <2>3. QED
    BY <1>1, <1>4, <1>5, <2>1, <2>2 DEF NoBackToBack
<1>8. CASE pipelined_mode = 2
  <2>1. Sources(j) \subseteq {j.rs1, j.rs2}
    BY DEF Sources
  <2>2. DetectDataHazard
    BY <1>8, <2>1 DEF DetectDataHazard, RegisterMatch
  <2>3. QED
    BY <2>2 DEF Decode, Hazard
<1>9. CASE pipelined_mode >= 3
  <2>1. NoEarlyUse(text, pipelined_mode >= 4)
    BY <1>9 DEF Supported, Supports
  <2>2. i.opcode # "JALR"
    <3>1. CASE pipelined_mode >= 4
      BY <1>5, <3>1 DEF Supported, Supports, NoLostPrediction
    <3>2. CASE pipelined_mode < 4
      BY <1>2, <1>3, <3>2
    <3>3. QED
      BY <1>6, <3>1, <3>2
  <2>3. i.opcode = "JAL" => pipelined_mode >= 4
    <3>1. SUFFICES ASSUME i.opcode = "JAL" PROVE ~(pipelined_mode < 4)
      BY <1>6
    <3>2. ex_mem_buf_.signals.branch
      BY <1>3, <3>1
    <3>3. QED
      BY <1>2, <3>2
  <2>4. CASE i.opcode = "JAL"
    <3>1. if_id_buf_.pc = ToWord(a + i.imm)
      BY <1>1, <1>2, <2>3, <2>4 DEF PredictedPc, PredictBranch
    <3>2. Destinations(i) \cap Sources(ReadInstr(text, ToWord(a + i.imm))) = {}
      BY <1>5, <2>1, <2>3, <2>4 DEF NoEarlyUse
    <3>3. QED
      BY <1>1, <1>4, <3>1, <3>2
  <2>5. CASE i.opcode \in {"LUI", "AUIPC"}
    <3>1. if_id_buf_.pc = ToWord(a + 4)
      BY <1>1, <1>2, <2>5 DEF PredictedPc, PredictBranch
    <3>2. Destinations(i) \cap Sources(ReadInstr(text, ToWord(a + 4))) = {}
      BY <1>5, <2>1, <2>5 DEF NoEarlyUse
    <3>3. QED
      BY <1>1, <1>4, <3>1, <3>2
  <2>6. QED
    BY <1>9, <2>2, <2>4, <2>5
<1>10. QED
    BY <1>6, <1>7, <1>8, <1>9

\* ID lets an instruction pass only when its operands are settled.
LEMMA OrderID ==
    ASSUME TypeOK, StagesAgree, Supported, ProgramOrder, PipelineID PROVE ProgramOrder'
<1> USE DEF PipelineID, program, prediction, Holds
<1>0. /\ if_id_buf_ \in IfIdBuffer /\ id_ex_buf_ \in IdExBuffer
      /\ ~id_ex_buf_.valid
    BY DEF TypeOK, StagesAgree, StageOrder
<1>1. RecoveryInProgram'
    BY SamePrediction DEF ProgramOrder, RecoveryInProgram
<1>2. CASE FlushID
  <2>1. ~id_ex_buf_'.valid
    BY <1>0, <1>2 DEF FlushID, IdExBuffer
  <2>2. FetchInOrder' /\ OperandsSettled'
    BY <1>2, <2>1 DEF FlushID, ProgramOrder, FetchInOrder, OperandsSettled
  <2>3. QED
    BY <1>1, <2>2 DEF ProgramOrder
<1>3. CASE InsertStall
  <2>1. ~Holds(id_ex_buf_)'
    BY <1>0, <1>3 DEF InsertStall, IdExBuffer
  <2>2. FetchInOrder' /\ OperandsSettled'
    BY <1>3, <2>1, SamePrediction
       DEF InsertStall, ProgramOrder, FetchInOrder, OperandsSettled
  <2>3. QED
    BY <1>1, <2>2 DEF ProgramOrder
<1>4. CASE Decode
  <2>1. ~if_id_buf_'.valid /\ ~pipeline_flush
    BY <1>0, <1>4 DEF Decode, IfIdBuffer
  <2>2. ASSUME Holds(id_ex_buf_)'
        PROVE  /\ Holds(if_id_buf_)
               /\ id_ex_buf_'.instruction = if_id_buf_.instruction
               /\ id_ex_buf_'.pc = if_id_buf_.pc
    BY <1>0, <1>4, <2>2 DEF Decode, IdExBuffer
  <2>3. FetchInOrder'
    BY <1>4, <2>1, <2>2, SamePrediction DEF Decode, ProgramOrder, FetchInOrder
  <2>4. OperandsSettled'
    BY <1>4, <2>2, DecodedSettled DEF OperandsSettled, Writes
  <2>5. QED
    BY <1>1, <2>3, <2>4 DEF ProgramOrder
<1>5. QED
    BY <1>2, <1>3, <1>4

\* IF fetches where the youngest instruction in the pipeline is predicted to lead,
\* or where a misprediction is corrected to.
LEMMA OrderIF ==
    ASSUME TypeOK, StagesAgree, ProgramOrder, PipelineIF PROVE ProgramOrder'
<1> USE DEF PipelineIF, program, counters, Holds
<1>0. if_id_buf_ \in IfIdBuffer
    BY DEF TypeOK
<1>1. OperandsSettled'
    BY DEF ProgramOrder, OperandsSettled, Writes
<1>2. RecoveryInProgram'
  <2>1. ~branch_mispredicted_'
    BY DEF HoldIF, RecoverIF, FlushIF, FetchIF, StagesAgree, StageOrder, StallHoldsInstruction
  <2>2. QED
    BY <2>1 DEF RecoveryInProgram
<1>3. FetchInOrder'
  <2>1. CASE HoldIF
    BY <2>1, SamePrediction
       DEF HoldIF, ProgramOrder, FetchInOrder, StagesAgree, StallHoldsInstruction
  <2>2. CASE RecoverIF
    <3>1. ~Holds(id_ex_buf_)
      BY <2>2 DEF RecoverIF, StagesAgree, StageOrder
    <3>2. QED
      BY <2>2, <3>1, SamePrediction
         DEF RecoverIF, Fetched, ProgramOrder, FetchInOrder, RecoveryInProgram
  <2>3. CASE FlushIF
    <3>1. ~Holds(id_ex_buf_) /\ ~if_id_buf_'.valid
      BY <1>0, <2>3 DEF FlushIF, IfIdBuffer, StagesAgree, StageOrder
    <3>2. QED
      BY <3>1 DEF FetchInOrder
  <2>4. CASE FetchIF
    <3>1. ~if_id_buf_.valid
      BY <2>4 DEF FetchIF, StagesAgree, StageOrder
    <3>2. if_id_buf_'.valid =>
            /\ program_counter_ < program_size_
            /\ if_id_buf_'.pc = program_counter_
            /\ program_counter_' = PredictedPc(program_counter_)
      BY <1>0, <2>4 DEF FetchIF, Fetched, IfIdBuffer
    <3>3. ~if_id_buf_'.valid => program_counter_' = program_counter_
      BY <2>4 DEF FetchIF, Fetched
    <3>4. QED
      BY <2>4, <3>1, <3>2, <3>3, SamePrediction DEF FetchIF, ProgramOrder, FetchInOrder
  <2>5. QED
    BY <2>1, <2>2, <2>3, <2>4
<1>4. QED
    BY <1>1, <1>2, <1>3 DEF ProgramOrder

\* The end of the cycle changes nothing that is in order.
LEMMA OrderEnd ==
    ASSUME TypeOK, StagesAgree, ProgramOrder, EndCycle PROVE ProgramOrder'
<1> USE DEF EndCycle, program, buffers, prediction, Holds
<1>1. RecoveryInProgram'
    BY SamePrediction DEF ProgramOrder, RecoveryInProgram
<1>2. FetchInOrder'
    BY SamePrediction DEF ProgramOrder, FetchInOrder
<1>3. OperandsSettled'
    BY DEF ProgramOrder, OperandsSettled, Writes
<1>4. QED
    BY <1>1, <1>2, <1>3 DEF ProgramOrder

LEMMA OrderStutter == ASSUME ProgramOrder, UNCHANGED vars PROVE ProgramOrder'
<1> USE DEF vars, program, buffers, prediction, counters, Holds, Writes
<1>1. RecoveryInProgram'
    BY SamePrediction DEF ProgramOrder, RecoveryInProgram
<1>2. FetchInOrder'
    BY SamePrediction DEF ProgramOrder, FetchInOrder
<1>3. OperandsSettled'
    BY DEF ProgramOrder, OperandsSettled
<1>4. QED
    BY <1>1, <1>2, <1>3 DEF ProgramOrder

LEMMA OrderStep ==
    ASSUME TypeOK, StagesAgree, Supported, ProgramOrder, [Next]_vars PROVE ProgramOrder'
BY OrderWB, OrderMEM, OrderEX, OrderID, OrderIF, OrderEnd, OrderStutter
   DEF Next, StartCycle

\* No step changes the mode or the program.
LEMMA ProgramFixed ==
    ASSUME [Next]_vars PROVE UNCHANGED program /\ (Supported' <=> Supported)
<1>1. UNCHANGED program
    BY DEF Next, StartCycle, PipelineWB, PipelineMEM, PipelineEX, PipelineID,
           PipelineIF, EndCycle, vars
<1>2. QED
    BY <1>1 DEF program, Supported

\* In every mode the stages agree on what is in flight, whatever the program; and
\* in a program that the mode supports no instruction reaches EX out of turn or
\* before its operands are written or forwarded.
THEOREM PipelineInvariant == Spec => []PipelineSafe
<1>1. Init => PipelineSafe
    BY StagesInit, OrderInit DEF PipelineSafe
<1>2. TypeOK /\ PipelineSafe /\ [Next]_vars => PipelineSafe'
    BY StagesStep, ProgramFixed, OrderStep DEF PipelineSafe
<1>3. QED
    BY <1>1, <1>2, TypeCorrect, PTL DEF Spec
-----------------------------------------------------------------------------
(***************************************************************************)
(* Refinement.  EX is the step of the sequential machine; every other      *)
(* stage leaves the mapped state alone.                                    *)
(***************************************************************************)

\* WB moves a value from MEM/WB to the register it was mapped to.
LEMMA StutterWB ==
    ASSUME TypeOK, StagesAgree, PipelineWB PROVE UNCHANGED <<IsaPc, IsaRegs, IsaMem>>
<1> USE DEF PipelineWB, program, prediction
<1>1. ~mem_wb_buf_'.valid
    BY DEF TypeOK, MemWbBuffer
<1>2. registers_' = RegsAfterWB /\ RegsAfterWB' = registers_'
    BY <1>1 DEF RegsAfterWB, Holds
<1>3. UNCHANGED IsaRegs
    BY <1>2 DEF IsaRegs, Holds, Writes
<1>4. UNCHANGED IsaMem
    BY DEF IsaMem, Holds
<1>5. UNCHANGED IsaPc
    BY DEF IsaPc, Holds, StagesAgree, StageOrder
<1>6. QED
    BY <1>3, <1>4, <1>5

\* MEM performs the load or the store that the mapping has already counted.
LEMMA StutterMEM ==
    ASSUME TypeOK, StagesAgree, PipelineMEM PROVE UNCHANGED <<IsaPc, IsaRegs, IsaMem>>
<1> USE DEF PipelineMEM, program, prediction, counters
<1>1. ~ex_mem_buf_'.valid /\ ~mem_wb_buf_.valid
    BY DEF TypeOK, ExMemBuffer, StagesAgree, StageOrder
<1>2. UNCHANGED IsaMem
    BY <1>1 DEF IsaMem, Holds
<1>3. UNCHANGED IsaPc
    BY DEF IsaPc, Holds, StagesAgree, StageOrder
<1>4. RegsAfterWB = registers_ /\ IsaRegs' = RegsAfterWB'
    BY <1>1 DEF RegsAfterWB, IsaRegs, Holds
<1>5. UNCHANGED IsaRegs
  <2>1. CASE Holds(ex_mem_buf_)
    <3>1. ex_mem_buf_.signals = SetControlSignals(ex_mem_buf_.instruction)
      BY <2>1 DEF StagesAgree, BuffersFaithful
    <3>2. ex_mem_buf_.signals.mem_to_reg = ex_mem_buf_.signals.mem_read
      BY <3>1 DEF SetControlSignals
    <3>3. mem_wb_buf_' =
           [instruction |-> ex_mem_buf_.instruction, pc |-> ex_mem_buf_.pc,
            valid |-> TRUE, is_nop |-> FALSE, signals |-> ex_mem_buf_.signals,
            result |-> ex_mem_buf_.exec_result,
            mem_result |-> IF ex_mem_buf_.signals.mem_read
                           THEN MemLoad(ex_mem_buf_.instruction.funct3, memory_,
                                        ex_mem_buf_.exec_result)
                           ELSE mem_wb_buf_.mem_result]
      BY <2>1 DEF MemWbNext, Holds
    <3>4. Holds(mem_wb_buf_)' /\ (Writes(mem_wb_buf_)' <=> Writes(ex_mem_buf_))
      BY <2>1, <3>3 DEF Holds, Writes
    <3>5. WriteValue(mem_wb_buf_.instruction, mem_wb_buf_.pc,
                     mem_wb_buf_.signals.mem_to_reg,
                     mem_wb_buf_.mem_result, mem_wb_buf_.result)' =
          WriteValue(ex_mem_buf_.instruction, ex_mem_buf_.pc,
                     ex_mem_buf_.signals.mem_to_reg,
                     MemLoad(ex_mem_buf_.instruction.funct3, memory_,
                             ex_mem_buf_.exec_result),
                     ex_mem_buf_.exec_result)
      BY <3>2, <3>3 DEF WriteValue
    <3>6. mem_wb_buf_'.instruction.rd = ex_mem_buf_.instruction.rd
      BY <3>3
    <3>7. QED
      BY <1>4, <2>1, <3>4, <3>5, <3>6 DEF IsaRegs, RegsAfterWB
  <2>2. CASE ~Holds(ex_mem_buf_)
    <3>1. ~Holds(mem_wb_buf_)'
      BY <1>1, <2>2 DEF MemWbNext, Holds, EmptyMemWb, TypeOK, MemWbBuffer
    <3>2. QED
      BY <1>4, <2>2, <3>1 DEF IsaRegs, RegsAfterWB
  <2>3. QED
    BY <2>1, <2>2
<1>6. QED
    BY <1>2, <1>3, <1>5

\* ID moves the next instruction from IF/ID to ID/EX, or holds it.
LEMMA StutterID ==
    ASSUME TypeOK, StagesAgree, PipelineID PROVE UNCHANGED <<IsaPc, IsaRegs, IsaMem>>
<1> USE DEF PipelineID, program, prediction
<1>1. UNCHANGED <<IsaRegs, IsaMem>>
    BY DEF IsaRegs, IsaMem, RegsAfterWB, Holds, Writes
<1>2. /\ if_id_buf_ \in IfIdBuffer /\ id_ex_buf_ \in IdExBuffer
      /\ ~Holds(id_ex_buf_)
      /\ branch_mispredicted_ => pipeline_flush
      /\ if_id_buf_.valid => Holds(if_id_buf_)
    BY DEF TypeOK, StagesAgree, StageOrder, BuffersFaithful, Holds
<1>3. UNCHANGED IsaPc
  <2>1. CASE FlushID
    BY <1>2, <2>1 DEF FlushID, IsaPc, Holds, IdExBuffer
  <2>2. CASE InsertStall
    BY <1>2, <2>2 DEF InsertStall, IsaPc, Holds, IdExBuffer
  <2>3. CASE Decode
    <3>1. CASE if_id_buf_.valid
      BY <1>2, <2>3, <3>1 DEF Decode, IsaPc, Holds
    <3>2. CASE ~if_id_buf_.valid
      BY <1>2, <2>3, <3>2 DEF Decode, IsaPc, Holds, IdExBuffer, IfIdBuffer
    <3>3. QED
      BY <3>1, <3>2
  <2>4. QED
    BY <2>1, <2>2, <2>3
<1>4. QED
    BY <1>1, <1>3

\* IF turns the pc into an instruction, or drops one that was cancelled.
LEMMA StutterIF ==
    ASSUME TypeOK, StagesAgree, PipelineIF PROVE UNCHANGED <<IsaPc, IsaRegs, IsaMem>>
<1> USE DEF PipelineIF, program, counters
<1>1. UNCHANGED <<IsaRegs, IsaMem>>
    BY DEF IsaRegs, IsaMem, RegsAfterWB, Holds, Writes
<1>2. if_id_buf_ \in IfIdBuffer
    BY DEF TypeOK
<1>3. UNCHANGED IsaPc
  <2>1. CASE HoldIF
    BY <2>1 DEF HoldIF, IsaPc, Holds, StagesAgree, StageOrder, StallHoldsInstruction
  <2>2. CASE RecoverIF
    <3>1. ~Holds(id_ex_buf_)
      BY <2>2 DEF RecoverIF, StagesAgree, StageOrder
    <3>2. IsaPc = correct_branch_target_
      BY <2>2, <3>1 DEF RecoverIF, IsaPc
    <3>3. if_id_buf_'.valid /\ if_id_buf_'.pc = correct_branch_target_
      BY <2>2 DEF RecoverIF, Fetched
    <3>4. QED
      BY <2>2, <3>1, <3>2, <3>3 DEF RecoverIF, IsaPc, Holds
  <2>3. CASE FlushIF
    BY <1>2, <2>3 DEF FlushIF, IsaPc, Holds, IfIdBuffer
  <2>4. CASE FetchIF
    <3>1. ~if_id_buf_.valid
      BY <2>4 DEF FetchIF, StagesAgree, StageOrder
    <3>2. QED
      BY <1>2, <2>4, <3>1 DEF FetchIF, Fetched, IsaPc, Holds, IfIdBuffer
  <2>5. QED
    BY <2>1, <2>2, <2>3, <2>4
<1>4. QED
    BY <1>1, <1>3

\* The end of the cycle changes nothing the mapping looks at.
LEMMA StutterEnd ==
    ASSUME TypeOK, StagesAgree, EndCycle PROVE UNCHANGED <<IsaPc, IsaRegs, IsaMem>>
<1> USE DEF EndCycle, program, buffers, prediction
<1>1. UNCHANGED <<IsaRegs, IsaMem>>
    BY DEF IsaRegs, IsaMem, RegsAfterWB, Holds, Writes
<1>2. UNCHANGED IsaPc
    BY DEF IsaPc, Holds, StagesAgree, StageOrder
<1>3. QED
    BY <1>1, <1>2

\* An operand that an instruction depends on is not its own destination, and is
\* either forwarded from MEM/WB or already in the register file.
LEMMA SourceSettled ==
    ASSUME TypeOK, StagesAgree, Supported, ProgramOrder, stage = "EX", Holds(id_ex_buf_),
           NEW r \in Sources(id_ex_buf_.instruction), r # 0
    PROVE  /\ ~Produces(ExMemCopied, r)
           /\ Produces(mem_wb_buf_, r) => RegsAfterWB[r] =
                GetForwardedValue(r, ExMemCopied, "FORWARD_FROM_WB")
           /\ ~Produces(mem_wb_buf_, r) => RegsAfterWB[r] =
                GetForwardedValue(r, ExMemCopied, "NO_FORWARD")
<1> DEFINE i == id_ex_buf_.instruction
<1>1. /\ i \in Instr /\ i = ReadInstr(text, id_ex_buf_.pc)
      /\ id_ex_buf_.signals = SetControlSignals(i)
    BY InEX
<1>2. r \in {i.rs1, i.rs2} /\ i.opcode # "OTHER"
    BY DEF Sources
<1>3. r \in Reg /\ registers_ \in [Reg -> Word]
    BY <1>1, <1>2 DEF Instr, TypeOK
<1>4. ~Produces(ExMemCopied, r)
  <2>1. SUFFICES ASSUME pipelined_mode >= 3, id_ex_buf_.signals.reg_write, i.rd = r
                 PROVE  FALSE
    BY DEF Produces, Writes, ExMemCopied
  <2>2. NoSelfOverwrite(text)
    BY <2>1 DEF Supported, Supports
  <2>3. id_ex_buf_.pc \in DOMAIN text /\ i = text[id_ex_buf_.pc]
    BY <1>1, <1>2, InText
  <2>4. r \in Destinations(i)
    BY <1>1, <2>1 DEF Destinations
  <2>5. QED
    BY <2>2, <2>3, <2>4 DEF NoSelfOverwrite
<1>5. CASE Holds(mem_wb_buf_) /\ Writes(mem_wb_buf_) /\ mem_wb_buf_.instruction.rd = r
  <2>1. /\ pipelined_mode >= 3
        /\ mem_wb_buf_.instruction.opcode \notin {"LUI", "AUIPC", "JAL", "JALR"}
    BY <1>5 DEF ProgramOrder, OperandsSettled
  <2>2. Produces(mem_wb_buf_, r)
    BY <1>5, <2>1 DEF Produces
  <2>3. RegsAfterWB[r] = IF mem_wb_buf_.signals.mem_to_reg
                         THEN mem_wb_buf_.mem_result ELSE mem_wb_buf_.result
    BY <1>3, <1>5, <2>1 DEF RegsAfterWB, WriteValue
  <2>4. QED
    BY <1>4, <2>2, <2>3 DEF GetForwardedValue
<1>6. CASE ~(Holds(mem_wb_buf_) /\ Writes(mem_wb_buf_) /\ mem_wb_buf_.instruction.rd = r)
  <2>1. ~Produces(mem_wb_buf_, r)
    BY <1>6 DEF Produces, Writes, Holds, StagesAgree, BuffersFaithful
  <2>2. RegsAfterWB[r] = registers_[r]
    BY <1>3, <1>6 DEF RegsAfterWB
  <2>3. QED
    BY <1>4, <2>1, <2>2 DEF GetForwardedValue
<1>7. QED
    BY <1>5, <1>6

\* When EX executes an instruction, its operands are the values that the
\* sequential machine reads, wherever they come from.
LEMMA OperandsAgree ==
    ASSUME TypeOK, StagesAgree, Supported, ProgramOrder, stage = "EX", Holds(id_ex_buf_),
           NEW i, i = id_ex_buf_.instruction
    PROVE  /\ i.rs1 \in Sources(i) => Operand1 = ISA!Gpr(i.rs1)
           /\ i.rs2 \in Sources(i) => Operand2 = ISA!Gpr(i.rs2)
<1>1. IsaRegs = RegsAfterWB
    BY DEF StagesAgree, StageOrder, IsaRegs, Holds
<1>2. ASSUME i.rs1 \in Sources(i), i.rs1 # 0 PROVE Operand1 = RegsAfterWB[i.rs1]
  <2>1. /\ ~Produces(ExMemCopied, i.rs1)
        /\ Produces(mem_wb_buf_, i.rs1) => RegsAfterWB[i.rs1] =
                GetForwardedValue(i.rs1, ExMemCopied, "FORWARD_FROM_WB")
        /\ ~Produces(mem_wb_buf_, i.rs1) => RegsAfterWB[i.rs1] =
                GetForwardedValue(i.rs1, ExMemCopied, "NO_FORWARD")
    BY <1>2, SourceSettled
  <2>2. QED
    BY <1>2, <2>1 DEF Operand1, ForwardA
<1>3. ASSUME i.rs2 \in Sources(i), i.rs2 # 0 PROVE Operand2 = RegsAfterWB[i.rs2]
  <2>1. /\ ~Produces(ExMemCopied, i.rs2)
        /\ Produces(mem_wb_buf_, i.rs2) => RegsAfterWB[i.rs2] =
                GetForwardedValue(i.rs2, ExMemCopied, "FORWARD_FROM_WB")
        /\ ~Produces(mem_wb_buf_, i.rs2) => RegsAfterWB[i.rs2] =
                GetForwardedValue(i.rs2, ExMemCopied, "NO_FORWARD")
    BY <1>3, SourceSettled
  <2>2. QED
    BY <1>3, <2>1 DEF Operand2, ForwardB
<1>4. QED
    BY <1>1, <1>2, <1>3 DEF Operand1, Operand2, ISA!Gpr

\* The operators of Riscv mean the same in the instance.
LEMMA SameOperators ==
    /\ \A n : ISA!ToWord(n) = ToWord(n)
    /\ \A w : ISA!ClearBit0(w) = ClearBit0(w)
    /\ \A n : ISA!LuiValue(n) = LuiValue(n)
    /\ \A p, n : ISA!AuipcValue(p, n) = AuipcValue(p, n)
    /\ \A i : ISA!GetAluSignal(i) = GetAluSignal(i)
    /\ \A f, x, y : ISA!BranchTaken(f, x, y) = BranchTaken(f, x, y)
    /\ \A t, x : ISA!ReadInstr(t, x) = ReadInstr(t, x)
    /\ \A f, m, x : ISA!MemLoad(f, m, x) = MemLoad(f, m, x)
    /\ \A f, m, x, y : ISA!MemStore(f, m, x, y) = MemStore(f, m, x, y)
<1>1. \A n : ISA!ToWord(n) = ToWord(n)
    BY DEF ToWord, ISA!ToWord
<1>2. \A w : ISA!ClearBit0(w) = ClearBit0(w)
    BY DEF ClearBit0, ISA!ClearBit0
<1>3. \A n : ISA!LuiValue(n) = LuiValue(n)
    BY <1>1 DEF LuiValue, ISA!LuiValue
<1>4. \A p, n : ISA!AuipcValue(p, n) = AuipcValue(p, n)
    BY <1>1 DEF AuipcValue, ISA!AuipcValue
<1>5. \A i : ISA!GetAluSignal(i) = GetAluSignal(i)
    BY DEF GetAluSignal, ISA!GetAluSignal, BaseOps, ISA!BaseOps, MulOps, ISA!MulOps
<1>6. \A f, x, y : ISA!BranchTaken(f, x, y) = BranchTaken(f, x, y)
    BY DEF BranchTaken, ISA!BranchTaken, Signed, ISA!Signed
<1>7. \A t, x : ISA!ReadInstr(t, x) = ReadInstr(t, x)
    BY DEF ReadInstr, ISA!ReadInstr, ZeroInstr, ISA!ZeroInstr
<1>8. \A f, m, x : ISA!MemLoad(f, m, x) = MemLoad(f, m, x)
  <2>1. \A m, x : ISA!Read(m, x) = Read(m, x)
    BY <1>1 DEF Read, ISA!Read
  <2>2. \A m, x : ISA!Read2(m, x) = Read2(m, x)
    BY <2>1 DEF Read2, ISA!Read2
  <2>3. \A m, x : ISA!Read4(m, x) = Read4(m, x)
    BY <2>2 DEF Read4, ISA!Read4
  <2>4. \A m, x : ISA!Read8(m, x) = Read8(m, x)
    BY <2>3 DEF Read8, ISA!Read8
  <2>5. \A v, z : ISA!SignExtend(v, z) = SignExtend(v, z)
    BY DEF SignExtend, ISA!SignExtend
  <2>6. QED
    BY <1>1, <2>1, <2>2, <2>3, <2>4, <2>5 DEF MemLoad, ISA!MemLoad
<1>9. \A f, m, x, y : ISA!MemStore(f, m, x, y) = MemStore(f, m, x, y)
  <2>1. \A m, x, y : ISA!Write(m, x, y) = Write(m, x, y)
    BY <1>1 DEF Write, ISA!Write
  <2>2. \A m, x, y : ISA!Write2(m, x, y) = Write2(m, x, y)
    BY <2>1 DEF Write2, ISA!Write2
  <2>3. \A m, x, y : ISA!Write4(m, x, y) = Write4(m, x, y)
    BY <2>2 DEF Write4, ISA!Write4
  <2>4. \A m, x, y : ISA!Write8(m, x, y) = Write8(m, x, y)
    BY <2>3 DEF Write8, ISA!Write8
  <2>5. QED
    BY <2>1, <2>2, <2>3, <2>4 DEF MemStore, ISA!MemStore
<1>10. QED
    BY <1>1, <1>2, <1>3, <1>4, <1>5, <1>6, <1>7, <1>8, <1>9

\* The ALU and the branch unit compute what the instruction means.
LEMMA ResultsAgree ==
    ASSUME TypeOK, StagesAgree, Supported, ProgramOrder, stage = "EX", Holds(id_ex_buf_),
           NEW i, i = id_ex_buf_.instruction
    PROVE  /\ i.opcode \in {"LOAD", "STORE", "JALR"} => ExecResult = ISA!Address(i)
           /\ i.opcode \in {"LOAD", "STORE"} => IsaMem = memory_
           /\ ISA!HasDest(i) => ISA!DestValue(i) =
                 WriteValue(i, id_ex_buf_.pc, i.opcode = "LOAD",
                            MemLoad(i.funct3, memory_, ExecResult), ExecResult)
           /\ i.opcode \in {"BRANCH", "JAL", "JALR"} => ISA!NextPc(i) = ActualTarget
           /\ i.opcode \notin {"BRANCH", "JAL", "JALR"} =>
                 ISA!NextPc(i) = ToWord(id_ex_buf_.pc + 4)
<1>1. /\ i.opcode \in {"R", "LOAD", "IMM", "STORE", "BRANCH", "JALR"} =>
            Operand1 = ISA!Gpr(i.rs1)
      /\ i.opcode \in {"R", "STORE", "BRANCH"} => Operand2 = ISA!Gpr(i.rs2)
    BY OperandsAgree DEF Sources
<1>2. IsaPc = id_ex_buf_.pc /\ IsaMem = memory_
    BY DEF IsaPc, IsaMem, StagesAgree, StageOrder, Holds
<1>3. i \in Instr /\ id_ex_buf_.signals = SetControlSignals(i)
    BY DEF TypeOK, IdExBuffer, StagesAgree, BuffersFaithful
<1>4. /\ i.opcode \in {"LOAD", "STORE", "JALR", "IMM"} => AluInput2 = ToWord(i.imm)
      /\ i.opcode \in {"R", "BRANCH"} => AluInput2 = Operand2
  <2>1. id_ex_buf_.signals.alu_src =
            (i.opcode \in {"LOAD", "STORE", "IMM", "LUI", "AUIPC", "JALR"})
    BY <1>3 DEF SetControlSignals
  <2>2. QED
    BY <2>1 DEF AluInput2
<1>5. i.opcode \in {"LOAD", "STORE", "JALR"} => GetAluSignal(i) = "kAdd"
    BY DEF GetAluSignal
<1>6. i.opcode \in {"LOAD", "STORE", "JALR"} => ExecResult = ISA!Address(i)
    BY <1>1, <1>4, <1>5, SameOperators DEF ExecResult, ISA!Address
<1>7. ISA!HasDest(i) => ISA!DestValue(i) =
                 WriteValue(i, id_ex_buf_.pc, i.opcode = "LOAD",
                            MemLoad(i.funct3, memory_, ExecResult), ExecResult)
  <2>1. CASE i.opcode \in {"R", "IMM"}
    BY <1>1, <1>4, <2>1, SameOperators DEF ExecResult, ISA!DestValue, WriteValue
  <2>2. CASE i.opcode = "LOAD"
    BY <1>2, <1>6, <2>2, SameOperators DEF ISA!DestValue, WriteValue
  <2>3. CASE i.opcode \in {"LUI", "AUIPC", "JAL", "JALR"}
    BY <1>2, <2>3, SameOperators DEF ISA!DestValue, WriteValue
  <2>4. CASE i.opcode \in {"STORE", "BRANCH", "SYSTEM", "OTHER"}
    BY <2>4 DEF ISA!HasDest
  <2>5. QED
    BY <1>3, <2>1, <2>2, <2>3, <2>4 DEF Instr, Opcode
<1>8. i.opcode \in {"BRANCH", "JAL", "JALR"} => ISA!NextPc(i) = ActualTarget
  <2>1. CASE i.opcode = "JALR"
    BY <1>6, <2>1, SameOperators DEF ISA!NextPc, ActualTarget
  <2>2. CASE i.opcode = "JAL"
    BY <1>2, <2>2, SameOperators DEF ISA!NextPc, ActualTarget, ActuallyTaken
  <2>3. CASE i.opcode = "BRANCH"
    BY <1>1, <1>2, <1>4, <2>3, SameOperators DEF ISA!NextPc, ActualTarget, ActuallyTaken
  <2>4. QED
    BY <2>1, <2>2, <2>3
<1>9. i.opcode \notin {"BRANCH", "JAL", "JALR"} =>
          ISA!NextPc(i) = ToWord(id_ex_buf_.pc + 4)
    BY <1>2, SameOperators DEF ISA!NextPc
<1>10. QED
    BY <1>2, <1>6, <1>7, <1>8, <1>9

\* EX executes the next instruction of the sequential machine, or nothing.
LEMMA ExecuteEX ==
    ASSUME TypeOK, StagesAgree, Supported, ProgramOrder, PipelineEX
    PROVE  IF Holds(id_ex_buf_) THEN ISA!Execute
                                ELSE UNCHANGED <<IsaPc, IsaRegs, IsaMem>>
<1> USE DEF PipelineEX
<1>1. /\ ~id_ex_buf_'.valid /\ ~ex_mem_buf_.valid
      /\ ~branch_mispredicted_ /\ ~pipeline_flush
    BY DEF TypeOK, IdExBuffer, StagesAgree, StageOrder
<1>2. UNCHANGED <<text, program_size_, registers_, memory_, mem_wb_buf_, if_id_buf_>>
    BY DEF program
<1>3. UNCHANGED RegsAfterWB
    BY <1>2 DEF RegsAfterWB, Holds, Writes
<1>4. CASE ~Holds(id_ex_buf_)
  <2>1. ~Holds(ex_mem_buf_)'
    BY <1>1, <1>4 DEF ExMemNext, Holds, EmptyExMem, TypeOK, ExMemBuffer
  <2>2. UNCHANGED <<IsaRegs, IsaMem>>
    BY <1>1, <1>2, <1>3, <2>1 DEF IsaRegs, IsaMem, Holds
  <2>3. UNCHANGED IsaPc
    BY <1>1, <1>2, <1>4 DEF IsaPc, Holds, prediction
  <2>4. QED
    BY <1>4, <2>2, <2>3
<1>5. CASE Holds(id_ex_buf_)
  <2> DEFINE i == id_ex_buf_.instruction
  <2>1. /\ i \in Instr
        /\ id_ex_buf_.signals = SetControlSignals(i)
        /\ i = ReadInstr(text, id_ex_buf_.pc)
        /\ id_ex_buf_.pc < program_size_
    BY <1>5, InEX DEF ProgramOrder, FetchInOrder
  <2>2. /\ ex_mem_buf_'.instruction = i /\ ex_mem_buf_'.pc = id_ex_buf_.pc
        /\ ex_mem_buf_'.signals = id_ex_buf_.signals
        /\ ex_mem_buf_'.exec_result = ExecResult
        /\ ex_mem_buf_'.rs2_value = Operand2
        /\ Holds(ex_mem_buf_)'
    BY <1>5 DEF ExMemNext, ExMemCopied, Holds
  <2>3. IsaPc = id_ex_buf_.pc /\ IsaMem = memory_ /\ IsaRegs = RegsAfterWB
    BY <1>1, <1>5 DEF IsaPc, IsaMem, IsaRegs, Holds
  <2>4. /\ id_ex_buf_.signals.branch = (i.opcode \in {"BRANCH", "JAL", "JALR"})
        /\ id_ex_buf_.signals.reg_write =
              (i.opcode \in {"R", "LOAD", "IMM", "LUI", "AUIPC", "JAL", "JALR"})
        /\ id_ex_buf_.signals.mem_to_reg = (i.opcode = "LOAD")
        /\ id_ex_buf_.signals.mem_write = (i.opcode = "STORE")
    BY <2>1 DEF SetControlSignals
  <2>5. /\ i.opcode \in {"LOAD", "STORE", "JALR"} => ExecResult = ISA!Address(i)
        /\ ISA!HasDest(i) => ISA!DestValue(i) =
              WriteValue(i, id_ex_buf_.pc, i.opcode = "LOAD",
                         MemLoad(i.funct3, memory_, ExecResult), ExecResult)
        /\ i.opcode \in {"BRANCH", "JAL", "JALR"} => ISA!NextPc(i) = ActualTarget
        /\ i.opcode \notin {"BRANCH", "JAL", "JALR"} =>
              ISA!NextPc(i) = ToWord(id_ex_buf_.pc + 4)
    <3>1. stage = "EX"
      OBVIOUS
    <3>2. QED
      BY ONLY TypeOK, StagesAgree, Supported, ProgramOrder, <1>5, <3>1, ResultsAgree
  <2>6. IsaPc' = ISA!NextPc(i)
    <3> DEFINE next == IF if_id_buf_.valid THEN if_id_buf_.pc ELSE program_counter_
    <3>1. next = PredictedPc(id_ex_buf_.pc)
      BY <1>1, <1>5 DEF ProgramOrder, FetchInOrder
    <3>2. ASSUME UNCHANGED <<program_counter_, pipeline_flush, prediction>>
          PROVE  IsaPc' = PredictedPc(id_ex_buf_.pc)
      BY <1>1, <1>2, <3>1, <3>2 DEF IsaPc, Holds, prediction
    <3>3. CASE i.opcode \in {"BRANCH", "JAL", "JALR"}
      <4>1. ResolveBranch /\ ISA!NextPc(i) = ActualTarget
        BY <1>5, <2>4, <2>5, <3>3
      <4>2. CASE ~(pipelined_mode >= 4)
        BY <1>1, <4>1, <4>2 DEF ResolveBranch, prediction, IsaPc, Holds
      <4>3. CASE pipelined_mode >= 4 /\ PredictBranch(id_ex_buf_.pc, i) # ActuallyTaken
        BY <1>1, <4>1, <4>3 DEF ResolveBranch, IsaPc, Holds
      <4>4. CASE pipelined_mode >= 4 /\ PredictBranch(id_ex_buf_.pc, i) = ActuallyTaken
        <5>1. UNCHANGED <<program_counter_, pipeline_flush, prediction>>
          BY <4>1, <4>4 DEF ResolveBranch
        <5>2. ActualTarget = PredictedPc(id_ex_buf_.pc)
          BY <1>5, <2>4, <3>3, <4>4, Mispredicted
        <5>3. QED
          BY <3>2, <4>1, <5>1, <5>2
      <4>5. QED
        BY <4>2, <4>3, <4>4
    <3>4. CASE i.opcode \notin {"BRANCH", "JAL", "JALR"}
      <4>1. UNCHANGED <<program_counter_, pipeline_flush, prediction>>
        BY <2>4, <3>4
      <4>2. PredictedPc(id_ex_buf_.pc) = ToWord(id_ex_buf_.pc + 4)
        BY <2>1, <3>4 DEF PredictedPc, PredictBranch
      <4>3. QED
        BY <2>5, <3>2, <3>4, <4>1, <4>2
    <3>5. QED
      BY <3>3, <3>4
  <2>7. IsaRegs' = IF ISA!HasDest(i) THEN [IsaRegs EXCEPT ![i.rd] = ISA!DestValue(i)]
                                     ELSE IsaRegs
    <3>1. Writes(ex_mem_buf_)' <=> ISA!HasDest(i)
      BY <2>1, <2>2, <2>4 DEF Writes, Holds, ISA!HasDest, Instr, Opcode
    <3>2. ISA!HasDest(i) => ISA!DestValue(i) =
              WriteValue(i, id_ex_buf_.pc, id_ex_buf_.signals.mem_to_reg,
                         MemLoad(i.funct3, memory_, ExecResult), ExecResult)
      BY <2>5, <2>4
    <3>3. QED
      BY <1>2, <1>3, <2>2, <2>3, <3>1, <3>2 DEF IsaRegs
  <2>8. IsaMem' = IF i.opcode = "STORE"
                  THEN ISA!MemStore(i.funct3, IsaMem, ISA!Address(i), ISA!Gpr(i.rs2))
                  ELSE IsaMem
    <3>1. IsaMem' = IF i.opcode = "STORE"
                    THEN MemStore(i.funct3, memory_, ExecResult, Operand2)
                    ELSE memory_
      BY <1>2, <2>2, <2>4 DEF IsaMem
    <3>2. i.opcode = "STORE" => ExecResult = ISA!Address(i)
      BY <2>5
    <3>3. i.opcode = "STORE" => Operand2 = ISA!Gpr(i.rs2)
      BY <1>5, OperandsAgree DEF Sources
    <3>4. QED
      BY <2>3, <3>1, <3>2, <3>3, SameOperators
  <2>9. ISA!ReadInstr(text, IsaPc) = i
    BY <2>1, <2>3, SameOperators
  <2>10. ISA!Execute
    BY <1>2, <2>1, <2>3, <2>6, <2>7, <2>8, <2>9 DEF ISA!Execute
  <2>11. QED
    BY <1>5, <2>10
<1>6. QED
    BY <1>4, <1>5

\* A freshly loaded pipeline is a freshly loaded sequential machine.
LEMMA RefinementInit == ASSUME Init, TypeOK PROVE ISA!Init
<1>1. IsaPc = 0
    BY DEF Init, IsaPc, Holds, EmptyIdEx, EmptyIfId
<1>2. IsaRegs = registers_ /\ IsaMem = memory_
    BY DEF Init, IsaRegs, RegsAfterWB, IsaMem, Holds, EmptyMemWb, EmptyExMem
<1>3. ISA!IsText(text) /\ ISA!IsMemory(memory_) /\ registers_ \in [ISA!Reg -> ISA!Word]
    BY DEF TypeOK, IsText, ISA!IsText, IsMemory, ISA!IsMemory, Word, ISA!Word,
           Reg, ISA!Reg, Instr, ISA!Instr, Opcode, ISA!Opcode
<1>4. program_size_ \in ISA!Word
    BY DEF TypeOK, Word, ISA!Word
<1>5. QED
    BY <1>1, <1>2, <1>3, <1>4 DEF ISA!Init

\* Every stage is a step of the sequential machine or leaves it alone.
LEMMA RefinementStep ==
    ASSUME TypeOK, StagesAgree, Supported, ProgramOrder, [Next]_vars
    PROVE  [ISA!Execute]_(ISA!isaVars)
<1>1. UNCHANGED <<text, program_size_>>
    BY DEF Next, StartCycle, PipelineWB, PipelineMEM, PipelineEX, PipelineID,
           PipelineIF, EndCycle, vars, program
<1>2. UNCHANGED <<IsaPc, IsaRegs, IsaMem>> => UNCHANGED ISA!isaVars
    BY <1>1 DEF ISA!isaVars
<1>3. CASE StartCycle \/ PipelineMEM \/ PipelineID \/ PipelineIF \/ EndCycle
    BY <1>2, <1>3, StutterWB, StutterMEM, StutterID, StutterIF, StutterEnd
       DEF StartCycle
<1>4. CASE PipelineEX
    BY <1>2, <1>4, ExecuteEX
<1>5. CASE UNCHANGED vars
  <2>1. UNCHANGED <<IsaPc, IsaRegs, IsaMem>>
    BY <1>5 DEF vars, buffers, prediction, program, counters, IsaPc, IsaRegs, IsaMem,
                RegsAfterWB, Holds, Writes
  <2>2. QED
    BY <1>2, <2>1
<1>6. QED
    BY <1>3, <1>4, <1>5 DEF Next

\* In every mode the pipeline runs each program that the mode supports, on every
\* ALU, exactly as the sequential machine does: whatever is stalled, flushed,
\* forwarded and predicted is invisible.
THEOREM SupportedRefinesIsa == Supported /\ Spec => RefinesIsa
<1>1. Init /\ TypeOK => ISA!Init
    BY RefinementInit
<1>2. TypeOK /\ PipelineSafe /\ Supported /\ [Next]_vars
          => [ISA!Execute]_(ISA!isaVars)
    BY RefinementStep DEF PipelineSafe
<1>3. Supported /\ [Next]_vars => Supported'
    BY ProgramFixed
<1>4. QED
    BY <1>1, <1>2, <1>3, TypeCorrect, PipelineInvariant, PTL
       DEF Spec, RefinesIsa, ISA!Spec

\* Mode 2 supports every program, so that it runs every program as written.
LEMMA Mode2Supports == ASSUME pipelined_mode = 2 PROVE Supported
BY DEF Supported, Supports

\* In mode 2 the pipeline runs every program, on every ALU, exactly as the
\* sequential machine does: stalls and flushes are invisible.
THEOREM Mode2RefinesIsa == pipelined_mode = 2 /\ Spec => RefinesIsa
<1>1. pipelined_mode = 2 => Supported
    BY Mode2Supports
<1>2. QED
    BY <1>1, SupportedRefinesIsa, PTL

-----------------------------------------------------------------------------
\* A session of commands (RV5SVM), whose cycles are steps of the pipeline above.

\* What holds between any two steps of a session.
SessionInv == TypeOK /\ StagesAgree /\ ProgramOrder

\* The step of a cycle, whichever function called ExecutePipelineCycle.
Cycle == PipelineWB \/ PipelineMEM \/ PipelineEX \/ PipelineID \/ PipelineIF \/ EndCycle

\* A command's step is a step of the cycle, one of the commands that change
\* the machine, or none of them.
LEMMA CommandKinds ==
    ASSUME [CommandNext]_allVars, Careful
    PROVE  \/ Cycle
           \/ Run /\ ~InFlight
           \/ Reset
           \/ \E p \in Programs : LoadProgram(p) /\ ~InFlight
           \/ UNCHANGED vars
BY DEF CommandNext, Cycle, RunBreak, RunCycle, Step, StartCycle, Stages, ReturnCycle, Run,
       LoadProgram, allVars

\* Cycles and commands keep the invariant.
LEMMA CycleInv == ASSUME SessionInv, Supported, Cycle PROVE SessionInv'
<1>1. CASE PipelineWB
    BY <1>1, TypeWB, StagesWB, OrderWB DEF SessionInv
<1>2. CASE PipelineMEM \/ PipelineEX \/ PipelineID \/ PipelineIF \/ EndCycle
    BY <1>2, TypeStep, StagesStep, OrderStep DEF SessionInv, Next
<1>3. QED
    BY <1>1, <1>2 DEF Cycle

\* Between two cycles, with nothing in flight.
Quiet == /\ stage = "WB" /\ ~InFlight
         /\ ~branch_mispredicted_ /\ ~pipeline_flush /\ ~pipeline_stall

\* Then nothing can be out of order.
LEMMA QuietInOrder == Quiet => StagesAgree /\ ProgramOrder
BY DEF Quiet, InFlight, StagesAgree, BuffersFaithful, StageOrder, StallHoldsInstruction,
       ProgramOrder, RecoveryInProgram, FetchInOrder, OperandsSettled, Holds

LEMMA RunInv == ASSUME SessionInv, Run PROVE SessionInv'
<1>1. TypeOK'
    BY EmptyTypes DEF SessionInv, TypeOK, Run, program, counters
<1>2. ~branch_mispredicted_ /\ stage = "WB"
    BY DEF SessionInv, StagesAgree, StageOrder, Run, Ready
<1>3. StagesAgree' /\ ProgramOrder'
  <2>1. Quiet'
    BY <1>2 DEF Quiet, InFlight, Run, EmptyIfId, EmptyIdEx, EmptyExMem, EmptyMemWb
  <2>2. QED
    BY <2>1, QuietInOrder, PTL
<1>4. QED
    BY <1>1, <1>3 DEF SessionInv

LEMMA ResetInv == ASSUME SessionInv, Reset PROVE SessionInv'
<1>1. TypeOK'
  <2>1. 0 \in Word
    BY SizeAssumption DEF Word
  <2>2. IsText(text') /\ IsMemory(memory_')
    BY DEF Reset, EmptyMemory, IsText, IsMemory
  <2>3. QED
    BY <2>1, <2>2, EmptyTypes DEF SessionInv, TypeOK, Reset, prediction
<1>2. ~branch_mispredicted_ /\ stage = "WB"
    BY DEF SessionInv, StagesAgree, StageOrder, Reset, Ready
<1>3. StagesAgree' /\ ProgramOrder'
  <2>1. Quiet'
    BY <1>2 DEF Quiet, InFlight, Reset, prediction, EmptyIfId, EmptyIdEx, EmptyExMem,
                EmptyMemWb
  <2>2. QED
    BY <2>1, QuietInOrder, PTL
<1>4. QED
    BY <1>1, <1>3 DEF SessionInv

LEMMA LoadInv ==
    ASSUME SessionInv, ~InFlight, NEW p \in Programs, LoadProgram(p) PROVE SessionInv'
<1> USE DEF LoadProgram
<1>1. IsText(p.text) /\ p.size \in Word /\ IsMemory(p.data)
    BY CommandAssumption
<1>2. IsText(text')
    BY <1>1 DEF SessionInv, TypeOK, IsText
<1>3. IsMemory(memory_')
    BY <1>1 DEF SessionInv, TypeOK, IsMemory
<1>4. TypeOK'
    BY <1>1, <1>2, <1>3 DEF SessionInv, TypeOK, buffers, prediction, counters
<1>5. /\ stage = "WB" /\ ~branch_mispredicted_
      /\ ~pipeline_flush /\ ~pipeline_stall
    BY DEF SessionInv, StagesAgree, StageOrder, StallHoldsInstruction, InFlight, Ready
<1>6. StagesAgree' /\ ProgramOrder'
  <2>1. Quiet'
    BY <1>5 DEF Quiet, InFlight, buffers, prediction
  <2>2. QED
    BY <2>1, QuietInOrder, PTL
<1>7. QED
    BY <1>4, <1>6 DEF SessionInv

LEMMA SessionInvStep ==
    ASSUME SessionInv, Supported, [CommandNext]_allVars, Careful PROVE SessionInv'
<1>1. CASE UNCHANGED vars
    BY <1>1, TypeStep, StagesStep, OrderStep DEF SessionInv
<1>2. QED
    BY <1>1, CommandKinds, CycleInv, RunInv, ResetInv, LoadInv
-----------------------------------------------------------------------------
(***************************************************************************)
(* Refinement.                                                             *)
(***************************************************************************)

\* The two instances of Isa state the same instruction.
LEMMA SameMachine ==
    /\ \A n : Promised!ToWord(n) = ISA!ToWord(n)
    /\ \A w : Promised!ClearBit0(w) = ISA!ClearBit0(w)
    /\ \A n : Promised!LuiValue(n) = ISA!LuiValue(n)
    /\ \A p, n : Promised!AuipcValue(p, n) = ISA!AuipcValue(p, n)
    /\ \A i : Promised!GetAluSignal(i) = ISA!GetAluSignal(i)
    /\ \A f, x, y : Promised!BranchTaken(f, x, y) = ISA!BranchTaken(f, x, y)
    /\ \A t, x : Promised!ReadInstr(t, x) = ISA!ReadInstr(t, x)
    /\ \A f, m, x : Promised!MemLoad(f, m, x) = ISA!MemLoad(f, m, x)
    /\ \A f, m, x, y : Promised!MemStore(f, m, x, y) = ISA!MemStore(f, m, x, y)
<1>1. \A n : Promised!ToWord(n) = ISA!ToWord(n)
    BY DEF Promised!ToWord, ISA!ToWord
<1>2. \A w : Promised!ClearBit0(w) = ISA!ClearBit0(w)
    BY DEF Promised!ClearBit0, ISA!ClearBit0
<1>3. \A n : Promised!LuiValue(n) = ISA!LuiValue(n)
    BY <1>1 DEF Promised!LuiValue, ISA!LuiValue
<1>4. \A p, n : Promised!AuipcValue(p, n) = ISA!AuipcValue(p, n)
    BY <1>1 DEF Promised!AuipcValue, ISA!AuipcValue
<1>5. \A i : Promised!GetAluSignal(i) = ISA!GetAluSignal(i)
    BY DEF Promised!GetAluSignal, ISA!GetAluSignal, Promised!BaseOps, ISA!BaseOps,
           Promised!MulOps, ISA!MulOps
<1>6. \A f, x, y : Promised!BranchTaken(f, x, y) = ISA!BranchTaken(f, x, y)
    BY DEF Promised!BranchTaken, ISA!BranchTaken, Promised!Signed, ISA!Signed
<1>7. \A t, x : Promised!ReadInstr(t, x) = ISA!ReadInstr(t, x)
    BY DEF Promised!ReadInstr, ISA!ReadInstr, Promised!ZeroInstr, ISA!ZeroInstr
<1>8. \A f, m, x : Promised!MemLoad(f, m, x) = ISA!MemLoad(f, m, x)
  <2>1. \A m, x : Promised!Read(m, x) = ISA!Read(m, x)
    BY <1>1 DEF Promised!Read, ISA!Read
  <2>2. \A m, x : Promised!Read2(m, x) = ISA!Read2(m, x)
    BY <2>1 DEF Promised!Read2, ISA!Read2
  <2>3. \A m, x : Promised!Read4(m, x) = ISA!Read4(m, x)
    BY <2>2 DEF Promised!Read4, ISA!Read4
  <2>4. \A m, x : Promised!Read8(m, x) = ISA!Read8(m, x)
    BY <2>3 DEF Promised!Read8, ISA!Read8
  <2>5. \A v, z : Promised!SignExtend(v, z) = ISA!SignExtend(v, z)
    BY DEF Promised!SignExtend, ISA!SignExtend
  <2>6. QED
    BY <1>1, <2>1, <2>2, <2>3, <2>4, <2>5 DEF Promised!MemLoad, ISA!MemLoad
<1>9. \A f, m, x, y : Promised!MemStore(f, m, x, y) = ISA!MemStore(f, m, x, y)
  <2>1. \A m, x, y : Promised!Write(m, x, y) = ISA!Write(m, x, y)
    BY <1>1 DEF Promised!Write, ISA!Write
  <2>2. \A m, x, y : Promised!Write2(m, x, y) = ISA!Write2(m, x, y)
    BY <2>1 DEF Promised!Write2, ISA!Write2
  <2>3. \A m, x, y : Promised!Write4(m, x, y) = ISA!Write4(m, x, y)
    BY <2>2 DEF Promised!Write4, ISA!Write4
  <2>4. \A m, x, y : Promised!Write8(m, x, y) = ISA!Write8(m, x, y)
    BY <2>3 DEF Promised!Write8, ISA!Write8
  <2>5. QED
    BY <2>1, <2>2, <2>3, <2>4 DEF Promised!MemStore, ISA!MemStore
<1>10. QED
    BY <1>1, <1>2, <1>3, <1>4, <1>5, <1>6, <1>7, <1>8, <1>9

LEMMA SameExecute == ISA!Execute => Promised!Execute
<1>1. \A r : Promised!Gpr(r) = ISA!Gpr(r)
    BY DEF Promised!Gpr, ISA!Gpr
<1>2. \A i : Promised!Address(i) = ISA!Address(i)
    BY <1>1, SameMachine DEF Promised!Address, ISA!Address
<1>3. \A i : Promised!DestValue(i) = ISA!DestValue(i)
    BY <1>1, <1>2, SameMachine DEF Promised!DestValue, ISA!DestValue
<1>4. \A i : Promised!HasDest(i) = ISA!HasDest(i)
    BY DEF Promised!HasDest, ISA!HasDest
<1>5. \A i : Promised!NextPc(i) = ISA!NextPc(i)
    BY <1>1, <1>2, SameMachine DEF Promised!NextPc, ISA!NextPc
<1>6. QED
    BY <1>1, <1>2, <1>3, <1>4, <1>5, SameMachine DEF Promised!Execute, ISA!Execute

\* A cycle counts an instruction when, and only when, EX executes it: what is
\* later retired or moved to MEM/WB has been counted.
LEMMA CycleCounts ==
    ASSUME SessionInv, Cycle
    PROVE  IsaCount' = IsaCount + (IF stage = "EX" THEN Holding(id_ex_buf_) ELSE 0)
<1> USE DEF Holding, Holds, IsaCount, SessionInv
<1>0. /\ instructions_retired_ \in Nat
      /\ ex_mem_buf_ \in ExMemBuffer /\ mem_wb_buf_ \in MemWbBuffer
    BY DEF TypeOK
<1>1. CASE PipelineWB
    BY <1>0, <1>1 DEF PipelineWB, MemWbBuffer
<1>2. CASE PipelineMEM
  <2>1. ~mem_wb_buf_.valid /\ ~ex_mem_buf_'.valid
    BY <1>0, <1>2 DEF PipelineMEM, StagesAgree, StageOrder, ExMemBuffer
  <2>2. Holding(mem_wb_buf_)' = Holding(ex_mem_buf_)
    BY <1>0, <1>2 DEF PipelineMEM, MemWbNext, EmptyMemWb, MemWbBuffer, ExMemBuffer
  <2>3. QED
    BY <1>0, <1>2, <2>1, <2>2 DEF PipelineMEM, counters
<1>3. CASE PipelineEX
  <2>1. ~ex_mem_buf_.valid
    BY <1>3 DEF PipelineEX, StagesAgree, StageOrder
  <2>2. Holding(ex_mem_buf_)' = Holding(id_ex_buf_)
    BY <1>0, <1>3, <2>1
       DEF PipelineEX, ExMemNext, ExMemCopied, EmptyExMem, TypeOK, IdExBuffer, ExMemBuffer
  <2>3. QED
    BY <1>0, <1>3, <2>1, <2>2 DEF PipelineEX
<1>4. CASE PipelineID \/ PipelineIF \/ EndCycle
    BY <1>0, <1>4 DEF PipelineID, PipelineIF, EndCycle, buffers, counters
<1>5. QED
    BY <1>1, <1>2, <1>3, <1>4 DEF Cycle

\* A cycle executes the next instruction, or changes nothing the user sees.
LEMMA CycleRefines ==
    ASSUME SessionInv, Supported, Cycle
    PROVE  \/ Promised!ExecuteOne
           \/ UNCHANGED <<Promised!isaVars, IsaCount>>
<1> USE DEF SessionInv
<1>1. UNCHANGED <<text, program_size_>>
    BY DEF Cycle, PipelineWB, PipelineMEM, PipelineEX, PipelineID, PipelineIF, EndCycle,
           program
<1>2. IsaCount \in Nat
    BY DEF IsaCount, Holding, TypeOK
<1>3. CASE PipelineEX
  <2>1. stage = "EX"
    BY <1>3 DEF PipelineEX
  <2>2. CASE Holds(id_ex_buf_)
    <3>1. ISA!Execute
      BY <1>3, <2>2, ExecuteEX
    <3>2. IsaCount' = IsaCount + 1
      BY <2>1, <2>2, CycleCounts DEF Holding
    <3>3. QED
      BY <3>1, <3>2, SameExecute DEF Promised!ExecuteOne
  <2>3. CASE ~Holds(id_ex_buf_)
    <3>1. UNCHANGED <<IsaPc, IsaRegs, IsaMem>>
      BY <1>3, <2>3, ExecuteEX
    <3>2. IsaCount' = IsaCount
      BY <1>2, <2>1, <2>3, CycleCounts DEF Holding
    <3>3. QED
      BY <1>1, <3>1, <3>2 DEF Promised!isaVars
  <2>4. QED
    BY <2>2, <2>3
<1>4. CASE PipelineWB \/ PipelineMEM \/ PipelineID \/ PipelineIF \/ EndCycle
  <2>1. UNCHANGED <<IsaPc, IsaRegs, IsaMem>>
    BY <1>4, StutterWB, StutterMEM, StutterID, StutterIF, StutterEnd
  <2>2. stage # "EX"
    BY <1>4 DEF PipelineWB, PipelineMEM, PipelineID, PipelineIF, EndCycle
  <2>3. IsaCount' = IsaCount
    BY <1>2, <2>2, CycleCounts
  <2>4. QED
    BY <1>1, <2>1, <2>3 DEF Promised!isaVars
<1>5. QED
    BY <1>3, <1>4 DEF Cycle

\* With nothing in flight the machine is what its own members say.
LEMMA NothingInFlight ==
    ASSUME ~if_id_buf_.valid, ~id_ex_buf_.valid, ~ex_mem_buf_.valid, ~mem_wb_buf_.valid,
           ~branch_mispredicted_
    PROVE  /\ IsaPc = program_counter_ /\ IsaRegs = registers_ /\ IsaMem = memory_
           /\ IsaCount = instructions_retired_ + 0 + 0
BY DEF IsaPc, IsaRegs, RegsAfterWB, IsaMem, IsaCount, Holding, Holds

LEMMA RunStutters ==
    ASSUME SessionInv, Run, ~InFlight PROVE UNCHANGED <<Promised!isaVars, IsaCount>>
<1> USE DEF SessionInv, Run
<1>0. ~branch_mispredicted_
    BY DEF Ready, StagesAgree, StageOrder
<1>1. /\ IsaPc = program_counter_ /\ IsaRegs = registers_ /\ IsaMem = memory_
      /\ IsaCount = instructions_retired_ + 0 + 0
    BY <1>0, NothingInFlight DEF InFlight
<1>2. /\ IsaPc' = program_counter_' /\ IsaRegs' = registers_' /\ IsaMem' = memory_'
      /\ IsaCount' = instructions_retired_' + 0 + 0
    BY <1>0 DEF EmptyIfId, EmptyIdEx, EmptyExMem, EmptyMemWb, IsaPc,
           IsaRegs, RegsAfterWB, IsaMem, IsaCount, Holding, Holds
<1>3. QED
    BY <1>1, <1>2 DEF program, counters, Promised!isaVars

LEMMA ResetRefines == ASSUME SessionInv, Reset PROVE Promised!Reset
<1> USE DEF SessionInv, Reset
<1>0. ~branch_mispredicted_
    BY DEF Ready, StagesAgree, StageOrder
<1>1. /\ IsaPc' = 0 /\ IsaRegs' = registers_' /\ IsaMem' = memory_'
      /\ IsaCount' = 0
    BY <1>0 DEF prediction, EmptyIfId, EmptyIdEx, EmptyExMem, EmptyMemWb,
           IsaPc, IsaRegs, RegsAfterWB, IsaMem, IsaCount, Holding, Holds
<1>2. QED
    BY <1>1 DEF EmptyMemory, Reg, Promised!Reset, Promised!Empty, Promised!Reg

LEMMA LoadRefines ==
    ASSUME SessionInv, ~InFlight, NEW p \in Programs, LoadProgram(p) PROVE Promised!Load(p)
<1> USE DEF SessionInv, LoadProgram
<1>0. ~branch_mispredicted_
    BY DEF Ready, StagesAgree, StageOrder
<1>1. /\ IsaPc = program_counter_ /\ IsaRegs = registers_ /\ IsaMem = memory_
      /\ IsaCount = instructions_retired_ + 0 + 0
    BY <1>0, NothingInFlight DEF InFlight
<1>2. /\ IsaPc' = program_counter_' /\ IsaRegs' = registers_' /\ IsaMem' = memory_'
      /\ IsaCount' = instructions_retired_' + 0 + 0
    BY <1>0 DEF InFlight, buffers, prediction, IsaPc, IsaRegs, RegsAfterWB,
           IsaMem, IsaCount, Holding, Holds
<1>3. QED
    BY <1>1, <1>2 DEF counters, Promised!Load, Promised!Overwrite

LEMMA SessionStep ==
    ASSUME SessionInv, Supported, [CommandNext]_allVars, Careful
    PROVE  [Promised!SessionNext]_<<Promised!isaVars, IsaCount>>
<1>1. CASE UNCHANGED vars
    BY <1>1 DEF vars, program, buffers, prediction, counters, Promised!isaVars, IsaPc,
       IsaRegs, RegsAfterWB, IsaMem, IsaCount, Holding, Holds, Writes
<1>2. QED
    BY <1>1, CommandKinds, CycleRefines, RunStutters, ResetRefines, LoadRefines
       DEF Promised!SessionNext

LEMMA SessionInit ==
    ASSUME CommandInit PROVE SessionInv /\ Promised!SessionInit
<1>1. Init /\ SessionInv
    BY TypeInit, StagesInit, OrderInit DEF CommandInit, SessionInv
<1>2. ISA!Init
    BY <1>1, RefinementInit DEF SessionInv
<1>3. Promised!Init
    BY <1>2 DEF ISA!Init, Promised!Init, ISA!IsText, Promised!IsText, ISA!IsMemory,
       Promised!IsMemory, ISA!Word, Promised!Word, ISA!Reg, Promised!Reg, ISA!Instr,
       Promised!Instr, ISA!Opcode, Promised!Opcode
<1>4. IsaCount = 0
    BY <1>1 DEF Init, IsaCount, Holding, Holds, EmptyExMem, EmptyMemWb
<1>5. QED
    BY <1>1, <1>3, <1>4 DEF Promised!SessionInit

\* In every mode a stop, a step or a reset at any cycle loses no instruction,
\* repeats none and miscounts none, and what a reset or a load leaves has no effect
\* on the next program: for every limit, every ALU and all that is loaded at any
\* time, if the text that is in memory is always one the mode supports, and run and
\* load are given with nothing in flight.
THEOREM SessionImplemented ==
    Careful /\ CommandSpec /\ []Supported => RefinesSession
<1> SUFFICES ASSUME Careful PROVE CommandSpec /\ []Supported => RefinesSession
    OBVIOUS
<1>1. CommandInit => SessionInv /\ Promised!SessionInit
    BY SessionInit
<1>2. SessionInv /\ Supported /\ [CommandNext]_allVars => SessionInv'
    BY SessionInvStep
<1>3. SessionInv /\ Supported /\ [CommandNext]_allVars
          => [Promised!SessionNext]_<<Promised!isaVars, IsaCount>>
    BY SessionStep
<1>4. QED
    BY <1>1, <1>2, <1>3, PTL DEF CommandSpec, RefinesSession, Promised!SessionSpec

\* No command changes the mode.
LEMMA ModeFixed == ASSUME [CommandNext]_allVars PROVE UNCHANGED pipelined_mode
BY DEF CommandNext, Run, RunBreak, RunCycle, Step, StartCycle, Stages, ReturnCycle, Reset,
       LoadProgram, PipelineWB, PipelineMEM, PipelineEX, PipelineID, PipelineIF, EndCycle,
       program, vars, allVars

\* Mode 2 keeps the promise for whatever is loaded.
THEOREM Mode2Session == pipelined_mode = 2 /\ Careful /\ CommandSpec => RefinesSession
<1>1. pipelined_mode = 2 => Supported
    BY Mode2Supports
<1>2. pipelined_mode = 2 /\ [CommandNext]_allVars => (pipelined_mode = 2)'
    BY ModeFixed
<1>3. QED
    BY <1>1, <1>2, SessionImplemented, PTL DEF CommandSpec
=============================================================================
