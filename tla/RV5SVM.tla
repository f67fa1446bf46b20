------------------------------- MODULE RV5SVM -------------------------------
(***************************************************************************)
(* The commands of the pipelined engine, on a machine that already holds   *)
(* state: Run and Step around ExecutePipelineCycle, Reset, and             *)
(* LoadProgram.  The stages are those of RV5SPipeline; a command acts      *)
(* between two cycles.                                                     *)
(***************************************************************************)
EXTENDS RV5SPipeline

CONSTANTS
    Programs,   \* what the user may load: a text, its size and its data bytes
    Limit,      \* instruction_execution_limit
    Careful     \* the user gives run and load only when nothing is in flight

VARIABLES
    loop,                 \* the function that calls ExecutePipelineCycle, or "none"
    instruction_executed  \* Run's local counter, of cycles

commandVars == <<loop, instruction_executed>>
allVars == <<vars, commandVars>>

ASSUME CommandAssumption ==
    /\ Limit \in Nat /\ Careful \in BOOLEAN
    /\ \A p \in Programs : IsText(p.text) /\ p.size \in Word /\ IsMemory(p.data)

InFlight == if_id_buf_.valid \/ id_ex_buf_.valid \/ ex_mem_buf_.valid \/ mem_wb_buf_.valid
Ready == loop = "none" /\ stage = "WB"
EmptyMemory == [a \in {} |-> 0]
-----------------------------------------------------------------------------
\* Run, up to its loop.  The pc is not moved back to what is dropped.
Run ==
    /\ Ready
    /\ Careful => ~InFlight
    /\ loop' = "Run"
    /\ instruction_executed' = 0
    /\ if_id_buf_' = EmptyIfId
    /\ id_ex_buf_' = EmptyIdEx
    /\ ex_mem_buf_' = EmptyExMem
    /\ mem_wb_buf_' = EmptyMemWb
    /\ pipeline_stall' = FALSE
    /\ pipeline_flush' = FALSE
    /\ branch_predictor_' = IF pipelined_mode = 5 THEN {} ELSE branch_predictor_
    /\ UNCHANGED <<program, program_counter_, registers_, memory_, branch_mispredicted_,
                   correct_branch_target_, stage, counters>>

\* The loop ends: the limit is passed, or stop was requested at any time before.
RunBreak ==
    /\ loop = "Run" /\ stage = "WB"
    /\ loop' = "none"
    /\ UNCHANGED <<vars, instruction_executed>>

\* The loop's call of ExecutePipelineCycle, which does not ask for anything to do.
RunCycle ==
    /\ loop = "Run"
    /\ instruction_executed =< Limit
    /\ cycle_count < MaxCycles
    /\ PipelineWB
    /\ UNCHANGED commandVars

\* Step, if there is something to do.
Step ==
    /\ Ready
    /\ StartCycle
    /\ loop' = "Step"
    /\ UNCHANGED instruction_executed

\* ExecutePipelineCycle returns to Step, or to Run, which leaves its loop when
\* nothing is in flight and nothing left to fetch.
ReturnCycle ==
    /\ EndCycle
    /\ IF loop = "Run" /\ Busy
       THEN instruction_executed' = instruction_executed + 1 /\ UNCHANGED loop
       ELSE loop' = "none" /\ UNCHANGED instruction_executed

Stages == (PipelineMEM \/ PipelineEX \/ PipelineID \/ PipelineIF) /\ UNCHANGED commandVars

\* A faulty Reset that forgets the buffers.
ResetKeepsBuffers ==
    /\ Ready
    /\ text' = EmptyMemory
    /\ memory_' = EmptyMemory
    /\ program_counter_' = 0
    /\ registers_' = [r \in Reg |-> 0]
    /\ instructions_retired_' = 0 /\ cycle_count' = 0
    /\ stall_cycles' = 0 /\ flush_cycles' = 0
    /\ pipeline_stall' = FALSE
    /\ pipeline_flush' = FALSE
    /\ UNCHANGED <<pipelined_mode, program_size_, prediction, stage, buffers, commandVars>>

\* Reset erases the memory, the text with it, and keeps the predictor, the
\* misprediction record and the size of the program.
Reset ==
    /\ Ready
    /\ text' = EmptyMemory
    /\ memory_' = EmptyMemory
    /\ program_counter_' = 0
    /\ registers_' = [r \in Reg |-> 0]
    /\ instructions_retired_' = 0 /\ cycle_count' = 0
    /\ stall_cycles' = 0 /\ flush_cycles' = 0
    /\ if_id_buf_' = EmptyIfId
    /\ id_ex_buf_' = EmptyIdEx
    /\ ex_mem_buf_' = EmptyExMem
    /\ mem_wb_buf_' = EmptyMemWb
    /\ pipeline_stall' = FALSE
    /\ pipeline_flush' = FALSE
    /\ UNCHANGED <<pipelined_mode, program_size_, prediction, stage, commandVars>>

\* LoadProgram writes text and data over what the memory holds, and nothing else.
LoadProgram(p) ==
    /\ Ready
    /\ Careful => ~InFlight
    /\ text' = [a \in DOMAIN text \cup DOMAIN p.text |->
                   IF a \in DOMAIN p.text THEN p.text[a] ELSE text[a]]
    /\ program_size_' = p.size
    /\ memory_' = [a \in DOMAIN memory_ \cup DOMAIN p.data |->
                      IF a \in DOMAIN p.data THEN p.data[a] ELSE memory_[a]]
    /\ UNCHANGED <<pipelined_mode, program_counter_, registers_, buffers, pipeline_stall,
                   pipeline_flush, prediction, stage, counters, commandVars>>
-----------------------------------------------------------------------------
CommandInit == Init /\ loop = "none" /\ instruction_executed = 0

CommandNext ==
    \/ Run \/ RunBreak \/ RunCycle
    \/ Step
    \/ Stages
    \/ ReturnCycle
    \/ Reset
    \/ \E p \in Programs : LoadProgram(p)

CommandSpec == CommandInit /\ [][CommandNext]_allVars
-----------------------------------------------------------------------------
\* The instructions that EX has executed, retired or on their way to WB.
IsaCount == instructions_retired_ + Holding(ex_mem_buf_) + Holding(mem_wb_buf_)

Promised == INSTANCE Session WITH
    program_size <- program_size_, pc <- IsaPc, regs <- IsaRegs, mem <- IsaMem,
    count <- IsaCount

\* The user's session with the pipelined engine is one with the sequential
\* machine: a stop, a step or a reset at any cycle loses no instruction, does
\* none twice and counts each once; what a reset leaves (the predictor, the
\* misprediction record) has no effect on the program loaded next.
RefinesSession == Promised!SessionSpec
=============================================================================
