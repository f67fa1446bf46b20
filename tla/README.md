# A TLA+ model of the RISC-V simulator

The repository is a RISC-V (RV64IMFD) simulator in C++17: an assembler, two
execution engines (single-cycle and five-stage pipelined) behind one interface,
and a command loop (`./vm --start-vm`) that drives an engine from a second
thread. This directory models the parts in which order, hazards and threads
matter, checks them with TLC and proves the central results with TLAPS.

## 1. The system

| Component | State | Operations | Modelled in |
|---|---|---|---|
| Pipelined engine, `src/vm/rv5s/rv5s_vm.cpp` | pc, registers, memory, four pipeline buffers, stall and flush flags, misprediction record, 1-bit predictor, statistics | `ExecutePipelineCycle` = WB, MEM, EX, ID, IF; `Run`, `Step`, `Reset` | `RV5SPipeline` (the cycle), `RV5SVM` (the commands) |
| Its control unit, `rv5s_control_unit.cpp` | the control signals | `SetControlSignals`, `GetAluSignal` | `Riscv` |
| ALU, `src/vm/alu.cpp` | none | `execute` | `Alu` |
| Memory, `main_memory.cpp`, `memory_controller.h` | sparse blocks of bytes | reads and writes of 1, 2, 4, 8 bytes, `Reset` | `Memory`; for the engines an array of bytes in `Riscv` |
| Command loop and VM thread, `src/main.cpp` | `vm_thread`, `vm_running`, the stop flag, the input queue | run, debug_run, step, stop, undo, redo, reset, load, vm_stdin, exit | `VmThread` |
| Single-cycle engine, `src/vm/rvss/rvss_vm.cpp` | pc, registers, CSRs, memory, undo and redo stacks | `Run`, `DebugRun`, `Step`, `Undo`, `Redo`, `Reset`, `HandleSyscall` | `RVSSVM`; its loops as a thread in `VmThread` |
| VM base, `vm_base.cpp` | program, breakpoints, input queue | `LoadProgram`, breakpoints, `ImmGenerator`, `PushInput` | `RVSSVM`, `RV5SVM`, `Assembler`, `CodeGenerator`, `VmThread` |
| Assembler, `src/assembler/`, `common/instructions.cpp` | tokens, symbol table, data section, intermediate code, line map | parser, back-patching, code generator | `Assembler`, `CodeGenerator`; the lexer is not modelled |
| Configuration, `config.h` | sizes, limit, processor type | `modifyConfig` | the block size in `Memory`; else constants (`Limit`, `DataStart`) |

**Interaction.** `main()` parses a command and either changes the VM itself
(load, reset, modify, undo, redo) or hands `Run`, `DebugRun` or `Step` to a
thread it joins before it starts the next. The threads share the stop flag
(atomic), `vm_running` (a plain `bool`), the input queue (mutex and condition
variable) and the whole VM (no lock). Inside the pipelined engine the stages
communicate through the buffers and through flags that one stage sets and
another, in the same or in the next cycle, obeys.

**What is hard.** The stages run from WB to IF within one cycle, so each reads
what a *later* stage of the *same* cycle left; EX (not ID) reads the operands;
forwarding compares with a buffer that EX has already overwritten; a
misprediction is found in EX and repaired in IF, which may itself be stalled or
fetch another branch; the predictor is asked twice and updated once. Between
the threads, a stop request can be lost, a thread can wait for input that only
a waiting `main()` could deliver, and a plain flag is the only guard of undo.
In the single-cycle engine undo and redo replay *differences* onto whatever the
machine holds, so that every command in between matters.
The memory allocates blocks with one size and addresses them with another, and
tests ranges by subtracting from the largest unsigned number. The assembler
computes every address before all labels are known, and lays out the data a
first time in the parser and a second time in the loader; a pseudo-instruction
splits a distance into two immediates, the lower of which is signed.
`PROJECT.json` lists these hazards line by line with the property that covers
each.

**What makes it correct.** The engine: the program has the effect it has one
instruction at a time, whatever the mode; the machine drains; the printed
statistics add up. The command loop: undo is never concurrent with the VM,
a run ends at its limit, every join ends. Undo and redo: they walk the states
the steps went through. Commands: in whatever order a user steps, runs, stops,
resets and loads, no instruction is lost, repeated or miscounted. Memory: it
behaves as an array of bytes, and an access takes place as a whole or not at all.
ALU: the operations that compute parts of one result agree. Assembler: a
reference leads to its label, a word means what was written, a label of data
points at the data, a breakpoint on a line stops before that line's instruction.

## 2. Modules

| Module | Content |
|---|---|
| `Riscv` | Instructions as records of their decoded fields, words modulo `WordSize`, little-endian memory, control signals, ALU selection. Shared by everything. |
| `Alu` | The integer operations of `Alu::execute` at `Bits` bits, and where C++ leaves them undefined. |
| `MCAlu` | Every pair of operands, and the laws that tie the operations together. |
| `Isa` | The abstract machine: one action, `Execute`, which runs the instruction at the pc. What an engine promises. |
| `RV5SPipeline` | The pipelined engine, modes 1 to 5. One action per stage; refinement mapping to `Isa`. |
| `MCRV5SPipeline` | Menus of instructions and the programs over them that TLC runs. |
| `Session` | What the commands promise: `Isa` with a counter, on which a program is loaded or everything reset between two instructions. |
| `RV5SVM` | `Run`, `Step`, `Reset`, `LoadProgram` of the pipelined engine around the stages of `RV5SPipeline`; refinement mapping to `Session`. |
| `MCRV5SVM` | Its programs for TLC. |
| `MemoryInterface` | Addresses, values and results of an access, shared by the next two. |
| `FlatMemory` | What `Memory` promises: an array of bytes. |
| `Memory` | The blocks, byte by byte, while the configured block size changes; refinement mapping to `FlatMemory`. |
| `MCMemory` | Its block sizes and values for TLC. |
| `CodeGenerator` | Encoding tables, `generateMachineCode`, and the decoder's `ImmGenerator`: from a unit of intermediate code to 32 bits and back. |
| `Assembler` | The two passes of the parser, back-patching, code generation, line map, and the loader. |
| `MCAssembler` | Its sources for TLC. |
| `History` | What undo and redo promise: a present, a past and a future. |
| `RVSSVM` | The single-cycle engine: instructions, system calls, undo and redo, breakpoints, load, reset and the modify commands. |
| `MCRVSSVM` | Its programs, sessions, inputs and edits for TLC. |
| `VmThread` | `main()`'s loop and the VM thread, for both engines. |
| `Riscv_proofs` | Lemmas about `Riscv`'s operators, powers of two, division, and induction over an interval. |
| `RVSSVM_proofs` | Types, counter, stacks, history and instructions of the single-cycle engine. |
| `RV5SVM_proofs` | Every mode and program: types, agreement of the stages, stalls, predictor, statistics. The programs a mode supports: program order, refinement of `Isa`, and `RV5SVM` implements `Session`. |
| `Memory_proofs` | Types; `Memory` is an array of bytes until a block is indexed past its end, for any sizes, and implements `FlatMemory` if none is below the first. |
| `CodeGenerator_proofs` | Every unit that fits its format is decoded from its word as what was written. |
| `Assembler_proofs` | Every source: types, links, words, addresses of data, breakpoints. |
| `Alu_proofs` | Every pair of words: products, divisions, shifts, bits, halves, comparisons; every result is a word. |
| `VmThread_proofs` | Safety of the two threads. |

### `RV5SPipeline` and the code

Variables carry the names of the members of `RV5SVM`. `stage` is the stage
`ExecutePipelineCycle` calls next; the actions `PipelineWB` ... `PipelineIF` are
the five functions, `EndCycle` the rest of the cycle. The alternatives inside a
stage are its branches: `FlushID`, `InsertStall`, `Decode` for ID; `HoldIF`,
`RecoverIF`, `FlushIF`, `FetchIF` for IF. `StartCycle` is WB under the guard of
`Step` (something to fetch or in flight). `DetectForwarding` appears as
`ForwardA` and `ForwardB`, evaluated on the EX/MEM buffer as EX has filled it
at that point (`ExMemCopied`).

An instruction is the record of its fields; the assembler's and decoder's bit
layout is not part of this module. The register fields of every format are
kept, including the fields of formats that have no such operand (the hazard unit
compares them all the same). The text is kept apart from the data memory: a
program that overwrites its own code is not modelled. Loads and stores
outside the configured memory, which make the code throw on the VM thread, are
not modelled either: words wrap around. An `R` or `IMM` encoding that no case of
`GetAluSignal` matches adds, as in the pipelined control unit; the single-cycle one
returns no operation (`kNone`, result 0). Neither the assembler nor a menu of the runs
has such a word. The floating-point opcodes, the 32-bit
`*w` opcodes (for which this control unit sets no signal: opcode `OTHER`),
and loads with `funct3 = 7` are left out.

### `RVSSVM` and the code

Variables carry the names of the members of `RVSSVM` and `VmBase`. An instruction
is one step: `EffectOf` collects what `Execute`, `WriteMemory` and `WriteBack`
leave in pc, registers, CSRs, memory and `current_delta_`; the intermediate
members (`execution_result_`, `branch_flag_`) are operators, since they do not
outlive the instruction. `Step` and `DebugRun` push the record, `Run` leaves it
in `current_delta_`. The iterations of the two loops are the actions: a stop
request or the limit can end a loop after any of them. `Undo` and `Redo` write the
records in their order, so the last record of a register or byte decides
(`GprWith`, `MemWith`). A start state (`Setups`) is a loaded program, register
values and the set of commands the user gives (`session`), which never changes; it
lets one run ask different questions of different sessions. `Exit` is
`exit(0)` inside the system call.

Against the code: the CSR file has as many registers as the integer file,
selected by the low bits of the address; floating point is left out, and with it
fcsr; the text is apart from the data, so an edit does not touch the code; the
alignment of `.data` items is not modelled; `cycle_s_` always changes together
with `instructions_retired_` and is left out.

### `VmThread` and the code

The program is abstracted to what the two threads can tell of it: whether the
pc is past its end (`at_end`), and whether the next instruction reads input or
exits. `launch_vm_thread` is split where it blocks (`Join`); undo is split into
begin and end so that an overlap would show. The thread's closure holds a
reference to a parameter that is gone once `launch_vm_thread` returns
(undefined behaviour): `DeadClosure` and `Begin` are the two outcomes. `executed`
is the loop's local counter.

### `RV5SVM` and the code

A command acts between two cycles (`Ready`). `Run` begins by clearing the
buffers, the stall and flush flags and, in mode 5, the predictor, and then loops; `RunBreak` leaves the loop
on the limit or a stop request, which may come before any cycle; `RunCycle` and
`Step` start a cycle, `ReturnCycle` is what follows it. `Reset` and
`LoadProgram` change what the functions change and nothing else: the predictor
survives a reset, the program counter a load. With `Careful` the user gives run
and load only when nothing is in flight (section 5 says what happens otherwise).
`DebugRun` calls `Run`; `Undo` and `Redo` only print. `Session` is the abstract
specification; the mapping is that of `RV5SPipeline`, and an instruction counts
from the moment EX has executed it.

### `Memory` and the code

An access is begun (`BeginRead`, `BeginWrite`, with the range check of the
function called) and then takes one step per byte, `ReadByte` or `WriteByte`,
which check the range of their byte as `Read` and `Write` do, so that a failure
half way would show; between two bytes `ModifyConfig` may change the block size
the configuration holds. A block is created with that size, cut down to an
`unsigned int` as in `MemoryBlock`'s constructor, and addressed with the size of
the time the memory was constructed. A block shorter than an offset sets
`out_of_bounds`. A value is a function from its bytes. Left out: two
threads inside one memory (a data race on the `unordered_map`), and an allocation
that fails.

### `Assembler`, `CodeGenerator` and the code

A source is a sequence of lines of eight kinds (section, label, data items,
instruction, reference to a text label, address of a data label, `li`, anything
else); which tokens make up a line, the registers' names and the layout of
messages are abstracted. One action per branch of the parser's two passes, each
consuming a line; `BackPatch` resolves one waiting reference; `LoadText` and
`LoadItem` are `LoadProgram`, which places the data anew from the values alone.
Every error is recorded (`errors_`) and the parser goes on, as the code does;
`Refuse` ends an assembly with errors. `CodeGenerator` keeps the code's widths: a
word is a function from its 32 bits, since TLC's integers end at 2^31, and an
immediate is scattered over it as `generate...TypeMachineCode` does.
`Decode(MachineCode(unit))` is compared with the unit. Left out: floating point,
CSR and `*w` instructions, pseudo-instructions that stand for a single fixed unit
(`nop`, `mv`, `not`, `ret`). A label in front of a directive without values is
modelled; the parser and the loader disagree on it (section 5), and `PseudosReach`
says so with its condition `ValuesBehindLabels`.

## 3. Runs

The pipeline runs use the real machine at one eighth of its widths: 8-bit words,
4-bit `int32_t`, one-bit bytes (so that a byte, half, word and double are still
1, 2, 4 and 8 of them), 4 registers. That keeps wrap-around, sign extension and
overlapping accesses within reach; four registers suffice for two sources, a
destination and x0 to collide or not in every way.

| Run | Bounds | Shows |
|---|---|---|
| `pipeline` | modes 1 and 2: the supported programs of 4 instructions over a menu of 10 (every format); modes 3 and 4: those of 4 over another menu of 10; mode 5: those of 5 over a loop menu; 24 cycles; 2 029 858 states | `RefinesIsa`, `PipelineSafe`, `CyclesAccounted`, `StallsOnce`, `PredictsLastOutcome`, `TypeOK`, and `Finishes` under fairness |
| `threads` | limit 2, at most 2 pending inputs, both engines | `ThreadInv`, `JoinEnds`, `TypeOK` |
| `undo_history` | programs of 2 instructions over a menu of 12 (every format, `ecall`), two argument sets and two inputs, with step, undo, redo, reset; small programs with debug run and breakpoints, with exit, with run and load, and with edits; 3 retired instructions | `KeepsHistory`, `Connected`, `RetiredCovers`, `ExecutesIsa`, `TypeOK` |
| `commands` | programs of 3 instructions over a menu of 6, all in mode 2, the supported ones in the other modes; 12 cycles, limit 8, `Careful`; 292 180 states | `RefinesSession` |
| `memory` | 6 bytes of one bit in blocks of 2; accesses of 2 and 5 bytes; configured sizes 1, 3 and 8, of which 8 stands for 2^32 and makes empty blocks; 117 810 states | `FlatUntilOverrun`, `TypeOK` |
| `alu` | every pair of 8-bit words, 4-bit halves; 65 536 states | `ProductHalves`, `DivisionPairs`, `ShiftsBits`, `ExtendsHalves` |
| `assembler` | 35 106 sources of up to 14 lines; branches reach 16, jumps 20, `li` 2^31 - 1; 901 010 states | `Linked`, `Decoded`, `PseudosReach`, `BreakpointLines`, `TypeOK` |
| `run_undo`, `self_overwrite`, `jalr` | a few instructions each | findings of section 5 |
| `thread_exit` | limit 2 | finding of section 5 |
| `block_size` | the memory of `memory` | finding of section 5 |

Four instructions are enough for every pair of instructions to meet at every
distance at which the pipeline lets them interact (three), with one left for a
branch before, between or behind them. In mode 5 five are needed for a loop with
a body and a continuation. The cycle bounds exceed what any program without a
backward jump needs, and let loops go round at least twice.

In `undo_history` three retired instructions (`MaxRetired`) let a step follow an
undo that follows two steps, so that a record can be taken, undone, dropped and
taken anew at each position. Eight registers, because a system call reads four.

In `memory` an access of 2 bytes may cross a boundary of blocks, one of 5 crosses two;
the last addresses make both overrun the end. In
`assembler` the reach of branches and jumps is cut down to four and five
instructions, so that five lines of text suffice to exceed it; all sources of
five lines over a menu of eight are assembled, all layouts of four data
directives of every width, and every mnemonic with immediates that set each bit
alone. The numbers of `li` go up to 2^31 - 2 and
down to 1 - 2^31, with the boundaries of the last 2048 among them; since TLC's integers
have 32 bits, `LiLeaves` compares a number by its parts, and -2^31, which the code
accepts, is refused on the run (`LiReach` is 2^31 - 1 there) and left to the proof. In
`commands` twelve cycles let a program of three instructions run, be reset or
loaded over, and run again, and a stop or reset fall into every cycle.

`MaxCycles` only stops the exploration of loops; `CHECK_DEADLOCK FALSE` because
a program that has ended is a legal final state, as is an exited process or a
source that is loaded or refused.

**Fairness.** `FairSpec` of the pipeline is weak fairness of the whole next-state
relation: `Run` calls `ExecutePipelineCycle` in a loop. `FairSpec` of `VmThread`
is weak fairness of `main()` inside a command and of the VM thread: the host does
not suspend a runnable thread for ever. No command is assumed ever to be typed.

**The programs a mode supports** (`Supports(mode, text, size)`) are those that meet
none of its defects; mode 2 supports every program. Mode 1 promises nothing when an
instruction reads what the one just before it writes (`NoBackToBack`). Modes 3 to 5
take a wrong operand when an instruction overwrites its own source
(`NoSelfOverwrite`) or follows a `lui`, an `auipc` or, in modes 4 and 5, a `jal`
whose result it reads (`NoEarlyUse`: only the instruction executed right after it;
from the second on the register file has the value). Modes 4 and 5 lose a `jalr`, and
a misprediction that resumes at an instruction itself predicted to be taken or at the
end of the program (`NoLostPrediction`). Each of these restrictions is justified by a
violation run or a change of a `.cfg` that lifts it (section 5), except the last: the
recovery fetch has no bound and retires a zero word past the end of the program. The
proofs show that nothing else goes wrong: for the modelled instructions the list of
defects is complete.

Mutants: every property of every passing run is shown to fail when one mapped
definition is replaced by a faulty variant, defined next to it.

## 4. What the properties say

* `RefinesIsa` - the pipeline implements `Isa`. Instructions in EX/MEM and MEM/WB
  count as executed, those in IF/ID and ID/EX as not begun; `IsaPc` is the oldest
  of the latter, or the pc, or the recovery target.
* `PipelineSafe` - the inductive invariant of every mode. For every program, defective
  ones included, the stages agree (`StagesAgree`): a buffer holds an instruction of the
  program with its signals, each stage finds the buffers it expects empty or full, a
  stall holds an instruction behind a bubble and never meets a flush. For the programs
  the mode supports (`ProgramOrder`), fetch is in line with the predictions, a recovery
  resumes in the program, and no instruction reaches EX whose operands are neither
  written nor forwarded.
* `CyclesAccounted` - cycles = retired + stalls + flushes + fill. Modes 4 and 5
  count two cycles for a flush that costs one; the property says so.
* `StallsOnce` - with forwarding, an instruction is held in ID for one cycle.
* `PredictsLastOutcome` - updating the predictor on mispredictions only is enough.
* `Finishes` - a program without backward jumps drains.
* `KeepsHistory` - with step, debug run, undo, redo and reset, the states that the
  stacks stand for (obtained by replaying them) change as the lists of `History` do.
* `Connected` - the two stacks are one chain of steps through the pc and nothing of
  a finished step is left in `current_delta_`.
* `RetiredCovers` - at least as many instructions are counted as can be undone,
  also across run, load and edits, which would otherwise wrap the counter.
* `ExecutesIsa` - an instruction of this engine, too, has the effect `Isa` states.
  The two engines disagree on `EnginesAgree`'s complement: the pipelined one clears
  bit 0 of a `jalr` target (this one does not), and does not extend the sign of an
  `auipc` immediate (this one does). System instructions exist only here.
* `StepUndoable` - a step pushes a record that leads back to the state before it,
  whatever went before (violated, section 5).
* `RefinesSession` - the session of a user with the pipelined engine is one with a
  sequential machine: a stop, a step or a reset at any cycle loses no instruction
  and repeats none, each is counted once, and what survives a reset has no effect on
  the next program.
* `FlatUntilOverrun` - as long as no block is indexed past its end, the blocks, their
  creation by the first write and their sizes cannot be told from an array of zeroed
  bytes, whatever sizes are configured; `RefinesFlatMemory` (a theorem, no run) - for good,
  if the configured size is never below the first. `NeverOutOfBounds` - no block is indexed past its end
  (violated by smaller sizes, section 5).
* `ProductHalves`, `DivisionPairs`, `ShiftsBits`, `ExtendsHalves` - the operations of
  the ALU that compute parts of one result fit together, for every pair of operands
  for which C++ defines them (`Undefined` names the others).
* `Linked` - in an assembled program every branch and `jal` to a text label leads to
  the first instruction behind its label, whether it was resolved at once or
  back-patched, across pseudo-instructions of two words.
* `Decoded` - the word generated for a unit decodes to the unit's registers,
  immediate and operation. A `jal` to a data label is left out: its distance may be
  odd, and the format has no place for bit 0 (section 5).
* `PseudosReach` - `la`, loads of a label and `li`, executed, leave the address at
  which the *loader* put the data, or the number that was written. For `li` it has no
  condition: for the last 2048 numbers below 2^31 (`UpperKept` fails) it states what is
  left instead, 2^32 less exactly (`LiLeaves`; section 5). For addresses its conditions
  are those under which the code can keep the promise: each data label stands before a
  value (`ValuesBehindLabels`), and text and data do not meet and lie in reach of an
  `auipc` (`DataInReach`).
* `BreakpointLines` - the line map sends a line to the first instruction at or
  behind it.
* `ThreadInv` - undo and redo never run beside a function of the VM: the plain flag
  that `main()` tests is set as long as the thread is inside one.
* `RunWithinLimit`, `ZeroIsNoLimit` - what `COMMANDS.md` says of the limit (violated,
  section 5). What does hold is only in `TypeOK`: the count ends at the limit plus one.
* `JoinEnds` - a join, for a run or for exit, ends although a stop request can be
  lost (`Run` clears the flag after the thread has started): the limit ends the run.
  Only a read of standard input can keep `main()` waiting.

## 5. Findings

With a run:

* `self_overwrite`: mode 3 and above forward an instruction's own destination to
  itself (`addi x1, x1, 1` takes the previous ALU result).
* `jalr`: modes 4 and 5 never take a `jalr`.
* `thread_exit`: `exit` waits for ever if the single-cycle VM waits for input.
* `run_undo`: `Run` leaves its changes in `current_delta_`; the undo of the first
  step after it reverts them as well.
* `block_size`: a block size set *smaller* than the first makes blocks that are indexed
  past their end, and a multiple of 2^32 makes empty ones. (The VM is constructed before
  any command, so that the memory's size and block size are the defaults, and
  `modify_config` of `memory_size` has no effect on it.)

Without a run of their own; a change to a `.cfg` (for the last, to the property) shows
them:

* The value forwarded for `lui` and `auipc` is the ALU's, not the one WB writes
  (`Setups <- MCUpper` in `SelfOverwrite.cfg`), and a `jal` fetched while recovering
  from a misprediction is not taken (`Setups <- MCRecovery`).
* A run executes one instruction more than `instruction_execution_limit`, which
  `COMMANDS.md` calls the number of instructions to run (`INVARIANT RunWithinLimit` in
  place of `ExitEnds` in `ThreadExit.cfg`); 0 means one instruction, where `COMMANDS.md`
  says "no limit" (there, `Limit = 0` and `PROPERTY ZeroIsNoLimit`).
* CSR operations record neither the CSR nor the destination register for undo
  (`Setups <- MCCsrSetups` in `RunUndo.cfg`).
* A run that starts while instructions are in flight, after a stop, a step or a limit,
  drops them without moving the pc back (`Careful = FALSE`, `Setups <- MCRunAgain` and
  `Programs <- MCNoLoads` in `Commands.cfg`).
* `li` of the last 2048 numbers below 2^31 leaves a negative number, because the upper
  part is rounded up to 2^19, which `lui` extends by its sign; `pseudo_formats.cpp:161`
  gives the range as -2^31 to 2^31 - 1 (without the `IF` in `LiLeaves`, TLC finds `PseudosReach` violated).

Read in the code while modelling it:

* Pipelined engine: mode 2's check of MEM/WB is unnecessary (EX reads after WB of the
  same cycle) and only costs cycles; `flush_cycles` of modes 4 and 5 is twice the
  cycles lost; the limit counts cycles, not instructions; `Run` sleeps 100 ms per
  cycle; `Reset` keeps `program_size_`.
* ALU: `divuw` and `remuw` do not extend the sign of their result; `INT64_MIN % -1`
  and a divisor other than zero whose low half is zero (`divuw`, `remw`, `remuw`)
  reach the host's division. The pipelined engine has no `*w` instructions.
* Memory: `PrintMemory`, `DumpMemory` and `GetMemoryPoint` near the end throw out of
  the command loop.
* Assembler: `jal` to a data
  label is accepted and uses the label's offset in its section, of which an odd one loses
  bit 0; a second data label of
  one name replaces the first silently; a label in front of a directive without values
  gets an address the loader does not honour; a number too large for `stoll` ends the
  process; `fence` passes the parser and makes the generator throw; a label named
  `data`, `text` or `bss` confuses the first pass; shift amounts end at 31.

## 6. Proofs

For every program, ALU, word, byte and register-file size (`SizeAssumption`,
`AluAssumption`, `InitialAssumption`; the ALU is only assumed to map words to
words):

* `RV5SVM_proofs!TypeCorrect`: `Spec => []TypeOK` of `RV5SPipeline`. Lemmas give the type of every
  operator of `Riscv`; then one case per stage.
* `StageInvariant`: `Spec => []StagesAgree`, in every mode and for every program. Its
  three parts need each other: that a stall never meets a flush (`StallHoldsInstruction`)
  rests on the bubble before the held instruction, which only the order of the stages
  (`StageOrder`) keeps in place, and a bubble is harmless because the buffers hold
  what the control unit gave them (`BuffersFaithful`). One lemma per stage.
* `AtMostOneStall`: `Spec => StallsOnce`, and `PredictorFollows`: `Spec =>
  PredictsLastOutcome`, from `StageInvariant`.
* `StatisticsAddUp`: `Spec => []CyclesAccounted`. The property speaks of a drained machine
  only; the induction is over the balance at every stage of every cycle (`Accounts`): the
  cycles in which EX had an instruction, a bubble, or nothing are what the counters and
  the buffers in flight say, and the pipeline is empty in front of EX only at the
  beginning, after a flush, or when nothing is left to fetch (`FetchesLeft`).
* `PipelineInvariant`: `Spec => []PipelineSafe`. That operands are settled when EX
  reads them is not inductive alone: it needs `StagesAgree` and that fetch has
  followed the predictions (`FetchInOrder`), so that what stands in a later buffer is
  what was executed before. One lemma per stage; in EX one case per way an operand
  arrives (register file, forwarded from MEM/WB or EX/MEM).
* `SupportedRefinesIsa`: `Supported /\ Spec => RefinesIsa`, in every mode: the program
  loaded at the beginning never changes. `Mode2RefinesIsa`: `pipelined_mode = 2 /\ Spec => RefinesIsa`, with no
  condition on the program. WB, MEM, ID, IF and the end of the cycle are stuttering steps
  (`StutterWB` ...); EX is `Isa!Execute` (`ExecuteEX`), because its operands are those of
  the sequential machine (`OperandsAgree`).
* `SessionImplemented`: `Careful /\ CommandSpec /\ []Supported => RefinesSession` in every
  mode (`[]Supported`: so is each program that is loaded); `Mode2Session`: in mode 2 for all programs.
  `CommandKinds` sorts a step into a stage, a command or none of
  them. The stages keep `SessionInv` (types and the invariant of the pipeline) by the lemmas
  above, which do not ask who calls a stage; a command empties the buffers or finds
  them empty (`NothingInFlight`), so that nothing of the old program is left to be
  compared with the new text. `CycleCounts`: an instruction is counted exactly when EX
  executes it.
* `RVSSVM_proofs!TypeCorrect`, `UndoCounted`: `Spec => []TypeOK` and
  `Spec => []RetiredCovers`. Neither is inductive alone: that `Undo` leaves a natural
  number in `instructions_retired_` rests on the counter covering the stack, and the
  size of the stacks on their types. Their conjunction `UndoInv` is.
* `AlwaysConnected`: `Spec => []Connected`, from `TypeOK`, one lemma per command
  that moves a record.
* `HistoryKept`: `CsrFree /\ Spec => KeepsHistory`, for stacks of every depth. `CsrFree`:
  the programs with which a user only steps, undoes, redoes and resets have no CSR
  operation, because the code records none of their effects (section 5). The invariant
  `HistoryInv` says that each record leads from one state to the next and back
  (`Retraceable`); TLC found it to hold before it was proved. A step adds such a record
  (`EffectRecorded`: whatever it changes - one register, the bytes of one access - is in
  it with its old and its new value; `RecordLeads`: so undo restores and redo repeats
  it), which needs `Connected`: nothing of an earlier step is left in
  `current_delta_`. Undo and redo move a record from one stack to the other, and a
  state with it (`RetracePush`, `PastOfPush`, `FutureOfPush`). What a stack leads to is a
  function on an interval, defined by recursion: that it exists (`ReplayExists`), and what
  one record more adds to it (`UnrolledPush`), is an induction over the interval, which
  `SegmentInduction` gets from the library's theorem that finite sets are well-founded
  under inclusion.
* `EngineExecutesIsa`: `Spec => ExecutesIsa`. The control signals select the address,
  value and pc that `Isa` states by opcode; branches need an ALU whose `kSub`, `kSlt`
  and `kSltu` compare (`BranchAluAssumption`, which TLC evaluates and
  `Alu_proofs!BranchesCompare` proves of module `Alu`).
  With `SupportedRefinesIsa`: both engines implement the same machine.
* `Memory_proofs!TypeCorrect`: `Spec => []TypeOK`, for any configured block sizes.
* `FlatWhileInBounds`: `Spec => FlatUntilOverrun`, for every memory, block and access
  size, with no assumption on the sizes that are configured, at whatever moment. The
  invariant `MemoryInv` adds to the types that an access under way
  fits (`AccessFits`: so a later byte is never refused when the first was not) and that
  what has been read so far is what the array holds (`ReadSoFar`). A write maps to one
  step at its last byte: the bytes written so far are hidden until then.
* `ImplementsFlatMemory`: `NoShrink /\ Spec => RefinesFlatMemory`. `NoShrink` says that no
  configured size is below the first; the code does not enforce it, and the run
  `block_size` shows what happens otherwise. Under it every block covers the offsets
  used (`BlocksCover`, lemma `InBounds`), so that the overrun never comes.
* `Assembler_proofs`: `TypeCorrect`, `AlwaysLinked` and `BreakpointsRight`, for every
  set of sources, number of labels and reach. `Linked` speaks of assembled programs
  only; the induction is over the lines read (`LinkInv`): the section the parser is in
  is a function of the lines behind it (`SectionKnown`), the line map rises
  (`LinesRise`), each label in the table has the number of instructions that stand
  before it (`LabelsPlaced`), and each unit that names a label leads there or waits in
  `back_patch_` (`UnitsLinked`). TLC found it to hold on the run's sources before it was
  proved. The lemma `StepKinds` sorts the actions by what they append; each part of
  the invariant then needs a few cases.
* `AlwaysDecoded`: `Spec => []Decoded`, for every mnemonic, every number its format
  admits and every source, with at most 32 registers (`NumGpr <= 32`, since the fields
  have five bits) and branches and jumps that reach no further than their formats
  (`ReachAssumption`). Two facts are combined: each unit that leaves the parser fits
  its format (`UnitsFit`: the ranges tested by the parser, and for a reference
  resolved by back-patching the distance tested there), and the words are the machine
  code of the units (`WordsGenerated`). That a unit that fits is decoded from its word
  is `CodeGenerator_proofs`: no part that `generateMachineCode` ors into a word overlaps
  another, a field extracted from it is the part put there, and the sign is restored.
  The bits are functions, `Extract` an equation over 32 of them whose solution is shown
  to exist.
* `PseudosAlwaysReach`: `Spec => []PseudosReach`. The parser assigns a data label its
  address, the loader a place to each value; neither sees the other's counter.
  `PseudosStand` says that the units of a pseudo-instruction, and no others, stand in the
  program where its line's instructions begin. `LayoutInv(ends)` says that the parser's
  addresses and the loader's places are both those of one layout: `ends[n]` is where value
  n of `data_buffer_` ends. The invariant only states that such a function exists, since a
  layout computed from the values would need induction over data; a directive extends it
  value by value, a label is at its end or aligned for the next value
  (`DataCounted`), and the loader walks along it (`DataLoaded`). With `UnitsFit` and
  `WordsGenerated` the words then compute the place, and `li`'s number over its whole
  range, or 2^32 less where `UpperKept` fails (`LiReaches`). TLC found both invariants to hold
  on the run's sources before they were proved.
* `Alu_proofs!ProductsComplete`, `DivisionsComplete`, `ShiftsRight`, `ExtensionsRight`:
  `Spec => []ProductHalves`, `Spec => []DivisionPairs`, `Spec => []ShiftsBits` and
  `Spec => []ExtendsHalves` of `MCAlu`, for words of every even number of bits, the code's
  64 included, where TLC enumerates pairs of 8. The invariant (`Operands`) only says that the operands are
  words; the work is in the arithmetic: what a word and its signed number
  differ by is lost in a remainder (`MultipleLost`, `LowApart`), the quotient of a product
  by the word size is a signed word (`SignedProduct`, `QuotientRange`), and rounding
  towards zero leaves a remainder of the dividend's sign (`Truncated`). The provers
  compute no power above 2^39 and know no law of exponents, so `Power` is a recursive
  function: its equation is shown to have a solution (`PowerExists`), and
  2^(i + j) = 2^i * 2^j (`PowerSum`) follows by induction over an interval. With
  it the bit of a shifted word is a bit of the word (`LeftBits`, `RightBits`,
  `HighBits`, `SignBits`).
* The same module shows that the ALU satisfies what the engines assume of it:
  `ResultsAreWords` proves `AluAssumption`'s formula and `BranchesCompare` that of
  `BranchAluAssumption` for `execute`. `BitsCombine`: `&`, `|` and `^`, which `Alu`
  defines by their bits, have these bits.
* `ThreadSafe`: `Spec => []ThreadInv`, and `VmThread_proofs!TypeCorrect`: `Spec => []TypeOK`,
  for every limit. The type of the counter needs that an instruction of a run is begun
  at or below the limit (`CountBounded`), which lets a run execute one more than that.

Only model-checked: liveness (`Finishes`, `JoinEnds`; fairness
is outside the prover's reach). Every other property of a passing run is the
statement of a theorem.

## 7. What is left

1. The combination of an engine with `VmThread`: commands that change the machine in
   the middle of an instruction.
2. The `*w` and CSR instructions in `Riscv` and `CodeGenerator`.

## 8. Not modelled

* Command parser, ELF writer, printing and dumps: text layout.
* Lexer: character scanning, with no state that a later part depends on.
* Host floating point (`fpexecute`, `dfpexecute`) and with it the floating-point
  instructions, registers and flags: their meaning is the host's.
* The tables of names and syntaxes: constants.
* Cache, MMIO devices, `vm_runner.cpp`: declarations nothing calls.
* The `.js` files under `docs/html`: Doxygen's browser scripts and its search index,
  generated with the documentation. The simulator itself is C++; the modules map to
  the `.cpp` and `.h` files, and to no `.js` file.

The reason is given per component in `PROJECT.json`.
