---------------------------- MODULE RVSSVM_proofs ----------------------------
(***************************************************************************)
(* Proofs about RVSSVM, for every program, session, input, ALU, word, byte *)
(* and register-file size.                                                 *)
(***************************************************************************)
EXTENDS RVSSVM, Riscv_proofs, SequenceTheorems, FiniteSetTheorems

SX == INSTANCE SequencesExt

\* What a program starts with.
LEMMA SetupTypes ==
    /\ 0 \in Word /\ 0 \in Reg /\ 0 \in Byte
    /\ NoChanges \in Changes
    /\ \A p \in Programs : IsText(p.text) /\ p.size \in Word /\ IsMemory(p.data)
<1>1. 0 \in Word /\ 0 \in Reg /\ 0 \in Byte
    BY SizeAssumption DEF Word, Reg, Byte
<1>2. NoChanges \in Changes
    BY DEF NoChanges, Changes
<1>3. QED
    BY <1>1, <1>2, SetupAssumption

\* The instruction at the pc is one, and its parts have their types.
LEMMA FetchTypes ==
    ASSUME TypeOK
    PROVE  LET i == current_instruction_
           IN /\ i \in Instr
              /\ i.opcode \in Opcode
              /\ i.rd \in Reg /\ i.rs1 \in Reg /\ i.rs2 \in Reg
              /\ i.imm \in Int /\ i.funct3 \in 0 .. 7
              /\ program_counter_ \in Int
<1>1. current_instruction_ \in Instr
    BY ReadInstrType DEF TypeOK, current_instruction_
<1>2. program_counter_ \in Int
    BY SizeAssumption DEF TypeOK, Word
<1>3. QED
    BY <1>1, <1>2 DEF Instr

\* A register reads as a word.
LEMMA ReadGprType == ASSUME TypeOK, NEW r \in Reg PROVE ReadGpr(r) \in Word
BY SetupTypes DEF TypeOK, ReadGpr

\* The ALU computes words, and so does NewPc.
LEMMA ResultTypes ==
    ASSUME TypeOK
    PROVE  /\ execution_result_(current_instruction_) \in Word
           /\ NewPc(current_instruction_) \in Word
           /\ ToWord(program_counter_ + 4) \in Word
<1> DEFINE i == current_instruction_
<1>1. /\ i \in Instr /\ i.rs1 \in Reg /\ i.rs2 \in Reg /\ i.imm \in Int
      /\ program_counter_ \in Int
    BY FetchTypes
<1>2. ToWord(i.imm) \in Word /\ ToWord(program_counter_ + i.imm) \in Word
      /\ ToWord(program_counter_ + 4) \in Word
    BY <1>1, ToWordType
<1>3. Operand2(i) \in Word /\ ReadGpr(i.rs1) \in Word
    BY <1>1, <1>2, ReadGprType DEF Operand2
<1>4. execution_result_(i) \in Word
    BY <1>1, <1>3, GetAluSignalType, AluAssumption DEF execution_result_
<1>5. NewPc(i) \in Word
    BY <1>2, <1>4 DEF NewPc
<1>6. QED
    BY <1>2, <1>4, <1>5

\* A register file stays one when a register is written.
LEMMA WriteGprType ==
    ASSUME NEW g \in [Reg -> Word], g[0] = 0, NEW r \in Reg, NEW v \in Word
    PROVE  WriteGpr(g, r, v) \in [Reg -> Word] /\ WriteGpr(g, r, v)[0] = 0
BY DEF WriteGpr

\* The value an instruction leaves in its destination is a word.
LEMMA WriteBackType ==
    ASSUME TypeOK, SetControlSignals(current_instruction_).reg_write
    PROVE  WriteBackValue(current_instruction_) \in Word
<1> DEFINE i == current_instruction_
<1>1. i.imm \in Int /\ program_counter_ \in Int
    BY FetchTypes
<1>2. execution_result_(i) \in Word /\ ToWord(program_counter_ + 4) \in Word
    BY ResultTypes
<1>3. LuiValue(i.imm) \in Word /\ LuiValue(i.imm) \in Int
  <2>1. LuiValue(i.imm) \in Word
    BY <1>1, SetupTypes, UpperType
  <2>2. QED
    BY <2>1, SizeAssumption DEF Word
<1>4. ToWord(program_counter_ + LuiValue(i.imm)) \in Word
    BY <1>1, <1>3, ToWordType
<1>5. MemLoad(i.funct3, memory_, execution_result_(i)) \in Word
    BY <1>2, MemLoadType DEF TypeOK
<1>6. i.opcode \in {"R", "IMM", "AUIPC", "LOAD", "JAL", "JALR", "LUI"}
    BY DEF SetControlSignals
<1>7. QED
    BY <1>2, <1>3, <1>4, <1>5, <1>6 DEF WriteBackValue

\* The bytes read from a memory.
LEMMA BytesType ==
    ASSUME NEW m, IsMemory(m), NEW a \in Word, NEW n \in Nat
    PROVE  Bytes(m, a, n) \in Seq(Byte) /\ Len(Bytes(m, a, n)) = n
<1>1. ASSUME NEW b PROVE Read(m, b) \in Byte
    BY SizeAssumption DEF Read, IsMemory, Byte
<1>2. QED
    BY <1>1 DEF Bytes

\* The records of changes.
LEMMA RegisterChangeType ==
    ASSUME NEW r \in Reg, NEW old \in Word, NEW new \in Word
    PROVE  RegisterChange(r, old, new) \in Seq(RegisterRecord)
<1>1. [reg |-> r, old_value |-> old, new_value |-> new] \in RegisterRecord
    BY DEF RegisterRecord
<1>2. ASSUME NEW S, NEW e \in S PROVE <<e>> \in Seq(S) /\ <<>> \in Seq(S)
    OBVIOUS
<1>3. QED
    BY <1>1, <1>2 DEF RegisterChange

\* A memory change has as many bytes before as after.
LEMMA MemoryChangeType ==
    ASSUME NEW a \in Word, NEW n \in Nat, NEW old, NEW new,
           IsMemory(old), IsMemory(new)
    PROVE  MemoryChange(a, n, old, new) \in MemoryRecord
BY BytesType DEF MemoryChange, MemoryRecord

\* current_delta_ stays a pair of lists of records when records are appended.
LEMMA RecordType ==
    ASSUME TypeOK, NEW r \in Seq(RegisterRecord), NEW m \in Seq(MemoryRecord)
    PROVE  Record(r, m) \in Changes
BY DEF TypeOK, Record, Changes

\* An instruction that records nothing.
LEMMA RecordNothing == ASSUME TypeOK PROVE Record(<<>>, <<>>) \in Changes
<1>1. <<>> \in Seq(RegisterRecord) /\ <<>> \in Seq(MemoryRecord)
    OBVIOUS
<1>2. QED
    BY <1>1, RecordType
-----------------------------------------------------------------------------
\* An effect that leaves a machine of the right type.
IsEffect(e) ==
    /\ e.pc \in Word
    /\ e.gpr \in [Reg -> Word] /\ e.gpr[0] = 0
    /\ e.csr \in [Reg -> Word]
    /\ IsMemory(e.mem)
    /\ e.delta \in Changes

\* An effect is one if its parts are.
LEMMA EffectParts ==
    ASSUME NEW pc \in Word, NEW g \in [Reg -> Word], g[0] = 0,
           NEW c \in [Reg -> Word], NEW m, IsMemory(m), NEW d \in Changes
    PROVE  IsEffect(Effect(pc, g, c, m, d))
BY DEF IsEffect, Effect

\* The base instructions have an effect of the right type.
LEMMA BaseEffectType == ASSUME TypeOK PROVE IsEffect(BaseEffect(current_instruction_))
<1> DEFINE i == current_instruction_
           g == IF SetControlSignals(i).reg_write
                THEN WriteGpr(gpr_, i.rd, WriteBackValue(i)) ELSE gpr_
           a == execution_result_(i)
           w == <<1, 2, 4, 8>>[i.funct3 + 1]
           m == MemStore(i.funct3, memory_, a, ReadGpr(i.rs2))
           stored == MemoryChange(a, w, memory_, m)
<1>1. i.rd \in Reg /\ i.rs2 \in Reg /\ i.funct3 \in 0 .. 7
    BY FetchTypes
<1>2. a \in Word /\ NewPc(i) \in Word
    BY ResultTypes
<1>3. g \in [Reg -> Word] /\ g[0] = 0
    BY <1>1, WriteGprType, WriteBackType DEF TypeOK
<1>4. IsMemory(m)
    BY <1>1, <1>2, ReadGprType, MemStoreType DEF TypeOK
<1>5. CASE i.opcode = "STORE" /\ i.funct3 \in 0 .. 3
  <2>1. w \in Nat
    BY <1>5
  <2>2. stored \in MemoryRecord
    BY <2>1, <1>2, <1>4, MemoryChangeType DEF TypeOK
  <2>3. <<stored>> \in Seq(MemoryRecord) /\ <<>> \in Seq(MemoryRecord)
        /\ <<>> \in Seq(RegisterRecord)
    BY <2>2
  <2> DEFINE d == Record(<<>>, IF stored.old_bytes # stored.new_bytes
                               THEN <<stored>> ELSE <<>>)
  <2>4. d \in Changes
    BY <2>3, RecordType
  <2>5. IsEffect(Effect(NewPc(i), gpr_, csr_, m, d))
    BY <1>2, <1>4, <2>4, EffectParts DEF TypeOK
  <2>6. BaseEffect(i) = Effect(NewPc(i), gpr_, csr_, m, d)
    BY <1>5 DEF BaseEffect
  <2>7. QED
    BY <2>5, <2>6
<1>6. CASE ~(i.opcode = "STORE" /\ i.funct3 \in 0 .. 3)
  <2> DEFINE d == Record(RegisterChange(i.rd, ReadGpr(i.rd), g[i.rd]), <<>>)
  <2>1. RegisterChange(i.rd, ReadGpr(i.rd), g[i.rd]) \in Seq(RegisterRecord)
    BY <1>1, <1>3, ReadGprType, RegisterChangeType
  <2>2. <<>> \in Seq(MemoryRecord)
    OBVIOUS
  <2>3. d \in Changes
    BY <2>1, <2>2, RecordType
  <2>4. IsEffect(Effect(NewPc(i), g, csr_, memory_, d))
    BY <1>2, <1>3, <2>3, EffectParts DEF TypeOK
  <2>5. BaseEffect(i) = Effect(NewPc(i), g, csr_, memory_, d)
    BY <1>6 DEF BaseEffect
  <2>6. QED
    BY <2>4, <2>5
<1>7. QED
    BY <1>5, <1>6

\* So do the csr operations.
LEMMA CsrEffectType ==
    ASSUME TypeOK, current_instruction_.funct3 \notin {0, 4}
    PROVE  IsEffect(CsrEffect(current_instruction_))
<1> DEFINE i == current_instruction_
           old == csr_[i.rs2]
           operand == IF i.funct3 <= 3 THEN ReadGpr(i.rs1) ELSE i.rs1
           new == CASE i.funct3 \in {1, 5} -> operand
                    [] i.funct3 \in {2, 6} -> alu_execute("kOr", old, operand)
                    [] i.funct3 \in {3, 7} ->
                          alu_execute("kAnd", old, ToWord(-1 - operand))
           c == IF i.funct3 \in {1, 5} \/ operand # 0
                THEN [csr_ EXCEPT ![i.rs2] = new] ELSE csr_
<1>1. i.rd \in Reg /\ i.rs1 \in Reg /\ i.rs2 \in Reg /\ i.funct3 \in 0 .. 7
    BY FetchTypes
<1>2. old \in Word /\ operand \in Word
    BY <1>1, ReadGprType, FieldAssumption DEF TypeOK
<1>3. ToWord(-1 - operand) \in Word
  <2>1. -1 - operand \in Int
    BY <1>2, SizeAssumption DEF Word
  <2>2. QED
    BY <2>1, ToWordType
<1>4. alu_execute("kOr", old, operand) \in Word
      /\ alu_execute("kAnd", old, ToWord(-1 - operand)) \in Word
    BY <1>2, <1>3, AluAssumption DEF AluOp
<1>5. new \in Word
    BY <1>1, <1>2, <1>4
<1>6. c \in [Reg -> Word]
    BY <1>5 DEF TypeOK
<1>7. WriteGpr(gpr_, i.rd, old) \in [Reg -> Word] /\ WriteGpr(gpr_, i.rd, old)[0] = 0
    BY <1>1, <1>2, WriteGprType DEF TypeOK
<1>8. Record(<<>>, <<>>) \in Changes
    BY RecordNothing
<1>9. IsEffect(Effect(NewPc(i), WriteGpr(gpr_, i.rd, old), c, memory_, Record(<<>>, <<>>)))
    BY <1>6, <1>7, <1>8, ResultTypes, EffectParts DEF TypeOK
<1>10. QED
    BY <1>9 DEF CsrEffect
\* So does a read from standard input.
LEMMA ReadInputType ==
    ASSUME TypeOK, NEW input \in Inputs PROVE IsEffect(ReadInput(input))
<1> DEFINE address == gpr_[A1]
           length == gpr_[A2]
           byte(k) == IF k <= Len(input) THEN input[k]
                      ELSE IF k = Len(input) + 1 THEN 0
                           ELSE Read(memory_, address + k - 1)
           cells == {ToWord(address + k - 1) : k \in 1 .. length}
           m == [a \in DOMAIN memory_ \cup cells |->
                   IF a \in cells THEN byte(ToWord(a - address) + 1) ELSE memory_[a]]
           count == IF length < Len(input) THEN length ELSE Len(input)
           d == Record(RegisterChange(A0, gpr_[A0], count),
                       <<MemoryChange(address, length, memory_, m)>>)
<1>1. /\ address \in Word /\ length \in Word /\ gpr_[A0] \in Word
      /\ address \in Int /\ length \in Nat /\ A0 \in Reg /\ A0 # 0
  <2>1. A0 \in Reg /\ A0 # 0 /\ A1 \in Reg /\ A2 \in Reg
    BY SetupAssumption
  <2>2. QED
    BY <2>1, SizeAssumption DEF TypeOK, Word
<1>2. input \in Seq(Byte) /\ Len(input) \in Nat
    BY SetupAssumption
<1>3. count \in Word
    BY <1>1, <1>2, SizeAssumption DEF Word
<1>4. \A k \in Nat \ {0} : byte(k) \in Byte
  <2>1. \A k \in 1 .. Len(input) : input[k] \in Byte
    BY <1>2
  <2>2. \A b : Read(memory_, b) \in Byte
    BY SizeAssumption DEF TypeOK, Read, IsMemory, Byte
  <2>3. QED
    BY <1>2, <2>1, <2>2, SetupTypes
<1>5. cells \subseteq Word
    BY <1>1, ToWordType
<1>6. \A a \in Word : ToWord(a - address) + 1 \in Nat \ {0}
  <2>1. \A a \in Word : a - address \in Int
    BY <1>1, SizeAssumption DEF Word
  <2>2. \A w \in Word : w + 1 \in Nat \ {0}
    BY SizeAssumption DEF Word
  <2>3. QED
    BY <2>1, <2>2, ToWordType
<1>7. IsMemory(m)
  <2>1. \A a \in cells : m[a] \in Byte
    BY <1>4, <1>5, <1>6
  <2>2. \A a \in DOMAIN memory_ \ cells : m[a] \in Byte
    BY DEF TypeOK, IsMemory, Byte
  <2>3. DOMAIN m \subseteq Word
    BY <1>5 DEF TypeOK, IsMemory
  <2>4. QED
    BY <2>1, <2>2, <2>3 DEF IsMemory, Byte
<1>8. d \in Changes
  <2>1. RegisterChange(A0, gpr_[A0], count) \in Seq(RegisterRecord)
    BY <1>1, <1>3, RegisterChangeType
  <2>2. MemoryChange(address, length, memory_, m) \in MemoryRecord
    BY <1>1, <1>7, MemoryChangeType DEF TypeOK
  <2>3. <<MemoryChange(address, length, memory_, m)>> \in Seq(MemoryRecord)
    BY <2>2
  <2>4. QED
    BY <2>1, <2>3, RecordType
<1>9. [gpr_ EXCEPT ![A0] = count] \in [Reg -> Word] /\ [gpr_ EXCEPT ![A0] = count][0] = 0
    BY <1>1, <1>3, SetupTypes DEF TypeOK
<1>10. IsEffect(Effect(NewPc(current_instruction_), [gpr_ EXCEPT ![A0] = count], csr_, m, d))
    BY <1>7, <1>8, <1>9, ResultTypes, EffectParts DEF TypeOK
<1>11. QED
    BY <1>10 DEF ReadInput

\* And every system call.
LEMMA SyscallEffectType ==
    ASSUME TypeOK, NEW input \in Inputs PROVE IsEffect(SyscallEffect(input))
<1> DEFINE nothing == Effect(NewPc(current_instruction_), gpr_, csr_, memory_,
                             Record(<<>>, <<>>))
           g == [gpr_ EXCEPT ![A0] = gpr_[A2]]
           d == Record(RegisterChange(A0, 1, gpr_[A2]), <<>>)
<1>1. IsEffect(nothing)
    BY RecordNothing, ResultTypes, EffectParts DEF TypeOK
<1>2. CASE gpr_[A7] = 64 /\ gpr_[A0] = 1
  <2>1. A0 \in Reg /\ A0 # 0 /\ A2 \in Reg
    BY SetupAssumption
  <2>2. gpr_[A2] \in Word /\ 1 \in Word
    BY <1>2, <2>1 DEF TypeOK
  <2>3. g \in [Reg -> Word] /\ g[0] = 0
    BY <2>1, <2>2, SetupTypes DEF TypeOK
  <2>4. <<>> \in Seq(MemoryRecord)
    OBVIOUS
  <2>5. d \in Changes
    BY <2>1, <2>2, <2>4, RegisterChangeType, RecordType
  <2>6. SyscallEffect(input) = [nothing EXCEPT !.gpr = g, !.delta = d]
    BY <1>2 DEF SyscallEffect
  <2>7. QED
    BY <1>1, <2>3, <2>5, <2>6 DEF IsEffect, Effect
<1>3. CASE gpr_[A7] = 63 /\ gpr_[A0] = 0
    BY <1>3, ReadInputType DEF SyscallEffect
<1>4. CASE ~(gpr_[A7] = 64 /\ gpr_[A0] = 1) /\ ~(gpr_[A7] = 63 /\ gpr_[A0] = 0)
    BY <1>1, <1>4 DEF SyscallEffect
<1>5. QED
    BY <1>2, <1>3, <1>4

\* An instruction leaves a machine of the right type.
LEMMA EffectOfType ==
    ASSUME TypeOK, NEW input \in Inputs
    PROVE  IsEffect(EffectOf(current_instruction_, input))
BY BaseEffectType, CsrEffectType, SyscallEffectType DEF EffectOf

\* Undo and redo write words into the registers.
LEMMA GprWithType ==
    ASSUME NEW g \in [Reg -> Word], g[0] = 0, NEW d \in Delta, NEW new \in BOOLEAN
    PROVE  GprWith(g, d, new) \in [Reg -> Word] /\ GprWith(g, d, new)[0] = 0
<1> DEFINE last(r) == Last(d.registers, LAMBDA c : c.reg = r)
<1>1. \A n \in DOMAIN d.registers : d.registers[n] \in RegisterRecord
  <2>1. d.registers \in Seq(RegisterRecord)
    BY DEF Delta
  <2>2. QED
    BY <2>1
<1>2. \A r \in Reg : last(r) \subseteq DOMAIN d.registers
    BY DEF Last
<1>3. ASSUME NEW r \in Reg, last(r) # {}
      PROVE  d.registers[CHOOSE n \in last(r) : TRUE] \in RegisterRecord
  <2>1. (CHOOSE n \in last(r) : TRUE) \in DOMAIN d.registers
    BY <1>2, <1>3
  <2>2. QED
    BY <1>1, <2>1
<1>4. QED
    BY <1>3, SetupTypes DEF GprWith, RegisterRecord

\* And bytes into the memory.
LEMMA MemWithType ==
    ASSUME NEW m, IsMemory(m), NEW d \in Delta, NEW new \in BOOLEAN
    PROVE  IsMemory(MemWith(m, d, new))
<1> DEFINE cells(c) == {ToWord(c.address + k - 1) : k \in DOMAIN c.old_bytes}
           last(a) == Last(d.memory, LAMBDA c : a \in cells(c))
           written == {a \in Word : last(a) # {}}
           change(a) == d.memory[CHOOSE n \in last(a) : TRUE]
           at(a) == CHOOSE j \in DOMAIN change(a).old_bytes :
                        ToWord(change(a).address + j - 1) = a
<1>1. \A n \in DOMAIN d.memory : d.memory[n] \in MemoryRecord
  <2>1. d.memory \in Seq(MemoryRecord)
    BY DEF Delta
  <2>2. QED
    BY <2>1
<1>2. ASSUME NEW a \in written
      PROVE  change(a).new_bytes[at(a)] \in Byte /\ change(a).old_bytes[at(a)] \in Byte
  <2>1. /\ (CHOOSE n \in last(a) : TRUE) \in DOMAIN d.memory
        /\ a \in cells(change(a))
    BY DEF Last
  <2>2. change(a) \in MemoryRecord
    BY <1>1, <2>1
  <2>3. at(a) \in DOMAIN change(a).old_bytes
    BY <2>1
  <2> DEFINE c == change(a)
  <2> HIDE DEF c
  <2>4. /\ c.old_bytes \in Seq(Byte) /\ c.new_bytes \in Seq(Byte)
        /\ Len(c.old_bytes) = Len(c.new_bytes)
    BY <2>2 DEF MemoryRecord, c
  <2>5. \A j \in DOMAIN c.old_bytes : c.old_bytes[j] \in Byte /\ c.new_bytes[j] \in Byte
    BY <2>4
  <2>6. QED
    BY <2>3, <2>5 DEF c
<1>3. MemWith(m, d, new) =
        [a \in DOMAIN m \cup written |->
            IF a \notin written THEN m[a]
            ELSE IF new THEN change(a).new_bytes[at(a)] ELSE change(a).old_bytes[at(a)]]
    BY DEF MemWith
<1>4. QED
    BY <1>2, <1>3 DEF IsMemory, Byte
-----------------------------------------------------------------------------
\* The top of a stack and what is below it.
LEMMA StackFacts ==
    ASSUME NEW S, NEW s \in Seq(S), s # <<>>
    PROVE  /\ Len(s) \in Nat \ {0}
           /\ Top(s) \in S
           /\ Pop(s) \in Seq(S)
           /\ Len(Pop(s)) = Len(s) - 1
           /\ \A k \in 1 .. (Len(s) - 1) : Pop(s)[k] = s[k]
<1>1. Len(s) \in Nat \ {0}
    OBVIOUS
<1>2. Top(s) \in S
    BY <1>1 DEF Top
<1>3. /\ SubSeq(s, 1, Len(s) - 1) \in Seq(S)
      /\ Len(SubSeq(s, 1, Len(s) - 1)) = Len(s) - 1
      /\ \A k \in 1 .. (Len(s) - 1) : SubSeq(s, 1, Len(s) - 1)[k] = s[k]
  <2> DEFINE n == Len(s) - 1
  <2>1. n \in Nat /\ \A k \in 1 .. n : s[k] \in S
    BY <1>1
  <2> HIDE DEF n
  <2>2. /\ SubSeq(s, 1, n) \in Seq(S)
        /\ Len(SubSeq(s, 1, n)) = IF 1 <= n THEN n - 1 + 1 ELSE 0
        /\ \A k \in 1 .. n - 1 + 1 : SubSeq(s, 1, n)[k] = s[1 + k - 1]
    BY <2>1, SubSeqProperties
  <2>3. Len(SubSeq(s, 1, n)) = n /\ \A k \in 1 .. n : SubSeq(s, 1, n)[k] = s[k]
    BY <2>1, <2>2
  <2>4. QED
    BY <2>2, <2>3 DEF n
<1>4. QED
    BY <1>1, <1>2, <1>3 DEF Pop

\* What Push adds to the undo stack is a delta.
LEMMA PushType ==
    ASSUME TypeOK, NEW e, IsEffect(e)
    PROVE  StepDelta(program_counter_, e.pc, e.delta) \in Delta
BY DEF TypeOK, IsEffect, StepDelta, Delta, Changes

\* TypeOK is not inductive alone: that undo leaves a natural number of
\* instructions rests on RetiredCovers.
UndoInv == TypeOK /\ RetiredCovers

\* A fresh VM satisfies UndoInv.
LEMMA InitUndoInv == Init => UndoInv
<1> SUFFICES ASSUME Init PROVE UndoInv
    OBVIOUS
<1>1. PICK p \in Setups : /\ session = p.session
                          /\ text = p.text /\ program_size_ = p.size
                          /\ breakpoints_ = {p.size}
                          /\ gpr_ = p.registers /\ memory_ = p.data
    BY DEF Init
<1>2. /\ session \subseteq Command /\ IsText(text) /\ program_size_ \in Word
      /\ breakpoints_ \subseteq Word /\ gpr_ \in [Reg -> Word] /\ gpr_[0] = 0
      /\ IsMemory(memory_)
    BY <1>1, SetupAssumption
<1>3. csr_ \in [Reg -> Word] /\ program_counter_ \in Word
    BY SetupTypes DEF Init
<1>4. /\ undo_stack_ \in Seq(Delta) /\ redo_stack_ \in Seq(Delta)
      /\ Len(undo_stack_) = 0 /\ instructions_retired_ = 0
      /\ exited \in BOOLEAN /\ current_delta_ \in Changes
    BY SetupTypes DEF Init
<1>5. QED
    BY <1>2, <1>3, <1>4 DEF UndoInv, TypeOK, RetiredCovers

\* Executing an instruction, with the record pushed or kept.
LEMMA InstructionUndoInv ==
    ASSUME UndoInv, NEW e, IsEffect(e), Instruction(e),
           Push(e) \/ (current_delta_' = e.delta /\ UNCHANGED <<undo_stack_, redo_stack_>>)
    PROVE  UndoInv'
<1>1. /\ undo_stack_' \in Seq(Delta) /\ redo_stack_' \in Seq(Delta)
      /\ current_delta_' \in Changes
      /\ Len(undo_stack_') <= Len(undo_stack_) + 1
  <2>1. undo_stack_ \in Seq(Delta) /\ redo_stack_ \in Seq(Delta)
    BY DEF UndoInv, TypeOK
  <2>2. CASE Push(e)
    <3>1. StepDelta(program_counter_, e.pc, e.delta) \in Delta
      BY PushType DEF UndoInv
    <3>2. QED
      BY <2>1, <2>2, <3>1, SetupTypes DEF Push
  <2>3. CASE current_delta_' = e.delta /\ UNCHANGED <<undo_stack_, redo_stack_>>
    BY <2>1, <2>3 DEF IsEffect
  <2>4. QED
    BY <2>2, <2>3
<1>2. /\ program_counter_' \in Word
      /\ gpr_' \in [Reg -> Word] /\ gpr_'[0] = 0
      /\ csr_' \in [Reg -> Word]
      /\ IsMemory(memory_')
    BY DEF Instruction, IsEffect
<1>3. instructions_retired_' \in Nat /\ Len(undo_stack_') <= instructions_retired_'
  <2>1. /\ undo_stack_ \in Seq(Delta) /\ instructions_retired_ \in Nat
        /\ Len(undo_stack_) <= instructions_retired_
    BY DEF UndoInv, TypeOK, RetiredCovers
  <2>2. instructions_retired_' = instructions_retired_ + 1
    BY DEF Instruction
  <2>3. QED
    BY <1>1, <2>1, <2>2
<1>4. UNCHANGED <<session, text, program_size_, breakpoints_, exited>>
    BY DEF Instruction, program
<1>5. QED
    BY <1>1, <1>2, <1>3, <1>4 DEF UndoInv, TypeOK, RetiredCovers

\* Undo keeps UndoInv: the counter covers the step that is undone.
LEMMA UndoUndoInv == ASSUME UndoInv, Undo PROVE UndoInv'
<1> DEFINE d == Top(undo_stack_)
<1>1. /\ undo_stack_ \in Seq(Delta) /\ redo_stack_ \in Seq(Delta)
      /\ undo_stack_ # <<>>
    BY DEF UndoInv, TypeOK, Undo
<1>2. /\ d \in Delta /\ Pop(undo_stack_) \in Seq(Delta)
      /\ Len(undo_stack_) \in Nat \ {0}
      /\ Len(Pop(undo_stack_)) = Len(undo_stack_) - 1
    BY <1>1, StackFacts
<1>3. undo_stack_' \in Seq(Delta) /\ redo_stack_' \in Seq(Delta)
    BY <1>1, <1>2 DEF Undo
<1>4. gpr_' \in [Reg -> Word] /\ gpr_'[0] = 0 /\ IsMemory(memory_')
    BY <1>2, GprWithType, MemWithType DEF UndoInv, TypeOK, Undo
<1>5. program_counter_' \in Word
    BY <1>2 DEF Undo, Delta
<1>6. instructions_retired_' \in Nat /\ Len(undo_stack_') <= instructions_retired_'
    BY <1>2 DEF UndoInv, TypeOK, RetiredCovers, Undo
<1>7. QED
    BY <1>3, <1>4, <1>5, <1>6 DEF UndoInv, TypeOK, RetiredCovers, Undo, program

\* Redo keeps UndoInv.
LEMMA RedoUndoInv == ASSUME UndoInv, Redo PROVE UndoInv'
<1> DEFINE d == Top(redo_stack_)
<1>1. /\ undo_stack_ \in Seq(Delta) /\ redo_stack_ \in Seq(Delta)
      /\ redo_stack_ # <<>>
    BY DEF UndoInv, TypeOK, Redo
<1>2. d \in Delta /\ Pop(redo_stack_) \in Seq(Delta)
    BY <1>1, StackFacts
<1>3. /\ undo_stack_' \in Seq(Delta) /\ redo_stack_' \in Seq(Delta)
      /\ Len(undo_stack_') = Len(undo_stack_) + 1 /\ Len(undo_stack_) \in Nat
    BY <1>1, <1>2 DEF Redo
<1>4. gpr_' \in [Reg -> Word] /\ gpr_'[0] = 0 /\ IsMemory(memory_')
    BY <1>2, GprWithType, MemWithType DEF UndoInv, TypeOK, Redo
<1>5. program_counter_' \in Word
    BY <1>2 DEF Redo, Delta
<1>6. instructions_retired_' \in Nat /\ Len(undo_stack_') <= instructions_retired_'
    BY <1>3 DEF UndoInv, TypeOK, RetiredCovers, Redo
<1>7. QED
    BY <1>3, <1>4, <1>5, <1>6 DEF UndoInv, TypeOK, RetiredCovers, Redo, program

\* Reset keeps UndoInv: counter and stacks are emptied together.
LEMMA ResetUndoInv == ASSUME UndoInv, Reset PROVE UndoInv'
<1>1. /\ program_counter_' \in Word /\ gpr_' \in [Reg -> Word] /\ gpr_'[0] = 0
      /\ csr_' \in [Reg -> Word] /\ current_delta_' \in Changes
    BY SetupTypes DEF Reset
<1>2. IsMemory(memory_') /\ IsText(text')
    BY DEF Reset, IsMemory, IsText
<1>3. /\ undo_stack_' \in Seq(Delta) /\ redo_stack_' \in Seq(Delta)
      /\ Len(undo_stack_') = 0 /\ instructions_retired_' = 0
    BY DEF Reset
<1>4. QED
    BY <1>1, <1>2, <1>3 DEF UndoInv, TypeOK, RetiredCovers, Reset

\* LoadProgram keeps UndoInv.
LEMMA LoadUndoInv == ASSUME UndoInv, LoadProgram PROVE UndoInv'
<1>1. PICK p \in Programs :
          /\ text' = [a \in DOMAIN p.text \cup DOMAIN text |->
                        IF a \in DOMAIN p.text THEN p.text[a] ELSE text[a]]
          /\ memory_' = [a \in DOMAIN p.data \cup DOMAIN memory_ |->
                           IF a \in DOMAIN p.data THEN p.data[a] ELSE memory_[a]]
          /\ program_size_' = p.size
          /\ breakpoints_' = breakpoints_ \cup {p.size}
    BY DEF LoadProgram
<1>2. IsText(p.text) /\ p.size \in Word /\ IsMemory(p.data)
    BY SetupTypes
<1>3. IsText(text')
    BY <1>1, <1>2 DEF UndoInv, TypeOK, IsText
<1>4. IsMemory(memory_')
    BY <1>1, <1>2 DEF UndoInv, TypeOK, IsMemory
<1>5. QED
    BY <1>1, <1>2, <1>3, <1>4 DEF UndoInv, TypeOK, RetiredCovers, LoadProgram

\* So do the commands that modify a register or the memory.
LEMMA EditUndoInv == ASSUME UndoInv, ModifyRegister \/ ModifyMemory PROVE UndoInv'
<1>0. \A edit \in Edits : edit[1] \in Reg /\ edit[2] \in Word /\ edit[1] \in Word
    BY SetupAssumption, FieldAssumption
<1>1. CASE ModifyRegister
  <2>1. PICK edit \in Edits :
            \/ gpr_' = WriteGpr(gpr_, edit[1], edit[2]) /\ UNCHANGED csr_
            \/ csr_' = [csr_ EXCEPT ![edit[1]] = edit[2]] /\ UNCHANGED gpr_
    BY <1>1 DEF ModifyRegister
  <2> DEFINE r == edit[1]
             v == edit[2]
  <2> HIDE DEF r, v
  <2>2. r \in Reg /\ v \in Word
    BY <1>0 DEF r, v
  <2>3. gpr_ \in [Reg -> Word] /\ gpr_[0] = 0 /\ csr_ \in [Reg -> Word]
    BY DEF UndoInv, TypeOK
  <2>4. \/ gpr_' = WriteGpr(gpr_, r, v) /\ UNCHANGED csr_
        \/ csr_' = [csr_ EXCEPT ![r] = v] /\ UNCHANGED gpr_
    BY <2>1 DEF r, v
  <2>5. gpr_' \in [Reg -> Word] /\ gpr_'[0] = 0 /\ csr_' \in [Reg -> Word]
    <3>1. WriteGpr(gpr_, r, v) \in [Reg -> Word] /\ WriteGpr(gpr_, r, v)[0] = 0
      BY <2>2, <2>3, WriteGprType
    <3>2. [csr_ EXCEPT ![r] = v] \in [Reg -> Word]
      BY <2>2, <2>3
    <3>3. QED
      BY <2>3, <2>4, <3>1, <3>2
  <2>6. QED
    BY <1>1, <2>5 DEF UndoInv, TypeOK, RetiredCovers, ModifyRegister, program
<1>2. CASE ModifyMemory
  <2>1. IsMemory(memory_')
    BY <1>0, <1>2, MemStoreType DEF UndoInv, TypeOK, ModifyMemory
  <2>2. QED
    BY <1>2, <2>1 DEF UndoInv, TypeOK, RetiredCovers, ModifyMemory, program
<1>3. QED
    BY <1>1, <1>2

\* Every step keeps UndoInv.
LEMMA NextUndoInv == UndoInv /\ [Next]_vars => UndoInv'
<1> SUFFICES ASSUME UndoInv, [Next]_vars PROVE UndoInv'
    OBVIOUS
<1>1. \A input \in Inputs : IsEffect(EffectOf(current_instruction_, input))
    BY EffectOfType DEF UndoInv
<1>2. CASE Step
    BY <1>1, <1>2, InstructionUndoInv DEF Step
<1>3. CASE DebugRun
    BY <1>1, <1>3, InstructionUndoInv DEF DebugRun
<1>4. CASE Run
    BY <1>1, <1>4, InstructionUndoInv DEF Run
<1>5. CASE Exit
    BY <1>5 DEF UndoInv, TypeOK, RetiredCovers, Exit, program, machine
<1>6. CASE AddBreakpoint \/ RemoveBreakpoint
    BY <1>6 DEF UndoInv, TypeOK, RetiredCovers, AddBreakpoint, RemoveBreakpoint, Lines,
       machine
<1>7. CASE UNCHANGED vars
    BY <1>7 DEF UndoInv, TypeOK, RetiredCovers, vars, program, machine
<1>8. QED
    BY <1>2, <1>3, <1>4, <1>5, <1>6, <1>7, UndoUndoInv, RedoUndoInv, ResetUndoInv,
       LoadUndoInv, EditUndoInv DEF Next

\* UndoInv always holds.
THEOREM AlwaysUndoInv == Spec => []UndoInv
BY InitUndoInv, NextUndoInv, PTL DEF Spec

\* Registers, memory, records and stacks keep their types, for every program and
\* every order of the commands.
THEOREM TypeCorrect == Spec => []TypeOK
<1>1. UndoInv => TypeOK
    BY DEF UndoInv
<1>2. QED
    BY <1>1, AlwaysUndoInv, PTL

\* undo never takes instructions_retired_ below zero.
THEOREM UndoCounted == Spec => []RetiredCovers
<1>1. UndoInv => RetiredCovers
    BY DEF UndoInv
<1>2. QED
    BY <1>1, AlwaysUndoInv, PTL
-----------------------------------------------------------------------------
\* A step that pushes its record extends the chain and ends what was undone.
LEMMA PushConnected ==
    ASSUME TypeOK, Tracked, Connected, NEW e, Instruction(e), Push(e)
    PROVE  Connected'
<1> DEFINE d == StepDelta(program_counter_, e.pc, e.delta)
           s == undo_stack_
<1>1. d.old_pc = program_counter_ /\ d.new_pc = program_counter_'
    BY DEF StepDelta, Instruction
<1> HIDE DEF d
<1>2. /\ current_delta_' = NoChanges /\ redo_stack_' = <<>>
      /\ undo_stack_' = Append(s, d)
    BY DEF Push, d
<1>3. /\ Len(s) \in Nat /\ Len(Append(s, d)) = Len(s) + 1
      /\ Append(s, d)[Len(s) + 1] = d
      /\ \A k \in 1 .. Len(s) : Append(s, d)[k] = s[k]
    BY DEF TypeOK
<1>4. \A k \in 1 .. (Len(s) - 1) : s[k].new_pc = s[k + 1].old_pc
    BY DEF Connected
<1>5. Len(s) # 0 => s[Len(s)].new_pc = program_counter_
    BY <1>3 DEF Connected, Top
<1>6. \A k \in 1 .. Len(s) : Append(s, d)[k].new_pc = Append(s, d)[k + 1].old_pc
    BY <1>1, <1>3, <1>4, <1>5
<1>7. Top(undo_stack_').new_pc = program_counter_'
    BY <1>1, <1>2, <1>3 DEF Top
<1>8. QED
    BY <1>2, <1>3, <1>6, <1>7 DEF Connected

\* Undo moves the link between the chains one step back.
LEMMA UndoConnected ==
    ASSUME TypeOK, Tracked, Connected, Undo PROVE Connected'
<1> DEFINE u == undo_stack_
           r == redo_stack_
           d == Top(undo_stack_)
<1>1. /\ u \in Seq(Delta) /\ u # <<>> /\ r \in Seq(Delta)
      /\ undo_stack_' = Pop(u) /\ redo_stack_' = Append(r, d)
      /\ program_counter_' = d.old_pc /\ current_delta_' = current_delta_
    BY DEF TypeOK, Undo
<1>2. /\ Len(u) \in Nat \ {0} /\ Len(Pop(u)) = Len(u) - 1
      /\ \A k \in 1 .. (Len(u) - 1) : Pop(u)[k] = u[k]
    BY <1>1, StackFacts
<1>3. d = u[Len(u)]
    BY DEF Top
<1>4. d.new_pc = program_counter_
    BY <1>1 DEF Connected
<1> HIDE DEF d
<1>5. /\ Len(r) \in Nat /\ Len(Append(r, d)) = Len(r) + 1
      /\ Append(r, d)[Len(r) + 1] = d
      /\ \A k \in 1 .. Len(r) : Append(r, d)[k] = r[k]
    BY <1>1
<1>6. \A k \in 1 .. (Len(u) - 1) : u[k].new_pc = u[k + 1].old_pc
    BY DEF Connected
<1>7. \A k \in 1 .. (Len(r) - 1) : r[k].old_pc = r[k + 1].new_pc
    BY DEF Connected
<1>8. Len(r) # 0 => r[Len(r)].old_pc = program_counter_
    BY <1>5 DEF Connected, Top
<1>9. \A k \in 1 .. Len(r) : Append(r, d)[k].old_pc = Append(r, d)[k + 1].new_pc
    BY <1>4, <1>5, <1>7, <1>8
<1>10. \A k \in 1 .. (Len(u) - 2) : Pop(u)[k].new_pc = Pop(u)[k + 1].old_pc
    BY <1>2, <1>6
<1>11. Pop(u) # <<>> => Top(Pop(u)).new_pc = d.old_pc
    BY <1>2, <1>3, <1>6 DEF Top
<1>12. Top(Append(r, d)).old_pc = d.old_pc
    BY <1>5 DEF Top
<1>13. QED
    BY <1>1, <1>2, <1>5, <1>9, <1>10, <1>11, <1>12 DEF Connected

\* Redo moves it forward.
LEMMA RedoConnected ==
    ASSUME TypeOK, Tracked, Connected, Redo PROVE Connected'
<1> DEFINE u == undo_stack_
           r == redo_stack_
           d == Top(redo_stack_)
<1>1. /\ r \in Seq(Delta) /\ r # <<>> /\ u \in Seq(Delta)
      /\ redo_stack_' = Pop(r) /\ undo_stack_' = Append(u, d)
      /\ program_counter_' = d.new_pc /\ current_delta_' = current_delta_
    BY DEF TypeOK, Redo
<1>2. /\ Len(r) \in Nat \ {0} /\ Len(Pop(r)) = Len(r) - 1
      /\ \A k \in 1 .. (Len(r) - 1) : Pop(r)[k] = r[k]
    BY <1>1, StackFacts
<1>3. d = r[Len(r)]
    BY DEF Top
<1>4. d.old_pc = program_counter_
    BY <1>1 DEF Connected
<1> HIDE DEF d
<1>5. /\ Len(u) \in Nat /\ Len(Append(u, d)) = Len(u) + 1
      /\ Append(u, d)[Len(u) + 1] = d
      /\ \A k \in 1 .. Len(u) : Append(u, d)[k] = u[k]
    BY <1>1
<1>6. \A k \in 1 .. (Len(r) - 1) : r[k].old_pc = r[k + 1].new_pc
    BY DEF Connected
<1>7. \A k \in 1 .. (Len(u) - 1) : u[k].new_pc = u[k + 1].old_pc
    BY DEF Connected
<1>8. Len(u) # 0 => u[Len(u)].new_pc = program_counter_
    BY <1>5 DEF Connected, Top
<1>9. \A k \in 1 .. Len(u) : Append(u, d)[k].new_pc = Append(u, d)[k + 1].old_pc
    BY <1>4, <1>5, <1>7, <1>8
<1>10. \A k \in 1 .. (Len(r) - 2) : Pop(r)[k].old_pc = Pop(r)[k + 1].new_pc
    BY <1>2, <1>6
<1>11. Pop(r) # <<>> => Top(Pop(r)).old_pc = d.new_pc
    BY <1>2, <1>3, <1>6 DEF Top
<1>12. Top(Append(u, d)).new_pc = d.new_pc
    BY <1>5 DEF Top
<1>13. QED
    BY <1>1, <1>2, <1>5, <1>9, <1>10, <1>11, <1>12 DEF Connected

\* Every step keeps the chain; the session never changes.
LEMMA NextConnected == TypeOK /\ Connected /\ [Next]_vars => Connected'
<1> SUFFICES ASSUME TypeOK, Connected, [Next]_vars PROVE Connected'
    OBVIOUS
<1>1. session' = session
    BY DEF Next, Step, DebugRun, Run, Instruction, Undo, Redo, Exit, Reset, LoadProgram,
       AddBreakpoint, RemoveBreakpoint, ModifyRegister, ModifyMemory, vars
<1>2. SUFFICES ASSUME Tracked PROVE Connected'
    BY <1>1 DEF Tracked, Connected
<1>3. ~Run /\ ~LoadProgram /\ ~ModifyRegister /\ ~ModifyMemory
    BY <1>2 DEF Tracked, Run, LoadProgram, ModifyRegister, ModifyMemory
<1>4. CASE Step
    BY <1>2, <1>4, PushConnected DEF Step
<1>5. CASE DebugRun
    BY <1>2, <1>5, PushConnected DEF DebugRun
<1>6. CASE Reset
    BY <1>6 DEF Reset, Connected
<1>7. CASE Exit \/ AddBreakpoint \/ RemoveBreakpoint \/ UNCHANGED vars
  <2>1. UNCHANGED <<program_counter_, current_delta_, undo_stack_, redo_stack_>>
    BY <1>7 DEF Exit, AddBreakpoint, RemoveBreakpoint, vars, machine
  <2>2. QED
    BY <1>1, <2>1 DEF Connected, Tracked, Top
<1>8. QED
    BY <1>2, <1>3, <1>4, <1>5, <1>6, <1>7, UndoConnected, RedoConnected DEF Next

\* As long as the user only steps, undoes, redoes and resets, the two stacks are
\* one chain of steps through the pc.
THEOREM AlwaysConnected == Spec => []Connected
<1>1. Init => Connected
    BY DEF Init, Connected
<1>2. QED
    BY <1>1, TypeCorrect, NextConnected, PTL DEF Spec
-----------------------------------------------------------------------------
\* The operators of Riscv mean the same in the instance.
LEMMA SameOperators ==
    /\ \A n : ISA!ToWord(n) = ToWord(n)
    /\ \A w : ISA!ClearBit0(w) = ClearBit0(w)
    /\ \A n : ISA!LuiValue(n) = LuiValue(n)
    /\ \A p, n : ISA!AuipcValue(p, n) = AuipcValue(p, n)
    /\ \A i : ISA!GetAluSignal(i) = GetAluSignal(i)
    /\ \A f, x, y : ISA!BranchTaken(f, x, y) = BranchTaken(f, x, y)
    /\ \A t, x : ISA!ReadInstr(t, x) = ReadInstr(t, x)
    /\ \A f, m, x : ISA!MemLoad(f, m, x) = MemLoad(f, m, x)
    /\ \A f, m, x, y : ISA!MemStore(f, m, x, y) = MemStore(f, m, x, y)
<1>1. \A n : ISA!ToWord(n) = ToWord(n)
    BY DEF ToWord, ISA!ToWord
<1>2. \A w : ISA!ClearBit0(w) = ClearBit0(w)
    BY DEF ClearBit0, ISA!ClearBit0
<1>3. \A n : ISA!LuiValue(n) = LuiValue(n)
    BY <1>1 DEF LuiValue, ISA!LuiValue
<1>4. \A p, n : ISA!AuipcValue(p, n) = AuipcValue(p, n)
    BY <1>1 DEF AuipcValue, ISA!AuipcValue
<1>5. \A i : ISA!GetAluSignal(i) = GetAluSignal(i)
    BY DEF GetAluSignal, ISA!GetAluSignal, BaseOps, ISA!BaseOps, MulOps, ISA!MulOps
<1>6. \A f, x, y : ISA!BranchTaken(f, x, y) = BranchTaken(f, x, y)
    BY DEF BranchTaken, ISA!BranchTaken, Signed, ISA!Signed
<1>7. \A t, x : ISA!ReadInstr(t, x) = ReadInstr(t, x)
    BY DEF ReadInstr, ISA!ReadInstr, ZeroInstr, ISA!ZeroInstr
<1>8. \A f, m, x : ISA!MemLoad(f, m, x) = MemLoad(f, m, x)
  <2>1. \A m, x : ISA!Read(m, x) = Read(m, x)
    BY <1>1 DEF Read, ISA!Read
  <2>2. \A m, x : ISA!Read2(m, x) = Read2(m, x)
    BY <2>1 DEF Read2, ISA!Read2
  <2>3. \A m, x : ISA!Read4(m, x) = Read4(m, x)
    BY <2>2 DEF Read4, ISA!Read4
  <2>4. \A m, x : ISA!Read8(m, x) = Read8(m, x)
    BY <2>3 DEF Read8, ISA!Read8
  <2>5. \A v, z : ISA!SignExtend(v, z) = SignExtend(v, z)
    BY DEF SignExtend, ISA!SignExtend
  <2>6. QED
    BY <1>1, <2>1, <2>2, <2>3, <2>4, <2>5 DEF MemLoad, ISA!MemLoad
<1>9. \A f, m, x, y : ISA!MemStore(f, m, x, y) = MemStore(f, m, x, y)
  <2>1. \A m, x, y : ISA!Write(m, x, y) = Write(m, x, y)
    BY <1>1 DEF Write, ISA!Write
  <2>2. \A m, x, y : ISA!Write2(m, x, y) = Write2(m, x, y)
    BY <2>1 DEF Write2, ISA!Write2
  <2>3. \A m, x, y : ISA!Write4(m, x, y) = Write4(m, x, y)
    BY <2>2 DEF Write4, ISA!Write4
  <2>4. \A m, x, y : ISA!Write8(m, x, y) = Write8(m, x, y)
    BY <2>3 DEF Write8, ISA!Write8
  <2>5. QED
    BY <2>1, <2>2, <2>3, <2>4 DEF MemStore, ISA!MemStore
<1>10. QED
    BY <1>1, <1>2, <1>3, <1>4, <1>5, <1>6, <1>7, <1>8, <1>9

\* The engine decides a branch by the ALU as Isa decides it by comparing.
LEMMA BranchAgrees ==
    ASSUME TypeOK, current_instruction_.opcode = "BRANCH",
           current_instruction_.funct3 \notin {2, 3}
    PROVE  LET i == current_instruction_
           IN branch_flag_(i) <=> BranchTaken(i.funct3, ReadGpr(i.rs1), ReadGpr(i.rs2))
<1> DEFINE i == current_instruction_
           a == ReadGpr(i.rs1)
           b == ReadGpr(i.rs2)
           f == i.funct3
<1>1. f \in {0, 1, 4, 5, 6, 7} /\ i.opcode = "BRANCH" /\ i.rs1 \in Reg /\ i.rs2 \in Reg
    BY FetchTypes
<1>2. a \in Word /\ b \in Word
    BY <1>1, ReadGprType
<1>3. Operand2(i) = b
    BY <1>1 DEF Operand2, SetControlSignals
<1>4. GetAluSignal(i) = IF f \in {0, 1} THEN "kSub" ELSE IF f \in {4, 5} THEN "kSlt" ELSE "kSltu"
    BY <1>1 DEF GetAluSignal
<1>5. execution_result_(i) = alu_execute(GetAluSignal(i), a, b)
    BY <1>3 DEF execution_result_
<1> HIDE DEF a, b, f
<1>6. /\ Signed(a) \in Int /\ Signed(b) \in Int /\ a \in Int /\ b \in Int
    BY <1>2, SizeAssumption DEF Signed, Word
<1>7. CASE f \in {0, 1}
  <2>1. execution_result_(i) = 0 <=> a = b
    BY <1>2, <1>4, <1>5, <1>7, BranchAluAssumption
  <2>2. branch_flag_(i) <=> IF f = 0 THEN a = b ELSE a # b
    BY <1>7, <2>1 DEF branch_flag_, f
  <2>3. BranchTaken(f, a, b) <=> IF f = 0 THEN a = b ELSE a # b
    BY <1>7 DEF BranchTaken
  <2>4. QED
    BY <2>2, <2>3 DEF a, b, f
<1>8. CASE f \in {4, 5}
  <2>1. execution_result_(i) = IF Signed(a) < Signed(b) THEN 1 ELSE 0
    BY <1>2, <1>4, <1>5, <1>8, BranchAluAssumption
  <2>2. branch_flag_(i) <=> IF f = 4 THEN Signed(a) < Signed(b) ELSE ~(Signed(a) < Signed(b))
    BY <1>8, <2>1 DEF branch_flag_, f
  <2>3. BranchTaken(f, a, b) <=> IF f = 4 THEN Signed(a) < Signed(b) ELSE Signed(a) >= Signed(b)
    BY <1>8 DEF BranchTaken
  <2>4. QED
    BY <1>6, <2>2, <2>3 DEF a, b, f
<1>9. CASE f \in {6, 7}
  <2>1. execution_result_(i) = IF a < b THEN 1 ELSE 0
    BY <1>2, <1>4, <1>5, <1>9, BranchAluAssumption
  <2>2. branch_flag_(i) <=> IF f = 6 THEN a < b ELSE ~(a < b)
    BY <1>9, <2>1 DEF branch_flag_, f
  <2>3. BranchTaken(f, a, b) <=> IF f = 6 THEN a < b ELSE a >= b
    BY <1>9 DEF BranchTaken
  <2>4. QED
    BY <1>6, <2>2, <2>3 DEF a, b, f
<1>10. QED
    BY <1>1, <1>7, <1>8, <1>9

\* The control signals lead to the address, the value and the pc that Isa states.
LEMMA ValuesAgree ==
    ASSUME TypeOK, EnginesAgree(current_instruction_)
    PROVE  LET i == current_instruction_
           IN /\ i.opcode \in {"LOAD", "STORE", "JALR"} =>
                    execution_result_(i) = ISA!Address(i)
              /\ NewPc(i) = ISA!NextPc(i)
              /\ i.opcode \in {"R", "IMM", "LOAD", "LUI", "AUIPC", "JAL", "JALR"} =>
                    WriteBackValue(i) = ISA!DestValue(i)
<1> DEFINE i == current_instruction_
           x == execution_result_(i)
<1>1. \A r \in Reg : ISA!Gpr(r) = ReadGpr(r)
    BY DEF ISA!Gpr, ReadGpr
<1>2. /\ i.opcode \in Opcode /\ i.rs1 \in Reg /\ i.rs2 \in Reg /\ i.imm \in Int
      /\ program_counter_ \in Int
    BY FetchTypes
<1>3. x \in Word
    BY ResultTypes
<1>4. ASSUME i.opcode \in {"LOAD", "STORE", "JALR"} PROVE x = ISA!Address(i)
  <2>1. GetAluSignal(i) = "kAdd" /\ Operand2(i) = ToWord(i.imm)
    BY <1>4 DEF GetAluSignal, Operand2, SetControlSignals
  <2>2. QED
    BY <1>1, <1>2, <2>1, SameOperators DEF execution_result_, ISA!Address
<1>5. NewPc(i) = ISA!NextPc(i)
  <2>1. CASE i.opcode = "JALR"
    <3>1. x % 2 = 0
      BY <2>1 DEF EnginesAgree
    <3>2. ClearBit0(x) = x
      BY <1>3, <3>1, SizeAssumption DEF ClearBit0, Word
    <3>3. QED
      BY <1>4, <2>1, <3>2, SameOperators DEF NewPc, ISA!NextPc
  <2>2. CASE i.opcode = "BRANCH"
    <3>1. i.funct3 \notin {2, 3}
      BY <2>2 DEF EnginesAgree
    <3>2. branch_flag_(i) <=> BranchTaken(i.funct3, ISA!Gpr(i.rs1), ISA!Gpr(i.rs2))
      BY <1>1, <1>2, <2>2, <3>1, BranchAgrees
    <3>3. QED
      BY <2>2, <3>2, SameOperators DEF NewPc, ISA!NextPc
  <2>3. CASE i.opcode \notin {"JALR", "BRANCH"}
    BY <2>3, SameOperators DEF NewPc, ISA!NextPc
  <2>4. QED
    BY <2>1, <2>2, <2>3
<1>6. ASSUME i.opcode \in {"R", "IMM", "LOAD", "LUI", "AUIPC", "JAL", "JALR"}
      PROVE  WriteBackValue(i) = ISA!DestValue(i)
  <2>1. CASE i.opcode \in {"R", "IMM"}
    <3>1. Operand2(i) = IF i.opcode = "R" THEN ReadGpr(i.rs2) ELSE ToWord(i.imm)
      BY <2>1 DEF Operand2, SetControlSignals
    <3>2. QED
      BY <1>1, <1>2, <2>1, <3>1, SameOperators DEF WriteBackValue, ISA!DestValue, execution_result_
  <2>2. CASE i.opcode = "AUIPC"
    <3>1. i.imm * UShift = LuiValue(i.imm)
      BY <2>2 DEF EnginesAgree
    <3>2. QED
      BY <2>2, <3>1, SameOperators DEF WriteBackValue, ISA!DestValue, AuipcValue
  <2>3. CASE i.opcode = "LOAD"
    BY <1>4, <2>3, SameOperators DEF WriteBackValue, ISA!DestValue
  <2>4. CASE i.opcode \in {"LUI", "JAL", "JALR"}
    BY <2>4, SameOperators DEF WriteBackValue, ISA!DestValue
  <2>5. QED
    BY <1>6, <2>1, <2>2, <2>3, <2>4
<1>7. QED
    BY <1>4, <1>5, <1>6

\* An instruction of the base set does what Isa's Execute does.
LEMMA InstructionExecutes ==
    ASSUME TypeOK, EnginesAgree(current_instruction_), NEW input,
           Instruction(EffectOf(current_instruction_, input))
    PROVE  ISA!Execute
<1> DEFINE i == current_instruction_
           e == BaseEffect(i)
<1>1. i.opcode \in Opcode /\ i.rd \in Reg /\ i.rs2 \in Reg /\ i.funct3 \in 0 .. 7
    BY FetchTypes
<1>2. i.opcode # "SYSTEM"
    BY DEF EnginesAgree
<1>3. EffectOf(i, input) = e
    BY <1>2 DEF EffectOf
<1>4. /\ program_counter_ < program_size_ /\ program_counter_' = e.pc
      /\ gpr_' = e.gpr /\ memory_' = e.mem
      /\ UNCHANGED <<text, program_size_>>
    BY <1>3 DEF Instruction, program
<1>5. e.pc = ISA!NextPc(i)
    BY ValuesAgree DEF BaseEffect, Effect
<1>6. e.gpr = IF ISA!HasDest(i) THEN [gpr_ EXCEPT ![i.rd] = ISA!DestValue(i)] ELSE gpr_
  <2>1. CASE i.opcode \in {"R", "IMM", "LOAD", "LUI", "AUIPC", "JAL", "JALR"}
    <3>1. e.gpr = WriteGpr(gpr_, i.rd, WriteBackValue(i))
      BY <2>1 DEF BaseEffect, Effect, SetControlSignals
    <3>2. WriteBackValue(i) = ISA!DestValue(i)
      BY <2>1, ValuesAgree
    <3>3. ISA!HasDest(i) <=> i.rd # 0
      BY <2>1 DEF ISA!HasDest
    <3>4. QED
      BY <3>1, <3>2, <3>3 DEF WriteGpr
  <2>2. CASE i.opcode \in {"STORE", "BRANCH", "OTHER"}
    BY <2>2 DEF BaseEffect, Effect, SetControlSignals, ISA!HasDest
  <2>3. QED
    BY <1>1, <1>2, <2>1, <2>2 DEF Opcode
<1>7. e.mem = IF i.opcode = "STORE"
              THEN MemStore(i.funct3, memory_, ISA!Address(i), ISA!Gpr(i.rs2)) ELSE memory_
  <2>1. CASE i.opcode = "STORE" /\ i.funct3 \in 0 .. 3
    <3>1. execution_result_(i) = ISA!Address(i) /\ ISA!Gpr(i.rs2) = ReadGpr(i.rs2)
      BY <2>1, ValuesAgree DEF ISA!Gpr, ReadGpr
    <3>2. QED
      BY <2>1, <3>1 DEF BaseEffect, Effect
  <2>2. CASE i.opcode = "STORE" /\ i.funct3 \notin 0 .. 3
    BY <1>1, <2>2 DEF BaseEffect, Effect, MemStore
  <2>3. CASE i.opcode # "STORE"
    BY <2>3 DEF BaseEffect, Effect
  <2>4. QED
    BY <2>1, <2>2, <2>3
<1>8. i = ISA!ReadInstr(text, program_counter_)
    BY SameOperators DEF current_instruction_
<1>9. QED
    BY <1>4, <1>5, <1>6, <1>7, <1>8, SameOperators DEF ISA!Execute

\* Stepped, run or run to a breakpoint, an instruction has the effect that the
\* sequential machine Isa states, for every program and every ALU whose
\* comparisons are right.
THEOREM EngineExecutesIsa == Spec => ExecutesIsa
<1>1. TypeOK /\ [Next]_vars =>
        [(Step \/ DebugRun \/ Run) /\ EnginesAgree(current_instruction_)
            => ISA!Execute]_vars
    BY InstructionExecutes DEF Step, DebugRun, Run
<1>2. QED
    BY <1>1, TypeCorrect, PTL DEF Spec, ExecutesIsa
-----------------------------------------------------------------------------
(***************************************************************************)
(* What undo and redo lead to.  The records of a stack are applied one     *)
(* after the other, and a function on an interval says what they lead to;  *)
(* that it exists, and what one record more adds to it, is an induction    *)
(* over the interval, got from the least initial segment that leaves a set.*)
(***************************************************************************)

\* g satisfies the equation by which Replayed is defined.
Solves(g, s, n, stack, new) ==
    g = [k \in 0 .. n |-> IF k = 0 THEN s ELSE Moved(g[k - 1], stack[n + 1 - k], new)]

\* The equation has a solution.
LEMMA ReplayExists ==
    ASSUME NEW s, NEW n \in Nat, NEW stack, NEW new
    PROVE  \E g : Solves(g, s, n, stack, new)
<1> DEFINE At(g, k) == IF k = 0 THEN s ELSE Moved(g[k - 1], stack[n + 1 - k], new)
           Solvable == {m \in 0 .. n : \E g : g = [k \in 0 .. m |-> At(g, k)]}
<1>1. 0 \in Solvable
  <2> DEFINE g == [k \in 0 .. 0 |-> s]
  <2>1. g = [k \in 0 .. 0 |-> At(g, k)]
    OBVIOUS
  <2> HIDE DEF g
  <2>2. \E h : h = [k \in 0 .. 0 |-> At(h, k)]
    BY <2>1
  <2>3. QED
    BY <2>2
<1>2. ASSUME NEW m \in 0 .. (n - 1), m \in Solvable PROVE m + 1 \in Solvable
  <2>1. PICK g : g = [k \in 0 .. m |-> At(g, k)]
    BY <1>2
  <2> DEFINE h == [k \in 0 .. (m + 1) |->
                     IF k = m + 1 THEN Moved(g[m], stack[n + 1 - k], new) ELSE g[k]]
  <2>2. \A k \in 0 .. (m + 1) : h[k] = At(h, k)
    <3>1. h[m + 1] = At(h, m + 1)
      OBVIOUS
    <3>2. ASSUME NEW k \in 0 .. m PROVE h[k] = At(h, k)
      <4>1. h[k] = g[k] /\ g[k] = At(g, k)
        BY <2>1
      <4>2. k # 0 => h[k - 1] = g[k - 1]
        OBVIOUS
      <4>3. QED
        BY <4>1, <4>2
    <3> HIDE DEF h
    <3>3. QED
      BY <3>1, <3>2
  <2>3. h = [k \in 0 .. (m + 1) |-> h[k]]
    OBVIOUS
  <2> HIDE DEF h
  <2>4. h = [k \in 0 .. (m + 1) |-> At(h, k)]
    BY <2>2, <2>3
  <2>5. m + 1 \in 0 .. n
    OBVIOUS
  <2>6. QED
    BY <2>4, <2>5
<1>3. n \in Solvable
  <2> HIDE DEF Solvable
  <2>1. 0 .. n \subseteq Solvable
    BY <1>1, <1>2, SegmentInduction
  <2>2. QED
    BY <2>1
<1>4. QED
    BY <1>3 DEF Solves

\* p lists what the records of a stack lead to, the top first.
Unrolled(p, s, stack, n, new) ==
    /\ p = [k \in 1 .. n |-> p[k]]
    /\ \A k \in 1 .. n : p[k] = Moved(IF k = 1 THEN s ELSE p[k - 1], stack[n + 1 - k], new)

\* What Replayed computes, step by step.
LEMMA ReplayUnfolds ==
    ASSUME NEW s, NEW D, NEW stack \in Seq(D), NEW new
    PROVE  Unrolled(Replayed(s, stack, new), s, stack, Len(stack), new)
<1> DEFINE n == Len(stack)
           f == CHOOSE g : g = [k \in 0 .. n |-> IF k = 0 THEN s
                                                ELSE Moved(g[k - 1], stack[n + 1 - k], new)]
<1>1. n \in Nat
    OBVIOUS
<1>2. f = [k \in 0 .. n |-> IF k = 0 THEN s ELSE Moved(f[k - 1], stack[n + 1 - k], new)]
  <2> HIDE DEF n
  <2>1. PICK g : Solves(g, s, n, stack, new)
    BY <1>1, ReplayExists
  <2>2. QED
    BY <2>1 DEF Solves
<1>3. Replayed(s, stack, new) = [k \in 1 .. n |-> f[k]]
    BY Zenon DEF Replayed
<1> HIDE DEF f, n
<1>4. ASSUME NEW k \in 1 .. n
      PROVE  f[k] = Moved(IF k = 1 THEN s ELSE f[k - 1], stack[n + 1 - k], new)
    BY <1>1, <1>2
<1>5. ASSUME NEW k \in 1 .. n, k # 1 PROVE k - 1 \in 1 .. n
    BY <1>1, <1>5
<1>6. QED
    BY <1>3, <1>4, <1>5 DEF n, Unrolled

\* A function over 1 .. n is a sequence.
LEMMA ListFacts ==
    ASSUME NEW n \in Nat, NEW p, p = [k \in 1 .. n |-> p[k]], NEW t
    PROVE  /\ Len(p) = n
           /\ \E S : p \in Seq(S) /\ t \in S
<1> DEFINE S == {p[k] : k \in 1 .. n} \cup {t}
<1>1. p \in [1 .. n -> S]
    OBVIOUS
<1>2. p \in Seq(S) /\ t \in S
    BY <1>1
<1>3. Len(p) = n
    BY <1>2
<1>4. QED
    BY <1>2, <1>3

\* The lists that Append and concatenation make, and how they are taken apart.
LEMMA ListEnds ==
    ASSUME NEW S, NEW p \in Seq(S), NEW t \in S
    PROVE  /\ Append(p, t) # <<>> /\ <<t>> \o p # <<>>
           /\ Append(p, t)[Len(Append(p, t))] = t
           /\ SubSeq(Append(p, t), 1, Len(Append(p, t)) - 1) = p
           /\ Head(<<t>> \o p) = t
           /\ Tail(<<t>> \o p) = p
<1> DEFINE a == Append(p, t)
           c == <<t>> \o p
<1>1. /\ a \in Seq(S) /\ Len(a) = Len(p) + 1 /\ a[Len(p) + 1] = t
      /\ \A k \in 1 .. Len(p) : a[k] = p[k]
    OBVIOUS
<1>2. /\ c \in Seq(S) /\ Len(c) = Len(p) + 1 /\ c[1] = t
      /\ \A k \in 1 .. Len(p) : c[k + 1] = p[k]
    OBVIOUS
<1> HIDE DEF a, c
<1>3. Pop(a) = p
  <2>1. Pop(a) \in Seq(S) /\ Len(Pop(a)) = Len(p) /\ \A k \in 1 .. Len(p) : Pop(a)[k] = p[k]
    BY <1>1, StackFacts
  <2>2. QED
    BY <2>1, SeqEqual
<1>4. Tail(c) = p
  <2>1. Tail(c) \in Seq(S) /\ Len(Tail(c)) = Len(p) /\ \A k \in 1 .. Len(p) : Tail(c)[k] = p[k]
    BY <1>2
  <2>2. QED
    BY <2>1, SeqEqual
<1>5. Head(c) = t /\ a # <<>> /\ c # <<>>
    BY <1>1, <1>2
<1>6. QED
    BY <1>1, <1>3, <1>4, <1>5 DEF a, c, Pop

\* p is t followed by the n elements of q.
Prefixed(p, q, t, n) ==
    /\ p = [k \in 1 .. (n + 1) |-> p[k]] /\ q = [k \in 1 .. n |-> q[k]]
    /\ p[1] = t
    /\ \A k \in 1 .. n : p[k + 1] = q[k]

\* What a stack with one record more leads to begins with where that record leads.
LEMMA UnrolledPush ==
    ASSUME NEW s, NEW n \in Nat, NEW stack, NEW long, NEW new, NEW t, NEW p, NEW q,
           t = Moved(s, long[n + 1], new),
           \A k \in 1 .. n : long[k] = stack[k],
           Unrolled(p, s, long, n + 1, new), Unrolled(q, t, stack, n, new)
    PROVE  Prefixed(p, q, t, n)
<1> DEFINE Same == {k \in 0 .. n : k = 0 \/ p[k + 1] = q[k]}
<1>1. p[1] = t
  <2>1. 1 \in 1 .. (n + 1) /\ n + 1 + 1 - 1 = n + 1
    OBVIOUS
  <2>2. QED
    BY <2>1 DEF Unrolled
<1>2. ASSUME NEW k \in 0 .. (n - 1), k \in Same PROVE k + 1 \in Same
  <2>1. /\ k + 2 \in 1 .. (n + 1) /\ k + 2 # 1 /\ (k + 2) - 1 = k + 1
        /\ n + 1 + 1 - (k + 2) = n - k /\ k + 1 \in 1 .. n
        /\ n + 1 - (k + 1) = n - k /\ (k + 1) - 1 = k
        /\ n - k \in 1 .. n /\ k + 1 \in 0 .. n /\ (k + 1) + 1 = k + 2
    OBVIOUS
  <2>2. p[k + 2] = Moved(p[k + 1], long[n - k], new)
    BY <2>1 DEF Unrolled
  <2>3. q[k + 1] = Moved(IF k = 0 THEN t ELSE q[k], stack[n - k], new)
    <3>1. q[k + 1] = Moved(IF k + 1 = 1 THEN t ELSE q[(k + 1) - 1],
                           stack[n + 1 - (k + 1)], new)
      BY <2>1 DEF Unrolled
    <3>2. k + 1 = 1 <=> k = 0
      OBVIOUS
    <3>3. QED
      BY <2>1, <3>1, <3>2
  <2>4. p[k + 1] = IF k = 0 THEN t ELSE q[k]
    BY <1>1, <1>2
  <2>5. p[k + 2] = q[k + 1]
    BY <2>1, <2>2, <2>3, <2>4
  <2>6. QED
    BY <2>1, <2>5
<1>3. 0 .. n \subseteq Same
  <2>1. 0 \in Same
    OBVIOUS
  <2> HIDE DEF Same
  <2>2. QED
    BY <1>2, <2>1, SegmentInduction
<1>4. \A k \in 1 .. n : p[k + 1] = q[k]
    BY <1>3
<1>5. QED
    BY <1>1, <1>4 DEF Unrolled, Prefixed

\* The first state that a longer stack leads to, and the others.
LEMMA ReplayOfPush ==
    ASSUME NEW s, NEW D, NEW stack \in Seq(D), NEW d \in D, NEW new
    PROVE  Prefixed(Replayed(s, Append(stack, d), new),
                    Replayed(Moved(s, d, new), stack, new), Moved(s, d, new), Len(stack))
<1> DEFINE n == Len(stack)
           t == Moved(s, d, new)
           long == Append(stack, d)
           p == Replayed(s, long, new)
           q == Replayed(t, stack, new)
<1>1. /\ n \in Nat /\ long \in Seq(D) /\ Len(long) = n + 1
      /\ long[n + 1] = d /\ \A k \in 1 .. n : long[k] = stack[k]
    OBVIOUS
<1> HIDE DEF long, t, n
<1>2. Unrolled(q, t, stack, n, new)
    BY ReplayUnfolds DEF n
<1>3. Unrolled(p, s, long, n + 1, new)
  <2>1. Unrolled(p, s, long, Len(long), new)
    BY <1>1, ReplayUnfolds
  <2>2. QED
    BY <1>1, <2>1
<1>4. t = Moved(s, long[n + 1], new)
    BY <1>1 DEF t
<1> HIDE DEF p, q
<1>5. Prefixed(p, q, t, n)
    BY <1>1, <1>2, <1>3, <1>4, UnrolledPush
<1>6. QED
    BY <1>5 DEF n, p, q, t, long

\* Such lists are sequences over one set.
LEMMA PrefixedFacts ==
    ASSUME NEW n \in Nat, NEW p, NEW q, NEW t, Prefixed(p, q, t, n)
    PROVE  \E S : /\ p \in Seq(S) /\ q \in Seq(S) /\ t \in S
                  /\ Len(q) = n /\ Len(p) = n + 1 /\ p[1] = t
                  /\ \A k \in 1 .. n : p[k + 1] = q[k]
<1> DEFINE S == {p[k] : k \in 1 .. (n + 1)}
<1>1. p = [k \in 1 .. (n + 1) |-> p[k]] /\ q = [k \in 1 .. n |-> q[k]]
    BY DEF Prefixed
<1>2. p[1] = t /\ \A k \in 1 .. n : p[k + 1] = q[k]
    BY DEF Prefixed
<1>3. p \in [1 .. (n + 1) -> S]
    BY <1>1
<1>4. t \in S
    BY <1>2
<1>5. \A k \in 1 .. n : q[k] \in S
  <2>1. \A k \in 1 .. n : k + 1 \in 1 .. (n + 1)
    OBVIOUS
  <2>2. QED
    BY <1>2, <2>1
<1>6. q \in [1 .. n -> S]
    BY <1>1, <1>5
<1> HIDE DEF S
<1>7. p \in Seq(S) /\ Len(p) = n + 1
    BY <1>3
<1>8. q \in Seq(S) /\ Len(q) = n
    BY <1>6
<1>9. QED
    BY <1>2, <1>4, <1>7, <1>8

\* They are concatenated,
LEMMA PrefixedConcat ==
    ASSUME NEW n \in Nat, NEW p, NEW q, NEW t, Prefixed(p, q, t, n)
    PROVE  p = <<t>> \o q
<1>1. PICK S : /\ p \in Seq(S) /\ q \in Seq(S) /\ t \in S
              /\ Len(q) = n /\ Len(p) = n + 1 /\ p[1] = t
              /\ \A k \in 1 .. n : p[k + 1] = q[k]
    BY PrefixedFacts
<1> DEFINE c == <<t>> \o q
<1>3. /\ c \in Seq(S) /\ Len(c) = n + 1 /\ c[1] = t
      /\ \A k \in 1 .. n : c[k + 1] = q[k]
    BY <1>1
<1> HIDE DEF c
<1>4. ASSUME NEW k \in 1 .. (n + 1) PROVE p[k] = c[k]
  <2>1. k = 1 \/ (k - 1 \in 1 .. n /\ (k - 1) + 1 = k)
    OBVIOUS
  <2>2. k = 1 \/ (p[(k - 1) + 1] = q[k - 1] /\ c[(k - 1) + 1] = q[k - 1])
    BY <1>1, <1>3, <2>1
  <2>3. QED
    BY <1>1, <1>3, <2>1, <2>2
<1>5. p = c
    BY <1>1, <1>3, <1>4, SeqEqual
<1>6. QED
    BY <1>5 DEF c

\* A sequence read backwards.
LEMMA ReverseFacts ==
    ASSUME NEW S, NEW s \in Seq(S)
    PROVE  /\ SX!Reverse(s) \in Seq(S) /\ Len(SX!Reverse(s)) = Len(s)
           /\ \A k \in 1 .. Len(s) : SX!Reverse(s)[k] = s[Len(s) - k + 1]
<1> DEFINE n == Len(s)
           r == [k \in 1 .. n |-> s[n - k + 1]]
<1>1. n \in Nat
    OBVIOUS
<1>2. \A k \in 1 .. n : s[n - k + 1] \in S
  <2>1. \A k \in 1 .. n : n - k + 1 \in 1 .. n
    BY <1>1
  <2>2. \A k \in 1 .. n : s[k] \in S
    OBVIOUS
  <2>3. QED
    BY <2>1, <2>2
<1>3. r \in [1 .. n -> S]
    BY <1>2
<1>4. \A k \in 1 .. n : r[k] = s[n - k + 1]
    OBVIOUS
<1>5. SX!Reverse(s) = r
    BY DEF SX!Reverse
<1> HIDE DEF n, r
<1>6. r \in Seq(S) /\ Len(r) = n
    BY <1>1, <1>3
<1>7. QED
    BY <1>4, <1>5, <1>6 DEF n

\* and read backwards the first element comes last.
LEMMA PrefixedReverse ==
    ASSUME NEW n \in Nat, NEW p, NEW q, NEW t, Prefixed(p, q, t, n)
    PROVE  SX!Reverse(p) = Append(SX!Reverse(q), t)
<1>1. PICK S : /\ p \in Seq(S) /\ q \in Seq(S) /\ t \in S
              /\ Len(q) = n /\ Len(p) = n + 1 /\ p[1] = t
              /\ \A k \in 1 .. n : p[k + 1] = q[k]
    BY PrefixedFacts
<1> DEFINE rp == SX!Reverse(p)
           rq == SX!Reverse(q)
           a == Append(rq, t)
<1>3. rp \in Seq(S) /\ Len(rp) = n + 1 /\ \A k \in 1 .. (n + 1) : rp[k] = p[n + 1 - k + 1]
    BY <1>1, ReverseFacts
<1>4. rq \in Seq(S) /\ Len(rq) = n /\ \A k \in 1 .. n : rq[k] = q[n - k + 1]
    BY <1>1, ReverseFacts
<1> HIDE DEF rp, rq
<1>5. a \in Seq(S) /\ Len(a) = n + 1 /\ a[n + 1] = t /\ \A k \in 1 .. n : a[k] = rq[k]
    BY <1>1, <1>4
<1> HIDE DEF a
<1>6. ASSUME NEW k \in 1 .. n PROVE rp[k] = a[k]
  <2>1. /\ n - k + 1 \in 1 .. n /\ n + 1 - k + 1 = (n - k + 1) + 1 /\ k \in 1 .. (n + 1)
    OBVIOUS
  <2>2. rp[k] = p[(n - k + 1) + 1]
    BY <1>3, <2>1
  <2>3. QED
    BY <1>1, <1>4, <1>5, <2>1, <2>2
<1>7. rp[n + 1] = a[n + 1]
  <2>1. n + 1 \in 1 .. (n + 1) /\ n + 1 - (n + 1) + 1 = 1
    OBVIOUS
  <2>2. rp[n + 1] = p[1]
    BY <1>3, <2>1
  <2>3. QED
    BY <1>1, <1>5, <2>2
<1>8. \A k \in 1 .. (n + 1) : rp[k] = a[k]
  <2>1. \A k \in 1 .. (n + 1) : k = n + 1 \/ k \in 1 .. n
    OBVIOUS
  <2>2. QED
    BY <1>6, <1>7, <2>1
<1>9. rp = a
    BY <1>3, <1>5, <1>8, SeqEqual
<1>10. QED
    BY <1>9 DEF rp, rq, a

\* A stack that is empty leads nowhere.
LEMMA ReplayOfNothing ==
    ASSUME NEW s, NEW new PROVE Replayed(s, <<>>, new) = <<>>
BY DEF Replayed
-----------------------------------------------------------------------------
\* The records of a stack lead forth and back.
Retraceable(s, stack, new) ==
    LET n == Len(stack)
        p == Replayed(s, stack, new)
    IN \A k \in 1 .. n :
          Moved(p[k], stack[n + 1 - k], ~new) = IF k = 1 THEN s ELSE p[k - 1]

\* A record more leads forth and back if the record does, and the rest from there.
LEMMA RetracePush ==
    ASSUME NEW s, NEW D, NEW stack \in Seq(D), NEW d \in D, NEW new
    PROVE  Retraceable(s, Append(stack, d), new)
               <=> /\ Moved(Moved(s, d, new), d, ~new) = s
                   /\ Retraceable(Moved(s, d, new), stack, new)
<1> DEFINE n == Len(stack)
           t == Moved(s, d, new)
           long == Append(stack, d)
           p == Replayed(s, long, new)
           q == Replayed(t, stack, new)
           Short == \A k \in 1 .. n : Moved(q[k], stack[n + 1 - k], ~new)
                                        = IF k = 1 THEN t ELSE q[k - 1]
           Long == \A k \in 1 .. (n + 1) : Moved(p[k], long[n + 1 + 1 - k], ~new)
                                        = IF k = 1 THEN s ELSE p[k - 1]
<1>1. /\ n \in Nat /\ Len(long) = n + 1
      /\ long[n + 1] = d /\ \A k \in 1 .. n : long[k] = stack[k]
    OBVIOUS
<1>2. Prefixed(p, q, t, n)
    BY ReplayOfPush
<1>3. Retraceable(t, stack, new) <=> Short
    BY DEF Retraceable
<1>4. Retraceable(s, long, new) <=> Long
  <2> HIDE DEF long
  <2>1. QED
    BY <1>1 DEF Retraceable
<1> HIDE DEF n, t, long, p, q
<1>5. p[1] = t /\ \A k \in 1 .. n : p[k + 1] = q[k]
    BY <1>2 DEF Prefixed
<1>6. Long <=> Moved(t, d, ~new) = s /\ Short
  <2>1. ASSUME NEW k \in 1 .. n
        PROVE  (Moved(p[k + 1], long[n + 1 + 1 - (k + 1)], ~new)
                    = IF k + 1 = 1 THEN s ELSE p[(k + 1) - 1])
               <=> (Moved(q[k], stack[n + 1 - k], ~new) = IF k = 1 THEN t ELSE q[k - 1])
    <3>1. /\ n + 1 + 1 - (k + 1) = n + 1 - k /\ n + 1 - k \in 1 .. n
          /\ k + 1 # 1 /\ (k + 1) - 1 = k
      BY <1>1
    <3>2. k = 1 \/ (k - 1 \in 1 .. n /\ (k - 1) + 1 = k)
      BY <1>1
    <3>3. p[k] = IF k = 1 THEN t ELSE q[k - 1]
      BY <1>5, <3>2
    <3>4. p[k + 1] = q[k] /\ long[n + 1 - k] = stack[n + 1 - k]
      BY <1>1, <1>5, <3>1
    <3>5. QED
      BY <3>1, <3>3, <3>4
  <2>2. (Moved(p[1], long[n + 1 + 1 - 1], ~new) = IF 1 = 1 THEN s ELSE p[1 - 1])
           <=> Moved(t, d, ~new) = s
    <3>1. n + 1 + 1 - 1 = n + 1
      BY <1>1
    <3>2. QED
      BY <1>1, <1>5, <3>1
  <2>3. /\ 1 \in 1 .. (n + 1)
        /\ \A k \in 1 .. n : k + 1 \in 1 .. (n + 1)
        /\ \A k \in 1 .. (n + 1) : k = 1 \/ (k - 1 \in 1 .. n /\ (k - 1) + 1 = k)
    BY <1>1
  <2> DEFINE At(k) == Moved(p[k], long[n + 1 + 1 - k], ~new) = IF k = 1 THEN s ELSE p[k - 1]
             Below(k) == Moved(q[k], stack[n + 1 - k], ~new) = IF k = 1 THEN t ELSE q[k - 1]
  <2>4. \A k \in 1 .. n : At(k + 1) <=> Below(k)
    BY <2>1
  <2>5. At(1) <=> Moved(t, d, ~new) = s
    BY <2>2
  <2>6. (\A k \in 1 .. (n + 1) : At(k)) <=> Moved(t, d, ~new) = s /\ \A k \in 1 .. n : Below(k)
    <3> HIDE DEF At, Below
    <3>1. ASSUME \A k \in 1 .. (n + 1) : At(k)
          PROVE  Moved(t, d, ~new) = s /\ \A k \in 1 .. n : Below(k)
      BY <2>3, <2>4, <2>5, <3>1
    <3>2. ASSUME Moved(t, d, ~new) = s, \A k \in 1 .. n : Below(k)
          PROVE  \A k \in 1 .. (n + 1) : At(k)
      <4>1. TAKE k \in 1 .. (n + 1)
      <4>2. CASE k = 1
        BY <2>5, <3>2, <4>2
      <4>3. CASE k # 1
        <5>1. k - 1 \in 1 .. n /\ (k - 1) + 1 = k
          BY <2>3, <4>3
        <5>2. At((k - 1) + 1)
          BY <2>4, <3>2, <5>1
        <5>3. QED
          BY <5>1, <5>2
      <4>4. QED
        BY <4>2, <4>3
    <3>3. QED
      BY <3>1, <3>2
  <2>7. QED
    BY <2>6
<1>7. QED
    BY <1>3, <1>4, <1>6 DEF n, t, long, p, q
-----------------------------------------------------------------------------
\* The past is what undoing leads to, read backwards.
LEMMA ReplayReversed ==
    ASSUME NEW s, NEW D, NEW stack \in Seq(D)
    PROVE  LET n == Len(stack)
               p == Replayed(s, stack, FALSE)
           IN [k \in 1 .. n |-> p[n - k + 1]] = SX!Reverse(p)
<1> DEFINE n == Len(stack)
           p == Replayed(s, stack, FALSE)
<1>1. Unrolled(p, s, stack, n, FALSE)
    BY ReplayUnfolds
<1>2. n \in Nat
    OBVIOUS
<1> HIDE DEF p, n
<1>3. Len(p) = n
  <2>1. p = [k \in 1 .. n |-> p[k]]
    BY <1>1 DEF Unrolled
  <2>2. QED
    BY <1>2, <2>1, ListFacts
<1>4. SX!Reverse(p) = [k \in 1 .. n |-> p[n - k + 1]]
    BY <1>3 DEF SX!Reverse
<1>5. QED
    BY <1>4 DEF n, p

\* The past with one record more.
LEMMA PastOfPush ==
    ASSUME NEW s, NEW D, NEW stack \in Seq(D), NEW d \in D
    PROVE  LET t == Moved(s, d, FALSE)
           IN SX!Reverse(Replayed(s, Append(stack, d), FALSE))
                = Append(SX!Reverse(Replayed(t, stack, FALSE)), t)
<1> DEFINE n == Len(stack)
           t == Moved(s, d, FALSE)
           p == Replayed(s, Append(stack, d), FALSE)
           q == Replayed(t, stack, FALSE)
<1>1. n \in Nat
    OBVIOUS
<1>2. Prefixed(p, q, t, n)
    BY ReplayOfPush
<1> HIDE DEF n, t, p, q
<1>3. SX!Reverse(p) = Append(SX!Reverse(q), t)
    BY <1>1, <1>2, PrefixedReverse
<1>4. QED
    BY <1>3 DEF p, q, t

\* The future with one record more.
LEMMA FutureOfPush ==
    ASSUME NEW s, NEW D, NEW stack \in Seq(D), NEW d \in D
    PROVE  LET t == Moved(s, d, TRUE)
           IN Replayed(s, Append(stack, d), TRUE) = <<t>> \o Replayed(t, stack, TRUE)
<1> DEFINE n == Len(stack)
           t == Moved(s, d, TRUE)
           p == Replayed(s, Append(stack, d), TRUE)
           q == Replayed(t, stack, TRUE)
<1>1. n \in Nat
    OBVIOUS
<1>2. Prefixed(p, q, t, n)
    BY ReplayOfPush
<1> HIDE DEF n, t, p, q
<1>3. QED
    BY <1>1, <1>2, PrefixedConcat DEF p, q, t

\* What a list with one state more begins and ends with.
LEMMA PastEnds ==
    ASSUME NEW s, NEW D, NEW stack \in Seq(D), NEW t
    PROVE  LET q == SX!Reverse(Replayed(s, stack, FALSE))
               a == Append(q, t)
           IN a # <<>> /\ a[Len(a)] = t /\ SubSeq(a, 1, Len(a) - 1) = q
<1> DEFINE r == Replayed(s, stack, FALSE)
<1>1. Unrolled(r, s, stack, Len(stack), FALSE)
    BY ReplayUnfolds
<1> HIDE DEF r
<1>2. PICK S : r \in Seq(S) /\ t \in S
  <2>1. r = [k \in 1 .. Len(stack) |-> r[k]]
    BY <1>1 DEF Unrolled
  <2>2. Len(stack) \in Nat
    OBVIOUS
  <2>3. QED
    BY <2>1, <2>2, ListFacts
<1>3. SX!Reverse(r) \in Seq(S)
    BY <1>2, ReverseFacts
<1>4. QED
    BY <1>2, <1>3, ListEnds DEF r

\* And what a future with one state more begins with.
LEMMA FutureEnds ==
    ASSUME NEW s, NEW D, NEW stack \in Seq(D), NEW t
    PROVE  LET q == Replayed(s, stack, TRUE)
               c == <<t>> \o q
           IN c # <<>> /\ Head(c) = t /\ Tail(c) = q
<1> DEFINE r == Replayed(s, stack, TRUE)
<1>1. Unrolled(r, s, stack, Len(stack), TRUE)
    BY ReplayUnfolds
<1> HIDE DEF r
<1>2. PICK S : r \in Seq(S) /\ t \in S
  <2>1. r = [k \in 1 .. Len(stack) |-> r[k]]
    BY <1>1 DEF Unrolled
  <2>2. Len(stack) \in Nat
    OBVIOUS
  <2>3. QED
    BY <2>1, <2>2, ListFacts
<1>3. QED
    BY <1>2, ListEnds DEF r

\* A stack that is empty leads nowhere.
LEMMA NoHistory ==
    ASSUME NEW s, NEW new
    PROVE  /\ Replayed(s, <<>>, new) = <<>>
           /\ SX!Reverse(Replayed(s, <<>>, FALSE)) = <<>>
           /\ Retraceable(s, <<>>, new)
<1>1. Replayed(s, <<>>, new) = <<>> /\ Replayed(s, <<>>, FALSE) = <<>>
    BY ReplayOfNothing
<1>2. SX!Reverse(<<>>) = <<>>
    BY DEF SX!Reverse
<1>3. Retraceable(s, <<>>, new)
    BY DEF Retraceable
<1>4. QED
    BY <1>1, <1>2, <1>3

\* A stack is its top pushed on the rest.
LEMMA PushTop ==
    ASSUME NEW D, NEW stack \in Seq(D), stack # <<>>
    PROVE  stack = Append(Pop(stack), Top(stack))
<1>1. /\ Len(stack) \in Nat \ {0} /\ Top(stack) \in D /\ Pop(stack) \in Seq(D)
      /\ Len(Pop(stack)) = Len(stack) - 1
      /\ \A k \in 1 .. (Len(stack) - 1) : Pop(stack)[k] = stack[k]
    BY StackFacts
<1>2. Top(stack) = stack[Len(stack)]
    BY DEF Top
<1> DEFINE a == Append(Pop(stack), Top(stack))
<1>3. /\ a \in Seq(D) /\ Len(a) = Len(stack) /\ a[Len(stack)] = Top(stack)
      /\ \A k \in 1 .. (Len(stack) - 1) : a[k] = Pop(stack)[k]
    BY <1>1
<1> HIDE DEF a
<1>4. \A k \in 1 .. Len(stack) : a[k] = stack[k]
  <2>1. \A k \in 1 .. Len(stack) : k = Len(stack) \/ k \in 1 .. (Len(stack) - 1)
    BY <1>1
  <2>2. QED
    BY <1>1, <1>2, <1>3, <2>1
<1>5. a = stack
    BY <1>3, <1>4, SeqEqual
<1>6. QED
    BY <1>5 DEF a
-----------------------------------------------------------------------------
\* Two memories that read the same have the same nonzero bytes.
LEMMA SameNonzero ==
    ASSUME NEW m, NEW m2, IsMemory(m), IsMemory(m2),
           \A a \in Word : Read(m, a) = Read(m2, a)
    PROVE  Nonzero(m) = Nonzero(m2)
<1>1. \A a \in Word : ToWord(a) = a
    BY SizeAssumption DEF Word, ToWord
<1>2. ASSUME NEW x, IsMemory(x), NEW a
      PROVE  a \in DOMAIN x /\ x[a] # 0 <=> a \in Word /\ Read(x, a) # 0
    BY <1>1, <1>2 DEF IsMemory, Read
<1>3. ASSUME NEW x, IsMemory(x), NEW a \in Word, Read(x, a) # 0 PROVE Read(x, a) = x[a]
    BY <1>1, <1>3 DEF Read
<1>4. \A a : (a \in DOMAIN m /\ m[a] # 0) <=> (a \in DOMAIN m2 /\ m2[a] # 0)
    BY <1>2
<1>5. {b \in DOMAIN m : m[b] # 0} = {b \in DOMAIN m2 : m2[b] # 0}
    BY <1>4
<1>6. \A a \in {b \in DOMAIN m : m[b] # 0} : m[a] = m2[a]
    BY <1>2, <1>3
<1>7. QED
    BY <1>5, <1>6 DEF Nonzero

\* Nonzero forgets nothing that a read could tell.
LEMMA NonzeroReads ==
    ASSUME NEW m, IsMemory(m)
    PROVE  IsMemory(Nonzero(m)) /\ \A a : Read(Nonzero(m), a) = Read(m, a)
BY DEF Nonzero, IsMemory, Read
-----------------------------------------------------------------------------
\* A record that lists no register, or one.
LEMMA GprWithOne ==
    ASSUME NEW g \in [Reg -> Word], g[0] = 0, NEW d, NEW new \in BOOLEAN
    PROVE  /\ d.registers = <<>> => GprWith(g, d, new) = g
           /\ \A c \in RegisterRecord : d.registers = <<c>> /\ c.reg # 0 =>
                 GprWith(g, d, new)
                    = [g EXCEPT ![c.reg] = IF new THEN c.new_value ELSE c.old_value]
<1> DEFINE last(r) == Last(d.registers, LAMBDA c : c.reg = r)
           at(r) == CHOOSE n \in last(r) : TRUE
           value(r) == IF new THEN d.registers[at(r)].new_value
                              ELSE d.registers[at(r)].old_value
           h == GprWith(g, d, new)
<1>1. h = [r \in Reg |-> IF r = 0 \/ last(r) = {} THEN g[r] ELSE value(r)]
    BY DEF GprWith
<1>2. ASSUME d.registers = <<>> PROVE h = g
  <2>1. \A r : last(r) = {}
    BY <1>2 DEF Last
  <2> HIDE DEF last, value, h
  <2>2. QED
    BY <1>1, <2>1
<1>3. ASSUME NEW c \in RegisterRecord, d.registers = <<c>>, c.reg # 0
      PROVE  h = [g EXCEPT ![c.reg] = IF new THEN c.new_value ELSE c.old_value]
  <2>1. DOMAIN d.registers = {1} /\ d.registers[1] = c
    BY <1>3
  <2>2. \A r : last(r) = IF c.reg = r THEN {1} ELSE {}
    BY <2>1 DEF Last
  <2>3. at(c.reg) = 1
    <3>1. last(c.reg) = {1}
      BY <2>2
    <3> HIDE DEF last
    <3>2. QED
      BY <3>1
  <2> HIDE DEF at
  <2>4. value(c.reg) = IF new THEN c.new_value ELSE c.old_value
    BY <2>1, <2>3
  <2>5. c.reg \in Reg
    BY DEF RegisterRecord
  <2> HIDE DEF last, value, h
  <2>6. \A r \in Reg : h[r] = IF r = c.reg THEN value(c.reg) ELSE g[r]
    BY <1>1, <1>3, <2>2
  <2>7. h = [r \in Reg |-> IF r = c.reg THEN value(c.reg) ELSE g[r]]
    BY <1>1, <2>6
  <2>8. QED
    BY <2>4, <2>5, <2>7
<1>4. QED
    BY <1>2, <1>3

\* The cells that a record of memory covers.
Cells(address, n) == {ToWord(address + k - 1) : k \in 1 .. n}

\* How the memory reads after a record that covers no cell, or those of one access.
LEMMA MemWithNone ==
    ASSUME NEW m, IsMemory(m), NEW d, d.memory = <<>>, NEW new
    PROVE  \A a \in Word : Read(MemWith(m, d, new), a) = Read(m, a)
<1> DEFINE cells(c) == {ToWord(c.address + k - 1) : k \in DOMAIN c.old_bytes}
           last(a) == Last(d.memory, LAMBDA c : a \in cells(c))
           written == {a \in Word : last(a) # {}}
           value(a) == LET c == d.memory[CHOOSE n \in last(a) : TRUE]
                           k == CHOOSE j \in DOMAIN c.old_bytes : ToWord(c.address + j - 1) = a
                       IN IF new THEN c.new_bytes[k] ELSE c.old_bytes[k]
<1>1. MemWith(m, d, new) = [a \in DOMAIN m \cup written |->
                              IF a \notin written THEN m[a] ELSE value(a)]
    BY DEF MemWith
<1>2. \A a : last(a) = {}
    BY DEF Last
<1> HIDE DEF last, value
<1>3. written = {}
    BY <1>2
<1> HIDE DEF written
<1>4. MemWith(m, d, new) = [a \in DOMAIN m |-> m[a]]
    BY <1>1, <1>3
<1>5. QED
    BY <1>4 DEF Read

\* After a record of one access its cells read as they did before, or after, it.
LEMMA MemWithOne ==
    ASSUME NEW m, IsMemory(m), NEW d, NEW new \in BOOLEAN,
           NEW address \in Word, NEW n \in Nat, NEW old, NEW after,
           d.memory = <<MemoryChange(address, n, old, after)>>
    PROVE  \A a \in Word : Read(MemWith(m, d, new), a) =
               IF a \in Cells(address, n) THEN Read(IF new THEN after ELSE old, a)
               ELSE Read(m, a)
<1> DEFINE c == MemoryChange(address, n, old, after)
           cells(e) == {ToWord(e.address + k - 1) : k \in DOMAIN e.old_bytes}
           last(a) == Last(d.memory, LAMBDA e : a \in cells(e))
           written == {a \in Word : last(a) # {}}
           change(a) == d.memory[CHOOSE i \in last(a) : TRUE]
           at(a) == CHOOSE j \in DOMAIN change(a).old_bytes :
                        ToWord(change(a).address + j - 1) = a
           value(a) == IF new THEN change(a).new_bytes[at(a)] ELSE change(a).old_bytes[at(a)]
<1>1. MemWith(m, d, new) = [a \in DOMAIN m \cup written |->
                              IF a \notin written THEN m[a] ELSE value(a)]
    BY DEF MemWith
<1>2. /\ DOMAIN c.old_bytes = 1 .. n /\ c.address = address
      /\ \A k \in 1 .. n : c.old_bytes[k] = Read(old, address + k - 1)
      /\ \A k \in 1 .. n : c.new_bytes[k] = Read(after, address + k - 1)
    BY DEF MemoryChange, Bytes
<1>3. cells(c) = Cells(address, n)
    BY <1>2 DEF Cells
<1>4. DOMAIN d.memory = {1} /\ d.memory[1] = c
    OBVIOUS
<1> HIDE DEF c
<1>5. \A a : last(a) = IF a \in Cells(address, n) THEN {1} ELSE {}
    BY <1>3, <1>4 DEF Last
<1>6. \A a \in Word : ToWord(a) = a
    BY SizeAssumption DEF ToWord, Word
<1>7. ASSUME NEW a \in Cells(address, n)
      PROVE  a \in Word /\ value(a) = Read(IF new THEN after ELSE old, a)
  <2> DEFINE k == at(a)
  <2>1. change(a) = c
    <3>1. last(a) = {1}
      BY <1>5
    <3> HIDE DEF last
    <3>2. (CHOOSE i \in last(a) : TRUE) = 1
      BY <3>1
    <3>3. QED
      BY <1>4, <3>2
  <2> HIDE DEF last, change
  <2>2. k \in 1 .. n /\ ToWord(address + k - 1) = a
    <3>1. \E j \in DOMAIN change(a).old_bytes : ToWord(change(a).address + j - 1) = a
      BY <1>2, <2>1 DEF Cells
    <3>2. k \in DOMAIN change(a).old_bytes /\ ToWord(change(a).address + k - 1) = a
      BY <3>1
    <3>3. QED
      BY <1>2, <2>1, <3>2
  <2> HIDE DEF at
  <2>3. value(a) = IF new THEN c.new_bytes[k] ELSE c.old_bytes[k]
    BY <2>1
  <2> HIDE DEF k, value
  <2>4. a \in Word
    <3>1. address + k - 1 \in Int
      BY <2>2, SizeAssumption DEF Word
    <3>2. QED
      BY <2>2, <3>1, ToWordType
  <2>5. \A x : Read(x, address + k - 1) = Read(x, a)
    BY <1>6, <2>2, <2>4 DEF Read
  <2>6. QED
    BY <1>2, <2>2, <2>3, <2>4, <2>5
<1> HIDE DEF last, change, at, value
<1>8. written = Cells(address, n)
    BY <1>5, <1>7
<1> HIDE DEF written
<1>9. QED
  <2>1. TAKE a \in Word
  <2>2. CASE a \in Cells(address, n)
    BY <1>1, <1>6, <1>7, <1>8, <2>2 DEF Read
  <2>3. CASE a \notin Cells(address, n)
    BY <1>1, <1>6, <1>8, <2>3 DEF Read
  <2>4. QED
    BY <2>2, <2>3

\* Writing a record over memories that read the same leaves such memories.
LEMMA MemWithSame ==
    ASSUME NEW m, IsMemory(m), NEW m2, IsMemory(m2), NEW d, NEW new,
           \A a \in Word : Read(m, a) = Read(m2, a)
    PROVE  \A a \in Word : Read(MemWith(m, d, new), a) = Read(MemWith(m2, d, new), a)
<1> DEFINE cells(c) == {ToWord(c.address + k - 1) : k \in DOMAIN c.old_bytes}
           last(a) == Last(d.memory, LAMBDA c : a \in cells(c))
           written == {a \in Word : last(a) # {}}
           Value(a) == LET c == d.memory[CHOOSE n \in last(a) : TRUE]
                           k == CHOOSE j \in DOMAIN c.old_bytes : ToWord(c.address + j - 1) = a
                       IN IF new THEN c.new_bytes[k] ELSE c.old_bytes[k]
<1>1. \A x : MemWith(x, d, new) = [a \in DOMAIN x \cup written |->
                                    IF a \notin written THEN x[a] ELSE Value(a)]
    BY DEF MemWith
<1> HIDE DEF written, Value
<1>2. \A a \in Word : ToWord(a) = a
    BY SizeAssumption DEF ToWord, Word
<1>3. ASSUME NEW x, NEW a \in Word
      PROVE  Read(MemWith(x, d, new), a) = IF a \in written THEN Value(a) ELSE Read(x, a)
  <2> DEFINE y == MemWith(x, d, new)
  <2>1. y = [b \in DOMAIN x \cup written |-> IF b \notin written THEN x[b] ELSE Value(b)]
    BY <1>1
  <2> HIDE DEF y
  <2>2. Read(y, a) = IF a \in written THEN Value(a) ELSE Read(x, a)
    BY <1>2, <2>1 DEF Read
  <2>3. QED
    BY <2>2 DEF y
<1>4. QED
    BY <1>3
-----------------------------------------------------------------------------
\* m2 reads as m does outside the n cells from an address on.
Keeps(m2, m, address, n) ==
    \A a \in Word \ Cells(address, n) : Read(m2, a) = Read(m, a)

\* Two accesses side by side.
LEMMA KeepsJoin ==
    ASSUME NEW m, NEW m2, NEW m3, NEW address \in Int, NEW n \in Nat, NEW k \in Nat,
           Keeps(m2, m, address, n), Keeps(m3, m2, address + n, k)
    PROVE  Keeps(m3, m, address, n + k)
<1>1. Cells(address, n) \subseteq Cells(address, n + k)
  <2>1. 1 .. n \subseteq 1 .. (n + k)
    OBVIOUS
  <2>2. QED
    BY <2>1 DEF Cells
<1>2. Cells(address + n, k) \subseteq Cells(address, n + k)
  <2>1. SUFFICES ASSUME NEW j \in 1 .. k
                 PROVE  ToWord(address + n + j - 1) \in Cells(address, n + k)
    BY DEF Cells
  <2>2. n + j \in 1 .. (n + k) /\ address + n + j - 1 = address + (n + j) - 1
    OBVIOUS
  <2>3. QED
    BY <2>2 DEF Cells
<1>3. QED
    BY <1>1, <1>2 DEF Keeps

\* A store writes the bytes of its width and no other.
LEMMA StoreKeeps ==
    ASSUME NEW m, NEW a \in Int, NEW v, NEW f \in 0 .. 3
    PROVE  Keeps(MemStore(f, m, a, v), m, a, <<1, 2, 4, 8>>[f + 1])
<1>1. \A x, w : \A b \in Int : Keeps(Write(x, b, w), x, b, 1)
  <2>1. TAKE x, w
  <2>2. TAKE b \in Int
  <2>3. 1 \in 1 .. 1 /\ b + 1 - 1 = b
    OBVIOUS
  <2>4. ToWord(b) \in Cells(b, 1)
    BY <2>3 DEF Cells
  <2>5. \A c \in Word : ToWord(c) = c
    BY SizeAssumption DEF ToWord, Word
  <2>6. QED
    BY <2>4, <2>5 DEF Keeps, Read, Write
<1>2. \A x, w : \A b \in Int : Keeps(Write2(x, b, w), x, b, 2)
  <2>1. \A x, w : \A b \in Int : Keeps(Write2(x, b, w), x, b, 1 + 1)
    BY <1>1, KeepsJoin DEF Write2
  <2>2. QED
    BY <2>1
<1>3. \A x, w : \A b \in Int : Keeps(Write4(x, b, w), x, b, 4)
  <2>1. \A x, w : \A b \in Int : Keeps(Write4(x, b, w), x, b, 2 + 2)
    BY <1>2, KeepsJoin DEF Write4
  <2>2. QED
    BY <2>1
<1>4. \A x, w : \A b \in Int : Keeps(Write8(x, b, w), x, b, 8)
  <2>1. \A x, w : \A b \in Int : Keeps(Write8(x, b, w), x, b, 4 + 4)
    BY <1>3, KeepsJoin DEF Write8
  <2>2. QED
    BY <2>1
<1>5. QED
  <2>1. CASE f = 0
    BY <1>1, <2>1 DEF MemStore
  <2>2. CASE f = 1
    BY <1>2, <2>2 DEF MemStore
  <2>3. CASE f = 2
    BY <1>3, <2>3 DEF MemStore
  <2>4. CASE f = 3
    BY <1>4, <2>4 DEF MemStore
  <2>5. QED
    BY <2>1, <2>2, <2>3, <2>4
-----------------------------------------------------------------------------
\* A list of records tells how one register file, one memory, became another:
\* it names at most one register, and the cells of at most one access.
RegistersRecorded(g, g2, list) ==
    \/ list = <<>> /\ g2 = g
    \/ \E r \in Reg \ {0} :
          /\ list = <<[reg |-> r, old_value |-> g[r], new_value |-> g2[r]]>>
          /\ g2 = [g EXCEPT ![r] = g2[r]]

MemoryRecorded(m, m2, list) ==
    \/ list = <<>> /\ \A a \in Word : Read(m2, a) = Read(m, a)
    \/ \E a \in Word, n \in Nat : list = <<MemoryChange(a, n, m, m2)>> /\ Keeps(m2, m, a, n)

\* Such records lead back and forth.
LEMMA RegistersLead ==
    ASSUME NEW g \in [Reg -> Word], g[0] = 0, NEW g2 \in [Reg -> Word], g2[0] = 0,
           NEW d, RegistersRecorded(g, g2, d.registers), NEW new \in BOOLEAN
    PROVE  GprWith(IF new THEN g ELSE g2, d, new) = IF new THEN g2 ELSE g
<1> DEFINE x == IF new THEN g ELSE g2
           y == IF new THEN g2 ELSE g
<1>1. x \in [Reg -> Word] /\ x[0] = 0
    OBVIOUS
<1>2. CASE d.registers = <<>> /\ g2 = g
  <2>1. x = y
    BY <1>2
  <2> HIDE DEF x, y
  <2>2. GprWith(x, d, new) = y
    BY <1>1, <1>2, <2>1, GprWithOne
  <2>3. QED
    BY <2>2 DEF x, y
<1>3. ASSUME NEW r \in Reg \ {0},
             d.registers = <<[reg |-> r, old_value |-> g[r], new_value |-> g2[r]]>>,
             g2 = [g EXCEPT ![r] = g2[r]]
      PROVE  GprWith(x, d, new) = y
  <2> DEFINE c == [reg |-> r, old_value |-> g[r], new_value |-> g2[r]]
  <2>1. /\ c \in RegisterRecord /\ c.reg = r
        /\ (IF new THEN c.new_value ELSE c.old_value) = y[r]
    BY DEF RegisterRecord
  <2>2. d.registers = <<c>>
    BY <1>3
  <2>3. y = [x EXCEPT ![r] = y[r]]
    BY <1>3
  <2> HIDE DEF c, x, y
  <2>4. GprWith(x, d, new) = [x EXCEPT ![c.reg] = IF new THEN c.new_value ELSE c.old_value]
    BY <1>1, <2>1, <2>2, GprWithOne
  <2>5. QED
    BY <2>1, <2>3, <2>4
<1>4. QED
    BY <1>2, <1>3 DEF RegistersRecorded

\* So do the records of memory.
LEMMA MemoryLeads ==
    ASSUME NEW m, IsMemory(m), NEW m2, IsMemory(m2), NEW d, MemoryRecorded(m, m2, d.memory),
           NEW new \in BOOLEAN
    PROVE  \A a \in Word :
              Read(MemWith(IF new THEN m ELSE m2, d, new), a) = Read(IF new THEN m2 ELSE m, a)
<1> DEFINE x == IF new THEN m ELSE m2
           y == IF new THEN m2 ELSE m
<1>1. IsMemory(x)
    OBVIOUS
<1>2. CASE d.memory = <<>> /\ \A a \in Word : Read(m2, a) = Read(m, a)
  <2>1. \A a \in Word : Read(x, a) = Read(y, a)
    BY <1>2
  <2> HIDE DEF x, y
  <2>2. \A a \in Word : Read(MemWith(x, d, new), a) = Read(x, a)
    BY <1>1, <1>2, MemWithNone
  <2>3. \A a \in Word : Read(MemWith(x, d, new), a) = Read(y, a)
    BY <2>1, <2>2
  <2>4. QED
    BY <2>3 DEF x, y
<1>3. ASSUME NEW b \in Word, NEW n \in Nat, d.memory = <<MemoryChange(b, n, m, m2)>>,
             Keeps(m2, m, b, n)
      PROVE  \A a \in Word : Read(MemWith(x, d, new), a) = Read(y, a)
  <2>1. \A a \in Word \ Cells(b, n) : Read(x, a) = Read(y, a)
    BY <1>3 DEF Keeps
  <2> HIDE DEF x
  <2>2. \A a \in Word : Read(MemWith(x, d, new), a)
              = IF a \in Cells(b, n) THEN Read(y, a) ELSE Read(x, a)
    BY <1>1, <1>3, MemWithOne
  <2>3. QED
    BY <2>1, <2>2
<1>4. QED
    BY <1>2, <1>3 DEF MemoryRecorded

\* Writing a record over the nonzero bytes of a memory.
LEMMA MovedMemory ==
    ASSUME NEW m, IsMemory(m), NEW m2, IsMemory(m2), NEW d \in Delta, NEW new \in BOOLEAN,
           \A a \in Word : Read(MemWith(m, d, new), a) = Read(m2, a)
    PROVE  Nonzero(MemWith(Nonzero(m), d, new)) = Nonzero(m2)
<1>1. IsMemory(Nonzero(m)) /\ \A a : Read(Nonzero(m), a) = Read(m, a)
    BY NonzeroReads
<1>2. \A a \in Word : Read(MemWith(Nonzero(m), d, new), a) = Read(MemWith(m, d, new), a)
    BY <1>1, MemWithSame
<1>3. IsMemory(MemWith(Nonzero(m), d, new))
    BY <1>1, MemWithType
<1>4. QED
    BY <1>2, <1>3, SameNonzero

\* A state of the history.
State(pc, g, c, m) == [pc |-> pc, gpr |-> g, csr |-> c, mem |-> Nonzero(m)]

\* A record leads from one state to the other and back.
Leads(before, after, d) ==
    \A new \in BOOLEAN :
        Moved(IF new THEN before ELSE after, d, new) = IF new THEN after ELSE before

\* A delta that tells of both leads between the states.
LEMMA RecordLeads ==
    ASSUME NEW g \in [Reg -> Word], g[0] = 0, NEW g2 \in [Reg -> Word], g2[0] = 0,
           NEW m, IsMemory(m), NEW m2, IsMemory(m2), NEW c, NEW d \in Delta,
           RegistersRecorded(g, g2, d.registers), MemoryRecorded(m, m2, d.memory)
    PROVE  Leads(State(d.old_pc, g, c, m), State(d.new_pc, g2, c, m2), d)
<1> SUFFICES ASSUME NEW new \in BOOLEAN
             PROVE  Moved(IF new THEN State(d.old_pc, g, c, m) ELSE State(d.new_pc, g2, c, m2),
                          d, new)
                      = IF new THEN State(d.new_pc, g2, c, m2) ELSE State(d.old_pc, g, c, m)
    BY DEF Leads
<1> DEFINE h == IF new THEN g ELSE g2
           h2 == IF new THEN g2 ELSE g
           x == IF new THEN m ELSE m2
           y == IF new THEN m2 ELSE m
           pc == IF new THEN d.old_pc ELSE d.new_pc
           pc2 == IF new THEN d.new_pc ELSE d.old_pc
<1>1. GprWith(h, d, new) = h2
    BY RegistersLead
<1>2. \A a \in Word : Read(MemWith(x, d, new), a) = Read(y, a)
    BY MemoryLeads
<1>3. IsMemory(x) /\ IsMemory(y)
    OBVIOUS
<1>4. /\ (IF new THEN State(d.old_pc, g, c, m) ELSE State(d.new_pc, g2, c, m2))
            = State(pc, h, c, x)
      /\ (IF new THEN State(d.new_pc, g2, c, m2) ELSE State(d.old_pc, g, c, m))
            = State(pc2, h2, c, y)
    OBVIOUS
<1> HIDE DEF h, h2, x, y, pc
<1>5. Nonzero(MemWith(Nonzero(x), d, new)) = Nonzero(y)
    BY <1>2, <1>3, MovedMemory
<1>6. Moved(State(pc, h, c, x), d, new) = State(pc2, h2, c, y)
    BY <1>1, <1>5 DEF Moved, State
<1>7. QED
    BY <1>4, <1>6

\* An effect that records all it changes.
Recorded(e) ==
    /\ IsEffect(e) /\ e.csr = csr_
    /\ RegistersRecorded(gpr_, e.gpr, e.delta.registers)
    /\ MemoryRecorded(memory_, e.mem, e.delta.memory)

\* So does the delta that a step pushes.
LEMMA RecordLeadsBack ==
    ASSUME TypeOK, NEW e, Recorded(e)
    PROVE  LET d == StepDelta(program_counter_, e.pc, e.delta)
               after == State(e.pc, e.gpr, e.csr, e.mem)
           IN d \in Delta /\ Leads(present, after, d)
<1> DEFINE d == StepDelta(program_counter_, e.pc, e.delta)
<1>1. /\ e.pc \in Word /\ e.gpr \in [Reg -> Word] /\ e.gpr[0] = 0 /\ e.csr = csr_
      /\ IsMemory(e.mem) /\ e.delta \in Changes
      /\ RegistersRecorded(gpr_, e.gpr, e.delta.registers)
      /\ MemoryRecorded(memory_, e.mem, e.delta.memory)
    BY DEF Recorded, IsEffect
<1>2. /\ d.old_pc = program_counter_ /\ d.new_pc = e.pc
      /\ d.registers = e.delta.registers /\ d.memory = e.delta.memory
    BY DEF StepDelta
<1>3. d \in Delta
    BY <1>1 DEF StepDelta, Delta, Changes, TypeOK
<1>4. IsMemory(memory_) /\ gpr_ \in [Reg -> Word] /\ gpr_[0] = 0
    BY DEF TypeOK
<1> HIDE DEF d
<1>5. /\ present = State(d.old_pc, gpr_, csr_, memory_)
      /\ State(e.pc, e.gpr, e.csr, e.mem) = State(d.new_pc, e.gpr, csr_, e.mem)
    BY <1>1, <1>2 DEF present, State
<1>6. RegistersRecorded(gpr_, e.gpr, d.registers) /\ MemoryRecorded(memory_, e.mem, d.memory)
    BY <1>1, <1>2
<1>7. Leads(State(d.old_pc, gpr_, csr_, memory_), State(d.new_pc, e.gpr, csr_, e.mem), d)
    BY <1>1, <1>3, <1>4, <1>6, RecordLeads
<1>8. QED
    BY <1>3, <1>5, <1>7 DEF d
-----------------------------------------------------------------------------
\* Between two steps current_delta_ is empty: a step's record is its own.
LEMMA RecordFresh ==
    ASSUME current_delta_ = NoChanges, NEW R, NEW M, NEW r \in Seq(R), NEW m \in Seq(M)
    PROVE  Record(r, m) = [registers |-> r, memory |-> m]
<1>1. ASSUME NEW S, NEW s \in Seq(S) PROVE <<>> \o s = s
    OBVIOUS
<1>2. <<>> \o r = r /\ <<>> \o m = m
    BY <1>1
<1>3. QED
    BY <1>2 DEF Record, NoChanges

\* A register that is written is recorded, unless it keeps its value.
LEMMA ChangeRecorded ==
    ASSUME NEW g \in [Reg -> Word], NEW r \in Reg \ {0}, NEW v \in Word
    PROVE  RegistersRecorded(g, [g EXCEPT ![r] = v], RegisterChange(r, g[r], v))
<1>1. CASE g[r] = v
    BY <1>1 DEF RegistersRecorded, RegisterChange
<1>2. CASE g[r] # v
  <2> DEFINE g2 == [g EXCEPT ![r] = v]
  <2>1. g2[r] = v /\ g2 = [g EXCEPT ![r] = g2[r]]
    OBVIOUS
  <2>2. RegisterChange(r, g[r], v)
           = <<[reg |-> r, old_value |-> g[r], new_value |-> g2[r]]>>
    BY <1>2, <2>1 DEF RegisterChange
  <2> HIDE DEF g2
  <2>3. RegistersRecorded(g, g2, RegisterChange(r, g[r], v))
    BY <2>1, <2>2 DEF RegistersRecorded
  <2>4. QED
    BY <2>3 DEF g2
<1>3. QED
    BY <1>1, <1>2

\* Nothing needs to be recorded of what does not change.
LEMMA NothingRecorded ==
    ASSUME NEW g, NEW m
    PROVE  RegistersRecorded(g, g, <<>>) /\ MemoryRecorded(m, m, <<>>)
BY DEF RegistersRecorded, MemoryRecorded

\* The effect of an instruction of the base set is recorded.
LEMMA BaseRecorded ==
    ASSUME TypeOK, current_delta_ = NoChanges PROVE Recorded(BaseEffect(current_instruction_))
<1> DEFINE i == current_instruction_
           e == BaseEffect(i)
           g == IF SetControlSignals(i).reg_write
                THEN WriteGpr(gpr_, i.rd, WriteBackValue(i)) ELSE gpr_
           a == execution_result_(i)
           w == <<1, 2, 4, 8>>[i.funct3 + 1]
           m == MemStore(i.funct3, memory_, a, ReadGpr(i.rs2))
           stored == MemoryChange(a, w, memory_, m)
<1>1. i.rd \in Reg /\ i.rs2 \in Reg /\ i.funct3 \in 0 .. 7
    BY FetchTypes
<1>2. a \in Word /\ a \in Int
  <2>1. a \in Word
    BY ResultTypes
  <2>2. QED
    BY <2>1, SizeAssumption DEF Word
<1>3. IsEffect(e)
    BY BaseEffectType
<1>4. CASE i.opcode = "STORE" /\ i.funct3 \in 0 .. 3
  <2> DEFINE list == IF stored.old_bytes # stored.new_bytes THEN <<stored>> ELSE <<>>
  <2>1. w \in Nat
    BY <1>4
  <2>2. list \in Seq({stored}) /\ <<>> \in Seq(Reg)
    <3> HIDE DEF stored
    <3>1. <<stored>> \in Seq({stored}) /\ <<>> \in Seq({stored}) /\ <<>> \in Seq(Reg)
      OBVIOUS
    <3>2. QED
      BY <3>1
  <2>3. e = Effect(NewPc(i), gpr_, csr_, m, Record(<<>>, list))
    BY <1>4 DEF BaseEffect
  <2>4. Record(<<>>, list) = [registers |-> <<>>, memory |-> list]
    <3> HIDE DEF list, stored
    <3>1. QED
      BY <2>2, RecordFresh
  <2>5. Keeps(m, memory_, a, w)
    BY <1>2, <1>4, StoreKeeps
  <2>6. MemoryRecorded(memory_, m, list)
    <3> HIDE DEF m, w, a
    <3>1. CASE stored.old_bytes # stored.new_bytes
      BY <1>2, <2>1, <2>5, <3>1 DEF MemoryRecorded
    <3>2. CASE stored.old_bytes = stored.new_bytes
      <4>1. ASSUME NEW k \in 1 .. w PROVE Read(memory_, a + k - 1) = Read(m, a + k - 1)
        <5>1. Bytes(memory_, a, w) = Bytes(m, a, w)
          BY <3>2 DEF MemoryChange
        <5>2. Bytes(memory_, a, w)[k] = Bytes(m, a, w)[k]
          BY <5>1
        <5>3. QED
          BY <5>2 DEF Bytes
      <4>2. \A b \in Word : ToWord(b) = b
        BY SizeAssumption DEF ToWord, Word
      <4>3. ASSUME NEW b \in Cells(a, w) PROVE Read(memory_, b) = Read(m, b)
        <5>1. PICK k \in 1 .. w : b = ToWord(a + k - 1)
          BY DEF Cells
        <5>2. a + k - 1 \in Int
          BY <1>2, <2>1
        <5>3. b \in Word /\ ToWord(b) = ToWord(a + k - 1)
          BY <4>2, <5>1, <5>2, ToWordType
        <5>4. \A x : Read(x, b) = Read(x, a + k - 1)
          BY <5>3 DEF Read
        <5>5. QED
          BY <4>1, <5>4
      <4>4. \A b \in Word : Read(m, b) = Read(memory_, b)
        BY <2>5, <4>3 DEF Keeps
      <4>5. QED
        BY <3>2, <4>4 DEF MemoryRecorded
    <3>3. QED
      BY <3>1, <3>2
  <2> HIDE DEF list, m
  <2>7. /\ e.csr = csr_ /\ e.gpr = gpr_ /\ e.mem = m
        /\ e.delta.registers = <<>> /\ e.delta.memory = list
    BY <2>3, <2>4 DEF Effect
  <2>8. QED
    BY <1>3, <2>6, <2>7, NothingRecorded DEF Recorded
<1>5. CASE ~(i.opcode = "STORE" /\ i.funct3 \in 0 .. 3)
  <2> DEFINE list == RegisterChange(i.rd, ReadGpr(i.rd), g[i.rd])
  <2>1. e = Effect(NewPc(i), g, csr_, memory_, Record(list, <<>>))
    BY <1>5 DEF BaseEffect
  <2>2. g \in [Reg -> Word] /\ g[0] = 0
    BY <1>1, WriteGprType, WriteBackType DEF TypeOK
  <2>3. list \in Seq(RegisterRecord) /\ <<>> \in Seq(Reg)
    <3> HIDE DEF g
    <3>1. g[i.rd] \in Word /\ ReadGpr(i.rd) \in Word
      BY <1>1, <2>2, ReadGprType
    <3>2. list \in Seq(RegisterRecord)
      BY <1>1, <3>1, RegisterChangeType
    <3>3. QED
      BY <3>2
  <2>4. Record(list, <<>>) = [registers |-> list, memory |-> <<>>]
    <3> HIDE DEF list
    <3>1. QED
      BY <2>3, RecordFresh
  <2>5. RegistersRecorded(gpr_, g, list)
    <3>1. CASE SetControlSignals(i).reg_write /\ i.rd # 0
      <4>1. gpr_ \in [Reg -> Word] /\ i.rd \in Reg \ {0} /\ ReadGpr(i.rd) = gpr_[i.rd]
        BY <1>1, <3>1 DEF TypeOK, ReadGpr
      <4> DEFINE v == WriteBackValue(i)
      <4>2. v \in Word
        BY <3>1, WriteBackType
      <4>3. g = [gpr_ EXCEPT ![i.rd] = v]
        BY <3>1 DEF WriteGpr
      <4> HIDE DEF v, g
      <4>4. g[i.rd] = v
        BY <4>1, <4>3
      <4>5. QED
        BY <4>1, <4>2, <4>3, <4>4, ChangeRecorded
    <3>2. CASE ~(SetControlSignals(i).reg_write /\ i.rd # 0)
      <4>1. g = gpr_
        BY <3>2 DEF WriteGpr
      <4>2. ReadGpr(i.rd) = gpr_[i.rd]
        BY DEF ReadGpr, TypeOK
      <4> HIDE DEF g
      <4>3. list = <<>>
        BY <4>1, <4>2 DEF RegisterChange
      <4>4. QED
        BY <4>1, <4>3, NothingRecorded
    <3>3. QED
      BY <3>1, <3>2
  <2> HIDE DEF list, g
  <2>6. /\ e.csr = csr_ /\ e.gpr = g /\ e.mem = memory_
        /\ e.delta.registers = list /\ e.delta.memory = <<>>
    BY <2>1, <2>4 DEF Effect
  <2>7. QED
    BY <1>3, <2>5, <2>6, NothingRecorded DEF Recorded
<1>6. QED
    BY <1>4, <1>5

\* So is that of a read from standard input.
LEMMA InputRecorded ==
    ASSUME TypeOK, current_delta_ = NoChanges, NEW input \in Inputs
    PROVE  Recorded(ReadInput(input))
<1> DEFINE address == gpr_[A1]
           length == gpr_[A2]
           byte(k) == IF k <= Len(input) THEN input[k]
                      ELSE IF k = Len(input) + 1 THEN 0
                           ELSE Read(memory_, address + k - 1)
           cells == {ToWord(address + k - 1) : k \in 1 .. length}
           m == [a \in DOMAIN memory_ \cup cells |->
                   IF a \in cells THEN byte(ToWord(a - address) + 1) ELSE memory_[a]]
           count == IF length < Len(input) THEN length ELSE Len(input)
           g == [gpr_ EXCEPT ![A0] = count]
           registers == RegisterChange(A0, gpr_[A0], count)
           change == MemoryChange(address, length, memory_, m)
           e == ReadInput(input)
<1>1. /\ address \in Word /\ length \in Nat /\ length \in Word
      /\ A0 \in Reg \ {0} /\ gpr_ \in [Reg -> Word] /\ gpr_[A0] \in Word
  <2>1. A0 \in Reg \ {0} /\ A1 \in Reg /\ A2 \in Reg
    BY SetupAssumption
  <2>2. QED
    BY <2>1, SizeAssumption DEF TypeOK, Word
<1>2. count \in Word
  <2>1. Len(input) \in Nat
    BY SetupAssumption
  <2>2. QED
    BY <1>1, <2>1, SizeAssumption DEF Word
<1>3. IsEffect(e)
    BY ReadInputType
<1>4. RegistersRecorded(gpr_, g, registers)
  <2> HIDE DEF count
  <2>1. QED
    BY <1>1, <1>2, ChangeRecorded
<1>5. MemoryRecorded(memory_, m, <<change>>)
  <2>1. cells = Cells(address, length)
    BY DEF Cells
  <2>2. ASSUME NEW b \in Word \ cells PROVE Read(m, b) = Read(memory_, b)
    <3>1. ToWord(b) = b
      BY SizeAssumption DEF ToWord, Word
    <3>2. b \in DOMAIN m <=> b \in DOMAIN memory_
      OBVIOUS
    <3>3. b \in DOMAIN memory_ => m[b] = memory_[b]
      OBVIOUS
    <3> HIDE DEF m
    <3>4. QED
      BY <3>1, <3>2, <3>3 DEF Read
  <2> HIDE DEF m, address, length, cells
  <2>3. Keeps(m, memory_, address, length)
    BY <2>1, <2>2 DEF Keeps
  <2>4. QED
    BY <1>1, <2>3 DEF MemoryRecorded
<1>6. Record(registers, <<change>>) = [registers |-> registers, memory |-> <<change>>]
  <2>1. registers \in Seq(RegisterRecord)
    BY <1>1, <1>2, RegisterChangeType
  <2> HIDE DEF registers, change
  <2>2. <<change>> \in Seq({change})
    OBVIOUS
  <2>3. QED
    BY <2>1, <2>2, RecordFresh
<1>7. e = Effect(NewPc(current_instruction_), g, csr_, m, Record(registers, <<change>>))
    BY DEF ReadInput
<1> HIDE DEF g, m, registers, change, e
<1>8. /\ e.csr = csr_ /\ e.gpr = g /\ e.mem = m
      /\ e.delta.registers = registers /\ e.delta.memory = <<change>>
    BY <1>6, <1>7 DEF Effect
<1>9. QED
    BY <1>3, <1>4, <1>5, <1>8 DEF Recorded, e

\* And that of every system call.
LEMMA SyscallRecorded ==
    ASSUME TypeOK, current_delta_ = NoChanges, NEW input \in Inputs
    PROVE  Recorded(SyscallEffect(input))
<1> DEFINE pc == NewPc(current_instruction_)
           nothing == Effect(pc, gpr_, csr_, memory_, Record(<<>>, <<>>))
           e == SyscallEffect(input)
<1>1. IsEffect(e)
    BY SyscallEffectType
<1>2. <<>> \in Seq(Reg)
    OBVIOUS
<1>3. Record(<<>>, <<>>) = [registers |-> <<>>, memory |-> <<>>]
    BY <1>2, RecordFresh
<1>4. CASE gpr_[A7] = 63 /\ gpr_[A0] = 0
    BY <1>4, InputRecorded DEF SyscallEffect
<1>5. CASE gpr_[A7] = 64 /\ gpr_[A0] = 1
  <2> DEFINE v == gpr_[A2]
             g == [gpr_ EXCEPT ![A0] = v]
             list == RegisterChange(A0, gpr_[A0], v)
  <2>1. gpr_ \in [Reg -> Word] /\ A0 \in Reg \ {0} /\ v \in Word /\ gpr_[A0] \in Word
    BY SetupAssumption DEF TypeOK
  <2>2. RegistersRecorded(gpr_, g, list)
    BY <2>1, ChangeRecorded
  <2>3. Record(list, <<>>) = [registers |-> list, memory |-> <<>>]
    <3>1. list \in Seq(RegisterRecord)
      BY <2>1, RegisterChangeType
    <3> HIDE DEF list
    <3>2. QED
      BY <1>2, <3>1, RecordFresh
  <2>4. e = [nothing EXCEPT !.gpr = g, !.delta = Record(list, <<>>)]
    BY <1>5 DEF SyscallEffect
  <2> HIDE DEF g, list, e
  <2>5. /\ e.csr = csr_ /\ e.gpr = g /\ e.mem = memory_
        /\ e.delta.registers = list /\ e.delta.memory = <<>>
    BY <2>3, <2>4 DEF Effect
  <2>6. QED
    BY <1>1, <2>2, <2>5, NothingRecorded DEF Recorded, e
<1>6. CASE ~(gpr_[A7] = 63 /\ gpr_[A0] = 0) /\ ~(gpr_[A7] = 64 /\ gpr_[A0] = 1)
  <2>1. e = nothing
    BY <1>6 DEF SyscallEffect
  <2>2. /\ e.csr = csr_ /\ e.gpr = gpr_ /\ e.mem = memory_
        /\ e.delta.registers = <<>> /\ e.delta.memory = <<>>
    BY <1>3, <2>1 DEF Effect
  <2>3. QED
    BY <1>1, <2>2, NothingRecorded DEF Recorded
<1>7. QED
    BY <1>4, <1>5, <1>6

\* The csr operations.
IsCsr(i) == i.opcode = "SYSTEM" /\ i.funct3 \notin {0, 4}

\* What any other instruction does is recorded.
LEMMA EffectRecorded ==
    ASSUME TypeOK, current_delta_ = NoChanges, ~IsCsr(current_instruction_),
           NEW input \in Inputs
    PROVE  Recorded(EffectOf(current_instruction_, input))
BY BaseRecorded, SyscallRecorded DEF EffectOf, IsCsr
-----------------------------------------------------------------------------
\* Programs without csr operations: those that the user loads and only steps,
\* undoes, redoes and resets.
NoCsr(t) == \A a \in DOMAIN t : ~IsCsr(t[a])

CsrFree == \A p \in Setups : p.session \cap {"run", "load", "modify"} = {} => NoCsr(p.text)

\* Both stacks lead forth and back.
HistoryInv ==
    Tracked => /\ NoCsr(text)
               /\ Retraceable(present, undo_stack_, FALSE)
               /\ Retraceable(present, redo_stack_, TRUE)

\* The past, and the past after the stack has changed.
LEMMA PastReversed ==
    ASSUME NEW D
    PROVE  /\ undo_stack_ \in Seq(D) =>
                 past = SX!Reverse(Replayed(present, undo_stack_, FALSE))
           /\ undo_stack_' \in Seq(D) =>
                 past' = SX!Reverse(Replayed(present', undo_stack_', FALSE))
<1>1. \A s : \A stack \in Seq(D) :
         LET n == Len(stack)
             p == Replayed(s, stack, FALSE)
         IN [k \in 1 .. n |-> p[n - k + 1]] = SX!Reverse(p)
    BY ReplayReversed
<1>2. QED
    BY <1>1 DEF past

\* What a record that leads between two states means for undo, and for redo.
LEMMA LeadsBoth ==
    ASSUME NEW s, NEW t, NEW d, Leads(s, t, d)
    PROVE  Moved(t, d, FALSE) = s /\ Moved(s, d, TRUE) = t
BY DEF Leads

\* RetracePush for the undo stack,
LEMMA RetraceUndo ==
    ASSUME NEW s, NEW D, NEW stack \in Seq(D), NEW d \in D
    PROVE  Retraceable(s, Append(stack, d), FALSE)
               <=> /\ Moved(Moved(s, d, FALSE), d, TRUE) = s
                   /\ Retraceable(Moved(s, d, FALSE), stack, FALSE)
<1>1. \A new \in BOOLEAN :
         Retraceable(s, Append(stack, d), new)
               <=> /\ Moved(Moved(s, d, new), d, ~new) = s
                   /\ Retraceable(Moved(s, d, new), stack, new)
    BY RetracePush
<1>2. QED
    BY <1>1

\* and for the redo stack.
LEMMA RetraceRedo ==
    ASSUME NEW s, NEW D, NEW stack \in Seq(D), NEW d \in D
    PROVE  Retraceable(s, Append(stack, d), TRUE)
               <=> /\ Moved(Moved(s, d, TRUE), d, FALSE) = s
                   /\ Retraceable(Moved(s, d, TRUE), stack, TRUE)
<1>1. \A new \in BOOLEAN :
         Retraceable(s, Append(stack, d), new)
               <=> /\ Moved(Moved(s, d, new), d, ~new) = s
                   /\ Retraceable(Moved(s, d, new), stack, new)
    BY RetracePush
<1>2. QED
    BY <1>1

\* A step is added to the past, and can be undone and redone.
LEMMA StepHistory ==
    ASSUME TypeOK, current_delta_ = NoChanges, ~IsCsr(current_instruction_),
           NEW input \in Inputs,
           Instruction(EffectOf(current_instruction_, input)),
           Push(EffectOf(current_instruction_, input)),
           Retraceable(present, undo_stack_, FALSE)
    PROVE  /\ H!Do
           /\ Retraceable(present', undo_stack_', FALSE)
           /\ Retraceable(present', redo_stack_', TRUE)
<1> DEFINE e == EffectOf(current_instruction_, input)
           d == StepDelta(program_counter_, e.pc, e.delta)
           after == State(e.pc, e.gpr, e.csr, e.mem)
<1>1. Recorded(e)
    BY EffectRecorded
<1>2. present' = after
    BY DEF present, State, Instruction
<1>3. undo_stack_' = Append(undo_stack_, d) /\ redo_stack_' = <<>>
    BY DEF Push
<1> HIDE DEF e
<1>4. d \in Delta /\ Leads(present, after, d)
    BY <1>1, RecordLeadsBack
<1> HIDE DEF d, after
<1>5. Moved(after, d, FALSE) = present /\ Moved(present, d, TRUE) = after
    BY <1>4, LeadsBoth
<1>6. undo_stack_ \in Seq(Delta)
    BY DEF TypeOK
<1>7. Retraceable(after, Append(undo_stack_, d), FALSE)
    BY <1>4, <1>5, <1>6, RetraceUndo
<1>8. /\ Replayed(after, <<>>, TRUE) = <<>>
      /\ Retraceable(after, <<>>, TRUE)
    BY NoHistory
<1>9. SX!Reverse(Replayed(after, Append(undo_stack_, d), FALSE))
        = Append(SX!Reverse(Replayed(present, undo_stack_, FALSE)), present)
    BY <1>4, <1>5, <1>6, PastOfPush
<1>10. past' = Append(past, present)
  <2>1. undo_stack_' \in Seq(Delta)
    BY <1>3, <1>4, <1>6
  <2>2. QED
    BY <1>2, <1>3, <1>6, <1>9, <2>1, PastReversed
<1>11. future' = <<>>
    BY <1>2, <1>3, <1>8 DEF future
<1>12. QED
    BY <1>2, <1>3, <1>7, <1>8, <1>10, <1>11 DEF H!Do

\* Moving by a record reads and writes the memory's nonzero bytes.
LEMMA MovedPresent ==
    ASSUME TypeOK, NEW d \in Delta, NEW new \in BOOLEAN
    PROVE  Moved(present, d, new)
             = State(IF new THEN d.new_pc ELSE d.old_pc, GprWith(gpr_, d, new), csr_,
                     MemWith(memory_, d, new))
<1>1. IsMemory(memory_)
    BY DEF TypeOK
<1>2. IsMemory(Nonzero(memory_)) /\ \A a : Read(Nonzero(memory_), a) = Read(memory_, a)
    BY <1>1, NonzeroReads
<1>3. \A a \in Word :
        Read(MemWith(Nonzero(memory_), d, new), a) = Read(MemWith(memory_, d, new), a)
    BY <1>1, <1>2, MemWithSame
<1>4. IsMemory(MemWith(Nonzero(memory_), d, new)) /\ IsMemory(MemWith(memory_, d, new))
    BY <1>1, <1>2, MemWithType
<1>5. Nonzero(MemWith(Nonzero(memory_), d, new)) = Nonzero(MemWith(memory_, d, new))
    BY <1>3, <1>4, SameNonzero
<1>6. QED
    BY <1>5 DEF Moved, State, present

\* Undo does what the undo of a history does, and keeps it retraceable.
LEMMA UndoHistory ==
    ASSUME TypeOK, Undo, Retraceable(present, undo_stack_, FALSE),
           Retraceable(present, redo_stack_, TRUE)
    PROVE  /\ H!Undo
           /\ Retraceable(present', undo_stack_', FALSE)
           /\ Retraceable(present', redo_stack_', TRUE)
<1> DEFINE s == present
           d == Top(undo_stack_)
           t == Moved(s, d, FALSE)
           u == Pop(undo_stack_)
           r == redo_stack_
<1>1. /\ undo_stack_ \in Seq(Delta) /\ undo_stack_ # <<>> /\ r \in Seq(Delta)
      /\ redo_stack_' = Append(r, d) /\ undo_stack_' = u
    BY DEF TypeOK, Undo
<1>2. d \in Delta /\ u \in Seq(Delta) /\ undo_stack_ = Append(u, d)
    BY <1>1, StackFacts, PushTop
<1>3. present' = t
  <2>1. present' = State(d.old_pc, GprWith(gpr_, d, FALSE), csr_, MemWith(memory_, d, FALSE))
    BY DEF Undo, present, State
  <2>2. \A new \in BOOLEAN : Moved(present, d, new)
             = State(IF new THEN d.new_pc ELSE d.old_pc, GprWith(gpr_, d, new), csr_,
                     MemWith(memory_, d, new))
    BY <1>2, MovedPresent
  <2> HIDE DEF d
  <2>3. QED
    BY <2>1, <2>2
<1> HIDE DEF d, u
<1>4. Moved(t, d, TRUE) = s /\ Retraceable(t, u, FALSE)
    BY <1>2, RetraceUndo
<1>5. Retraceable(t, Append(r, d), TRUE)
    BY <1>1, <1>2, <1>4, RetraceRedo
<1>6. past = Append(SX!Reverse(Replayed(t, u, FALSE)), t)
    BY <1>1, <1>2, PastReversed, PastOfPush
<1>7. past' = SX!Reverse(Replayed(t, u, FALSE))
    BY <1>1, <1>2, <1>3, PastReversed
<1>8. future' = <<s>> \o future
  <2>1. Replayed(t, Append(r, d), TRUE) = <<s>> \o Replayed(s, r, TRUE)
    BY <1>1, <1>2, <1>4, FutureOfPush
  <2>2. future' = Replayed(t, Append(r, d), TRUE)
    BY <1>1, <1>3 DEF future
  <2>3. QED
    BY <2>1, <2>2 DEF future
<1>9. past # <<>> /\ past[Len(past)] = t /\ SubSeq(past, 1, Len(past) - 1) = past'
    BY <1>2, <1>6, <1>7, PastEnds
<1>10. QED
    BY <1>1, <1>3, <1>4, <1>5, <1>8, <1>9 DEF H!Undo

\* And redo what the redo of a history does.
LEMMA RedoHistory ==
    ASSUME TypeOK, Redo, Retraceable(present, undo_stack_, FALSE),
           Retraceable(present, redo_stack_, TRUE)
    PROVE  /\ H!Redo
           /\ Retraceable(present', undo_stack_', FALSE)
           /\ Retraceable(present', redo_stack_', TRUE)
<1> DEFINE s == present
           d == Top(redo_stack_)
           t == Moved(s, d, TRUE)
           r == Pop(redo_stack_)
           u == undo_stack_
<1>1. /\ redo_stack_ \in Seq(Delta) /\ redo_stack_ # <<>> /\ u \in Seq(Delta)
      /\ undo_stack_' = Append(u, d) /\ redo_stack_' = r
    BY DEF TypeOK, Redo
<1>2. d \in Delta /\ r \in Seq(Delta) /\ redo_stack_ = Append(r, d)
    BY <1>1, StackFacts, PushTop
<1>3. present' = t
  <2>1. present' = State(d.new_pc, GprWith(gpr_, d, TRUE), csr_, MemWith(memory_, d, TRUE))
    BY DEF Redo, present, State
  <2>2. \A new \in BOOLEAN : Moved(present, d, new)
             = State(IF new THEN d.new_pc ELSE d.old_pc, GprWith(gpr_, d, new), csr_,
                     MemWith(memory_, d, new))
    BY <1>2, MovedPresent
  <2> HIDE DEF d
  <2>3. QED
    BY <2>1, <2>2
<1> HIDE DEF d, r
<1>4. Moved(t, d, FALSE) = s /\ Retraceable(t, r, TRUE)
    BY <1>2, RetraceRedo
<1>5. Retraceable(t, Append(u, d), FALSE)
    BY <1>1, <1>2, <1>4, RetraceUndo
<1>6. future = <<t>> \o Replayed(t, r, TRUE)
    BY <1>2, FutureOfPush DEF future
<1>7. future' = Replayed(t, r, TRUE)
    BY <1>1, <1>3 DEF future
<1>8. past' = Append(past, s)
  <2>1. SX!Reverse(Replayed(t, Append(u, d), FALSE))
          = Append(SX!Reverse(Replayed(s, u, FALSE)), s)
    BY <1>1, <1>2, <1>4, PastOfPush
  <2>2. Append(u, d) \in Seq(Delta)
    BY <1>1, <1>2
  <2>3. past' = SX!Reverse(Replayed(t, Append(u, d), FALSE))
    BY <1>1, <1>3, <2>2, PastReversed
  <2>4. QED
    BY <1>1, <2>1, <2>3, PastReversed
<1>9. future # <<>> /\ Head(future) = t /\ Tail(future) = future'
    BY <1>2, <1>6, <1>7, FutureEnds
<1>10. QED
    BY <1>1, <1>3, <1>4, <1>5, <1>8, <1>9 DEF H!Redo

\* A reset leaves an empty history and an empty memory.
LEMMA ResetHistory ==
    ASSUME Reset
    PROVE  /\ H!Forget
           /\ NoCsr(text')
           /\ Retraceable(present', undo_stack_', FALSE)
           /\ Retraceable(present', redo_stack_', TRUE)
<1>1. undo_stack_' = <<>> /\ redo_stack_' = <<>> /\ text' = [a \in {} |-> ZeroInstr]
    BY DEF Reset
<1>2. \A s, new : /\ Replayed(s, <<>>, new) = <<>>
                  /\ SX!Reverse(Replayed(s, <<>>, FALSE)) = <<>>
                  /\ Retraceable(s, <<>>, new)
    BY NoHistory
<1>3. past' = <<>> /\ future' = <<>>
  <2>1. undo_stack_' \in Seq(Delta)
    BY <1>1
  <2>2. QED
    BY <1>1, <1>2, <2>1, PastReversed DEF future
<1>4. NoCsr(text')
    BY <1>1 DEF NoCsr
<1>5. QED
    BY <1>1, <1>2, <1>3, <1>4 DEF H!Forget

\* A loaded program has no history yet.
LEMMA InitHistory == CsrFree /\ Init => HistoryInv
<1> SUFFICES ASSUME CsrFree, Init, Tracked
             PROVE  /\ NoCsr(text)
                    /\ Retraceable(present, undo_stack_, FALSE)
                    /\ Retraceable(present, redo_stack_, TRUE)
    BY DEF HistoryInv
<1>1. NoCsr(text)
    BY DEF Init, CsrFree, Tracked
<1>2. \A s, new : Retraceable(s, <<>>, new)
    BY NoHistory
<1>3. QED
    BY <1>1, <1>2 DEF Init

\* Every step of a tracked session is a step of the history.
LEMMA NextHistory ==
    ASSUME TypeOK, Connected, HistoryInv, [Next]_vars
    PROVE  HistoryInv' /\ (Tracked => [H!Next]_(H!historyVars))
<1>1. session' = session
    BY DEF Next, Step, DebugRun, Run, Instruction, Undo, Redo, Exit, Reset, LoadProgram,
       AddBreakpoint, RemoveBreakpoint, ModifyRegister, ModifyMemory, vars
<1>2. SUFFICES ASSUME Tracked
               PROVE  /\ NoCsr(text')
                      /\ Retraceable(present', undo_stack_', FALSE)
                      /\ Retraceable(present', redo_stack_', TRUE)
                      /\ [H!Next]_(H!historyVars)
    BY <1>1 DEF Tracked, HistoryInv
<1>3. /\ NoCsr(text) /\ Retraceable(present, undo_stack_, FALSE)
      /\ Retraceable(present, redo_stack_, TRUE) /\ current_delta_ = NoChanges
    BY <1>2 DEF HistoryInv, Connected
<1>4. ~Run /\ ~LoadProgram /\ ~ModifyRegister /\ ~ModifyMemory
    BY <1>2 DEF Tracked, Run, LoadProgram, ModifyRegister, ModifyMemory
<1>5. ~IsCsr(current_instruction_)
    BY <1>3 DEF NoCsr, IsCsr, current_instruction_, ReadInstr, ZeroInstr
<1>6. CASE Step \/ DebugRun
  <2>1. PICK input \in Inputs : /\ Instruction(EffectOf(current_instruction_, input))
                               /\ Push(EffectOf(current_instruction_, input))
    BY <1>6 DEF Step, DebugRun
  <2>2. text' = text
    BY <2>1 DEF Instruction, program
  <2>3. QED
    BY <1>3, <1>5, <2>1, <2>2, StepHistory DEF H!Next
<1>7. CASE Undo
  <2>1. text' = text
    BY <1>7 DEF Undo, program
  <2>2. QED
    BY <1>3, <1>7, <2>1, UndoHistory DEF H!Next
<1>8. CASE Redo
  <2>1. text' = text
    BY <1>8 DEF Redo, program
  <2>2. QED
    BY <1>3, <1>8, <2>1, RedoHistory DEF H!Next
<1>9. CASE Reset
    BY <1>9, ResetHistory DEF H!Next
<1>10. CASE Exit \/ AddBreakpoint \/ RemoveBreakpoint \/ UNCHANGED vars
  <2>1. UNCHANGED <<text, machine, undo_stack_, redo_stack_>>
    BY <1>10 DEF Exit, AddBreakpoint, RemoveBreakpoint, vars, program
  <2>2. UNCHANGED present
    BY <2>1 DEF present, machine
  <2>3. UNCHANGED <<past, present, future>>
    BY <2>1, <2>2 DEF past, future
  <2>4. QED
    BY <1>3, <2>1, <2>2, <2>3 DEF H!historyVars
<1>11. QED
    BY <1>4, <1>6, <1>7, <1>8, <1>9, <1>10 DEF Next

\* Undo and redo walk a history, for every program without csr operations and
\* every session that steps, undoes, redoes and resets.
THEOREM HistoryKept == CsrFree /\ Spec => KeepsHistory
<1>1. TypeOK /\ Connected /\ HistoryInv /\ [Next]_vars
          => HistoryInv' /\ [Tracked => [H!Next]_(H!historyVars)]_vars
    BY NextHistory
<1>2. QED
    BY <1>1, InitHistory, TypeCorrect, AlwaysConnected, PTL DEF Spec, KeepsHistory
=============================================================================
