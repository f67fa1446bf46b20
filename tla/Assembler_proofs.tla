-------------------------- MODULE Assembler_proofs --------------------------
(***************************************************************************)
(* Proofs about the assembler and the loader, for every set of sources:    *)
(* types, that every reference leads to its label, that every word decodes *)
(* to what was written, that la, li and loads of a label reach what they   *)
(* name, and that breakpoints find their instruction.                      *)
(***************************************************************************)
EXTENDS Assembler, CodeGenerator_proofs, SequenceTheorems

\* The mnemonics the pseudo-instructions are made of.
LEMMA Mnemonics == {"addi", "auipc", "lui", "lb", "lh", "lw", "ld"} \subseteq Mnemonic
BY DEF Mnemonic, I_type_instruction_encoding_map, OtherEncodings

\* What the fields of the current line are, by its kind.
LEMMA LineFields ==
    ASSUME source \in Seq(Lines), pos \in Nat \ {0}, Reading
    PROVE  /\ pos \in 1 .. Len(source)
           /\ Line \in Lines
           /\ Line.kind = "section" => Line.name \in {"data", "text", "bss"}
           /\ Line.kind = "label" => Line.label \in Labels
           /\ Line.kind = "items" => Line.width \in {1, 2, 4, 8} /\ Line.count \in Nat
           /\ Line.kind = "op" => /\ Line.opcode \in Mnemonic /\ Line.imm \in Int
                                  /\ Line.rd \in Reg /\ Line.rs1 \in Reg /\ Line.rs2 \in Reg
           /\ Line.kind = "ref" => /\ Line.opcode \in Mnemonic /\ Line.label \in Labels
                                   /\ FormatOf(Line.opcode) \in {"B", "J"}
                                   /\ Line.rd \in Reg /\ Line.rs1 \in Reg /\ Line.rs2 \in Reg
           /\ Line.kind = "address" => /\ Line.opcode \in Mnemonic /\ Line.label \in Labels
                                       /\ Line.opcode \in {"addi", "lb", "lh", "lw", "ld"}
                                       /\ Line.rd \in Reg
           /\ Line.kind = "li" => Line.rd \in Reg /\ Line.imm \in Int
<1>1. pos \in 1 .. Len(source)
    BY DEF Reading
<1>2. Line \in Lines
    BY <1>1 DEF Line
<1>. DEFINE x == Line
<1>3. x \in Lines
    BY <1>2
<1>. HIDE DEF x
<1>4. x.kind = "section" => x.name \in {"data", "text", "bss"}
    BY <1>3 DEF Lines
<1>5. x.kind = "label" => x.label \in Labels
    BY <1>3 DEF Lines
<1>6. x.kind = "items" => x.width \in {1, 2, 4, 8} /\ x.count \in Nat
    BY <1>3 DEF Lines
<1>7. x.kind = "op" => /\ x.opcode \in Mnemonic /\ x.imm \in Int
                       /\ x.rd \in Reg /\ x.rs1 \in Reg /\ x.rs2 \in Reg
    BY <1>3 DEF Lines
<1>8. x.kind = "ref" => /\ x.opcode \in Mnemonic /\ x.label \in Labels
                        /\ FormatOf(x.opcode) \in {"B", "J"}
                        /\ x.rd \in Reg /\ x.rs1 \in Reg /\ x.rs2 \in Reg
    BY <1>3 DEF Lines, LabelReference
<1>9. x.kind = "address" => /\ x.opcode \in Mnemonic /\ x.label \in Labels
                            /\ x.opcode \in {"addi", "lb", "lh", "lw", "ld"}
                            /\ x.rd \in Reg
    BY <1>3, Mnemonics DEF Lines
<1>10. x.kind = "li" => x.rd \in Reg /\ x.imm \in Int
    BY <1>3 DEF Lines
<1> QED BY <1>1, <1>2, <1>4, <1>5, <1>6, <1>7, <1>8, <1>9, <1>10 DEF x

\* What a list of elements of T becomes when more are appended to it.
LEMMA Concat ==
    ASSUME NEW T, NEW n \in Nat, NEW f \in [1 .. n -> T], NEW u \in Seq(T)
    PROVE  /\ f \o u \in [1 .. (n + Len(u)) -> T]
           /\ \A j \in 1 .. n : (f \o u)[j] = f[j]
           /\ \A j \in (n + 1) .. (n + Len(u)) : (f \o u)[j] = u[j - n]
<1>1. f \in Seq(T) /\ Len(f) = n
    OBVIOUS
<1>2. f \o u \in Seq(T) /\ Len(f \o u) = n + Len(u)
    BY <1>1, ConcatProperties
<1>3. \A j \in 1 .. (n + Len(u)) : (f \o u)[j] = IF j =< n THEN f[j] ELSE u[j - n]
    BY <1>1, ConcatProperties
<1>4. f \o u \in [1 .. (n + Len(u)) -> T]
    BY <1>2, LenProperties
<1>5. Len(u) \in Nat
    BY LenProperties
<1>6. \A j \in 1 .. n : (f \o u)[j] = f[j]
    BY <1>3, <1>5
<1>7. \A j \in (n + 1) .. (n + Len(u)) : (f \o u)[j] = u[j - n]
    BY <1>3, <1>5
<1> QED BY <1>4, <1>6, <1>7

\* The same of line numbers.
LEMMA ConcatNat ==
    ASSUME NEW n \in Nat, NEW f \in [1 .. n -> Nat], NEW u \in Seq(Nat)
    PROVE  /\ f \o u \in [1 .. (n + Len(u)) -> Nat]
           /\ \A j \in 1 .. n : (f \o u)[j] = f[j]
           /\ \A j \in (n + 1) .. (n + Len(u)) : (f \o u)[j] = u[j - n]
<1>1. f \in Seq(Nat) /\ Len(f) = n
    OBVIOUS
<1>2. f \o u \in Seq(Nat) /\ Len(f \o u) = n + Len(u)
    BY <1>1, ConcatProperties
<1>3. \A j \in 1 .. (n + Len(u)) : (f \o u)[j] = IF j =< n THEN f[j] ELSE u[j - n]
    BY <1>1, ConcatProperties
<1>4. f \o u \in [1 .. (n + Len(u)) -> Nat]
    BY <1>2, LenProperties
<1>5. Len(u) \in Nat
    BY LenProperties
<1>6. \A j \in 1 .. n : (f \o u)[j] = f[j]
    BY <1>3, <1>5
<1>7. \A j \in (n + 1) .. (n + Len(u)) : (f \o u)[j] = u[j - n]
    BY <1>3, <1>5
<1> QED BY <1>4, <1>6, <1>7

\* Alignment goes up.
LEMMA AlignType ==
    ASSUME NEW n \in Nat, NEW width \in {1, 2, 4, 8} PROVE Align(n, width) \in Nat
BY DEF Align

\* A unit of an opcode, registers and a number.
LEMMA UnitIsUnit ==
    ASSUME NEW opcode \in Mnemonic, NEW rd \in Reg, NEW rs1 \in Reg, NEW rs2 \in Reg,
           NEW imm \in Int
    PROVE  /\ Unit(opcode, rd, rs1, rs2, imm) \in UnitType
           /\ Unit(opcode, rd, rs1, rs2, imm).label = NoLabel
           /\ Unit(opcode, rd, rs1, rs2, imm).resolved
           /\ Unit(opcode, rd, rs1, rs2, imm).opcode = opcode
           /\ Unit(opcode, rd, rs1, rs2, imm).imm = imm
BY DEF Unit, UnitType

\* The numbers that a line may have, and those that la, loads and li make, fit.
LEMMA AcceptedFits ==
    ASSUME NEW u \in UnitType, Accepts(FormatOf(u.opcode), u.imm) PROVE Fits(u)
<1>1. u.imm \in Int
    BY DEF UnitType
<1>2. u.imm % 4 = 0 => u.imm % 2 = 0
    BY SMT, <1>1
<1>3. QED
    BY SMT, <1>2 DEF Accepts, Fits

LEMMA UpperFormat == ASSUME NEW m \in {"auipc", "lui"} PROVE FormatOf(m) = "U"
<1>1. m \in DOMAIN OtherEncodings /\ OtherEncodings[m].format = "U"
    BY DEF OtherEncodings, Enc
<1>2. QED
    BY <1>1, Tables DEF FormatOf

LEMMA LowerFormat == ASSUME NEW m \in {"addi", "lb", "lh", "lw", "ld"} PROVE FormatOf(m) = "I1"
<1>1. /\ m \in DOMAIN I_type_instruction_encoding_map
      /\ I_type_instruction_encoding_map[m].format = "I1"
    BY DEF I_type_instruction_encoding_map, Enc
<1>2. QED
    BY <1>1, Tables DEF FormatOf

LEMMA UpperFits ==
    ASSUME NEW u, u.opcode \in {"auipc", "lui"} PROVE Fits(u)
<1>1. FormatOf(u.opcode) = "U"
    BY UpperFormat
<1>2. QED
    BY SMT, <1>1 DEF Fits

LEMMA LowerFits ==
    ASSUME NEW u, u.opcode \in {"addi", "lb", "lh", "lw", "ld"},
           -2048 =< u.imm, u.imm < 2048
    PROVE  Fits(u)
<1>1. FormatOf(u.opcode) = "I1"
    BY LowerFormat
<1>2. QED
    BY SMT, <1>1 DEF Fits

\* A number is an upper part and a lower one of 12 bits with its sign.
LEMMA Lower ==
    ASSUME NEW n \in Int
    PROVE  /\ UpperPart(n) \in Int /\ LowerPart(n) \in Int
           /\ -2048 =< LowerPart(n) /\ LowerPart(n) < 2048
           /\ 4096 * UpperPart(n) + LowerPart(n) = n
<1>. DEFINE q == n \div 4096
            r == n % 4096
<1>1. q \in Int
    BY SMT
<1>2. r \in 0 .. 4095
    BY SMT
<1>3. n = 4096 * q + r
    BY SMT
<1>4. /\ UpperPart(n) = q + (IF r < 2048 THEN 0 ELSE 1)
      /\ LowerPart(n) = r - (IF r < 2048 THEN 0 ELSE 4096)
    BY SMT DEF UpperPart, LowerPart
<1>. HIDE DEF q, r
<1> QED BY SMT, <1>1, <1>2, <1>3, <1>4
-----------------------------------------------------------------------------
(* Types.                                                                  *)

\* Emit appends its units, with the current line, and counts them.
LEMMA Emitted ==
    ASSUME TypeOK, NEW units \in Seq(UnitType), Emit(units)
    PROVE  /\ instruction_index_' = instruction_index_ + Len(units)
           /\ Len(units) \in Nat
           /\ intermediate_code_' \in [1 .. instruction_index_' -> UnitType]
           /\ instruction_number_line_number_mapping_' \in [1 .. instruction_index_' -> Nat]
           /\ \A i \in 1 .. instruction_index_ :
                 /\ intermediate_code_'[i] = intermediate_code_[i]
                 /\ instruction_number_line_number_mapping_'[i]
                        = instruction_number_line_number_mapping_[i]
           /\ \A i \in (instruction_index_ + 1) .. instruction_index_' :
                 /\ intermediate_code_'[i] = units[i - instruction_index_]
                 /\ instruction_number_line_number_mapping_'[i] = pos
<1>. DEFINE places == [u \in DOMAIN units |-> pos]
<1>1. Len(units) \in Nat /\ DOMAIN units = 1 .. Len(units)
    BY LenProperties
<1>2. places \in Seq(Nat) /\ Len(places) = Len(units)
    <2>1. places \in [1 .. Len(units) -> Nat]
        BY <1>1 DEF TypeOK
    <2> QED BY <2>1, <1>1, IsASeq
<1>3. \A j \in 1 .. Len(units) : places[j] = pos
    BY <1>1
<1>4. instruction_number_line_number_mapping_' = instruction_number_line_number_mapping_ \o places
    BY DEF Emit
<1>. HIDE DEF places
<1>5. /\ instruction_index_ \in Nat
      /\ instruction_index_' = instruction_index_ + Len(units)
      /\ intermediate_code_' = intermediate_code_ \o units
      /\ intermediate_code_ \in [1 .. instruction_index_ -> UnitType]
      /\ instruction_number_line_number_mapping_ \in [1 .. instruction_index_ -> Nat]
    BY DEF Emit, TypeOK
<1>6. /\ intermediate_code_' \in [1 .. instruction_index_' -> UnitType]
      /\ \A i \in 1 .. instruction_index_ : intermediate_code_'[i] = intermediate_code_[i]
      /\ \A i \in (instruction_index_ + 1) .. instruction_index_' :
            intermediate_code_'[i] = units[i - instruction_index_]
    <2>1. ASSUME NEW n \in Nat, NEW f \in [1 .. n -> UnitType]
          PROVE  /\ f \o units \in [1 .. (n + Len(units)) -> UnitType]
                 /\ \A j \in 1 .. n : (f \o units)[j] = f[j]
                 /\ \A j \in (n + 1) .. (n + Len(units)) : (f \o units)[j] = units[j - n]
        BY Concat
    <2>2. /\ intermediate_code_ \o units
                 \in [1 .. (instruction_index_ + Len(units)) -> UnitType]
          /\ \A j \in 1 .. instruction_index_ :
                (intermediate_code_ \o units)[j] = intermediate_code_[j]
          /\ \A j \in (instruction_index_ + 1) .. (instruction_index_ + Len(units)) :
                (intermediate_code_ \o units)[j] = units[j - instruction_index_]
        BY <1>5, <2>1
    <2> QED BY <1>5, <2>2
<1>9. instruction_index_' = instruction_index_ + Len(places)
    BY <1>5, <1>2
<1>7. /\ instruction_number_line_number_mapping_' \in [1 .. instruction_index_' -> Nat]
      /\ \A i \in 1 .. instruction_index_ :
            instruction_number_line_number_mapping_'[i]
                = instruction_number_line_number_mapping_[i]
      /\ \A i \in (instruction_index_ + 1) .. instruction_index_' :
            instruction_number_line_number_mapping_'[i] = places[i - instruction_index_]
    <2>2. /\ instruction_index_ \in Nat
          /\ instruction_number_line_number_mapping_ \in [1 .. instruction_index_ -> Nat]
          /\ places \in Seq(Nat)
        BY <1>5, <1>2
    <2>3. /\ instruction_number_line_number_mapping_ \o places
                 \in [1 .. (instruction_index_ + Len(places)) -> Nat]
          /\ \A j \in 1 .. instruction_index_ :
                (instruction_number_line_number_mapping_ \o places)[j]
                    = instruction_number_line_number_mapping_[j]
          /\ \A j \in (instruction_index_ + 1) .. (instruction_index_ + Len(places)) :
                (instruction_number_line_number_mapping_ \o places)[j]
                    = places[j - instruction_index_]
        BY <2>2, ConcatNat
    <2> QED BY <2>3, <1>4, <1>9
<1>8. \A i \in (instruction_index_ + 1) .. instruction_index_' :
            instruction_number_line_number_mapping_'[i] = pos
    <2> TAKE i \in (instruction_index_ + 1) .. instruction_index_'
    <2>1. i - instruction_index_ \in 1 .. Len(units)
        BY <1>5, <1>1
    <2> QED BY <2>1, <1>7, <1>3
<1> QED BY <1>1, <1>5, <1>6, <1>7, <1>8

LEMMA InitType == Init => TypeOK
<1> SUFFICES ASSUME Init PROVE TypeOK
    OBVIOUS
<1>1. source \in Seq(Lines) /\ m_extension_enabled \in BOOLEAN
    BY AssemblerAssumption DEF Init
<1>2. data_buffer_ = <<>> /\ back_patch_ = <<>> /\ intermediate_code_ = <<>>
         /\ instruction_number_line_number_mapping_ = <<>> /\ instruction_index_ = 0
    BY DEF Init
<1>3. /\ data_buffer_ \in Seq([width : {1, 2, 4, 8}, line : Nat, item : Nat])
      /\ back_patch_ \in Seq(0 .. (instruction_index_ - 1))
      /\ intermediate_code_ \in [1 .. instruction_index_ -> UnitType]
      /\ instruction_number_line_number_mapping_ \in [1 .. instruction_index_ -> Nat]
    BY <1>2
<1>4. symbol_table_ \in [DOMAIN symbol_table_ -> Symbol] /\ DOMAIN symbol_table_ \subseteq Labels
    BY DEF Init
<1>5. pass = "data" /\ pos = 1 /\ section = "none" /\ data_index_ = 0 /\ data_counter = 0
    BY DEF Init
<1>6. instruction_index_ \in Nat
    BY <1>2
<1>7. /\ pass \in {"data", "text", "patch", "refused", "load", "loaded"}
      /\ pos \in Nat \ {0} /\ section \in {"none", "data", "text", "bss"}
      /\ data_index_ \in Nat /\ data_counter \in Nat
    BY <1>5
<1>8. errors_ \in BOOLEAN
    BY Zenon DEF Init
<1> QED BY <1>1, <1>6, <1>3, <1>4, <1>7, <1>8, Zenon DEF TypeOK

\* A step that emits nothing and enters no label keeps the types of the code.
LEMMA SkipType ==
    ASSUME TypeOK, Section \/ Skip \/ InvalidDirective \/ EndOfData \/ Unexpected
                       \/ EndOfText \/ Refuse \/ EndOfLoad
    PROVE  TypeOK'
<1>1. UNCHANGED <<symbol_table_, data, code, back_patch_, loaded, input>>
    BY DEF Section, Skip, InvalidDirective, EndOfData, Unexpected, EndOfText, Refuse,
           EndOfLoad, Error
<1>2. pos' \in Nat \ {0}
    BY DEF TypeOK, Section, Skip, InvalidDirective, EndOfData, Unexpected, EndOfText, Refuse,
           EndOfLoad, Error, InData, InText, Advance
<1>3. pass' \in {"data", "text", "patch", "refused", "load", "loaded"} /\ errors_' \in BOOLEAN
    BY DEF TypeOK, Section, Skip, InvalidDirective, EndOfData, Unexpected, EndOfText, Refuse,
           EndOfLoad, Error
<1>4. section' \in {"none", "data", "text", "bss"}
    <2>1. CASE Section
        BY <2>1, LineFields DEF TypeOK, Section
    <2>2. CASE ~Section
        BY <2>2 DEF TypeOK, Skip, InvalidDirective, EndOfData, Unexpected, EndOfText, Refuse,
                    EndOfLoad, Error
    <2> QED BY <2>1, <2>2
<1> QED BY <1>1, <1>2, <1>3, <1>4 DEF TypeOK, data, code, loaded, input

\* A data label.
LEMMA DataLabelType ==
    ASSUME TypeOK, DataLabel PROVE TypeOK'
<1>. DEFINE next == IF pos < Len(source) THEN source[pos + 1] ELSE [kind |-> "end"]
            at == IF next.kind = "items" THEN Align(data_index_, next.width) ELSE data_index_
            entry == [address |-> at, line |-> pos, isData |-> TRUE]
<1>1. Line.label \in Labels
    BY LineFields DEF TypeOK, DataLabel, InData
<1>2. next.kind = "items" => next.width \in {1, 2, 4, 8}
    <2>1. CASE pos < Len(source)
        <3>1. next \in Lines
            BY <2>1 DEF TypeOK
        <3>. HIDE DEF next
        <3> QED BY <3>1 DEF Lines
    <2>2. CASE ~(pos < Len(source))
        BY <2>2
    <2> QED BY <2>1, <2>2
<1>. HIDE DEF next
<1>3. at \in Nat
    BY <1>2, AlignType DEF TypeOK
<1>4. data_index_' = at /\ pos' = pos + 1
    BY DEF DataLabel, InData, Advance, next
<1>5. symbol_table_' = [l \in DOMAIN symbol_table_ \cup {Line.label} |->
                            IF l = Line.label THEN entry ELSE symbol_table_[l]]
    BY <1>4, Zenon DEF DataLabel
<1>. HIDE DEF at
<1>6. entry \in Symbol
    BY <1>3 DEF Symbol, TypeOK
<1>. HIDE DEF entry
<1>7. symbol_table_' \in [DOMAIN symbol_table_' -> Symbol] /\ DOMAIN symbol_table_' \subseteq Labels
    BY <1>1, <1>5, <1>6 DEF TypeOK
<1>8. errors_' \in BOOLEAN
    BY Zenon DEF DataLabel
<1>9. data_index_' \in Nat /\ pos' \in Nat \ {0}
    BY <1>3, <1>4 DEF TypeOK
<1>10. UNCHANGED <<input, pass, section, data_buffer_, code, back_patch_, loaded>>
    BY DEF DataLabel
<1> QED BY <1>7, <1>8, <1>9, <1>10 DEF TypeOK, input, code, loaded

\* A data directive.
LEMMA DataDirectiveType ==
    ASSUME TypeOK, DataDirective PROVE TypeOK'
<1>. DEFINE Value == [width : {1, 2, 4, 8}, line : Nat, item : Nat]
            more == [n \in 1 .. Line.count |-> [width |-> Line.width, line |-> pos, item |-> n]]
<1>1. Line.width \in {1, 2, 4, 8} /\ Line.count \in Nat
    BY LineFields DEF TypeOK, DataDirective, InData
<1>2. more \in [1 .. Line.count -> Value]
    BY <1>1 DEF TypeOK
<1>3. data_buffer_ \in Seq(Value)
    BY DEF TypeOK
<1>4. data_buffer_' = data_buffer_ \o more
    BY DEF DataDirective
<1>. HIDE DEF Value, more
<1>5. more \in Seq(Value)
    BY <1>1, <1>2, IsASeq
<1>6. data_buffer_' \in Seq(Value)
    BY <1>3, <1>4, <1>5, ConcatProperties
<1>7. data_index_' \in Nat
    <2>1. Align(data_index_, Line.width) \in Nat /\ data_index_ \in Nat
        BY <1>1, AlignType DEF TypeOK
    <2>2. Line.count * Line.width \in Nat
        BY <1>1
    <2> QED BY <2>1, <2>2 DEF DataDirective
<1>8. pos' \in Nat \ {0}
    BY DEF TypeOK, DataDirective, InData, Advance
<1>9. errors_' \in BOOLEAN
    BY Zenon DEF DataDirective
<1>10. UNCHANGED <<input, pass, section, symbol_table_, code, back_patch_, loaded>>
    BY DEF DataDirective
<1> QED BY <1>6, <1>7, <1>8, <1>9, <1>10 DEF TypeOK, input, code, loaded, Value

\* What a text label enters.
LEMMA TextLabelType ==
    ASSUME TypeOK, TextLabel PROVE TypeOK'
<1>. DEFINE entry == [address |-> 4 * instruction_index_, line |-> pos, isData |-> FALSE]
<1>1. Line.label \in Labels
    BY LineFields DEF TypeOK, TextLabel, InText
<1>2. entry \in Symbol
    BY DEF Symbol, TypeOK
<1>3. \/ UNCHANGED symbol_table_
      \/ symbol_table_' = [l \in DOMAIN symbol_table_ \cup {Line.label} |->
                                IF l = Line.label THEN entry ELSE symbol_table_[l]]
    BY Zenon DEF TextLabel
<1>. HIDE DEF entry
<1>4. symbol_table_' \in [DOMAIN symbol_table_' -> Symbol] /\ DOMAIN symbol_table_' \subseteq Labels
    BY <1>1, <1>2, <1>3 DEF TypeOK
<1>5. errors_' \in BOOLEAN
    BY Zenon DEF TextLabel, TypeOK
<1>6. pos' \in Nat \ {0}
    BY DEF TypeOK, TextLabel, InText, Advance
<1>7. UNCHANGED <<input, pass, section, data, code, back_patch_, loaded>>
    BY DEF TextLabel
<1> QED BY <1>4, <1>5, <1>6, <1>7 DEF TypeOK, input, data, code, loaded

\* Units without a label, with numbers that fit.
PlainUnits == {units \in Seq(UnitType) : \A i \in 1 .. Len(units) :
                                            units[i].label = NoLabel /\ Fits(units[i])}

LEMMA OneUnit ==
    ASSUME NEW u \in UnitType, u.label = NoLabel, Fits(u) PROVE <<u>> \in PlainUnits
BY DEF PlainUnits

LEMMA TwoUnits ==
    ASSUME NEW u \in UnitType, u.label = NoLabel, Fits(u),
           NEW v \in UnitType, v.label = NoLabel, Fits(v)
    PROVE  <<u, v>> \in PlainUnits
BY DEF PlainUnits

\* The units of li, la and loads of a label.
LEMMA LiPlain == ASSUME NEW rd \in Reg, NEW imm \in Int PROVE LiUnits(rd, imm) \in PlainUnits
<1>. DEFINE upper == UpperPart(imm)
            lower == LowerPart(imm)
            short == Unit("addi", rd, 0, 0, imm)
            u == Unit("lui", rd, 0, 0, upper)
            v == Unit("addi", rd, rd, 0, lower)
<1>0. 0 \in Reg
    BY SizeAssumption DEF Reg
<1>1. upper \in Int /\ lower \in Int /\ -2048 =< lower /\ lower < 2048
    BY Lower
<1>2. \/ LiUnits(rd, imm) = <<short>> /\ -2048 =< imm /\ imm < 2048
      \/ LiUnits(rd, imm) \in {<<u>>, <<u, v>>}
    BY DEF LiUnits
<1>. HIDE DEF upper, lower
<1>3. short \in UnitType /\ short.label = NoLabel /\ short.opcode = "addi" /\ short.imm = imm
    BY <1>0, UnitIsUnit, Mnemonics DEF short
<1>4. u \in UnitType /\ u.label = NoLabel /\ u.opcode = "lui"
    BY <1>0, <1>1, UnitIsUnit, Mnemonics DEF u
<1>5. v \in UnitType /\ v.label = NoLabel /\ v.opcode = "addi" /\ v.imm = lower
    BY <1>0, <1>1, UnitIsUnit, Mnemonics DEF v
<1>. HIDE DEF short, u, v
<1>6. Fits(u)
    BY <1>4, UpperFits
<1>7. Fits(v)
    BY <1>1, <1>5, LowerFits
<1>8. LiUnits(rd, imm) = <<short>> => Fits(short) \/ LiUnits(rd, imm) \in {<<u>>, <<u, v>>}
    BY <1>2, <1>3, LowerFits
<1> QED BY <1>2, <1>3, <1>4, <1>5, <1>6, <1>7, <1>8, OneUnit, TwoUnits

LEMMA AddressPlain ==
    ASSUME NEW line, line.opcode \in {"addi", "lb", "lh", "lw", "ld"}, line.rd \in Reg,
           symbol_table_[line.label].address \in Nat, NEW index \in Int
    PROVE  AddressUnits(line, index) \in PlainUnits
<1>. DEFINE offset == DataStart + symbol_table_[line.label].address - 4 * index
            hi20 == UpperPart(offset)
            lower == LowerPart(offset)
            u == Unit("auipc", line.rd, 0, 0, hi20)
            v == Unit(line.opcode, line.rd, line.rd, 0, lower)
<1>1. AddressUnits(line, index) = <<u, v>>
    BY DEF AddressUnits
<1>2. offset \in Int
    BY AssemblerAssumption
<1>. HIDE DEF offset
<1>3. hi20 \in Int /\ lower \in Int /\ -2048 =< lower /\ lower < 2048
    BY <1>2, Lower
<1>4. 0 \in Reg /\ line.opcode \in Mnemonic
    BY SizeAssumption, Mnemonics DEF Reg
<1>. HIDE DEF hi20, lower
<1>5. u \in UnitType /\ u.label = NoLabel /\ u.opcode = "auipc"
    BY <1>3, <1>4, UnitIsUnit, Mnemonics DEF u
<1>6. v \in UnitType /\ v.label = NoLabel /\ v.opcode = line.opcode /\ v.imm = lower
    BY <1>3, <1>4, UnitIsUnit DEF v
<1>. HIDE DEF u, v
<1>7. Fits(u)
    BY <1>5, UpperFits
<1>8. Fits(v)
    BY <1>3, <1>6, LowerFits
<1> QED BY <1>1, <1>5, <1>6, <1>7, <1>8, TwoUnits

\* Instructions, la, loads of a label and li are an error or emit units without a label.
LEMMA PlainStep ==
    ASSUME TypeOK, Instruction \/ Address \/ LoadImmediate
    PROVE  /\ Reading /\ pass = "text" /\ Advance /\ section \in {"none", "text"}
           /\ Line.kind \in {"op", "address", "li"}
           /\ \/ Error
              \/ \E units \in PlainUnits :
                    /\ EmitAll(units)
                    /\ Line.kind = "li" => /\ units = LiUnits(Line.rd, Line.imm)
                                           /\ LiAccepts(Line.imm)
                    /\ Line.kind = "address" => /\ units = AddressUnits(Line, instruction_index_)
                                                /\ IsDataLabel(Line.label)
<1>1. /\ Reading /\ pass = "text" /\ Advance /\ section \in {"none", "text"}
      /\ Line.kind \in {"op", "address", "li"}
    BY DEF Instruction, Address, LoadImmediate, InText
<1>2. ASSUME Instruction, ~Error
      PROVE  \E units \in PlainUnits : EmitAll(units) /\ Line.kind = "op"
    <2>. DEFINE u == Unit(Line.opcode, Line.rd, Line.rs1, Line.rs2, Line.imm)
    <2>1. /\ Line.kind = "op" /\ EmitAll(<<u>>)
          /\ Accepts(FormatOf(Line.opcode), Line.imm)
        BY <1>2 DEF Instruction, InText
    <2>2. /\ Line.opcode \in Mnemonic /\ Line.imm \in Int
          /\ Line.rd \in Reg /\ Line.rs1 \in Reg /\ Line.rs2 \in Reg
        BY <1>1, <2>1, LineFields DEF TypeOK
    <2>3. u \in UnitType /\ u.label = NoLabel /\ u.opcode = Line.opcode /\ u.imm = Line.imm
        BY <2>2, UnitIsUnit
    <2>. HIDE DEF u
    <2>4. Fits(u)
        BY <2>1, <2>3, AcceptedFits
    <2> QED BY <2>1, <2>3, <2>4, OneUnit
<1>3. ASSUME Address, ~Error
      PROVE  /\ Line.kind = "address" /\ EmitAll(AddressUnits(Line, instruction_index_))
             /\ AddressUnits(Line, instruction_index_) \in PlainUnits
             /\ IsDataLabel(Line.label)
    <2>1. /\ Line.kind = "address" /\ EmitAll(AddressUnits(Line, instruction_index_))
          /\ IsDataLabel(Line.label)
        BY <1>3 DEF Address, InText, IsDataLabel
    <2>2. Line.rd \in Reg /\ Line.opcode \in {"addi", "lb", "lh", "lw", "ld"}
        BY <1>1, <2>1, LineFields DEF TypeOK
    <2>3. symbol_table_[Line.label] \in Symbol
        BY <2>1 DEF TypeOK, IsDataLabel
    <2>4. symbol_table_[Line.label].address \in Nat /\ instruction_index_ \in Int
        BY <2>3 DEF Symbol, TypeOK
    <2> QED BY <2>1, <2>2, <2>4, AddressPlain
<1>4. ASSUME LoadImmediate, ~Error
      PROVE  /\ Line.kind = "li" /\ EmitAll(LiUnits(Line.rd, Line.imm))
             /\ LiUnits(Line.rd, Line.imm) \in PlainUnits /\ LiAccepts(Line.imm)
    <2>1. Line.kind = "li" /\ EmitAll(LiUnits(Line.rd, Line.imm)) /\ LiAccepts(Line.imm)
        BY <1>4 DEF LoadImmediate, InText
    <2>2. Line.rd \in Reg /\ Line.imm \in Int
        BY <1>1, <2>1, LineFields DEF TypeOK
    <2> QED BY <2>1, <2>2, LiPlain
<1>5. CASE Error
    BY <1>1, <1>5
<1>6. CASE Instruction /\ ~Error
    BY <1>1, <1>2, <1>6
<1>7. CASE Address /\ ~Error
    BY <1>1, <1>3, <1>7
<1>8. CASE LoadImmediate /\ ~Error
    BY <1>1, <1>4, <1>8
<1> QED BY <1>5, <1>6, <1>7, <1>8

\* What a reference's unit becomes when its fields are set.
LEMMA LabelSet ==
    ASSUME NEW u \in UnitType, NEW l \in Labels
    PROVE  /\ [u EXCEPT !.label = l] \in UnitType
           /\ [u EXCEPT !.label = l].label = l
           /\ [u EXCEPT !.label = l].resolved = u.resolved
           /\ [u EXCEPT !.label = l].opcode = u.opcode
           /\ [u EXCEPT !.label = l].imm = u.imm
BY DEF UnitType

LEMMA ImmSet ==
    ASSUME NEW u \in UnitType, NEW x \in Int
    PROVE  /\ [u EXCEPT !.imm = x] \in UnitType
           /\ [u EXCEPT !.imm = x].imm = x
           /\ [u EXCEPT !.imm = x].label = u.label
           /\ [u EXCEPT !.imm = x].resolved = u.resolved
           /\ [u EXCEPT !.imm = x].opcode = u.opcode
BY DEF UnitType

LEMMA ResolvedSet ==
    ASSUME NEW u \in UnitType, NEW b \in BOOLEAN
    PROVE  /\ [u EXCEPT !.resolved = b] \in UnitType
           /\ [u EXCEPT !.resolved = b].label = u.label
           /\ [u EXCEPT !.resolved = b].opcode = u.opcode
           /\ [u EXCEPT !.resolved = b].imm = u.imm
BY DEF UnitType

LEMMA ImmResolvedSet ==
    ASSUME NEW u \in UnitType, NEW x \in Int
    PROVE  /\ [u EXCEPT !.imm = x, !.resolved = TRUE] \in UnitType
           /\ [u EXCEPT !.imm = x, !.resolved = TRUE].label = u.label
           /\ [u EXCEPT !.imm = x, !.resolved = TRUE].imm = x
           /\ [u EXCEPT !.imm = x, !.resolved = TRUE].resolved
           /\ [u EXCEPT !.imm = x, !.resolved = TRUE].opcode = u.opcode
BY DEF UnitType

\* A reference is an error, or is resolved at once, or is left in back_patch_.
LEMMA ReferenceStep ==
    ASSUME TypeOK, Reference
    PROVE  /\ Reading /\ pass = "text" /\ Advance /\ section \in {"none", "text"}
           /\ Line.kind = "ref" /\ Line.label \in Labels
           /\ FormatOf(Line.opcode) \in {"B", "J"}
           /\ \/ Error
              \/ \E u \in UnitType :
                    /\ EmitAll(<<u>>)
                    /\ u.label = Line.label /\ u.resolved /\ IsTextLabel(Line.label)
                    /\ u.imm = symbol_table_[Line.label].address - 4 * instruction_index_
                    /\ u.opcode = Line.opcode /\ InReach(u.opcode, u.imm)
              \/ \E u \in UnitType :
                    /\ Emit(<<u>>) /\ u.label = Line.label
                    /\ u.opcode = Line.opcode /\ u.imm = 0
                    /\ back_patch_' = Append(back_patch_, instruction_index_)
                    /\ UNCHANGED <<input, pass, section, symbol_table_, data, errors_, loaded>>
<1>. DEFINE plain == Unit(Line.opcode, Line.rd, Line.rs1, Line.rs2, 0)
            unit == [plain EXCEPT !.label = Line.label]
            offset == symbol_table_[Line.label].address - 4 * instruction_index_
<1>1. /\ Reading /\ pass = "text" /\ Advance /\ section \in {"none", "text"}
      /\ Line.kind = "ref"
    BY DEF Reference, InText
<1>2. /\ Line.opcode \in Mnemonic /\ Line.label \in Labels
      /\ Line.rd \in Reg /\ Line.rs1 \in Reg /\ Line.rs2 \in Reg
      /\ FormatOf(Line.opcode) \in {"B", "J"}
    BY <1>1, LineFields DEF TypeOK
<1>3. /\ plain \in UnitType /\ plain.resolved
      /\ plain.opcode = Line.opcode /\ plain.imm = 0
    BY <1>2, UnitIsUnit
<1>4. \/ /\ ~IsTextLabel(Line.label)
         /\ Emit(<<[unit EXCEPT !.resolved = FALSE]>>)
         /\ back_patch_' = Append(back_patch_, instruction_index_)
         /\ UNCHANGED <<input, pass, section, symbol_table_, data, errors_, loaded>>
      \/ /\ IsTextLabel(Line.label) /\ InReach(Line.opcode, offset)
         /\ EmitAll(<<[unit EXCEPT !.imm = offset]>>)
      \/ Error
    BY Zenon DEF Reference
<1>. HIDE DEF plain
<1>5. /\ unit \in UnitType /\ unit.label = Line.label /\ unit.resolved
      /\ unit.opcode = Line.opcode /\ unit.imm = 0
    BY <1>2, <1>3, LabelSet
<1>. HIDE DEF unit
<1>6. CASE /\ IsTextLabel(Line.label) /\ InReach(Line.opcode, offset)
           /\ EmitAll(<<[unit EXCEPT !.imm = offset]>>)
    <2>1. symbol_table_[Line.label] \in Symbol
        BY <1>6 DEF TypeOK, IsTextLabel
    <2>2. offset \in Int
        BY <2>1 DEF TypeOK, Symbol
    <2>. HIDE DEF offset
    <2>. DEFINE u == [unit EXCEPT !.imm = offset]
    <2>3. /\ u \in UnitType /\ u.label = Line.label /\ u.resolved /\ u.imm = offset
          /\ u.opcode = Line.opcode
        BY <1>5, <2>2, ImmSet
    <2>. HIDE DEF u
    <2> QED BY <1>1, <1>2, <1>6, <2>3, Zenon DEF u, offset
<1>7. CASE /\ Emit(<<[unit EXCEPT !.resolved = FALSE]>>)
           /\ back_patch_' = Append(back_patch_, instruction_index_)
           /\ UNCHANGED <<input, pass, section, symbol_table_, data, errors_, loaded>>
    <2>. DEFINE u == [unit EXCEPT !.resolved = FALSE]
    <2>1. u \in UnitType /\ u.label = Line.label /\ u.opcode = Line.opcode /\ u.imm = 0
        BY <1>5, ResolvedSet
    <2>. HIDE DEF u
    <2> QED BY <1>1, <1>2, <1>7, <2>1, Zenon DEF u
<1> QED BY <1>1, <1>2, <1>4, <1>6, <1>7, Zenon

\* Types after units are emitted.
LEMMA EmitType ==
    ASSUME TypeOK, NEW units \in Seq(UnitType), Emit(units), Advance,
           back_patch_' \in Seq(0 .. (instruction_index_' - 1)),
           UNCHANGED <<input, pass, section, symbol_table_, data, errors_, loaded>>
    PROVE  TypeOK'
<1>1. /\ instruction_index_' = instruction_index_ + Len(units)
      /\ Len(units) \in Nat
      /\ intermediate_code_' \in [1 .. instruction_index_' -> UnitType]
      /\ instruction_number_line_number_mapping_' \in [1 .. instruction_index_' -> Nat]
    BY Emitted
<1>2. instruction_index_' \in Nat /\ pos' \in Nat \ {0}
    BY <1>1 DEF TypeOK, Advance
<1> QED BY <1>1, <1>2 DEF TypeOK, input, data, loaded

\* A list of places in the code is one in longer code.
LEMMA PlacesGrow ==
    ASSUME NEW m \in Nat, NEW n \in Nat, m =< n, NEW s \in Seq(0 .. (m - 1))
    PROVE  s \in Seq(0 .. (n - 1))
<1>1. 0 .. (m - 1) \subseteq 0 .. (n - 1)
    OBVIOUS
<1> QED BY <1>1, SeqMonotonic

LEMMA EmitAllType ==
    ASSUME TypeOK, NEW units \in Seq(UnitType), EmitAll(units), Advance
    PROVE  TypeOK'
<1>1. Emit(units)
    BY DEF EmitAll
<1>2. UNCHANGED <<input, pass, section, symbol_table_, data, back_patch_, errors_, loaded>>
    BY DEF EmitAll
<1>3. instruction_index_' \in Nat /\ instruction_index_ =< instruction_index_'
    BY <1>1, Emitted DEF TypeOK
<1>4. back_patch_' \in Seq(0 .. (instruction_index_' - 1))
    BY <1>2, <1>3, PlacesGrow DEF TypeOK
<1> QED BY <1>1, <1>2, <1>4, EmitType

LEMMA ErrorType ==
    ASSUME TypeOK, Error, Advance PROVE TypeOK'
<1>1. errors_' \in BOOLEAN
    BY Zenon DEF Error
<1>2. UNCHANGED <<input, pass, section, symbol_table_, data, code, back_patch_, loaded>>
    BY DEF Error
<1>3. pos' \in Nat \ {0}
    BY DEF Advance, TypeOK
<1> QED BY <1>1, <1>2, <1>3 DEF TypeOK, input, data, code, loaded

LEMMA PlainType ==
    ASSUME TypeOK, Instruction \/ Address \/ LoadImmediate PROVE TypeOK'
<1>1. Advance /\ (Error \/ \E units \in PlainUnits : EmitAll(units))
    BY PlainStep
<1>2. CASE Error
    BY <1>1, <1>2, ErrorType
<1>3. ASSUME NEW units \in PlainUnits, EmitAll(units) PROVE TypeOK'
    BY <1>1, <1>3, EmitAllType DEF PlainUnits
<1> QED BY <1>1, <1>2, <1>3

LEMMA ReferenceType ==
    ASSUME TypeOK, Reference PROVE TypeOK'
<1>1. Advance
    BY ReferenceStep
<1>2. CASE Error
    BY <1>1, <1>2, ErrorType
<1>3. ASSUME NEW u \in UnitType, EmitAll(<<u>>) PROVE TypeOK'
    <2>1. <<u>> \in Seq(UnitType)
        OBVIOUS
    <2> QED BY <1>1, <1>3, <2>1, EmitAllType
<1>4. ASSUME NEW u \in UnitType, Emit(<<u>>),
             back_patch_' = Append(back_patch_, instruction_index_),
             UNCHANGED <<input, pass, section, symbol_table_, data, errors_, loaded>>
      PROVE  TypeOK'
    <2>. <<u>> \in Seq(UnitType) /\ Len(<<u>>) = 1
        OBVIOUS
    <2>1. instruction_index_ \in Nat /\ instruction_index_' = instruction_index_ + 1
        BY <1>4, Emitted DEF TypeOK
    <2>2. back_patch_ \in Seq(0 .. (instruction_index_' - 1))
        BY <2>1, PlacesGrow DEF TypeOK
    <2>3. back_patch_' \in Seq(0 .. (instruction_index_' - 1))
        BY <1>4, <2>1, <2>2, AppendProperties
    <2> QED BY <1>1, <1>4, <2>3, EmitType
<1> QED BY <1>2, <1>3, <1>4, ReferenceStep

\* What back-patching does to the unit of a reference: nothing, with an error; a
\* mark, with an error; or the distance to its label.
LEMMA BackPatchStep ==
    ASSUME TypeOK, BackPatch
    PROVE  /\ pass = "patch" /\ pos \in 1 .. Len(back_patch_) /\ Advance
           /\ back_patch_[pos] \in 0 .. (instruction_index_ - 1)
           /\ back_patch_[pos] + 1 \in 1 .. instruction_index_
           /\ intermediate_code_' \in [1 .. instruction_index_ -> UnitType]
           /\ errors_' \in BOOLEAN
           /\ UNCHANGED <<input, pass, section, symbol_table_, data, instruction_index_,
                          instruction_number_line_number_mapping_, back_patch_, loaded>>
           /\ \A i \in 1 .. instruction_index_ : i # back_patch_[pos] + 1 =>
                 intermediate_code_'[i] = intermediate_code_[i]
           /\ LET i == back_patch_[pos] + 1
              IN /\ intermediate_code_'[i].label = intermediate_code_[i].label
                 /\ intermediate_code_'[i].opcode = intermediate_code_[i].opcode
                 /\ \/ intermediate_code_'[i].imm = intermediate_code_[i].imm
                    \/ /\ intermediate_code_[i].label \in DOMAIN symbol_table_
                       /\ InReach(intermediate_code_[i].opcode, intermediate_code_'[i].imm)
                       /\ intermediate_code_'[i].imm
                              = symbol_table_[intermediate_code_[i].label].address - 4 * (i - 1)
                 /\ \/ errors_'
                    \/ /\ UNCHANGED errors_
                       /\ intermediate_code_[i].label \in DOMAIN symbol_table_
                       /\ intermediate_code_'[i].resolved
                       /\ intermediate_code_'[i].imm
                              = symbol_table_[intermediate_code_[i].label].address - 4 * (i - 1)
<1>. DEFINE index == back_patch_[pos]
            unit == intermediate_code_[index + 1]
            offset == symbol_table_[unit.label].address - 4 * index
            marked == [unit EXCEPT !.resolved = TRUE]
            patched == [unit EXCEPT !.imm = offset, !.resolved = TRUE]
            Patched(new) == [intermediate_code_ EXCEPT ![index + 1] = new]
<1>1. /\ pass = "patch" /\ pos =< Len(back_patch_) /\ Advance
      /\ UNCHANGED <<input, pass, section, symbol_table_, data, instruction_index_,
                     instruction_number_line_number_mapping_, back_patch_, loaded>>
    BY DEF BackPatch
<1>2. pos \in 1 .. Len(back_patch_) /\ instruction_index_ \in Nat
    BY <1>1, LenProperties DEF TypeOK
<1>3. index \in 0 .. (instruction_index_ - 1)
    BY <1>2, ElementOfSeq DEF TypeOK
<1>4. index + 1 \in 1 .. instruction_index_ /\ index \in Int
    BY <1>2, <1>3
<1>5. \/ intermediate_code_' = Patched(marked) /\ errors_' = TRUE
      \/ /\ intermediate_code_' = Patched(patched) /\ UNCHANGED errors_
         /\ unit.label \in DOMAIN symbol_table_ /\ InReach(unit.opcode, offset)
      \/ UNCHANGED intermediate_code_ /\ errors_' = TRUE
    BY Zenon DEF BackPatch, PatchOffset
<1>. HIDE DEF index
<1>6. unit \in UnitType
    BY <1>4 DEF TypeOK
<1>7. intermediate_code_ \in [1 .. instruction_index_ -> UnitType]
    BY DEF TypeOK
<1>8. ASSUME NEW new \in UnitType, intermediate_code_' = Patched(new)
      PROVE  /\ intermediate_code_' \in [1 .. instruction_index_ -> UnitType]
             /\ intermediate_code_'[index + 1] = new
             /\ \A i \in 1 .. instruction_index_ : i # index + 1 =>
                   intermediate_code_'[i] = intermediate_code_[i]
    BY <1>4, <1>7, <1>8
<1>9. errors_' \in BOOLEAN
    BY <1>5, Zenon DEF TypeOK
<1>. HIDE DEF unit
<1>10. CASE intermediate_code_' = Patched(marked) /\ errors_' = TRUE
    <2>1. /\ marked \in UnitType /\ marked.label = unit.label
          /\ marked.opcode = unit.opcode /\ marked.imm = unit.imm
        BY <1>6, ResolvedSet
    <2>. HIDE DEF marked, Patched
    <2>2. errors_'
        BY <1>10, Zenon
    <2>3. /\ intermediate_code_' \in [1 .. instruction_index_ -> UnitType]
          /\ intermediate_code_'[index + 1].label = unit.label
          /\ intermediate_code_'[index + 1].opcode = unit.opcode
          /\ intermediate_code_'[index + 1].imm = unit.imm
          /\ \A i \in 1 .. instruction_index_ : i # index + 1 =>
                intermediate_code_'[i] = intermediate_code_[i]
        BY <1>8, <1>10, <2>1
    <2> QED BY <1>1, <1>2, <1>3, <1>4, <1>9, <2>2, <2>3, Zenon DEF unit, index
<1>11. CASE /\ intermediate_code_' = Patched(patched) /\ UNCHANGED errors_
            /\ unit.label \in DOMAIN symbol_table_ /\ InReach(unit.opcode, offset)
    <2>1. offset \in Int
        <3>1. symbol_table_[unit.label] \in Symbol
            BY <1>11 DEF TypeOK
        <3> QED BY <3>1, <1>4 DEF Symbol
    <2>2. offset = symbol_table_[unit.label].address - 4 * ((index + 1) - 1)
        BY <1>4
    <2>. HIDE DEF offset
    <2>3. /\ patched \in UnitType /\ patched.label = unit.label /\ patched.imm = offset
          /\ patched.resolved /\ patched.opcode = unit.opcode
        BY <1>6, <2>1, ImmResolvedSet
    <2>. HIDE DEF patched, Patched
    <2>4. /\ intermediate_code_' \in [1 .. instruction_index_ -> UnitType]
          /\ intermediate_code_'[index + 1] = patched
          /\ \A i \in 1 .. instruction_index_ : i # index + 1 =>
                intermediate_code_'[i] = intermediate_code_[i]
        BY <1>8, <1>11, <2>3
    <2>5. /\ intermediate_code_'[index + 1].label = unit.label
          /\ intermediate_code_'[index + 1].resolved
          /\ intermediate_code_'[index + 1].opcode = unit.opcode
          /\ intermediate_code_'[index + 1].imm
                = symbol_table_[unit.label].address - 4 * ((index + 1) - 1)
          /\ InReach(unit.opcode, intermediate_code_'[index + 1].imm)
        BY <1>11, <2>2, <2>3, <2>4, Zenon
    <2> QED BY <1>1, <1>2, <1>3, <1>4, <1>9, <1>11, <2>4, <2>5, Zenon DEF unit, index
<1>12. CASE UNCHANGED intermediate_code_ /\ errors_' = TRUE
    <2>1. /\ intermediate_code_' \in [1 .. instruction_index_ -> UnitType]
          /\ intermediate_code_'[index + 1].label = unit.label
          /\ intermediate_code_'[index + 1].opcode = unit.opcode
          /\ intermediate_code_'[index + 1].imm = unit.imm
          /\ \A i \in 1 .. instruction_index_ : intermediate_code_'[i] = intermediate_code_[i]
        BY <1>7, <1>12 DEF unit
    <2> QED BY <1>1, <1>2, <1>3, <1>4, <1>9, <1>12, <2>1, Zenon DEF unit, index
<1> QED BY <1>5, <1>10, <1>11, <1>12

LEMMA BackPatchType ==
    ASSUME TypeOK, BackPatch PROVE TypeOK'
<1>1. /\ intermediate_code_' \in [1 .. instruction_index_ -> UnitType]
      /\ Advance /\ errors_' \in BOOLEAN
      /\ UNCHANGED <<input, pass, section, symbol_table_, data, instruction_index_,
                     instruction_number_line_number_mapping_, back_patch_, loaded>>
    BY BackPatchStep
<1>2. pos' \in Nat \ {0}
    BY <1>1 DEF TypeOK, Advance
<1> QED BY <1>1, <1>2 DEF TypeOK, input, data, loaded

LEMMA LoadTextType ==
    ASSUME TypeOK, LoadText PROVE TypeOK'
<1>1. /\ UNCHANGED <<input, section, symbol_table_, data, code, back_patch_, errors_,
                     data_counter>>
      /\ pass' = "load" /\ pos' = 1
    BY DEF LoadText
<1> QED BY <1>1 DEF TypeOK, input, data, code

LEMMA LoadItemType ==
    ASSUME TypeOK, LoadItem PROVE TypeOK'
<1>. DEFINE value == data_buffer_[pos]
<1>1. /\ UNCHANGED <<input, pass, section, symbol_table_, data, code, back_patch_, errors_,
                     text_buffer>>
      /\ pos =< Len(data_buffer_) /\ pos' = pos + 1
      /\ data_counter' = Align(data_counter, value.width) + value.width
    BY DEF LoadItem, Advance
<1>2. pos \in 1 .. Len(data_buffer_)
    BY <1>1, LenProperties DEF TypeOK
<1>3. value \in [width : {1, 2, 4, 8}, line : Nat, item : Nat]
    BY <1>2, ElementOfSeq DEF TypeOK
<1>. HIDE DEF value
<1>4. value.width \in {1, 2, 4, 8}
    BY <1>3
<1>5. Align(data_counter, value.width) \in Nat
    BY <1>4, AlignType DEF TypeOK
<1>6. data_counter' \in Nat
    BY <1>1, <1>4, <1>5
<1>7. pos' \in Nat \ {0}
    BY <1>1 DEF TypeOK
<1> QED BY <1>1, <1>6, <1>7 DEF TypeOK, input, data, code

LEMMA NextType == TypeOK /\ [Next]_vars => TypeOK'
<1> SUFFICES ASSUME TypeOK, [Next]_vars PROVE TypeOK'
    OBVIOUS
<1>1. CASE UNCHANGED vars
    BY <1>1 DEF TypeOK, vars, input, data, code, loaded
<1>2. CASE \/ Section \/ Skip \/ InvalidDirective \/ EndOfData \/ Unexpected
           \/ EndOfText \/ Refuse \/ EndOfLoad
    BY <1>2, SkipType
<1>3. CASE DataLabel
    BY <1>3, DataLabelType
<1>4. CASE DataDirective
    BY <1>4, DataDirectiveType
<1>5. CASE TextLabel
    BY <1>5, TextLabelType
<1>6. CASE Instruction \/ Address \/ LoadImmediate
    BY <1>6, PlainType
<1>7. CASE Reference
    BY <1>7, ReferenceType
<1>8. CASE BackPatch
    BY <1>8, BackPatchType
<1>9. CASE LoadText
    BY <1>9, LoadTextType
<1>10. CASE LoadItem
    BY <1>10, LoadItemType
<1> QED BY <1>1, <1>2, <1>3, <1>4, <1>5, <1>6, <1>7, <1>8, <1>9, <1>10 DEF Next

\* Types are kept, for every set of sources: the counter of instructions is the
\* length of the intermediate code and of the line map at every moment.
THEOREM TypeCorrect == Spec => []TypeOK
<1> QED BY InitType, NextType, PTL DEF Spec
-----------------------------------------------------------------------------

(* The kinds of steps, by what they do to code, labels and references.     *)

\* The section of the line behind this one.
SectionRead == \/ Line.kind = "section" /\ section' = Line.name
               \/ Line.kind # "section" /\ UNCHANGED section

\* The first pass: no text label is entered.
ReadData ==
    /\ pass = "data" /\ Reading /\ Advance /\ SectionRead
    /\ UNCHANGED <<source, pass, code, back_patch_>>
    /\ \A l \in DOMAIN symbol_table_' :
          ~symbol_table_'[l].isData => /\ l \in DOMAIN symbol_table_
                                       /\ symbol_table_'[l] = symbol_table_[l]

\* A line of the second pass that changes neither code nor labels.
ReadText ==
    /\ pass = "text" /\ Reading /\ Advance /\ SectionRead
    /\ UNCHANGED <<source, pass, code, back_patch_, symbol_table_>>
    /\ errors_ => errors_'
    /\ Line.kind # "label" \/ section \in {"data", "bss"} \/ errors_'

\* A text label that is new.
EnterLabel ==
    /\ pass = "text" /\ Reading /\ Advance
    /\ Line.kind = "label" /\ Line.label \in Labels \ DOMAIN symbol_table_
    /\ UNCHANGED <<source, pass, section, code, back_patch_, errors_>>
    /\ DOMAIN symbol_table_' = DOMAIN symbol_table_ \cup {Line.label}
    /\ \A l \in DOMAIN symbol_table_ : symbol_table_'[l] = symbol_table_[l]
    /\ symbol_table_'[Line.label]
           = [address |-> 4 * instruction_index_, line |-> pos, isData |-> FALSE]

\* Units without a label, or whose reference leads to it, or is in back_patch_.
EmitText ==
    /\ pass = "text" /\ Reading /\ Advance
    /\ Line.kind \notin {"section", "label"}
    /\ UNCHANGED <<source, pass, section, symbol_table_, errors_>>
    /\ instruction_index_' \in Nat /\ instruction_index_ =< instruction_index_'
    /\ \A i \in 1 .. instruction_index_ :
          /\ intermediate_code_'[i] = intermediate_code_[i]
          /\ instruction_number_line_number_mapping_'[i]
                 = instruction_number_line_number_mapping_[i]
    /\ \A i \in (instruction_index_ + 1) .. instruction_index_' :
          instruction_number_line_number_mapping_'[i] = pos
    /\ \A b \in 1 .. Len(back_patch_) :
          b \in 1 .. Len(back_patch_') /\ back_patch_'[b] = back_patch_[b]
    /\ \A i \in (instruction_index_ + 1) .. instruction_index_' :
          \/ intermediate_code_'[i].label = NoLabel
          \/ Leads(i)'
          \/ \E b \in 1 .. Len(back_patch_') : back_patch_'[b] = i - 1

\* The loader's steps over the data.
LoadData ==
    /\ pass = "load" /\ pass' \in {"load", "loaded"}
    /\ UNCHANGED <<source, section, symbol_table_, code, back_patch_, errors_>>

LEMMA DataLabelReads ==
    ASSUME TypeOK, DataLabel PROVE ReadData
<1>1. /\ pass = "data" /\ Reading /\ Advance /\ Line.kind = "label"
      /\ UNCHANGED <<input, pass, section, code, back_patch_>>
    BY DEF DataLabel, InData
<1>. DEFINE entry == [address |-> data_index_', line |-> pos, isData |-> TRUE]
<1>2. symbol_table_' = [l \in DOMAIN symbol_table_ \cup {Line.label} |->
                            IF l = Line.label THEN entry ELSE symbol_table_[l]]
    BY Zenon DEF DataLabel
<1>3. entry.isData = TRUE
    OBVIOUS
<1>. HIDE DEF entry
<1>4. ASSUME NEW l \in DOMAIN symbol_table_', ~symbol_table_'[l].isData
      PROVE  l \in DOMAIN symbol_table_ /\ symbol_table_'[l] = symbol_table_[l]
    <2>1. l # Line.label
        BY <1>2, <1>3, <1>4
    <2> QED BY <1>2, <2>1
<1>5. Line.kind # "section"
    BY <1>1
<1> QED BY <1>1, <1>4, <1>5, Zenon DEF ReadData, SectionRead, input

LEMMA TextLabelEnters ==
    ASSUME TypeOK, TextLabel PROVE ReadText \/ EnterLabel
<1>1. /\ pass = "text" /\ Reading /\ Advance /\ Line.kind = "label"
      /\ UNCHANGED <<input, pass, section, code, back_patch_>>
    BY DEF TextLabel, InText
<1>2. Line.label \in Labels /\ Line.kind # "section"
    BY <1>1, LineFields DEF TypeOK
<1>3. CASE Line.label \in DOMAIN symbol_table_
    <2>1. errors_' /\ UNCHANGED symbol_table_
        BY <1>3, Zenon DEF TextLabel
    <2> QED BY <1>1, <1>2, <2>1, Zenon DEF ReadText, SectionRead, input
<1>4. CASE Line.label \notin DOMAIN symbol_table_
    <2>. DEFINE entry == [address |-> 4 * instruction_index_, line |-> pos, isData |-> FALSE]
    <2>1. /\ symbol_table_' = [l \in DOMAIN symbol_table_ \cup {Line.label} |->
                                  IF l = Line.label THEN entry ELSE symbol_table_[l]]
          /\ UNCHANGED errors_
        BY <1>4, Zenon DEF TextLabel
    <2>. HIDE DEF entry
    <2>2. /\ DOMAIN symbol_table_' = DOMAIN symbol_table_ \cup {Line.label}
          /\ \A l \in DOMAIN symbol_table_ : symbol_table_'[l] = symbol_table_[l]
          /\ symbol_table_'[Line.label] = entry
        BY <1>4, <2>1
    <2> QED BY <1>1, <1>2, <1>4, <2>1, <2>2, Zenon DEF EnterLabel, input, entry
<1> QED BY <1>3, <1>4

LEMMA ErrorReads ==
    ASSUME Reading, pass = "text", Advance, Error, Line.kind # "section"
    PROVE  ReadText
<1>1. errors_' /\ UNCHANGED <<input, pass, section, symbol_table_, code, back_patch_>>
    BY Zenon DEF Error
<1> QED BY <1>1, Zenon DEF ReadText, SectionRead, input

LEMMA PlainEmits ==
    ASSUME TypeOK, Instruction \/ Address \/ LoadImmediate PROVE ReadText \/ EmitText
<1>1. /\ Reading /\ pass = "text" /\ Advance /\ Line.kind \notin {"section", "label"}
      /\ Error \/ \E units \in PlainUnits : EmitAll(units)
    BY PlainStep
<1>2. CASE Error
    BY <1>1, <1>2, ErrorReads
<1>3. ASSUME NEW units \in PlainUnits, EmitAll(units) PROVE EmitText
    <2>1. /\ units \in Seq(UnitType) /\ Emit(units)
          /\ \A i \in 1 .. Len(units) : units[i].label = NoLabel
          /\ UNCHANGED <<input, pass, section, symbol_table_, errors_, back_patch_>>
        BY <1>3 DEF PlainUnits, EmitAll
    <2>2. /\ instruction_index_ \in Nat /\ Len(units) \in Nat
          /\ instruction_index_' = instruction_index_ + Len(units)
          /\ \A i \in 1 .. instruction_index_ :
                /\ intermediate_code_'[i] = intermediate_code_[i]
                /\ instruction_number_line_number_mapping_'[i]
                       = instruction_number_line_number_mapping_[i]
          /\ \A i \in (instruction_index_ + 1) .. instruction_index_' :
                /\ intermediate_code_'[i] = units[i - instruction_index_]
                /\ instruction_number_line_number_mapping_'[i] = pos
        BY <2>1, Emitted DEF TypeOK
    <2>3. \A i \in (instruction_index_ + 1) .. instruction_index_' :
              intermediate_code_'[i].label = NoLabel
        <3> TAKE i \in (instruction_index_ + 1) .. instruction_index_'
        <3>1. i - instruction_index_ \in 1 .. Len(units)
            BY <2>2
        <3> QED BY <2>1, <2>2, <3>1
    <2>4. instruction_index_' \in Nat /\ instruction_index_ =< instruction_index_'
        BY <2>2
    <2> QED BY <1>1, <2>1, <2>2, <2>3, <2>4, Zenon DEF EmitText, input
<1> QED BY <1>1, <1>2, <1>3

\* Appending keeps what a list has.
LEMMA Appended ==
    ASSUME NEW T, NEW s \in Seq(T), NEW e \in T
    PROVE  /\ \A b \in 1 .. Len(s) : b \in 1 .. Len(Append(s, e)) /\ Append(s, e)[b] = s[b]
           /\ Len(s) + 1 \in 1 .. Len(Append(s, e))
           /\ Append(s, e)[Len(s) + 1] = e
<1>1. Len(s) \in Nat
    BY LenProperties
<1> QED BY <1>1, AppendProperties

LEMMA ReferenceEmits ==
    ASSUME TypeOK, Reference PROVE ReadText \/ EmitText
<1>1. /\ Reading /\ pass = "text" /\ Advance /\ Line.kind \notin {"section", "label"}
    BY ReferenceStep
<1>2. CASE Error
    BY <1>1, <1>2, ErrorReads
<1>3. ASSUME NEW u \in UnitType, Emit(<<u>>)
      PROVE  /\ instruction_index_ \in Nat /\ instruction_index_' = instruction_index_ + 1
             /\ instruction_index_' \in Nat /\ instruction_index_ =< instruction_index_'
             /\ intermediate_code_'[instruction_index_ + 1] = u
             /\ \A i \in 1 .. instruction_index_ :
                   /\ intermediate_code_'[i] = intermediate_code_[i]
                   /\ instruction_number_line_number_mapping_'[i]
                          = instruction_number_line_number_mapping_[i]
             /\ \A i \in (instruction_index_ + 1) .. instruction_index_' :
                   /\ i = instruction_index_ + 1
                   /\ instruction_number_line_number_mapping_'[i] = pos
    <2>1. <<u>> \in Seq(UnitType) /\ Len(<<u>>) = 1 /\ <<u>>[1] = u
        OBVIOUS
    <2>2. /\ instruction_index_ \in Nat /\ instruction_index_' = instruction_index_ + 1
          /\ \A i \in 1 .. instruction_index_ :
                   /\ intermediate_code_'[i] = intermediate_code_[i]
                   /\ instruction_number_line_number_mapping_'[i]
                          = instruction_number_line_number_mapping_[i]
          /\ \A i \in (instruction_index_ + 1) .. instruction_index_' :
                   /\ intermediate_code_'[i] = <<u>>[i - instruction_index_]
                   /\ instruction_number_line_number_mapping_'[i] = pos
        BY <1>3, <2>1, Emitted DEF TypeOK
    <2>3. instruction_index_ + 1 \in (instruction_index_ + 1) .. instruction_index_'
        BY <2>2
    <2>4. (instruction_index_ + 1) - instruction_index_ = 1
        BY <2>2
    <2>5. intermediate_code_'[instruction_index_ + 1] = u
        BY <2>1, <2>2, <2>3, <2>4
    <2> QED BY <2>2, <2>5
<1>4. ASSUME NEW u \in UnitType, EmitAll(<<u>>),
             u.label = Line.label, u.resolved, IsTextLabel(Line.label),
             u.imm = symbol_table_[Line.label].address - 4 * instruction_index_
      PROVE  EmitText
    <2>1. /\ Emit(<<u>>)
          /\ UNCHANGED <<input, pass, section, symbol_table_, errors_, back_patch_>>
        BY <1>4 DEF EmitAll
    <2>2. ASSUME NEW n \in (instruction_index_ + 1) .. instruction_index_'
          PROVE  Leads(n)'
        <3>1. n = instruction_index_ + 1 /\ intermediate_code_'[n] = u
            BY <1>3, <2>1
        <3>2. symbol_table_[Line.label].address \in Nat /\ instruction_index_ \in Nat
            BY <1>4 DEF TypeOK, Symbol, IsTextLabel
        <3>3. 4 * (n - 1) + u.imm = symbol_table_[Line.label].address
            BY <1>4, <3>1, <3>2
        <3>4. symbol_table_' = symbol_table_ /\ Line.label \in DOMAIN symbol_table_
            BY <1>4, <2>1 DEF IsTextLabel
        <3> QED BY <1>4, <3>1, <3>3, <3>4, Zenon DEF Leads
    <2> QED BY <1>1, <1>3, <2>1, <2>2, Zenon DEF EmitText, input
<1>5. ASSUME NEW u \in UnitType, Emit(<<u>>), u.label = Line.label,
             back_patch_' = Append(back_patch_, instruction_index_),
             UNCHANGED <<input, pass, section, symbol_table_, data, errors_, loaded>>
      PROVE  EmitText
    <2>1. /\ \A b \in 1 .. Len(back_patch_) :
                b \in 1 .. Len(back_patch_') /\ back_patch_'[b] = back_patch_[b]
          /\ Len(back_patch_) + 1 \in 1 .. Len(back_patch_')
          /\ back_patch_'[Len(back_patch_) + 1] = instruction_index_
        <3>1. back_patch_ \in Seq(0 .. instruction_index_)
            <4>1. instruction_index_ \in Nat
                BY DEF TypeOK
            <4>2. (instruction_index_ + 1) - 1 = instruction_index_
                BY <4>1
            <4> QED BY <4>1, <4>2, PlacesGrow DEF TypeOK
        <3>2. instruction_index_ \in 0 .. instruction_index_
            BY DEF TypeOK
        <3> QED BY <1>5, <3>1, <3>2, Appended
    <2>2. instruction_index_ = (instruction_index_ + 1) - 1
        BY DEF TypeOK
    <2> QED BY <1>1, <1>3, <1>5, <2>1, <2>2, Zenon DEF EmitText, input
<1> QED BY <1>2, <1>4, <1>5, ReferenceStep

\* Every step is of one of these kinds.
LEMMA StepKinds ==
    ASSUME TypeOK, Next
    PROVE  \/ ReadData \/ EndOfData
           \/ ReadText \/ EnterLabel \/ EmitText \/ EndOfText
           \/ BackPatch \/ Refuse
           \/ LoadText \/ LoadData
<1>1. CASE Section
    <2>1. /\ Reading /\ Advance /\ Line.kind = "section" /\ section' = Line.name
          /\ UNCHANGED <<input, pass, symbol_table_, code, back_patch_, errors_>>
        BY <1>1 DEF Section
    <2>2. pass \in {"data", "text"}
        BY <2>1 DEF Reading
    <2>3. Line.kind # "label"
        BY <2>1
    <2> QED BY <2>1, <2>2, <2>3, Zenon DEF ReadData, ReadText, SectionRead, input
<1>2. CASE Skip
    <2>1. /\ Reading /\ Advance /\ Line.kind # "section"
          /\ UNCHANGED <<input, pass, section, symbol_table_, code, back_patch_, errors_>>
        BY <1>2 DEF Skip
    <2>2. pass \in {"data", "text"}
        BY <2>1 DEF Reading
    <2>3. pass = "text" => section \in {"data", "bss"}
        BY <1>2 DEF Skip
    <2> QED BY <2>1, <2>2, <2>3, Zenon DEF ReadData, ReadText, SectionRead, input
<1>3. CASE DataLabel
    BY <1>3, DataLabelReads
<1>4. CASE DataDirective \/ InvalidDirective
    <2>1. /\ Reading /\ Advance /\ Line.kind # "section" /\ pass = "data"
          /\ UNCHANGED <<input, pass, section, symbol_table_, code, back_patch_>>
        BY <1>4 DEF DataDirective, InvalidDirective, InData, Error
    <2> QED BY <2>1, Zenon DEF ReadData, SectionRead, input
<1>5. CASE TextLabel
    BY <1>5, TextLabelEnters
<1>6. CASE Instruction \/ Address \/ LoadImmediate
    BY <1>6, PlainEmits
<1>7. CASE Reference
    BY <1>7, ReferenceEmits
<1>8. CASE Unexpected
    <2>1. Reading /\ pass = "text" /\ Advance /\ Error /\ Line.kind # "section"
        BY <1>8 DEF Unexpected, InText
    <2> QED BY <2>1, ErrorReads
<1>9. CASE LoadItem \/ EndOfLoad
    BY <1>9 DEF LoadItem, EndOfLoad, LoadData, input
<1> QED BY <1>1, <1>2, <1>3, <1>4, <1>5, <1>6, <1>7, <1>8, <1>9 DEF Next

-----------------------------------------------------------------------------
(* The inductive invariant.                                                *)

LEMMA InitLink == Init => LinkInv
<1> SUFFICES ASSUME Init PROVE LinkInv
    OBVIOUS
<1>1. /\ pass = "data" /\ pos = 1 /\ section = "none" /\ instruction_index_ = 0
      /\ symbol_table_ = [l \in {} |-> 0] /\ source \in Seq(Lines)
    BY AssemblerAssumption DEF Init
<1>2. SectionKnown
    <2>1. Len(source) \in Nat /\ 1 .. (1 - 1) = {}
        BY <1>1, LenProperties
    <2> QED BY <1>1, <2>1 DEF SectionKnown
<1>3. LinesRise
    BY <1>1 DEF LinesRise
<1>4. LabelsPlaced
    BY <1>1 DEF LabelsPlaced
<1>5. UnitsLinked
    BY <1>1 DEF UnitsLinked
<1>6. pass \in {"load", "loaded"} => ~errors_
    BY <1>1
<1> QED BY <1>2, <1>3, <1>4, <1>5, <1>6 DEF LinkInv

\* A line more of the text.
LEMMA TextRead ==
    ASSUME TypeOK, pass = "text", Reading, Advance, UNCHANGED <<source, pass>>
    PROVE  /\ ReadLines = pos - 1 /\ ReadLines' = pos
           /\ pos \in 1 .. Len(source) /\ ReadLines \in Nat
<1>1. pos \in Nat \ {0} /\ Len(source) \in Nat /\ pos =< Len(source) /\ pos' = pos + 1
    BY LenProperties DEF TypeOK, Reading, Advance
<1> QED BY <1>1 DEF ReadLines

\* Behind the text the lines and the labels stay.
LEMMA AfterText ==
    ASSUME TypeOK, SectionKnown, EndOfText \/ BackPatch \/ Refuse \/ LoadText \/ LoadData
    PROVE  /\ ReadLines = Len(source) /\ ReadLines' = ReadLines /\ ReadLines \in Nat
           /\ pass # "data" /\ pass' \notin {"data", "text"}
           /\ UNCHANGED <<source, symbol_table_, instruction_index_,
                          instruction_number_line_number_mapping_>>
           /\ errors_ => errors_'
<1>1. Len(source) \in Nat /\ pos \in Nat
    BY LenProperties DEF TypeOK
<1>2. CASE EndOfText
    <2>1. /\ pass = "text" /\ pos > Len(source) /\ pass' = "patch"
          /\ UNCHANGED <<input, symbol_table_, code, errors_>>
        BY <1>2 DEF EndOfText
    <2>2. pos - 1 = Len(source)
        BY <1>1, <2>1 DEF SectionKnown
    <2>3. ReadLines = Len(source) /\ ReadLines' = Len(source)
        BY <2>1, <2>2 DEF ReadLines, input
    <2> QED BY <1>1, <2>1, <2>3 DEF input, code
<1>3. CASE BackPatch
    <2>1. /\ pass = "patch" /\ (errors_ => errors_')
          /\ UNCHANGED <<input, pass, symbol_table_, instruction_index_,
                         instruction_number_line_number_mapping_>>
        BY <1>3, Zenon DEF BackPatch
    <2> QED BY <1>1, <2>1 DEF ReadLines, input
<1>4. CASE Refuse \/ LoadText \/ LoadData
    <2>1. /\ pass \in {"patch", "load"} /\ pass' \in {"refused", "load", "loaded"}
          /\ UNCHANGED <<source, symbol_table_, code, errors_>>
        BY <1>4 DEF Refuse, LoadText, LoadData, input
    <2> QED BY <1>1, <2>1 DEF ReadLines, code
<1> QED BY <1>2, <1>3, <1>4

LEMMA SectionReads ==
    ASSUME TypeOK, SectionKnown, Reading, Advance, SectionRead, UNCHANGED <<source, pass>>
    PROVE  SectionKnown'
<1>1. /\ pos \in Nat \ {0} /\ Len(source) \in Nat /\ pos =< Len(source) /\ pos' = pos + 1
      /\ pass \in {"data", "text"} /\ source' = source /\ pass' = pass
    BY LenProperties DEF TypeOK, Reading, Advance
<1>2. pos' =< Len(source') + 1
    BY <1>1
<1>3. CASE Line.kind = "section" /\ section' = Line.name
    <2>1. pos \in 1 .. (pos' - 1) /\ (pos + 1) .. (pos' - 1) = {}
        BY <1>1
    <2>2. SectionAt(pos, section)'
        BY <1>1, <1>3, <2>1 DEF SectionAt, Line
    <2> QED BY <1>2, <2>2 DEF SectionKnown
<1>4. CASE Line.kind # "section" /\ UNCHANGED section
    <2>1. CASE section = "none" /\ \A j \in 1 .. (pos - 1) : source[j].kind # "section"
        <3>1. \A j \in 1 .. (pos' - 1) : source'[j].kind # "section"
            BY <1>1, <1>4, <2>1 DEF Line
        <3> QED BY <1>2, <1>4, <2>1, <3>1 DEF SectionKnown
    <2>2. CASE SectionAt(pos, section)
        <3>1. PICK j \in 1 .. (pos - 1) :
                    /\ source[j].kind = "section" /\ source[j].name = section
                    /\ \A i \in (j + 1) .. (pos - 1) : source[i].kind # "section"
            BY <2>2 DEF SectionAt
        <3>2. j \in 1 .. (pos' - 1)
            BY <1>1
        <3>3. \A i \in (j + 1) .. (pos' - 1) : source[i].kind # "section"
            BY <1>1, <1>4, <3>1 DEF Line
        <3>4. SectionAt(pos, section)'
            BY <1>1, <1>4, <3>1, <3>2, <3>3 DEF SectionAt
        <3> QED BY <1>2, <3>4 DEF SectionKnown
    <2> QED BY <1>1, <2>1, <2>2 DEF SectionKnown
<1> QED BY <1>3, <1>4 DEF SectionRead

LEMMA SectionStep ==
    ASSUME TypeOK, SectionKnown, Next PROVE SectionKnown'
<1>1. CASE ReadData \/ ReadText
    BY <1>1, SectionReads DEF ReadData, ReadText
<1>2. CASE EnterLabel
    <2>1. Reading /\ Advance /\ SectionRead /\ UNCHANGED <<source, pass>>
        BY <1>2 DEF EnterLabel, SectionRead
    <2> QED BY <2>1, SectionReads
<1>3. CASE EmitText
    <2>1. Reading /\ Advance /\ SectionRead /\ UNCHANGED <<source, pass>>
        BY <1>3 DEF EmitText, SectionRead
    <2> QED BY <2>1, SectionReads
<1>4. CASE EndOfData
    <2>1. pass' = "text" /\ pos' = 1 /\ section' = "none" /\ source' = source
        BY <1>4 DEF EndOfData, input
    <2>2. Len(source) \in Nat /\ 1 .. (1 - 1) = {}
        BY LenProperties DEF TypeOK
    <2> QED BY <2>1, <2>2 DEF SectionKnown
<1>5. CASE EndOfText \/ BackPatch \/ Refuse \/ LoadText \/ LoadData
    BY <1>5, AfterText DEF SectionKnown
<1> QED BY <1>1, <1>2, <1>3, <1>4, <1>5, StepKinds

\* The steps of the kinds that leave the code alone.
LEMMA QuietSteps ==
    ASSUME TypeOK, SectionKnown, Next, ~EmitText
    PROVE  /\ ReadLines \in Nat /\ ReadLines' \in Nat /\ ReadLines =< ReadLines'
           /\ UNCHANGED <<instruction_index_, instruction_number_line_number_mapping_>>
           /\ pass' = "data" => pass = "data"
<1>1. CASE ReadData
    BY <1>1 DEF ReadData, ReadLines, code
<1>2. CASE EndOfData
    BY <1>2 DEF EndOfData, ReadLines, code
<1>3. CASE ReadText
    <2>1. /\ pass = "text" /\ Reading /\ Advance /\ UNCHANGED <<source, pass>>
          /\ UNCHANGED code
        BY <1>3 DEF ReadText
    <2>2. ReadLines = pos - 1 /\ ReadLines' = pos /\ ReadLines \in Nat /\ pos \in Nat
        BY <2>1, TextRead
    <2> QED BY <2>1, <2>2 DEF code
<1>4. CASE EnterLabel
    <2>1. /\ pass = "text" /\ Reading /\ Advance /\ UNCHANGED <<source, pass>>
          /\ UNCHANGED code
        BY <1>4 DEF EnterLabel
    <2>2. ReadLines = pos - 1 /\ ReadLines' = pos /\ ReadLines \in Nat /\ pos \in Nat
        BY <2>1, TextRead
    <2> QED BY <2>1, <2>2 DEF code
<1>5. CASE EndOfText \/ BackPatch \/ Refuse \/ LoadText \/ LoadData
    BY <1>5, AfterText
<1> QED BY <1>1, <1>2, <1>3, <1>4, <1>5, StepKinds

\* The facts about emitted lines that the invariant needs.
LEMMA EmittedLines ==
    ASSUME TypeOK, LinesRise, EmitText
    PROVE  /\ ReadLines = pos - 1 /\ ReadLines' = pos /\ pos \in Nat \ {0}
           /\ pos \in 1 .. Len(source)
           /\ instruction_index_ \in Nat /\ instruction_index_' \in Nat
           /\ instruction_index_ =< instruction_index_'
           /\ \A i \in 1 .. instruction_index_ :
                 /\ instruction_number_line_number_mapping_[i] \in Nat
                 /\ instruction_number_line_number_mapping_[i] < pos
                 /\ instruction_number_line_number_mapping_'[i]
                        = instruction_number_line_number_mapping_[i]
           /\ \A i \in (instruction_index_ + 1) .. instruction_index_' :
                 instruction_number_line_number_mapping_'[i] = pos
<1>1. ReadLines = pos - 1 /\ ReadLines' = pos /\ pos \in 1 .. Len(source)
    BY TextRead DEF EmitText
<1>2. instruction_index_ \in Nat /\ pos \in Nat \ {0}
    BY DEF TypeOK
<1>3. \A i \in 1 .. instruction_index_ : instruction_number_line_number_mapping_[i] \in Nat
    BY DEF TypeOK
<1>4. \A i \in 1 .. instruction_index_ :
          instruction_number_line_number_mapping_[i] =< ReadLines
    BY DEF LinesRise
<1>5. \A i \in 1 .. instruction_index_ : instruction_number_line_number_mapping_[i] < pos
    BY <1>1, <1>2, <1>3, <1>4
<1> QED BY <1>1, <1>2, <1>3, <1>5 DEF EmitText

LEMMA LinesStep ==
    ASSUME TypeOK, SectionKnown, LinesRise, Next PROVE LinesRise'
<1>1. CASE ~EmitText
    <2>1. /\ ReadLines \in Nat /\ ReadLines' \in Nat /\ ReadLines =< ReadLines'
          /\ UNCHANGED <<instruction_index_, instruction_number_line_number_mapping_>>
          /\ pass' = "data" => pass = "data"
        BY <1>1, QuietSteps
    <2>2. \A i \in 1 .. instruction_index_ :
              instruction_number_line_number_mapping_[i] \in Nat
        BY DEF TypeOK
    <2>. HIDE DEF ReadLines
    <2> QED BY <2>1, <2>2 DEF LinesRise
<1>2. CASE EmitText
    <2>1. pass' = "text"
        BY <1>2 DEF EmitText
    <2>. DEFINE lines == instruction_number_line_number_mapping_
    <2>2. /\ ReadLines' = pos /\ pos \in Nat \ {0}
          /\ instruction_index_ \in Nat /\ instruction_index_' \in Nat
          /\ instruction_index_ =< instruction_index_'
          /\ \A i \in 1 .. instruction_index_ :
                lines[i] \in Nat /\ lines[i] < pos /\ lines'[i] = lines[i]
          /\ \A i \in (instruction_index_ + 1) .. instruction_index_' : lines'[i] = pos
        BY <1>2, EmittedLines
    <2>3. \A i \in 1 .. instruction_index_' :
              \/ i \in 1 .. instruction_index_
              \/ i \in (instruction_index_ + 1) .. instruction_index_'
        BY <2>2
    <2>4. \A i, j \in 1 .. instruction_index_ : i =< j => lines[i] =< lines[j]
        BY DEF LinesRise
    <2>. HIDE DEF lines
    <2>5. ASSUME NEW i \in 1 .. instruction_index_' PROVE lines'[i] =< ReadLines'
        BY <2>2, <2>3
    <2>6. ASSUME NEW i \in 1 .. instruction_index_', NEW j \in 1 .. instruction_index_', i =< j
          PROVE  lines'[i] =< lines'[j]
        <3>1. CASE j \in 1 .. instruction_index_
            <4>1. i \in 1 .. instruction_index_
                BY <2>2, <2>6, <3>1
            <4> QED BY <2>2, <2>4, <2>6, <3>1, <4>1
        <3>2. CASE j \in (instruction_index_ + 1) .. instruction_index_'
            BY <2>2, <2>3, <3>2
        <3> QED BY <2>3, <3>1, <3>2
    <2> QED BY <2>1, <2>5, <2>6 DEF LinesRise, lines
<1> QED BY <1>1, <1>2

\* A label of the text is placed for good.
LEMMA SeparatesKept ==
    ASSUME TypeOK, SectionKnown, LinesRise, Next, NEW s \in Symbol, Separates(s)
    PROVE  Separates(s)'
<1>1. s.line \in Nat
    BY DEF Symbol
<1>2. CASE ~EmitText
    <2>1. /\ ReadLines \in Nat /\ ReadLines' \in Nat /\ ReadLines =< ReadLines'
          /\ UNCHANGED <<instruction_index_, instruction_number_line_number_mapping_>>
        BY <1>2, QuietSteps
    <2> QED BY <1>1, <2>1 DEF Separates
<1>3. CASE EmitText
    <2>. DEFINE lines == instruction_number_line_number_mapping_
    <2>1. /\ ReadLines = pos - 1 /\ ReadLines' = pos /\ pos \in Nat \ {0}
          /\ instruction_index_ \in Nat /\ instruction_index_' \in Nat
          /\ instruction_index_ =< instruction_index_'
          /\ \A i \in 1 .. instruction_index_ : lines'[i] = lines[i]
          /\ \A i \in (instruction_index_ + 1) .. instruction_index_' : lines'[i] = pos
        BY <1>3, EmittedLines
    <2>. HIDE DEF lines
    <2>2. s.line < pos
        BY <1>1, <2>1 DEF Separates
    <2>3. PICK m \in 0 .. instruction_index_ :
              /\ s.address = 4 * m
              /\ \A j \in 1 .. instruction_index_ : lines[j] < s.line <=> j =< m
        BY DEF Separates, lines
    <2>4. m \in 0 .. instruction_index_'
        BY <2>1
    <2>5. ASSUME NEW j \in 1 .. instruction_index_' PROVE lines'[j] < s.line <=> j =< m
        <3>1. CASE j \in 1 .. instruction_index_
            BY <2>1, <2>3, <3>1
        <3>2. CASE j \in (instruction_index_ + 1) .. instruction_index_'
            <4>1. lines'[j] = pos /\ ~(j =< m)
                BY <2>1, <3>2
            <4> QED BY <4>1, <1>1, <2>1, <2>2
        <3> QED BY <2>1, <3>1, <3>2
    <2>6. s.line =< ReadLines'
        BY <1>1, <2>1, <2>2
    <2> QED BY <2>3, <2>4, <2>5, <2>6 DEF Separates, lines
<1> QED BY <1>2, <1>3

\* No step forgets a text label, and the new one is at its line.
LEMMA LabelKept ==
    ASSUME TypeOK, SectionKnown, Next, NEW l \in DOMAIN symbol_table_', ~symbol_table_'[l].isData
    PROVE  \/ l \in DOMAIN symbol_table_ /\ symbol_table_'[l] = symbol_table_[l]
           \/ EnterLabel /\ l = Line.label
<1>1. CASE ReadData
    BY <1>1 DEF ReadData
<1>2. CASE EndOfData \/ ReadText \/ EmitText
    BY <1>2 DEF EndOfData, ReadText, EmitText
<1>3. CASE EnterLabel
    BY <1>3 DEF EnterLabel
<1>4. CASE EndOfText \/ BackPatch \/ Refuse \/ LoadText \/ LoadData
    BY <1>4, AfterText
<1> QED BY <1>1, <1>2, <1>3, <1>4, StepKinds

\* In a line of the text the section is known to be none or the text.
LEMMA SectionText ==
    ASSUME TypeOK, SectionKnown, Reading, TextAt(pos)
    PROVE  section \in {"none", "text"}
<1>1. pass \in {"data", "text"}
    BY DEF Reading
<1>2. CASE section = "none"
    BY <1>2
<1>3. CASE SectionAt(pos, section)
    <2>1. PICK j \in 1 .. (pos - 1) :
                /\ source[j].kind = "section" /\ source[j].name = section
                /\ \A i \in (j + 1) .. (pos - 1) : source[i].kind # "section"
        BY <1>3 DEF SectionAt
    <2>2. PICK k \in 1 .. (pos - 1) :
                /\ source[k].kind = "section" /\ source[k].name = "text"
                /\ \A i \in (k + 1) .. (pos - 1) : source[i].kind # "section"
        BY <2>1 DEF TextAt, SectionAt
    <2>3. j = k
        <3>1. ~(j < k)
            <4> SUFFICES ASSUME j < k PROVE FALSE
                OBVIOUS
            <4>1. k \in (j + 1) .. (pos - 1)
                OBVIOUS
            <4> QED BY <2>1, <2>2, <4>1
        <3>2. ~(k < j)
            <4> SUFFICES ASSUME k < j PROVE FALSE
                OBVIOUS
            <4>1. j \in (k + 1) .. (pos - 1)
                OBVIOUS
            <4> QED BY <2>1, <2>2, <4>1
        <3> QED BY <3>1, <3>2
    <2> QED BY <2>1, <2>2, <2>3
<1> QED BY <1>1, <1>2, <1>3 DEF SectionKnown

LEMMA LabelsStep ==
    ASSUME TypeOK, TypeOK', LinkInv, Next PROVE LabelsPlaced'
<1>. USE DEF LinkInv
<1>1. ASSUME NEW l \in DOMAIN symbol_table_', ~symbol_table_'[l].isData
      PROVE  Separates(symbol_table_[l])'
    <2>. DEFINE s == symbol_table_'[l]
    <2>1. \A t \in Symbol : t = s /\ Separates(t)' => Separates(symbol_table_[l])'
        BY DEF Separates
    <2>2. s \in Symbol
        BY DEF TypeOK
    <2>3. CASE l \in DOMAIN symbol_table_ /\ symbol_table_'[l] = symbol_table_[l]
        <3>1. IsTextLabel(l)
            BY <1>1, <2>3 DEF IsTextLabel
        <3>2. Separates(symbol_table_[l])
            BY <2>3, <3>1 DEF LabelsPlaced
        <3>3. ASSUME NEW t \in Symbol, t = symbol_table_[l] PROVE Separates(t)'
            <4>1. Separates(t)
                BY <3>2, <3>3 DEF Separates
            <4> QED BY <4>1, SeparatesKept
        <3> QED BY <2>1, <2>2, <2>3, <3>3
    <2>4. CASE EnterLabel /\ l = Line.label
        <3>. DEFINE t == [address |-> 4 * instruction_index_, line |-> pos, isData |-> FALSE]
        <3>1. /\ pass = "text" /\ Reading /\ Advance /\ UNCHANGED <<source, pass, code>>
              /\ symbol_table_'[l] = t
            BY <2>4 DEF EnterLabel
        <3>2. ReadLines = pos - 1 /\ ReadLines' = pos /\ pos \in Nat
            BY <3>1, TextRead
        <3>3. /\ instruction_index_ \in Nat /\ instruction_index_' = instruction_index_
              /\ instruction_number_line_number_mapping_'
                    = instruction_number_line_number_mapping_
              /\ \A j \in 1 .. instruction_index_ :
                    instruction_number_line_number_mapping_[j] \in Nat
            BY <3>1 DEF TypeOK, code
        <3>4. \A j \in 1 .. instruction_index_ :
                    instruction_number_line_number_mapping_[j] =< ReadLines
            BY DEF LinesRise
        <3>5. /\ symbol_table_'[l].line = pos
              /\ symbol_table_'[l].address = 4 * instruction_index_
            BY <3>1
        <3>6. \A j \in 1 .. instruction_index_' :
                    instruction_number_line_number_mapping_'[j] < pos <=> j =< instruction_index_
            BY <3>2, <3>3, <3>4
        <3>7. instruction_index_ \in 0 .. instruction_index_'
            BY <3>3
        <3>8. pos =< ReadLines'
            BY <3>2
        <3>. HIDE DEF t
        <3> QED BY <3>5, <3>6, <3>7, <3>8 DEF Separates
    <2> QED BY <1>1, <2>3, <2>4, LabelKept
<1>2. ASSUME pass' # "data", ~errors_',
             NEW k \in 1 .. ReadLines', NEW l \in Labels, Defines(k, l)', TextAt(k)'
      PROVE  IsTextLabel(l)' /\ symbol_table_'[l].line = k
    <2>1. CASE EndOfData
        <3>1. ReadLines' = 0
            BY <2>1 DEF EndOfData, ReadLines
        <3> QED BY <3>1
    <2>2. CASE ReadData
        BY <1>2, <2>2 DEF ReadData
    <2>3. ASSUME source' = source, pass # "data", ~errors_, k \in 1 .. ReadLines
          PROVE  l \in DOMAIN symbol_table_ /\ ~symbol_table_[l].isData
                    /\ symbol_table_[l].line = k
        <3>1. Defines(k, l) /\ TextAt(k)
            BY <1>2, <2>3 DEF Defines, TextAt, SectionAt
        <3> QED BY <2>3, <3>1, Zenon DEF LabelsPlaced, IsTextLabel
    <2>4. ASSUME pass = "text", Reading, Advance, UNCHANGED <<source, pass>>
          PROVE  /\ k \in 1 .. ReadLines \/ k = pos
                 /\ k = pos => /\ Line.kind = "label" /\ Line.label = l
                               /\ section \in {"none", "text"}
        <3>1. ReadLines = pos - 1 /\ ReadLines' = pos /\ pos \in Nat
            BY <2>4, TextRead
        <3>2. k \in 1 .. ReadLines \/ k = pos
            BY <3>1
        <3>3. ASSUME k = pos
              PROVE  Line.kind = "label" /\ Line.label = l /\ section \in {"none", "text"}
            <4>1. Defines(pos, l) /\ TextAt(pos)
                BY <1>2, <2>4, <3>3 DEF Defines, TextAt, SectionAt
            <4> QED BY <2>4, <4>1, SectionText DEF Defines, Line
        <3> QED BY <3>2, <3>3
    <2>5. CASE ReadText
        <3>1. /\ pass = "text" /\ Reading /\ Advance
              /\ UNCHANGED <<source, pass, symbol_table_>>
              /\ errors_ => errors_'
              /\ Line.kind # "label" \/ section \in {"data", "bss"} \/ errors_'
            BY <2>5, Zenon DEF ReadText
        <3>2. ~errors_
            BY <1>2, <3>1, Zenon
        <3>3. ~(k = pos)
            BY <1>2, <2>4, <3>1
        <3> QED BY <2>3, <2>4, <3>1, <3>2, <3>3 DEF IsTextLabel
    <2>6. CASE EnterLabel
        <3>1. /\ pass = "text" /\ Reading /\ Advance
              /\ UNCHANGED <<source, pass, errors_>>
              /\ DOMAIN symbol_table_' = DOMAIN symbol_table_ \cup {Line.label}
              /\ \A x \in DOMAIN symbol_table_ : symbol_table_'[x] = symbol_table_[x]
              /\ symbol_table_'[Line.label]
                    = [address |-> 4 * instruction_index_, line |-> pos, isData |-> FALSE]
            BY <2>6 DEF EnterLabel
        <3>2. ~errors_
            BY <1>2, <3>1, Zenon
        <3>3. CASE k = pos
            BY <2>4, <3>1, <3>3 DEF IsTextLabel
        <3>4. CASE k \in 1 .. ReadLines
            BY <2>3, <3>1, <3>2, <3>4 DEF IsTextLabel
        <3> QED BY <2>4, <3>1, <3>3, <3>4
    <2>7. CASE EmitText
        <3>1. /\ pass = "text" /\ Reading /\ Advance /\ Line.kind # "label"
              /\ UNCHANGED <<source, pass, symbol_table_, errors_>>
            BY <2>7 DEF EmitText
        <3>2. ~errors_
            BY <1>2, <3>1, Zenon
        <3> QED BY <2>3, <2>4, <3>1, <3>2 DEF IsTextLabel
    <2>8. CASE EndOfText \/ BackPatch \/ Refuse \/ LoadText \/ LoadData
        <3>1. /\ ReadLines' = ReadLines /\ pass # "data"
              /\ UNCHANGED <<source, symbol_table_>>
              /\ errors_ => errors_'
            BY <2>8, AfterText
        <3>2. ~errors_
            BY <1>2, <3>1, Zenon
        <3> QED BY <2>3, <3>1, <3>2 DEF IsTextLabel
    <2> QED BY <2>1, <2>2, <2>5, <2>6, <2>7, <2>8, StepKinds
<1> QED BY <1>1, <1>2, Zenon DEF LabelsPlaced, IsTextLabel

\* A unit that leads to its label goes on leading to it, as long as the unit stays
\* and labels are not entered twice.
LEMMA UnitsStep ==
    ASSUME TypeOK, LinkInv, Next PROVE UnitsLinked'
<1>. USE DEF LinkInv
<1> SUFFICES ASSUME ~errors_', NEW i \in 1 .. instruction_index_',
                    intermediate_code_'[i].label # NoLabel
             PROVE  Leads(i)' \/ Waits(i)'
    BY Zenon DEF UnitsLinked
<1>1. CASE ReadData \/ EndOfData
    <2>1. pass = "data" /\ UNCHANGED code
        BY <1>1 DEF ReadData, EndOfData
    <2>2. instruction_index_' = 0
        BY <2>1 DEF LinesRise, code
    <2> QED BY <2>2
<1>2. ASSUME ~errors_, i \in 1 .. instruction_index_,
             intermediate_code_'[i] = intermediate_code_[i]
      PROVE  Leads(i) \/ Waits(i)
    BY <1>2, Zenon DEF UnitsLinked
<1>3. ASSUME Leads(i), intermediate_code_'[i] = intermediate_code_[i],
             \A l \in DOMAIN symbol_table_ :
                l \in DOMAIN symbol_table_' /\ symbol_table_'[l] = symbol_table_[l]
      PROVE  Leads(i)'
    BY <1>3, Zenon DEF Leads
<1>4. CASE ReadText \/ EnterLabel
    <2>1. /\ UNCHANGED <<pass, code, back_patch_>> /\ pass = "text"
          /\ \A l \in DOMAIN symbol_table_ :
                l \in DOMAIN symbol_table_' /\ symbol_table_'[l] = symbol_table_[l]
          /\ errors_ => errors_'
        <3>1. CASE ReadText
            BY <3>1, Zenon DEF ReadText
        <3>2. CASE EnterLabel
            <4>1. DOMAIN symbol_table_ \subseteq DOMAIN symbol_table_'
                BY <3>2 DEF EnterLabel
            <4>2. \A l \in DOMAIN symbol_table_ : symbol_table_'[l] = symbol_table_[l]
                BY <3>2 DEF EnterLabel
            <4>3. UNCHANGED <<pass, code, back_patch_, errors_>> /\ pass = "text"
                BY <3>2 DEF EnterLabel
            <4> QED BY <4>1, <4>2, <4>3, Zenon
        <3> QED BY <1>4, <3>1, <3>2
    <2>2. ~errors_
        BY <2>1, Zenon
    <2>3. /\ i \in 1 .. instruction_index_ /\ intermediate_code_'[i] = intermediate_code_[i]
          /\ back_patch_' = back_patch_ /\ pass' = "text" /\ pass = "text"
        BY <2>1 DEF code
    <2>4. Waits(i) => Waits(i)'
        BY <2>3 DEF Waits
    <2> QED BY <1>2, <1>3, <2>1, <2>2, <2>3, <2>4
<1>5. CASE EmitText
    <2>1. /\ pass = "text" /\ pass' = "text" /\ UNCHANGED <<symbol_table_, errors_>>
          /\ instruction_index_' \in Nat /\ instruction_index_ =< instruction_index_'
          /\ \A b \in 1 .. Len(back_patch_) :
                b \in 1 .. Len(back_patch_') /\ back_patch_'[b] = back_patch_[b]
        BY <1>5 DEF EmitText
    <2>2. ~errors_
        BY <2>1, Zenon
    <2>3. instruction_index_ \in Nat
        BY DEF TypeOK
    <2>4. CASE i \in 1 .. instruction_index_
        <3>1. intermediate_code_'[i] = intermediate_code_[i]
            BY <1>5, <2>4 DEF EmitText
        <3>2. Waits(i) => Waits(i)'
            BY <2>1 DEF Waits
        <3>3. Leads(i) => Leads(i)'
            BY <1>3, <2>1, <3>1
        <3> QED BY <1>2, <2>2, <2>4, <3>1, <3>2, <3>3
    <2>5. CASE i \in (instruction_index_ + 1) .. instruction_index_'
        <3>1. Leads(i)' \/ \E b \in 1 .. Len(back_patch_') : back_patch_'[b] = i - 1
            BY <1>5, <2>5 DEF EmitText
        <3>2. (\E b \in 1 .. Len(back_patch_') : back_patch_'[b] = i - 1) => Waits(i)'
            BY <2>1 DEF Waits
        <3> QED BY <3>1, <3>2
    <2> QED BY <2>1, <2>3, <2>4, <2>5
<1>6. CASE EndOfText
    <2>1. /\ pass = "text" /\ pass' = "patch" /\ pos' = 1
          /\ UNCHANGED <<symbol_table_, code, back_patch_, errors_>>
        BY <1>6 DEF EndOfText
    <2>2. ~errors_
        BY <2>1, Zenon
    <2>3. i \in 1 .. instruction_index_ /\ intermediate_code_'[i] = intermediate_code_[i]
        BY <2>1 DEF code
    <2>4. Waits(i) => Waits(i)'
        BY <2>1 DEF Waits
    <2>5. Leads(i) => Leads(i)'
        BY <1>3, <2>1, <2>3
    <2> QED BY <1>2, <2>2, <2>3, <2>4, <2>5
<1>7. CASE BackPatch
    <2>1. /\ pass = "patch" /\ pos \in 1 .. Len(back_patch_) /\ pos' = pos + 1
          /\ back_patch_[pos] \in 0 .. (instruction_index_ - 1)
          /\ back_patch_[pos] + 1 \in 1 .. instruction_index_
          /\ UNCHANGED <<pass, symbol_table_, instruction_index_, back_patch_>>
        BY <1>7, BackPatchStep DEF Advance
    <2>2. errors_ => errors_'
        BY <1>7, Zenon DEF BackPatch
    <2>3. CASE i = back_patch_[pos] + 1
        <3>1. /\ intermediate_code_'[i].label = intermediate_code_[i].label
              /\ \/ errors_'
                 \/ /\ intermediate_code_[i].label \in DOMAIN symbol_table_
                    /\ intermediate_code_'[i].resolved
                    /\ intermediate_code_'[i].imm
                           = symbol_table_[intermediate_code_[i].label].address - 4 * (i - 1)
            BY <1>7, <2>3, BackPatchStep
        <3>2. /\ intermediate_code_[i].label \in DOMAIN symbol_table_
              /\ intermediate_code_'[i].resolved
              /\ intermediate_code_'[i].imm
                     = symbol_table_[intermediate_code_[i].label].address - 4 * (i - 1)
            BY <3>1, Zenon
        <3>3. symbol_table_[intermediate_code_[i].label].address \in Nat
            <4>1. symbol_table_[intermediate_code_[i].label] \in Symbol
                BY <3>2 DEF TypeOK
            <4> QED BY <4>1 DEF Symbol
        <3>4. 4 * (i - 1) + intermediate_code_'[i].imm
                  = symbol_table_[intermediate_code_[i].label].address
            BY <2>3, <2>1, <3>2, <3>3
        <3> QED BY <2>1, <3>1, <3>2, <3>4, Zenon DEF Leads
    <2>4. CASE i # back_patch_[pos] + 1
        <3>1. i \in 1 .. instruction_index_ /\ intermediate_code_'[i] = intermediate_code_[i]
            BY <1>7, <2>1, <2>4, BackPatchStep
        <3>2. ~errors_
            BY <2>2, Zenon
        <3>3. ASSUME Waits(i) PROVE Waits(i)'
            <4>1. PICK b \in 1 .. Len(back_patch_) : back_patch_[b] = i - 1 /\ b >= pos
                BY <2>1, <3>3 DEF Waits
            <4>2. b # pos
                BY <2>1, <2>4, <3>1, <4>1
            <4>3. b >= pos'
                BY <2>1, <4>1, <4>2
            <4> QED BY <2>1, <4>1, <4>3 DEF Waits
        <3>4. Leads(i) => Leads(i)'
            BY <1>3, <2>1, <3>1
        <3> QED BY <1>2, <3>1, <3>2, <3>3, <3>4
    <2> QED BY <2>3, <2>4
<1>8. CASE Refuse
    <2>1. errors_'
        BY <1>8, Zenon DEF Refuse
    <2> QED BY <2>1
<1>9. CASE LoadText \/ LoadData
    <2>1. UNCHANGED <<symbol_table_, code, errors_>>
        BY <1>9 DEF LoadText, LoadData
    <2>2. ~errors_
        BY <2>1, Zenon
    <2>3. i \in 1 .. instruction_index_ /\ intermediate_code_'[i] = intermediate_code_[i]
        BY <2>1 DEF code
    <2>4. ~Waits(i)
        <3>1. CASE LoadText
            <4>1. pass = "patch" /\ pos > Len(back_patch_)
                BY <3>1 DEF LoadText
            <4>2. pos \in Nat /\ Len(back_patch_) \in Nat
                BY LenProperties DEF TypeOK
            <4> QED BY <4>1, <4>2 DEF Waits
        <3>2. CASE LoadData
            BY <3>2 DEF LoadData, Waits
        <3> QED BY <1>9, <3>1, <3>2
    <2> QED BY <1>2, <1>3, <2>1, <2>2, <2>3, <2>4
<1> QED BY <1>1, <1>4, <1>5, <1>6, <1>7, <1>8, <1>9, StepKinds

\* Nothing is loaded if there was an error.
LEMMA LoadStep ==
    ASSUME TypeOK, LinkInv, Next PROVE (pass \in {"load", "loaded"} => ~errors_)'
<1> SUFFICES ASSUME pass' \in {"load", "loaded"} PROVE ~errors_'
    OBVIOUS
<1>1. CASE ReadData \/ EndOfData \/ ReadText \/ EnterLabel \/ EmitText \/ EndOfText
           \/ BackPatch \/ Refuse
    BY <1>1 DEF ReadData, EndOfData, ReadText, EnterLabel, EmitText, EndOfText, BackPatch,
                Refuse
<1>2. CASE LoadText
    BY <1>2, Zenon DEF LoadText
<1>3. CASE LoadData
    <2>1. pass = "load" /\ UNCHANGED errors_
        BY <1>3 DEF LoadData
    <2>2. ~errors_
        BY <2>1 DEF LinkInv
    <2> QED BY <2>1, <2>2, Zenon
<1> QED BY <1>1, <1>2, <1>3, StepKinds

LEMMA StutterLink ==
    ASSUME LinkInv, UNCHANGED vars PROVE LinkInv'
BY DEF LinkInv, vars, input, data, code, loaded, SectionKnown, SectionAt, LinesRise,
       ReadLines, LabelsPlaced, IsTextLabel, Separates, Defines, TextAt, UnitsLinked,
       Leads, Waits

LEMMA NextLink == TypeOK /\ TypeOK' /\ LinkInv /\ [Next]_vars => LinkInv'
<1> SUFFICES ASSUME TypeOK, TypeOK', LinkInv, [Next]_vars PROVE LinkInv'
    OBVIOUS
<1>1. CASE UNCHANGED vars
    BY <1>1, StutterLink
<1>2. CASE Next
    <2>1. SectionKnown' /\ LinesRise'
        BY <1>2, SectionStep, LinesStep DEF LinkInv
    <2>2. LabelsPlaced'
        BY <1>2, LabelsStep
    <2>3. UnitsLinked'
        BY <1>2, UnitsStep
    <2>4. (pass \in {"load", "loaded"} => ~errors_)'
        BY <1>2, LoadStep
    <2> QED BY <2>1, <2>2, <2>3, <2>4, Zenon DEF LinkInv
<1> QED BY <1>1, <1>2

\* The inductive invariant holds, with the types it is stated for.
LEMMA AlwaysLinkInv == Spec => [](TypeOK /\ LinkInv)
<1>1. Init => TypeOK /\ LinkInv
    BY InitType, InitLink
<1>2. TypeOK /\ LinkInv /\ [Next]_vars => (TypeOK /\ LinkInv)'
    BY NextType, NextLink
<1> QED BY <1>1, <1>2, PTL DEF Spec
-----------------------------------------------------------------------------
(* What it implies.                                                        *)

\* The instructions before the line of a label are as many as its address counts.
LEMMA CountBefore ==
    ASSUME TypeOK, NEW k \in Nat, NEW m \in 0 .. instruction_index_,
           \A j \in 1 .. instruction_index_ :
                instruction_number_line_number_mapping_[j] < k <=> j =< m
    PROVE  InstructionsBefore(k) = m
<1>1. DOMAIN instruction_number_line_number_mapping_ = 1 .. instruction_index_
         /\ instruction_index_ \in Nat
    BY DEF TypeOK
<1>2. {j \in 1 .. instruction_index_ : instruction_number_line_number_mapping_[j] < k} = 1 .. m
    BY <1>1
<1>3. Cardinality(1 .. m) = m
    BY <1>1, FS_Interval
<1> QED BY <1>1, <1>2, <1>3 DEF InstructionsBefore

LEMMA InvLinked == TypeOK /\ LinkInv => Linked
<1> SUFFICES ASSUME TypeOK, LinkInv, pass \in {"load", "loaded"},
                    NEW i \in DOMAIN intermediate_code_,
                    intermediate_code_[i].label # NoLabel
             PROVE  /\ intermediate_code_[i].resolved
                    /\ \A k \in DOMAIN source :
                          Defines(k, intermediate_code_[i].label) /\ TextAt(k) =>
                             4 * (i - 1) + intermediate_code_[i].imm = 4 * InstructionsBefore(k)
    BY DEF Linked
<1>1. i \in 1 .. instruction_index_ /\ intermediate_code_[i] \in UnitType
    BY DEF TypeOK
<1>2. ~errors_ /\ ~Waits(i)
    BY DEF LinkInv, Waits
<1>3. Leads(i)
    BY <1>1, <1>2, Zenon DEF LinkInv, UnitsLinked
<1>4. ASSUME NEW k \in DOMAIN source, Defines(k, intermediate_code_[i].label), TextAt(k)
      PROVE  4 * (i - 1) + intermediate_code_[i].imm = 4 * InstructionsBefore(k)
    <2>. DEFINE l == intermediate_code_[i].label
    <2>1. l \in Labels
        BY <1>1 DEF UnitType
    <2>2. k \in 1 .. ReadLines /\ k \in Nat
        <3>1. ReadLines = Len(source)
            BY DEF ReadLines
        <3>2. DOMAIN source = 1 .. Len(source)
            BY LenProperties DEF TypeOK
        <3> QED BY <3>1, <3>2
    <2>3. IsTextLabel(l) /\ symbol_table_[l].line = k
        BY <1>2, <1>4, <2>1, <2>2 DEF LinkInv, LabelsPlaced
    <2>4. Separates(symbol_table_[l])
        BY <2>3 DEF LinkInv, LabelsPlaced, IsTextLabel
    <2>5. PICK m \in 0 .. instruction_index_ :
                /\ symbol_table_[l].address = 4 * m
                /\ \A j \in 1 .. instruction_index_ :
                      instruction_number_line_number_mapping_[j] < symbol_table_[l].line <=> j =< m
        BY <2>4 DEF Separates
    <2>6. InstructionsBefore(k) = m
        BY <2>2, <2>3, <2>5, CountBefore
    <2> QED BY <1>3, <2>5, <2>6 DEF Leads
<1> QED BY <1>3, <1>4 DEF Leads

LEMMA InvBreakpoints == TypeOK /\ LinkInv => BreakpointLines
<1>. DEFINE lines == instruction_number_line_number_mapping_
<1> SUFFICES ASSUME TypeOK, LinkInv,
                    NEW l \in DOMAIN source, NEW n \in 0 .. (instruction_index_ - 1)
             PROVE  l \in LinesOf(n) <=> lines[n + 1] >= l /\ \A m \in 1 .. n : lines[m] < l
    BY DEF BreakpointLines
<1>1. instruction_index_ \in Nat /\ \A i \in 1 .. instruction_index_ : lines[i] \in Nat
    BY DEF TypeOK
<1>2. \A i, j \in 1 .. instruction_index_ : i =< j => lines[i] =< lines[j]
    BY DEF LinkInv, LinesRise
<1>3. l \in Nat \ {0}
    BY LenProperties DEF TypeOK
<1>4. n \in Nat /\ n + 1 \in 1 .. instruction_index_ /\ lines[n + 1] \in Nat
    BY <1>1
<1>5. l \in LinesOf(n) <=> l \in (IF n = 0 THEN 1 ELSE lines[n] + 1) .. lines[n + 1]
    BY DEF LinesOf
<1>. HIDE DEF lines
<1>6. CASE n = 0
    <2>1. 1 .. n = {}
        BY <1>6
    <2> QED BY <1>3, <1>4, <1>5, <1>6, <2>1
<1>7. CASE n # 0
    <2>1. n \in 1 .. n /\ n \in 1 .. instruction_index_ /\ lines[n] \in Nat
        BY <1>1, <1>4, <1>7
    <2>2. l \in LinesOf(n) <=> lines[n] < l /\ l =< lines[n + 1]
        BY <1>3, <1>4, <1>5, <1>7, <2>1
    <2>3. ASSUME lines[n] < l, NEW m \in 1 .. n PROVE lines[m] < l
        <3>1. m \in 1 .. instruction_index_ /\ m =< n
            BY <1>1, <1>4, <2>1
        <3>2. lines[m] \in Nat /\ lines[m] =< lines[n]
            BY <1>1, <1>2, <2>1, <3>1
        <3> QED BY <1>3, <2>1, <2>3, <3>2
    <2>4. lines[n + 1] >= l <=> l =< lines[n + 1]
        BY <1>3, <1>4
    <2> QED BY <2>1, <2>2, <2>3, <2>4
<1> QED BY <1>6, <1>7

\* In an assembled program every branch and jal to a label of the text leads to the
\* first instruction behind it, for every source, number of labels and reach.
THEOREM AlwaysLinked == Spec => []Linked
<1> QED BY AlwaysLinkInv, InvLinked, PTL

\* A breakpoint on a line is one before the first instruction at or behind it, for
\* every source.
THEOREM BreakpointsRight == Spec => []BreakpointLines
<1> QED BY AlwaysLinkInv, InvBreakpoints, PTL
-----------------------------------------------------------------------------
(* What is generated.                                                      *)

\* A unit with the number 0 fits.
LEMMA ZeroFits == ASSUME NEW u, u.imm = 0 PROVE Fits(u)
BY SMT DEF Fits

\* So does a unit that leads to a text label in reach: a distance between instructions.
LEMMA DistanceFits ==
    ASSUME NEW u, NEW m \in Int, NEW k \in Int, u.imm = 4 * m - 4 * k,
           InReach(u.opcode, u.imm), FormatOf(u.opcode) \in {"B", "J"}
    PROVE  Fits(u)
<1>1. u.imm \in Int /\ u.imm % 2 = 0
    BY SMT
<1>2. ASSUME FormatOf(u.opcode) = "B" PROVE -4096 =< u.imm /\ u.imm < 4096
    BY SMT, <1>1, <1>2, ReachAssumption DEF InReach, Reach
<1>3. ASSUME FormatOf(u.opcode) = "J" PROVE -1048576 =< u.imm /\ u.imm < 1048576
    BY SMT, <1>1, <1>3, ReachAssumption DEF InReach, Reach
<1>4. QED
    BY SMT, <1>1, <1>2, <1>3 DEF Fits

\* The address of a text label is that of an instruction.
LEMMA TextAddress ==
    ASSUME TypeOK, LinkInv, NEW l, IsTextLabel(l)
    PROVE  \E m \in Int : symbol_table_[l].address = 4 * m
<1>1. Separates(symbol_table_[l])
    BY DEF LinkInv, LabelsPlaced, IsTextLabel
<1>2. QED
    BY <1>1 DEF Separates, TypeOK

\* Unit i fits, and is a reference if it has a label.
UnitFits(i) ==
    /\ Fits(intermediate_code_[i]) \/ IsDataLabel(intermediate_code_[i].label)
    /\ intermediate_code_[i].label # NoLabel =>
           FormatOf(intermediate_code_[i].opcode) \in {"B", "J"}

LEMMA UnitKept ==
    ASSUME NEW i, UnitFits(i), intermediate_code_'[i] = intermediate_code_[i],
           \A l : IsDataLabel(l) => IsDataLabel(l)'
    PROVE  UnitFits(i)'
BY Zenon DEF UnitFits

LEMMA PlainFits ==
    ASSUME TypeOK, CodeInv, Instruction \/ Address \/ LoadImmediate
    PROVE  \A i \in 1 .. instruction_index_' : UnitFits(i)'
<1>1. Error \/ \E units \in PlainUnits : EmitAll(units)
    BY PlainStep
<1>2. \A i \in 1 .. instruction_index_ : UnitFits(i)
    BY DEF CodeInv, UnitsFit, UnitFits
<1>3. CASE Error
  <2>1. UNCHANGED <<symbol_table_, instruction_index_, intermediate_code_>>
    BY <1>3 DEF Error, code
  <2>2. QED
    BY <1>2, <2>1 DEF UnitFits, IsDataLabel
<1>4. ASSUME NEW units \in PlainUnits, EmitAll(units)
      PROVE  \A i \in 1 .. instruction_index_' : UnitFits(i)'
  <2>1. /\ units \in Seq(UnitType) /\ Emit(units)
        /\ \A i \in 1 .. Len(units) : units[i].label = NoLabel /\ Fits(units[i])
        /\ UNCHANGED symbol_table_
    BY <1>4 DEF PlainUnits, EmitAll
  <2>2. /\ instruction_index_ \in Nat /\ Len(units) \in Nat
        /\ instruction_index_' = instruction_index_ + Len(units)
        /\ \A i \in 1 .. instruction_index_ : intermediate_code_'[i] = intermediate_code_[i]
        /\ \A i \in (instruction_index_ + 1) .. instruction_index_' :
              intermediate_code_'[i] = units[i - instruction_index_]
    BY <2>1, Emitted DEF TypeOK
  <2>3. \A l : IsDataLabel(l) => IsDataLabel(l)'
    BY <2>1 DEF IsDataLabel
  <2>4. ASSUME NEW i \in 1 .. instruction_index_' PROVE UnitFits(i)'
    <3>1. CASE i \in 1 .. instruction_index_
      BY <1>2, <2>2, <2>3, <3>1, UnitKept
    <3>2. CASE i \notin 1 .. instruction_index_
      <4>1. /\ i \in (instruction_index_ + 1) .. instruction_index_'
            /\ i - instruction_index_ \in 1 .. Len(units)
        BY <2>2, <3>2
      <4>2. intermediate_code_'[i].label = NoLabel /\ Fits(intermediate_code_'[i])
        BY <2>1, <2>2, <4>1
      <4>3. QED
        BY <4>2, Zenon DEF UnitFits
    <3>3. QED
      BY <3>1, <3>2
  <2>5. QED
    BY <2>4
<1>5. QED
    BY <1>1, <1>3, <1>4

LEMMA ReferenceFits ==
    ASSUME TypeOK, LinkInv, CodeInv, Reference
    PROVE  \A i \in 1 .. instruction_index_' : UnitFits(i)'
<1>1. \A i \in 1 .. instruction_index_ : UnitFits(i)
    BY DEF CodeInv, UnitsFit, UnitFits
<1>2. CASE Error
  <2>1. UNCHANGED <<symbol_table_, instruction_index_, intermediate_code_>>
    BY <1>2 DEF Error, code
  <2>2. QED
    BY <1>1, <2>1 DEF UnitFits, IsDataLabel
<1>3. ASSUME NEW u \in UnitType, Emit(<<u>>), UNCHANGED symbol_table_,
             Fits(u), FormatOf(u.opcode) \in {"B", "J"}
      PROVE  \A i \in 1 .. instruction_index_' : UnitFits(i)'
  <2>1. <<u>> \in Seq(UnitType) /\ Len(<<u>>) = 1 /\ <<u>>[1] = u
    OBVIOUS
  <2>2. /\ instruction_index_ \in Nat /\ instruction_index_' = instruction_index_ + 1
        /\ \A i \in 1 .. instruction_index_ : intermediate_code_'[i] = intermediate_code_[i]
        /\ \A i \in (instruction_index_ + 1) .. instruction_index_' :
              intermediate_code_'[i] = <<u>>[i - instruction_index_]
    BY <1>3, <2>1, Emitted DEF TypeOK
  <2>3. \A l : IsDataLabel(l) => IsDataLabel(l)'
    BY <1>3 DEF IsDataLabel
  <2>4. ASSUME NEW i \in 1 .. instruction_index_' PROVE UnitFits(i)'
    <3>1. CASE i \in 1 .. instruction_index_
      BY <1>1, <2>2, <2>3, <3>1, UnitKept
    <3>2. CASE i \notin 1 .. instruction_index_
      <4>1. i \in (instruction_index_ + 1) .. instruction_index_' /\ i - instruction_index_ = 1
        BY <2>2, <3>2
      <4>2. intermediate_code_'[i] = u
        BY <2>1, <2>2, <4>1
      <4>3. QED
        BY <1>3, <4>2, Zenon DEF UnitFits
    <3>3. QED
      BY <3>1, <3>2
  <2>5. QED
    BY <2>4
<1>4. ASSUME NEW u \in UnitType, EmitAll(<<u>>), IsTextLabel(Line.label),
             u.imm = symbol_table_[Line.label].address - 4 * instruction_index_,
             u.opcode = Line.opcode, FormatOf(Line.opcode) \in {"B", "J"},
             InReach(u.opcode, u.imm)
      PROVE  \A i \in 1 .. instruction_index_' : UnitFits(i)'
  <2>1. PICK m \in Int : symbol_table_[Line.label].address = 4 * m
    BY <1>4, TextAddress
  <2>2. instruction_index_ \in Int
    BY DEF TypeOK
  <2>3. Fits(u)
    BY <1>4, <2>1, <2>2, DistanceFits
  <2>4. Emit(<<u>>) /\ UNCHANGED symbol_table_
    BY <1>4 DEF EmitAll
  <2>5. QED
    BY <1>3, <1>4, <2>3, <2>4
<1>5. ASSUME NEW u \in UnitType, Emit(<<u>>), u.imm = 0, u.opcode = Line.opcode,
             FormatOf(Line.opcode) \in {"B", "J"},
             UNCHANGED <<input, pass, section, symbol_table_, data, errors_, loaded>>
      PROVE  \A i \in 1 .. instruction_index_' : UnitFits(i)'
    BY <1>3, <1>5, ZeroFits
<1>6. QED
    BY <1>2, <1>4, <1>5, ReferenceStep

LEMMA BackPatchFits ==
    ASSUME TypeOK, LinkInv, CodeInv, BackPatch
    PROVE  \A i \in 1 .. instruction_index_' : UnitFits(i)'
<1> DEFINE k == back_patch_[pos] + 1
           old == intermediate_code_[k]
           new == intermediate_code_'[k]
<1>1. \A i \in 1 .. instruction_index_ : UnitFits(i)
    BY DEF CodeInv, UnitsFit, UnitFits
<1>2. /\ k \in 1 .. instruction_index_ /\ UNCHANGED <<symbol_table_, instruction_index_>>
      /\ \A i \in 1 .. instruction_index_ : i # k =>
            intermediate_code_'[i] = intermediate_code_[i]
      /\ new.label = old.label /\ new.opcode = old.opcode
      /\ \/ new.imm = old.imm
         \/ /\ old.label \in DOMAIN symbol_table_ /\ InReach(old.opcode, new.imm)
            /\ new.imm = symbol_table_[old.label].address - 4 * (k - 1)
    BY BackPatchStep
<1>3. \A l : IsDataLabel(l) <=> IsDataLabel(l)'
    BY <1>2 DEF IsDataLabel
<1> HIDE DEF k, old, new
<1>4. /\ Fits(old) \/ IsDataLabel(old.label)
      /\ old.label # NoLabel => FormatOf(old.opcode) \in {"B", "J"}
    BY <1>1, <1>2 DEF UnitFits, old
<1>5. Fits(new) \/ IsDataLabel(new.label)
  <2>1. CASE new.imm = old.imm
    <3>1. Fits(old) => Fits(new)
      BY SMT, <1>2, <2>1 DEF Fits
    <3>2. QED
      BY <1>2, <1>4, <3>1
  <2>2. CASE /\ old.label \in DOMAIN symbol_table_ /\ ~IsDataLabel(old.label)
             /\ InReach(old.opcode, new.imm)
             /\ new.imm = symbol_table_[old.label].address - 4 * (k - 1)
    <3>1. IsTextLabel(old.label)
      BY <2>2 DEF IsTextLabel, IsDataLabel
    <3>2. PICK m \in Int : symbol_table_[old.label].address = 4 * m
      BY <3>1, TextAddress
    <3>3. k - 1 \in Int
      BY <1>2 DEF TypeOK
    <3>4. old.label # NoLabel
      BY <2>2, AssemblerAssumption DEF TypeOK
    <3>5. QED
      BY <1>2, <1>4, <2>2, <3>2, <3>3, <3>4, DistanceFits
  <2>3. QED
    BY <1>2, <2>1, <2>2
<1>6. ASSUME NEW i \in 1 .. instruction_index_' PROVE UnitFits(i)'
  <2>1. CASE i = k
    BY <1>2, <1>3, <1>4, <1>5, <2>1, Zenon DEF UnitFits, new, old
  <2>2. CASE i # k
    <3>1. UnitFits(i) /\ intermediate_code_'[i] = intermediate_code_[i]
      BY <1>1, <1>2, <2>2
    <3>2. QED
      BY <1>3, <3>1, UnitKept
  <2>3. QED
    BY <2>1, <2>2
<1>7. QED
    BY <1>6

\* The other steps leave the units alone, and a data label stays one: what the first
\* pass enters precedes the first unit.
LEMMA OtherFits ==
    ASSUME TypeOK, LinkInv, CodeInv,
           UNCHANGED <<instruction_index_, intermediate_code_>>,
           pass = "data" \/ \A l \in DOMAIN symbol_table_ :
                                /\ l \in DOMAIN symbol_table_'
                                /\ symbol_table_'[l] = symbol_table_[l]
    PROVE  \A i \in 1 .. instruction_index_' : UnitFits(i)'
<1>1. CASE pass = "data"
  <2>1. instruction_index_' = 0
    BY <1>1 DEF LinkInv, LinesRise
  <2>2. QED
    BY <2>1
<1>2. CASE \A l \in DOMAIN symbol_table_ : /\ l \in DOMAIN symbol_table_'
                                           /\ symbol_table_'[l] = symbol_table_[l]
  <2>1. \A l : IsDataLabel(l) => IsDataLabel(l)'
    BY <1>2 DEF IsDataLabel
  <2>2. ASSUME NEW i \in 1 .. instruction_index_' PROVE UnitFits(i)'
    <3>1. i \in 1 .. instruction_index_ /\ intermediate_code_'[i] = intermediate_code_[i]
      OBVIOUS
    <3>2. UnitFits(i)
      BY <3>1 DEF CodeInv, UnitsFit, UnitFits
    <3>3. QED
      BY <2>1, <3>1, <3>2, UnitKept
  <2>3. QED
    BY <2>2
<1>3. QED
    BY <1>1, <1>2

LEMMA UnitsFitStep ==
    ASSUME TypeOK, LinkInv, CodeInv, [Next]_vars PROVE UnitsFit'
<1> SUFFICES \A i \in 1 .. instruction_index_' : UnitFits(i)'
    BY DEF UnitsFit, UnitFits
<1>1. CASE Instruction \/ Address \/ LoadImmediate
    BY <1>1, PlainFits
<1>2. CASE Reference
    BY <1>2, ReferenceFits
<1>3. CASE BackPatch
    BY <1>3, BackPatchFits
<1>4. CASE ReadData
  <2>1. UNCHANGED <<instruction_index_, intermediate_code_>> /\ pass = "data"
    BY <1>4 DEF ReadData, code
  <2>2. QED
    BY <2>1, OtherFits
<1>5. CASE EnterLabel
  <2>1. /\ UNCHANGED <<instruction_index_, intermediate_code_>>
        /\ \A l \in DOMAIN symbol_table_ : /\ l \in DOMAIN symbol_table_'
                                           /\ symbol_table_'[l] = symbol_table_[l]
    BY <1>5 DEF EnterLabel, code
  <2>2. QED
    BY <2>1, OtherFits
<1>6. CASE UNCHANGED <<instruction_index_, intermediate_code_, symbol_table_>>
    BY <1>6, OtherFits
<1>7. QED
  <2>1. CASE Section
    <3>1. UNCHANGED <<instruction_index_, intermediate_code_, symbol_table_>>
      BY <2>1 DEF Section, code
    <3>2. QED
      BY <1>6, <3>1
  <2>2. CASE Skip
    <3>1. UNCHANGED <<instruction_index_, intermediate_code_, symbol_table_>>
      BY <2>2 DEF Skip, code
    <3>2. QED
      BY <1>6, <3>1
  <2>3. CASE DataLabel
    BY <1>4, <2>3, DataLabelReads
  <2>4. CASE DataDirective \/ InvalidDirective \/ Unexpected
    <3>1. UNCHANGED <<instruction_index_, intermediate_code_, symbol_table_>>
      BY <2>4 DEF DataDirective, InvalidDirective, Unexpected, Error, code
    <3>2. QED
      BY <1>6, <3>1
  <2>5. CASE TextLabel
    <3>1. ReadText => UNCHANGED <<instruction_index_, intermediate_code_, symbol_table_>>
      BY DEF ReadText, code
    <3>2. QED
      BY <1>5, <1>6, <2>5, <3>1, TextLabelEnters
  <2>6. CASE EndOfData \/ EndOfText \/ Refuse \/ LoadText \/ LoadItem \/ EndOfLoad
    <3>1. UNCHANGED <<instruction_index_, intermediate_code_, symbol_table_>>
      BY <2>6 DEF EndOfData, EndOfText, Refuse, LoadText, LoadItem, EndOfLoad, code
    <3>2. QED
      BY <1>6, <3>1
  <2>7. CASE UNCHANGED vars
    BY <1>6, <2>7 DEF vars, code
  <2>8. QED
    BY <1>1, <1>2, <1>3, <2>1, <2>2, <2>3, <2>4, <2>5, <2>6, <2>7 DEF Next

LEMMA WordsStep ==
    ASSUME CodeInv, TypeOK, [Next]_vars PROVE WordsGenerated'
<1>1. CASE LoadText
  <2>1. /\ text_buffer' = [i \in DOMAIN intermediate_code_ |->
                              MachineCode(intermediate_code_[i])]
        /\ UNCHANGED intermediate_code_
    BY <1>1 DEF LoadText, code
  <2>2. QED
    BY <2>1, Zenon DEF WordsGenerated
<1>2. CASE LoadItem \/ EndOfLoad \/ UNCHANGED vars
  <2>1. /\ UNCHANGED <<text_buffer, intermediate_code_>>
        /\ pass' \in {"load", "loaded"} => pass \in {"load", "loaded"}
    BY <1>2 DEF LoadItem, EndOfLoad, vars, code, loaded
  <2>2. QED
    BY <2>1, Zenon DEF WordsGenerated, CodeInv
<1>3. CASE Next /\ ~LoadText /\ ~LoadItem /\ ~EndOfLoad
  <2>1. pass' \notin {"load", "loaded"}
    <3>1. CASE Section \/ Skip
      BY <3>1 DEF Section, Skip, Reading
    <3>2. CASE DataLabel \/ DataDirective \/ InvalidDirective
      <4>1. pass = "data" /\ UNCHANGED pass
        BY <3>2 DEF DataLabel, DataDirective, InvalidDirective, InData, Error
      <4>2. QED
        BY <4>1
    <3>3. CASE TextLabel
      BY <3>3 DEF TextLabel, InText
    <3>4. CASE Instruction \/ Address \/ LoadImmediate
      <4>1. ReadText \/ EmitText
        BY <3>4, PlainEmits
      <4>2. QED
        BY <4>1 DEF ReadText, EmitText
    <3>5. CASE Reference
      <4>1. ReadText \/ EmitText
        BY <3>5, ReferenceEmits
      <4>2. QED
        BY <4>1 DEF ReadText, EmitText
    <3>6. CASE Unexpected
      BY <3>6 DEF Unexpected, InText, Error
    <3>7. CASE EndOfData \/ EndOfText \/ Refuse
      BY <3>7 DEF EndOfData, EndOfText, Refuse
    <3>8. CASE BackPatch
      BY <3>8 DEF BackPatch
    <3>9. QED
      BY <1>3, <3>1, <3>2, <3>3, <3>4, <3>5, <3>6, <3>7, <3>8, Zenon DEF Next
  <2>2. QED
    BY <2>1 DEF WordsGenerated
<1>4. QED
    BY <1>1, <1>2, <1>3

\* The invariant of what is generated holds, with those it needs.
LEMMA AlwaysCodeInv == Spec => [](TypeOK /\ LinkInv /\ CodeInv)
<1>1. Init => TypeOK /\ LinkInv /\ CodeInv
  <2>1. Init => CodeInv
    BY DEF Init, CodeInv, UnitsFit, WordsGenerated
  <2>2. QED
    BY <2>1, InitType, InitLink
<1>2. TypeOK /\ LinkInv /\ CodeInv /\ [Next]_vars => (TypeOK /\ LinkInv /\ CodeInv)'
    BY NextType, NextLink, UnitsFitStep, WordsStep DEF CodeInv
<1>3. QED
    BY <1>1, <1>2, PTL DEF Spec

\* A unit of the types has the registers that a word has room for.
LEMMA UnitWritable == ASSUME NEW u \in UnitType PROVE Writable(u)
<1>1. Reg \subseteq 0 .. 31
    BY SMT, AssemblerAssumption, SizeAssumption DEF Reg
<1>2. QED
    BY <1>1 DEF UnitType, Writable

LEMMA InvDecoded == TypeOK /\ CodeInv => Decoded
<1> SUFFICES ASSUME TypeOK, CodeInv, pass \in {"load", "loaded"},
                    NEW i \in DOMAIN intermediate_code_,
                    intermediate_code_[i].label = NoLabel
                        \/ IsTextLabel(intermediate_code_[i].label)
             PROVE  Means(Decode(text_buffer[i]), intermediate_code_[i])
    BY DEF Decoded
<1> DEFINE u == intermediate_code_[i]
<1>1. i \in 1 .. instruction_index_ /\ u \in UnitType
    BY DEF TypeOK
<1>2. ~IsDataLabel(u.label)
    BY AssemblerAssumption DEF TypeOK, IsDataLabel, IsTextLabel
<1>3. Fits(u)
    BY <1>1, <1>2 DEF CodeInv, UnitsFit
<1>4. text_buffer[i] = MachineCode(u)
    BY DEF CodeInv, WordsGenerated
<1> HIDE DEF u
<1>5. QED
    BY <1>1, <1>3, <1>4, UnitWritable, UnitDecoded DEF u

\* The VM decodes every word as the instruction that was written, for every source:
\* the ranges that the parser accepts and the reach of labels are those that the
\* formats have room for, and the formats, the tables, the sign extension and the
\* control unit agree.
THEOREM AlwaysDecoded == Spec => []Decoded
BY AlwaysCodeInv, InvDecoded, PTL
-----------------------------------------------------------------------------
(* The pseudo-instructions.                                                *)

\* What stands is not changed by units behind it, which are of a later line.
LEMMA StandsKept ==
    ASSUME TypeOK, LinesRise, EmitText, NEW i \in 1 .. instruction_index_,
           NEW units, Len(units) \in Nat, Stands(i, units)
    PROVE  Stands(i, units)'
<1> DEFINE lines == instruction_number_line_number_mapping_
           last == i + Len(units) - 1
<1>1. /\ instruction_index_ \in Nat /\ instruction_index_' \in Nat
      /\ instruction_index_ =< instruction_index_' /\ pos \in Nat
      /\ \A j \in 1 .. instruction_index_ :
            /\ lines[j] \in Nat /\ lines[j] < pos /\ lines'[j] = lines[j]
            /\ intermediate_code_'[j] = intermediate_code_[j]
      /\ \A j \in (instruction_index_ + 1) .. instruction_index_' : lines'[j] = pos
    BY EmittedLines DEF EmitText
<1>2. /\ last \in Int /\ last =< instruction_index_
      /\ \A j \in i .. last : intermediate_code_[j] = units[j - i + 1] /\ lines[j] = lines[i]
      /\ last < instruction_index_ => lines[last + 1] # lines[i]
    BY DEF Stands
<1>. HIDE DEF lines
<1>3. last =< instruction_index_'
    BY <1>1, <1>2
<1>4. \A j \in i .. last : intermediate_code_'[j] = units[j - i + 1] /\ lines'[j] = lines'[i]
    <2> TAKE j \in i .. last
    <2>1. j \in 1 .. instruction_index_
        BY <1>1, <1>2
    <2> QED BY <1>1, <1>2, <2>1
<1>5. last < instruction_index_' => lines'[last + 1] # lines'[i]
    <2>1. CASE last < instruction_index_
        <3>1. last + 1 \in 1 .. instruction_index_
            BY <1>1, <1>2, <2>1
        <3> QED BY <1>1, <1>2, <2>1, <3>1
    <2>2. CASE last = instruction_index_ /\ last < instruction_index_'
        <3>1. last + 1 \in (instruction_index_ + 1) .. instruction_index_'
            BY <1>1, <1>2, <2>2
        <3>2. lines'[last + 1] = pos /\ lines'[i] < pos /\ lines'[i] \in Nat
            BY <1>1, <3>1
        <3> QED BY <1>1, <3>2
    <2> QED BY <1>1, <1>2, <2>1, <2>2
<1> QED BY <1>3, <1>4, <1>5, Zenon DEF Stands, lines

\* The units of a line stand once they are emitted, from its first instruction on.
LEMMA StandsNew ==
    ASSUME TypeOK, LinesRise, EmitText, NEW units \in Seq(UnitType), Emit(units),
           NEW i \in (instruction_index_ + 1) .. instruction_index_', First(i)'
    PROVE  i = instruction_index_ + 1 /\ Stands(i, units)'
<1> DEFINE lines == instruction_number_line_number_mapping_
           last == i + Len(units) - 1
<1>1. /\ instruction_index_ \in Nat /\ instruction_index_' = instruction_index_ + Len(units)
      /\ Len(units) \in Nat
      /\ \A j \in (instruction_index_ + 1) .. instruction_index_' :
            /\ intermediate_code_'[j] = units[j - instruction_index_]
            /\ lines'[j] = pos
    BY Emitted DEF TypeOK
<1>. HIDE DEF lines
<1>2. i = instruction_index_ + 1
    <2> SUFFICES ASSUME i # instruction_index_ + 1 PROVE FALSE
        OBVIOUS
    <2>1. i - 1 \in (instruction_index_ + 1) .. instruction_index_'
        BY <1>1
    <2>2. lines'[i - 1] = lines'[i] /\ i # 1
        BY <1>1, <2>1
    <2> QED BY <2>2 DEF First, lines
<1>3. last = instruction_index_' /\ ~(last < instruction_index_')
    BY <1>1, <1>2
<1>4. \A j \in i .. last : intermediate_code_'[j] = units[j - i + 1] /\ lines'[j] = lines'[i]
    <2> TAKE j \in i .. last
    <2>1. j \in (instruction_index_ + 1) .. instruction_index_' /\ j - i + 1 = j - instruction_index_
        BY <1>1, <1>2
    <2> QED BY <1>1, <1>2, <2>1
<1>5. last =< instruction_index_'
    BY <1>1, <1>3
<1> QED BY <1>2, <1>3, <1>4, <1>5, Zenon DEF Stands, lines

\* What PseudosStand says of instruction i and its line.
LineOf(i) == source[instruction_number_line_number_mapping_[i]]
LineStands(i, line) ==
    /\ First(i) /\ line.kind = "li" =>
           LiAccepts(line.imm) /\ Stands(i, LiUnits(line.rd, line.imm))
    /\ First(i) /\ line.kind = "address" =>
           IsDataLabel(line.label) /\ Stands(i, AddressUnits(line, i - 1))

LEMMA StandLines ==
    PseudosStand <=> \A i \in 1 .. instruction_index_ :
                        /\ instruction_number_line_number_mapping_[i] \in DOMAIN source
                        /\ LineStands(i, LineOf(i))
BY Zenon DEF PseudosStand, LineStands, LineOf

LEMMA LineOfType ==
    ASSUME TypeOK, PseudosStand, NEW i \in 1 .. instruction_index_
    PROVE  /\ instruction_number_line_number_mapping_[i] \in 1 .. Len(source)
           /\ LineOf(i).kind = "li" => LineOf(i).rd \in Reg /\ LineOf(i).imm \in Int
           /\ LineOf(i).kind = "address" => /\ LineOf(i).rd \in Reg /\ LineOf(i).label \in Labels
                                            /\ LineOf(i).opcode \in {"addi", "lb", "lh", "lw", "ld"}
<1>. DEFINE x == LineOf(i)
<1>1. instruction_number_line_number_mapping_[i] \in 1 .. Len(source)
    BY LenProperties DEF TypeOK, PseudosStand
<1>2. x \in Lines
    BY <1>1, ElementOfSeq DEF TypeOK, LineOf
<1>. HIDE DEF x
<1>3. x.kind = "li" => x.rd \in Reg /\ x.imm \in Int
    BY <1>2 DEF Lines
<1>4. x.kind = "address" => /\ x.rd \in Reg /\ x.label \in Labels
                            /\ x.opcode \in {"addi", "lb", "lh", "lw", "ld"}
    BY <1>2 DEF Lines
<1> QED BY <1>1, <1>3, <1>4 DEF x

\* The units of a line have a length and no label.
LEMMA PlainUnit ==
    ASSUME NEW units \in PlainUnits
    PROVE  /\ units \in Seq(UnitType) /\ Len(units) \in Nat
           /\ \A j \in 1 .. Len(units) : units[j].label = NoLabel
BY LenProperties DEF PlainUnits

LEMMA LineUnits ==
    ASSUME TypeOK, PseudosStand, NEW i \in 1 .. instruction_index_
    PROVE  /\ LineOf(i).kind = "li" => LiUnits(LineOf(i).rd, LineOf(i).imm) \in PlainUnits
           /\ LineOf(i).kind = "address" /\ IsDataLabel(LineOf(i).label) =>
                 AddressUnits(LineOf(i), i - 1) \in PlainUnits
<1>1. LineOf(i).kind = "li" => LiUnits(LineOf(i).rd, LineOf(i).imm) \in PlainUnits
    BY LineOfType, LiPlain
<1>2. ASSUME LineOf(i).kind = "address", IsDataLabel(LineOf(i).label)
      PROVE  AddressUnits(LineOf(i), i - 1) \in PlainUnits
    <2>1. symbol_table_[LineOf(i).label] \in Symbol
        BY <1>2 DEF TypeOK, IsDataLabel
    <2>2. symbol_table_[LineOf(i).label].address \in Nat /\ i - 1 \in Int
        BY <2>1 DEF Symbol
    <2> QED BY <1>2, <2>2, LineOfType, AddressPlain
<1> QED BY <1>1, <1>2

\* An instruction that was there still stands if its units do and its label is kept.
LEMMA LineKept ==
    ASSUME TypeOK, PseudosStand, NEW i \in 1 .. instruction_index_,
           UNCHANGED source,
           instruction_number_line_number_mapping_'[i] = instruction_number_line_number_mapping_[i],
           First(i)' = First(i),
           \A l : IsDataLabel(l) => IsDataLabel(l)' /\ symbol_table_'[l] = symbol_table_[l],
           \A units \in PlainUnits : Stands(i, units) => Stands(i, units)'
    PROVE  /\ instruction_number_line_number_mapping_'[i] \in DOMAIN source'
           /\ LineStands(i, LineOf(i))'
<1> DEFINE line == LineOf(i)
<1>1. /\ instruction_number_line_number_mapping_[i] \in DOMAIN source
      /\ LineStands(i, line) /\ line' = line
    BY StandLines DEF LineOf
<1>2. /\ line.kind = "li" => LiUnits(line.rd, line.imm) \in PlainUnits
      /\ line.kind = "address" /\ IsDataLabel(line.label) =>
            AddressUnits(line, i - 1) \in PlainUnits
    BY LineUnits
<1>. HIDE DEF line
<1>3. ASSUME First(i)', line.kind = "li"
      PROVE  LiAccepts(line.imm) /\ Stands(i, LiUnits(line.rd, line.imm))'
    <2>1. LiAccepts(line.imm) /\ Stands(i, LiUnits(line.rd, line.imm))
        BY <1>1, <1>3 DEF LineStands
    <2>2. LiUnits(line'.rd, line'.imm) = LiUnits(line.rd, line.imm)
        BY <1>1
    <2>3. ASSUME NEW units \in PlainUnits, units = LiUnits(line.rd, line.imm)
          PROVE  Stands(i, units)'
        BY <2>1, <2>3
    <2> QED BY <1>1, <1>2, <1>3, <2>1, <2>2, <2>3 DEF Stands
<1>4. ASSUME First(i)', line.kind = "address"
      PROVE  IsDataLabel(line.label)' /\ Stands(i, AddressUnits(line, i - 1))'
    <2>1. IsDataLabel(line.label) /\ Stands(i, AddressUnits(line, i - 1))
        BY <1>1, <1>4 DEF LineStands
    <2>2. AddressUnits(line, i - 1)' = AddressUnits(line, i - 1)
        BY <1>1, <2>1 DEF AddressUnits
    <2>3. ASSUME NEW units \in PlainUnits, units = AddressUnits(line, i - 1)
          PROVE  Stands(i, units)'
        BY <2>1, <2>3
    <2>4. IsDataLabel(line.label)'
        BY <1>1, <2>1 DEF IsDataLabel
    <2> QED BY <1>2, <1>4, <2>1, <2>2, <2>3, <2>4 DEF Stands
<1>5. LineStands(i, line)'
    BY <1>1, <1>3, <1>4 DEF LineStands
<1>6. instruction_number_line_number_mapping_'[i] \in DOMAIN source'
    BY <1>1
<1> QED BY <1>5, <1>6 DEF line

\* The steps that emit: instructions and pseudo-instructions, and references.
LEMMA OldLinesStand ==
    ASSUME TypeOK, LinkInv, PseudosStand, EmitText, NEW i \in 1 .. instruction_index_
    PROVE  /\ instruction_number_line_number_mapping_'[i] \in DOMAIN source'
           /\ LineStands(i, LineOf(i))'
<1>1. LinesRise
    BY DEF LinkInv
<1>2. UNCHANGED <<source, symbol_table_>>
    BY DEF EmitText
<1>3. \A j \in 1 .. instruction_index_ :
          instruction_number_line_number_mapping_'[j] = instruction_number_line_number_mapping_[j]
    BY DEF EmitText
<1>4. First(i)' = First(i)
    <2>1. CASE i = 1
        BY <2>1 DEF First
    <2>2. CASE i # 1
        <3>1. i - 1 \in 1 .. instruction_index_
            BY <2>2 DEF TypeOK
        <3> QED BY <1>3, <3>1 DEF First
    <2> QED BY <2>1, <2>2
<1>5. \A l : IsDataLabel(l) => IsDataLabel(l)' /\ symbol_table_'[l] = symbol_table_[l]
    BY <1>2 DEF IsDataLabel
<1>6. ASSUME NEW units \in PlainUnits, Stands(i, units) PROVE Stands(i, units)'
    BY <1>1, <1>6, PlainUnit, StandsKept
<1> QED BY <1>2, <1>3, <1>4, <1>5, <1>6, LineKept

LEMMA PlainStands ==
    ASSUME TypeOK, LinkInv, PseudosStand, EmitText,
           Instruction \/ Address \/ LoadImmediate
    PROVE  PseudosStand'
<1>1. LinesRise /\ pos \in DOMAIN source /\ UNCHANGED source
    BY EmittedLines, LenProperties DEF LinkInv, EmitText, TypeOK
<1>2. /\ instruction_index_ \in Nat /\ instruction_index_' \in Nat
      /\ \A i \in (instruction_index_ + 1) .. instruction_index_' :
            instruction_number_line_number_mapping_'[i] = pos
    BY DEF EmitText, TypeOK
<1>3. ASSUME NEW i \in (instruction_index_ + 1) .. instruction_index_'
      PROVE  LineStands(i, LineOf(i))'
    <2>1. LineOf(i)' = Line
        BY <1>1, <1>2 DEF LineOf, Line
    <2>2. CASE Error
        <3>1. instruction_index_' = instruction_index_
            BY <2>2 DEF Error, code
        <3> QED BY <1>2, <3>1
    <2>3. ASSUME NEW units \in PlainUnits, EmitAll(units),
                 Line.kind = "li" => /\ units = LiUnits(Line.rd, Line.imm)
                                     /\ LiAccepts(Line.imm),
                 Line.kind = "address" => /\ units = AddressUnits(Line, instruction_index_)
                                          /\ IsDataLabel(Line.label)
          PROVE  LineStands(i, LineOf(i))'
        <3>1. Emit(units) /\ UNCHANGED symbol_table_
            BY <2>3 DEF EmitAll
        <3>2. First(i)' => i = instruction_index_ + 1 /\ Stands(i, units)'
            BY <1>1, <3>1, PlainUnit, StandsNew
        <3>. DEFINE x == Line
        <3>3. /\ x.kind = "li" => units = LiUnits(x.rd, x.imm) /\ LiAccepts(x.imm)
              /\ x.kind = "address" => /\ units = AddressUnits(x, instruction_index_)
                                       /\ IsDataLabel(x.label)
            BY <2>3
        <3>. HIDE DEF x
        <3>4. (instruction_index_ + 1) - 1 = instruction_index_
            BY <1>2
        <3>5. ASSUME NEW y, y = x PROVE LineStands(i, y)'
            <4>1. ASSUME First(i)', y.kind = "li"
                  PROVE  LiAccepts(y.imm) /\ Stands(i, LiUnits(y.rd, y.imm))'
                BY <3>2, <3>3, <3>5, <4>1 DEF Stands
            <4>2. ASSUME First(i)', y.kind = "address"
                  PROVE  IsDataLabel(y.label)' /\ Stands(i, AddressUnits(y, i - 1))'
                <5>1. AddressUnits(y, i - 1)' = AddressUnits(y, i - 1)
                    BY <3>1 DEF AddressUnits
                <5>2. units = AddressUnits(y, i - 1)
                    BY <3>2, <3>3, <3>4, <3>5, <4>2
                <5>3. IsDataLabel(y.label)'
                    BY <3>1, <3>3, <3>5, <4>2 DEF IsDataLabel
                <5> QED BY <3>2, <4>2, <5>1, <5>2, <5>3 DEF Stands
            <4> QED BY <4>1, <4>2, Zenon DEF LineStands
        <3>6. ASSUME NEW y, y = LineOf(i)' PROVE LineStands(i, y)'
            BY <2>1, <3>5, <3>6 DEF x
        <3> QED BY <3>6 DEF LineStands
    <2> QED BY <2>2, <2>3, PlainStep
<1>4. ASSUME NEW i \in 1 .. instruction_index_'
      PROVE  /\ instruction_number_line_number_mapping_'[i] \in DOMAIN source'
             /\ LineStands(i, LineOf(i))'
    <2>1. CASE i \in 1 .. instruction_index_
        BY <2>1, OldLinesStand
    <2>2. CASE i \in (instruction_index_ + 1) .. instruction_index_'
        BY <1>1, <1>2, <1>3, <2>2
    <2> QED BY <1>2, <2>1, <2>2
<1> QED BY <1>4, Zenon DEF PseudosStand, LineStands, LineOf

LEMMA ReferenceStands ==
    ASSUME TypeOK, LinkInv, PseudosStand, EmitText, Reference
    PROVE  PseudosStand'
<1>1. pos \in DOMAIN source /\ UNCHANGED source /\ Line.kind = "ref"
    BY EmittedLines, LenProperties DEF LinkInv, EmitText, TypeOK, Reference, InText
<1>2. /\ instruction_index_ \in Nat /\ instruction_index_' \in Nat
      /\ \A i \in (instruction_index_ + 1) .. instruction_index_' :
            instruction_number_line_number_mapping_'[i] = pos
    BY DEF EmitText, TypeOK
<1>3. ASSUME NEW i \in (instruction_index_ + 1) .. instruction_index_'
      PROVE  LineStands(i, LineOf(i))'
    <2>1. LineOf(i)'.kind = "ref"
        BY <1>1, <1>2 DEF LineOf, Line
    <2> QED BY <2>1 DEF LineStands
<1>4. ASSUME NEW i \in 1 .. instruction_index_'
      PROVE  /\ instruction_number_line_number_mapping_'[i] \in DOMAIN source'
             /\ LineStands(i, LineOf(i))'
    <2>1. CASE i \in 1 .. instruction_index_
        BY <2>1, OldLinesStand
    <2>2. CASE i \in (instruction_index_ + 1) .. instruction_index_'
        BY <1>1, <1>2, <1>3, <2>2
    <2> QED BY <1>2, <2>1, <2>2
<1> QED BY <1>4, Zenon DEF PseudosStand, LineStands, LineOf

\* Back-patching changes units with a label only.
LEMMA PatchedLabel ==
    ASSUME TypeOK, BackPatch, NEW i \in 1 .. instruction_index_,
           intermediate_code_[i].label = NoLabel
    PROVE  intermediate_code_'[i] = intermediate_code_[i]
<1>. DEFINE index == back_patch_[pos]
            unit == intermediate_code_[index + 1]
<1>1. NoLabel \notin DOMAIN symbol_table_
    BY AssemblerAssumption DEF TypeOK
<1>2. CASE i # index + 1
    BY <1>2, BackPatchStep
<1>3. CASE i = index + 1
    <2>1. unit.label \notin DOMAIN symbol_table_
        BY <1>1, <1>3
    <2>2. UNCHANGED intermediate_code_
        BY <2>1, Zenon DEF BackPatch
    <2> QED BY <2>2
<1> QED BY <1>2, <1>3

LEMMA BackPatchStands ==
    ASSUME TypeOK, LinkInv, PseudosStand, BackPatch
    PROVE  PseudosStand'
<1>1. UNCHANGED <<source, symbol_table_, instruction_index_,
                  instruction_number_line_number_mapping_>>
    BY BackPatchStep DEF input
<1>2. ASSUME NEW i \in 1 .. instruction_index_, NEW units \in PlainUnits, Stands(i, units)
      PROVE  Stands(i, units)'
    <2>. DEFINE last == i + Len(units) - 1
    <2>1. /\ last \in Int /\ last =< instruction_index_
          /\ \A j \in i .. last : intermediate_code_[j] = units[j - i + 1]
          /\ \A j \in 1 .. Len(units) : units[j].label = NoLabel
        BY <1>2, PlainUnit DEF Stands
    <2>2. ASSUME NEW j \in i .. last PROVE intermediate_code_'[j] = units[j - i + 1]
        <3>1. j \in 1 .. instruction_index_ /\ j - i + 1 \in 1 .. Len(units)
            <4>1. instruction_index_ \in Nat
                BY DEF TypeOK
            <4>2. Len(units) \in Nat
                BY PlainUnit
            <4> QED BY <2>1, <4>1, <4>2
        <3>2. intermediate_code_[j].label = NoLabel
            BY <2>1, <3>1
        <3> QED BY <2>1, <3>1, <3>2, PatchedLabel
    <2> QED BY <1>1, <1>2, <2>2 DEF Stands
<1>3. ASSUME NEW i \in 1 .. instruction_index_
      PROVE  /\ instruction_number_line_number_mapping_'[i] \in DOMAIN source'
             /\ LineStands(i, LineOf(i))'
    <2>1. First(i)' = First(i)
        BY <1>1 DEF First
    <2>2. \A l : IsDataLabel(l) => IsDataLabel(l)' /\ symbol_table_'[l] = symbol_table_[l]
        BY <1>1 DEF IsDataLabel
    <2> QED BY <1>1, <1>2, <2>1, <2>2, LineKept
<1>4. instruction_index_' = instruction_index_
    BY <1>1
<1> QED BY <1>3, <1>4, Zenon DEF PseudosStand, LineStands, LineOf

\* The other steps leave the code alone, and a data label stays one: what the first
\* pass enters precedes the first instruction.
LEMMA OtherStands ==
    ASSUME TypeOK, PseudosStand,
           UNCHANGED <<source, instruction_index_, intermediate_code_,
                       instruction_number_line_number_mapping_>>,
           \A l : IsDataLabel(l) => IsDataLabel(l)' /\ symbol_table_'[l] = symbol_table_[l]
    PROVE  PseudosStand'
<1>1. ASSUME NEW i \in 1 .. instruction_index_, NEW units \in PlainUnits, Stands(i, units)
      PROVE  Stands(i, units)'
    BY <1>1 DEF Stands
<1>2. ASSUME NEW i \in 1 .. instruction_index_
      PROVE  /\ instruction_number_line_number_mapping_'[i] \in DOMAIN source'
             /\ LineStands(i, LineOf(i))'
    <2>1. First(i)' = First(i)
        BY DEF First
    <2> QED BY <1>1, <2>1, LineKept
<1>3. instruction_index_' = instruction_index_
    OBVIOUS
<1> QED BY <1>2, <1>3, Zenon DEF PseudosStand, LineStands, LineOf

LEMMA PseudosStep ==
    ASSUME TypeOK, LinkInv, PseudosStand, [Next]_vars PROVE PseudosStand'
<1>1. CASE UNCHANGED <<source, instruction_index_, intermediate_code_,
                       instruction_number_line_number_mapping_, symbol_table_>>
    <2>1. \A l : IsDataLabel(l) => IsDataLabel(l)' /\ symbol_table_'[l] = symbol_table_[l]
        BY <1>1 DEF IsDataLabel
    <2> QED BY <1>1, <2>1, OtherStands
<1>2. CASE ReadText
    BY <1>1, <1>2 DEF ReadText, code
<1>3. CASE EnterLabel
    <2>1. /\ UNCHANGED <<source, code>>
          /\ \A l \in DOMAIN symbol_table_ : symbol_table_'[l] = symbol_table_[l]
          /\ DOMAIN symbol_table_ \subseteq DOMAIN symbol_table_'
        BY <1>3 DEF EnterLabel
    <2>2. \A l : IsDataLabel(l) => IsDataLabel(l)' /\ symbol_table_'[l] = symbol_table_[l]
        BY <2>1 DEF IsDataLabel
    <2> QED BY <2>1, <2>2, OtherStands DEF code
<1>4. CASE ReadData
    <2>1. instruction_index_' = 0
        BY <1>4 DEF LinkInv, LinesRise, ReadData, code
    <2> QED BY <2>1 DEF PseudosStand
<1>5. CASE Instruction \/ Address \/ LoadImmediate
    BY <1>2, <1>5, PlainEmits, PlainStands
<1>6. CASE Reference
    BY <1>2, <1>6, ReferenceEmits, ReferenceStands
<1>7. CASE BackPatch
    BY <1>7, BackPatchStands
<1>8. CASE DataLabel
    BY <1>4, <1>8, DataLabelReads
<1>9. CASE TextLabel
    BY <1>2, <1>3, <1>9, TextLabelEnters
<1>10. CASE Section
    BY <1>1, <1>10 DEF Section, code, input
<1>11. CASE Skip
    BY <1>1, <1>11 DEF Skip, code, input
<1>12. CASE DataDirective \/ InvalidDirective \/ Unexpected
    BY <1>1, <1>12 DEF DataDirective, InvalidDirective, Unexpected, Error, code, input
<1>13. CASE EndOfData \/ EndOfText \/ Refuse \/ LoadText \/ LoadItem \/ EndOfLoad
    BY <1>1, <1>13 DEF EndOfData, EndOfText, Refuse, LoadText, LoadItem, EndOfLoad, code, input
<1>14. CASE UNCHANGED vars
    BY <1>1, <1>14 DEF vars, code, input
<1> QED BY <1>5, <1>6, <1>7, <1>8, <1>9, <1>10, <1>11, <1>12, <1>13, <1>14 DEF Next
-----------------------------------------------------------------------------
(* The layout of the data.                                                 *)

\* Alignment goes up to a multiple, and a multiple stays.
LEMMA Aligns ==
    ASSUME NEW n \in Nat, NEW w \in {1, 2, 4, 8}
    PROVE  /\ Align(n, w) \in Nat /\ n =< Align(n, w)
           /\ \A j \in Nat : Align(Align(n, w) + j * w, w) = Align(n, w) + j * w
<1>1. CASE w = 1
    BY <1>1 DEF Align
<1>2. CASE w = 2
    BY <1>2 DEF Align
<1>3. CASE w = 4
    BY <1>3 DEF Align
<1>4. CASE w = 8
    BY <1>4 DEF Align
<1> QED BY <1>1, <1>2, <1>3, <1>4

LEMMA AlignTwice ==
    ASSUME NEW n \in Nat, NEW w \in {1, 2, 4, 8}
    PROVE  Align(Align(n, w), w) = Align(n, w)
<1>1. Align(Align(n, w) + 0 * w, w) = Align(n, w) + 0 * w /\ Align(n, w) \in Nat
    BY Aligns
<1>2. Align(n, w) + 0 * w = Align(n, w)
    BY <1>1
<1> QED BY <1>1, <1>2

LEMMA Product ==
    ASSUME NEW n \in Nat, NEW w \in {1, 2, 4, 8}
    PROVE  n * w \in Nat /\ (n + 1) * w = n * w + w
<1>1. CASE w = 1
    BY <1>1
<1>2. CASE w = 2
    BY <1>2
<1>3. CASE w = 4
    BY <1>3
<1>4. CASE w = 8
    BY <1>4
<1> QED BY <1>1, <1>2, <1>3, <1>4

\* Where the values end if c more of width w follow the first m.
More(ends, m, w, c) ==
    [n \in 0 .. (m + c) |-> IF n =< m THEN ends[n] ELSE Align(ends[m], w) + (n - m) * w]

MoreRight(ends, m, w, c) ==
    /\ More(ends, m, w, c) \in [0 .. (m + c) -> Nat]
    /\ \A n \in 0 .. m : More(ends, m, w, c)[n] = ends[n]
    /\ \A n \in (m + 1) .. (m + c) :
          /\ Align(More(ends, m, w, c)[n - 1], w) = Align(ends[m], w) + (n - m - 1) * w
          /\ More(ends, m, w, c)[n] = Align(ends[m], w) + (n - m - 1) * w + w

LEMMA MoreEnds ==
    ASSUME NEW m \in Nat, NEW c \in Nat, NEW w \in {1, 2, 4, 8}, NEW ends \in [0 .. m -> Nat]
    PROVE  MoreRight(ends, m, w, c)
<1>. DEFINE base == Align(ends[m], w)
            more == More(ends, m, w, c)
<1>1. ends[m] \in Nat
    OBVIOUS
<1>2. base \in Nat /\ \A j \in Nat : Align(base + j * w, w) = base + j * w
    BY <1>1, Aligns
<1>3. Align(ends[m], w) = base
    OBVIOUS
<1>. HIDE DEF base
<1>4. more = [n \in 0 .. (m + c) |-> IF n =< m THEN ends[n] ELSE base + (n - m) * w]
    BY <1>3 DEF More
<1>. HIDE DEF more
<1>5. ASSUME NEW n \in 0 .. (m + c)
      PROVE  (IF n =< m THEN ends[n] ELSE base + (n - m) * w) \in Nat
    <2>1. CASE n =< m
        BY <2>1
    <2>2. CASE ~(n =< m)
        <3>1. n - m \in Nat
            BY <2>2
        <3>2. (n - m) * w \in Nat
            BY <3>1, Product
        <3> QED BY <1>2, <2>2, <3>2
    <2> QED BY <2>1, <2>2
<1>6. more \in [0 .. (m + c) -> Nat]
    BY <1>4, <1>5
<1>7. \A n \in 0 .. m : more[n] = ends[n]
    BY <1>4
<1>8. \A n \in (m + 1) .. (m + c) : more[n] = base + (n - m) * w
    BY <1>4
<1>9. ASSUME NEW n \in (m + 1) .. (m + c)
      PROVE  Align(more[n - 1], w) = base + (n - m - 1) * w /\ more[n] = base + (n - m - 1) * w + w
    <2>1. n - m - 1 \in Nat /\ (n - m - 1) + 1 = n - m
        OBVIOUS
    <2>2. (n - m - 1) * w \in Nat /\ (n - m) * w = (n - m - 1) * w + w
        BY <2>1, Product
    <2>3. Align(base + (n - m - 1) * w, w) = base + (n - m - 1) * w
        BY <1>2, <2>1
    <2>4. more[n] = base + (n - m) * w
        BY <1>8
    <2>5. CASE n = m + 1
        <3>1. more[n - 1] = ends[m] /\ n - m - 1 = 0
            BY <1>7, <2>5
        <3>2. 0 * w = 0
            OBVIOUS
        <3>3. Align(more[n - 1], w) = base
            BY <1>3, <3>1
        <3> QED BY <1>2, <2>2, <2>4, <3>1, <3>2, <3>3
    <2>6. CASE n # m + 1
        <3>1. n - 1 \in (m + 1) .. (m + c) /\ (n - 1) - m = n - m - 1
            BY <2>6
        <3>2. more[n - 1] = base + (n - m - 1) * w
            BY <1>8, <3>1
        <3> QED BY <1>2, <2>2, <2>3, <2>4, <3>2
    <2> QED BY <2>5, <2>6
<1> QED BY <1>3, <1>6, <1>7, <1>9 DEF more, MoreRight

\* A directive puts its values behind the others.
LEMMA DirectiveValues ==
    ASSUME TypeOK, DataDirective
    PROVE  /\ Line.width \in {1, 2, 4, 8} /\ Line.count \in Nat /\ pos \in Nat
           /\ Len(data_buffer_) \in Nat /\ Len(data_buffer_)' = Len(data_buffer_) + Line.count
           /\ \A n \in 1 .. Len(data_buffer_) : data_buffer_'[n] = data_buffer_[n]
           /\ \A n \in (Len(data_buffer_) + 1) .. (Len(data_buffer_) + Line.count) :
                 data_buffer_'[n] = [width |-> Line.width, line |-> pos,
                                     item |-> n - Len(data_buffer_)]
<1>. DEFINE T == [width : {1, 2, 4, 8}, line : Nat, item : Nat]
            w == Line.width
            c == Line.count
            m == Len(data_buffer_)
            new == [n \in 1 .. c |-> [width |-> w, line |-> pos, item |-> n]]
<1>1. w \in {1, 2, 4, 8} /\ c \in Nat
    BY LineFields DEF TypeOK, DataDirective, InData
<1>2. data_buffer_' = data_buffer_ \o new /\ pos \in Nat
    BY DEF DataDirective, TypeOK
<1>. HIDE DEF w, c
<1>3. data_buffer_ \in Seq(T) /\ m \in Nat
    BY LenProperties DEF TypeOK
<1>4. new \in [1 .. c -> T]
    BY <1>1, <1>2
<1>5. \A n \in 1 .. c : new[n] = [width |-> w, line |-> pos, item |-> n]
    OBVIOUS
<1>. HIDE DEF new, T
<1>6. new \in Seq(T) /\ Len(new) = c
    BY <1>1, <1>4, IsASeq
<1>7. /\ Len(data_buffer_ \o new) = m + c
      /\ \A n \in 1 .. (m + c) : (data_buffer_ \o new)[n]
                                     = IF n =< m THEN data_buffer_[n] ELSE new[n - m]
    BY <1>3, <1>6, ConcatProperties
<1>8. Len(data_buffer_)' = m + c
    BY <1>2, <1>7
<1>. HIDE DEF m
<1>9. \A n \in 1 .. m : data_buffer_'[n] = data_buffer_[n]
    BY <1>1, <1>2, <1>3, <1>7
<1>10. ASSUME NEW n \in (m + 1) .. (m + c)
       PROVE  data_buffer_'[n] = [width |-> w, line |-> pos, item |-> n - m]
    <2>1. n \in 1 .. (m + c) /\ ~(n =< m) /\ n - m \in 1 .. c
        BY <1>1, <1>3
    <2> QED BY <1>2, <1>5, <1>7, <2>1
<1> QED BY <1>1, <1>2, <1>3, <1>8, <1>9, <1>10 DEF m, w, c

\* More is where the values end after the directive.
LEMMA DirectiveLaidOut ==
    ASSUME TypeOK, DataDirective, NEW ends, LaidOut(ends), NEW m, m = Len(data_buffer_),
           NEW more, more = More(ends, m, Line.width, Line.count)
    PROVE  /\ LaidOut(more)' /\ Len(data_buffer_)' = m + Line.count
           /\ \A n \in 0 .. m : more[n] = ends[n]
           /\ \A n \in 1 .. m : /\ data_buffer_'[n] = data_buffer_[n]
                                /\ Start(more, n)' = Start(ends, n)
           /\ Line.count > 0 =>
                 /\ m + 1 \in 1 .. (m + Line.count)
                 /\ data_buffer_'[m + 1].line = pos /\ data_buffer_'[m + 1].item = 1
                 /\ Start(more, m + 1)' = Align(ends[m], Line.width)
                 /\ more[m + Line.count] = Align(ends[m], Line.width) + Line.count * Line.width
<1>. DEFINE w == Line.width
            c == Line.count
            base == Align(ends[m], w)
            Before(n) == (n - m - 1) * w
<1>1. /\ w \in {1, 2, 4, 8} /\ c \in Nat /\ pos \in Nat /\ m \in Nat
      /\ Len(data_buffer_)' = m + c
      /\ \A n \in 1 .. m : data_buffer_'[n] = data_buffer_[n]
      /\ \A n \in (m + 1) .. (m + c) :
            data_buffer_'[n] = [width |-> w, line |-> pos, item |-> n - m]
    BY DirectiveValues
<1>2. ends \in [0 .. m -> Nat]
    BY DEF LaidOut
<1>3. /\ ends[0] = 0
      /\ \A n \in 1 .. m : ends[n] = Start(ends, n) + data_buffer_[n].width
    BY DEF LaidOut
<1>4. more = More(ends, m, w, c)
    OBVIOUS
<1>. HIDE DEF w, c
<1>5. MoreRight(ends, m, w, c)
    BY <1>1, <1>2, MoreEnds
<1>6. /\ \A n \in (m + 1) .. (m + c) : /\ Align(More(ends, m, w, c)[n - 1], w) = base + Before(n)
                                       /\ More(ends, m, w, c)[n] = base + Before(n) + w
    BY <1>5, Zenon DEF MoreRight
<1>7. base \in Nat /\ Before(m + 1) = 0
    <2>1. m \in 0 .. m /\ (m + 1) - m - 1 = 0 /\ w \in Nat
        BY <1>1
    <2>2. ends[m] \in Nat /\ 0 * w = 0
        BY <1>2, <2>1
    <2> QED BY <1>1, <2>1, <2>2, Aligns
<1>8. c > 0 => /\ c * w = Before(m + c) + w /\ Before(m + c) \in Nat
    <2>1. c > 0 => m + c - m - 1 = c - 1 /\ c - 1 \in Nat /\ (c - 1) + 1 = c
        BY <1>1
    <2> QED BY <1>1, <2>1, Product
<1>. HIDE DEF base, Before
<1>9. /\ more \in [0 .. (m + c) -> Nat]
      /\ \A n \in 0 .. m : more[n] = ends[n]
      /\ \A n \in (m + 1) .. (m + c) : /\ Align(more[n - 1], w) = base + Before(n)
                                       /\ more[n] = base + Before(n) + w
    BY <1>4, <1>5, <1>6, Zenon DEF MoreRight
<1>10. ASSUME NEW n \in 1 .. m PROVE Start(more, n)' = Start(ends, n)
    <2>1. n - 1 \in 0 .. m
        BY <1>1
    <2>2. more[n - 1] = ends[n - 1]
        BY <1>9, <2>1
    <2> QED BY <1>1, <2>2, Zenon DEF Start
<1>11. ASSUME NEW n \in (m + 1) .. (m + c)
       PROVE  Start(more, n)' = base + Before(n) /\ data_buffer_'[n].width = w
    <2>1. data_buffer_'[n] = [width |-> w, line |-> pos, item |-> n - m]
        BY <1>1, Zenon
    <2>2. data_buffer_'[n].width = w
        BY <2>1
    <2> QED BY <1>9, <2>2, Zenon DEF Start
<1>12. ASSUME NEW n \in 1 .. (m + c)
       PROVE  more[n] = Start(more, n)' + data_buffer_'[n].width
    <2>1. CASE n =< m
        <3>1. n \in 1 .. m /\ n \in 0 .. m
            BY <1>1, <2>1
        <3> QED BY <1>1, <1>3, <1>9, <1>10, <3>1
    <2>2. CASE ~(n =< m)
        <3>1. n \in (m + 1) .. (m + c)
            BY <1>1, <2>2
        <3> QED BY <1>9, <1>11, <3>1
    <2> QED BY <2>1, <2>2
<1>13. more[0] = 0
    BY <1>1, <1>3, <1>9
<1>14. LaidOut(more)'
    BY <1>1, <1>9, <1>12, <1>13 DEF LaidOut
<1>15. ASSUME c > 0
       PROVE  /\ m + 1 \in 1 .. (m + c)
              /\ data_buffer_'[m + 1].line = pos /\ data_buffer_'[m + 1].item = 1
              /\ Start(more, m + 1)' = base
              /\ more[m + c] = base + c * w
    <2>1. /\ m + 1 \in 1 .. (m + c) /\ m + 1 \in (m + 1) .. (m + c) /\ (m + 1) - m = 1
          /\ m + c \in (m + 1) .. (m + c)
        BY <1>1, <1>15
    <2>2. data_buffer_'[m + 1].line = pos /\ data_buffer_'[m + 1].item = 1
        <3>1. data_buffer_'[m + 1] = [width |-> w, line |-> pos, item |-> (m + 1) - m]
            BY <1>1, <2>1, Zenon
        <3> QED BY <2>1, <3>1
    <2>3. Start(more, m + 1)' = base
        BY <1>7, <1>11, <2>1
    <2>4. more[m + c] = base + c * w
        <3>1. more[m + c] = base + Before(m + c) + w
            BY <1>9, <2>1
        <3>2. c * w = Before(m + c) + w /\ w \in Nat
            BY <1>1, <1>8, <1>15
        <3> QED BY <1>7, <1>8, <1>15, <3>1, <3>2
    <2> QED BY <2>1, <2>2, <2>3, <2>4
<1> QED BY <1>1, <1>9, <1>10, <1>14, <1>15 DEF w, c, base

\* LayoutInv is kept where the data are, and no directive is awaited.
LEMMA CountedKept ==
    ASSUME NEW ends, DataCounted(ends), ~Aligned(ends), UNCHANGED <<source, data>>,
           \A l : IsDataLabel(l)' => IsDataLabel(l) /\ symbol_table_'[l] = symbol_table_[l]
    PROVE  DataCounted(ends)'
<1>1. UNCHANGED <<source, data_index_, data_buffer_>>
    BY DEF data
<1>2. data_index_' = ends[Len(data_buffer_')]
    BY <1>1 DEF DataCounted
<1>3. ASSUME NEW l, IsDataLabel(l)' PROVE LabelAddressed(ends, l)'
    <2>1. IsDataLabel(l) /\ symbol_table_'[l] = symbol_table_[l]
        BY <1>3
    <2>2. LabelAddressed(ends, l)
        BY <2>1 DEF DataCounted, IsDataLabel
    <2> QED BY <1>1, <2>1, <2>2 DEF LabelAddressed, Defines, SectionAt, Start
<1> QED BY <1>2, <1>3, Zenon DEF DataCounted

LEMMA LaidOutKept ==
    ASSUME NEW ends, LaidOut(ends), UNCHANGED data_buffer_ PROVE LaidOut(ends)'
BY DEF LaidOut, Start

LEMMA LoadedKept ==
    ASSUME NEW ends, DataLoaded(ends), UNCHANGED <<data_buffer_, data_counter, data_memory>>,
           NextValue' = NextValue, pass' = "loaded" => NextValue = Len(data_buffer_) + 1
    PROVE  DataLoaded(ends)'
BY DEF DataLoaded, Start

LEMMA LayoutKept ==
    ASSUME NEW ends, LayoutInv(ends), UNCHANGED <<source, data, data_counter, data_memory>>,
           NextValue' = NextValue, pass' = "loaded" => NextValue = Len(data_buffer_) + 1,
           errors_ => errors_', Aligned(ends) => errors_',
           \A l : IsDataLabel(l)' => IsDataLabel(l) /\ symbol_table_'[l] = symbol_table_[l]
    PROVE  LayoutInv(ends)'
<1>1. LaidOut(ends)' /\ DataLoaded(ends)'
    BY LaidOutKept, LoadedKept DEF LayoutInv, data
<1>2. ASSUME ~errors_', ValuesBehindLabels' PROVE DataCounted(ends)'
    <2>1. ~errors_ /\ ValuesBehindLabels /\ ~Aligned(ends)
        BY <1>2 DEF ValuesBehindLabels
    <2> QED BY <2>1, CountedKept DEF LayoutInv
<1> QED BY <1>1, <1>2, Zenon DEF LayoutInv

\* The steps of both passes over the lines, but for those that lay out data.
LEMMA LineLayout ==
    ASSUME TypeOK, NEW ends, LayoutInv(ends),
           Section \/ Skip \/ InvalidDirective \/ TextLabel \/ Instruction \/ Reference
               \/ Address \/ LoadImmediate \/ Unexpected
    PROVE  LayoutInv(ends)'
<1>1. CASE Section
    <2>1. /\ Reading /\ Line.kind = "section"
          /\ UNCHANGED <<input, pass, symbol_table_, data, errors_, loaded>>
        BY <1>1 DEF Section
    <2>2. ~Aligned(ends) /\ NextValue' = NextValue /\ pass' \notin {"load", "loaded"}
        BY <2>1 DEF Aligned, NextValue, Reading
    <2> QED BY <2>1, <2>2, LayoutKept DEF input, loaded, IsDataLabel
<1>2. CASE Skip
    <2>1. /\ Reading
          /\ section \in IF pass = "data" THEN {"none", "text", "bss"} ELSE {"data", "bss"}
          /\ UNCHANGED <<input, pass, symbol_table_, data, errors_, loaded>>
        BY <1>2 DEF Skip
    <2>2. ~Aligned(ends) /\ NextValue' = NextValue /\ pass' \notin {"load", "loaded"}
        BY <2>1 DEF Aligned, NextValue, Reading
    <2> QED BY <2>1, <2>2, LayoutKept DEF input, loaded, IsDataLabel
<1>3. CASE InvalidDirective
    <2>1. /\ Reading /\ errors_'
          /\ UNCHANGED <<input, pass, symbol_table_, data, loaded>>
        BY <1>3 DEF InvalidDirective, InData, Error
    <2>2. NextValue' = NextValue /\ pass' \notin {"load", "loaded"}
        BY <2>1 DEF NextValue, Reading
    <2> QED BY <2>1, <2>2, LayoutKept DEF input, loaded, IsDataLabel
<1>4. CASE TextLabel \/ Instruction \/ Reference \/ Address \/ LoadImmediate \/ Unexpected
    <2>1. /\ Reading /\ pass = "text"
          /\ UNCHANGED <<input, pass, data, loaded>> /\ (errors_ => errors_')
          /\ \A l : IsDataLabel(l)' => IsDataLabel(l) /\ symbol_table_'[l] = symbol_table_[l]
        <3>1. CASE TextLabel
            <4>1. /\ Reading /\ pass = "text" /\ UNCHANGED <<input, pass, data, loaded>>
                  /\ errors_ => errors_'
                BY <3>1 DEF TextLabel, InText
            <4>2. ReadText \/ EnterLabel
                BY <3>1, TextLabelEnters
            <4>3. ASSUME NEW l, IsDataLabel(l)'
                  PROVE  IsDataLabel(l) /\ symbol_table_'[l] = symbol_table_[l]
                <5>1. CASE ReadText
                    BY <4>3, <5>1 DEF ReadText, IsDataLabel
                <5>2. CASE EnterLabel
                    BY <4>3, <5>2 DEF EnterLabel, IsDataLabel
                <5> QED BY <4>2, <5>1, <5>2
            <4> QED BY <4>1, <4>3
        <3>2. CASE Unexpected
            BY <3>2 DEF Unexpected, InText, Error, IsDataLabel
        <3>3. CASE Instruction
            BY <3>3 DEF Instruction, InText, Error, EmitAll, IsDataLabel
        <3>4. CASE Address
            BY <3>4, Zenon DEF Address, InText, Error, EmitAll, IsDataLabel
        <3>5. CASE LoadImmediate
            BY <3>5, Zenon DEF LoadImmediate, InText, Error, EmitAll, IsDataLabel
        <3>6. CASE Reference
            <4>1. Reading /\ pass = "text"
                BY <3>6 DEF Reference, InText
            <4>2. /\ UNCHANGED <<input, pass, data, loaded, symbol_table_>>
                  /\ errors_ => errors_'
                <5>1. \/ Error
                      \/ \E u \in UnitType : EmitAll(<<u>>)
                      \/ UNCHANGED <<input, pass, section, symbol_table_, data, errors_, loaded>>
                    BY <3>6, ReferenceStep, Zenon
                <5>2. CASE Error
                    BY <5>2 DEF Error
                <5>3. CASE \E u \in UnitType : EmitAll(<<u>>)
                    <6>1. PICK u \in UnitType : EmitAll(<<u>>)
                        BY <5>3
                    <6> QED BY <6>1 DEF EmitAll
                <5>4. CASE UNCHANGED <<input, pass, section, symbol_table_, data, errors_, loaded>>
                    BY <5>4
                <5> QED BY <5>1, <5>2, <5>3, <5>4, Zenon
            <4> QED BY <4>1, <4>2 DEF IsDataLabel
        <3> QED BY <1>4, <3>1, <3>2, <3>3, <3>4, <3>5, <3>6
    <2>2. NextValue' = NextValue /\ pass' \notin {"load", "loaded"} /\ ~Aligned(ends)
        BY <2>1 DEF NextValue, Aligned
    <2> QED BY <2>1, <2>2, LayoutKept DEF input, loaded
<1> QED BY <1>1, <1>2, <1>3, <1>4

\* The steps between and behind the passes, but for the loading of a value.
LEMMA LateLayout ==
    ASSUME TypeOK, NEW ends, LayoutInv(ends),
           EndOfData \/ EndOfText \/ BackPatch \/ Refuse \/ LoadText \/ EndOfLoad
    PROVE  LayoutInv(ends)'
<1>1. UNCHANGED <<source, data, data_counter, data_memory, symbol_table_>>
          /\ (errors_ => errors_')
    <2>1. CASE BackPatch
        BY <2>1, Zenon DEF BackPatch, input, loaded
    <2>2. CASE EndOfData \/ EndOfText \/ Refuse \/ LoadText \/ EndOfLoad
        BY <2>2 DEF EndOfData, EndOfText, Refuse, LoadText, EndOfLoad, input, loaded
    <2> QED BY <2>1, <2>2
<1>2. pass = "data" => pos > Len(source)
    BY DEF EndOfData, EndOfText, BackPatch, Refuse, LoadText, EndOfLoad
<1>3. ~Aligned(ends)
    <2>1. pos \in Nat /\ Len(source) \in Nat
        BY LenProperties DEF TypeOK
    <2> QED BY <1>2, <2>1 DEF Aligned
<1>4. NextValue' = NextValue /\ (pass' = "loaded" => NextValue = Len(data_buffer_) + 1)
    <2>1. CASE EndOfData \/ EndOfText \/ BackPatch \/ Refuse \/ LoadText
        <3>1. /\ pass \notin {"load", "loaded"} /\ pass' # "loaded"
              /\ pass' = "load" => pos' = 1
            BY <2>1 DEF EndOfData, EndOfText, BackPatch, Refuse, LoadText
        <3> QED BY <3>1 DEF NextValue
    <2>2. CASE EndOfLoad
        <3>1. /\ pass = "load" /\ pass' = "loaded" /\ pos' = pos /\ pos > Len(data_buffer_)
            BY <2>2 DEF EndOfLoad
        <3>2. NextValue = pos /\ NextValue' = pos /\ pos \in Nat /\ Len(data_buffer_) \in Nat
            BY <3>1, LenProperties DEF NextValue, TypeOK
        <3>3. NextValue =< Len(data_buffer_) + 1
            BY DEF LayoutInv, DataLoaded
        <3> QED BY <3>1, <3>2, <3>3
    <2> QED BY <2>1, <2>2
<1> QED BY <1>1, <1>3, <1>4, LayoutKept DEF IsDataLabel

LEMMA StutterLayout ==
    ASSUME NEW ends, LayoutInv(ends), UNCHANGED vars PROVE LayoutInv(ends)'
BY DEF LayoutInv, LaidOut, DataLoaded, DataCounted, LabelAddressed, Aligned, Start, NextValue,
       ValuesBehindLabels, IsDataLabel, Defines, SectionAt, Line, vars, input, data, loaded

\* A label is aligned for the value behind it.
LEMMA DataLabelStep ==
    ASSUME TypeOK, DataLabel
    PROVE  /\ pass = "data" /\ section = "data" /\ Reading /\ Advance /\ Line.kind = "label"
           /\ UNCHANGED <<input, pass, section, data_buffer_, loaded>>
           /\ pos \in 1 .. Len(source) /\ Line.label \in Labels
           /\ errors_ => errors_'
           /\ symbol_table_'[Line.label] =
                  [address |-> data_index_', line |-> pos, isData |-> TRUE]
           /\ \A l \in DOMAIN symbol_table_' : l # Line.label =>
                  l \in DOMAIN symbol_table_ /\ symbol_table_'[l] = symbol_table_[l]
           /\ ~errors_' => /\ pos + 1 \in 1 .. Len(source) /\ source[pos + 1].kind = "items"
                           /\ source[pos + 1].width \in {1, 2, 4, 8}
                           /\ data_index_' = Align(data_index_, source[pos + 1].width)
<1>. DEFINE next == IF pos < Len(source) THEN source[pos + 1] ELSE [kind |-> "end"]
            entry == [address |-> data_index_', line |-> pos, isData |-> TRUE]
<1>1. /\ pass = "data" /\ section = "data" /\ Reading /\ Advance /\ Line.kind = "label"
      /\ UNCHANGED <<input, pass, section, data_buffer_, loaded>>
    BY DEF DataLabel, InData
<1>2. pos \in 1 .. Len(source) /\ Line.label \in Labels /\ Len(source) \in Nat
      /\ source \in Seq(Lines)
    BY <1>1, LineFields, LenProperties DEF TypeOK
<1>3. /\ data_index_' = IF next.kind = "items" THEN Align(data_index_, next.width)
                        ELSE data_index_
      /\ errors_' = (errors_ \/ next.kind # "items")
    BY Zenon DEF DataLabel
<1>4. symbol_table_' = [l \in DOMAIN symbol_table_ \cup {Line.label} |->
                            IF l = Line.label THEN entry ELSE symbol_table_[l]]
    BY Zenon DEF DataLabel
<1>5. ASSUME ~errors_'
      PROVE  /\ pos + 1 \in 1 .. Len(source) /\ source[pos + 1].kind = "items"
             /\ source[pos + 1].width \in {1, 2, 4, 8}
             /\ data_index_' = Align(data_index_, source[pos + 1].width)
    <2>1. next.kind = "items"
        BY <1>3, <1>5
    <2>2. pos < Len(source) /\ next = source[pos + 1]
        BY <2>1
    <2>3. pos + 1 \in 1 .. Len(source)
        BY <1>2, <2>2
    <2>4. next \in Lines
        BY <1>2, <2>2, <2>3, ElementOfSeq
    <2>5. data_index_' = Align(data_index_, next.width)
        BY <1>3, <2>1
    <2>. HIDE DEF next
    <2>6. next.width \in {1, 2, 4, 8}
        BY <2>1, <2>4 DEF Lines
    <2> QED BY <2>1, <2>2, <2>3, <2>5, <2>6
<1>. HIDE DEF next, entry
<1>6. symbol_table_'[Line.label] = entry
    BY <1>4
<1>7. \A l \in DOMAIN symbol_table_' : l # Line.label =>
          l \in DOMAIN symbol_table_ /\ symbol_table_'[l] = symbol_table_[l]
    BY <1>4
<1>8. errors_ => errors_'
    BY <1>3
<1> QED BY <1>1, <1>2, <1>5, <1>6, <1>7, <1>8 DEF entry

LEMMA DataLabelCounted ==
    ASSUME TypeOK, SectionKnown, NEW ends, LaidOut(ends), DataCounted(ends), ValuesBehindLabels,
           DataLabel, ~errors_'
    PROVE  DataCounted(ends)'
<1>. DEFINE m == Len(data_buffer_)
            next == source[pos + 1]
<1>1. /\ pass = "data" /\ section = "data" /\ Reading /\ pos' = pos + 1 /\ Line.kind = "label"
      /\ UNCHANGED <<source, pass, section, data_buffer_>>
      /\ pos \in 1 .. Len(source) /\ pos + 1 \in 1 .. Len(source) /\ Line.label \in Labels
      /\ next.kind = "items" /\ next.width \in {1, 2, 4, 8}
      /\ data_index_' = Align(data_index_, next.width)
    BY DataLabelStep DEF Advance, input
<1>2. /\ symbol_table_'[Line.label] = [address |-> data_index_', line |-> pos, isData |-> TRUE]
      /\ \A l \in DOMAIN symbol_table_' : l # Line.label =>
             l \in DOMAIN symbol_table_ /\ symbol_table_'[l] = symbol_table_[l]
    BY DataLabelStep
<1>3. ~Aligned(ends) /\ data_index_ = ends[m]
    BY <1>1 DEF DataCounted, Aligned
<1>4. m \in Nat /\ data_index_ \in Nat /\ Len(source) \in Nat
    BY LenProperties DEF TypeOK
<1>5. data_index_ =< data_index_' /\ data_index_' \in Nat
    BY <1>1, <1>4, Aligns
<1>6. next.count > 0
    <2>1. pos \in 1 .. (Len(source) - 1)
        BY <1>1, <1>4
    <2> QED BY <1>1, <2>1 DEF ValuesBehindLabels, Line
<1>7. Aligned(ends)'
    <2>1. Line' = next
        BY <1>1 DEF Line
    <2>2. Len(data_buffer_)' = m /\ pos' =< Len(source')
        BY <1>1, <1>4
    <2> QED BY <1>1, <1>3, <1>6, <2>1, <2>2 DEF Aligned
<1>8. SectionAt(pos, "data")
    BY <1>1 DEF SectionKnown
<1>9. ASSUME NEW l, l = Line.label, NEW k, k = pos, NEW a, a = data_index_'
      PROVE  LabelAddressed(ends, l)'
    <2>1. symbol_table_'[l] = [address |-> a, line |-> k, isData |-> TRUE]
        BY <1>2, <1>9
    <2>2. symbol_table_'[l].address = a /\ symbol_table_'[l].line = k
        BY <2>1
    <2>3. Defines(k, l)' /\ k \in DOMAIN source'
        BY <1>1, <1>4, <1>9, LenProperties DEF Defines, Line, TypeOK
    <2>4. SectionAt(k, "data")'
        BY <1>1, <1>8, <1>9 DEF SectionAt
    <2>5. a =< data_index_' /\ pos' = k + 1
        BY <1>1, <1>5, <1>9
    <2> QED BY <1>7, <1>9, <2>2, <2>3, <2>4, <2>5 DEF LabelAddressed
<1>10. ASSUME NEW l, IsDataLabel(l)', l # Line.label PROVE LabelAddressed(ends, l)'
    <2>1. l \in DOMAIN symbol_table_ /\ symbol_table_'[l] = symbol_table_[l]
        BY <1>2, <1>10 DEF IsDataLabel
    <2>2. LabelAddressed(ends, l)
        BY <1>10, <2>1 DEF DataCounted, IsDataLabel
    <2>3. symbol_table_[l].address \in Nat
        BY <2>1 DEF TypeOK, Symbol
    <2>4. symbol_table_[l].address =< data_index_'
        BY <1>4, <1>5, <2>2, <2>3 DEF LabelAddressed
    <2> QED BY <1>1, <1>3, <2>1, <2>2, <2>4 DEF LabelAddressed, Defines, SectionAt, Start
<1>11. \A l \in DOMAIN symbol_table_' : IsDataLabel(l)' => LabelAddressed(ends, l)'
    <2> TAKE l \in DOMAIN symbol_table_'
    <2>1. CASE l = Line.label
        BY <1>9, <2>1
    <2>2. CASE l # Line.label
        BY <1>10, <2>2
    <2> QED BY <2>1, <2>2
<1> QED BY <1>7, <1>11, Zenon DEF DataCounted

LEMMA DataLabelLayout ==
    ASSUME TypeOK, LinkInv, NEW ends, LayoutInv(ends), DataLabel
    PROVE  LayoutInv(ends)'
<1>1. /\ pass = "data" /\ UNCHANGED <<source, pass, data_buffer_, data_counter, data_memory>>
      /\ errors_ => errors_'
    BY DataLabelStep DEF input, loaded
<1>2. NextValue' = NextValue
    BY <1>1 DEF NextValue
<1>3. LaidOut(ends)' /\ DataLoaded(ends)'
    BY <1>1, <1>2, LaidOutKept, LoadedKept DEF LayoutInv
<1>4. ASSUME ~errors_', ValuesBehindLabels' PROVE DataCounted(ends)'
    <2>1. ~errors_ /\ ValuesBehindLabels
        BY <1>1, <1>4 DEF ValuesBehindLabels
    <2> QED BY <1>4, <2>1, DataLabelCounted DEF LayoutInv, LinkInv
<1> QED BY <1>3, <1>4, Zenon DEF LayoutInv

\* A directive counts as it lays out, whether or not its label was aligned for it.
LEMMA DirectiveCounted ==
    ASSUME TypeOK, NEW ends, LaidOut(ends), DataCounted(ends), DataDirective,
           NEW m, m = Len(data_buffer_), NEW more, more = More(ends, m, Line.width, Line.count)
    PROVE  DataCounted(more)'
<1>. DEFINE w == Line.width
            c == Line.count
<1>1. /\ w \in {1, 2, 4, 8} /\ c \in Nat /\ pos \in Nat /\ m \in Nat
      /\ Len(data_buffer_)' = m + c
    BY DirectiveValues
<1>2. /\ data_index_' = IF c = 0 THEN data_index_ ELSE Align(data_index_, w) + c * w
      /\ UNCHANGED <<source, symbol_table_>> /\ data_index_ \in Nat
    BY DEF DataDirective, TypeOK, input
<1>3. /\ \A n \in 0 .. m : more[n] = ends[n]
      /\ \A n \in 1 .. m : /\ data_buffer_'[n] = data_buffer_[n]
                           /\ Start(more, n)' = Start(ends, n)
      /\ c > 0 =>
            /\ m + 1 \in 1 .. (m + c)
            /\ data_buffer_'[m + 1].line = pos /\ data_buffer_'[m + 1].item = 1
            /\ Start(more, m + 1)' = Align(ends[m], w)
            /\ more[m + c] = Align(ends[m], w) + c * w
    BY DirectiveLaidOut
<1>4. data_index_ = ends[m] \/ (c > 0 /\ data_index_ = Align(ends[m], w))
    BY DEF DataCounted, Aligned
<1>5. Aligned(ends) => c > 0 /\ data_index_ = Align(ends[m], w)
    BY DEF Aligned
<1>6. \A l \in DOMAIN symbol_table_ : IsDataLabel(l) => LabelAddressed(ends, l)
    BY DEF DataCounted
<1>7. ends[m] \in Nat
    BY <1>1 DEF LaidOut
<1>. HIDE DEF w, c
<1>8. Align(data_index_, w) = Align(ends[m], w)
    BY <1>1, <1>4, <1>7, AlignTwice
<1>9. data_index_' = more[m + c] /\ data_index_ =< data_index_' /\ data_index_' \in Nat
    <2>1. CASE c = 0
        <3>1. m + c = m /\ m \in 0 .. m
            BY <1>1, <2>1
        <3> QED BY <1>2, <1>3, <1>4, <2>1, <3>1
    <2>2. CASE c > 0
        <3>1. c * w \in Nat /\ data_index_ =< Align(data_index_, w)
              /\ Align(data_index_, w) \in Nat
            BY <1>1, <1>2, Product, Aligns
        <3>2. data_index_' = Align(data_index_, w) + c * w
            BY <1>2, <2>2
        <3>3. data_index_ =< data_index_' /\ data_index_' \in Nat
            BY <1>2, <3>1, <3>2
        <3> QED BY <1>3, <1>8, <2>2, <3>2, <3>3
    <2> QED BY <1>1, <2>1, <2>2
<1>10. ASSUME NEW l \in DOMAIN symbol_table_, IsDataLabel(l) PROVE LabelAddressed(more, l)'
    <2>. DEFINE symbol == symbol_table_[l]
    <2>1. symbol.address \in Nat
        BY DEF TypeOK, Symbol
    <2>2. /\ symbol.line \in DOMAIN source /\ symbol.address =< data_index_
          /\ Defines(symbol.line, l) /\ SectionAt(symbol.line, "data")
        BY <1>6, <1>10 DEF LabelAddressed
    <2>3. \/ \E n \in 1 .. m : /\ data_buffer_[n].line = symbol.line + 1
                               /\ data_buffer_[n].item = 1
                               /\ symbol.address = Start(ends, n)
          \/ Aligned(ends) /\ pos = symbol.line + 1 /\ symbol.address = data_index_
        BY <1>6, <1>10, Zenon DEF LabelAddressed
    <2>4. symbol' = symbol
        BY <1>2
    <2>. HIDE DEF symbol
    <2>5. symbol.address =< data_index_'
        BY <1>2, <1>9, <2>1, <2>2
    <2>6. \E n \in 1 .. (m + c) : /\ data_buffer_'[n].line = symbol.line + 1
                                  /\ data_buffer_'[n].item = 1
                                  /\ symbol.address = Start(more, n)'
        <3>1. CASE \E n \in 1 .. m : /\ data_buffer_[n].line = symbol.line + 1
                                     /\ data_buffer_[n].item = 1
                                     /\ symbol.address = Start(ends, n)
            <4>1. PICK n \in 1 .. m : /\ data_buffer_[n].line = symbol.line + 1
                                      /\ data_buffer_[n].item = 1
                                      /\ symbol.address = Start(ends, n)
                BY <3>1
            <4>2. n \in 1 .. (m + c)
                BY <1>1
            <4>3. data_buffer_'[n] = data_buffer_[n] /\ Start(more, n)' = Start(ends, n)
                BY <1>3
            <4> QED BY <4>1, <4>2, <4>3
        <3>2. CASE Aligned(ends) /\ pos = symbol.line + 1 /\ symbol.address = data_index_
            <4>1. c > 0 /\ symbol.address = Align(ends[m], w)
                BY <1>5, <3>2, Zenon
            <4>2. /\ m + 1 \in 1 .. (m + c)
                  /\ data_buffer_'[m + 1].line = pos /\ data_buffer_'[m + 1].item = 1
                  /\ Start(more, m + 1)' = Align(ends[m], w)
                BY <1>3, <4>1, Zenon
            <4>3. /\ data_buffer_'[m + 1].line = symbol.line + 1
                  /\ symbol.address = Start(more, m + 1)'
                BY <3>2, <4>1, <4>2, Zenon
            <4> QED BY <4>2, <4>3, Zenon
        <3> QED BY <2>3, <3>1, <3>2
    <2> QED BY <1>1, <1>2, <2>2, <2>4, <2>5, <2>6
            DEF LabelAddressed, Defines, SectionAt, symbol, c
<1>11. \A l \in DOMAIN symbol_table_' : IsDataLabel(l)' => LabelAddressed(more, l)'
    BY <1>2, <1>10 DEF IsDataLabel
<1>12. data_index_' = more[Len(data_buffer_')]
    BY <1>1, <1>9
<1> QED BY <1>11, <1>12, Zenon DEF DataCounted

LEMMA DirectiveLayout ==
    ASSUME TypeOK, LinkInv, NEW ends, LayoutInv(ends), DataDirective
    PROVE  \E more : LayoutInv(more)'
<1>. DEFINE m == Len(data_buffer_)
            more == More(ends, m, Line.width, Line.count)
<1>1. /\ pass = "data" /\ UNCHANGED <<source, pass, data_counter, data_memory>>
      /\ errors_ => errors_'
    BY DEF DataDirective, InData, input, loaded
<1>2. LaidOut(ends) /\ DataLoaded(ends)
    BY DEF LayoutInv
<1>3. ASSUME NEW o, o = more
      PROVE  LaidOut(o)' /\ \A n \in 0 .. m : o[n] = ends[n]
    BY <1>2, <1>3, DirectiveLaidOut
<1>4. ASSUME NEW o, o = more, ~errors_', ValuesBehindLabels' PROVE DataCounted(o)'
    <2>1. ~errors_ /\ ValuesBehindLabels
        BY <1>1, <1>4 DEF ValuesBehindLabels
    <2>2. DataCounted(ends)
        BY <2>1 DEF LayoutInv
    <2> QED BY <1>2, <1>4, <2>2, DirectiveCounted
<1>5. m \in Nat /\ Len(data_buffer_)' \in Nat
    BY DirectiveValues
<1>6. ASSUME NEW o, o = more PROVE DataLoaded(o)'
    <2>1. o[0] = ends[0]
        BY <1>3, <1>5, <1>6
    <2>2. NextValue = 1 /\ NextValue' = 1 /\ pass' # "loaded"
        BY <1>1 DEF NextValue
    <2>3. data_counter = ends[0] /\ DOMAIN data_memory \subseteq 0 .. (data_counter - 1)
        BY <1>2, <2>2 DEF DataLoaded
    <2>4. 1 =< Len(data_buffer_)' + 1 /\ 1 .. (1 - 1) = {}
        BY <1>5
    <2> QED BY <1>1, <2>1, <2>2, <2>3, <2>4 DEF DataLoaded
<1>7. ASSUME NEW o, o = more PROVE LayoutInv(o)'
    BY <1>3, <1>4, <1>6, <1>7, Zenon DEF LayoutInv
<1>. HIDE DEF more
<1> QED BY <1>7

\* The loader puts the next value behind the others, where it starts.
LEMMA LoadItemLayout ==
    ASSUME TypeOK, NEW ends, LayoutInv(ends), LoadItem PROVE LayoutInv(ends)'
<1>. DEFINE value == data_buffer_[pos]
            at == Align(data_counter, value.width)
            bytes == at .. (at + value.width - 1)
            entry(b) == [line |-> value.line, item |-> value.item, byte |-> b - at]
<1>1. /\ pass = "load" /\ pos =< Len(data_buffer_) /\ pos' = pos + 1
      /\ UNCHANGED <<source, pass, symbol_table_, data_index_, data_buffer_, errors_>>
    BY DEF LoadItem, Advance, input, data
<1>2. /\ data_counter' = at + value.width
      /\ data_memory' = [b \in DOMAIN data_memory \cup bytes |->
                            IF b \in bytes THEN entry(b) ELSE data_memory[b]]
    BY Zenon DEF LoadItem
<1>3. pos \in 1 .. Len(data_buffer_) /\ Len(data_buffer_) \in Nat /\ pos \in Nat \ {0}
      /\ data_counter \in Nat
    BY <1>1, LenProperties DEF TypeOK
<1>4. value \in [width : {1, 2, 4, 8}, line : Nat, item : Nat]
    BY <1>3, ElementOfSeq DEF TypeOK
<1>5. value.width \in {1, 2, 4, 8}
    BY <1>4
<1>6. at \in Nat /\ data_counter =< at
    BY <1>3, <1>5, Aligns
<1>7. LaidOut(ends) /\ DataLoaded(ends) /\ NextValue = pos /\ NextValue' = pos + 1
    BY <1>1 DEF LayoutInv, NextValue
<1>8. data_counter = ends[pos - 1] /\ at = Start(ends, pos)
    BY <1>7 DEF DataLoaded, Start
<1>9. ends[pos] = at + value.width
    BY <1>3, <1>7, <1>8 DEF LaidOut
<1>10. entry(at) = [line |-> value.line, item |-> value.item, byte |-> 0]
    BY <1>6
<1>. DEFINE w == value.width
            first == [line |-> value.line, item |-> value.item, byte |-> 0]
<1>11. DOMAIN data_memory \subseteq 0 .. (data_counter - 1)
    BY <1>7 DEF DataLoaded
<1>12. /\ \A n \in 1 .. (pos - 1) :
             /\ Start(ends, n) \in DOMAIN data_memory
             /\ data_memory[Start(ends, n)] =
                    [line |-> data_buffer_[n].line, item |-> data_buffer_[n].item, byte |-> 0]
    BY <1>7 DEF DataLoaded
<1>13. at \in bytes /\ bytes = at .. (at + w - 1) /\ w \in {1, 2, 4, 8}
    BY <1>5, <1>6
<1>. HIDE DEF at, entry, w, bytes
<1>14. at \in DOMAIN data_memory' /\ data_memory'[at] = first
    <2>1. at \in DOMAIN data_memory \cup bytes
        BY <1>13
    <2>2. data_memory'[at] = entry(at)
        BY <1>2, <1>13, <2>1
    <2> QED BY <1>2, <1>10, <2>1, <2>2
<1>15. DOMAIN data_memory' \subseteq 0 .. (at + w - 1)
    <2>1. DOMAIN data_memory' = DOMAIN data_memory \cup bytes
        BY <1>2
    <2>2. 0 .. (data_counter - 1) \subseteq 0 .. (at + w - 1)
        BY <1>3, <1>6, <1>13
    <2>3. bytes \subseteq 0 .. (at + w - 1)
        BY <1>6, <1>13
    <2> QED BY <1>11, <2>1, <2>2, <2>3
<1>16. ASSUME NEW s \in DOMAIN data_memory
       PROVE  s \in DOMAIN data_memory' /\ data_memory'[s] = data_memory[s]
    <2>1. s \notin bytes
        BY <1>3, <1>6, <1>11, <1>13
    <2> QED BY <1>2, <2>1
<1>17. DataLoaded(ends)'
    <2>1. NextValue' =< Len(data_buffer_') + 1 /\ pass' # "loaded"
        BY <1>1, <1>3, <1>7
    <2>2. pos' - 1 = pos /\ NextValue' - 1 = pos
        BY <1>1, <1>3, <1>7
    <2>3. data_counter' = ends[pos] /\ data_counter' = at + w
        BY <1>2, <1>9 DEF w
    <2>4. ASSUME NEW n \in 1 .. pos, NEW s, s = Start(ends, n)
          PROVE  /\ s \in DOMAIN data_memory'
                 /\ data_memory'[s] = [line |-> data_buffer_[n].line,
                                       item |-> data_buffer_[n].item, byte |-> 0]
        <3>1. CASE n = pos
            BY <1>8, <1>14, <2>4, <3>1
        <3>2. CASE n # pos
            <4>1. n \in 1 .. (pos - 1)
                BY <1>3, <3>2
            <4> QED BY <1>12, <1>16, <2>4, <4>1
        <3> QED BY <3>1, <3>2
    <2>5. \A n : Start(ends, n)' = Start(ends, n)
        BY <1>1 DEF Start
    <2>6. \A n \in 1 .. (NextValue' - 1) :
             /\ Start(ends, n)' \in DOMAIN data_memory'
             /\ data_memory'[Start(ends, n)'] =
                    [line |-> data_buffer_'[n].line, item |-> data_buffer_'[n].item, byte |-> 0]
        BY <1>1, <2>2, <2>4, <2>5
    <2>7. DOMAIN data_memory' \subseteq 0 .. (data_counter' - 1)
        BY <1>6, <1>13, <1>15, <2>3
    <2> QED BY <2>1, <2>2, <2>3, <2>6, <2>7, Zenon DEF DataLoaded
<1>18. LaidOut(ends)'
    BY <1>1, <1>7, LaidOutKept
<1>19. ASSUME ~errors_', ValuesBehindLabels' PROVE DataCounted(ends)'
    <2>1. ~errors_ /\ ValuesBehindLabels /\ ~Aligned(ends)
        BY <1>1, <1>19 DEF ValuesBehindLabels, Aligned
    <2> QED BY <1>1, <2>1, CountedKept DEF LayoutInv, IsDataLabel, data
<1> QED BY <1>17, <1>18, <1>19, Zenon DEF LayoutInv

LEMMA LayoutStep ==
    ASSUME TypeOK, LinkInv, NEW ends, LayoutInv(ends), [Next]_vars
    PROVE  \E e : LayoutInv(e)'
<1>1. CASE DataDirective
    BY <1>1, DirectiveLayout
<1>2. CASE ~DataDirective
    <2>1. LayoutInv(ends)'
        BY <1>2, LineLayout, LateLayout, DataLabelLayout, LoadItemLayout, StutterLayout DEF Next
    <2> QED BY <2>1
<1> QED BY <1>1, <1>2

LEMMA InitLayout == Init => \E ends : LayoutInv(ends)
<1> SUFFICES ASSUME Init PROVE \E ends : LayoutInv(ends)
    OBVIOUS
<1>. DEFINE e == [n \in {0} |-> 0]
<1>1. /\ pass = "data" /\ symbol_table_ = [l \in {} |-> 0] /\ data_index_ = 0
      /\ data_buffer_ = <<>> /\ data_counter = 0 /\ data_memory = [b \in {} |-> 0]
    BY DEF Init
<1>2. Len(data_buffer_) = 0 /\ 0 .. 0 = {0} /\ 1 .. 0 = {} /\ e[0] = 0 /\ e \in [{0} -> Nat]
    BY <1>1
<1>. HIDE DEF e
<1>3. LaidOut(e)
    BY <1>2 DEF LaidOut
<1>4. NextValue = 1 /\ 1 - 1 = 0
    BY <1>1 DEF NextValue
<1>5. DataLoaded(e)
    BY <1>1, <1>2, <1>4 DEF DataLoaded
<1>6. DataCounted(e)
    BY <1>1, <1>2 DEF DataCounted, IsDataLabel
<1> QED BY <1>3, <1>5, <1>6 DEF LayoutInv

PseudosInv == PseudosStand /\ \E ends : LayoutInv(ends)

LEMMA AlwaysPseudosInv == Spec => [](TypeOK /\ LinkInv /\ CodeInv /\ PseudosInv)
<1>1. Init => PseudosInv
    <2>1. Init => PseudosStand
        BY DEF Init, PseudosStand
    <2> QED BY <2>1, InitLayout DEF PseudosInv
<1>2. TypeOK /\ LinkInv /\ CodeInv /\ PseudosInv /\ [Next]_vars => PseudosInv'
    <2> SUFFICES ASSUME TypeOK, LinkInv, PseudosInv, [Next]_vars PROVE PseudosInv'
        OBVIOUS
    <2>1. PseudosStand'
        BY PseudosStep DEF PseudosInv
    <2>2. PICK ends : LayoutInv(ends)
        BY DEF PseudosInv
    <2>3. \E e : LayoutInv(e)'
        BY <2>2, LayoutStep
    <2> QED BY <2>1, <2>3, Zenon DEF PseudosInv
<1> QED BY <1>1, <1>2, AlwaysCodeInv, PTL DEF Spec

-----------------------------------------------------------------------------
(* What the pseudo-instructions do.                                        *)

\* The words of units that stand are decoded as these units.
LEMMA StandMeans ==
    ASSUME TypeOK, LinkInv, CodeInv, pass = "loaded", NEW i \in 1 .. instruction_index_,
           NEW units \in PlainUnits, Stands(i, units), NEW j \in 1 .. Len(units)
    PROVE  /\ i + j - 1 \in 1 .. instruction_index_
           /\ Means(Decode(text_buffer[i + j - 1]), units[j])
<1>1. Len(units) \in Nat /\ units[j].label = NoLabel /\ instruction_index_ \in Nat
    BY PlainUnit DEF TypeOK
<1>2. i + j - 1 \in i .. (i + Len(units) - 1) /\ i + j - 1 - i + 1 = j
    BY <1>1
<1>3. /\ i + Len(units) - 1 =< instruction_index_
      /\ intermediate_code_[i + j - 1] = units[i + j - 1 - i + 1]
    BY <1>2 DEF Stands
<1>4. i + j - 1 \in 1 .. instruction_index_ /\ intermediate_code_[i + j - 1] = units[j]
    BY <1>1, <1>2, <1>3
<1>5. i + j - 1 \in DOMAIN intermediate_code_
    BY <1>4 DEF TypeOK
<1>6. Decoded
    BY InvDecoded
<1>7. Means(Decode(text_buffer[i + j - 1]), intermediate_code_[i + j - 1])
    BY <1>1, <1>4, <1>5, <1>6 DEF Decoded
<1> QED BY <1>4, <1>7

\* Units of a line of its own: the one behind is the first of its line.
LEMMA StandFirst ==
    ASSUME TypeOK, NEW i \in 1 .. instruction_index_, NEW units, Stands(i, units)
    PROVE  /\ Len(units) = 1 /\ i + 1 \in DOMAIN intermediate_code_ => First(i + 1)
           /\ Len(units) = 2 => i + 1 \in DOMAIN intermediate_code_ /\ ~First(i + 1)
<1>1. instruction_index_ \in Nat /\ DOMAIN intermediate_code_ = 1 .. instruction_index_
      /\ (i + 1) - 1 = i /\ i + 1 # 1
    BY DEF TypeOK
<1>2. ASSUME Len(units) = 1, i + 1 \in 1 .. instruction_index_ PROVE First(i + 1)
    <2>1. i + Len(units) - 1 = i /\ i < instruction_index_
        BY <1>1, <1>2
    <2>2. instruction_number_line_number_mapping_[i + 1]
              # instruction_number_line_number_mapping_[i]
        BY <2>1 DEF Stands
    <2> QED BY <1>1, <2>2 DEF First
<1>3. ASSUME Len(units) = 2 PROVE i + 1 \in 1 .. instruction_index_ /\ ~First(i + 1)
    <2>1. i + Len(units) - 1 = i + 1 /\ i + 1 \in i .. (i + 1)
        BY <1>1, <1>3
    <2>2. /\ i + 1 =< instruction_index_
          /\ instruction_number_line_number_mapping_[i + 1]
                 = instruction_number_line_number_mapping_[i]
        BY <2>1 DEF Stands
    <2> QED BY <1>1, <2>2 DEF First
<1> QED BY <1>1, <1>2, <1>3

\* What li's words, la's and a load's are as they are decoded.
LEMMA UpperMeans ==
    ASSUME NEW m \in {"auipc", "lui"}, NEW rd, NEW imm, NEW d, Means(d, Unit(m, rd, 0, 0, imm))
    PROVE  d.imm = imm % 2^20 /\ (m = "lui" => d.opcode = "LUI")
<1>. DEFINE u == Unit(m, rd, 0, 0, imm)
<1>1. u.opcode = m /\ u.imm = imm
    BY DEF Unit
<1>2. FormatOf(u.opcode) = "U"
    BY <1>1, UpperFormat
<1>. HIDE DEF u
<1>3. Means(d, u)
    BY DEF u
<1> QED BY <1>1, <1>2, <1>3, Zenon DEF Means

LEMMA LowerMeans ==
    ASSUME NEW m \in {"addi", "lb", "lh", "lw", "ld"}, NEW rd, NEW rs1, NEW imm, NEW d,
           Means(d, Unit(m, rd, rs1, 0, imm))
    PROVE  d.imm = imm /\ (m = "addi" => d.opcode # "LUI")
<1>. DEFINE u == Unit(m, rd, rs1, 0, imm)
<1>1. u.opcode = m /\ u.imm = imm
    BY DEF Unit
<1>2. FormatOf(u.opcode) = "I1"
    BY <1>1, LowerFormat
<1>3. "addi" \in DOMAIN AluMeaning /\ "LUI" \notin {"R", "IMM"}
    BY DEF AluMeaning
<1>. HIDE DEF u
<1>4. Means(d, u)
    BY DEF u
<1>5. d.imm = imm
    BY <1>1, <1>2, <1>4 DEF Means
<1>6. m = "addi" => d.opcode \in {"R", "IMM"}
    BY <1>1, <1>3, <1>4, Zenon DEF Means
<1> QED BY <1>3, <1>5, <1>6

LEMMA UpperSigned ==
    ASSUME NEW n \in Int, -524288 =< n, n =< 524288
    PROVE  sign_extend(n % 2^20, 20) = IF n < 524288 THEN n ELSE n - 1048576
<1>1. 2^20 = 1048576
    BY SMT
<1>2. (n >= 0 => n % 1048576 = n) /\ (n < 0 => n % 1048576 = n + 1048576)
    BY SMT
<1> QED BY SMT, <1>1, <1>2 DEF sign_extend, SignExtend

\* The parts of the number li leaves, by the two decoded words.
LEMMA LiParts ==
    ASSUME NEW i, NEW d, d = Decode(text_buffer[i]), NEW e, e = Decode(text_buffer[i + 1])
    PROVE  /\ LiHigh(i) = IF d.opcode = "LUI" THEN sign_extend(d.imm, 20) ELSE 0
           /\ LiLow(i) = (IF d.opcode = "LUI" THEN 0 ELSE d.imm)
                           + (IF i + 1 \in DOMAIN intermediate_code_ /\ ~First(i + 1)
                              THEN e.imm ELSE 0)
<1>1. Imm(i) = d.imm /\ Imm(i + 1) = e.imm
    BY DEF Imm
<1>2. LiHigh(i) = IF d.opcode = "LUI" THEN sign_extend(d.imm, 20) ELSE 0
    BY <1>1, Zenon DEF LiHigh
<1>3. LiLow(i) = (IF d.opcode = "LUI" THEN 0 ELSE d.imm)
                   + (IF i + 1 \in DOMAIN intermediate_code_ /\ ~First(i + 1)
                      THEN e.imm ELSE 0)
    BY <1>1, Zenon DEF LiLow
<1> QED BY <1>2, <1>3

\* The number that two parts make, or that number and 2^32, has their quotient and
\* remainder.
LEMMA PartsOfSum ==
    ASSUME NEW high \in Int, NEW low \in Int, -2048 =< low, low < 2048,
           NEW n \in Int, NEW carry \in {0, 1048576}, 4096 * high + low = n - 4096 * carry
    PROVE  high + (low \div 4096) = (n \div 4096) - carry /\ low % 4096 = n % 4096
<1>. DEFINE q == n \div 4096
            r == n % 4096
            x == low \div 4096
            y == low % 4096
<1>1. \/ low >= 0 /\ x = 0 /\ y = low
      \/ low < 0 /\ x = -1 /\ y = low + 4096
    BY SMT
<1>2. q \in Int
    BY SMT
<1>3. r \in 0 .. 4095
    BY SMT
<1>4. n = 4096 * q + r
    BY SMT
<1>5. carry = 0 \/ carry = 1048576
    OBVIOUS
<1>6. high + x = q - carry /\ y = r
    <2>. HIDE DEF q, r, x, y
    <2> QED BY SMT, <1>1, <1>2, <1>3, <1>4, <1>5
<1> QED BY <1>6

\* What li leaves of a number that it accepts.
LEMMA LiReaches ==
    ASSUME TypeOK, LinkInv, CodeInv, pass = "loaded", NEW i \in 1 .. instruction_index_,
           NEW rd \in Reg, NEW imm \in Int, LiAccepts(imm),
           Stands(i, LiUnits(rd, imm))
    PROVE  LiLeaves(i, imm)
<1>. DEFINE units == LiUnits(rd, imm)
            upper == UpperPart(imm)
            lower == LowerPart(imm)
            carry == IF UpperKept(imm) THEN 0 ELSE 1048576
            kept == IF upper < 524288 THEN upper ELSE upper - 1048576
            short == Unit("addi", rd, 0, 0, imm)
            u == Unit("lui", rd, 0, 0, upper)
            v == Unit("addi", rd, rd, 0, lower)
            d == Decode(text_buffer[i])
            e == Decode(text_buffer[i + 1])
<1>1. units \in PlainUnits /\ Stands(i, units)
    BY LiPlain
<1>2. /\ upper \in Int /\ lower \in Int /\ 4096 * upper + lower = imm
      /\ -2048 =< lower /\ lower < 2048
    BY Lower
<1>3. -2147483648 =< imm /\ imm < 2147483648
    <2>1. LiReach \in Nat /\ (LiReach - 1) \div 4096 < 524288
        BY AssemblerAssumption
    <2>2. LiReach =< 2147483648
        BY SMT, <2>1
    <2> QED BY SMT, <2>1, <2>2 DEF LiAccepts
<1>4. -524288 =< upper /\ upper =< 524288
    <2> HIDE DEF upper, lower
    <2> QED BY SMT, <1>2, <1>3
<1>14. carry \in {0, 1048576} /\ 4096 * kept + lower = imm - 4096 * carry
    <2>1. UpperKept(imm) <=> upper < 524288
        BY DEF UpperKept
    <2> HIDE DEF upper, lower
    <2> QED BY SMT, <1>2, <2>1
<1>5. \/ units = <<short>> /\ -2048 =< imm /\ imm < 2048
      \/ units = <<u>> /\ lower = 0
      \/ units = <<u, v>>
    BY DEF LiUnits
<1>6. /\ LiHigh(i) = IF d.opcode = "LUI" THEN sign_extend(d.imm, 20) ELSE 0
      /\ LiLow(i) = (IF d.opcode = "LUI" THEN 0 ELSE d.imm)
                      + (IF i + 1 \in DOMAIN intermediate_code_ /\ ~First(i + 1)
                         THEN e.imm ELSE 0)
    <2>1. d = Decode(text_buffer[i]) /\ e = Decode(text_buffer[i + 1])
        OBVIOUS
    <2> HIDE DEF d, e, units, upper, lower, kept, carry, short, u, v
    <2> QED BY <2>1, LiParts
<1>7. i + 1 - 1 = i /\ i + 2 - 1 = i + 1
    OBVIOUS
<1>16. ASSUME LiHigh(i) \in Int, LiLow(i) \in Int, -2048 =< LiLow(i), LiLow(i) < 2048,
              4096 * LiHigh(i) + LiLow(i) = imm - 4096 * carry
       PROVE  LiLeaves(i, imm)
    <2>1. carry \in {0, 1048576}
        BY <1>14
    <2> HIDE DEF carry
    <2>2. /\ LiHigh(i) + (LiLow(i) \div 4096) = (imm \div 4096) - carry
          /\ LiLow(i) % 4096 = imm % 4096
        BY <1>16, <2>1, PartsOfSum
    <2> QED BY <2>2 DEF LiLeaves, carry
<1>. HIDE DEF units, upper, lower, kept, carry, short, u, v, d, e
<1>8. ASSUME NEW j \in 1 .. Len(units) PROVE Means(Decode(text_buffer[i + j - 1]), units[j])
    BY <1>1, StandMeans
<1>9. CASE units = <<short>> /\ -2048 =< imm /\ imm < 2048
    <2>1. Len(units) = 1 /\ units[1] = short /\ 1 \in 1 .. Len(units)
        BY <1>9
    <2>2. Means(Decode(text_buffer[i + 1 - 1]), units[1])
        BY <1>8, <2>1
    <2>3. Means(d, short)
        BY <1>7, <2>1, <2>2 DEF d
    <2>4. d.imm = imm /\ d.opcode # "LUI"
        BY <2>3, LowerMeans DEF short
    <2>5. ~(i + 1 \in DOMAIN intermediate_code_ /\ ~First(i + 1))
        BY <1>1, <2>1, StandFirst
    <2>6. LiHigh(i) = 0 /\ LiLow(i) = imm
        BY <1>6, <2>4, <2>5
    <2>7. kept = upper
        BY <1>2, <1>9 DEF kept
    <2>8. 4096 * 0 + imm = imm - 4096 * carry
        BY <1>2, <1>14, <2>7
    <2> QED BY <1>9, <1>16, <2>6, <2>8
<1>10. sign_extend(upper % 2^20, 20) = kept
    BY <1>2, <1>4, UpperSigned DEF kept
<1>15. kept \in Int
    BY <1>2 DEF kept
<1>11. ASSUME Len(units) >= 1, units[1] = u, 1 \in 1 .. Len(units)
       PROVE  d.opcode = "LUI" /\ sign_extend(d.imm, 20) = kept
    <2>1. Means(Decode(text_buffer[i + 1 - 1]), units[1])
        BY <1>8, <1>11
    <2>2. Means(d, u)
        BY <1>7, <1>11, <2>1 DEF d
    <2>3. d.imm = upper % 2^20 /\ d.opcode = "LUI"
        BY <2>2, UpperMeans DEF u
    <2> QED BY <1>10, <2>3
<1>12. CASE units = <<u>> /\ lower = 0
    <2>1. Len(units) = 1 /\ units[1] = u /\ 1 \in 1 .. Len(units)
        BY <1>12
    <2>2. ~(i + 1 \in DOMAIN intermediate_code_ /\ ~First(i + 1))
        BY <1>1, <2>1, StandFirst
    <2>3. LiHigh(i) = kept /\ LiLow(i) = 0
        BY <1>6, <1>11, <2>1, <2>2
    <2>4. 4096 * kept + 0 = imm - 4096 * carry
        BY <1>12, <1>14
    <2> QED BY <1>15, <1>16, <2>3, <2>4
<1>13. CASE units = <<u, v>>
    <2>1. /\ Len(units) = 2 /\ units[1] = u /\ units[2] = v
          /\ 1 \in 1 .. Len(units) /\ 2 \in 1 .. Len(units)
        BY <1>13
    <2>2. Means(Decode(text_buffer[i + 2 - 1]), units[2])
        BY <1>8, <2>1
    <2>3. Means(e, v)
        BY <1>7, <2>1, <2>2 DEF e
    <2>4. e.imm = lower
        BY <2>3, LowerMeans DEF v
    <2>5. i + 1 \in DOMAIN intermediate_code_ /\ ~First(i + 1)
        BY <1>1, <2>1, StandFirst
    <2>6. LiHigh(i) = kept /\ LiLow(i) = 0 + lower
        BY <1>6, <1>11, <2>1, <2>4, <2>5
    <2>7. LiLow(i) = lower
        BY <1>2, <2>6
    <2> QED BY <1>2, <1>14, <1>15, <1>16, <2>6, <2>7
<1> QED BY <1>5, <1>9, <1>12, <1>13

\* The distance that la and loads of a label add up to leads to the label.
LEMMA AddressReaches ==
    ASSUME TypeOK, LinkInv, CodeInv, pass = "loaded", NEW i \in 1 .. instruction_index_,
           NEW line, line.opcode \in {"addi", "lb", "lh", "lw", "ld"}, line.rd \in Reg,
           NEW address \in Nat, address = symbol_table_[line.label].address,
           address =< data_index_, DataInReach, Stands(i, AddressUnits(line, i - 1))
    PROVE  4 * (i - 1) + 4096 * Imm(i) + Imm(i + 1) - DataStart = address
<1>. DEFINE units == AddressUnits(line, i - 1)
            offset == DataStart + address - 4 * (i - 1)
            hi20 == UpperPart(offset)
            lower == LowerPart(offset)
            u == Unit("auipc", line.rd, 0, 0, hi20)
            v == Unit(line.opcode, line.rd, line.rd, 0, lower)
<1>1. units \in PlainUnits /\ Stands(i, units)
    BY AddressPlain
<1>2. units = <<u, v>>
    BY DEF AddressUnits
<1>3. /\ DataStart \in Nat /\ instruction_index_ \in Nat /\ data_index_ \in Nat
      /\ 4 * instruction_index_ =< DataStart
      /\ UpperPart(DataStart + data_index_) < 524288
    BY AssemblerAssumption DEF TypeOK, DataInReach, UpperKept
<1>4. offset \in Nat /\ offset =< DataStart + data_index_
    BY <1>3
<1>. HIDE DEF offset
<1>5. hi20 \in Nat /\ hi20 < 524288 /\ lower \in Int /\ 4096 * hi20 + lower = offset
    <2>. DEFINE end == DataStart + data_index_
                top == UpperPart(end)
                rest == LowerPart(end)
    <2>1. /\ hi20 \in Int /\ lower \in Int /\ 4096 * hi20 + lower = offset
          /\ -2048 =< lower /\ lower < 2048
        BY <1>4, Lower
    <2>2. end \in Int /\ offset \in Nat /\ offset =< end /\ top < 524288
        BY <1>3, <1>4
    <2>. HIDE DEF end
    <2>3. /\ top \in Int /\ rest \in Int /\ 4096 * top + rest = end
          /\ -2048 =< rest /\ rest < 2048
        BY <2>2, Lower
    <2>. HIDE DEF top, rest, hi20, lower
    <2>4. hi20 >= 0
        BY <2>1, <2>2
    <2>5. hi20 =< top
        BY <2>1, <2>2, <2>3
    <2> QED BY <2>1, <2>2, <2>3, <2>4, <2>5
<1>6. hi20 % 2^20 = hi20
    <2>. HIDE DEF hi20
    <2>1. 2^20 = 1048576
        BY SMT
    <2> QED BY SMT, <1>5, <2>1
<1>7. i + 1 - 1 = i /\ i + 2 - 1 = i + 1
    OBVIOUS
<1>. HIDE DEF units, hi20, lower, u, v
<1>8. /\ Len(units) = 2 /\ units[1] = u /\ units[2] = v
      /\ 1 \in 1 .. Len(units) /\ 2 \in 1 .. Len(units)
    BY <1>2
<1>9. ASSUME NEW j \in 1 .. Len(units) PROVE Means(Decode(text_buffer[i + j - 1]), units[j])
    BY <1>1, StandMeans
<1>10. /\ Means(Decode(text_buffer[i + 1 - 1]), units[1])
       /\ Means(Decode(text_buffer[i + 2 - 1]), units[2])
    BY <1>8, <1>9
<1>11. Means(Decode(text_buffer[i]), u) /\ Means(Decode(text_buffer[i + 1]), v)
    BY <1>7, <1>8, <1>10
<1>12. Imm(i) = hi20
    BY <1>6, <1>11, UpperMeans DEF u, Imm
<1>13. Imm(i + 1) = lower
    BY <1>11, LowerMeans DEF v, Imm
<1> QED BY <1>3, <1>5, <1>12, <1>13 DEF offset

\* The label's value is in the memory at its address.
LEMMA ValueLoaded ==
    ASSUME TypeOK, pass = "loaded", NEW ends, DataLoaded(ends), NEW l, LabelAddressed(ends, l),
           NEW symbol, symbol = symbol_table_[l]
    PROVE  /\ symbol.line \in DOMAIN source /\ symbol.address =< data_index_
           /\ Defines(symbol.line, l) /\ SectionAt(symbol.line, "data")
           /\ symbol.address \in DOMAIN data_memory
           /\ data_memory[symbol.address] = [line |-> symbol.line + 1, item |-> 1, byte |-> 0]
<1>1. ~Aligned(ends)
    BY DEF Aligned
<1>2. PICK n \in 1 .. Len(data_buffer_) :
                 /\ data_buffer_[n].line = symbol.line + 1 /\ data_buffer_[n].item = 1
                 /\ symbol.address = Start(ends, n)
    BY <1>1 DEF LabelAddressed
<1>3. NextValue - 1 = Len(data_buffer_)
    <2>1. Len(data_buffer_) \in Nat
        BY LenProperties DEF TypeOK
    <2> QED BY <2>1 DEF DataLoaded
<1>4. /\ Start(ends, n) \in DOMAIN data_memory
      /\ data_memory[Start(ends, n)] =
             [line |-> data_buffer_[n].line, item |-> data_buffer_[n].item, byte |-> 0]
    BY <1>3 DEF DataLoaded
<1>5. /\ symbol.line \in DOMAIN source /\ symbol.address =< data_index_
      /\ Defines(symbol.line, l) /\ SectionAt(symbol.line, "data")
    BY DEF LabelAddressed
<1> QED BY <1>2, <1>4, <1>5

LEMMA InvPseudos == TypeOK /\ LinkInv /\ CodeInv /\ PseudosInv => PseudosReach
<1> SUFFICES ASSUME TypeOK, LinkInv, CodeInv, PseudosInv, pass = "loaded",
                    NEW i \in DOMAIN intermediate_code_, First(i),
                    NEW line, line = LineOf(i)
             PROVE  /\ line.kind = "li" => LiLeaves(i, line.imm)
                    /\ line.kind = "address" /\ ValuesBehindLabels /\ DataInReach =>
                          LET place == 4 * (i - 1) + 4096 * Imm(i) + Imm(i + 1) - DataStart
                          IN \E d \in DOMAIN source :
                                /\ Defines(d, line.label) /\ SectionAt(d, "data")
                                /\ place \in DOMAIN data_memory
                                /\ data_memory[place] = [line |-> d + 1, item |-> 1, byte |-> 0]
    BY DEF PseudosReach, LineOf
<1>1. i \in 1 .. instruction_index_ /\ PseudosStand
    BY DEF TypeOK, PseudosInv
<1>2. /\ line.kind = "li" => line.rd \in Reg /\ line.imm \in Int
      /\ line.kind = "address" => /\ line.rd \in Reg /\ line.label \in Labels
                                  /\ line.opcode \in {"addi", "lb", "lh", "lw", "ld"}
    BY <1>1, LineOfType
<1>3. LineStands(i, line)
    BY <1>1, StandLines
<1>4. ASSUME line.kind = "li" PROVE LiLeaves(i, line.imm)
    BY <1>1, <1>2, <1>3, <1>4, LiReaches DEF LineStands
<1>5. ASSUME line.kind = "address", ValuesBehindLabels, DataInReach
      PROVE  LET place == 4 * (i - 1) + 4096 * Imm(i) + Imm(i + 1) - DataStart
             IN \E d \in DOMAIN source :
                   /\ Defines(d, line.label) /\ SectionAt(d, "data")
                   /\ place \in DOMAIN data_memory
                   /\ data_memory[place] = [line |-> d + 1, item |-> 1, byte |-> 0]
    <2>. DEFINE symbol == symbol_table_[line.label]
                place == 4 * (i - 1) + 4096 * Imm(i) + Imm(i + 1) - DataStart
    <2>1. IsDataLabel(line.label) /\ Stands(i, AddressUnits(line, i - 1))
        BY <1>3, <1>5 DEF LineStands
    <2>2. PICK ends : LayoutInv(ends)
        BY DEF PseudosInv
    <2>3. DataLoaded(ends) /\ DataCounted(ends)
        BY <1>5, <2>2 DEF LayoutInv, LinkInv
    <2>4. LabelAddressed(ends, line.label)
        BY <2>1, <2>3 DEF DataCounted, IsDataLabel
    <2>5. symbol.address \in Nat
        <3>1. symbol \in Symbol
            BY <2>1 DEF TypeOK, IsDataLabel
        <3> QED BY <3>1 DEF Symbol
    <2>6. /\ symbol.line \in DOMAIN source /\ symbol.address =< data_index_
          /\ Defines(symbol.line, line.label) /\ SectionAt(symbol.line, "data")
          /\ symbol.address \in DOMAIN data_memory
          /\ data_memory[symbol.address] = [line |-> symbol.line + 1, item |-> 1, byte |-> 0]
        BY <2>3, <2>4, ValueLoaded
    <2>7. place = symbol.address
        BY <1>1, <1>2, <1>5, <2>1, <2>5, <2>6, AddressReaches
    <2>. HIDE DEF symbol, place
    <2>8. \E d \in DOMAIN source :
             /\ Defines(d, line.label) /\ SectionAt(d, "data")
             /\ place \in DOMAIN data_memory
             /\ data_memory[place] = [line |-> d + 1, item |-> 1, byte |-> 0]
        BY <2>6, <2>7, Zenon
    <2> QED BY <2>8 DEF place
<1> QED BY <1>4, <1>5

\* What li loads is its number, or 2^32 less for the last 2048 below 2^31, and la and the
\* loads of a label reach the first byte of the value behind the label, for every source
\* whose labels are followed by values and whose text and data do not meet: through the
\* parser's counting of words and of aligned data, the fields of the words, and the
\* loader's own counting.
THEOREM PseudosAlwaysReach == Spec => []PseudosReach
BY AlwaysPseudosInv, InvPseudos, PTL
=============================================================================
