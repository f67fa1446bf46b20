------------------------------ MODULE Assembler ------------------------------
(***************************************************************************)
(* The assembler and the loader: the parser's pass over the data sections, *)
(* its pass over the text, the back-patching of references to labels that  *)
(* were not known yet, the generation of the words, the map from lines to  *)
(* instructions, and VmBase::LoadProgram, which lays out the data a second *)
(* time, from the data buffer alone.                                       *)
(*                                                                         *)
(* A source is a sequence of lines, each with one of                       *)
(*   section   .data, .text, .bss (with or without .section)               *)
(*   label     a definition; it may stand on a line of its own             *)
(*   items     a data directive with count values of a width: .byte, .zero *)
(*             and .string 1, .halfword 2, .word and .float 4, .dword and  *)
(*             .double 8                                                   *)
(*   op        an instruction with registers and, if it has one, a number  *)
(*   ref       a branch or jal to a label                                  *)
(*   address   la (opcode addi) or a load from a data label                *)
(*   li        load immediate                                              *)
(*   wrong     an instruction that matches none of its syntaxes            *)
(* Only whether there was an error matters: no program is made if so.      *)
(***************************************************************************)
EXTENDS CodeGenerator, Sequences, FiniteSets

CONSTANTS
    Labels,       \* the names a source defines and refers to
    Setups,       \* the sources and configurations to start from
    BranchReach,  \* 4096 in the code: label offsets -4096 .. 4095
    JumpReach,    \* 1048576 in the code
    LiReach,      \* 2^31 in the code
    DataStart     \* data_section_start, 0x10000000 by default

VARIABLES
    source,               \* never changes
    m_extension_enabled,  \* never changes
    pass,                 \* what is being done
    pos,                  \* the line, or the place in back_patch_ or data_buffer_
    section,              \* the section the line is in
    symbol_table_,
    data_index_, data_buffer_,
    instruction_index_, intermediate_code_,
    instruction_number_line_number_mapping_,
    back_patch_,
    errors_,
    text_buffer,          \* the words, from address 0 on
    data_counter,         \* LoadProgram's counter
    data_memory           \* the bytes written, by distance from DataStart

input == <<source, m_extension_enabled>>
data == <<data_index_, data_buffer_>>
code == <<instruction_index_, intermediate_code_, instruction_number_line_number_mapping_>>
loaded == <<text_buffer, data_counter, data_memory>>
vars == <<input, pass, pos, section, symbol_table_, data, code, back_patch_, errors_, loaded>>

NoLabel == ""
LabelReference == {l \in Mnemonic : FormatOf(l) \in {"B", "J"}}

Lines ==
    [kind : {"section"}, name : {"data", "text", "bss"}]
    \cup [kind : {"label"}, label : Labels]
    \cup [kind : {"items"}, width : {1, 2, 4, 8}, count : Nat, zero : BOOLEAN]
    \cup [kind : {"op"}, opcode : Mnemonic, rd : Reg, rs1 : Reg, rs2 : Reg, imm : Int]
    \cup [kind : {"ref"}, opcode : LabelReference, rd : Reg, rs1 : Reg, rs2 : Reg,
          label : Labels]
    \cup [kind : {"address"}, opcode : {"addi", "lb", "lh", "lw", "ld"}, rd : Reg,
          label : Labels]
    \cup [kind : {"li"}, rd : Reg, imm : Int]
    \cup [kind : {"wrong"}]

ASSUME ReachAssumption == /\ BranchReach \in Nat /\ BranchReach =< 4096
                          /\ JumpReach \in Nat /\ JumpReach =< 1048576

ASSUME AssemblerAssumption ==
    /\ LiReach \in Nat /\ (LiReach - 1) \div 4096 < 524288
    /\ DataStart \in Nat
    /\ NumGpr =< 32
    /\ NoLabel \notin Labels
    /\ \A s \in Setups : s.source \in Seq(Lines) /\ s.m_extension \in BOOLEAN

Unit(opcode, rd, rs1, rs2, imm) ==
    [opcode |-> opcode, rd |-> rd, rs1 |-> rs1, rs2 |-> rs2, imm |-> imm,
     label |-> NoLabel, resolved |-> TRUE]

\* The next multiple of an alignment.
Align(n, alignment) == IF (n % alignment) # 0 THEN n + (alignment - (n % alignment)) ELSE n
-----------------------------------------------------------------------------
Reading == pass \in {"data", "text"} /\ pos =< Len(source)
Line == source[pos]
Advance == pos' = pos + 1

\* A section directive is obeyed by both passes.
Section ==
    /\ Reading /\ Line.kind = "section"
    /\ Advance
    /\ section' = Line.name
    /\ UNCHANGED <<input, pass, symbol_table_, data, code, back_patch_, errors_, loaded>>

\* The first pass looks at data sections only, the second at the text only.
Skip ==
    /\ Reading /\ Line.kind # "section"
    /\ section \in IF pass = "data" THEN {"none", "text", "bss"} ELSE {"data", "bss"}
    /\ Advance
    /\ UNCHANGED <<input, pass, section, symbol_table_, data, code, back_patch_, errors_,
                   loaded>>

InData(kind) == /\ Reading /\ Line.kind = kind
                /\ pass = "data" /\ section = "data"
                /\ Advance

Error ==
    /\ errors_' = TRUE
    /\ UNCHANGED <<input, pass, section, symbol_table_, data, code, back_patch_, loaded>>

\* A faulty label that is entered before it is aligned.
DataLabelUnaligned ==
    /\ InData("label")
    /\ LET next == IF pos < Len(source) THEN source[pos + 1] ELSE [kind |-> "end"]
       IN /\ data_index_' = IF next.kind = "items" THEN Align(data_index_, next.width)
                            ELSE data_index_
          /\ errors_' = (errors_ \/ next.kind # "items")
          /\ symbol_table_' =
                [l \in DOMAIN symbol_table_ \cup {Line.label} |->
                    IF l = Line.label
                    THEN [address |-> data_index_, line |-> pos, isData |-> TRUE]
                    ELSE symbol_table_[l]]
    /\ UNCHANGED <<input, pass, section, data_buffer_, code, back_patch_, loaded>>

\* A label is aligned for the directive behind it.  An earlier label of the same
\* name is forgotten.
DataLabel ==
    /\ InData("label")
    /\ LET next == IF pos < Len(source) THEN source[pos + 1] ELSE [kind |-> "end"]
       IN /\ data_index_' = IF next.kind = "items" THEN Align(data_index_, next.width)
                            ELSE data_index_
          /\ errors_' = (errors_ \/ next.kind # "items")
          /\ symbol_table_' =
                [l \in DOMAIN symbol_table_ \cup {Line.label} |->
                    IF l = Line.label
                    THEN [address |-> data_index_', line |-> pos, isData |-> TRUE]
                    ELSE symbol_table_[l]]
    /\ UNCHANGED <<input, pass, section, data_buffer_, code, back_patch_, loaded>>

\* Every value is aligned and counted; .zero wants a positive number.
DataDirective ==
    /\ InData("items")
    /\ data_buffer_' = data_buffer_ \o [n \in 1 .. Line.count |->
                                            [width |-> Line.width, line |-> pos, item |-> n]]
    /\ data_index_' = IF Line.count = 0 THEN data_index_
                      ELSE Align(data_index_, Line.width) + Line.count * Line.width
    /\ errors_' = (errors_ \/ (Line.zero /\ Line.count = 0))
    /\ UNCHANGED <<input, pass, section, symbol_table_, code, back_patch_, loaded>>

\* Anything else in a data section.
InvalidDirective ==
    /\ \E kind \in {"op", "ref", "address", "li", "wrong"} : InData(kind)
    /\ Error

EndOfData ==
    /\ pass = "data" /\ pos > Len(source)
    /\ pass' = "text" /\ pos' = 1 /\ section' = "none"
    /\ UNCHANGED <<input, symbol_table_, data, code, back_patch_, errors_, loaded>>
-----------------------------------------------------------------------------
InText(kind) == /\ Reading /\ Line.kind = kind
                /\ pass = "text" /\ section \in {"none", "text"}
                /\ Advance

\* A faulty Emit that counts a line's units as one.
EmitCountedOnce(units) ==
    /\ intermediate_code_' = intermediate_code_ \o units
    /\ instruction_number_line_number_mapping_' =
           instruction_number_line_number_mapping_ \o [u \in DOMAIN units |-> pos]
    /\ instruction_index_' = instruction_index_ + 1

\* intermediate_code_ and the line map grow together, and the counter with them.
Emit(units) ==
    /\ intermediate_code_' = intermediate_code_ \o units
    /\ instruction_number_line_number_mapping_' =
           instruction_number_line_number_mapping_ \o [u \in DOMAIN units |-> pos]
    /\ instruction_index_' = instruction_index_ + Len(units)

EmitAll(units) ==
    /\ Emit(units)
    /\ UNCHANGED <<input, pass, section, symbol_table_, data, back_patch_, errors_, loaded>>

\* The first definition of a label counts; a second is an error.
TextLabel ==
    /\ InText("label")
    /\ IF Line.label \in DOMAIN symbol_table_
       THEN errors_' = TRUE /\ UNCHANGED symbol_table_
       ELSE /\ symbol_table_' =
                  [l \in DOMAIN symbol_table_ \cup {Line.label} |->
                      IF l = Line.label
                      THEN [address |-> 4 * instruction_index_, line |-> pos, isData |-> FALSE]
                      ELSE symbol_table_[l]]
            /\ UNCHANGED errors_
    /\ UNCHANGED <<input, pass, section, data, code, back_patch_, loaded>>

\* The ranges of a number, by format.
Accepts(format, imm) ==
    /\ format = "I2" => 0 =< imm /\ imm < 32
    /\ format \in {"I1", "S"} => -2048 =< imm /\ imm < 2048
    /\ format = "B" => -4096 =< imm /\ imm < 4096 /\ (imm % 4) = 0
    /\ format = "U" => 0 =< imm /\ imm < 1048576
    /\ format = "J" => -1048576 =< imm /\ imm < 1048576 /\ (imm % 2) = 0

MExtension == {"mul", "mulh", "mulhsu", "mulhu", "div", "divu", "rem", "remu"}

Instruction ==
    /\ InText("op")
    /\ IF /\ Line.opcode \in MExtension => m_extension_enabled
          /\ Accepts(FormatOf(Line.opcode), Line.imm)
       THEN EmitAll(<<Unit(Line.opcode, Line.rd, Line.rs1, Line.rs2, Line.imm)>>)
       ELSE Error

Reach(opcode) == IF FormatOf(opcode) = "B" THEN BranchReach ELSE JumpReach
InReach(opcode, offset) == -Reach(opcode) =< offset /\ offset < Reach(opcode)

IsTextLabel(l) == l \in DOMAIN symbol_table_ /\ ~symbol_table_[l].isData

\* A label of the text that is known is resolved at once; any other is left for
\* back-patching.
Reference ==
    /\ InText("ref")
    /\ LET unit == [Unit(Line.opcode, Line.rd, Line.rs1, Line.rs2, 0)
                        EXCEPT !.label = Line.label]
           offset == symbol_table_[Line.label].address - 4 * instruction_index_
       IN CASE ~IsTextLabel(Line.label) ->
                 /\ Emit(<<[unit EXCEPT !.resolved = FALSE]>>)
                 /\ back_patch_' = Append(back_patch_, instruction_index_)
                 /\ UNCHANGED <<input, pass, section, symbol_table_, data, errors_, loaded>>
            [] IsTextLabel(Line.label) /\ InReach(Line.opcode, offset) ->
                 EmitAll(<<[unit EXCEPT !.imm = offset]>>)
            [] OTHER -> Error

\* (n + 0x800) >> 12, and what remains of n, of 12 bits with a sign; the sum itself
\* may lie beyond TLC's integers.
UpperPart(n) == (n \div 4096) + (IF n % 4096 < 2048 THEN 0 ELSE 1)
LowerPart(n) == (n % 4096) - (IF n % 4096 < 2048 THEN 0 ELSE 4096)

\* la, and lb, lh, lw and ld of a data label, as instruction index: auipc, and the
\* rest of the distance.
AddressUnits(line, index) ==
    LET offset == DataStart + symbol_table_[line.label].address - 4 * index
    IN <<Unit("auipc", line.rd, 0, 0, UpperPart(offset)),
         Unit(line.opcode, line.rd, line.rd, 0, LowerPart(offset))>>

Address ==
    /\ InText("address")
    /\ IF Line.label \in DOMAIN symbol_table_ /\ symbol_table_[Line.label].isData
       THEN EmitAll(AddressUnits(Line, instruction_index_))
       ELSE Error

LiAccepts(imm) == -LiReach =< imm /\ imm < LiReach

LiUnits(rd, imm) ==
    LET upper == UpperPart(imm)
        lower == LowerPart(imm)
    IN IF -2048 =< imm /\ imm < 2048 THEN <<Unit("addi", rd, 0, 0, imm)>>
       ELSE IF lower = 0 THEN <<Unit("lui", rd, 0, 0, upper)>>
       ELSE <<Unit("lui", rd, 0, 0, upper), Unit("addi", rd, rd, 0, lower)>>

LoadImmediate ==
    /\ InText("li")
    /\ IF LiAccepts(Line.imm)
       THEN EmitAll(LiUnits(Line.rd, Line.imm))
       ELSE Error

\* A wrong operand list, or a directive in the text.
Unexpected ==
    /\ InText("wrong") \/ InText("items")
    /\ Error

EndOfText ==
    /\ pass = "text" /\ pos > Len(source)
    /\ pass' = "patch" /\ pos' = 1
    /\ UNCHANGED <<input, section, symbol_table_, data, code, back_patch_, errors_, loaded>>
-----------------------------------------------------------------------------
\* A faulty distance, from the instruction behind.
PatchOffsetFromNext(index) ==
    symbol_table_[intermediate_code_[index + 1].label].address - 4 * (index + 1)

\* The distance from the instruction at an index to its label.
PatchOffset(index) ==
    symbol_table_[intermediate_code_[index + 1].label].address - 4 * index

\* One reference of back_patch_ after the other.  A branch to data is an error, which
\* marks it as resolved all the same; a jal to data is none, and takes the label's
\* place in the data section.
BackPatch ==
    /\ pass = "patch" /\ pos =< Len(back_patch_)
    /\ LET index == back_patch_[pos]
           unit == intermediate_code_[index + 1]
           known == unit.label \in DOMAIN symbol_table_
           branchToData == FormatOf(unit.opcode) = "B" /\ ~IsTextLabel(unit.label)
           Patched(new) == [intermediate_code_ EXCEPT ![index + 1] = new]
       IN CASE known /\ branchToData ->
                 /\ intermediate_code_' = Patched([unit EXCEPT !.resolved = TRUE])
                 /\ errors_' = TRUE
            [] known /\ ~branchToData /\ InReach(unit.opcode, PatchOffset(index)) ->
                 /\ intermediate_code_' =
                        Patched([unit EXCEPT !.imm = PatchOffset(index), !.resolved = TRUE])
                 /\ UNCHANGED errors_
            [] OTHER -> errors_' = TRUE /\ UNCHANGED intermediate_code_
    /\ Advance
    /\ UNCHANGED <<input, pass, section, symbol_table_, data, instruction_index_,
                   instruction_number_line_number_mapping_, back_patch_, loaded>>

\* assemble() throws, and load keeps the program the VM has.
Refuse ==
    /\ pass = "patch" /\ pos > Len(back_patch_)
    /\ errors_
    /\ pass' = "refused"
    /\ UNCHANGED <<input, pos, section, symbol_table_, data, code, back_patch_, errors_, loaded>>

\* generateMachineCode, and LoadProgram's loop over the text.
LoadText ==
    /\ pass = "patch" /\ pos > Len(back_patch_)
    /\ ~errors_
    /\ text_buffer' = [i \in DOMAIN intermediate_code_ |-> MachineCode(intermediate_code_[i])]
    /\ pass' = "load" /\ pos' = 1
    /\ UNCHANGED <<input, section, symbol_table_, data, code, back_patch_, errors_,
                   data_counter, data_memory>>

\* LoadProgram's loop over the data, which aligns every value for its own width.
LoadItem ==
    /\ pass = "load" /\ pos =< Len(data_buffer_)
    /\ LET value == data_buffer_[pos]
           at == Align(data_counter, value.width)
           bytes == at .. (at + value.width - 1)
       IN /\ data_counter' = at + value.width
          /\ data_memory' = [b \in DOMAIN data_memory \cup bytes |->
                                IF b \in bytes
                                THEN [line |-> value.line, item |-> value.item, byte |-> b - at]
                                ELSE data_memory[b]]
    /\ Advance
    /\ UNCHANGED <<input, pass, section, symbol_table_, data, code, back_patch_, errors_,
                   text_buffer>>

EndOfLoad ==
    /\ pass = "load" /\ pos > Len(data_buffer_)
    /\ pass' = "loaded"
    /\ UNCHANGED <<input, pos, section, symbol_table_, data, code, back_patch_, errors_, loaded>>
-----------------------------------------------------------------------------
\* A faulty map that gives the last line of an instruction to the next one too.
LinesOfOverlapping(n) ==
    LET lines == instruction_number_line_number_mapping_
    IN (IF n = 0 THEN 1 ELSE lines[n]) .. lines[n + 1]

\* The entries of line_number_instruction_number_mapping: instruction n is that of
\* the lines behind the line of the one before it, up to its own.
LinesOf(n) ==
    LET lines == instruction_number_line_number_mapping_
    IN (IF n = 0 THEN 1 ELSE lines[n] + 1) .. lines[n + 1]
-----------------------------------------------------------------------------
Init ==
    /\ \E s \in Setups : source = s.source /\ m_extension_enabled = s.m_extension
    /\ pass = "data" /\ pos = 1 /\ section = "none"
    /\ symbol_table_ = [l \in {} |-> 0]
    /\ data_index_ = 0 /\ data_buffer_ = <<>>
    /\ instruction_index_ = 0 /\ intermediate_code_ = <<>>
    /\ instruction_number_line_number_mapping_ = <<>>
    /\ back_patch_ = <<>>
    /\ errors_ = FALSE
    /\ text_buffer = <<>> /\ data_counter = 0 /\ data_memory = [b \in {} |-> 0]

Next ==
    \/ Section \/ Skip
    \/ DataLabel \/ DataDirective \/ InvalidDirective \/ EndOfData
    \/ TextLabel \/ Instruction \/ Reference \/ Address \/ LoadImmediate \/ Unexpected
    \/ EndOfText
    \/ BackPatch \/ Refuse
    \/ LoadText \/ LoadItem \/ EndOfLoad

Spec == Init /\ [][Next]_vars
-----------------------------------------------------------------------------
UnitType == [opcode : Mnemonic, rd : Reg, rs1 : Reg, rs2 : Reg, imm : Int,
             label : Labels \cup {NoLabel}, resolved : BOOLEAN]
Symbol == [address : Nat, line : Nat, isData : BOOLEAN]

\* Types; the counter of instructions is the length of the intermediate code and
\* of the line map at every moment, and back_patch_ lists places in them.
TypeOK ==
    /\ source \in Seq(Lines) /\ m_extension_enabled \in BOOLEAN
    /\ pass \in {"data", "text", "patch", "refused", "load", "loaded"}
    /\ pos \in Nat \ {0}
    /\ section \in {"none", "data", "text", "bss"}
    /\ symbol_table_ \in [DOMAIN symbol_table_ -> Symbol]
    /\ DOMAIN symbol_table_ \subseteq Labels
    /\ data_index_ \in Nat /\ data_counter \in Nat
    /\ data_buffer_ \in Seq([width : {1, 2, 4, 8}, line : Nat, item : Nat])
    /\ instruction_index_ \in Nat
    /\ intermediate_code_ \in [1 .. instruction_index_ -> UnitType]
    /\ instruction_number_line_number_mapping_ \in [1 .. instruction_index_ -> Nat]
    /\ back_patch_ \in Seq(0 .. (instruction_index_ - 1))
    /\ errors_ \in BOOLEAN

SectionAt(k, name) ==
    \E j \in 1 .. (k - 1) : /\ source[j].kind = "section" /\ source[j].name = name
                            /\ \A i \in (j + 1) .. (k - 1) : source[i].kind # "section"

TextAt(k) == \/ SectionAt(k, "text")
             \/ \A i \in 1 .. (k - 1) : source[i].kind # "section"

Defines(k, label) == source[k].kind = "label" /\ source[k].label = label

\* The number of instructions that the lines before line k stand for.
InstructionsBefore(k) ==
    Cardinality({j \in DOMAIN instruction_number_line_number_mapping_ :
                    instruction_number_line_number_mapping_[j] < k})

\* In a program that is assembled every branch and jal to a label of the text leads
\* to the first instruction behind the label's line: whether the label stands before
\* or behind it, wherever pseudo-instructions take two words, and whatever sections
\* lie in between.
Linked ==
    pass \in {"load", "loaded"} =>
        \A i \in DOMAIN intermediate_code_ :
            LET unit == intermediate_code_[i]
            IN unit.label # NoLabel =>
                /\ unit.resolved
                /\ \A k \in DOMAIN source : Defines(k, unit.label) /\ TextAt(k) =>
                       4 * (i - 1) + unit.imm = 4 * InstructionsBefore(k)

\* The VM decodes every word as the instruction that was written.  A jal to data,
\* which the assembler accepts, is left out: its distance may be odd, and loses bit 0.
Decoded ==
    pass \in {"load", "loaded"} =>
        \A i \in DOMAIN intermediate_code_ :
            LET unit == intermediate_code_[i]
            IN unit.label = NoLabel \/ IsTextLabel(unit.label) =>
                   Means(Decode(text_buffer[i]), unit)

Imm(i) == Decode(text_buffer[i]).imm

\* What the upper part of a number may be so that lui's sign extension keeps it, and so
\* that both engines add the same to the pc in auipc.
UpperKept(n) == UpperPart(n) < 524288

\* Instruction i is the first of its line.
First(i) ==
    LET lines == instruction_number_line_number_mapping_ IN i = 1 \/ lines[i - 1] # lines[i]

\* The value that li's words i and, if the next is of the same line, i + 1 leave:
\* 4096 times what lui's sign extension makes of its immediate, and the rest.
LiHigh(i) == IF Decode(text_buffer[i]).opcode = "LUI" THEN sign_extend(Imm(i), 20) ELSE 0
LiLow(i) ==
    (IF Decode(text_buffer[i]).opcode = "LUI" THEN 0 ELSE Imm(i))
      + (IF i + 1 \in DOMAIN intermediate_code_ /\ ~First(i + 1) THEN Imm(i + 1) ELSE 0)

\* They leave n, or, if the upper part of n is rounded up to 2^19, which lui extends to a
\* negative number, 2^32 less.  Said of the parts: the numbers may be beyond TLC's.
LiLeaves(i, n) ==
    /\ LiHigh(i) + (LiLow(i) \div 4096)
           = (n \div 4096) - (IF UpperKept(n) THEN 0 ELSE 1048576)
    /\ LiLow(i) % 4096 = n % 4096

\* A directive behind a label has a value.  Behind one without, the parser has aligned
\* the label for a value that the loader never sees.
ValuesBehindLabels ==
    \A k \in 1 .. (Len(source) - 1) :
        source[k].kind = "label" /\ source[k + 1].kind = "items" => source[k + 1].count > 0

\* The text ends before the data begin, and the data end where auipc still reaches.
DataInReach == 4 * instruction_index_ =< DataStart /\ UpperKept(DataStart + data_index_)

\* As decoded, li leaves its number, but for the last 2048 below 2^31, where it leaves
\* 2^32 less, and the words of la or of a load of a label reach the place where
\* the loader has put the first byte of the value behind the label: the parser, which
\* places the label, and the loader, which places the value, align and count alike.
PseudosReach ==
    pass = "loaded" =>
        \A i \in DOMAIN intermediate_code_ : First(i) =>
            LET line == source[instruction_number_line_number_mapping_[i]]
                place == 4 * (i - 1) + 4096 * Imm(i) + Imm(i + 1) - DataStart
            IN /\ line.kind = "li" => LiLeaves(i, line.imm)
               /\ line.kind = "address" /\ ValuesBehindLabels /\ DataInReach =>
                     \E d \in DOMAIN source :
                        /\ Defines(d, line.label) /\ SectionAt(d, "data")
                        /\ place \in DOMAIN data_memory
                        /\ data_memory[place] = [line |-> d + 1, item |-> 1, byte |-> 0]

\* A breakpoint on a line is one before the first instruction at or behind the line,
\* also when a line has two instructions or none.
BreakpointLines ==
    pass = "loaded" =>
        LET lines == instruction_number_line_number_mapping_
        IN \A l \in DOMAIN source, n \in 0 .. (instruction_index_ - 1) :
              l \in LinesOf(n) <=> /\ lines[n + 1] >= l
                                   /\ \A m \in 1 .. n : lines[m] < l
-----------------------------------------------------------------------------
(***************************************************************************)
(* The inductive invariant behind Linked and BreakpointLines.              *)
(***************************************************************************)

\* The lines the text pass has read.
ReadLines == IF pass = "data" THEN 0 ELSE IF pass = "text" THEN pos - 1 ELSE Len(source)

\* section is that of the line, in both passes.
SectionKnown ==
    pass \in {"data", "text"} =>
        /\ pos =< Len(source) + 1
        /\ \/ section = "none" /\ \A j \in 1 .. (pos - 1) : source[j].kind # "section"
           \/ SectionAt(pos, section)

\* Instructions come in the order of their lines, which have been read.
LinesRise ==
    LET lines == instruction_number_line_number_mapping_
    IN /\ pass = "data" => instruction_index_ = 0
       /\ \A i \in 1 .. instruction_index_ : lines[i] =< ReadLines
       /\ \A i, j \in 1 .. instruction_index_ : i =< j => lines[i] =< lines[j]

\* A text label's address separates the instructions before its line from the others.
Separates(symbol) ==
    /\ symbol.line =< ReadLines
    /\ \E m \in 0 .. instruction_index_ :
          /\ symbol.address = 4 * m
          /\ \A j \in 1 .. instruction_index_ :
                instruction_number_line_number_mapping_[j] < symbol.line <=> j =< m

LabelsPlaced ==
    /\ \A l \in DOMAIN symbol_table_ : IsTextLabel(l) => Separates(symbol_table_[l])
    /\ pass # "data" /\ ~errors_ =>
          \A k \in 1 .. ReadLines, l \in Labels :
              Defines(k, l) /\ TextAt(k) => IsTextLabel(l) /\ symbol_table_[l].line = k

\* The reference of unit i leads to its label, or waits for BackPatch.
Leads(i) ==
    /\ intermediate_code_[i].resolved
    /\ intermediate_code_[i].label \in DOMAIN symbol_table_
    /\ 4 * (i - 1) + intermediate_code_[i].imm
           = symbol_table_[intermediate_code_[i].label].address
Waits(i) ==
    /\ pass \in {"text", "patch"}
    /\ \E b \in 1 .. Len(back_patch_) : /\ back_patch_[b] = i - 1
                                        /\ pass = "patch" => b >= pos

UnitsLinked ==
    ~errors_ => \A i \in 1 .. instruction_index_ :
                    intermediate_code_[i].label # NoLabel => Leads(i) \/ Waits(i)

LinkInv == /\ SectionKnown /\ LinesRise /\ LabelsPlaced /\ UnitsLinked
           /\ pass \in {"load", "loaded"} => ~errors_
-----------------------------------------------------------------------------
(***************************************************************************)
(* The inductive invariant behind Decoded.                                 *)
(***************************************************************************)

IsDataLabel(l) == l \in DOMAIN symbol_table_ /\ symbol_table_[l].isData

\* What is written, back-patched or not, fits; a jal to data alone may not.
UnitsFit ==
    \A i \in 1 .. instruction_index_ :
        LET unit == intermediate_code_[i]
        IN /\ Fits(unit) \/ IsDataLabel(unit.label)
           /\ unit.label # NoLabel => FormatOf(unit.opcode) \in {"B", "J"}

WordsGenerated ==
    pass \in {"load", "loaded"} =>
        text_buffer = [i \in DOMAIN intermediate_code_ |-> MachineCode(intermediate_code_[i])]

CodeInv == UnitsFit /\ WordsGenerated
-----------------------------------------------------------------------------
(***************************************************************************)
(* The inductive invariants behind PseudosReach: what the pseudo-          *)
(* instructions have become, and where the data are.                       *)
(***************************************************************************)

\* From i on these units stand, and the line of i has no others.
Stands(i, units) ==
    LET lines == instruction_number_line_number_mapping_
        last == i + Len(units) - 1
    IN /\ last =< instruction_index_
       /\ \A j \in i .. last : intermediate_code_[j] = units[j - i + 1] /\ lines[j] = lines[i]
       /\ last < instruction_index_ => lines[last + 1] # lines[i]

PseudosStand ==
    \A i \in 1 .. instruction_index_ :
        LET k == instruction_number_line_number_mapping_[i]
            line == source[k]
        IN /\ k \in DOMAIN source
           /\ First(i) /\ line.kind = "li" =>
                  LiAccepts(line.imm) /\ Stands(i, LiUnits(line.rd, line.imm))
           /\ First(i) /\ line.kind = "address" =>
                  IsDataLabel(line.label) /\ Stands(i, AddressUnits(line, i - 1))

\* ends[n] is where value n of data_buffer_ ends, and Start where it starts, if every
\* value is aligned and counted in turn.
Start(ends, n) == Align(ends[n - 1], data_buffer_[n].width)
LaidOut(ends) ==
    /\ ends \in [0 .. Len(data_buffer_) -> Nat] /\ ends[0] = 0
    /\ \A n \in 1 .. Len(data_buffer_) : ends[n] = Start(ends, n) + data_buffer_[n].width

\* The parser is at the directive behind a label, and has aligned for it.
Aligned(ends) ==
    /\ pass = "data" /\ section = "data" /\ pos =< Len(source)
    /\ Line.kind = "items" /\ Line.count > 0
    /\ data_index_ = Align(ends[Len(data_buffer_)], Line.width)

\* The label stands in the data, and its address is where its value is or will be.
LabelAddressed(ends, l) ==
    LET symbol == symbol_table_[l]
    IN /\ symbol.line \in DOMAIN source /\ symbol.address =< data_index_
       /\ Defines(symbol.line, l) /\ SectionAt(symbol.line, "data")
       /\ \/ \E n \in 1 .. Len(data_buffer_) :
                 /\ data_buffer_[n].line = symbol.line + 1 /\ data_buffer_[n].item = 1
                 /\ symbol.address = Start(ends, n)
          \/ Aligned(ends) /\ pos = symbol.line + 1 /\ symbol.address = data_index_

DataCounted(ends) ==
    /\ data_index_ = ends[Len(data_buffer_)] \/ Aligned(ends)
    /\ \A l \in DOMAIN symbol_table_ : IsDataLabel(l) => LabelAddressed(ends, l)

\* The loader has put the values before the next one where they belong, and nothing
\* behind them.
NextValue == IF pass \in {"load", "loaded"} THEN pos ELSE 1
DataLoaded(ends) ==
    /\ NextValue =< Len(data_buffer_) + 1
    /\ pass = "loaded" => NextValue = Len(data_buffer_) + 1
    /\ data_counter = ends[NextValue - 1]
    /\ DOMAIN data_memory \subseteq 0 .. (data_counter - 1)
    /\ \A n \in 1 .. (NextValue - 1) :
          /\ Start(ends, n) \in DOMAIN data_memory
          /\ data_memory[Start(ends, n)] =
                 [line |-> data_buffer_[n].line, item |-> data_buffer_[n].item, byte |-> 0]

LayoutInv(ends) ==
    /\ LaidOut(ends) /\ DataLoaded(ends)
    /\ ~errors_ /\ ValuesBehindLabels => DataCounted(ends)
=============================================================================
