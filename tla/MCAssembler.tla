----------------------------- MODULE MCAssembler -----------------------------
(***************************************************************************)
(* Sources for TLC.  The widths of numbers are the code's; the reach of a  *)
(* label is cut down to a few instructions, so that it is exceeded.  The   *)
(* words of module Riscv have two bits here: nothing but the comparison of *)
(* branches depends on them.                                               *)
(***************************************************************************)
EXTENDS Assembler, Alu

MCExecute(op, a, b) == execute(op, a, b)

Sec(name) == [kind |-> "section", name |-> name]
Lab(l) == [kind |-> "label", label |-> l]
Items(width, count) == [kind |-> "items", width |-> width, count |-> count, zero |-> FALSE]
Zeros(count) == [kind |-> "items", width |-> 1, count |-> count, zero |-> TRUE]
Op(opcode, rd, rs1, rs2, imm) ==
    [kind |-> "op", opcode |-> opcode, rd |-> rd, rs1 |-> rs1, rs2 |-> rs2, imm |-> imm]
Ref(opcode, l) ==
    [kind |-> "ref", opcode |-> opcode, rd |-> 1, rs1 |-> 2, rs2 |-> 3, label |-> l]
La(opcode, l) == [kind |-> "address", opcode |-> opcode, rd |-> 5, label |-> l]
Li(imm) == [kind |-> "li", rd |-> 6, imm |-> imm]
Wrong == [kind |-> "wrong"]

WithM(sources) == [source : sources, m_extension : {TRUE}]

\* Two labels, before and behind their references, in reach or not, defined twice or
\* never, with lines of one and of two instructions in between.
TextMenu == {Lab("a"), Lab("b"), Ref("beq", "a"), Ref("beq", "b"), Ref("jal", "a"),
             La("addi", "d"), Op("addi", 1, 2, 0, 7), Li(4096)}
SomeData == <<Sec("data"), Items(1, 1), Lab("d"), Items(4, 1), Sec("text")>>
MCLinks == {SomeData \o t : t \in [1 .. 5 -> TextMenu]}

\* The layout of data: every width behind every other, with and without labels, and
\* text before, between and behind the data sections.
DataMenu == {Items(1, 1), Items(2, 2), Items(8, 1), Zeros(3), Lab("d"), Lab("e")}
Users == <<Sec("text"), La("lw", "d"), Op("add", 1, 2, 3, 0), La("addi", "e")>>
MCLayouts == {<<Sec("data")>> \o d \o Users : d \in [1 .. 4 -> DataMenu]}
               \cup {<<Lab("a")>> \o Users \o <<Sec("data")>> \o d \o <<Sec("bss"), Lab("b"),
                     Sec("text"), Ref("jal", "a"), Ref("bne", "b")>>
                        : d \in [1 .. 3 -> DataMenu]}

\* Every mnemonic with numbers in which each bit differs from the others once.
Bits21 == UNION {{2^i, -(2^i), 2^i - 1} : i \in 0 .. 20}
TopNumbers == {2147481599, 2147481600, 2147482624, 2147483646, 1 - 2147483647}
MCWords ==
    {<<Op(m, 1, 2, 3, imm)>> : m \in {"addi", "slli", "srai", "lw", "sd", "beq", "jal",
                                       "auipc"}, imm \in Bits21}
      \cup {<<Op(m, r, 31 - r, (r + 9) % 32, 4)>> : m \in Mnemonic, r \in {0, 10, 21, 31}}
      \cup {<<Li(imm)>> : imm \in UNION {{2^i, -(2^i), 2^i - 2048, 2049 - 2^i} : i \in 0 .. 30}}
      \cup {<<Li(imm)>> : imm \in TopNumbers}

\* What is refused.
MCErrors == {<<Sec("data"), Zeros(0)>>, <<Wrong>>, <<Items(1, 1)>>, <<Sec("data"), Wrong>>,
             <<Sec("data"), Lab("d"), Sec("text"), Ref("beq", "d")>>, <<Li(-2147483647 - 1)>>}

\* A jal to a byte of data, at an odd distance.
MCOdd == {<<Sec("data"), Items(1, 1), Lab("d"), Items(1, n), Sec("text"), Ref("jal", "d")>>
             : n \in 1 .. 2}

\* A label for which the parser aligns, in front of a directive without values.
MCEmpty == {<<Sec("data"), Items(1, 1), Lab("d"), Items(8, 0), Lab("e"), Items(1, 1)>> \o Users}

MCSetups == WithM(MCLinks \cup MCLayouts \cup MCWords \cup MCErrors \cup MCOdd \cup MCEmpty)
              \cup [source : {<<Op("mul", 1, 2, 3, 0)>>}, m_extension : {FALSE}]
=============================================================================
