------------------------------ MODULE MCRV5SVM ------------------------------
(***************************************************************************)
(* Instances of RV5SVM for TLC, on the machine of MCRV5SPipeline.          *)
(***************************************************************************)
EXTENDS RV5SVM, MCRV5SPipeline

\* Mode 2 with every dependence, the others with the programs they can run.
MCCommandMenu == {Add(2, 1, 1), Add(1, 2, 3), I("LOAD", 0, 2, 1, 0), S(0, 2, 1, 2),
                  B(6, 2, 1, -4), U("JAL", 3, 8)}
MCCommandPrograms == ProgramsOf(MCCommandMenu, 3)
MCCommandSetups == Supporting(Setup(1 .. 5, MCCommandPrograms, MCRegisters))

\* What is loaded over the program, or after a reset.
MCLoads == {[text |-> p.text, size |-> p.size, data |-> [a \in {2} |-> 1]] :
               p \in ProgramsOf({Add(2, 1, 1)}, 2)}

\* A run that a stop ends while instructions are in flight, and another run.
MCRunAgain == Setup({2}, ProgramsOf({Addi(1, 1, 1)}, 3), MCRegisters)
MCNoLoads == {}
=============================================================================
