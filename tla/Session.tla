------------------------------- MODULE Session -------------------------------
(***************************************************************************)
(* What the user of an engine is promised: the sequential machine of Isa,  *)
(* which executes and counts one instruction at a time, and on which a     *)
(* program can be loaded and everything reset between two instructions.    *)
(***************************************************************************)
EXTENDS Isa

CONSTANT Programs  \* what may be loaded: a text, its size and its data bytes

VARIABLE count  \* instructions executed since the machine was constructed or reset

\* The function f where the new one is not defined, and the new one elsewhere.
Overwrite(f, new) == [a \in DOMAIN f \cup DOMAIN new |->
                         IF a \in DOMAIN new THEN new[a] ELSE f[a]]
Empty == [a \in {} |-> 0]

ExecuteOne == Execute /\ count' = count + 1

\* The pc and the registers stay; words and bytes of a longer program remain.
Load(p) ==
    /\ text' = Overwrite(text, p.text)
    /\ program_size' = p.size
    /\ mem' = Overwrite(mem, p.data)
    /\ UNCHANGED <<pc, regs, count>>

\* The memory is emptied, the text with it; the size of the program stays.
Reset ==
    /\ text' = Empty
    /\ pc' = 0
    /\ regs' = [r \in Reg |-> 0]
    /\ mem' = Empty
    /\ count' = 0
    /\ UNCHANGED program_size

SessionInit == Init /\ count = 0
SessionNext == ExecuteOne \/ Reset \/ \E p \in Programs : Load(p)

SessionSpec == SessionInit /\ [][SessionNext]_<<isaVars, count>>
=============================================================================
