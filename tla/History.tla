------------------------------- MODULE History -------------------------------
(***************************************************************************)
(* What undo and redo promise: a present, the states that led to it, and   *)
(* the states that were undone and can be had back.                        *)
(***************************************************************************)
EXTENDS Sequences, Integers

VARIABLES
    past,      \* oldest first
    present,
    future     \* nearest first

historyVars == <<past, present, future>>

\* A step, to whatever state, which forgets what was undone.
Do ==
    /\ past' = Append(past, present)
    /\ future' = <<>>

Undo ==
    /\ past # <<>>
    /\ present' = past[Len(past)]
    /\ past' = SubSeq(past, 1, Len(past) - 1)
    /\ future' = <<present>> \o future

Redo ==
    /\ future # <<>>
    /\ present' = Head(future)
    /\ past' = Append(past, present)
    /\ future' = Tail(future)

\* A reset starts a new history, in whatever state.
Forget == past' = <<>> /\ future' = <<>>

Next == Do \/ Undo \/ Redo \/ Forget
=============================================================================
