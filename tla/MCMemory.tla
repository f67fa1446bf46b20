------------------------------ MODULE MCMemory ------------------------------
(***************************************************************************)
(* An instance of Memory for TLC: six bytes of one bit in blocks of two,   *)
(* accesses of 2 and 5 bytes: one that may cross a boundary and one that   *)
(* crosses two.                                                            *)
(***************************************************************************)
EXTENDS Memory

\* Sizes that hold a block: the configured size may grow but not shrink, and with them
\* Memory.cfg may have PROPERTY RefinesFlatMemory.
MCBlockSizes == {2, 3}

\* Sizes a user may type: smaller, larger, or the number of values of an unsigned int,
\* to whose range a block's size is cut down, here to zero.
MCAnyBlockSizes == {1, 3, 8}

MCValues == {[i \in Lane |-> 1], [i \in Lane |-> i % 2]}
=============================================================================
