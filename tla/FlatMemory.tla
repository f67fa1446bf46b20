----------------------------- MODULE FlatMemory -----------------------------
(***************************************************************************)
(* What Memory promises: one byte per address, zero until it is written.   *)
(* An access of several bytes takes place as a whole or, if it does not    *)
(* fit, is refused as a whole.  There are no blocks and no configuration   *)
(* here.                                                                   *)
(***************************************************************************)
EXTENDS MemoryInterface

VARIABLES bytes, result

Fits(address, width) == address + width =< MemorySize

Init == bytes = [a \in Cell |-> 0] /\ result = Idle

\* A read has been called and not yet returned.
Call == result' = Idle /\ UNCHANGED bytes

Read(address, width) ==
    /\ Fits(address, width)
    /\ result' = Done([i \in Lane |-> IF i < width THEN bytes[address + i] ELSE 0])
    /\ UNCHANGED bytes

Write(address, width, value) ==
    /\ Fits(address, width)
    /\ bytes' = [a \in Cell |-> IF a \in address .. (address + width - 1)
                                THEN value[a - address] ELSE bytes[a]]
    /\ result' = Done(value)

Refuse(address, width) ==
    /\ ~Fits(address, width)
    /\ result' = OutOfRange
    /\ UNCHANGED bytes

Reset == bytes' = [a \in Cell |-> 0] /\ UNCHANGED result

Next == \/ \E a \in Address, w \in Widths : Read(a, w) \/ Refuse(a, w)
        \/ \E a \in Address, w \in Widths, v \in Values : Write(a, w, v)
        \/ Call
        \/ Reset

Spec == Init /\ [][Next]_<<bytes, result>>
=============================================================================
