--------------------------- MODULE MemoryInterface ---------------------------
(***************************************************************************)
(* What the callers of Memory see of an access: an address, a width, the   *)
(* bytes of a value, and the value returned or the exception thrown.       *)
(***************************************************************************)
EXTENDS Integers

CONSTANTS
    MemorySize,  \* memory_size_, 2^64 - 1 in the code: the largest uint64_t
    ByteSize,    \* number of uint8_t values
    Widths,      \* the sizes of an access: {1, 2, 4, 8} in the code
    MaxWidth,    \* the largest of them
    Values       \* the values that are written

Byte == 0 .. (ByteSize - 1)

\* The addresses that hold a byte, and all the values of a uint64_t address.
Cell == 0 .. (MemorySize - 1)
Address == 0 .. MemorySize

\* The bytes of a value, least significant first.
Lane == 0 .. (MaxWidth - 1)
Value == [Lane -> Byte]
Zero == [i \in Lane |-> 0]

Done(value) == [status |-> "ok", value |-> value]
Idle == [status |-> "none", value |-> Zero]
OutOfRange == [status |-> "out_of_range", value |-> Zero]
Result == {Idle, OutOfRange} \cup {Done(value) : value \in Value}

ASSUME SizeAssumption == /\ MemorySize \in Nat /\ MemorySize >= MaxWidth
                         /\ MaxWidth \in Nat \ {0} /\ Widths \subseteq 1 .. MaxWidth
                         /\ ByteSize \in Nat \ {0}
                         /\ Values \subseteq Value
=============================================================================
