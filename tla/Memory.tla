------------------------------- MODULE Memory -------------------------------
(***************************************************************************)
(* The Memory class: blocks of bytes, created when they are first written. *)
(* A block is created with the block size the configuration has at that    *)
(* moment, and addressed with the block size that Memory's constructor     *)
(* took; main()'s modify_config can change the former at any time.         *)
(*                                                                         *)
(* An access of several bytes is a loop over Read or Write, each of which  *)
(* checks its own address and may throw: one step per byte here, so that   *)
(* an access that fails half way, or one during which the configuration    *)
(* changes, would show.  A value is the function of its bytes.             *)
(***************************************************************************)
EXTENDS MemoryInterface

CONSTANTS
    BlockSize,   \* block_size_, taken by the constructor: 1024 in the code
    UIntSize,    \* number of unsigned int values
    BlockSizes   \* the values of memory_block_size that modify_config may set

VARIABLES
    memory_block_size,  \* in vm_config::config, shared with main()
    blocks_,
    access,             \* the access under way
    result,             \* what the last access returned or threw
    out_of_bounds       \* a block's vector has been indexed past its end

vars == <<memory_block_size, blocks_, access, result, out_of_bounds>>

\* The code's sizes.  Whether every size in BlockSizes is large enough is the
\* question the runs ask.
ASSUME BlockAssumption ==
    /\ UIntSize \in Nat
    /\ BlockSize \in 1 .. (UIntSize - 1)
    /\ BlockSizes \subseteq Nat

Access == [kind : {"none", "read", "write"}, address : Address, width : 1 .. MaxWidth,
           i : Lane, value : Value]
NoAccess == [kind |-> "none", address |-> 0, width |-> 1, i |-> 0, value |-> Zero]

\* The sum of two uint64_t.
Plus(address, i) ==
    IF address + i =< MemorySize THEN address + i ELSE address + i - (MemorySize + 1)

GetBlockIndex(address) == address \div BlockSize

GetBlockOffset(address) == address % BlockSize
IsBlockPresent(index) == index \in DOMAIN blocks_

\* A MemoryBlock constructed now: its size is an unsigned int.
NewBlock == [k \in 0 .. ((memory_block_size % UIntSize) - 1) |-> 0]

EnsureBlockExists(index) ==
    [b \in DOMAIN blocks_ \cup {index} |-> IF IsBlockPresent(b) THEN blocks_[b] ELSE NewBlock]

\* A faulty range check that looks at the first byte of the access only.
InRangeFirstByte(address, width) == address < MemorySize

\* The check at the start of ReadWord, WriteWord and the others.
InRange(address, width) == address < MemorySize - (width - 1)
-----------------------------------------------------------------------------
\* A read or a write of width bytes is called.
BeginRead(address, width) ==
    /\ access.kind = "none"
    /\ IF InRange(address, width)
       THEN /\ access' = [NoAccess EXCEPT !.kind = "read", !.address = address,
                                          !.width = width]
            /\ result' = Idle
       ELSE result' = OutOfRange /\ UNCHANGED access
    /\ UNCHANGED <<memory_block_size, blocks_, out_of_bounds>>

BeginWrite(address, width, value) ==
    /\ access.kind = "none"
    /\ IF InRange(address, width)
       THEN /\ access' = [kind |-> "write", address |-> address, width |-> width,
                          i |-> 0, value |-> value]
            /\ result' = Idle
       ELSE result' = OutOfRange /\ UNCHANGED access
    /\ UNCHANGED <<memory_block_size, blocks_, out_of_bounds>>

\* The address the next call of Read or Write gets.
Current == Plus(access.address, access.i)

\* The call throws: at the latest Memory::Read and Memory::Write check their address.
Throw == result' = OutOfRange /\ access' = NoAccess /\ UNCHANGED out_of_bounds

\* A faulty Advance that counts one byte too many.
AdvanceOnePast(value) ==
    IF access.i < access.width
    THEN access' = [access EXCEPT !.i = @ + 1, !.value = value] /\ UNCHANGED result
    ELSE access' = NoAccess /\ result' = Done(value)

\* The loop goes on to the next byte or returns value.
Advance(value) ==
    IF access.i + 1 < access.width
    THEN access' = [access EXCEPT !.i = @ + 1, !.value = value] /\ UNCHANGED result
    ELSE access' = NoAccess /\ result' = Done(value)

\* An access of the element at offset of a vector of which nothing is checked.
InBlock(block, offset) == offset \in DOMAIN block

\* One byte of a read; a block that is absent is not created.
ReadByte ==
    LET index == GetBlockIndex(Current)
        offset == GetBlockOffset(Current)
    IN /\ access.kind = "read" /\ ~out_of_bounds
       /\ CASE Current >= MemorySize -> Throw
            [] Current < MemorySize /\ ~IsBlockPresent(index) ->
                 /\ Advance([access.value EXCEPT ![access.i] = 0])
                 /\ UNCHANGED out_of_bounds
            [] Current < MemorySize /\ IsBlockPresent(index) ->
                 IF InBlock(blocks_[index], offset)
                 THEN /\ Advance([access.value EXCEPT ![access.i] = blocks_[index][offset]])
                      /\ UNCHANGED out_of_bounds
                 ELSE out_of_bounds' = TRUE /\ UNCHANGED <<access, result>>
       /\ UNCHANGED <<memory_block_size, blocks_>>

\* One byte of a write.
WriteByte ==
    LET index == GetBlockIndex(Current)
        offset == GetBlockOffset(Current)
        blocks == EnsureBlockExists(index)
    IN /\ access.kind = "write" /\ ~out_of_bounds
       /\ IF Current >= MemorySize
          THEN Throw /\ UNCHANGED blocks_
          ELSE IF InBlock(blocks[index], offset)
               THEN /\ blocks_' = [blocks EXCEPT ![index][offset] = access.value[access.i]]
                    /\ Advance(access.value)
                    /\ UNCHANGED out_of_bounds
               ELSE /\ blocks_' = blocks
                    /\ out_of_bounds' = TRUE
                    /\ UNCHANGED <<access, result>>
       /\ UNCHANGED memory_block_size

\* Memory::Reset keeps the sizes the constructor took.
Reset ==
    /\ access.kind = "none"
    /\ blocks_' = [b \in {} |-> NewBlock]
    /\ UNCHANGED <<memory_block_size, access, result, out_of_bounds>>

\* modify_config Memory memory_block_size: main() accepts any number, also while
\* the VM thread is in an access.
ModifyConfig ==
    /\ memory_block_size' \in BlockSizes
    /\ UNCHANGED <<blocks_, access, result, out_of_bounds>>
-----------------------------------------------------------------------------
\* A Memory constructed under a configuration nobody has changed yet.
Init ==
    /\ memory_block_size = BlockSize
    /\ blocks_ = [b \in {} |-> NewBlock]
    /\ access = NoAccess
    /\ result = Idle
    /\ out_of_bounds = FALSE

Next == \/ \E a \in Address, w \in Widths : BeginRead(a, w)
        \/ \E a \in Address, w \in Widths, v \in Values : BeginWrite(a, w, v)
        \/ ReadByte
        \/ WriteByte
        \/ Reset
        \/ ModifyConfig

Spec == Init /\ [][Next]_vars
-----------------------------------------------------------------------------
\* The user never configures blocks shorter than those Memory addresses.
NoShrink == \A size \in BlockSizes : size % UIntSize >= BlockSize

Sizes == BlockSizes \cup {BlockSize}

\* Blocks are vectors of bytes of a size once configured, an access under way is in its
\* bytes, and a result is a value, a refusal or none.
TypeOK ==
    /\ memory_block_size \in Sizes
    /\ \A b \in DOMAIN blocks_ :
          /\ b \in Nat
          /\ \E size \in Sizes : blocks_[b] \in [0 .. ((size % UIntSize) - 1) -> Byte]
    /\ access \in Access
    /\ result \in Result
    /\ out_of_bounds \in BOOLEAN
-----------------------------------------------------------------------------
(***************************************************************************)
(* Refinement.  A write takes place when it is called: once its address is *)
(* accepted, every byte of it will be written.                             *)
(***************************************************************************)

\* What Memory::Read finds at an address.  Past the end of a block that is too short
\* nothing has been written, either.
ByteAt(a) ==
    LET index == GetBlockIndex(a)
        offset == GetBlockOffset(a)
    IN IF IsBlockPresent(index) /\ InBlock(blocks_[index], offset)
       THEN blocks_[index][offset] ELSE 0

\* The addresses that the write under way has yet to reach.
Pending == IF access.kind = "write"
           THEN (access.address + access.i) .. (access.address + access.width - 1) ELSE {}

FlatBytes == [a \in Cell |-> IF a \in Pending THEN access.value[a - access.address]
                             ELSE ByteAt(a)]
FlatResult == IF access.kind = "write" THEN Done(access.value) ELSE result

Flat == INSTANCE FlatMemory WITH bytes <- FlatBytes, result <- FlatResult

\* The inductive invariant of the refinement: an access under way fits, and a read has
\* collected the bytes that are still there.
AccessFits == access.kind # "none" => /\ access.width \in Widths
                                      /\ access.address + access.width =< MemorySize
                                      /\ access.i < access.width
ReadSoFar ==
    access.kind = "read" =>
        access.value = [j \in Lane |-> IF j < access.i THEN ByteAt(access.address + j) ELSE 0]

MemoryInv == TypeOK /\ AccessFits /\ ReadSoFar

\* As long as no vector is indexed past its end, every step is one of an array of
\* bytes, whatever block sizes the user configures between two bytes of an access,
\* shorter ones, zero and multiples of 2^32 included: blocks of several lengths live
\* side by side, and a read sees what was written, no access is cut short, and an
\* address out of range throws before any byte is touched.
FlatUntilOverrun == [][out_of_bounds' \/ [Flat!Next]_<<FlatBytes, FlatResult>>]_vars

\* Blocks are invisible for good if no configured size is below the first: then no
\* vector is ever indexed past its end.
RefinesFlatMemory == Flat!Spec

\* "The size of each memory block in bytes" (main_memory.h:39, of block_size_):
\* the blocks are as long as the addressing takes them to be, so that no
\* vector is indexed past its end.
NeverOutOfBounds == ~out_of_bounds

\* Why it holds for sizes not below the first.
BlocksCover == \A b \in DOMAIN blocks_ : 0 .. (BlockSize - 1) \subseteq DOMAIN blocks_[b]
=============================================================================
