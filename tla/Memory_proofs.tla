---------------------------- MODULE Memory_proofs ----------------------------
(***************************************************************************)
(* Proofs about Memory for every memory size, block size, width and order  *)
(* of accesses and configuration changes: that it is an array of bytes as  *)
(* long as no vector is indexed past its end, for whatever block sizes     *)
(* that are configured; and that none is, if no size is below the first.   *)
(***************************************************************************)
EXTENDS Memory, TLAPS

USE SizeAssumption, BlockAssumption

\* Division by the block size splits an address into an index and an offset.
LEMMA Split ==
    ASSUME NEW a \in Nat
    PROVE  /\ GetBlockIndex(a) \in Nat
           /\ GetBlockOffset(a) \in 0 .. (BlockSize - 1)
           /\ a = BlockSize * GetBlockIndex(a) + GetBlockOffset(a)
BY DEF GetBlockIndex, GetBlockOffset

\* An index and an offset belong to one address.
LEMMA OneAddress ==
    ASSUME NEW a \in Nat, NEW b \in Nat, GetBlockIndex(a) = GetBlockIndex(b),
           GetBlockOffset(a) = GetBlockOffset(b)
    PROVE  a = b
<1>1. /\ a = BlockSize * GetBlockIndex(a) + GetBlockOffset(a)
      /\ b = BlockSize * GetBlockIndex(b) + GetBlockOffset(b)
    BY Split
<1> QED BY <1>1

LEMMA NoAccessType == Zero \in Value /\ NoAccess \in Access
<1>1. Zero \in Value
    BY DEF Zero, Value, Byte
<1>2. 0 \in Address /\ 1 \in 1 .. MaxWidth /\ 0 \in Lane
    BY DEF Address, Lane
<1> QED BY <1>1, <1>2 DEF NoAccess, Access

LEMMA ResultTypes == /\ Idle \in Result /\ OutOfRange \in Result
                     /\ \A v \in Value : Done(v) \in Result
BY DEF Result

LEMMA InitInv == Init => MemoryInv
<1> SUFFICES ASSUME Init PROVE MemoryInv
    OBVIOUS
<1>1. TypeOK
    BY NoAccessType, ResultTypes DEF Init, TypeOK, Sizes
<1>2. access.kind = "none"
    BY DEF Init, NoAccess
<1> QED BY <1>1, <1>2 DEF MemoryInv, AccessFits, ReadSoFar

-----------------------------------------------------------------------------
(* Types, whatever sizes the user configures.                              *)

\* What one turn of the loop leaves of the access.
LEMMA AdvanceInv ==
    ASSUME TypeOK, AccessFits, access.kind # "none", NEW v \in Value, Advance(v)
    PROVE  /\ access' \in Access
           /\ AccessFits'
           /\ result' \in Result
           /\ \/ /\ access' = [access EXCEPT !.i = access.i + 1, !.value = v]
                 /\ access.i + 1 < access.width
                 /\ result' = result
              \/ /\ access' = NoAccess
                 /\ access.i + 1 = access.width
                 /\ result' = Done(v)
<1>1. access \in Access /\ access.i < access.width
      /\ access.address + access.width =< MemorySize
    BY DEF TypeOK, AccessFits
<1>2. CASE access.i + 1 < access.width
  <2>1. access' = [access EXCEPT !.i = access.i + 1, !.value = v] /\ result' = result
    BY <1>2 DEF Advance
  <2>2. access.i + 1 \in Lane
    BY <1>1, <1>2 DEF Access, Lane
  <2>3. access' \in Access
    BY <2>1, <2>2, <1>1 DEF Access
  <2> QED BY <2>1, <2>3, <1>1, <1>2 DEF AccessFits, Access, TypeOK
<1>3. CASE ~(access.i + 1 < access.width)
  <2>1. access' = NoAccess /\ result' = Done(v)
    BY <1>3 DEF Advance
  <2>2. access.i + 1 = access.width
    BY <1>1, <1>3 DEF Access, Lane
  <2>3. AccessFits'
    BY <2>1 DEF AccessFits, NoAccess
  <2> QED BY <2>1, <2>2, <2>3, NoAccessType, ResultTypes
<1> QED BY <1>2, <1>3

\* A block, new or old, is a vector of bytes of a size once configured.
LEMMA EnsureType ==
    ASSUME TypeOK, NEW index \in Nat, NEW b \in DOMAIN EnsureBlockExists(index)
    PROVE  /\ b \in Nat
           /\ \E size \in Sizes : EnsureBlockExists(index)[b] \in
                                       [0 .. ((size % UIntSize) - 1) -> Byte]
<1>1. memory_block_size % UIntSize \in Nat /\ memory_block_size \in Sizes
    BY DEF TypeOK, Sizes
<1>2. NewBlock \in [0 .. ((memory_block_size % UIntSize) - 1) -> Byte]
    BY <1>1 DEF NewBlock, Byte
<1>3. CASE b \in DOMAIN blocks_
    BY <1>3 DEF EnsureBlockExists, IsBlockPresent, TypeOK
<1>4. CASE b \notin DOMAIN blocks_
  <2>1. b = index /\ EnsureBlockExists(index)[b] = NewBlock
    BY <1>4 DEF EnsureBlockExists, IsBlockPresent
  <2> HIDE DEF NewBlock
  <2> QED BY <1>1, <1>2, <2>1
<1> QED BY <1>3, <1>4

\* Types are kept whatever sizes the user configures.
LEMMA ReadByteType ==
    ASSUME TypeOK, AccessFits, ReadByte PROVE TypeOK' /\ AccessFits'
<1> DEFINE index == GetBlockIndex(Current)
           offset == GetBlockOffset(Current)
<1>1. /\ access.kind # "none" /\ access \in Access /\ access.value \in Value
      /\ UNCHANGED <<memory_block_size, blocks_>>
    BY DEF ReadByte, TypeOK, Access
<1>2. ASSUME NEW byte \in Byte, Advance([access.value EXCEPT ![access.i] = byte]),
             UNCHANGED out_of_bounds
      PROVE  TypeOK' /\ AccessFits'
  <2>1. [access.value EXCEPT ![access.i] = byte] \in Value
    BY <1>1 DEF Value
  <2>2. access' \in Access /\ AccessFits' /\ result' \in Result
    BY <1>1, <1>2, <2>1, AdvanceInv
  <2> QED BY <1>1, <1>2, <2>2 DEF TypeOK
<1>3. CASE Throw
  <2>1. access' \in Access /\ access'.kind = "none"
    BY <1>3, NoAccessType DEF Throw, NoAccess
  <2> QED BY <1>1, <1>3, <2>1, ResultTypes DEF Throw, TypeOK, AccessFits
<1>4. CASE out_of_bounds' = TRUE /\ UNCHANGED <<access, result>>
    BY <1>1, <1>4 DEF TypeOK, AccessFits
<1>5. 0 \in Byte
    BY DEF Byte
<1>6. ASSUME IsBlockPresent(index), InBlock(blocks_[index], offset)
      PROVE  blocks_[index][offset] \in Byte
  <2>1. PICK size \in Sizes : blocks_[index] \in [0 .. ((size % UIntSize) - 1) -> Byte]
    BY <1>6 DEF TypeOK, IsBlockPresent
  <2> QED BY <1>6, <2>1 DEF InBlock
<1>7. \/ Throw
      \/ Advance([access.value EXCEPT ![access.i] = 0]) /\ UNCHANGED out_of_bounds
      \/ /\ IsBlockPresent(index) /\ InBlock(blocks_[index], offset)
         /\ Advance([access.value EXCEPT ![access.i] = blocks_[index][offset]])
         /\ UNCHANGED out_of_bounds
      \/ out_of_bounds' = TRUE /\ UNCHANGED <<access, result>>
  <2>1. Current \in Int /\ MemorySize \in Int
    BY <1>1 DEF Current, Plus, Access, Address, Lane
  <2>2. CASE Current >= MemorySize
    BY <2>1, <2>2 DEF ReadByte
  <2>3. CASE Current < MemorySize /\ ~IsBlockPresent(index)
    BY <2>1, <2>3 DEF ReadByte
  <2>4. CASE Current < MemorySize /\ IsBlockPresent(index)
    BY <2>1, <2>4 DEF ReadByte
  <2>5. Current >= MemorySize \/ Current < MemorySize
    BY <2>1
  <2> HIDE DEF index, offset
  <2> QED BY <2>2, <2>3, <2>4, <2>5
<1> HIDE DEF index, offset
<1> QED BY <1>2, <1>3, <1>4, <1>5, <1>6, <1>7

LEMMA WriteByteType ==
    ASSUME TypeOK, AccessFits, WriteByte PROVE TypeOK' /\ AccessFits'
<1> DEFINE index == GetBlockIndex(Current)
           offset == GetBlockOffset(Current)
           blocks == EnsureBlockExists(index)
           byte == access.value[access.i]
<1>1. /\ access.kind # "none" /\ access \in Access /\ access.value \in Value
      /\ access.i \in Lane /\ UNCHANGED memory_block_size
    BY DEF WriteByte, TypeOK, Access
<1>2. byte \in Byte
    BY <1>1 DEF Value
<1>3. index \in Nat
  <2>1. Current \in Nat
    BY <1>1 DEF Current, Plus, Access, Address, Lane
  <2> QED BY <2>1, Split
<1>4. ASSUME NEW b \in DOMAIN blocks
      PROVE  b \in Nat /\ \E size \in Sizes : blocks[b] \in [0 .. ((size % UIntSize) - 1) -> Byte]
  BY <1>3, <1>4, EnsureType
<1>5. CASE Throw /\ UNCHANGED blocks_
  <2>1. access' \in Access /\ access'.kind = "none"
    BY <1>5, NoAccessType DEF Throw, NoAccess
  <2> QED BY <1>1, <1>5, <2>1, ResultTypes DEF Throw, TypeOK, AccessFits
<1>6. CASE /\ InBlock(blocks[index], offset)
           /\ blocks_' = [blocks EXCEPT ![index][offset] = byte]
           /\ Advance(access.value) /\ UNCHANGED out_of_bounds
  <2>1. access' \in Access /\ AccessFits' /\ result' \in Result
    BY <1>1, <1>6, AdvanceInv
  <2> HIDE DEF index, offset, blocks, byte
  <2>2. ASSUME NEW b \in DOMAIN blocks_'
        PROVE  b \in Nat /\ \E size \in Sizes :
                                 blocks_'[b] \in [0 .. ((size % UIntSize) - 1) -> Byte]
    <3>1. b \in DOMAIN blocks
      BY <1>6, <2>2
    <3>2. PICK size \in Sizes : blocks[b] \in [0 .. ((size % UIntSize) - 1) -> Byte]
      BY <1>4, <3>1
    <3>3. blocks_'[b] \in [0 .. ((size % UIntSize) - 1) -> Byte]
      BY <1>2, <1>6, <3>1, <3>2
    <3> QED BY <1>4, <3>1, <3>3
  <2> QED BY <1>1, <1>6, <2>1, <2>2 DEF TypeOK
<1>7. CASE blocks_' = blocks /\ out_of_bounds' = TRUE /\ UNCHANGED <<access, result>>
  <2> HIDE DEF blocks
  <2> QED BY <1>1, <1>4, <1>7 DEF TypeOK, AccessFits
<1> QED BY <1>5, <1>6, <1>7 DEF WriteByte

\* A call of a read or a write is accepted only if all of it fits.
LEMMA TypeStep == TypeOK /\ AccessFits /\ [Next]_vars => TypeOK' /\ AccessFits'
<1>1. ASSUME TypeOK, AccessFits, NEW a \in Address, NEW w \in Widths,
             BeginRead(a, w) \/ \E v \in Values : BeginWrite(a, w, v)
      PROVE  TypeOK' /\ AccessFits'
  <2>1. UNCHANGED <<memory_block_size, blocks_, out_of_bounds>>
    BY <1>1 DEF BeginRead, BeginWrite
  <2>2. a \in Nat /\ w \in 1 .. MaxWidth /\ 0 \in Lane
    BY DEF Address, Lane
  <2>3. InRange(a, w) => a + w =< MemorySize
    BY <2>2 DEF InRange
  <2>4. access' \in Access /\ AccessFits'
    <3>1. CASE access' = access
      BY <1>1, <3>1 DEF TypeOK, AccessFits
    <3>2. ASSUME InRange(a, w), NEW v \in Value, NEW kind \in {"read", "write"},
                 access' = [kind |-> kind, address |-> a, width |-> w, i |-> 0, value |-> v]
          PROVE  access' \in Access /\ AccessFits'
      BY <2>2, <2>3, <3>2 DEF Access, AccessFits
    <3>3. CASE BeginRead(a, w)
      <4>1. \/ access' = access
            \/ /\ InRange(a, w)
               /\ access' = [kind |-> "read", address |-> a, width |-> w, i |-> 0,
                             value |-> Zero]
        BY <3>3 DEF BeginRead, NoAccess
      <4> QED BY <3>1, <3>2, <4>1, NoAccessType
    <3>4. CASE \E v \in Values : BeginWrite(a, w, v)
      <4>1. PICK v \in Value : BeginWrite(a, w, v)
        BY <3>4
      <4>2. \/ access' = access
            \/ /\ InRange(a, w)
               /\ access' = [kind |-> "write", address |-> a, width |-> w, i |-> 0,
                             value |-> v]
        BY <4>1 DEF BeginWrite
      <4> QED BY <3>1, <3>2, <4>2
    <3> QED BY <1>1, <3>3, <3>4
  <2>5. result' \in {Idle, OutOfRange}
    BY <1>1 DEF BeginRead, BeginWrite
  <2> QED BY <1>1, <2>1, <2>4, <2>5, ResultTypes DEF TypeOK
<1>2. ASSUME TypeOK, AccessFits, Reset \/ ModifyConfig \/ UNCHANGED vars
      PROVE  TypeOK' /\ AccessFits'
    BY <1>2 DEF TypeOK, AccessFits, Reset, ModifyConfig, vars, Sizes
<1> QED BY <1>1, <1>2, ReadByteType, WriteByteType DEF Next

\* Whatever sizes the user configures, before and during an access, blocks stay
\* vectors of bytes no longer than an unsigned int can say, an access under way stays
\* within the width and the memory it was accepted for, and it ends with a value of
\* MaxWidth bytes or a refusal.
THEOREM TypeCorrect == Spec => []TypeOK
<1>1. Init => TypeOK /\ AccessFits
    BY InitInv DEF MemoryInv
<1> QED BY <1>1, TypeStep, PTL DEF Spec
-----------------------------------------------------------------------------
(* What a byte of an access does, as long as no vector is overrun.         *)

\* The address of the byte an access has come to is in range.
LEMMA CurrentInRange ==
    ASSUME TypeOK, AccessFits, access.kind # "none"
    PROVE  /\ Current = access.address + access.i
           /\ Current \in Cell
           /\ Current \in Nat /\ Current < MemorySize
           /\ access.i \in Lane
BY DEF TypeOK, Access, AccessFits, Current, Plus, Address, Cell, Lane

\* One byte of a read adds what the memory holds to the value.
LEMMA ReadByteEffect ==
    ASSUME TypeOK, AccessFits, ReadByte, ~out_of_bounds'
    PROVE  /\ UNCHANGED <<memory_block_size, blocks_>>
           /\ Advance([access.value EXCEPT ![access.i] = ByteAt(Current)])
<1> DEFINE index == GetBlockIndex(Current)
           offset == GetBlockOffset(Current)
<1>1. access.kind # "none"
    BY DEF ReadByte
<1>2. Current \in Nat /\ Current < MemorySize /\ ~(Current >= MemorySize)
    BY <1>1, CurrentInRange
<1> HIDE DEF Current
<1>3. ByteAt(Current) = IF IsBlockPresent(index) /\ InBlock(blocks_[index], offset)
                        THEN blocks_[index][offset] ELSE 0
    BY DEF ByteAt
<1>4. \/ ~IsBlockPresent(index)
      \/ IsBlockPresent(index) /\ InBlock(blocks_[index], offset)
      \/ IsBlockPresent(index) /\ ~InBlock(blocks_[index], offset)
    OBVIOUS
<1>5. CASE ~IsBlockPresent(index)
    BY <1>2, <1>3, <1>5 DEF ReadByte
<1>6. CASE IsBlockPresent(index) /\ InBlock(blocks_[index], offset)
    BY <1>2, <1>3, <1>6 DEF ReadByte
<1>7. CASE IsBlockPresent(index) /\ ~InBlock(blocks_[index], offset)
    BY <1>2, <1>7 DEF ReadByte
<1> QED BY <1>4, <1>5, <1>6, <1>7

\* One byte of a write stores it in its block.
LEMMA WriteByteEffect ==
    ASSUME TypeOK, AccessFits, WriteByte, ~out_of_bounds'
    PROVE  LET index == GetBlockIndex(Current)
               offset == GetBlockOffset(Current)
           IN /\ UNCHANGED memory_block_size
              /\ Advance(access.value)
              /\ blocks_' = [EnsureBlockExists(index) EXCEPT
                                 ![index][offset] = access.value[access.i]]
              /\ index \in Nat
              /\ offset \in DOMAIN EnsureBlockExists(index)[index]
<1> DEFINE index == GetBlockIndex(Current)
           offset == GetBlockOffset(Current)
<1>1. access.kind # "none"
    BY DEF WriteByte
<1>2. Current \in Nat /\ Current < MemorySize
    BY <1>1, CurrentInRange
<1>3. index \in Nat
    BY <1>2, Split
<1>4. ~(Current >= MemorySize)
    BY <1>2
<1>5. CASE offset \in DOMAIN EnsureBlockExists(index)[index]
    BY <1>3, <1>4, <1>5 DEF WriteByte, InBlock
<1>6. CASE offset \notin DOMAIN EnsureBlockExists(index)[index]
    BY <1>4, <1>6 DEF WriteByte, InBlock
<1> QED BY <1>5, <1>6

\* A write of one byte changes what the memory holds at its address only.
LEMMA ByteWritten ==
    ASSUME TypeOK, AccessFits, WriteByte, ~out_of_bounds', NEW a \in Nat
    PROVE  ByteAt(a)' = IF a = Current THEN access.value[access.i] ELSE ByteAt(a)
<1> DEFINE index == GetBlockIndex(Current)
           offset == GetBlockOffset(Current)
           blocks == EnsureBlockExists(index)
           value == access.value[access.i]
           block == GetBlockIndex(a)
           k == GetBlockOffset(a)
<1>1. /\ blocks_' = [blocks EXCEPT ![index][offset] = value]
      /\ index \in Nat /\ offset \in DOMAIN blocks[index]
    BY WriteByteEffect
<1>2. Current \in Nat
    BY CurrentInRange DEF WriteByte
<1>3. block = index /\ k = offset => a = Current
    BY <1>2, OneAddress
<1>4. /\ DOMAIN blocks = DOMAIN blocks_ \cup {index}
      /\ \A b \in DOMAIN blocks_ : blocks[b] = blocks_[b]
      /\ index \notin DOMAIN blocks_ => blocks[index] = NewBlock
    BY DEF EnsureBlockExists, IsBlockPresent
<1>5. \A n \in DOMAIN NewBlock : NewBlock[n] = 0
    BY DEF NewBlock
<1>6. /\ ByteAt(a)' = IF block \in DOMAIN blocks_' /\ k \in DOMAIN blocks_'[block]
                      THEN blocks_'[block][k] ELSE 0
      /\ ByteAt(a) = IF block \in DOMAIN blocks_ /\ k \in DOMAIN blocks_[block]
                     THEN blocks_[block][k] ELSE 0
    BY DEF ByteAt, IsBlockPresent, InBlock, GetBlockIndex, GetBlockOffset
<1>7. a = Current => block = index /\ k = offset
    OBVIOUS
<1> HIDE DEF blocks, index, offset, value, block, k
<1>8. /\ DOMAIN blocks_' = DOMAIN blocks /\ index \in DOMAIN blocks
      /\ \A b \in DOMAIN blocks : b # index => blocks_'[b] = blocks[b]
      /\ blocks_'[index] = [blocks[index] EXCEPT ![offset] = value]
    BY <1>1, <1>4
<1>9. /\ DOMAIN blocks_'[index] = DOMAIN blocks[index]
      /\ blocks_'[index][offset] = value
      /\ \A n \in DOMAIN blocks[index] : n # offset => blocks_'[index][n] = blocks[index][n]
    BY <1>1, <1>8
<1>10. CASE a = Current
    BY <1>1, <1>6, <1>7, <1>8, <1>9, <1>10 DEF value
<1>11. CASE a # Current /\ block # index
  <2>1. block \in DOMAIN blocks_' <=> block \in DOMAIN blocks_
    BY <1>4, <1>8, <1>11
  <2>2. block \in DOMAIN blocks_ => blocks_'[block] = blocks_[block]
    BY <1>4, <1>8, <1>11
  <2> QED BY <1>6, <1>11, <2>1, <2>2
<1>12. CASE a # Current /\ block = index
  <2>1. k # offset
    BY <1>3, <1>12
  <2>2. ByteAt(a)' = IF k \in DOMAIN blocks[index] THEN blocks[index][k] ELSE 0
    BY <1>6, <1>8, <1>9, <1>12, <2>1
  <2>3. CASE index \in DOMAIN blocks_
    BY <1>4, <1>6, <1>12, <2>2, <2>3
  <2>4. CASE index \notin DOMAIN blocks_
    BY <1>4, <1>5, <1>6, <1>12, <2>2, <2>4
  <2> QED BY <2>3, <2>4
<1> QED BY <1>10, <1>11, <1>12

\* What a read finds at the address it has come to is a byte.
LEMMA ByteAtType ==
    ASSUME TypeOK PROVE ByteAt(Current) \in Byte
<1> DEFINE index == GetBlockIndex(Current)
           offset == GetBlockOffset(Current)
<1>1. ASSUME index \in DOMAIN blocks_, offset \in DOMAIN blocks_[index]
      PROVE  blocks_[index][offset] \in Byte
  <2>1. PICK size \in Sizes : blocks_[index] \in [0 .. ((size % UIntSize) - 1) -> Byte]
    BY <1>1 DEF TypeOK
  <2> QED BY <1>1, <2>1
<1> HIDE DEF index, offset
<1> QED BY <1>1 DEF ByteAt, IsBlockPresent, InBlock, Byte, index, offset

\* The value a read has collected with its next byte.
LEMMA ReadValue ==
    ASSUME MemoryInv, access.kind = "read"
    PROVE  [access.value EXCEPT ![access.i] = ByteAt(Current)] =
               [j \in Lane |-> IF j < access.i + 1 THEN ByteAt(access.address + j) ELSE 0]
<1>1. /\ Current = access.address + access.i /\ access.i \in Lane
    BY CurrentInRange DEF MemoryInv
<1>2. access.value = [j \in Lane |-> IF j < access.i THEN ByteAt(access.address + j) ELSE 0]
    BY DEF MemoryInv, ReadSoFar
<1> QED BY <1>1, <1>2 DEF Lane

\* A read that overruns a vector gets no further.
LEMMA OverrunStops ==
    ASSUME TypeOK, AccessFits, ReadByte, out_of_bounds' PROVE access' = access
<1> DEFINE index == GetBlockIndex(Current)
           offset == GetBlockOffset(Current)
<1>1. access.kind # "none" /\ ~out_of_bounds
    BY DEF ReadByte
<1>2. Current < MemorySize /\ ~(Current >= MemorySize)
    BY <1>1, CurrentInRange
<1> HIDE DEF Current
<1>3. CASE ~IsBlockPresent(index)
    BY <1>1, <1>2, <1>3 DEF ReadByte
<1>4. CASE IsBlockPresent(index)
    BY <1>1, <1>2, <1>4 DEF ReadByte
<1> QED BY <1>3, <1>4

\* What has been read stays what the memory holds: nothing writes during a read.
LEMMA ReadSoFarStep == MemoryInv /\ [Next]_vars => ReadSoFar'
<1> SUFFICES ASSUME MemoryInv, [Next]_vars PROVE ReadSoFar'
    OBVIOUS
<1>1. TypeOK /\ AccessFits /\ access \in Access
    BY DEF MemoryInv, TypeOK
<1>2. ASSUME access' = access, blocks_' = blocks_ PROVE ReadSoFar'
    BY <1>2 DEF MemoryInv, ReadSoFar, ByteAt, IsBlockPresent, InBlock
<1>3. ASSUME access'.kind # "read" PROVE ReadSoFar'
    BY <1>3 DEF ReadSoFar
<1>4. NoAccess.kind = "none"
    BY DEF NoAccess
<1>5. ASSUME NEW a \in Address, NEW w \in Widths, BeginRead(a, w) PROVE ReadSoFar'
  <2>1. blocks_' = blocks_
    BY <1>5 DEF BeginRead
  <2>2. CASE access' = access
    BY <1>2, <2>1, <2>2
  <2>3. CASE access'.i = 0 /\ access'.value = Zero
    BY <2>3 DEF ReadSoFar, Zero, Lane
  <2> QED BY <1>5, <2>2, <2>3 DEF BeginRead, NoAccess
<1>6. ASSUME NEW a \in Address, NEW w \in Widths, NEW v \in Values, BeginWrite(a, w, v)
      PROVE  ReadSoFar'
  <2>1. blocks_' = blocks_
    BY <1>6 DEF BeginWrite
  <2>2. access' = access \/ access'.kind = "write"
    BY <1>6 DEF BeginWrite
  <2> QED BY <1>2, <1>3, <2>1, <2>2
<1>7. CASE ReadByte
  <2> DEFINE v == [access.value EXCEPT ![access.i] = ByteAt(Current)]
  <2>1. access.kind = "read" /\ access.kind # "none" /\ blocks_' = blocks_
    BY <1>7 DEF ReadByte
  <2>2. CASE ~out_of_bounds'
    <3>1. Advance(v)
      BY <1>1, <1>7, <2>2, ReadByteEffect
    <3>2. v = [j \in Lane |-> IF j < access.i + 1 THEN ByteAt(access.address + j) ELSE 0]
      BY <2>1, ReadValue
    <3>3. v \in Value
      BY <1>1, ByteAtType DEF Value, Access
    <3> HIDE DEF v
    <3>4. \/ access' = [access EXCEPT !.i = access.i + 1, !.value = v]
          \/ access' = NoAccess
      BY <1>1, <2>1, <3>1, <3>3, AdvanceInv
    <3>5. \A a : ByteAt(a)' = ByteAt(a)
      BY <2>1 DEF ByteAt, IsBlockPresent, InBlock
    <3>6. CASE access' = [access EXCEPT !.i = access.i + 1, !.value = v]
      <4>1. access'.value = v /\ access'.i = access.i + 1 /\ access'.address = access.address
        BY <1>1, <3>6 DEF Access
      <4> QED BY <3>2, <3>5, <4>1 DEF ReadSoFar
    <3> QED BY <1>3, <1>4, <3>4, <3>6
  <2>3. CASE out_of_bounds'
    <3>1. access' = access
      BY <1>1, <1>7, <2>3, OverrunStops
    <3> QED BY <1>2, <2>1, <3>1
  <2> QED BY <2>2, <2>3
<1>8. CASE WriteByte
  <2>1. access.kind = "write" /\ access.kind # "none" /\ access.value \in Value
    BY <1>1, <1>8 DEF WriteByte, Access
  <2>2. access'.kind \in {"write", "none"}
    <3>1. ASSUME Advance(access.value) PROVE access'.kind \in {"write", "none"}
      <4>1. \/ access' = [access EXCEPT !.i = access.i + 1, !.value = access.value]
            \/ access' = NoAccess
        BY <1>1, <2>1, <3>1, AdvanceInv
      <4>2. [access EXCEPT !.i = access.i + 1, !.value = access.value].kind = access.kind
        BY <1>1 DEF Access
      <4> QED BY <1>4, <2>1, <4>1, <4>2
    <3>2. Advance(access.value) \/ access' = access \/ access' = NoAccess
      BY <1>8, Zenon DEF WriteByte, Throw
    <3> QED BY <1>4, <2>1, <3>1, <3>2
  <2> QED BY <1>3, <2>2
<1>9. CASE Reset
    BY <1>3, <1>9 DEF Reset
<1>10. CASE ModifyConfig \/ UNCHANGED vars
    BY <1>2, <1>10 DEF ModifyConfig, vars
<1> QED BY <1>5, <1>6, <1>7, <1>8, <1>9, <1>10 DEF Next

LEMMA NextInv == MemoryInv /\ [Next]_vars => MemoryInv'
BY TypeStep, ReadSoFarStep DEF MemoryInv

-----------------------------------------------------------------------------
(***************************************************************************)
(* Refinement.                                                             *)
(***************************************************************************)

\* The addresses a write has yet to reach, one byte further.
LEMMA PendingShrinks ==
    ASSUME TypeOK, AccessFits, WriteByte, ~out_of_bounds'
    PROVE  /\ Pending = Pending' \cup {Current}
           /\ Current \notin Pending'
           /\ access'.kind = "write" => access'.value = access.value
                                       /\ access'.address = access.address
<1>1. /\ access.kind = "write" /\ access \in Access /\ access.i \in Nat
      /\ Current = access.address + access.i /\ access.address \in Nat
      /\ access.value \in Value
    BY CurrentInRange DEF WriteByte, TypeOK, Access, Lane, Address
<1>2. Advance(access.value)
    BY WriteByteEffect
<1>3. \/ /\ access' = [access EXCEPT !.i = access.i + 1, !.value = access.value]
         /\ access.i + 1 < access.width
      \/ /\ access' = NoAccess
         /\ access.i + 1 = access.width
    BY <1>1, <1>2, AdvanceInv
<1>4. CASE access' = [access EXCEPT !.i = access.i + 1, !.value = access.value]
             /\ access.i + 1 < access.width
  <2>1. /\ access'.kind = "write" /\ access'.value = access.value
        /\ access'.address = access.address /\ access'.i = access.i + 1
        /\ access'.width = access.width
    BY <1>1, <1>4 DEF Access
  <2> QED BY <1>1, <1>4, <2>1 DEF Pending, Access
<1>5. CASE access' = NoAccess /\ access.i + 1 = access.width
  <2>1. access'.kind = "none"
    BY <1>5 DEF NoAccess
  <2> QED BY <1>1, <1>5, <2>1 DEF Pending, Access
<1> QED BY <1>3, <1>4, <1>5

\* The bytes that the blocks stand for do not change while a write proceeds.
LEMMA WriteByteStutters ==
    ASSUME TypeOK, AccessFits, WriteByte, ~out_of_bounds'
    PROVE  UNCHANGED <<FlatBytes, FlatResult>>
<1>1. /\ access.kind = "write" /\ access \in Access
      /\ Current = access.address + access.i /\ access.address \in Nat
      /\ access.i \in Nat
    BY CurrentInRange DEF WriteByte, TypeOK, Access, Lane, Address
<1>2. ASSUME NEW a \in Cell
      PROVE  FlatBytes'[a] = FlatBytes[a]
  <2>1. /\ FlatBytes'[a] = IF a \in Pending' THEN access'.value[a - access'.address]
                           ELSE ByteAt(a)'
        /\ FlatBytes[a] = IF a \in Pending THEN access.value[a - access.address]
                          ELSE ByteAt(a)
    BY DEF FlatBytes
  <2>2. ByteAt(a)' = IF a = Current THEN access.value[access.i] ELSE ByteAt(a)
    BY ByteWritten DEF Cell
  <2>3. a = Current => a - access.address = access.i
    BY <1>1
  <2>4. a \in Pending' => access'.kind = "write"
    BY DEF Pending
  <2> QED BY <2>1, <2>2, <2>3, <2>4, PendingShrinks
<1>3. FlatBytes' = FlatBytes
    BY <1>2 DEF FlatBytes
<1>4. FlatResult' = FlatResult
  <2>1. Advance(access.value)
    BY WriteByteEffect
  <2>2. access.value \in Value
    BY <1>1 DEF Access
  <2>3. \/ access'.kind = "write"
        \/ access' = NoAccess /\ result' = Done(access.value)
    BY <1>1, <2>1, <2>2, AdvanceInv DEF Access
  <2> QED BY <1>1, <2>3, PendingShrinks DEF FlatResult, NoAccess
<1> QED BY <1>3, <1>4

\* The last byte of a read returns the value; the others change nothing.
LEMMA ReadByteReads ==
    ASSUME MemoryInv, ReadByte, ~out_of_bounds'
    PROVE  \/ UNCHANGED <<FlatBytes, FlatResult>>
           \/ \E a \in Address, w \in Widths : Flat!Read(a, w)
<1> DEFINE v == [access.value EXCEPT ![access.i] = ByteAt(Current)]
<1>1. /\ UNCHANGED blocks_ /\ Advance(v)
    BY ReadByteEffect DEF MemoryInv
<1>2. /\ access.kind = "read" /\ access \in Access /\ access.i \in Lane
      /\ access.width \in Widths /\ access.address + access.width =< MemorySize
      /\ access.address \in Address
    BY CurrentInRange DEF ReadByte, MemoryInv, TypeOK, AccessFits, Access
<1>3. v = [j \in Lane |-> IF j < access.i + 1 THEN ByteAt(access.address + j) ELSE 0]
    BY <1>2, ReadValue
<1>4. v \in Value
    BY <1>2, ByteAtType DEF MemoryInv, Value, Access
<1> HIDE DEF v
<1>5. \/ /\ access' = [access EXCEPT !.i = access.i + 1, !.value = v]
         /\ result' = result
      \/ /\ access' = NoAccess
         /\ access.i + 1 = access.width
         /\ result' = Done(v)
    BY <1>1, <1>2, <1>4, AdvanceInv DEF MemoryInv
<1>6. access'.kind # "write"
  <2>1. NoAccess.kind = "none"
    BY DEF NoAccess
  <2>2. [access EXCEPT !.i = access.i + 1, !.value = v].kind = access.kind
    BY <1>2 DEF Access
  <2> QED BY <1>2, <1>5, <2>1, <2>2
<1>7. /\ FlatBytes = [a \in Cell |-> ByteAt(a)]
      /\ FlatBytes' = FlatBytes
      /\ FlatResult' = result' /\ FlatResult = result
    BY <1>1, <1>2, <1>6 DEF FlatBytes, FlatResult, Pending, ByteAt, IsBlockPresent, InBlock
<1>8. CASE access.i + 1 = access.width /\ result' = Done(v)
  <2> DEFINE a == access.address
             w == access.width
  <2>1. a \in Nat /\ w \in Nat
    BY <1>2 DEF Address, Access
  <2>2. ASSUME NEW j \in Lane, j < w PROVE FlatBytes[a + j] = ByteAt(a + j)
    <3>1. a + j \in Cell
      BY <2>1, <2>2, <1>2 DEF Lane, Cell
    <3> QED BY <3>1, <1>7
  <2> HIDE DEF a, w
  <2>3. v = [j \in Lane |-> IF j < w THEN FlatBytes[a + j] ELSE 0]
    BY <1>3, <1>8, <2>2 DEF a, w
  <2>4. Flat!Read(a, w)
    BY <2>3, <1>2, <1>7, <1>8 DEF Flat!Read, Flat!Fits, Flat!Done, Flat!Lane, Done, Lane, a, w
  <2> QED BY <2>4, <1>2 DEF a, w
<1> QED BY <1>5, <1>7, <1>8

\* A call refuses, or starts a read, or performs the whole write.
LEMMA BeginRefines ==
    ASSUME MemoryInv, NEW a \in Address, NEW w \in Widths,
           BeginRead(a, w) \/ \E v \in Values : BeginWrite(a, w, v)
    PROVE  Flat!Next
<1>1. /\ access.kind = "none" /\ UNCHANGED blocks_
      /\ a \in Nat /\ w \in Nat /\ w \in 1 .. MaxWidth
    BY DEF BeginRead, BeginWrite, Address
<1>2. \A b : ByteAt(b)' = ByteAt(b)
    BY <1>1 DEF ByteAt, IsBlockPresent, InBlock
<1>3. FlatBytes = [b \in Cell |-> ByteAt(b)]
    BY <1>1 DEF FlatBytes, Pending
<1>4. a < MemorySize - (w - 1) <=> Flat!Fits(a, w)
    BY <1>1 DEF Flat!Fits
<1>5. CASE access' = access /\ result' = OutOfRange /\ ~Flat!Fits(a, w)
  <2>1. FlatBytes' = FlatBytes /\ FlatResult' = Flat!OutOfRange
    BY <1>1, <1>2, <1>3, <1>5 DEF FlatBytes, FlatResult, Pending, OutOfRange,
       Flat!OutOfRange, Zero, Flat!Zero, Lane, Flat!Lane
  <2> QED BY <2>1, <1>5 DEF Flat!Next, Flat!Refuse, Flat!Address, Address
<1>6. CASE /\ Flat!Fits(a, w) /\ result' = Idle
           /\ access' = [kind |-> "read", address |-> a, width |-> w, i |-> 0, value |-> Zero]
  <2>1. access'.kind = "read"
    BY <1>6
  <2>2. FlatBytes' = FlatBytes
    BY <2>1, <1>2, <1>3 DEF FlatBytes, Pending
  <2>3. FlatResult' = Flat!Idle
    BY <2>1, <1>6 DEF FlatResult, Idle, Flat!Idle, Zero, Flat!Zero, Lane, Flat!Lane
  <2> QED BY <2>2, <2>3 DEF Flat!Next, Flat!Call
<1>7. ASSUME NEW v \in Values, Flat!Fits(a, w),
             access' = [kind |-> "write", address |-> a, width |-> w, i |-> 0, value |-> v]
      PROVE  Flat!Next
  <2>1. /\ access'.kind = "write" /\ access'.address = a /\ access'.i = 0
        /\ access'.width = w /\ access'.value = v
    BY <1>7
  <2>2. FlatBytes' = [b \in Cell |-> IF b \in a .. (a + w - 1) THEN v[b - a] ELSE ByteAt(b)']
    BY <2>1, <1>1 DEF FlatBytes, Pending
  <2>3. FlatBytes' = [b \in Cell |-> IF b \in a .. (a + w - 1) THEN v[b - a] ELSE FlatBytes[b]]
    BY <2>2, <1>2, <1>3
  <2>4. FlatResult' = Flat!Done(v)
    BY <2>1 DEF FlatResult, Done, Flat!Done
  <2>5. Flat!Write(a, w, v)
    BY <2>3, <2>4, <1>7 DEF Flat!Write, Flat!Cell, Cell
  <2> QED BY <2>5 DEF Flat!Next, Flat!Address, Address
<1>8. CASE BeginRead(a, w)
    BY <1>4, <1>5, <1>6, <1>8 DEF BeginRead, InRange, NoAccess
<1>9. CASE \E v \in Values : BeginWrite(a, w, v)
    BY <1>4, <1>5, <1>7, <1>9 DEF BeginWrite, InRange
<1> QED BY <1>8, <1>9

LEMMA ResetRefines ==
    ASSUME MemoryInv, Reset
    PROVE  Flat!Next
<1>1. /\ access.kind = "none" /\ access' = access /\ result' = result
      /\ DOMAIN blocks_' = {}
    BY DEF Reset
<1>2. FlatBytes' = [a \in Cell |-> 0] /\ FlatResult' = FlatResult
    BY <1>1 DEF FlatBytes, FlatResult, Pending, ByteAt, IsBlockPresent
<1> QED BY <1>2 DEF Flat!Next, Flat!Reset, Flat!Cell, Cell

\* Every step that overruns no vector is a step of the flat memory or changes nothing
\* in it.
LEMMA StepRefines ==
    ASSUME MemoryInv, [Next]_vars, ~out_of_bounds'
    PROVE  Flat!Next \/ UNCHANGED <<FlatBytes, FlatResult>>
<1>1. CASE \E a \in Address, w \in Widths : BeginRead(a, w)
    BY <1>1, BeginRefines
<1>2. CASE \E a \in Address, w \in Widths, v \in Values : BeginWrite(a, w, v)
    BY <1>2, BeginRefines
<1>3. CASE ReadByte
    BY <1>3, ReadByteReads DEF Flat!Next, Flat!Address, Address
<1>4. CASE WriteByte
    BY <1>4, WriteByteStutters DEF MemoryInv
<1>5. CASE Reset
    BY <1>5, ResetRefines
<1>6. CASE ModifyConfig \/ UNCHANGED vars
  <2>1. UNCHANGED <<blocks_, access, result>>
    BY <1>6 DEF ModifyConfig, vars
  <2>2. \A b : ByteAt(b)' = ByteAt(b)
    BY <2>1 DEF ByteAt, IsBlockPresent, InBlock
  <2> QED BY <2>1, <2>2 DEF FlatBytes, FlatResult, Pending
<1> QED BY <1>1, <1>2, <1>3, <1>4, <1>5, <1>6 DEF Next

LEMMA InitRefines == Init => Flat!Init
<1> SUFFICES ASSUME Init PROVE Flat!Init
    OBVIOUS
<1>1. access.kind = "none" /\ DOMAIN blocks_ = {} /\ result = Idle
    BY DEF Init, NoAccess
<1>2. FlatBytes = [a \in Cell |-> 0]
    BY <1>1 DEF FlatBytes, Pending, ByteAt, IsBlockPresent
<1>3. FlatResult = Flat!Idle
    BY <1>1 DEF FlatResult, Idle, Flat!Idle, Zero, Flat!Zero, Lane, Flat!Lane
<1> QED BY <1>2, <1>3 DEF Flat!Init, Flat!Cell, Cell

\* Until a vector is indexed past its end, Memory is a flat array of bytes whose accesses
\* take place whole or not at all, for every size of memory, block and access, and
\* whatever sizes the user configures: nothing is assumed of them.
THEOREM FlatWhileInBounds == Spec => FlatUntilOverrun
<1>1. MemoryInv /\ [Next]_vars =>
          [out_of_bounds' \/ [Flat!Next]_<<FlatBytes, FlatResult>>]_vars
    BY StepRefines
<1> QED BY <1>1, InitInv, NextInv, PTL DEF Spec, FlatUntilOverrun
-----------------------------------------------------------------------------
(***************************************************************************)
(* Sizes that are never below the first.                                   *)
(***************************************************************************)

\* Among the sizes a block may get, none is shorter than BlockSize.
LEMMA BlockLength ==
    ASSUME NoShrink, NEW size \in Sizes
    PROVE  size % UIntSize \in Nat /\ size % UIntSize >= BlockSize
BY DEF NoShrink, Sizes

\* The blocks cover the offsets they are addressed with, old ones and new ones.
LEMMA EnsureCovers ==
    ASSUME NoShrink, TypeOK, BlocksCover, NEW index \in Nat,
           NEW b \in DOMAIN EnsureBlockExists(index)
    PROVE  0 .. (BlockSize - 1) \subseteq DOMAIN EnsureBlockExists(index)[b]
<1>1. /\ memory_block_size % UIntSize \in Nat
      /\ memory_block_size % UIntSize >= BlockSize
    BY BlockLength DEF TypeOK
<1>2. 0 .. (BlockSize - 1) \subseteq DOMAIN NewBlock
    BY <1>1 DEF NewBlock
<1> HIDE DEF NewBlock
<1>3. \/ b \in DOMAIN blocks_ /\ EnsureBlockExists(index)[b] = blocks_[b]
      \/ EnsureBlockExists(index)[b] = NewBlock
    BY DEF EnsureBlockExists, IsBlockPresent
<1> QED BY <1>2, <1>3 DEF BlocksCover

LEMMA CoverStep ==
    ASSUME NoShrink, TypeOK, AccessFits, BlocksCover, ~out_of_bounds, [Next]_vars
    PROVE  BlocksCover' /\ ~out_of_bounds'
<1>1. ASSUME UNCHANGED <<blocks_, out_of_bounds>> PROVE BlocksCover' /\ ~out_of_bounds'
    BY <1>1 DEF BlocksCover
<1>2. ASSUME NEW a \in Address, NEW w \in Widths,
             BeginRead(a, w) \/ \E v \in Values : BeginWrite(a, w, v)
      PROVE  UNCHANGED <<blocks_, out_of_bounds>>
    BY <1>2 DEF BeginRead, BeginWrite
<1>3. CASE Reset
    BY <1>3 DEF Reset, BlocksCover
<1>4. CASE ModifyConfig \/ UNCHANGED vars
    BY <1>1, <1>4 DEF ModifyConfig, vars
<1> DEFINE index == GetBlockIndex(Current)
           offset == GetBlockOffset(Current)
<1>5. ASSUME access.kind # "none"
      PROVE  /\ index \in Nat /\ offset \in 0 .. (BlockSize - 1)
             /\ Current < MemorySize /\ ~(Current >= MemorySize)
    BY <1>5, CurrentInRange, Split
<1>6. CASE ReadByte
  <2>1. access.kind # "none"
    BY <1>6 DEF ReadByte
  <2>2. IsBlockPresent(index) => InBlock(blocks_[index], offset)
    BY <1>5, <2>1 DEF BlocksCover, IsBlockPresent, InBlock
  <2>3. UNCHANGED blocks_
    BY <1>6 DEF ReadByte
  <2>4. ~out_of_bounds'
    <3> HIDE DEF Current
    <3>1. CASE ~IsBlockPresent(index)
      BY <1>5, <1>6, <2>1, <3>1 DEF ReadByte
    <3>2. CASE IsBlockPresent(index)
      BY <1>5, <1>6, <2>1, <2>2, <3>2 DEF ReadByte
    <3> QED BY <3>1, <3>2
  <2> QED BY <2>3, <2>4 DEF BlocksCover
<1>7. CASE WriteByte
  <2> DEFINE blocks == EnsureBlockExists(index)
  <2>1. access.kind # "none"
    BY <1>7 DEF WriteByte
  <2>2. \A b \in DOMAIN blocks : 0 .. (BlockSize - 1) \subseteq DOMAIN blocks[b]
    BY <1>5, <2>1, EnsureCovers
  <2>3. index \in DOMAIN blocks
    BY DEF EnsureBlockExists
  <2>4. InBlock(blocks[index], offset)
    BY <1>5, <2>1, <2>2, <2>3 DEF InBlock
  <2>5. /\ blocks_' = [blocks EXCEPT ![index][offset] = access.value[access.i]]
        /\ UNCHANGED out_of_bounds
    BY <1>5, <1>7, <2>1, <2>4 DEF WriteByte
  <2> HIDE DEF blocks, index, offset
  <2>6. ASSUME NEW b \in DOMAIN blocks_'
        PROVE  0 .. (BlockSize - 1) \subseteq DOMAIN blocks_'[b]
    <3>1. b \in DOMAIN blocks /\ DOMAIN blocks_'[b] = DOMAIN blocks[b]
      BY <2>3, <2>5, <2>6
    <3> QED BY <2>2, <3>1
  <2> QED BY <2>5, <2>6 DEF BlocksCover
<1> QED BY <1>1, <1>2, <1>3, <1>4, <1>6, <1>7 DEF Next

\* No vector is ever indexed past its end, if no configured block size is shorter than
\* the constructor's.
LEMMA InBounds ==
    ASSUME NoShrink
    PROVE  Spec => [](TypeOK /\ AccessFits /\ BlocksCover /\ NeverOutOfBounds)
<1>1. Init => TypeOK /\ AccessFits /\ BlocksCover /\ NeverOutOfBounds
    BY InitInv DEF MemoryInv, Init, BlocksCover, NeverOutOfBounds
<1>2. TypeOK /\ AccessFits /\ BlocksCover /\ NeverOutOfBounds /\ [Next]_vars
          => (TypeOK /\ AccessFits /\ BlocksCover /\ NeverOutOfBounds)'
    BY TypeStep, CoverStep DEF NeverOutOfBounds
<1> QED BY <1>1, <1>2, PTL DEF Spec

\* Blocks are invisible for good, for every size of memory, block and access, if no
\* configured block size is shorter than the first.
THEOREM ImplementsFlatMemory ==
    ASSUME NoShrink
    PROVE  Spec => RefinesFlatMemory
<1>1. MemoryInv /\ [Next]_vars /\ NeverOutOfBounds' => [Flat!Next]_<<FlatBytes, FlatResult>>
    BY StepRefines DEF NeverOutOfBounds
<1> QED
  BY <1>1, InBounds, InitInv, NextInv, InitRefines, PTL DEF Spec, RefinesFlatMemory, Flat!Spec
=============================================================================
