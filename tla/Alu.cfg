SPECIFICATION Spec
CONSTANT Bits = 8
INVARIANT ProductHalves
INVARIANT DivisionPairs
INVARIANT ShiftsBits
INVARIANT ExtendsHalves
