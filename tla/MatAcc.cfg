SPECIFICATION Spec
CONSTANTS
  Quads = 2
  K = 2
  Triples = 2
  MaxReject = 2
INVARIANTS NoOverrun NoGap RowProduct RightEntry
