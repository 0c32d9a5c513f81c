SPECIFICATION Spec
CONSTANTS
  R = 3
  MaxMsg = 10
  MaxOut = 10
  MaxBlocks = 4
INVARIANTS RoomForPadding Absorbed StartsFromZero
PROPERTY ImplementsSponge
