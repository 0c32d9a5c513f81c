CONSTANTS
  Stride = 419
  Flipped = {0, 1664}
SPECIFICATION Spec
INVARIANTS StoresRoundedQuotient DecodesNearby ComparisonIsExact NoiseIsBinomial
