SPECIFICATION Spec
CONSTANTS
  Ranks = {2, 3, 4}
  Messages = {"m1", "m2"}
  Coins = {"c1", "c2"}
INVARIANTS NoOverflow WellFormed NonceFresh DecryptsToMessage CmpIsReencryption
