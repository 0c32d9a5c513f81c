SPECIFICATION KemSpec
CONSTANTS
  MaxKeys = 2
  MaxEnc = 2
  MaxChanges = 2
  MaxDamage = 1
  MaxDec = 2
INVARIANTS Agreement NoFalseAgreement
PROPERTY ImplementsIdeal
CHECK_DEADLOCK FALSE
