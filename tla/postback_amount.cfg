\* Every amount below 64 rubles.
CONSTANTS
  Precision = 13
  MaxAmount = 6399
SPECIFICATION AmountSpec
INVARIANT AmountIsExact
CHECK_DEADLOCK FALSE
