CONSTANTS
  Rows <- TwoPerTick
  Grain = 2
  Limits = {0, 2, 9}
  Least = 1
  Most = 3
SPECIFICATION Spec
INVARIANT TypeOK
INVARIANT NewestFirst
INVARIANT MissingOnlyInTheCut
