SPECIFICATION FairSpec
CONSTANTS
  Servers = {s1, s2}
  Base = 10
  Deviation = 2
  Changes <- MCChanges
INVARIANT TypeOK
INVARIANT PricesBounded
PROPERTY GeneratorsEnd
CHECK_DEADLOCK FALSE
