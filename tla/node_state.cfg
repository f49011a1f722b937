SPECIFICATION FairSpec
CONSTANTS
  MaxRounds = 2
  Threshold = 2
  MaxFailures = 2
  MaxVersion = 2
INVARIANTS
  TypeOK
  FailuresCounted
  StatusTellsMisses
PROPERTIES
  Converges
