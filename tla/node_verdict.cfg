SPECIFICATION Spec
CONSTANTS
  MaxRounds = 1
  Threshold = 2
  MaxFailures = 1
  MaxVersion = 2
PROPERTIES
  MissKeepsVerdict
