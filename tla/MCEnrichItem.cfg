SPECIFICATION EnrichSpec
CONSTANTS
  p1 = p1
  p2 = p2
  Hand = {p1, p2}
  Policies = {"emptyFieldsOnly"}
  MaxTries = 2
  MaxSends = 2
  MaxVersions = 3
  MaxDeeds = 1
SYMMETRY MCSymmetry
PROPERTY OnlyEmptyFilled
CHECK_DEADLOCK FALSE
