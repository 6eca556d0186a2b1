SPECIFICATION PaperSpec
CONSTANTS
  w1 = w1
  w2 = w2
  small = small
  large = large
  r1 = r1
  r2 = r2
  Worker = {w1, w2}
  Html = {small, large}
  Size <- MCSize
  Pdf = Pdf
  None = None
  MaxKeys = 3
  Row = {r1, r2}
  MaxAttempts = 2
  MaxMishaps = 1
  MaxClaims = 2
  Elsewhere <- MCElsewhere
  EarlyRows = TRUE
SYMMETRY MCSymmetry
PROPERTIES HtmlKept
CHECK_DEADLOCK FALSE
