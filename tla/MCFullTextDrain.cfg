SPECIFICATION DrainSpec
CONSTANTS
  p1 = p1
  p2 = p2
  Pool = {p1, p2}
  PerBatch = 2
  Limits = {0, 3}
  Thresholds = {0, 1}
  MaxQueue = 2
  MaxWorked = 4
  w1 = w1
  w2 = w2
  small = small
  large = large
  r1 = r1
  r2 = r2
  Worker = {w1, w2}
  Html = {small, large}
  Size <- MCSize
  Pdf = Pdf
  None = None
  MaxKeys = 3
  Row = {r1, r2}
  MaxAttempts = 2
  MaxMishaps = 1
  MaxClaims = 2
  Elsewhere <- MCElsewhere
  EarlyRows = FALSE
  NoUrl = NoUrl
  abs = abs
  absHtml = absHtml
  summary = summary
  article = article
  d1 = d1
  d2 = d2
  Searcher = {w1, w2}
  Page = {abs, absHtml, summary, article}
  Paper = {d1, d2}
  HtmlOf <- MCHtmlOf
  Rank <- MCRank
  LeadsTo <- MCLeadsTo
  Names <- MCNames
  Cites <- MCCites
  MaxPages = 2
  MaxPapers = 1
  MaxNested = 1
  MaxRuns = 2
  css = css
  sheet = sheet
  img = img
  PageItself = PageItself
  Resource = {css, sheet, img}
  SheetUrl = {css, sheet}
  RefersTo <- MCRefersTo
  MaxSaved = 3
  MaxTotal = 2
  MaxOne = 1
  MaxDepth = 1
SYMMETRY MCSymmetry
INVARIANTS DrainTypesOK Delivered OneCopyPerSource PoolWithinBounds
           SnapshotWhole FoundIsWhole
PROPERTIES HtmlKept
CHECK_DEADLOCK FALSE
