SPECIFICATION SharedSpec
CONSTANTS
  f1 = f1
  f2 = f2
  s1 = s1
  h1 = h1
  h2 = h2
  Null = Null
  FileJob = {f1, f2}
  Signature = {s1}
  Holder = {h1, h2}
  FileBudgets = {2}
  FileLease = 1
  MaxClock = 2
  MaxClaims = 4
  MaxDeferrals = 1
  e1 = e1
  e2 = e2
  Entity = {e1, e2}
  MinKeep = 1
  Retention = 1
  BatchSize = 2
  MaxBatches = 2
  Pause = 2
  MaxEvents = 4
  MaxDays = 3
  w1 = w1
  w2 = w2
  w3 = w3
  v1 = v1
  v2 = v2
  u1 = u1
  u2 = u2
  original = original
  saved = saved
  Writer = {w1, w2, w3}
  Earlier <- MCEarlier
  Left = Left
  NoTree = NoTree
  MaxCrashes = 1
  MaxFaults = 2
  Caller = {u1, u2}
  Saved = {saved}
  Original = original
  NoFile = NoFile
  Content <- MCContent
  MaxDeaths = 1
  b1 = b1
  b2 = b2
  html = html
  image = image
  style = style
  Embedder = {b1, b2}
  Doc = html
  Asset = {image, style}
  Sheet = {style}
  DocRefs <- MCDocRefs
  SheetRefs <- MCSheetRefs
  MaxAssets = 2
  Absent = Absent
  Nobody = Nobody
  MaxWrites = 2
  MaxSpoils = 1
SYMMETRY MCSymmetry
INVARIANTS SharedTypeOK LeasesWithinBudget
           ResultIsNewest NeverLost  SupersededStaysGone
           SentIsWhole
PROPERTIES FencedReports NewestEventsKept FileKept
CHECK_DEADLOCK FALSE
