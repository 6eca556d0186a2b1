SPECIFICATION OneAreaSpec
CONSTANTS
  j1 = j1
  j2 = j2
  c1 = c1
  c2 = c2
  o1 = o1
  o2 = o2
  k1 = k1
  k2 = k2
  None = None
  Job = {j1}
  Key = {k1}
  Client = {c1, c2}
  Owner = {o1, o2}
  Budgets = {2}
  Lease = 1
  MaxTime = 2
  MaxAttempts = 3
  Hand = {c1, c2}
  Policies = {"emptyFieldsOnly", "allowOverwrite"}
  MaxTries = 2
  MaxSends = 2
  MaxVersions = 3
  MaxDeeds = 1
  t1 = t1
  t2 = t2
  d1 = d1
  d2 = d2
  Process = {c1, c2}
  Text = {t1, t2}
  Missing = Missing
  Skipping = {TRUE, FALSE}
  MaxStarts = 2
  MaxForeign = 1
  Command = {c1, c2}
  Folder = {d1, d2}
  NoFolder = NoFolder
  MaxTroubles = 2
  rg = rg
  ex = ex
  a1 = a1
  b1 = b1
  MaxRequests = 2
  Nobody = Nobody
  NoHost = NoHost
  Family = {rg}
  Outside = {ex}
  PublicAddress = {a1}
  PrivateAddress = {b1}
  arxivOrg = arxivOrg
  publisher = publisher
  Fetcher = {c1, c2}
  Site = {arxivOrg, publisher}
  ArxivSite = {arxivOrg}
  Gap <- MCGap
  OpenAddress = {a1}
  LocalAddress = {b1}
  MaxRedirects = 1
  MaxRetryAfter = 1
  MaxSeconds = 2
SYMMETRY MCSymmetry
INVARIANTS TypesOK RecordedIsDone FolderKept ReachedIsAllowed TrailWithinBudget
PROPERTIES LiveLeaseKept SettledStaysSettled MirrorQuotesServer RequestsSound
CHECK_DEADLOCK FALSE
