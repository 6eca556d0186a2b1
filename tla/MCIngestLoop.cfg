SPECIFICATION IngestSpec
CONSTANTS
  j1 = j1
  j2 = j2
  j3 = j3
  Job = {j1, j2}
  IdleCycles = {1, 2}
  DrainLimit = 2
  IntakeEvery = 2
INVARIANTS IngestTypeOK CompleteIsQuiet
PROPERTIES RunEnds
