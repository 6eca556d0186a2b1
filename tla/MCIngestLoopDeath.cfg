SPECIFICATION IngestSpec
CONSTANTS
  j1 = j1
  j2 = j2
  j3 = j3
  Job = {j1, j2}
  IdleCycles = {2}
  DrainLimit = 1
  IntakeEvery = 2
PROPERTY LapsedIsRecovered
