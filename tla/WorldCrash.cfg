SPECIFICATION Spec
CONSTANTS
  d1 = d1
  p1 = p1
  p2 = p2
  r1 = r1
  r2 = r2
  r3 = r3
  NoRun = NoRun
  None = None
  Ids <- MCIds
  Procs <- MCProcs1
  Runs <- MCRuns3
  MaxTelegram = 1
  MaxErrors = 1
  MaxCrashes = 1
SYMMETRY RunSymmetry
INVARIANTS
  TypeOK
  WorldInv
PROPERTIES
  WorldImplementsCanon
