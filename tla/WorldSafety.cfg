SPECIFICATION Spec
CONSTANTS
  d1 = d1
  p1 = p1
  p2 = p2
  r1 = r1
  r2 = r2
  r3 = r3
  NoRun = NoRun
  None = None
  Ids <- MCIds
  Procs <- MCProcs2
  Runs <- MCRuns3
  MaxTelegram = 0
  MaxErrors = 1
  MaxCrashes = 0
SYMMETRY RunProcSymmetry
INVARIANTS
  OneWriter
  AttestationUsedOnce
  AcceptedIsPublished
  ResolvedIsDone
PROPERTIES
  CanonOnlyApproved
