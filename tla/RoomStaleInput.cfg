SPECIFICATION Spec
CONSTANTS
  admin = admin
  player = player
  key = key
  j1 = j1
  j2 = j2
  w1 = w1
  NoUser = NoUser
  NoKey = NoKey
  NoJob = NoJob
  Users <- MCUsers
  Admins <- MCAdmins
  Keys <- MCKeys
  JobIds <- MCJobs2
  Workers <- MCWorkers1
  SetStatuses <- MCFewStatuses
  ImportSizes <- MCImportSizes
  MaxTurn = 3
  MaxHolds = 0
  MaxFaults = 0
INVARIANTS
  StaleInputNeverCommitted
