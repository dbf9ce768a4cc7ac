SPECIFICATION MCSpec
CONSTANTS
  Null = Null
  Databases <- MCDatabases
  MaxDays = 2
  MaxEnds = 2
  NoFile = NoFile
  NoHash = NoHash
  NoRow = NoRow
  Files = {f1, f2}
  Hashes = {h}
  Songs = {s1, s2}
  WaitingFiles = {f2}
  MaxRestarts = 1
  MaxChanges = 1
INVARIANTS
  UpgradeKeeps
  BackupsComplete
PROPERTIES
  EveryUpgradeCompletes
  EveryNewFileSettles
CHECK_DEADLOCK FALSE
