SPECIFICATION Spec
SYMMETRY HashSymmetry
CONSTANTS
  NoFile = NoFile
  NoHash = NoHash
  NoRow = NoRow
  Files = {f1, f2}
  Hashes = {h1, h2}
  Songs = {s1, s2}
  WaitingFiles = {f2}
  MaxRestarts = 2
  MaxChanges = 1
  NumberOf <- Numbers
  Absent = Absent
INVARIANTS
  TablesAgree
  MemoryIsStored
CHECK_DEADLOCK FALSE
