SPECIFICATION FilterSpec
CONSTANTS
  Absent = Absent
  NotANumber = NotANumber
  None = None
  HasText <- MCHasText
  Library <- MCLibrary
  Tests <- MCTests
  MaxNodes = 5
  MaxNodeEdits = 2
INVARIANTS
  TreeIntact
  TableLoads
PROPERTIES
  EditsAreLocal
