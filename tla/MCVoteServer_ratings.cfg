SPECIFICATION MCSpec
CONSTANTS
  Libraries = {"home", "away"}
  Known <- MCKnown
  Categories = {"rhythm", "genre"}
  RhythmClarity = "rhythm"
  Values = {1, 2}
  Default = 0
  Skew <- MCSkew
  OptionSets <- MCOptionSets
  MaxDays = 3
  MaxPlays = 2
  MaxVotes = 1
  MaxImports = 2
  Home = "home"
  Pages = {"page"}
  Connections = {1, 2}
  Value = 1
  MaxLosses = 1
  MaxStops = 2
PROPERTIES
  ImportUpdatesRatings
CHECK_DEADLOCK FALSE
