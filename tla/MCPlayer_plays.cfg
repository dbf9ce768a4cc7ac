SPECIFICATION MCSpec
CONSTANTS
  a = a
  b = b
  c = c
  NoItem = NoItem
  Items = {a, b, c}
  InitialItems <- MCTwoItems
  FailingTracks = {b}
  LimitedTracks = {a, c}
  Tempos = {1, 2}
  DefaultTempo = 1
  UserOps = {"play", "playPause", "stop", "next", "prev", "jump", "tempo", "edit", "delete", "replace", "quit"}
  MaxItems = 3
  MaxQueue = 2
  Durations = {2, 4}
  Lengths = {0, 3, 5}
  Skips = {0, 1, 3}
  MayFail = TRUE
  MaxSeeks = 2
  Chunk = 2
  MaxOverrun = 2
INVARIANTS
  OnlyFailingUnplayable
  FadeOutFades
  HeardIsCurrent
  SilentWhenStopped
  StartsOneByOne
  AccessesAreRight
PROPERTIES
  WaitsEnd
  ThreadsEnd
CHECK_DEADLOCK FALSE
