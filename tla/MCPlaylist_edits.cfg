SPECIFICATION MCSpec
CONSTANTS
  a = a
  b = b
  c = c
  d = d
  s1 = s1
  s2 = s2
  s3 = s3
  f = f
  g = g
  template = template
  Items = {a, b, c, d}
  Songs = {s1, s2, s3}
  SongOf <- MCSongOf
  Length <- MCLength
  Limit <- MCLimit
  NoTime = NoTime
  NoItem = NoItem
  Instants = {0}
  MaxItems = 4
  Horizon = 2
  Tracks <- MCTracks
  HashOf <- MCHashOf
  DaysSince <- MCDays
  Unplayed = Unplayed
  Filters = {f, g}
  NoFilter = NoFilter
  NoSong = NoSong
  PicksOf <- MCPicksOf
  NoObject = NoObject
  OfferLists <- MCOffers
  Taggings <- MCTaggings
  File <- MCFile
  MaxRows = 2
INVARIANTS
  RowsStayWhole
  EditsKeepCurrent
  DueTimesAddUp
  PartyGoesOn
PROPERTIES
  HistoryNotRewritten
