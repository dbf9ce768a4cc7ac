SPECIFICATION StoreSpec
CONSTANTS
  InitialItems <- MCInitialItems
  InitialContent <- MCInitialContent
  MaxTemplates = 3
  MaxFilters = 3
  MaxItems = 2
  MaxEdits = 3
  Contents <- MCContents
  Noop = "noop"
  NoLimit = NoLimit
  Unreadable = Unreadable
INVARIANTS
  StoredAsListed
PROPERTIES
  ImplementsShelf
