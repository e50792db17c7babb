SPECIFICATION FairSpec
CONSTANTS
  Parties = {A, B}
  Texts = {t1}
  PageSize = 1
  MaxLog = 2
  MaxCalls = 2
  MaxEvents = 3
INVARIANTS
  TypeOK
  NoDoubleSend
PROPERTIES
  DraftKept
  OwnMessageShows
CHECK_DEADLOCK FALSE
