SPECIFICATION FairSpec
CONSTANTS
  Kinds = {"leave", "message", "invite"}
  OwnKinds = {"join", "message", "profile", "invite"}
  Writers = {w1}
  Capacity = 1
  MaxWrites = 2
  MaxDrops = 1
  MaxFaults = 1
INVARIANTS
  TypeOK
PROPERTIES
  OwnMovesStick
  ViewsAdvance
  HomeConverges
  
CHECK_DEADLOCK FALSE
