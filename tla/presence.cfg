SPECIFICATION FairSpec
CONSTANTS
  NoParty = NoParty
  User = u1
  Tabs = {t1, t2}
  MaxPosts = 1
  MaxFaults = 1
INVARIANTS
  TypeOK
  HiddenSaysAway
  NoTimerLeft
PROPERTIES
  ActiveReadsOnline
  AwayNeverLasts
