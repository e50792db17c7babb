SPECIFICATION FairSpec
CONSTANTS
  Users = {u1}
  NoUser = NoUser
  Parties = {p1, p2}
  NoParty = NoParty
  Requests = {r1}
  Sockets = {s1, s2}
  SerialRequests = TRUE
  VoiceLimit = 1
  MaxFaults = 0
  MaxRestarts = 1
INVARIANTS
  SocketCountExact
PROPERTIES
  GoneUserLeaves
