SPECIFICATION Spec
CONSTANTS
  Users = {u1, u2}
  NoUser = NoUser
  Parties = {p1, p2}
  NoParty = NoParty
  Requests = {r1, r2}
  Sockets = {s1}
  SerialRequests = TRUE
  VoiceLimit = 1
  MaxFaults = 1
  MaxRestarts = 1
SYMMETRY Symmetry
INVARIANTS
  TypeOK
  OneSeat
  AnnouncedOrOwed
