SPECIFICATION Spec
CONSTANTS
  Users = {u1, u2, u3, u4}
  NoUser = NoUser
  Parties = {p1, p2}
  NoParty = NoParty
  Requests = {r1, r2}
  Sockets = {}
  SerialRequests = TRUE
  VoiceLimit = 1
  MaxFaults = 1
  MaxRestarts = 0
SYMMETRY Symmetry
INVARIANTS
  CapacityBound
PROPERTIES
  ImplementsSeats
