SPECIFICATION Spec
CONSTANTS
  Parties = {p1, p2}
  NoParty = NoParty
  Rooms = {r1, r2}
  NoRoom = NoRoom
  Calls = {c1, c2}
  OneCallAtATime = FALSE
  Company = FALSE
  Buttons = {"leave", "voice", "sign out"}
SYMMETRY Symmetry
INVARIANTS
  NeverStuckBusy
