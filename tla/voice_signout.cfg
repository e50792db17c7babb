SPECIFICATION Spec
CONSTANTS
  Parties = {p1}
  NoParty = NoParty
  Rooms = {r1, r2}
  NoRoom = NoRoom
  Calls = {c1, c2}
  OneCallAtATime = FALSE
  Company = FALSE
  Buttons = {"voice", "sign out"}
SYMMETRY Symmetry
INVARIANTS
  SignedOutIsSilent
