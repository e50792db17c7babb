SPECIFICATION FairSpec
CONSTANTS
  Parties = {p1, p2}
  NoParty = NoParty
  Rooms = {r1, r2}
  NoRoom = NoRoom
  Calls = {c1}
  OneCallAtATime = TRUE
  Company = TRUE
  Buttons = {"join", "leave", "voice", "leave voice", "isolation"}
INVARIANTS
  TypeOK
  OneLiveRoom
  VoiceAsShown
  SettledInParty
  MicrophoneAsShown
PROPERTIES
  VoiceFollowsParty
