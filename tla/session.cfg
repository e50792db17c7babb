SPECIFICATION FairSpec
CONSTANTS
  SignIns = {"login"}
  MaxSessions = 2
  MaxChanges = 1
  MaxRequests = 2
  MaxFaults = 1
INVARIANTS
  TypeOK
  SessionHasCookie
  HomeIsOwn
  FormFollows
PROPERTIES
  EditKept
  SessionConverges
