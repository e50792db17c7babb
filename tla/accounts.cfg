SPECIFICATION Spec
CONSTANTS
  Ids = {u1, u2, u3, u4}
  NoId = NoId
  Names = {n1, n2, n3, n4}
  NoName = NoName
  Invites = {i1}
  NoInvite = NoInvite
  Jars = {j1, j2}
  NoJar = NoJar
  Tasks = {t1, t2}
  MaxFaults = 1
SYMMETRY Symmetry
INVARIANTS
  TypeOK
  UniqueNames
  RedeemedIffAccount
  InviteBound
  OwnerBound
PROPERTIES
  DecisionsStand
