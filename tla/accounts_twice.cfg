SPECIFICATION Spec
CONSTANTS
  Ids = {u1, u2, u3}
  NoId = NoId
  Names = {n1, n2, n3}
  NoName = NoName
  Invites = {i1}
  NoInvite = NoInvite
  Jars = {j1}
  NoJar = NoJar
  Tasks = {t1, t2}
  MaxFaults = 0
SYMMETRY Symmetry
INVARIANTS
  SingleUse
