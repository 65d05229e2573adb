CONSTANTS
  r1 = r1
  r2 = r2
  Requests = {r1, r2}
  Users <- MCUsers
  KeyOf <- MCKeyOf
  DocOf <- MCDocOf
  Worlds <- MCWorlds
  InputsOf <- MCInputsOf
  JwksVersions <- MCJwksVersions
  Faults = {"refused"}
CHECK_DEADLOCK FALSE
SPECIFICATION Spec
INVARIANTS
  TypeOK
  NamespaceDerived
  NamespacesApart
  WorkspaceKept
  GoodKeyAccepted
  RevokedKeyRefused
  NoValueLost
PROPERTIES
  GenuineAccepted
  ForbiddenIsGenuine
