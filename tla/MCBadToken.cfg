CONSTANTS
  r1 = r1
  r2 = r2
  Requests = {r1, r2}
  Users <- MCUsers
  KeyOf <- MCKeyOf
  DocOf <- MCDocOf
  Worlds <- MCWorlds
  InputsOf <- MCInputsOf
  JwksVersions <- MCJwksVersions
  Faults = {}
CHECK_DEADLOCK FALSE
SPECIFICATION Spec
INVARIANT
  MalformedTokenIs401
