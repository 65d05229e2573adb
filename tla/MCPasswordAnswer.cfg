CONSTANTS
  u1 = u1
  u2 = u2
  u3 = u3
  p0 = p0
  p1 = p1
  p2 = p2
  Updates = {u1, u2}
  Passwords = {p0, p1, p2}
  InitialPassword = p0
  OldPassword <- Given
  NewPassword <- Wanted
  Edits = {}
  Faults = {}
CHECK_DEADLOCK FALSE
SPECIFICATION Spec
INVARIANT PasswordUpdated
