CONSTANTS
  b1 = b1
  b2 = b2
  c1 = c1
  c2 = c2
  alice = alice
  bob = bob
  Faults = {"refused", "lost"}
  Builds = {b1, b2}
  Users = {alice, bob}
  Owner <- OwnerBoth
  RandomParts = {p1}
  NamedSecrets = {}
  DefaultSecret = DefaultSecret
  BuildkitdConf = BuildkitdConf
  Cleanups = {c1, c2}
  Impatient = {c2}
  Workers = 2
  Timeout = 1
  TomlShipped = FALSE
CHECK_DEADLOCK FALSE
SPECIFICATION MCSpec
PROPERTIES
  SweepRespectsAge
  AnsweredUnlessHung
INVARIANT CountedOnce
