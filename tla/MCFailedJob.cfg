CONSTANTS
  b1 = b1
  b2 = b2
  c1 = c1
  c2 = c2
  alice = alice
  bob = bob
  Faults = {}
  Builds = {b1}
  Users = {alice}
  Owner <- OwnerAlice
  RandomParts = {p1}
  NamedSecrets = {}
  DefaultSecret = DefaultSecret
  BuildkitdConf = BuildkitdConf
  Cleanups = {c1}
  Impatient = {}
  Workers = 2
  Timeout = 1
  TomlShipped = TRUE
CHECK_DEADLOCK FALSE
SPECIFICATION FairSpec
PROPERTY OldJobsAreDeleted
