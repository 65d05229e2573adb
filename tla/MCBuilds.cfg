\* Two builds of one user, every call may be refused or lose its answer.
CONSTANTS
  b1 = b1
  b2 = b2
  c1 = c1
  c2 = c2
  alice = alice
  bob = bob
  Faults = {"refused", "lost"}
  Builds = {b1, b2}
  Users = {alice}
  Owner <- OwnerAlice
  RandomParts = {p1}
  NamedSecrets = {}
  DefaultSecret = DefaultSecret
  BuildkitdConf = BuildkitdConf
  Cleanups = {}
  Impatient = {}
  Workers = 2
  Timeout = 1
  TomlShipped = TRUE
SPECIFICATION Spec
SYMMETRY SameBuilds
CHECK_DEADLOCK FALSE
INVARIANTS
  TypeOK
  ContextKeptUntilCopied
  SafetyInv
  LeftoverNeedsCause
  ConfBeforeJob
PROPERTIES
  SecretsDeletedByCreator
  KeepsPromise
