CONSTANTS
  r1 = r1
  r2 = r2
  n1 = n1
  Logins = {r1, r2}
  Namespaces = {n1}
  NamespaceOf <- OneNamespace
  AutoProvision = TRUE
  WithEmail = {r1, r2}
  Timeout = 2
  Faults = {"refused", "lost"}
CHECK_DEADLOCK FALSE
SPECIFICATION FairSpec
INVARIANTS
  AgreementInv
  UnboundRefused
  NotFoundNeedsTimeout
PROPERTIES
  KeepsPromise
  EveryLoginEnds
