SPECIFICATION FairSpec
CONSTANTS
  good = good
  short = short
  alien = alien
  k1 = k1
  admin = admin
  Executions = {x1, x2}
  Objects = {o1}
  Tokens = {good, short, alien}
  Roles = {admin}
  Kids = {k1}
  Kid <- MCKid
  Expiry <- MCExpiry
  RolesOf <- MCRolesOf
  Genuine = {good, short, alien}
  Issued = {good, short, alien}
  Addressed <- MCAddressed
  Demands <- MCDemands
  JwksCacheTtl = 1
  MaxTime = 2
  Null = Null
INVARIANTS
  RunsOnEvidence
  RunsAuthorized
PROPERTY
  ExecutionsEnd
\* Executions are finite.
CHECK_DEADLOCK FALSE
