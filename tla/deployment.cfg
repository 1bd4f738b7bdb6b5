SPECIFICATION DeploymentSpec
CONSTANTS
  Jobs = {j1, j2}
  Files = {1, 2}
  OutboxFile = 1
  SessionFile = 2
  AppRole = "all"
  MaxIncidents = 2
INVARIANTS
  DeploymentTypeOK
  MigrationsOrderly
  ServedByOpenPool
PROPERTIES
  EndsWhenTold
  ComesUp
