SPECIFICATION FairSpec
CONSTANTS
  appServices <- MCServices
  portChecks <- MCPorts
  dnsblZones <- MCZones
  smtpPort = "2525"
  AddressIsV4 = TRUE
  AlertEmail = TRUE
  MaxChanges = 2
  MaxFailures = 1
  MaxHangs = 1
INVARIANT MissesNothing
PROPERTY ProblemReported
CHECK_DEADLOCK FALSE
