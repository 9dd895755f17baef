SPECIFICATION FairSpec
CONSTANTS
  a1 = a1
  a2 = a2
  a6 = a6
  Syncers = {s1}
  Subdomains <- MCSubdomains
  V4 = {a1, a2}
  V6 = {}
  AlertEmail = TRUE
  InitialZones <- MCZones
  PageSize = 8
  RefuseIdentical = FALSE
  MaxFailures = 1
  MaxMoves = 1
PROPERTY ZoneConverges
