SPECIFICATION Spec
CONSTANTS
  a1 = a1
  a2 = a2
  a6 = a6
  Syncers = {s1, s2}
  Subdomains <- MCSubdomains
  V4 = {a1}
  V6 = {}
  AlertEmail = TRUE
  InitialZones <- MCZones
  PageSize = 8
  RefuseIdentical = TRUE
  MaxFailures = 2
  MaxMoves = 0
INVARIANTS TypeOK SyncPublished
PROPERTIES ForeignKept RightStays UpsertsZone
