SPECIFICATION FairSpec
CONSTANTS
  Appliers = {timer, admin}
  Listings <- MCListings
  Newest = Newest
  MaxReleases = 3
  MaxFailures = 1
INVARIANTS TypeOK NilMeansStarted
PROPERTY TargetsConverge
