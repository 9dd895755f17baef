SPECIFICATION FairSpec
CONSTANTS
  Syncers = {monitor, setup, admin}
  Missing = Missing
  Empty = Empty
  MaxFailures = 2
  MaxImages = 2
INVARIANT SyncedRules
PROPERTIES NeverCutOff InForceStays RulesConverge
