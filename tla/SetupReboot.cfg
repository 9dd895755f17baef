SPECIFICATION FairSpec
CONSTANTS
  dbSecret = dbSecret
  mailSecret = mailSecret
  Keys = {dbSecret, mailSecret}
  Containers <- MCContainers
  ConfigFiles <- MCConfigFiles
  KeysOf <- MCKeysOf
  ReadsOf <- MCReadsOf
  Needs <- MCNeeds
  Position <- MCPosition
  BootEnabled = {"stalwart"}
  Torn = Torn
  MaxPrompts = 2
  MaxRefused = 0
  MaxFaults = 0
  MaxReboots = 1
  MaxFails = 0
PROPERTY StackRuns
