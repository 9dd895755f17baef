SPECIFICATION FairSpec
CONSTANTS
  dbSecret = dbSecret
  mailSecret = mailSecret
  Keys = {dbSecret, mailSecret}
  Containers <- MCContainers
  ConfigFiles <- MCConfigFiles
  KeysOf <- MCKeysOf
  ReadsOf <- MCReadsOf
  Needs <- MCNeeds
  Position <- MCPosition
  BootEnabled = {"stalwart"}
  Torn = Torn
  MaxPrompts = 4
  MaxRefused = 1
  MaxFaults = 2
  MaxReboots = 1
  MaxFails = 1
INVARIANTS TypeOK ConfigAgrees Stage2Complete GrantUnlessCut
PROPERTIES PromptedOnce OnlyConfigBlocks StackComesUp
