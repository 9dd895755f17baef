SPECIFICATION FairSpec
CONSTANTS
  NoName = NoName
  ssd = ssd
  hdd1 = hdd1
  hdd2 = hdd2
  usb = usb
  usbPart = usbPart
  bmc = bmc
  Machine <- MCMachine
  BootDevice = usbPart
  Consoles = {tty1, serial}
  NoConsole = NoConsole
  GoodNames = {admin}
  BadNames = {bad}
  NoUser = NoUser
  MaxTrouble = 2
  MaxMkfs = 3
INVARIANTS TypeOK OneInstaller Stage1Complete BulkMountsAtBoot BootMediumUntouched RetryNotBusy
PROPERTIES MarkedTargetFrozen InstallCompletes
