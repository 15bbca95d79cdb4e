SPECIFICATION Spec
CONSTANTS
  ka = ka
  k1 = k1
  k2 = k2
  NumPages = 3
  BootPages = 1
  KatapultBuilds = {ka}
  KlipperBuilds = {k1, k2}
  Size <- MCSize
  PageData <- MCPageData
  Data <- MCData
  BackupFiles = {"stock"}
  DefaultBackup = "stock"
  Hosts = {"posix"}
  Faults = FALSE
  Noise = FALSE
PROPERTY StockBackupKept
