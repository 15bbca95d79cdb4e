SPECIFICATION RolloutSpec
CONSTANTS
  NumPages = 2
  BootPages = 1
  KatapultBuilds = {"ka"}
  KlipperBuilds = {"kl"}
  Size <- MCSize
  PageData <- MCPageData
  Data <- MCData
  BackupFiles = {"stock"}
  DefaultBackup = "stock"
  Hosts = {"posix"}
  Faults = TRUE
  Noise = FALSE
  HostBuilds <- MCHostBuilds
  Elf <- MCElf
  Loads <- MCLoads
  MaxCalls = 2
INVARIANT RolloutTypeOK
INVARIANT FlashesBehindTheGate
INVARIANT RolloutIsWhole
PROPERTY VerifiesBeforeItStages
PROPERTY VerifyAgreesWithBuild
PROPERTY PointOfNoReturn
PROPERTY FlashesWhatItVerified
