SPECIFICATION Spec
CONSTANTS
  Device <- MCDevice
  Platforms <- MCPlatforms
  MaxCommit = 1
  Release <- MCRelease
INVARIANT TypeOK
INVARIANT ManifestMatchesBundle
INVARIANT BundlesAgree
PROPERTY ManifestNamesSources
