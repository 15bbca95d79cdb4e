SPECIFICATION TurnsSpec
CONSTANTS
  Builders = {b1, b2}
  MaxSource = 1
INVARIANT TypeOK
INVARIANT CapturesFromTheRightBuild
PROPERTY KeepsContract
