SPECIFICATION FairSpec
CONSTANTS
  committed = committed
  misnamed = misnamed
  wrongAbi = wrongAbi
  noNano = noNano
  Fragment = {committed, misnamed, wrongAbi}
  Asks = {committed, misnamed, wrongAbi}
  Resolved <- MCResolved
INVARIANT TypeOK
INVARIANT SeparatelyAsTogether
PROPERTY KeepsContract
PROPERTY CommandsEnd
