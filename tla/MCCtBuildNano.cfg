SPECIFICATION Spec
CONSTANTS
  committed = committed
  misnamed = misnamed
  wrongAbi = wrongAbi
  noNano = noNano
  Fragment = {committed, misnamed, wrongAbi, noNano}
  Asks = {committed, misnamed, wrongAbi, noNano}
  Resolved <- MCResolved
INVARIANT SuccessIsUsable
