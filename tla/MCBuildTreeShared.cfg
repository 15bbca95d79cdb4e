SPECIFICATION Spec
CONSTANTS
  Builders = {b1, b2}
  MaxSource = 0
PROPERTY SuccessMeansMipsElf
