SPECIFICATION Spec
CONSTANTS
  Shells = {s1, s2}
  s1 = s1
  s2 = s2
  MaxImages = 2
  MaxTree = 1
INVARIANT TypeOK
INVARIANT PinCanBePulled
INVARIANT ReleasesFollowThePin
INVARIANT VolumeIsOfOneImage

SYMMETRY MCSymmetry
