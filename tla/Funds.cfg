\* Each component comes to rest when its requests are decided or its bounds reached.
SPECIFICATION Spec
CHECK_DEADLOCK FALSE
CONSTANTS
  None = None
  r1 = r1  r2 = r2  r3 = r3
  s1 = s1  s2 = s2
  t1 = t1  t2 = t2
  k1 = k1  k2 = k2
  d1 = d1  d2 = d2
SYMMETRY Symmetry
INVARIANTS
  FeesAreHeldOnce
  
  AddressesAreOwned
  ControlsHold
PROPERTY
  DecisionsStand
