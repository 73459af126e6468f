\* Each component comes to rest when its codes are used or its bounds reached.
SPECIFICATION Spec
CHECK_DEADLOCK FALSE
CONSTANTS
  None = None
  r1 = r1  r2 = r2
  s1 = s1  s2 = s2  s3 = s3
  c1 = c1  c2 = c2  c3 = c3
  k1 = k1  k2 = k2  k3 = k3
SYMMETRY Symmetry
INVARIANTS
  SessionsAreCurrent
  SecretsAreUsedOnce
  ChangesAreProved
PROPERTY
  RevokedStaysRevoked
