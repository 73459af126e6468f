\* Each component comes to rest when it has decided or its bounds are reached.
SPECIFICATION Spec
CHECK_DEADLOCK FALSE
CONSTANTS
  None = None
  r1 = r1  r2 = r2  r3 = r3
  l1 = l1  l2 = l2  l3 = l3
  k1 = k1  k2 = k2  k3 = k3
SYMMETRY Symmetry
INVARIANTS
  OnlyVerifiedCustomers
  OnlyCurrentAdministrators
  MailsAreCounted
PROPERTY
  StepsAreAllowed
