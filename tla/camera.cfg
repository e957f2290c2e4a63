SPECIFICATION Spec
CONSTANTS
  c1 = c1  c2 = c2
  k1 = k1  k2 = k2
  Clients = {c1, c2}
  Cameras = {k1}
  MaxResends = 1
SYMMETRY Symmetry
INVARIANTS
  ActsOnce
  ToggleFlips
PROPERTY
  ImplementsRemote
