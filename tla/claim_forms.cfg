CONSTANTS
  m1 = m1
  m2 = m2
  m3 = m3
  m4 = m4
  u1 = u1
  Message = {m1, m2, m3, m4}
  User = {u1}
  Text <- PlainOrNew
  Place <- NoPlace
  None = None
  MaxDelivery = 2
  SeenMax = 2
  Faults <- NoFaults
SYMMETRY Symmetry
SPECIFICATION Spec
INVARIANTS FormsAreOwn
