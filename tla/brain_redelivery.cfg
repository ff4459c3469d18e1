CONSTANTS
  m1 = m1
  m2 = m2
  m3 = m3
  u1 = u1
  Message = {m1, m2, m3}
  User = {u1}
  Text <- PlainOrNew
  Place <- NoPlace
  None = None
  MaxDelivery = 2
  SeenMax = 3
  Faults <- Redeliveries
SYMMETRY Symmetry
SPECIFICATION Spec
INVARIANTS SentOnce
