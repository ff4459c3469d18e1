CONSTANTS
  m1 = m1
  m2 = m2
  u1 = u1
  Message = {m1, m2}
  User = {u1}
  Text <- PlainOrNew
  Place <- NoPlace
  None = None
  MaxDelivery = 2
  SeenMax = 1
  Faults <- EveryFault
SYMMETRY Symmetry
SPECIFICATION Spec
INVARIANTS TypeOK SettledIsAnswered ToldBeforeRecorded ResumeSound MarkerHonoured
