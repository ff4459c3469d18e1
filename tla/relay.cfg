CONSTANTS
  a1 = a1
  a2 = a2
  a3 = a3
  Attempt = {a1, a2, a3}
  None = None
SPECIFICATION FairSpec
INVARIANTS BrainAgrees AcceptedIsKept
PROPERTIES AcceptedIsHandled
