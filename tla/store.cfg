CONSTANTS
  u1 = u1
  u2 = u2
  k1 = k1
  k2 = k2
  o1 = o1
  o2 = o2
  o3 = o3
  o4 = o4
  new = new
  old = old
  User = {u1, u2}
  Key = {k1, k2}
  RowKey <- Keys
  Data = {new, old}
  Blank = new
  None = None
  Object = {o1, o2, o3, o4}
  TTL = 2
  Horizon = 5
SYMMETRY Symmetry
SPECIFICATION Spec
INVARIANTS TypeOK
PROPERTIES KeepsRows
