SPECIFICATION Spec
CONSTANTS
  Conns = {c1, c2}
  Ios = {i1}
  Admin = Admin
  Flusher = Flusher
  Restorer = Restorer
  Nobody = Nobody
  MaxObjects = 2
  MaxOps = 2
  MaxRestores = 0
SYMMETRY ConnSymmetry
INVARIANTS
  TypeOK
  NoOrphan
  TripClosesAll
  ActiveConnsBounded
  Inv
