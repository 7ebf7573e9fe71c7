SPECIFICATION Spec
CONSTANTS
  Adders = {a1, a2}
  Quotas = {1}
  Flusher = Flusher
  Resetter = Resetter
  Admin = Admin
  Restorer = Restorer
  Nobody = Nobody
  MaxPeriod = 2
  MaxBytes = 2
  MaxPeer = 0
  MaxObjects = 2
  MaxOps = 1
  MaxRestores = 0
  MaxFails = 1
  MaxStops = 0
SYMMETRY AdderSymmetry
INVARIANTS
  TypeOK
  Conservation
  PendingIsDirty
  RowsOwned
  
