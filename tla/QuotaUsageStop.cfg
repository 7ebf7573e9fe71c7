SPECIFICATION Spec
CONSTANTS
  Adders = {a1}
  Quotas = {1}
  Flusher = Flusher
  Resetter = Resetter
  Admin = Admin
  Restorer = Restorer
  Nobody = Nobody
  MaxPeriod = 2
  MaxBytes = 2
  MaxPeer = 1
  MaxObjects = 2
  MaxOps = 1
  MaxRestores = 1
  MaxFails = 1
  MaxStops = 1
INVARIANTS
  Conservation
  PendingIsDirty
  
  NoOvercount
CONSTRAINT RestoreOrStop
