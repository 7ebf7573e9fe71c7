SPECIFICATION Spec
CONSTANTS
  Adders = {a1}
  Quotas = {1}
  Flusher = Flusher
  Resetter = Resetter
  Admin = Admin
  Restorer = Restorer
  Nobody = Nobody
  MaxPeriod = 1
  MaxBytes = 1
  MaxPeer = 0
  MaxObjects = 1
  MaxOps = 0
  MaxRestores = 0
  MaxFails = 0
  MaxStops = 1
INVARIANT CloseFlushes
