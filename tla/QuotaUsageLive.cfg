SPECIFICATION FairSpec
CONSTANTS
  Adders = {a1}
  Quotas = {1}
  Flusher = Flusher
  Resetter = Resetter
  Admin = Admin
  Restorer = Restorer
  Nobody = Nobody
  MaxPeriod = 2
  MaxBytes = 3
  MaxPeer = 0
  MaxObjects = 1
  MaxOps = 0
  MaxRestores = 0
  MaxFails = 1
  MaxStops = 0
PROPERTIES  EventuallyEnforced
