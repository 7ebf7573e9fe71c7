SPECIFICATION FairSpec
CONSTANTS
  Conns = {c1}
  Ios = {}
  Admin = Admin
  Flusher = Flusher
  Restorer = Restorer
  Nobody = Nobody
  MaxObjects = 3
  MaxOps = 1
  MaxRestores = 1
PROPERTIES
  EnforcementCompletes
  
