SPECIFICATION FairSpec
CONSTANTS
  Conns = {c1, c2}
  Source <- MCSource
  Rates = {}
  Schedules <- MCSchedules
  GlobalSchedule <- MCGlobal
  Default = 0
  Groups = {3}
  Day = 2
  PerClient = {TRUE}
  DefaultPerClient = TRUE
  User = User
  Client = Client
  None = None
  Inf = Inf
  Admin = Admin
  Scheduler = Scheduler
  Ticker = Ticker
  Configured = 1
  MaxEvents = 2
INVARIANTS
  TypeOK
  Controlled
 
CHECK_DEADLOCK FALSE
