SPECIFICATION AdminSpec
CONSTANTS
  None = None
  Bad = Bad
  Values = {v1}
  Servers = {s1, s2}
  Inline = None
  FileRun = FileRun
  Poll = Poll
  Listen = Listen
  Sources = {}
  Requests = {r1, r2}
  Static = Static
  Given = {None, Static}
  Wants = {{"quota"}, {"quota", "speed", "sched"}}
  MaxEdits = 0
  MaxFaults = 1
 
PROPERTIES CreateAllOrNothing DeleteAllOrNothing
CHECK_DEADLOCK FALSE
