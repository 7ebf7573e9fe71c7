SPECIFICATION AdminFairSpec
CONSTANTS
  None = None
  Bad = Bad
  Values = {v1}
  Servers = {s1}
  Inline = None
  FileRun = FileRun
  Poll = Poll
  Listen = Listen
  Requests = {r1}
  Static = Static
  Given = {None}
  Wants = {{}}
  Sources = {FileRun,Poll,Listen}
  MaxEdits = 1
  MaxFaults = 1
INVARIANT TypeOK
PROPERTIES StaysDeleted  CloseReturns
CHECK_DEADLOCK FALSE
