SPECIFICATION FairSpec
CONSTANTS
  None = None
  Zero = Zero
  Gone = Gone
  Configs = {v1, v2}
  MaxEdits = 3
  MaxFaults = 1
PROPERTIES PollHeals 
