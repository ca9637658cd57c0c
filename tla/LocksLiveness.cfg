\* Two sessions, a single number for both, and a door with two nodes.
SPECIFICATION FairSpec
CONSTANTS
  Session = {s1, s2}
  None = None
  NumNodes = 1
  DoorNodes = 2
  MaxInterrupts = 1
PROPERTIES NodeWaitEnds DoorWaitEnds
