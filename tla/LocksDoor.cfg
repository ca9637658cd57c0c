\* One interrupted wait at a door with one node.
SPECIFICATION Spec
CONSTANTS
  Session = {s1, s2}
  None = None
  NumNodes = 2
  DoorNodes = 1
  MaxInterrupts = 1
INVARIANTS DoorExclusive
