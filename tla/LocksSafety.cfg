\* Three sessions, as many numbers, a door with one node.
SPECIFICATION Spec
CONSTANTS
  Session = {s1, s2, s3}
  None = None
  NumNodes = 3
  DoorNodes = 1
  MaxInterrupts = 1
INVARIANTS TypeOK UniqueNodes ReleasesOwnNode NodesSuffice DoorExclusiveUninterrupted
PROPERTIES ImplementsLockService
SYMMETRY Symmetry
