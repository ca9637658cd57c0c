\* A window is resized as its session has died and another session starts.
SPECIFICATION Spec
CONSTANTS
  NumClients = 2
  MaxConnections = 1
  MaxEvents = 0
  Typing = {"naws"}
INVARIANTS NeverReturns
