\* Two sessions at once, one event between them besides their exits.
SPECIFICATION Spec
CONSTANTS
  NumClients = 2
  MaxConnections = 1
  MaxEvents = 1
  Typing = {"keys", "naws"}
INVARIANTS TypeOK PolledSocketsOpen ActiveSessionsPolled KilledSessionsTold
PROPERTIES NoRevival
