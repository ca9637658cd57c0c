\* Two sessions at once that only type, hang up, crash and exit.
SPECIFICATION FairSpec
CONSTANTS
  NumClients = 2
  MaxConnections = 1
  MaxEvents = 0
  Typing = {"keys"}
PROPERTIES HangUpNoticed InputReachesSession ExitDisconnects KilledSessionsEnd
