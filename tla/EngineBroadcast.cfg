\* Three sessions: one exits, one broadcasts, one listens.
SPECIFICATION LoggedInSpec
CONSTANTS
  NumClients = 3
  MaxConnections = 2
  MaxEvents = 1
  Typing = {"keys"}
PROPERTIES BroadcastReachesAll
