\* One client whose tty is registered after the engine has killed it.
SPECIFICATION FairSpec
CONSTANTS
  NumClients = 1
  MaxConnections = 0
  MaxEvents = 0
  Typing = {"keys"}
PROPERTIES DeadClientsLoseTheirTty
