SPECIFICATION Spec
CONSTANTS
  MaxRequests = 2
  MaxGosubs = 1
  NumItems = 1
  Script = {"matrix", "main"}
  Matrix = "matrix"
  Reads = {{"input", "refresh"}, {"page"}, {"global"}}
  MaxEvents = 2
  MaxCalls = 2
  GlobalMax = 1
  Hub = "hub"
  Member = {"member"}
  Batch = 2
  Before = 2
  MaxPosts = 4
  MaxFaults = 1
  Spoken = {"SGA", "TTYPE", "ECHO"}
  MaxWhims = 1
  MaxWait = 2
  MaxAuths = 2
  SftpEnabled = TRUE
INVARIANTS
  TypeOK
  DbOwnAnswer
  NetThreadsFaithful
  NetExactlyOnce
  TelnetAgreement
PROPERTIES
  DbAnswered
  NetDelivered
  ScriptsNest
  HandshakesSettle
