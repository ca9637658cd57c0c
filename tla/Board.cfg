SPECIFICATION Spec
CONSTANTS
  Session = {s1, s2}
  User = {"user"}
  Tag = {"hub"}
  ServerTag = {"hub"}
  NetworkTag = {}
  Posts = {{"public", "hub"}, {}}
  MaxMsgs = 3
  MaxCuts = 1
  Ip = {"black", "white", "other"}
  Blacklist = {"black"}
  Whitelist = {"white"}
  MaxAttempts = 1
  Window = 2
  BanLength = 2
  BanIncrement = 1
  MaxTime = 7
  MaxTries = 5
  MaxKeys = 3
  MaxResizes = 1
  MaxGosubs = 1
  MaxWrites = 3
  MaxBuffers = 4
  ListRows = 4
  ListSizes = {0, 1, 2, 3, 4, 5, 10}
  PageRows = 3
  PageLines = 5
  Columns = 8
  ScrollAmt = 2
  MarginAmt = 0
  MaxLength = 11
  Voter = {"user", "sysop"}
  Pollster = {"sysop"}
  MaxQuestions = 2
  MaxAnswers = 2
  MaxOps = 4
  Shared = {1, 3}
  Uploads = {2}
  BySysop = TRUE
  ByAnonymous = FALSE
  Handle = {"alice"}
  Group = {"sysop"}
  SysopGroup = "sysop"
  MaxLogins = 1
  MaxPasskeys = 1
  Reader = {"reader", "sysop"}
  Moderator = {"sysop"}
  ReaderTag = {"public"}
  ReaderPosts = {{"public"}}
  MaxPosts = 2
  MaxReads = 2
  Rejecting = {}
  MaxAsks = 1
  MaxCalls = 2
  MaxTyped = 1
  MAX_HISTORY = 2
  Slack = 1
  MaxOneliners = 6
  MaxVisits = 2
SYMMETRY Symmetry
\* Scripts end, and so do doors and the keys that are typed.
CHECK_DEADLOCK FALSE
INVARIANTS
  TypeOK
  MsgRecordsAgree
  AccGroupsAgree
  MarkedWereOffered
  TallyIsVotes
  RateBounded
  ScreenIsTrue
  CallsHaveTwoEnds
  HistoryBounded
  DoorReadsInOrder
  SentInOrder
  FlagsAgree
PROPERTIES
  MsgNumbersUnique
  WordsKept
