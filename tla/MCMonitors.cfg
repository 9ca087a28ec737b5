CONSTANTS
  None = None
  Main = "main"
  Remotes <- MCRemotes
  Files <- MCFiles
  Place <- MCPlace
  Windows <- MCWindows
  Length <- MCLength
  TokenLife = 2
  Skew = 1
  BackoffBase = 1
  BackoffCap = 4
  MergeMaxAge = 2
  TickSeconds = 120
  Jitters <- MCJitters
  Sids <- MCSids
  Questions <- MCQuestions
  AbandonCap = 1
  MaxElapsed = 2
  Hour = 3
  WorkSessionGap = 6
  ActiveGapCap = 2
  DayMinutes = 12
  NightMinutes = 4
  Families <- MCFamilies
  Thresholds <- MCThresholds
  Records <- MCRecords
  Overlapping <- MCOverlapping
  Lasting = 1
  RowPool <- MCRowPool
  PeerOrder <- MCPeerOrder
  Slug <- MCSlug
  Chats <- MCChats
  ChatUser <- MCChatUser
  Tools <- MCTools
  Transcripts = {"a", "b", "c"}
  Directories = {"p", "q"}
  DirectoryOf <- MCDirectoryOf
  Accounts = {"home", "work"}
  Clients = {"desk", "laptop"}
  StaleAfter = 1
  DropAfter = 2
  PostAge = 1
  Horizon = 6
  Scenes <- MCScenes

SPECIFICATION MonitorsSpec

INVARIANTS QuestionIsCapped TrophiesAreEarned TurnIsSeen TrafficIsReal StampIsSafe FeedIsHonest KeepsCollecting
PROPERTIES LimitsAreHonest DeadTokenRests PeersKeepNumbers

\* The clock stops at the horizon.
CHECK_DEADLOCK FALSE
