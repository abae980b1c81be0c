\* Two goroutines and two things they work on in every component; the other
\* bounds are named where they are declared.
CONSTANTS
  Workers = {w1, w2}
  Items = {i1, i2}
  Frames = {i1, i2}
  Tokens = {i1, i2}
  Callers = {w1, w2}
  MaxCrashes = 1
  RightHash = h1
  Hashes = {h1}
  NoToken = NoToken
  NoFrame = NoFrame
  TTL = 1
  MaxClock = 1
  Ports = {22, 2375}
  DefaultSsh = 22
  MaxChanges = 3
  Pids = {1}
  MaxTicks = 3
  Ids = {1, 2, 3}
  Cap = 2
  FrameWindow = 2
  MaxFrameTime = 6
  MaxGen = 3
  AuthCallers = {w1}
  EventSlots = 1
  MaxLogins = 2
  MaxWrites = 1
  MaxLines = 1
  Word = 4096
  MaxSampleTime = 2
  Nodes = {"/", "lib", "home", "data", "cache", "wheel", "tmp", "log", "junk", "tmux", "socket"}
  Root = "/"
  Above <- HomeTree
  Directories = {"/", "lib", "home", "data", "cache", "tmp", "tmux"}
  Size <- HomeSizes
  Blocklist = {"/", "home", "data", "tmp"}
  CacheDirs = {"cache"}
  TmpRoot = "tmp"
  TmuxDirs = {"tmux"}
  Excluded = {"data"}
  Unremovable = {"junk"}
  LargeSize = 2
  MaxCreations = 1
  AlertKeys = {"disk"}
  RepairWindow = 2
  MaxRepairTime = 3
  MaxRepairEvents = 2
  MaxRepairRestarts = 1
  MaxPushes = 3
  Reviewers = {w1}
  ListLimit = 1
  MaxRevision = 2
  MaxAudit = 1
  NoProject = NoProject
  MaxProjectCrashes = 1
  PageSize = 2
  MaxEntries = 5
  MaxOccurred = 2
  MaxInstalls = 3
SPECIFICATION ServerSpec
SYMMETRY Symmetry
INVARIANTS TypesOK TapsAreSafe TrailMatchesHost ChangesAreAsAsked OwnersReachTheirs ReportsAreTrue PeopleAreTold WorkIsExplained
PROPERTY GuardsHold
CHECK_DEADLOCK FALSE
