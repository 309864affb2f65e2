SPECIFICATION UpstreamSpec
CONSTANTS
  MaxIter = 1
  MaxCalls = 2
  MaxSteps = 2
  MaxMessages = 2
  MaxTurns = 2
  MaxPlan = 2
  MaxRuns = 2
  Sessions = {s1}
  Values = {v1, v2}
  Placed = {v2}
  Bars = {b1}
  None = None
  MaxWrites = 2
  MaxFetches = 2
  Projs = {pj1, pj2}
  Talks = {a}
  ProjReqs = {q1, q2}
  Texts = {"x", "y"}
  NoProj = NoProj
  MaxEdits = 3
  Docs = {d1, up}
  UploadDoc = up
  MaxIds = 2
  MaxBody = 2
  MaxChats = 1
  ChatDocs = {up}
  Handlers = {h1, h2}
  Sids = {t1, t2}
  MaxChanges = 4
  MailReqs = {e1, e2}
  Life = 2
  MaxTries = 3
  MaxCodes = 2
  Official = {"web"}
  Personal = {"p1", "p2"}
  OtherName = "web"
  DefaultName = "own"
  Requests = {r1, r2}
  Runner = r1
  MaxToggles = 1
  MaxSyncs = 2
  McpServers <- TheServers
  McpNames <- TheNames
  Clients = {c1, c2}
  MaxRequests = 2
  Minutes = {0, 1, 2}
  MaxSets = 4
  FileReqs = {q1, q2}
  Paths = {f1, f2}
  MaxLen = 6
  Sources = {src1, src2}
  Items = {i1, i2}
  Keys = {k1, k2}
  MaxJobs = 3
  MaxUpdates = 1
  Objects = {o1, o2}
  IdemKeys = {k1, k2}
  MaxLog = 3
  MaxClock = 2
  ReplayLimit = 1
  GraphLimit = 2
  MaxDepth = 2
  NoRecord = NoRecord
  WorkerAgents = {w1}
  TelJobs = {1, 2}
  Ttl = 1
  LeaseTicks = 1
  MaxGone = 2
INVARIANTS
  UpstreamTypeOK
  FlowPaired
  FlowReplies
  StepsHonest
  SessionsKept
  SandboxKept
  FilesKept
  AccountsKept
  SwarmKept
  
  ToolsFound
\* Bounded histories end, and the sandbox may be shut down.
CHECK_DEADLOCK FALSE
