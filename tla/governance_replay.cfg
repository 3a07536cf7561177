CONSTANTS
  op = op  both = both  rev = rev  c1 = c1  c2 = c2  x1 = x1  None = None  Absent = Absent
  s1 = s1  s2 = s2  q1 = q1  q2 = q2
  w1 = w1  production = production  preview = preview  p1 = p1  a1 = a1  a2 = a2
  Users = {op, both, rev}
  Operators = {op, both}
  Reviewers = {both, rev}
  Claims = {c1, c2}
  Sections = {x1}
  Extractions = {3}
  Storages = {1}
  Eligibilities = {2, 3}
  Levels = {1, 2}
  ChainLimit = 2
  MaxVersion = 2
  MaxRequests = 2
  MaxDecided = 1
  Accounts = {op, both}
  RoleNames = {"admin", "operator"}
  Admin = "admin"
  Sessions = {s1, s2}
  Requests = {q1, q2}
  Workers = {w1}
  MaxCorpus = 2
  Scopes = {production, preview}
  Default = production
  Production = production
  Processes = {p1}
  Artifacts = {a1, a2}
  ArtifactsOf <- Arts
  Administrators = {both}
  Batch = 1
  MaxRuns = 2
  MaxChain = 4
  b1 = b1  b2 = b2  b3 = b3
  Stagers = {1, 2}
  Batches = {b1, b2, b3}
  DiscoveryOf <- RowsFound
  ContentsOf <- ContentsFetched
  KnownOf <- KnownKeys
  Clock = {1, 2}
  Senders = {op}
  MaxCommands = 3
  LockedSet <- LockedCandidates
  RecordOf <- VerifiedRecords
  Exports = {"basic", "fallback", "partial"}
  ExportOf <- SavedExports
  Processors = {1, 2}
  MaxBundles = 2
  l1 = l1  l2 = l2  au1 = au1  au2 = au2  au3 = au3
  old = old  k1 = k1  k2 = k2  x2 = x2  x3 = x3  Torn = Torn
  Ledgers = {l1, l2}
  LaneOf <- Lanes
  EntriesOf <- LedgerEntries
  Audits = {au1, au2, au3}
  AuditOf <- AuditsSay
  OldRuns = {old}
  OldEntries <- OlderEntries
  Candidates = {k1, k2}
  ProposalsFor <- ProposalsMade
  Mentioned <- NoMention
  CardOf <- CardsSay
  Constructs = {"memory"}
  DirectRuns <- UsesOfRunner
  PreparedRuns <- UsesOfPreparation
  Pool = 2
  MaxJobs = 2
  RunNames = {"general", "remedy", "assembly"}
  Workspaces <- Checkouts
  Chinese = {"z1", "z2"}
  HandMade = "z3"
  EarlierRuns <- RunsLeft
  CommandLines <- LinesGiven
  MaxRunCommands = 2
SPECIFICATION Spec
INVARIANT StoredResultsReplay
CHECK_DEADLOCK FALSE
