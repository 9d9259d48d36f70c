CONSTANTS
  Dest = {d1, d2}
  AgentPid = {p1}
  Domain = {d1}
  Known = {}
  Defaults = {d1}
  Samples <- MCSamples
  Term = 1
  Lifetime = 1
  MaxDecisions = 1
  MaxOverrides = 2
  MaxOpen = 1
  RequiredDays = 1
  DayWidth = 16
  MaxDays = 2
  RequiredSamples = 2
  MaxAnomalies = 1
  Agent = {a1, a2, a3, a4}
  Endpoint = {e1}
  Snapshots <- MCSnapshots
  Hours = {0, 23}
  Pid = {p1, p2}
  TargetPid = {p1, p2}
  AgentName = {n1}
  MaxTracked = 3
  Unit = {u1, u2}
  MaxActions = 3
  Message = {m1, m2, m3}
  Channel = {slack}
  NoReply = {}
  Deaf = {}
  Capacity = 2
  MinInterval = 2
  MaxRetries = 3
  MaxQueue = 1
  Slot = {s1, s2}
  Key = {k1}
  Ttl = 2
  MaxDelay = 1
  MaxCount = 2
  Call = {c1, c2}
  Target = {t1}
  FreshList = {t1}
  MaxEvents = 2
  MaxAnnounced = 1
  MaxIds = 2
  Readings <- MCReadings
  Window = 3
  GrowthPct = 20
  GrowthLimit = 2
  CpuPct = 80
  SustainedSecs = 60
  FdPct = 80
  ThreadPct = 200
  MaxThreads = 3
  RssNoise = 1
  HangAfter = 1
SPECIFICATION Spec
INVARIANTS
  TypeOK
  RecordedOverridesDecide
  SilentWhileLearning
  EstablishedAfterTraining
  ProfileWasSeen
  EscalationsAreReported
  StoppedIsTracked
  QuarantinedStaysDown
  NoRepeatWithinCapacity
  TriedUntilAnswered
  HitsAreRecentSuccesses
  ListsFollowTheCalls
  KnownAreWatched
  LeakIsSteadyGrowth
CHECK_DEADLOCK FALSE
