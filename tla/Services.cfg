SPECIFICATION Spec
CONSTANTS
  s1 = s1
  s2 = s2
  p1 = p1
  p2 = p2
  a1 = a1
  a2 = a2
  v1 = v1
  v2 = v2
  t1 = t1
  t2 = t2
  e1 = e1
  e2 = e2
  NoValue = NoValue
  Sessions = {s1, s2}
  MaxRequests = 6
  Rollbacks = {1, 2}
  Assets = {a1, a2}
  Cves = {v1, v2}
  Tenants = {t1, t2}
  Emails = {e1, e2}
  DemoTenant = t1
  DemoEmail = e1
  Invites = {1}
  Sections = {"security", "display"}
  Keys = {1, 2}
  Values = {v1}
  Teams = {t1}
  Unset = NoValue
  Callers = {p1, p2}
  Limit = 1
  Window = 4
  MaxTime = 5
  Processes = {p1, p2}
  MaxBackups = 3
  MaxCommands = 4
  Keep = 1
  Scans = {1, 2}
  NoScan = NoValue
  Schedules = {"daily", "weekly", "bad"}
  Malformed = {"bad"}
  NoSchedule = NoValue
  MaxChanges = 2
  Coroutines = {1, 2, 3}
  Threshold = 2
  MaxProbes = 2
  MaxCalls = 7
  EpssScores = {0, 50, 97}
  ConnectionIds = {1}
  Places = {p1, p2}
  MaxScanners = 2
  MaxFaults = 1
  Participants = {p1, p2}
  CommentIds = {1, 2}
  MaxMentions = 1
  Sends = {1, 2}
  Labels = {v1, v2}
  Tagged = {a1}
  TagIds = {1, 2}
  Workers = {p1}
  CacheCalls = {1, 2}
  Ttl = 2
  MaxClock = 3
  MaxVersions = 1
  Evaluations = {1, 2}
  Metrics = {"error_rate"}
  MetricValues = {10}
  Cooldown = 1
  MaxAlertTime = 3
  MaxRuleChanges = 1
  Exceptions <- ExampleErrors
  Endpoints = {"/assets"}
  UserErrorTypes = {"ValueError"}
  RateWindow = 20
  NotificationCooldown = 20
  TickLength = 10
  MaxSeconds = 30
  MaxErrors = 3
INVARIANTS
  TypeOK
  RollbackOnceToOriginal
  FindingsKept
  WithinLimit
  BackupsUsable
  InviteUsedOnce
  MemoryAgrees
  FewProbes
  UpdatesKept
  ConnectionVerdicts
  NothingMissedSilently
  InAppAlways
  TagsFollow
  FreshEnough
  AlertsDisciplined
  TroubleIsHeard
PROPERTIES
  RollbackSettles
  ScanSettles
  AccessKept
  WorseNeverLower
  DeletionIsFinal
CHECK_DEADLOCK FALSE
