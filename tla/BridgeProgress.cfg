SPECIFICATION ProgressSpec
CONSTANTS
  q1 = q1
  q2 = q2
  r1 = r1
  c1 = c1
  k1 = k1
  NoRun = NoRun
  NoRequest = NoRequest
  NoCred = NoCred
  NoContract = NoContract
  NoCooldown = NoCooldown
  Requests = {x1, x2, x3}
  FatalThreshold = 3
  Cooldown = 2
  Cli = TRUE
  Startup = "api"
  PoolKeys = {e1, e2}
  PoolSessions = {s1, s2}
  PoolStreams = {t1}
  MaxSessions = 1
  NoSession = NoSession
  Calls = {o1, o2}
  ApiClients = {u1}
  Models = {m1}
  DefaultModel = m1
  GlobalLimit = 1
  KeyLimit = 1
  ModelLimit = 1
  Prompts = {p1, p2}
  WorkspaceModes = {"chat-only", "real-workspace"}
  Details <- MCDetails
  MaxParts = 4
CHECK_DEADLOCK FALSE
INVARIANT FallbackIsTemporary
INVARIANT OneProbe
INVARIANT PoolSound
INVARIANT ServingSound
INVARIANT CliSound
 
 
PROPERTY MoreNeverRetries
PROPERTY ImplementsBreaker
PROPERTY Recovers
PROPERTY ReprobeIsAnswered
PROPERTY RunsEnd
PROPERTY ShutdownEndsSessions
PROPERTY SlotsComeBack
 
