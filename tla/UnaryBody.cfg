SPECIFICATION PartsSpec
CONSTANTS
  a1 = a1
  a2 = a2
  b1 = b1
  b2 = b2
  c1 = c1
  c2 = c2
  d1 = d1
  k1 = k1
  m1 = m1
  s1 = s1
  s2 = s2
  s3 = s3
  Off = Off
  Nobody = Nobody
  NoName = NoName
  NoBlob = NoBlob
  CacheCreds = {c1, c2}
  ApiKeys = {k1}
  Operations = {a1, a2}
  Flights = {b1, b2}
  StartupRpcs = 2
  Commands = {a1, a2}
  Helpers = {"none", "quiet", "piped", "escaped"}
  Refusals = {"malformed_jsonl", "stdout_overflow"}
  MaxRecords = 1
  DashboardIds = {d1}
  AdminKeys = {k1}
  AdminPlans = {"ultra"}
  AdminPolicies = {"ultra_last", "weighted"}
  DefaultPolicy = "weighted"
  Families = {m1}
  LegacySlugs = {s1}
  LegacyFamily = m1
  MaxUpdates = 2
  Outputs <- MCOutputs
  StreamFrames <- MCFrames
  MaxFrames = 3
  MaxChunk = 4
  HeaderBytes = 2
  MaxOutputBytes = 9
  CompressedLimit = 2
  DecompressedLimit = 3
  MaxExpansion = 2
  Sources = {s1, s2, s3}
  SizeOf <- MCSizeOf
  Plugins <- MCPlugins
  Skills <- MCSkills
  MaxReads = 4
  ActiveLimit = 1
  MaxFiles = 3
  MaxBytes = 2
  MaxTotalBytes = 2
  Conversations = {a1, a2}
  Profiles = {b1, b2}
  Persisted = {s1}
  Execs = {b1, b2}
  Messages <- MCMessages
  Tools = {"read", "write"}
  Properties <- MCProperties
  Blobs = {s1}
  Said <- MCSaid
  HistoryRequests <- MCHistoryRequests
  MaxMessages = 4
SYMMETRY Symmetry
CHECK_DEADLOCK FALSE
INVARIANT GzipFailsTyped
