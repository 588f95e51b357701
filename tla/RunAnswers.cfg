SPECIFICATION AnswersSpec
CONSTANTS
  r1 = r1
  r2 = r2
  q1 = q1
  q2 = q2
  q3 = q3
  c1 = c1
  c2 = c2
  k1 = k1
  k2 = k2
  NoRun = NoRun
  NoRequest = NoRequest
  NoCred = NoCred
  NoContract = NoContract
  Runs = {r1}
  Requests = {q1, q2, q3}
  Streaming = {q1, q2}
  Creds = {c1}
  Contracts = {k1}
  Capacity = 1
  Parallel = TRUE
  MaxToolCalls = 0
  MaxSlots = 3
  v1 = v1
  v2 = v2
  UpstreamCalls = {q1, q2}
  ArgValues = {v1, v2}
  MaxFrames = 5
  MaxResponses = 2
  Pieces = {"[TOOL_", "CALLS:", "word", " ", "fence", "{", "toolkey", "key"}
  MaxPieces = 3
  MaxAttempts = 2
SYMMETRY AnswersSymmetry
CHECK_DEADLOCK FALSE
INVARIANT TypeOK
INVARIANT HoldsAreUsable
INVARIANT WaitingIsServed
INVARIANT TornDown
INVARIANT TextToldOnce
INVARIANT HoldsAreAnswerable
INVARIANT SurfacedOnce
PROPERTY ResultsAnswerCalls
 
INVARIANT AnswerIsTold
