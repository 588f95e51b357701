SPECIFICATION Spec
CONSTANTS
  r1 = r1
  r2 = r2
  q1 = q1
  q2 = q2
  q3 = q3
  c1 = c1
  c2 = c2
  k1 = k1
  k2 = k2
  NoRun = NoRun
  NoRequest = NoRequest
  NoCred = NoCred
  NoContract = NoContract
  Runs = {r1}
  Requests = {q1, q2}
  Streaming = {q1, q2}
  Creds = {c1}
  Contracts = {k1}
  Capacity = 1
  Parallel = FALSE
  MaxToolCalls = 1
  MaxSlots = 2
CHECK_DEADLOCK FALSE
INVARIANT WaitingIsServed
