SPECIFICATION FairSpec
CONSTANTS
  c1 = c1
  c2 = c2
  c3 = c3
  q1 = q1
  q2 = q2
  NoCred = NoCred
  Creds = {c1, c2}
  Ultra = {c2}
  Requests = {q1}
  Cooldown = 1
  ServerRetries = 1
  TransportRetries = 1
  Policies = {"auth", "auth_or_quota_or_5xx"}
  UltraLast = {TRUE, FALSE}
  Removal = TRUE
CHECK_DEADLOCK FALSE
INVARIANT InFlightCounts
PROPERTY NoReplayAfterOutput
PROPERTY RetryKeepsCredential
PROPERTY RequestsEnd
