SPECIFICATION Spec
CONSTANTS
  c1 = c1
  c2 = c2
  c3 = c3
  q1 = q1
  q2 = q2
  NoCred = NoCred
  Creds = {c1, c2}
  Ultra = {}
  Requests = {q1}
  Cooldown = 1
  ServerRetries = 1
  TransportRetries = 1
  Policies = {"auth"}
  UltraLast = {FALSE}
  Removal = FALSE
CHECK_DEADLOCK FALSE
INVARIANT CooldownIsEarned
