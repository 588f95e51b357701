SPECIFICATION FairSpec
CONSTANTS
  q1 = q1
  q2 = q2
  q3 = q3
  NoCooldown = NoCooldown
  Requests = {q1, q2}
  FatalThreshold = 2
  Cooldown = 1
  Cli = TRUE
  Startup = "cli"
PROPERTY Recovers
