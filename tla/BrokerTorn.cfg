SPECIFICATION Spec
CONSTANTS
  Cred <- Creds1
  Req = {r1}
  Payloads <- GithubOnly
  Life = 3
  Early = 1
  Jitter = 0
  Backoff = 1
  Latency = 1
  MaxFails = 0
  MaxMints = 2
  MaxTime = 6
  Scenarios <- NoFaults
INVARIANTS
  NeverTorn
CHECK_DEADLOCK FALSE
