SPECIFICATION FairSpec
CONSTANTS
  Cred <- Creds2
  Req = {r1}
  Payloads <- MintedPayloads
  Life = 8
  Early = 5
  Jitter = 1
  Backoff = 1
  Latency = 1
  MaxFails = 1
  MaxMints = 2
  MaxTime = 9
  Scenarios <- FaultScenarios
INVARIANTS
  TypeOK
  KeepsHot
  NoReaderAtTheEnd
  RevokedOnExit
  RefreshTokenKept
PROPERTIES
  BrokerExits
  ImplementsTokenService
CHECK_DEADLOCK FALSE
