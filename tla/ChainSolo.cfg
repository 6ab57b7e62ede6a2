\* One impatient client at a time: retries, deadline, pins, explicit models.
SPECIFICATION FairSpec
CONSTANTS
  Request = {r1}
  Impatient = {r1}
  Entry <- KeysEntry
  InitialQueue <- KeysQueue
  ProviderOf <- KeysProviderOf
  ModelOf <- KeysModelOf
  PerKey = {"openrouter"}
  LocalTail = {"local"}
  ExplicitModel = {"gpt"}
  Pin = {"openrouter"}
  NoEntry = NoEntry
  MaxRetries = 1
  RateLimitCooldown = 1
  DisabledCooldown = 1
  WalkDeadline = 1
  SuccessLimit = 2
INVARIANT TypeOK
PROPERTIES ExhaustiveFailure LateWalkStaysLocal OnlyIndictedMove PinsLeaveQueue EveryCallEnds
