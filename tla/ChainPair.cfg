\* Two concurrent walks over one account with two models.
SPECIFICATION Spec
CONSTANTS
  Request = {r1, r2}
  Impatient = {}
  Entry <- ModelsEntry
  InitialQueue <- ModelsQueue
  ProviderOf <- ModelsProviderOf
  ModelOf <- ModelsModelOf
  PerKey = {"openrouter"}
  LocalTail = {"local"}
  ExplicitModel = {}
  Pin = {}
  NoEntry = NoEntry
  MaxRetries = 0
  RateLimitCooldown = 1
  DisabledCooldown = 1
  WalkDeadline = 0
  SuccessLimit = 1
INVARIANTS AccountLimitRespected CooldownIsLastResort
PROPERTY EntryBegunOnce
SYMMETRY RequestSymmetry
