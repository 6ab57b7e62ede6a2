\* Two patches, two commands of which one poll brings one, three failures.
SPECIFICATION FairSpec
CONSTANTS
  Patch = {p1, p2}
  NoPatch = NoPatch
  MaxAttempts = 2
  PollLimit = 1
  MaxCommands = 2
  MaxFaults = 3
INVARIANT TypeOK
PROPERTIES EnqueuedNotLost OlderNeverOverwrites ApprovedGetsApplied OutboxDrains
