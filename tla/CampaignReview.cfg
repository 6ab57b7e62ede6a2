\* Two lines, an event a tick, two steps of the agent, two faults.
SPECIFICATION FairSpec
CONSTANTS
  MaxEvents = 1
  MaxSteps = 2
  Target = 1
  MaxLines = 2
  MaxToolCalls = 2
  MaxFaults = 2
INVARIANT ReviewInv
PROPERTIES AskedOnce ToolCallsAnswered CatchesUp
