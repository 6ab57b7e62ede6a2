\* Two shells, a back-off of two units at most, one fault.
SPECIFICATION KafkaSpec
CONSTANTS
  Modes = {"iterm", "headless"}
  Shell = {s1, s2}
  BackoffMax = 2
  MaxMishaps = 1
  None = None
INVARIANT KafkaTypeOK
PROPERTIES OutageConfirmed KafkaComesBack
