\* A unit of quiet makes a stall, the VPN is due every other one, two faults.
SPECIFICATION FairSpec
CONSTANTS
  StaleThreshold = 1
  VpnInterval = 1
  MaxFaults = 2
INVARIANTS DirectorInv OneRestartPerTick
PROPERTIES OneShotOnceSaved WorkerComesBack
