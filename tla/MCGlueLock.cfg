\* One connection of the phone, which falls silent.
SPECIFICATION FairSpec
CONSTANTS
  MaxSockets = 1
  MaxMisses = 1
  MaxOutages = 1
PROPERTIES RestartLeaves
CHECK_DEADLOCK FALSE
