CONSTANTS
  None = None
  PollInterval = 1
  OpenDebounce = 1
  OpenRetryDelay = 1
  RecoveryRetryInterval = 3
  UndockedRetryDelays <- FastRetries
  RestartWindow = 5
  MaxRestartsInWindow = 2
  InitialRestartDelay = 1
  MaxRestartDelay = 2
SPECIFICATION SessionSpec
INVARIANTS LidTypeOK TimersOnlyUndocked SupervisorTypeOK RestartsCapped GivesUpOnlyInBurst
PROPERTIES ArmedRecoveryEnds ProfileSettles
