SPECIFICATION StartupSpec
CONSTANTS
  Key <- FilterKeys
  default <- MCdefault
  NotStored = NotStored
  MaxFailures = 0
  JoinTime = 3
  ResultWait = 2
  Delay = 1
  Network <- MCNetwork
INVARIANTS SettingsSurvive
