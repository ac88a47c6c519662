SPECIFICATION StartupSpec
CONSTANTS
  Key <- DeviceKeys
  default <- MCdefault
  NotStored = NotStored
  MaxFailures = 1
  JoinTime = 3
  ResultWait = 2
  Delay = 1
  Network <- MCNetwork
INVARIANTS StartupTypeOK SettingsSurvive PortsFollow BluetoothFollows LibraryFollows JoinsAsWanted JoinInTime Reachable
PROPERTIES BootEnds
