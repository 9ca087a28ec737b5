\* No fault: an upload that comes late is enough.
SPECIFICATION Spec
CONSTANTS
  main = main
  peer = peer
  ann = ann
  Main = main
  Remotes = {peer}
  Users = {ann}
  HostOf <- MCHostOf
  ActiveDebounce = 1
  IdleDebounce = 1
  TurnCap = 1
  StaleSeconds = 1
  ShipGrace = 2
  MaxGap = 1
  MaxNow = 5
  MaxFaults = 0
PROPERTY
  DoneIsDebounced
CHECK_DEADLOCK FALSE
