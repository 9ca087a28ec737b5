\* One crash or failed upload; a hung turn, its debounce and a stale file fit
\* into the clock.
SPECIFICATION Spec
CONSTANTS
  main = main
  peer = peer
  ann = ann
  Main = main
  Remotes = {peer}
  Users = {ann}
  HostOf <- MCHostOf
  ActiveDebounce = 1
  IdleDebounce = 1
  TurnCap = 1
  StaleSeconds = 1
  ShipGrace = 2
  MaxGap = 1
  MaxNow = 5
  MaxFaults = 1
INVARIANTS
  TypeOK
  WorkingIsRecent
  HungTurnDecays
  ActiveIsShown
PROPERTY
  NoFlicker
CHECK_DEADLOCK FALSE
