SPECIFICATION Spec
CONSTANTS
  stats = stats
  limits = limits
  live = live
  home = home
  guest = guest
  None = None
  Off = Off
  LimitsFeed = limits
  Screens = 4
  Feeds = {stats, limits, live}
  FeedTable <- MCTable
  UsbCadence <- MCUsb
  BatteryCadence <- MCBattery
  BackoffStart = 1
  BackoffMax = 2
  WifiSources <- MCSources
  OnAir = {home, guest}
  Hidden = {guest}
  MayBreak = {limits}
  MaxVersion = 3
  MaxFaults = 1
  MaxEvents = 2
  MaxOutage = 4
INVARIANTS
  BadgesTypeOK
  AnswersMatch
  OutageIsGentle
PROPERTIES
  NeverOlder
  FlashKeeps
  Recovers
CHECK_DEADLOCK FALSE
