CONSTANTS
  None = None
  MinWork = 2
  DoneTime = 1
  CelebrationFallback = 1
  CelebrationMaximum = 2
  Remembered = 2
  QuipRotate = 1
  Tier1 = 1
  Tier2 = 2
  LimitOn = 2
  LimitOff = 2
  StreakOn = 1
  StreakOff <- MCStreakOff
  QuoteTime = 1
  QuoteInterval = 1
  Registry <- MCRegistry
  CategoryOrder <- MCCategoryOrder
  Rows <- MCRows
  Palettes = 2
  Fonts = 2
  Sprites = 2
  BrightnessTop = 2
  Intervals <- MCIntervals
  DemoSteps = 2
  Trophies = 7
  ProjectPages = 2
  Entry <- MCEntry
  Hysteresis = 3
  CutoffVolts = 320
  CutoffSamples = 2
  FullOnUsb = 405
  BatteryWindow = 3
  SignalWindow = 2
  Volts <- MCVolts
  Signals <- MCSignals
  Presses <- MCPresses
  Statuses <- MCStatuses
  Directives <- MCDirectives
  NoticeTime = 2
  Scenes <- MCScenes

SPECIFICATION BadgeSpec

INVARIANTS BadgeTypeOK LiveIsSaved PanelIsDimmed PanelIsCurrent BubbleIsDue
PROPERTIES CelebrationTakesTheStage DoneIsEarned EmptyCellTurnsOff

\* A badge that is switched off stays off until a button wakes it.
CHECK_DEADLOCK FALSE
