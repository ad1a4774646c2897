SPECIFICATION FairSpec
CONSTANTS
  MINUTE = 5
  SECONDS = 3
  Dates <- MCDates
  BootB = {{"UIE"}, {"PIE"}}
  Preempted = FALSE
INVARIANTS AlarmOnTime DateWhole
PROPERTIES WinnerShown TicksAreAlarms ClockReachesGame
