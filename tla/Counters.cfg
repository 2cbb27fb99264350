SPECIFICATION ItemSpec
CONSTANTS
  Columns = {a}
  a = a
  b = b
  Nothing = Nothing
  Steps <- MCSteps
  Failed <- MCFailed
  MaxSamples = 3
  MaxEvents = 2
  MaxEpoch = 1
INVARIANT ChartTrue
INVARIANT TableTrue
INVARIANT SilenceIsQuiet
CHECK_DEADLOCK FALSE
