\* One key of each rule, two polls to debounce, a restart at any point.
CONSTANTS
  Disks = {disk}
  Units = {unit}
  Load = Load
  Nothing = Nothing
  LoadHits = 2
  UnitHits = 2
  MaxEpisodes = 2
  MaxRestarts = 1
  Focus = 1
SPECIFICATION FocusSpec
INVARIANT EvaluationSettles
PROPERTIES PagesAlternate Debounced DiskHysteresis UnitsAreFollowed
CHECK_DEADLOCK FALSE
