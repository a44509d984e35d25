CONSTANTS
  Files = {f1, f2}
  Cwds = {c1, c2}
  Settings = {s1, s2}
  t1 = t1
  t2 = t2
  Words = {t1, t2}
  MaxSessions = 1
  Histories <- StoredHistories
  HISTORY_MAX = 2
  MaxSteps = 6
  MaxAsked = 3
SPECIFICATION PageSpec
SYMMETRY PageSymmetry
INVARIANTS
  DiffOfSelected
  ModelsOfSetting
  ChoiceStays
  BoxIsDraft
CHECK_DEADLOCK FALSE
