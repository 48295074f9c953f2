SPECIFICATION Spec
CONSTANTS
  c1 = c1
  c2 = c2
  Computers = {c1, c2}
  Day = 1
  MaxTime = 2
  MaxFaults = 1
INVARIANTS HistoryIsSound KnownIsPushedOnce
PROPERTIES PersistentAlertIsPushed
