SPECIFICATION Spec
CONSTANTS
  Tasks = {t1, t2}
  PerMillisecond = 3
  Spans = 3
  Base = 2
  Width = 4
  MaxClock = 3
  MaxNames = 5
INVARIANTS
  NamesApart
  NamesSort
CHECK_DEADLOCK FALSE
