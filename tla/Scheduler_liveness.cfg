SPECIFICATION FairSpec
CONSTANTS
  NaN = NaN
  Absent = Absent
  Empty = Empty
  n1 = n1
  n2 = n2
  c1 = c1
  c2 = c2
  w1 = w1
  w2 = w2
  w3 = w3
  Jobs = {1}
  Names = {n1}
  Clients = {c1}
  Workers = {w1, w2}
  Schedules <- MCSchedules
  Calendar <- MCCalendar
  Minute = 2
  Cooldown = 3
  Faults = {"binary", "collect"}
  MaxTime = 5
  MaxStarts = 1
INVARIANTS
  JobFilesAreSound
PROPERTIES
  MarkIsCleared
  DueJobStarts
CHECK_DEADLOCK FALSE
