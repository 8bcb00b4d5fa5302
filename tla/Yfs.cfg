SPECIFICATION FairSpec
CONSTANTS
  Client = {c1, c2}
  Root = root
  Files = {f1, f2}
  Dirs = {d1}
  Bases = {a}
  Bytes = {1}
  MaxOff = 1
  MaxCalls = 4
  None = none
  Absent = absent
INVARIANTS CoherentUnlessRaced FileNamesDiffer
PROPERTIES OneEntryAtATime ReadsTellLastPut HandlersAnswer
CHECK_DEADLOCK FALSE
