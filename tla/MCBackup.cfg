SPECIFICATION Spec
CONSTANTS
  Servers = {s1, s2}
  Jobs = {j1, j2}
  NoJob = NoJob
  NoServer = NoServer
  Keeps = {1, 2}
  Crons <- MCCrons
  MinuteLength = 2
  Seconds = {0, 2, 3, 6}
  MaxEvents = 1
  MaxRuns = 3
SYMMETRY Symmetry
INVARIANTS TypeOK OneDumpAtATime KeepsTheNewest
PROPERTY ScheduledOnce
CHECK_DEADLOCK FALSE
