SPECIFICATION FairSpec
CONSTANTS
  c1 = c1
  c2 = c2
  Clients = {c1, c2}
  NUM_REGION = 4
  Reports <- SomeReports
  Queries <- SomeQueries
  Malformed = Malformed
  FirstCommands = {"list"}
  Residue = {1}
  MaxReports = 1
  MaxInterrupted = 1
  UINT_MAX = 4
  SECOND = 2
INVARIANT TypeOK
INVARIANT SemaphoresHeldOnce
INVARIANT CasesConserved
INVARIANT SleepCoversRescue
INVARIANT ListingBetween
PROPERTY EveryReportAnswered
PROPERTY CtrlCEndsEverybody
CHECK_DEADLOCK FALSE
