SPECIFICATION FairReportSpec
CONSTANTS
  REGION_NUM = 2
  Word = 8
  Requests <- SomeRequests
  MaxRequests = 3
  MaxClients = 2
INVARIANT ReportTypeOK
INVARIANT ListingsTellReports
PROPERTY CtrlCEnds
CHECK_DEADLOCK FALSE
