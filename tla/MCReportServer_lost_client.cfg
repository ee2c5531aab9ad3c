SPECIFICATION FairReportSpec
CONSTANTS
  REGION_NUM = 2
  Word = 8
  Requests <- ReadmeRequests
  MaxRequests = 1
  MaxClients = 2
PROPERTY LostClientLetGo
CHECK_DEADLOCK FALSE
