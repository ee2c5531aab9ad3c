SPECIFICATION FairSpec
CONSTANTS
  LED_NUM = 2
  SEG_NUM = 2
  BUF_SIZE = 2
  Word = 100
  Entries <- SomeEntries
  MaxReports = 2
INVARIANT TypeOK
 
INVARIANT StraysOnlyWhenTouched
PROPERTY EveryDigitShown
CHECK_DEADLOCK FALSE
