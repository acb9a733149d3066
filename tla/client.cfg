CONSTANTS
  com_win = 2
  ratio = 10
  Ten = 3
  Samples = 2
  MaxCommits = 5
  MaxExpired = 1
SPECIFICATION LiveSpec
INVARIANTS TypeOK OneInTen WindowKept MeasuredOnce AnsweredOnce StopsCommitting
PROPERTIES ResultsStable 
CHECK_DEADLOCK FALSE
