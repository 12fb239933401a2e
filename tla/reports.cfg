\* Two slots and three reports: one has to wait. One restart.
SPECIFICATION FairSpec
CONSTANTS
  MaxConcurrentJobs = 2
  MaxReports = 3
  MaxRestarts = 1
\* All reports have been made and all jobs have ended.
CHECK_DEADLOCK FALSE
INVARIANTS
  TypeOK
  SlotsAccounted
  CompletedIsThere
  EndedJobsAreTold
PROPERTIES
  ImplementsJobQueue
  EveryReportIsSettled
