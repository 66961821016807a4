SPECIFICATION FairSpec
CONSTANTS
  Requests <- OneSchedule
  ManagementServer <- EveryTwoSeconds
  MaxRetryTimes = 1
  HostCodes = {"VALUE_CHANGE"}
  Wanted = FALSE
  TransferFaults = FALSE
  MaxHostEvents = 0
  MaxFaults = 0
  MaxCrashes = 0
PROPERTIES ScheduleIsInformed
