SPECIFICATION Spec
CONSTANTS
  Requests <- TwoUploads
  ManagementServer <- EverySecond
  MaxRetryTimes = 1
  HostCodes = {"VALUE_CHANGE"}
  Wanted = FALSE
  TransferFaults = FALSE
  MaxHostEvents = 0
  MaxFaults = 1
  MaxCrashes = 1
INVARIANT NoTransferLost
