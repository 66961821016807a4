SPECIFICATION FairSpec
CONSTANTS
  Requests <- ThreeRequests
  ManagementServer <- AnyConfiguration
  MaxRetryTimes = 1
  HostCodes = {"VALUE_CHANGE"}
  Wanted = TRUE
  TransferFaults = TRUE
  MaxHostEvents = 1
  MaxFaults = 1
  MaxCrashes = 1
INVARIANTS TypeOK NoTransferLost AlwaysWakes
PROPERTIES ResultsAreReported
