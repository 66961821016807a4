SPECIFICATION FairSpec
CONSTANTS
  lan = lan
  dhcpd = dhcpd
  console = console
  ev = ev
  d1 = d1
  d2 = d2
  Entities = {lan, dhcpd}
  Flags <- StageTable
  Pids = {p1, p2, p3}
  Slots = {s1, s2}
  Events = {ev}
  Data = {}
  FdLimit = 4
  MissingReturn = {"null", "head"}
  Requests <- LiveRequests
  MaxSends = 1
  SelfStarters = {}
  Deaths = {"crashed"}
  EarlyFailures = TRUE
  BootFailures = TRUE
  StuckProcesses = FALSE
  SigpipeIgnored = FALSE
PROPERTIES QueuedIsSent EndedIsCollected StopEndsApps
CHECK_DEADLOCK FALSE
