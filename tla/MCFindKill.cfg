SPECIFICATION Spec
CONSTANTS
  lan = lan
  dhcpd = dhcpd
  console = console
  ev = ev
  d1 = d1
  d2 = d2
  Entities = {lan, dhcpd}
  Flags <- MessagingTable
  Pids = {p1, p2, p3}
  Slots = {s1, s2}
  Events = {ev}
  Data = {}
  FdLimit = 4
  MissingReturn = {"null", "head"}
  Requests <- RestartRequests
  MaxSends = 2
  SelfStarters = {}
  Deaths = {"exited", "crashed"}
  EarlyFailures = FALSE
  BootFailures = FALSE
  StuckProcesses = FALSE
  SigpipeIgnored = FALSE
PROPERTIES DisconnectKillsNobody
CHECK_DEADLOCK FALSE
