SPECIFICATION Spec
CONSTANTS
  lan = lan
  dhcpd = dhcpd
  console = console
  ev = ev
  d1 = d1
  d2 = d2
  Entities = {lan, dhcpd}
  Flags <- MultiTable
  Pids = {p1, p2, p3}
  Slots = {s1, s2, s3}
  Events = {ev}
  Data = {}
  FdLimit = 3
  MissingReturn = {"null", "head"}
  Requests <- InstanceRequests
  MaxSends = 2
  SelfStarters = {dhcpd}
  Deaths = {"exited"}
  EarlyFailures = FALSE
  BootFailures = FALSE
  StuckProcesses = FALSE
  SigpipeIgnored = FALSE
SYMMETRY Symmetry
INVARIANTS InstanceIsAddressable RunningHasConnection
CHECK_DEADLOCK FALSE
