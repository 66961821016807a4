SPECIFICATION Spec
CONSTANTS
  lan = lan
  dhcpd = dhcpd
  console = console
  ev = ev
  d1 = d1
  d2 = d2
  Entities = {lan, dhcpd}
  Flags <- MessagingTable
  Pids = {p1, p2, p3}
  Slots = {s1, s2}
  Events = {ev}
  Data = {}
  FdLimit = 4
  MissingReturn = {"null", "head"}
  Requests <- ControlRequests
  MaxSends = 3
  SelfStarters = {}
  Deaths = {"exited", "crashed"}
  EarlyFailures = TRUE
  BootFailures = FALSE
  StuckProcesses = FALSE
  SigpipeIgnored = FALSE
SYMMETRY Symmetry
INVARIANTS TypeOK ConnectedIsRunning SingleRecord SingleInstance RunningHasConnection
CHECK_DEADLOCK FALSE
