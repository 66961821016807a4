SPECIFICATION Spec
CONSTANTS
  lan = lan
  dhcpd = dhcpd
  console = console
  ev = ev
  d1 = d1
  d2 = d2
  Entities = {lan, dhcpd, console}
  Flags <- ServerTable
  Pids = {p1, p2, p3}
  Slots = {s1, s2, s3}
  Events = {ev}
  Data = {}
  FdLimit = 4
  MissingReturn = {"null", "head"}
  Requests <- ServerRequests
  MaxSends = 2
  SelfStarters = {}
  Deaths = {"crashed"}
  EarlyFailures = FALSE
  BootFailures = FALSE
  StuckProcesses = FALSE
  SigpipeIgnored = FALSE
SYMMETRY Symmetry
INVARIANT ServerIsWatched
CHECK_DEADLOCK FALSE
