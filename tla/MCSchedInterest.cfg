SPECIFICATION Spec
CONSTANTS
  lan = lan
  dhcpd = dhcpd
  console = console
  ev = ev
  d1 = d1
  d2 = d2
  Entities = {lan, dhcpd, console}
  Flags <- InterestTable
  Pids = {p1, p2, p3}
  Slots = {s1, s2}
  Events = {ev}
  Data = {d1, d2}
  FdLimit = 4
  MissingReturn = {"null", "head"}
  Requests <- InterestRequests
  MaxSends = 3
  SelfStarters = {}
  Deaths = {"exited", "crashed"}
  EarlyFailures = FALSE
  BootFailures = FALSE
  StuckProcesses = TRUE
  SigpipeIgnored = FALSE
SYMMETRY Symmetry
INVARIANTS InterestsCounted
PROPERTIES InterestSurvivesExit
CHECK_DEADLOCK FALSE
