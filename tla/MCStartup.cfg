SPECIFICATION Spec
CONSTANTS
  t1 = t1
  t2 = t2
  main = main
  connector = connector
  p1 = p1
  p2 = p2
  probe = probe
  k4 = k4
  k6 = k6
  self_out = self_out
  self_in = self_in
  Conns = {k4, k6, self_out, self_in}
  Family <- Families
  Loopback = {self_out, self_in}
  Layouts <- SomeLayouts
  Tasks <- FourTasks
  Process <- ThreeProcesses
  StashCap = 4
  ConnCap = 1
  None = None
  Hosts <- SomeHosts
  Servers = {t2}
  Modes <- AllModes
  Main = main
  Connector = connector
  SelfOut = self_out
  SelfIn = self_in
  MaxOpens = 2
CHECK_DEADLOCK FALSE
INVARIANTS AttributedToOwner AttachedBothWays SelfTestSound
PROPERTY StartupDecides
