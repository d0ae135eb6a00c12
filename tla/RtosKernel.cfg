SPECIFICATION Spec
CHECK_DEADLOCK FALSE
CONSTANTS
  Idle = Idle
  Main = Main
  net = net
  disk = disk
  console = console
  ready = ready
  NoTask = NoTask
  Tasks = {Idle, Main, net, disk}
  Semaphores = {console, ready}
  Mutexes = {console}
  BasePriority <- MCPriority
  Calls <- MCCalls
  TickMod = 4
  MaxTicks = 5
  MaxGives = 1
INVARIANTS
  SleepersFindable
  NoLostGive
  NoInversion
  HighestRuns
  NeverOversleeps
PROPERTIES
  NeverEarly
