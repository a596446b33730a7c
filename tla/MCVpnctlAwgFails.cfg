SPECIFICATION Spec
CONSTANTS
  n1 = n1
  n2 = n2
  p1 = p1
  p2 = p2
  Names = {n1}
  ScriptNames = {}
  Addrs <- MCAddrs
  Procs = {p1}
  AwgFails = TRUE
  WriteFails = FALSE
  Killed = FALSE
  MaxFaults = 1
  NoBlock = NoBlock
  NoProc = NoProc
PROPERTIES OffIsOff
