SPECIFICATION Spec
CONSTANTS
  n1 = n1
  n2 = n2
  p1 = p1
  p2 = p2
  Names = {n1, n2}
  ScriptNames = {n2}
  Addrs <- MCAddrs
  Procs = {p1, p2}
  AwgFails = TRUE
  WriteFails = TRUE
  Killed = TRUE
  MaxFaults = 2
  NoBlock = NoBlock
  NoProc = NoProc
INVARIANTS TypeOK AddressesApart ConfigWorks OnePeerEach LiveIsConf
PROPERTIES OnIsOn OffWithoutFault RefinesPeerServer
