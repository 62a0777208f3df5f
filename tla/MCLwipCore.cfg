SPECIFICATION Spec
CHECK_DEADLOCK FALSE
CONSTANTS
  MaxExt = 3
  NdNeighbors = {1,2}
  NdDestinations = {1}
  NdRouters = {1}
  NdNodes = {"h"}
  NdGateways = {"r","s"}
  NdFar = {"d"}
  NdTicks = 1
  NdSolicits = 1
  NdMaxAge = 0
  NdLives = {0,1,3}
  ND6_2HRS = 1
  NdInfinite = 3
  TimeSpace = 16
  Intervals <- TimerIntervals
  TCP_TMR_INTERVAL = 1
  OnceAfter = 2
  MaxOnce = 2
  MaxLate = 2
  MaxWork = 0
  PcbIds = {1,2,3}
  PcbPool <- PcbPools
  PcbAddrs = {"a","b"}
  PORT_START = 2
  PORT_END = 3
  Backlog = 1
  MaxPcbAge = 1
  MaxAddrChanges = 1
  DmConns = {1,2,3}
  DmOptions <- SegmentOptions
  DmMss = 40
INVARIANTS
  PacketsEndOnce
  
  AddressesSound
  TimersSound
  PcbsSound
  DemuxSound
