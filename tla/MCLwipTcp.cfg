SPECIFICATION MCSpec
CONSTANTS
  SeqSpace = 64
  TCP_MSS = 2
  TCP_WND = 4
  TCP_SND_BUF = 4
  TCP_SND_QUEUELEN = 4
  TCPWND_MAX = 12
  TCP_MAXRTX = 1
  ISS = 60
  IRS = 61
  Plans <- AllPlans
  LWIP_TCP_MAX_SACK_NUM = 2
  SackWnd = 6
  SackIrs = 61
  SackSegs = {0,1,2,3}
  OoseqLimits <- OoseqPlans
  TCP_MAX_OPTION_BYTES = 24
INVARIANTS
  ReceptionSound
  WindowConserved
  SendQueueConserved
  
PROPERTIES
  RightEdgeAdvances
CHECK_DEADLOCK FALSE
