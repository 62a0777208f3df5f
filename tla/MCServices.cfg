SPECIFICATION Spec
CHECK_DEADLOCK FALSE
CONSTANTS
  ReassIds = {1,2}
  ReassLen = 6
  ReassMtus = {2,4}
  ReassClens = {1,2}
  OffsetUnit = 2
  IP_REASS_MAX_PBUFS = 4
  IP_REASS_MAXAGE = 1
  PbufIds = {1,2,3}
  PoolSize = 2
  U16 = 5
  PbufLens = {0,3}
  MaxRefs = 2
  PbufCalls = 4
  MEM_SIZE = 11
  HDR = 1
  MIN_SIZE = 1
  MemRequests = {0,1,2,3,5}
  MaxOwned = 2
  PoolSizes <- ElementSizes
  PoolNum = 2
  Base = 4
  ChkShort = 4
  ChkLong = 9
  ChkPbufs = 4
  Octet = 4
  Octets = {0, 1, 3, 4, 15, 64, 255, 256}
  MaskBits = 7
  DnsLabels <- HostLabels
  DhcpCuts = {1,2,3,4,5,6,7,8,9,10,11,12,13,14,15}
  NetifIds = {1,2,3}
  NetifNums = 4
  NetifAddrs = {"a","b"}
  NetifAddrs6 = {"x","y"}
  NUM_ADDRESSES = 2
  LoopPackets = 4
  LenSpace = 16
  UdpHlen = 1
  IpHlen = 2
  Ip6Hlen = 3
  NetifMtu = 8
  LinkMtus = {6,9}
  PathMtus = {5}
  RtNums = {1,2}
  RtByte = 4
  AltConns = {1,2,3}
  AltPcbs = {1,2,3}
  DNS_TABLE_SIZE = 2
  DNS_MAX_REQUESTS = 2
  DNS_MAX_SOURCE_PORTS = 2
  DNS_MAX_RETRIES = 1
  DNS_MAX_TTL = 1
  DnsNames = {"a","b"}
  DnsTxids = {1,2}
  DnsTypes = {"v4v6"}
  DnsSeqs = 2
  DhcpNetifs = {1,2}
  DhcpAddrs = {"a","b"}
  DhcpLeases = {1,5,9}
  DhcpTimes = {3}
  DhcpInfinite = 9
  DHCP_COARSE_TIMER_SECS = 2
  SelectTries = 1
  MaxTries = 3
  Dhcp6Netifs = {1,2}
  Dhcp6Xids = {1,2}
  DHCP6_TIMER_MSECS = 4000
  Dhcp6Calls = 2
  Dhcp6Tries = 1
  Dhcp6Replies <- ServerReplies
  PROVIDE_DNS_SERVERS = 2
  ARP_TABLE_SIZE = 2
  ARP_MAXAGE = 4
  ARP_MAXPENDING = 2
  ARP_QUEUE_LEN = 2
  ArpHosts = {"g","h","i"}
  ArpGw = "g"
  ArpHws = {"x","y"}
  ArpPackets = {1,2}
  AutoSpace = 3
  PROBE_NUM = 3
  ANNOUNCE_NUM = 2
  DEFEND_INTERVAL = 3
  MAX_CONFLICTS = 2
  RATE_LIMIT_INTERVAL = 3
  GroupNetifs = {1,2}
  GroupAddrs = {"a","b"}
  JoinDelay = 3
  V1Delay = 4
  GroupDelays = {0,2,3}
  MaxJoins = 2
  CacheNames = {"m"}
  CacheTypes = {"A","AAAA"}
  Askers = {1,2}
  AskIds = {1,2}
  MaxStores = 2
  MaxTtl = 1
  MaxNow = 1
  ByteValues = 16
  IPv4len = 1
  IPv6len = 3
  WireBytes = {0,2}
  WirePorts = {0,18,200}
  MaxWire = 2
  Dialers = {d1, d2}
  d1 = d1
  d2 = d2
  MaxFd = 3
  NoDialer = NoDialer
  Flows = {1,2}
  maxConnAttempts = 1
  timeout = 2
  NoDeadline = 9
INVARIANTS
  ReassSound
  PbufsSound
  HeapSound
  ConversionsExact
  InterfacesSound
  AltcpSound
  DnsSound
  DhcpClientsSound
  ArpSound
  GroupsSound
  CacheAnswers
  NoFdLeaked
  FlowsBounded
