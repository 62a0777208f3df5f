SPECIFICATION NetifSpec
CHECK_DEADLOCK FALSE
CONSTANTS NetifIds = {1,2,3}
NetifNums = 4
NetifAddrs = {"a","b"}
NetifAddrs6 = {"x","y"}
NUM_ADDRESSES = 2
LoopPackets = 4
LenSpace = 16
UdpHlen = 1
IpHlen = 2
Ip6Hlen = 3
NetifMtu = 8
LinkMtus = {6,9}
PathMtus = {5}
INVARIANT MtuRespected
