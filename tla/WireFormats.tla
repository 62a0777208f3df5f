---------------------------- MODULE WireFormats ----------------------------
(* The encapsulation of UDP packets for the proxy (udppackage/pack.go) and   *)
(* the SOCKS addresses (proxy/socks/socks.go), on bytes.  The lengths of     *)
(* IPv4 and IPv6 addresses are constants, and a byte has ByteValues values   *)
(* (a power of 2, at least 16), so that numbers of two and of four bytes     *)
(* wrap as in the code.                                                      *)
EXTENDS Integers, Sequences, SequencesExt

CONSTANTS ByteValues, IPv4len, IPv6len,
          WireBytes,           \* the bytes addresses, domains and payloads are of
          WirePorts,
          MaxWire              \* longest payload, and longest received SOCKS address

VARIABLE wf                    \* a call and what it returned

Byte(n) == n % ByteValues
\* A Go slice expression or an index out of range panics.
Panic == [err |-> "panic"]
Err == [err |-> "error"]
Sub(b, from, to) == SubSeq(b, from + 1, to)        \* b[from:to]
Port(b, i) == ByteValues * b[i + 1] + b[i + 2]
-----------------------------------------------------------------------------
\* PackUDPData writes target, src, the length of the payload and the payload.
PackAddr(a) == <<Byte(Len(a.ip))>> \o a.ip \o <<Byte(a.port \div ByteValues), Byte(a.port)>>
PackLen(n) == [i \in 1..4 |-> Byte(n \div ByteValues^(4 - i))]
PackUDPData(target, src, payload) ==
  PackAddr(target) \o PackAddr(src) \o PackLen(Len(payload)) \o payload

\* UnpackUDPData, on a datagram that is as long as its length fields say; what
\* is shorter panics, unless the slice's capacity lends it bytes beyond its
\* length, which are left open.
AddrAt(data, i) ==
  [ip |-> Sub(data, i + 1, i + 1 + data[i + 1]), port |-> Port(data, i + 1 + data[i + 1]),
   end |-> i + 3 + data[i + 1]]
LenAt(data, i) == FoldLeft(LAMBDA n, b : n * ByteValues + b, 0, Sub(data, i, i + 4))
Complete(data) ==
  /\ Len(data) >= data[1] + 4
  /\ LET i == data[1] + 3 IN
       /\ Len(data) >= i + data[i + 1] + 7
       /\ LET j == i + data[i + 1] + 3 IN Len(data) >= j + 4 + LenAt(data, j)
UnpackUDPData(data) ==
  IF Len(data) < 4 THEN Err
  ELSE IF ~Complete(data) THEN Panic
  ELSE LET target == AddrAt(data, 0)
           src == AddrAt(data, target.end)
       IN [err |-> "none", target |-> [ip |-> target.ip, port |-> target.port],
           src |-> [ip |-> src.ip, port |-> src.port],
           payload |-> Sub(data, src.end + 4, src.end + 4 + LenAt(data, src.end))]
-----------------------------------------------------------------------------
socks5IP4 == 1
socks5Domain == 3
socks5IP6 == 4
ATYP(b) == IF (b \div 8) % 2 = 1 THEN b - 8 ELSE b            \* b &^ 0x8

\* ParseAddr of a host that is an IPv4 or IPv6 address or a domain; port is
\* what ParseUint gets, which takes no more than 16 bits.
ParseAddr(a) ==
  IF Len(a.host) >= ByteValues \/ a.port >= ByteValues^2 THEN << >>
  ELSE (CASE a.kind = "ip4" -> <<socks5IP4>>
          [] a.kind = "ip6" -> <<socks5IP6>>
          [] a.kind = "domain" -> <<socks5Domain, Len(a.host)>>)
       \o a.host \o <<Byte(a.port \div ByteValues), Byte(a.port)>>

\* Addr.String, up to the text.
AddrString(b) ==
  LET t == ATYP(b[1])
      from == IF t = socks5Domain THEN 2 ELSE 1
      to == CASE t = socks5Domain -> 2 + b[2] [] t = socks5IP4 -> 1 + IPv4len [] t = socks5IP6 -> 1 + IPv6len
  IN [kind |-> CASE t = socks5Domain -> "domain" [] t = socks5IP4 -> "ip4" [] t = socks5IP6 -> "ip6",
      host |-> Sub(b, from, to), port |-> Port(b, to)]

\* How long the address at the front of b is; 0 is no address.
AddrLen(b) ==
  CASE ATYP(b[1]) = socks5Domain -> IF Len(b) < 2 THEN 0 ELSE 1 + 1 + b[2] + 2
    [] ATYP(b[1]) = socks5IP4 -> 1 + IPv4len + 2
    [] ATYP(b[1]) = socks5IP6 -> 1 + IPv6len + 2
    [] OTHER -> 0
SplitAddr(b) ==
  IF b = << >> \/ AddrLen(b) = 0 \/ Len(b) < AddrLen(b) THEN << >> ELSE Sub(b, 0, AddrLen(b))

\* readAddr on a stream that holds b and ends: io.ReadFull takes the type, for
\* a domain the length, and the rest, or all there is and returns an error (the
\* bytes returned with an error are left out).
ReadFull(b, n) == IF n <= Len(b) THEN n ELSE Len(b)
readAddr(b) ==
  LET first == ReadFull(b, 1)
      t == ATYP(b[1])
      second == IF t = socks5Domain THEN ReadFull(b, 2) ELSE 1
      all == AddrLen(b)
  IN IF first < 1 THEN [addr |-> << >>, err |-> TRUE, used |-> 0]
     ELSE IF t \notin {socks5Domain, socks5IP4, socks5IP6} THEN [addr |-> << >>, err |-> TRUE, used |-> 1]
     ELSE IF t = socks5Domain /\ second < 2 THEN [addr |-> << >>, err |-> TRUE, used |-> 1]
     ELSE [addr |-> IF Len(b) < all THEN << >> ELSE Sub(b, 0, all), err |-> Len(b) < all,
           used |-> ReadFull(b, all)]
-----------------------------------------------------------------------------
BytesOf(n) == [1..n -> WireBytes]
UDPAddrs == UNION { [ip : BytesOf(n), port : WirePorts] : n \in {IPv4len, IPv6len} }
SocksAddrs ==
  [kind : {"ip4"}, host : BytesOf(IPv4len), port : WirePorts]
  \cup [kind : {"ip6"}, host : BytesOf(IPv6len), port : WirePorts]
  \cup [kind : {"domain"}, host : UNION {BytesOf(n) : n \in 0..2}, port : WirePorts]
Types == {0, socks5IP4, socks5Domain, socks5IP6, socks5IP4 + 8, socks5Domain + 8}

WireInit == wf = [call |-> "none"]
WireNext ==
  /\ wf.call = "none"
  /\ \/ \E t, s \in UDPAddrs, n \in 0..MaxWire : \E p \in BytesOf(n) :
          wf' = [call |-> "udp", target |-> t, src |-> s, payload |-> p,
                 got |-> UnpackUDPData(PackUDPData(t, s, p))]
     \/ \E a \in SocksAddrs :
          wf' = [call |-> "parse", a |-> a, got |-> AddrString(ParseAddr(a)),
                 split |-> SplitAddr(ParseAddr(a) \o <<0>>) = ParseAddr(a)]
     \/ \E t \in Types, n \in 0..MaxWire + 3 : \E b \in BytesOf(n) :
          wf' = [call |-> "read", split |-> SplitAddr(<<t>> \o b), read |-> readAddr(<<t>> \o b)]
-----------------------------------------------------------------------------
\* UnpackUDPData gives back what PackUDPData was given, whatever the lengths of
\* the two addresses and of the payload.
UdpRoundTrip ==
  wf.call = "udp" =>
    wf.got = [err |-> "none", target |-> wf.target, src |-> wf.src, payload |-> wf.payload]

\* The SOCKS address made of a text denotes what the text did, and is what
\* SplitAddr finds at the front of a message; and readAddr takes from a stream
\* exactly the address SplitAddr would, or fails where SplitAddr finds none.
SocksAddrsAgree ==
  /\ wf.call = "parse" => wf.got = wf.a /\ wf.split
  /\ wf.call = "read" =>
       IF wf.read.err THEN wf.split = << >>
       ELSE wf.split = wf.read.addr /\ Len(wf.split) = wf.read.used
=============================================================================
