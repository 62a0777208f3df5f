---------------------------- MODULE GvisorProxy ----------------------------
(* The flows of the gVisor stack: the TCP and the UDP forwarder              *)
(* (gvisorcore/tcp.go, gvisorcore/udp.go) and the relays of DefaultProxy     *)
(* (gvisorcore/proxy/defaultproxy.go).  Time passes in ticks; a goroutine    *)
(* that can go on, or whose deadline has come, does so before the next tick, *)
(* while a dial or a peer may take any time.                                 *)
EXTENDS Integers, FiniteSets

CONSTANTS Flows,
          maxConnAttempts,     \* TCP requests in flight
          timeout,             \* in ticks
          NoDeadline           \* a number above timeout

ASSUME FlowAssumption == timeout \in Nat /\ NoDeadline \in Nat /\ NoDeadline > timeout

VARIABLE px                    \* flow -> its state, see NewFlow

\* proto; phase; slot: the forwarder counts the request as in flight; local and
\* proxy: the two connections; up, down: the goroutine that writes to the proxy
\* and the one that writes to the application; the deadlines of reads and
\* writes on both connections, in ticks from now; age: ticks the relay has run;
\* quiet: ticks since a packet was read; waits: ticks the oldest packet of the
\* application has been in the endpoint's queue, or -1.
NewFlow(proto) ==
  [proto |-> proto, phase |-> "none", slot |-> FALSE, local |-> "none", proxy |-> "none",
   up |-> "none", down |-> "none", localRead |-> NoDeadline, localWrite |-> NoDeadline,
   proxyRead |-> NoDeadline, proxyWrite |-> NoDeadline, age |-> 0, quiet |-> 0, waits |-> -1]

InFlight == {f \in Flows : px[f].slot}
Set(f, s) == px' = [px EXCEPT ![f] = s]
GpxInit == \E proto \in [Flows -> {"tcp", "udp"}] : px = [f \in Flows |-> NewFlow(proto[f])]
-----------------------------------------------------------------------------
\* Forwarder.HandlePacket of gVisor: a SYN of a flow that is not in flight.
TcpRequest(f) ==
  /\ px[f].proto = "tcp" /\ px[f].phase = "none"
  /\ Cardinality(InFlight) < maxConnAttempts
  /\ Set(f, [px[f] EXCEPT !.phase = "handshake", !.slot = TRUE])

\* CreateEndpoint; when it fails, Complete(true) answers with a RST.  What
\* setSocketOptions returns is only logged.
CreateEndpoint(f, ok) ==
  IF ok THEN [px[f] EXCEPT !.phase = "dial", !.local = "open"]
  ELSE [px[f] EXCEPT !.phase = "closed", !.slot = FALSE]
TcpEndpoint(f) ==
  /\ px[f].phase = "handshake"
  /\ \E ok \in BOOLEAN : Set(f, CreateEndpoint(f, ok))

\* HandleTCP: SOCKS5 or Dial fails, or the relay is started.
Relay(s) == [s EXCEPT !.phase = "relay", !.proxy = "open", !.up = "start", !.down = "start"]
HandleTCP(f, ok) ==
  IF ok THEN Relay(px[f]) ELSE [px[f] EXCEPT !.phase = "closed", !.local = "closed"]
TcpDial(f) ==
  /\ px[f].phase = "dial"
  /\ \E ok \in BOOLEAN : Set(f, HandleTCP(f, ok))

\* The forwarder's deferred Complete(false), once HandleTCP has returned.
TcpComplete(f) ==
  /\ px[f].local # "none" /\ px[f].phase \in {"relay", "closed"} /\ px[f].slot
  /\ Set(f, [px[f] EXCEPT !.slot = FALSE])

\* copySource2Destination(s, d): the deadlines are set for reads from s and
\* writes to d, once, and io.Copy(s, d) reads from d and writes to s, so that
\* each goroutine is stopped by the deadlines the other one set (its read and
\* its write deadline are the same, so that AtOnce looks at the first).
StartCopy_WriteOnly(s, s_is) ==
  IF s_is = "local" THEN [s EXCEPT !.proxyWrite = timeout, !.down = "copy"]
  ELSE [s EXCEPT !.localWrite = timeout, !.up = "copy"]
StartCopy(s, s_is) ==
  IF s_is = "local" THEN [s EXCEPT !.localRead = timeout, !.proxyWrite = timeout, !.down = "copy"]
  ELSE [s EXCEPT !.proxyRead = timeout, !.localWrite = timeout, !.up = "copy"]
TcpStart(f) ==
  /\ px[f].proto = "tcp" /\ px[f].phase = "relay"
  /\ \/ px[f].down = "start" /\ Set(f, StartCopy(px[f], "local"))
     \/ px[f].up = "start" /\ Set(f, StartCopy(px[f], "proxy"))

\* io.Copy returns: the end of the stream, an error or a deadline.
TcpCopyEnds(f) ==
  /\ px[f].proto = "tcp"
  /\ \/ px[f].down = "copy" /\ Set(f, [px[f] EXCEPT !.down = "done"])
     \/ px[f].up = "copy" /\ Set(f, [px[f] EXCEPT !.up = "done"])

\* wg.Wait returns, and the deferred calls close both connections.
Closed(s) == [s EXCEPT !.phase = "closed", !.local = "closed", !.proxy = "closed", !.waits = -1]
RelayEnds(f) ==
  /\ px[f].phase = "relay" /\ px[f].up = "done" /\ px[f].down = "done"
  /\ Set(f, Closed(px[f]))
-----------------------------------------------------------------------------
\* The UDP forwarder calls HandleUDP in gVisor's thread; the packet that made
\* it do so is in the endpoint's queue.
HandleUDP(f, ok) ==
  IF ok THEN [Relay(px[f]) EXCEPT !.local = "open", !.up = "read", !.down = "read",
                                  !.localRead = timeout, !.proxyRead = timeout, !.waits = 0]
  ELSE [px[f] EXCEPT !.phase = "closed", !.local = "closed"]
UdpRequest(f) ==
  /\ px[f].proto = "udp" /\ px[f].phase = "none"
  /\ \/ \E ok \in BOOLEAN : Set(f, HandleUDP(f, ok))
     \/ Set(f, [px[f] EXCEPT !.phase = "closed"])      \* CreateEndpoint fails

\* The application sends: the packet waits in the endpoint.
AppSends(f) ==
  /\ px[f].proto = "udp" /\ px[f].local = "open" /\ px[f].waits = -1
  /\ Set(f, [px[f] EXCEPT !.waits = 0])

\* A turn of the loop of sendUdpPacket2RemoteDestination, which ends when the
\* read or the write fails; the deadline is renewed before each read.
sendUdpPacket2RemoteDestination(s, ok) ==
  IF ok THEN [s EXCEPT !.waits = -1, !.quiet = 0, !.localRead = timeout]
  ELSE [s EXCEPT !.up = "done", !.localRead = NoDeadline]
UdpUp(f) ==
  /\ px[f].up = "read"
  /\ \/ px[f].waits >= 0 /\ Set(f, sendUdpPacket2RemoteDestination(px[f], TRUE))
     \/ Set(f, sendUdpPacket2RemoteDestination(px[f], FALSE))

\* A turn of the loop of copyFromRemote2LocalDestination.
copyFromRemote2LocalDestination(s, ok) ==
  IF ok THEN [s EXCEPT !.quiet = 0, !.proxyRead = timeout]
  ELSE [s EXCEPT !.down = "done", !.proxyRead = NoDeadline]
UdpDown(f) ==
  /\ px[f].down = "read"
  /\ \E ok \in BOOLEAN : Set(f, copyFromRemote2LocalDestination(px[f], ok))
-----------------------------------------------------------------------------
\* What would happen at once: a tick has to wait for it.
AtOnce(s) ==
  \/ s.up = "start" \/ s.down = "start"
  \/ s.phase = "relay" /\ s.up = "done" /\ s.down = "done"
  \/ s.up \in {"copy", "read"} /\ s.localRead = 0
  \/ s.down \in {"copy", "read"} /\ s.proxyRead = 0
  \/ s.up = "read" /\ s.waits >= 0
TickDown(t) == IF t \in 1..timeout THEN t - 1 ELSE t
Capped(n) == IF n > timeout THEN n ELSE n + 1
TickFlow(s) ==
  [s EXCEPT !.localRead = TickDown(@), !.localWrite = TickDown(@), !.proxyRead = TickDown(@),
            !.proxyWrite = TickDown(@), !.age = IF s.phase = "relay" THEN Capped(@) ELSE @,
            !.quiet = IF s.phase = "relay" THEN Capped(@) ELSE @,
            !.waits = IF @ >= 0 THEN Capped(@) ELSE @]
GpxTick ==
  /\ \A f \in Flows : ~AtOnce(px[f])
  /\ px' = [f \in Flows |-> TickFlow(px[f])]

GpxNext ==
  \/ GpxTick
  \/ \E f \in Flows :
       \/ TcpRequest(f) \/ TcpEndpoint(f) \/ TcpDial(f) \/ TcpComplete(f) \/ TcpStart(f)
       \/ TcpCopyEnds(f) \/ RelayEnds(f) \/ UdpRequest(f) \/ AppSends(f) \/ UdpUp(f) \/ UdpDown(f)

GpxSpec == GpxInit /\ [][GpxNext]_px
-----------------------------------------------------------------------------
\* The application's endpoint is open only while a handler or a relay will
\* still close it, and so is the connection to the proxy; a flow that ends has
\* closed both, and counts as in flight only if Complete is still to come.
FlowsReleased ==
  \A f \in Flows :
    /\ px[f].local = "open" => px[f].phase \in {"dial", "relay"}
    /\ px[f].proxy = "open" => px[f].phase = "relay"
    /\ px[f].slot => px[f].phase = "handshake" \/ px[f].local # "none"

\* A TCP relay runs for no longer than timeout, whether or not its two streams
\* end: the deadlines set by each copy goroutine stop the other one.
TcpRelayBounded == \A f \in Flows : px[f].proto = "tcp" => px[f].age <= timeout

\* A UDP relay ends when no packet has been read from either side for timeout.
UdpSilenceEnds ==
  \A f \in Flows : px[f].proto = "udp" /\ px[f].phase = "relay" => px[f].quiet <= timeout

(* A flow, over failures at every step, pauses and timeouts: what it holds is *)
(* given back, and its relay ends in time.                                    *)
FlowsBounded == FlowsReleased /\ TcpRelayBounded /\ UdpSilenceEnds
=============================================================================
