-------------------------- MODULE GvisorProxyProofs --------------------------
(* The flows of the gVisor stack give back what they hold and end in time,   *)
(* for any number of flows and any timeout.  What a deadline bounds is not   *)
(* inductive by itself: FlowInv says how far each deadline is from the time  *)
(* the relay has run (TCP) or has read nothing (UDP).                        *)
EXTENDS GvisorProxy, TLAPS

Phases == {"none", "handshake", "dial", "relay", "closed"}
Ends == {"none", "open", "closed"}
Legs == {"none", "start", "copy", "read", "done"}
Deadlines == 0..timeout \cup {NoDeadline}
Waits == Int
FlowRecs ==
  [proto : {"tcp", "udp"}, phase : Phases, slot : BOOLEAN, local : Ends, proxy : Ends,
   up : Legs, down : Legs, localRead : Deadlines, localWrite : Deadlines,
   proxyRead : Deadlines, proxyWrite : Deadlines, age : Nat, quiet : Nat, waits : Waits]

\* Which connections a flow holds in each phase.
HoldsInv(s) ==
  /\ s.local = "open" => s.phase \in {"dial", "relay"}
  /\ s.proxy = "open" => s.phase = "relay"
  /\ s.slot => s.phase = "handshake" \/ s.local # "none"
  /\ s.phase = "dial" => s.local = "open"
  /\ s.phase # "relay" => s.up \in {"none", "done"} /\ s.down \in {"none", "done"}

\* A TCP relay: the clock stands still until both goroutines have set their
\* deadlines, and each deadline is then the time that is left.
TcpInv(s) ==
  /\ s.age <= timeout
  /\ s.phase \in {"none", "handshake", "dial"} => s.age = 0
  /\ s.phase = "relay" =>
       /\ s.up \in {"start", "copy", "done"} /\ s.down \in {"start", "copy", "done"}
       /\ s.up = "start" \/ s.down = "start" => s.age = 0
       /\ s.down # "start" => s.localRead = timeout - s.age
       /\ s.up # "start" => s.proxyRead = timeout - s.age

\* A UDP relay: a goroutine that reads gives up no later than the silence has
\* lasted for timeout.
UdpInv(s) ==
  /\ s.phase \in {"none", "relay", "closed"}
  /\ s.phase = "none" => s.quiet = 0
  /\ s.phase = "relay" =>
       /\ s.quiet <= timeout
       /\ s.up \in {"read", "done"} /\ s.down \in {"read", "done"}
       /\ s.up = "read" => s.localRead <= timeout - s.quiet
       /\ s.down = "read" => s.proxyRead <= timeout - s.quiet

FlowInv(s) ==
  /\ s \in FlowRecs
  /\ HoldsInv(s)
  /\ s.proto = "tcp" => TcpInv(s)
  /\ s.proto = "udp" => UdpInv(s)

GpxInv == /\ px \in [Flows -> FlowRecs]
          /\ \A f \in Flows : FlowInv(px[f])
-----------------------------------------------------------------------------
\* The values the steps write are in the ranges of a flow.
LEMMA Ranges ==
  /\ {"none", "handshake", "dial", "relay", "closed"} \subseteq Phases
  /\ {"none", "open", "closed"} \subseteq Ends
  /\ {"none", "start", "copy", "read", "done"} \subseteq Legs
  /\ timeout \in Deadlines /\ NoDeadline \in Deadlines /\ Deadlines \subseteq Nat
  /\ -1 \in Waits /\ 0 \in Waits
  BY FlowAssumption DEF Phases, Ends, Legs, Deadlines, Waits

\* No flow exists at first.
LEMMA GpxInvInit == GpxInit => GpxInv
  <1> SUFFICES ASSUME NEW proto \in [Flows -> {"tcp", "udp"}],
                      px = [f \in Flows |-> NewFlow(proto[f])]
               PROVE  GpxInv
    BY DEF GpxInit
  <1>1. ASSUME NEW f \in Flows PROVE px[f] \in FlowRecs
    BY Ranges DEF NewFlow, FlowRecs
  <1>2. ASSUME NEW f \in Flows PROVE FlowInv(px[f])
    BY <1>1, FlowAssumption DEF NewFlow, FlowInv, HoldsInv, TcpInv, UdpInv
  <1> QED BY <1>1, <1>2 DEF GpxInv

\* What a tick does to the fields of a flow.
LEMMA TickFields ==
  ASSUME NEW s \in FlowRecs
  PROVE  LET t == TickFlow(s) IN
         /\ t \in FlowRecs
         /\ t.proto = s.proto /\ t.phase = s.phase /\ t.slot = s.slot
         /\ t.local = s.local /\ t.proxy = s.proxy /\ t.up = s.up /\ t.down = s.down
         /\ t.localRead = TickDown(s.localRead) /\ t.proxyRead = TickDown(s.proxyRead)
         /\ t.age = IF s.phase = "relay" THEN Capped(s.age) ELSE s.age
         /\ t.quiet = IF s.phase = "relay" THEN Capped(s.quiet) ELSE s.quiet
  <1> DEFINE D == Deadlines
             lr == TickDown(s.localRead)
             lw == TickDown(s.localWrite)
             pr == TickDown(s.proxyRead)
             pw == TickDown(s.proxyWrite)
             ag == IF s.phase = "relay" THEN Capped(s.age) ELSE s.age
             qu == IF s.phase = "relay" THEN Capped(s.quiet) ELSE s.quiet
             wa == IF s.waits >= 0 THEN Capped(s.waits) ELSE s.waits
  <1>1. lr \in D /\ lw \in D /\ pr \in D /\ pw \in D
    BY FlowAssumption DEF FlowRecs, Deadlines, TickDown
  <1>2. ag \in Nat /\ qu \in Nat /\ wa \in Waits
    BY FlowAssumption DEF FlowRecs, Capped, Waits
  <1>3. TickFlow(s) = [s EXCEPT !.localRead = lr, !.localWrite = lw, !.proxyRead = pr,
                                !.proxyWrite = pw, !.age = ag, !.quiet = qu, !.waits = wa]
    BY DEF TickFlow
  <1> HIDE DEF lr, lw, pr, pw, ag, qu, wa, D
  <1>4. s \in [proto : {"tcp", "udp"}, phase : Phases, slot : BOOLEAN, local : Ends, proxy : Ends,
               up : Legs, down : Legs, localRead : D, localWrite : D,
               proxyRead : D, proxyWrite : D, age : Nat, quiet : Nat, waits : Waits]
    BY DEF FlowRecs, D
  <1>5. FlowRecs = [proto : {"tcp", "udp"}, phase : Phases, slot : BOOLEAN, local : Ends, proxy : Ends,
               up : Legs, down : Legs, localRead : D, localWrite : D,
               proxyRead : D, proxyWrite : D, age : Nat, quiet : Nat, waits : Waits]
    BY DEF FlowRecs, D
  <1>6. /\ TickFlow(s) \in FlowRecs
         /\ TickFlow(s).localRead = lr /\ TickFlow(s).proxyRead = pr
         /\ TickFlow(s).age = ag /\ TickFlow(s).quiet = qu
    BY <1>1, <1>2, <1>3, <1>4, <1>5, ZenonT(30)
  <1>7. LET t == TickFlow(s) IN
         /\ t.proto = s.proto /\ t.phase = s.phase /\ t.slot = s.slot
         /\ t.local = s.local /\ t.proxy = s.proxy /\ t.up = s.up /\ t.down = s.down
    BY <1>1, <1>2, <1>3, <1>4, <1>5
  <1> QED BY <1>6, <1>7 DEF lr, pr, ag, qu

\* A tick: nothing that would happen at once is pending, so that a goroutine
\* of the relay still runs and its deadline is still ahead.
LEMMA TickKeeps == ASSUME NEW s, FlowInv(s), ~AtOnce(s) PROVE FlowInv(TickFlow(s))
  <1> DEFINE t == TickFlow(s)
  <1>1. s \in FlowRecs
    BY DEF FlowInv
  <1>2. /\ t \in FlowRecs
        /\ t.proto = s.proto /\ t.phase = s.phase /\ t.slot = s.slot
        /\ t.local = s.local /\ t.proxy = s.proxy /\ t.up = s.up /\ t.down = s.down
        /\ t.localRead = TickDown(s.localRead) /\ t.proxyRead = TickDown(s.proxyRead)
        /\ t.age = IF s.phase = "relay" THEN Capped(s.age) ELSE s.age
        /\ t.quiet = IF s.phase = "relay" THEN Capped(s.quiet) ELSE s.quiet
    BY <1>1, TickFields
  <1>3. /\ s.localRead \in Deadlines /\ s.proxyRead \in Deadlines
        /\ s.age \in Nat /\ s.quiet \in Nat
    BY <1>1 DEF FlowRecs
  <1> HIDE DEF t
  <1>4. HoldsInv(t)
    BY <1>2 DEF FlowInv, HoldsInv
  <1>5. ASSUME s.proto = "tcp" PROVE TcpInv(t)
    <2>1. TcpInv(s)
      BY <1>5 DEF FlowInv
    <2>2. CASE s.phase # "relay"
      BY <1>2, <2>1, <2>2 DEF TcpInv
    <2>3. CASE s.phase = "relay"
      <3>1. /\ s.up # "start" /\ s.down # "start"
            /\ s.localRead = timeout - s.age /\ s.proxyRead = timeout - s.age
            /\ s.up = "copy" \/ s.down = "copy"
        BY <2>1, <2>3 DEF TcpInv, AtOnce
      <3>2. s.localRead >= 1
        BY <1>3, <2>1, <3>1, FlowAssumption DEF TcpInv, AtOnce
      <3> QED BY <1>2, <1>3, <2>1, <2>3, <3>1, <3>2, FlowAssumption DEF TcpInv, TickDown, Capped
    <2> QED BY <2>2, <2>3
  <1>6. ASSUME s.proto = "udp" PROVE UdpInv(t)
    <2>1. UdpInv(s)
      BY <1>6 DEF FlowInv
    <2>2. CASE s.phase # "relay"
      BY <1>2, <2>1, <2>2 DEF UdpInv
    <2>3. CASE s.phase = "relay"
      <3>1. s.up = "read" \/ s.down = "read"
        BY <2>1, <2>3 DEF UdpInv, AtOnce
      <3>2. /\ s.up = "read" => s.localRead >= 1 /\ s.localRead <= timeout - s.quiet
            /\ s.down = "read" => s.proxyRead >= 1 /\ s.proxyRead <= timeout - s.quiet
        BY <1>3, <2>1, <2>3, FlowAssumption DEF UdpInv, AtOnce, Deadlines
      <3>3. t.quiet = s.quiet + 1
        BY <1>2, <1>3, <2>1, <2>3, FlowAssumption DEF UdpInv, Capped
      <3>4. /\ s.up = "read" => t.localRead = s.localRead - 1
            /\ s.down = "read" => t.proxyRead = s.proxyRead - 1
        BY <1>2, <1>3, <3>2, FlowAssumption DEF TickDown, Deadlines
      <3>5. t.quiet <= timeout
        BY <1>3, <3>1, <3>2, <3>3, FlowAssumption DEF Deadlines
      <3> QED BY <1>2, <1>3, <2>1, <2>3, <3>2, <3>3, <3>4, <3>5, FlowAssumption
              DEF UdpInv, Deadlines
    <2> QED BY <2>2, <2>3
  <1> QED BY <1>2, <1>4, <1>5, <1>6 DEF FlowInv, t

\* TcpRequest.
LEMMA RequestKeeps ==
  ASSUME NEW s, FlowInv(s), s.proto = "tcp", s.phase = "none"
  PROVE  FlowInv([s EXCEPT !.phase = "handshake", !.slot = TRUE])
  <1> DEFINE t == [s EXCEPT !.phase = "handshake", !.slot = TRUE]
  <1>1. s \in FlowRecs
    BY DEF FlowInv
  <1>2. t \in FlowRecs
    BY <1>1, Ranges, Zenon DEF FlowRecs
  <1>3. HoldsInv(t) /\ t.proto = s.proto
    BY <1>1 DEF FlowRecs, FlowInv, HoldsInv, TcpInv, UdpInv
  <1>4. s.proto = "tcp" => TcpInv(t)
    BY <1>1, FlowAssumption DEF FlowRecs, FlowInv, TcpInv
  <1>5. s.proto = "udp" => UdpInv(t)
    BY <1>1, FlowAssumption DEF FlowRecs, FlowInv, UdpInv
  <1> QED BY <1>2, <1>3, <1>4, <1>5 DEF FlowInv

\* CreateEndpoint.
LEMMA EndpointKeeps ==
  ASSUME NEW s, FlowInv(s), s.phase = "handshake"
  PROVE  FlowInv([s EXCEPT !.phase = "dial", !.local = "open"])
  <1> DEFINE t == [s EXCEPT !.phase = "dial", !.local = "open"]
  <1>1. s \in FlowRecs
    BY DEF FlowInv
  <1>2. t \in FlowRecs
    BY <1>1, Ranges, Zenon DEF FlowRecs
  <1>3. HoldsInv(t) /\ t.proto = s.proto
    BY <1>1 DEF FlowRecs, FlowInv, HoldsInv, TcpInv, UdpInv
  <1>4. s.proto = "tcp" => TcpInv(t)
    BY <1>1, FlowAssumption DEF FlowRecs, FlowInv, TcpInv
  <1>5. s.proto = "udp" => UdpInv(t)
    BY <1>1, FlowAssumption DEF FlowRecs, FlowInv, UdpInv
  <1> QED BY <1>2, <1>3, <1>4, <1>5 DEF FlowInv

\* CreateEndpoint fails, or HandleUDP is not reached.
LEMMA NoEndpointKeeps ==
  ASSUME NEW s, FlowInv(s), s.phase = "handshake"
  PROVE  FlowInv([s EXCEPT !.phase = "closed", !.slot = FALSE])
  <1> DEFINE t == [s EXCEPT !.phase = "closed", !.slot = FALSE]
  <1>1. s \in FlowRecs
    BY DEF FlowInv
  <1>2. t \in FlowRecs
    BY <1>1, Ranges, Zenon DEF FlowRecs
  <1>3. HoldsInv(t) /\ t.proto = s.proto
    BY <1>1 DEF FlowRecs, FlowInv, HoldsInv, TcpInv, UdpInv
  <1>4. s.proto = "tcp" => TcpInv(t)
    BY <1>1, FlowAssumption DEF FlowRecs, FlowInv, TcpInv
  <1>5. s.proto = "udp" => UdpInv(t)
    BY <1>1, FlowAssumption DEF FlowRecs, FlowInv, UdpInv
  <1> QED BY <1>2, <1>3, <1>4, <1>5 DEF FlowInv

\* The relay of a TCP flow is started.
LEMMA RelayKeeps ==
  ASSUME NEW s, FlowInv(s), s.phase = "dial"
  PROVE  FlowInv(Relay(s))
  <1> DEFINE t == Relay(s)
  <1>1. s \in FlowRecs
    BY DEF FlowInv
  <1>2. t \in FlowRecs
    BY <1>1, Ranges, Zenon DEF FlowRecs, Relay
  <1>3. HoldsInv(t) /\ t.proto = s.proto
    BY <1>1 DEF FlowRecs, FlowInv, HoldsInv, TcpInv, UdpInv, Relay
  <1>4. s.proto = "tcp" => TcpInv(t)
    BY <1>1, FlowAssumption DEF FlowRecs, FlowInv, TcpInv, Relay
  <1>5. s.proto = "udp" => UdpInv(t)
    BY <1>1, FlowAssumption DEF FlowRecs, FlowInv, UdpInv, Relay
  <1> QED BY <1>2, <1>3, <1>4, <1>5 DEF FlowInv

\* The dial fails.
LEMMA NoDialKeeps ==
  ASSUME NEW s, FlowInv(s), s.phase = "dial"
  PROVE  FlowInv([s EXCEPT !.phase = "closed", !.local = "closed"])
  <1> DEFINE t == [s EXCEPT !.phase = "closed", !.local = "closed"]
  <1>1. s \in FlowRecs
    BY DEF FlowInv
  <1>2. t \in FlowRecs
    BY <1>1, Ranges, Zenon DEF FlowRecs
  <1>3. HoldsInv(t) /\ t.proto = s.proto
    BY <1>1 DEF FlowRecs, FlowInv, HoldsInv, TcpInv, UdpInv
  <1>4. s.proto = "tcp" => TcpInv(t)
    BY <1>1, FlowAssumption DEF FlowRecs, FlowInv, TcpInv
  <1>5. s.proto = "udp" => UdpInv(t)
    BY <1>1, FlowAssumption DEF FlowRecs, FlowInv, UdpInv
  <1> QED BY <1>2, <1>3, <1>4, <1>5 DEF FlowInv

\* Complete.
LEMMA CompleteKeeps ==
  ASSUME NEW s, FlowInv(s), s.phase \in {"relay", "closed"}
  PROVE  FlowInv([s EXCEPT !.slot = FALSE])
  <1> DEFINE t == [s EXCEPT !.slot = FALSE]
  <1>1. s \in FlowRecs
    BY DEF FlowInv
  <1>2. t \in FlowRecs
    BY <1>1, Ranges, Zenon DEF FlowRecs
  <1>3. HoldsInv(t) /\ t.proto = s.proto
    BY <1>1 DEF FlowRecs, FlowInv, HoldsInv, TcpInv, UdpInv
  <1>4. s.proto = "tcp" => TcpInv(t)
    BY <1>1, FlowAssumption DEF FlowRecs, FlowInv, TcpInv
  <1>5. s.proto = "udp" => UdpInv(t)
    BY <1>1, FlowAssumption DEF FlowRecs, FlowInv, UdpInv
  <1> QED BY <1>2, <1>3, <1>4, <1>5 DEF FlowInv

\* The goroutine that writes to the application sets its deadlines.
LEMMA StartDownKeeps ==
  ASSUME NEW s, FlowInv(s), s.proto = "tcp", s.phase = "relay", s.down = "start"
  PROVE  FlowInv(StartCopy(s, "local"))
  <1> DEFINE t == StartCopy(s, "local")
  <1>1. s \in FlowRecs
    BY DEF FlowInv
  <1>2. t \in FlowRecs
    BY <1>1, Ranges, Zenon DEF FlowRecs, StartCopy
  <1>3. HoldsInv(t) /\ t.proto = s.proto
    BY <1>1 DEF FlowRecs, FlowInv, HoldsInv, TcpInv, UdpInv, StartCopy
  <1>4. s.proto = "tcp" => TcpInv(t)
    BY <1>1, FlowAssumption DEF FlowRecs, FlowInv, TcpInv, StartCopy
  <1>5. s.proto = "udp" => UdpInv(t)
    BY <1>1, FlowAssumption DEF FlowRecs, FlowInv, UdpInv, StartCopy
  <1> QED BY <1>2, <1>3, <1>4, <1>5 DEF FlowInv

\* The goroutine that writes to the proxy sets its deadlines.
LEMMA StartUpKeeps ==
  ASSUME NEW s, FlowInv(s), s.proto = "tcp", s.phase = "relay", s.up = "start"
  PROVE  FlowInv(StartCopy(s, "proxy"))
  <1> DEFINE t == StartCopy(s, "proxy")
  <1>1. s \in FlowRecs
    BY DEF FlowInv
  <1>2. t \in FlowRecs
    BY <1>1, Ranges, Zenon DEF FlowRecs, StartCopy
  <1>3. HoldsInv(t) /\ t.proto = s.proto
    BY <1>1 DEF FlowRecs, FlowInv, HoldsInv, TcpInv, UdpInv, StartCopy
  <1>4. s.proto = "tcp" => TcpInv(t)
    BY <1>1, FlowAssumption DEF FlowRecs, FlowInv, TcpInv, StartCopy
  <1>5. s.proto = "udp" => UdpInv(t)
    BY <1>1, FlowAssumption DEF FlowRecs, FlowInv, UdpInv, StartCopy
  <1> QED BY <1>2, <1>3, <1>4, <1>5 DEF FlowInv

\* One of the copies ends.
LEMMA DownEndsKeeps ==
  ASSUME NEW s, FlowInv(s), s.proto = "tcp", s.down = "copy"
  PROVE  FlowInv([s EXCEPT !.down = "done"])
  <1> DEFINE t == [s EXCEPT !.down = "done"]
  <1>1. s \in FlowRecs
    BY DEF FlowInv
  <1>2. t \in FlowRecs
    BY <1>1, Ranges DEF FlowRecs
  <1>3. HoldsInv(t) /\ t.proto = s.proto
    BY <1>1 DEF FlowRecs, FlowInv, HoldsInv, TcpInv, UdpInv
  <1>4. s.proto = "tcp" => TcpInv(t)
    BY <1>1, FlowAssumption DEF FlowRecs, FlowInv, TcpInv
  <1>5. s.proto = "udp" => UdpInv(t)
    BY <1>1, FlowAssumption DEF FlowRecs, FlowInv, UdpInv
  <1> QED BY <1>2, <1>3, <1>4, <1>5 DEF FlowInv

\* The other one ends.
LEMMA UpEndsKeeps ==
  ASSUME NEW s, FlowInv(s), s.proto = "tcp", s.up = "copy"
  PROVE  FlowInv([s EXCEPT !.up = "done"])
  <1> DEFINE t == [s EXCEPT !.up = "done"]
  <1>1. s \in FlowRecs
    BY DEF FlowInv
  <1>2. t \in FlowRecs
    BY <1>1, Ranges DEF FlowRecs
  <1>3. HoldsInv(t) /\ t.proto = s.proto
    BY <1>1 DEF FlowRecs, FlowInv, HoldsInv, TcpInv, UdpInv
  <1>4. s.proto = "tcp" => TcpInv(t)
    BY <1>1, FlowAssumption DEF FlowRecs, FlowInv, TcpInv
  <1>5. s.proto = "udp" => UdpInv(t)
    BY <1>1, FlowAssumption DEF FlowRecs, FlowInv, UdpInv
  <1> QED BY <1>2, <1>3, <1>4, <1>5 DEF FlowInv

\* The relay ends.
LEMMA ClosedKeeps ==
  ASSUME NEW s, FlowInv(s), s.phase = "relay", s.up = "done", s.down = "done"
  PROVE  FlowInv(Closed(s))
  <1> DEFINE t == Closed(s)
  <1>1. s \in FlowRecs
    BY DEF FlowInv
  <1>2. t \in FlowRecs
    BY <1>1, Ranges, Zenon DEF FlowRecs, Closed
  <1>3. HoldsInv(t) /\ t.proto = s.proto
    BY <1>1 DEF FlowRecs, FlowInv, HoldsInv, TcpInv, UdpInv, Closed
  <1>4. s.proto = "tcp" => TcpInv(t)
    BY <1>1, FlowAssumption DEF FlowRecs, FlowInv, TcpInv, Closed
  <1>5. s.proto = "udp" => UdpInv(t)
    BY <1>1, FlowAssumption DEF FlowRecs, FlowInv, UdpInv, Closed
  <1> QED BY <1>2, <1>3, <1>4, <1>5 DEF FlowInv

\* HandleUDP starts the relay of a UDP flow.
LEMMA UdpRelayKeeps ==
  ASSUME NEW s, FlowInv(s), s.proto = "udp", s.phase = "none"
  PROVE  FlowInv([Relay(s) EXCEPT !.local = "open", !.up = "read", !.down = "read",
                            !.localRead = timeout, !.proxyRead = timeout, !.waits = 0])
  <1> DEFINE t == [Relay(s) EXCEPT !.local = "open", !.up = "read", !.down = "read",
                            !.localRead = timeout, !.proxyRead = timeout, !.waits = 0]
  <1>1. s \in FlowRecs
    BY DEF FlowInv
  <1>2. t \in FlowRecs
    <2>1. Relay(s) \in FlowRecs
      BY <1>1, Ranges, Zenon DEF FlowRecs, Relay
    <2> QED BY <2>1, Ranges, Zenon DEF FlowRecs
  <1>3. HoldsInv(t) /\ t.proto = s.proto
    BY <1>1 DEF FlowRecs, FlowInv, HoldsInv, TcpInv, UdpInv, Relay
  <1>4. s.proto = "tcp" => TcpInv(t)
    BY <1>1, FlowAssumption DEF FlowRecs, FlowInv, TcpInv, Relay
  <1>5. s.proto = "udp" => UdpInv(t)
    BY <1>1, FlowAssumption DEF FlowRecs, FlowInv, UdpInv, Relay
  <1> QED BY <1>2, <1>3, <1>4, <1>5 DEF FlowInv

\* HandleUDP fails.
LEMMA UdpRefusedKeeps ==
  ASSUME NEW s, FlowInv(s), s.proto = "udp", s.phase = "none"
  PROVE  FlowInv([s EXCEPT !.phase = "closed", !.local = "closed"])
  <1> DEFINE t == [s EXCEPT !.phase = "closed", !.local = "closed"]
  <1>1. s \in FlowRecs
    BY DEF FlowInv
  <1>2. t \in FlowRecs
    BY <1>1, Ranges, Zenon DEF FlowRecs
  <1>3. HoldsInv(t) /\ t.proto = s.proto
    BY <1>1 DEF FlowRecs, FlowInv, HoldsInv, TcpInv, UdpInv
  <1>4. s.proto = "tcp" => TcpInv(t)
    BY <1>1, FlowAssumption DEF FlowRecs, FlowInv, TcpInv
  <1>5. s.proto = "udp" => UdpInv(t)
    BY <1>1, FlowAssumption DEF FlowRecs, FlowInv, UdpInv
  <1> QED BY <1>2, <1>3, <1>4, <1>5 DEF FlowInv

\* The UDP endpoint is not created.
LEMMA UdpNoEndpointKeeps ==
  ASSUME NEW s, FlowInv(s), s.proto = "udp", s.phase = "none"
  PROVE  FlowInv([s EXCEPT !.phase = "closed"])
  <1> DEFINE t == [s EXCEPT !.phase = "closed"]
  <1>1. s \in FlowRecs
    BY DEF FlowInv
  <1>2. t \in FlowRecs
    BY <1>1, Ranges DEF FlowRecs
  <1>3. HoldsInv(t) /\ t.proto = s.proto
    BY <1>1 DEF FlowRecs, FlowInv, HoldsInv, TcpInv, UdpInv
  <1>4. s.proto = "tcp" => TcpInv(t)
    BY <1>1, FlowAssumption DEF FlowRecs, FlowInv, TcpInv
  <1>5. s.proto = "udp" => UdpInv(t)
    BY <1>1, FlowAssumption DEF FlowRecs, FlowInv, UdpInv
  <1> QED BY <1>2, <1>3, <1>4, <1>5 DEF FlowInv

\* The application sends.
LEMMA AppSendsKeeps ==
  ASSUME NEW s, FlowInv(s), s.local = "open"
  PROVE  FlowInv([s EXCEPT !.waits = 0])
  <1> DEFINE t == [s EXCEPT !.waits = 0]
  <1>1. s \in FlowRecs
    BY DEF FlowInv
  <1>2. t \in FlowRecs
    BY <1>1, Ranges DEF FlowRecs
  <1>3. HoldsInv(t) /\ t.proto = s.proto
    BY <1>1 DEF FlowRecs, FlowInv, HoldsInv, TcpInv, UdpInv
  <1>4. s.proto = "tcp" => TcpInv(t)
    BY <1>1, FlowAssumption DEF FlowRecs, FlowInv, TcpInv
  <1>5. s.proto = "udp" => UdpInv(t)
    BY <1>1, FlowAssumption DEF FlowRecs, FlowInv, UdpInv
  <1> QED BY <1>2, <1>3, <1>4, <1>5 DEF FlowInv

\* A turn of the UDP loop towards the proxy.
LEMMA UpTurnKeeps ==
  ASSUME NEW s, FlowInv(s), NEW ok \in BOOLEAN, s.up = "read"
  PROVE  FlowInv(sendUdpPacket2RemoteDestination(s, ok))
  <1> DEFINE t == sendUdpPacket2RemoteDestination(s, ok)
  <1>1. s \in FlowRecs
    BY DEF FlowInv
  <1>2. t \in FlowRecs
    <2>1. CASE ok
      BY <1>1, <2>1, Ranges, Zenon DEF FlowRecs, sendUdpPacket2RemoteDestination
    <2>2. CASE ~ok
      BY <1>1, <2>2, Ranges, Zenon DEF FlowRecs, sendUdpPacket2RemoteDestination
    <2> QED BY <2>1, <2>2
  <1>3. HoldsInv(t) /\ t.proto = s.proto
    BY <1>1 DEF FlowRecs, FlowInv, HoldsInv, TcpInv, UdpInv, sendUdpPacket2RemoteDestination
  <1>4. s.proto = "tcp" => TcpInv(t)
    BY <1>1, FlowAssumption DEF FlowRecs, FlowInv, TcpInv, sendUdpPacket2RemoteDestination
  <1>5. s.proto = "udp" => UdpInv(t)
    <2>1. s.localRead \in Nat /\ s.proxyRead \in Nat /\ s.quiet \in Nat
      BY <1>1, Ranges, Zenon DEF FlowRecs
    <2>2. CASE ok
      BY <1>1, <2>1, <2>2, FlowAssumption DEF FlowRecs, FlowInv, UdpInv, sendUdpPacket2RemoteDestination
    <2>3. CASE ~ok
      BY <1>1, <2>1, <2>3, FlowAssumption DEF FlowRecs, FlowInv, UdpInv, sendUdpPacket2RemoteDestination
    <2> QED BY <2>2, <2>3
  <1> QED BY <1>2, <1>3, <1>4, <1>5 DEF FlowInv

\* A turn of the UDP loop towards the application.
LEMMA DownTurnKeeps ==
  ASSUME NEW s, FlowInv(s), NEW ok \in BOOLEAN, s.down = "read"
  PROVE  FlowInv(copyFromRemote2LocalDestination(s, ok))
  <1> DEFINE t == copyFromRemote2LocalDestination(s, ok)
  <1>1. s \in FlowRecs
    BY DEF FlowInv
  <1>2. t \in FlowRecs
    <2>1. CASE ok
      BY <1>1, <2>1, Ranges, Zenon DEF FlowRecs, copyFromRemote2LocalDestination
    <2>2. CASE ~ok
      BY <1>1, <2>2, Ranges, Zenon DEF FlowRecs, copyFromRemote2LocalDestination
    <2> QED BY <2>1, <2>2
  <1>3. HoldsInv(t) /\ t.proto = s.proto
    BY <1>1 DEF FlowRecs, FlowInv, HoldsInv, TcpInv, UdpInv, copyFromRemote2LocalDestination
  <1>4. s.proto = "tcp" => TcpInv(t)
    BY <1>1, FlowAssumption DEF FlowRecs, FlowInv, TcpInv, copyFromRemote2LocalDestination
  <1>5. s.proto = "udp" => UdpInv(t)
    <2>1. s.localRead \in Nat /\ s.proxyRead \in Nat /\ s.quiet \in Nat
      BY <1>1, Ranges, ZenonT(30) DEF FlowRecs
    <2>2. CASE ok
      BY <1>1, <2>1, <2>2, FlowAssumption DEF FlowRecs, FlowInv, UdpInv, copyFromRemote2LocalDestination
    <2>3. CASE ~ok
      BY <1>1, <2>1, <2>3, FlowAssumption DEF FlowRecs, FlowInv, UdpInv, copyFromRemote2LocalDestination
    <2> QED BY <2>2, <2>3
  <1> QED BY <1>2, <1>3, <1>4, <1>5 DEF FlowInv

\* Every step of the proxy keeps the invariant.
LEMMA GpxInvNext == GpxInv /\ [GpxNext]_px => GpxInv'
  <1> SUFFICES ASSUME GpxInv, GpxNext PROVE GpxInv'
    BY DEF GpxInv
  <1>1. ASSUME NEW f \in Flows, NEW t, FlowInv(t), Set(f, t) PROVE GpxInv'
    BY <1>1 DEF GpxInv, Set, FlowInv
  <1>2. CASE GpxTick
    <2>1. \A f \in Flows : FlowInv(TickFlow(px[f]))
      BY <1>2, TickKeeps DEF GpxTick, GpxInv
    <2> QED BY <1>2, <2>1 DEF GpxTick, GpxInv, FlowInv
  <1>3. ASSUME NEW f \in Flows,
               TcpRequest(f) \/ TcpEndpoint(f) \/ TcpDial(f) \/ TcpComplete(f)
        PROVE  \E t : FlowInv(t) /\ Set(f, t)
    <2>1. FlowInv(px[f])
      BY DEF GpxInv
    <2>2. CASE TcpRequest(f)
      BY <2>1, <2>2, RequestKeeps, Zenon DEF TcpRequest
    <2>3. CASE TcpEndpoint(f)
      BY <2>1, <2>3, EndpointKeeps, NoEndpointKeeps, ZenonT(30) DEF TcpEndpoint, CreateEndpoint
    <2>4. CASE TcpDial(f)
      BY <2>1, <2>4, RelayKeeps, NoDialKeeps, Zenon DEF TcpDial, HandleTCP
    <2>5. CASE TcpComplete(f)
      BY <2>1, <2>5, CompleteKeeps DEF TcpComplete
    <2> QED BY <1>3, <2>2, <2>3, <2>4, <2>5
  <1>4. ASSUME NEW f \in Flows, TcpStart(f) \/ TcpCopyEnds(f) \/ RelayEnds(f)
        PROVE  \E t : FlowInv(t) /\ Set(f, t)
    <2>1. FlowInv(px[f])
      BY DEF GpxInv
    <2>2. CASE TcpStart(f)
      BY <2>1, <2>2, StartDownKeeps, StartUpKeeps DEF TcpStart
    <2>3. CASE TcpCopyEnds(f)
      BY <2>1, <2>3, DownEndsKeeps, UpEndsKeeps DEF TcpCopyEnds
    <2>4. CASE RelayEnds(f)
      BY <2>1, <2>4, ClosedKeeps, SMTT(30) DEF RelayEnds
    <2> QED BY <1>4, <2>2, <2>3, <2>4
  <1>5. ASSUME NEW f \in Flows, UdpRequest(f) \/ AppSends(f) \/ UdpUp(f) \/ UdpDown(f)
        PROVE  \E t : FlowInv(t) /\ Set(f, t)
    <2>1. FlowInv(px[f])
      BY DEF GpxInv
    <2>2. CASE UdpRequest(f)
      BY <2>1, <2>2, UdpRelayKeeps, UdpRefusedKeeps, UdpNoEndpointKeeps, Zenon DEF UdpRequest, HandleUDP
    <2>3. CASE AppSends(f)
      BY <2>1, <2>3, AppSendsKeeps DEF AppSends
    <2>4. CASE UdpUp(f)
      BY <2>1, <2>4, UpTurnKeeps, Zenon DEF UdpUp
    <2>5. CASE UdpDown(f)
      BY <2>1, <2>5, DownTurnKeeps DEF UdpDown
    <2> QED BY <1>5, <2>2, <2>3, <2>4, <2>5
  <1> QED BY <1>1, <1>2, <1>3, <1>4, <1>5 DEF GpxNext

\* Of any number of flows and for any timeout: what a flow of the gVisor stack
\* holds is given back when it ends, a TCP relay runs for no longer than
\* timeout, and a UDP relay does not outlive a silence of timeout.
THEOREM FlowsBoundedTheorem == GpxSpec => []FlowsBounded
  <1>1. GpxInv => FlowsBounded
    <2> SUFFICES ASSUME GpxInv PROVE FlowsBounded
      OBVIOUS
    <2>1. FlowsReleased
      BY DEF GpxInv, FlowInv, HoldsInv, FlowsReleased
    <2>2. TcpRelayBounded /\ UdpSilenceEnds
      BY DEF GpxInv, FlowInv, TcpInv, UdpInv, TcpRelayBounded, UdpSilenceEnds
    <2> QED BY <2>1, <2>2 DEF FlowsBounded
  <1> QED BY <1>1, GpxInvInit, GpxInvNext, PTL DEF GpxSpec
=============================================================================
