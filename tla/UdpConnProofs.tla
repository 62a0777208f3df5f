---------------------------- MODULE UdpConnProofs ----------------------------
(* What UdpConn's run checks of two sessions, for any number of sessions,    *)
(* source addresses and packets and any capacity of the queue.               *)
(*                                                                           *)
(* A packet is forwarded once because it is in one place at a time: with an  *)
(* actor, in a queue, or sent (PacketsInv).  A connected session has its     *)
(* socket because whoever closes the socket has closed the session before,   *)
(* and finds its goroutine past the step that sets the state (SocketsInv).   *)
EXTENDS UdpConn, TLAPS

\* Most leaves are first-order; the ones with arithmetic or records ask for SMT.
USE Zenon

States == {"none", "udpConnecting", "udpConnected", "udpClosed"}
CarryPcs == {"store", "receive", "check", "lookup", "write"}
ClosePcs == {"close", "delete", "unsock"}
Pcs == CarryPcs \union ClosePcs \union {"idle", "dial", "connected", "drain", "done"}
RxPcs == CarryPcs \union ClosePcs \union {"idle"}
SessionPcs == Pcs \ {"store", "receive", "check"}
StackPcs == {"idle", "close", "delete"}
SomeSession == Sessions \union {NoSession}
Frames == [pc : Pcs, conn : SomeSession, pkt : Nat]
Counts == [come : Nat, read : Nat, back : Nat]
Idles == [type : {"absent", "int32"}, n : Nat]
FetchPcs == {"none", "read", "write", "done"}

UdpTypes ==
    /\ ustate \in [Sessions -> States]
    /\ udpConns \in [Srcs -> SomeSession]
    /\ idle \in [Sessions -> Idles]
    /\ pending \in [Sessions -> Seq(Nat)]
    /\ sock \in [Sessions -> {"none", "open", "closed"}]
    /\ udpSocks \subseteq Sessions
    /\ sockTicks \in [Sessions -> {0, IdleTicks}]
    /\ at \in [Actors -> Frames]
    /\ fetch \in [Sessions -> FetchPcs]
    /\ answers \in [Sessions -> Counts]
    /\ sent \in [Sessions -> Seq(Nat)]
    /\ pkts \in Nat

\* Which steps an actor takes, and of which session.
ActorsInv ==
    /\ \A i \in Sessions : at[i].pc \in SessionPcs /\ (at[i].pc # "idle" => at[i].conn = i)
    /\ at[Rx].pc \in RxPcs /\ (at[Rx].pc # "idle" => at[Rx].conn \in Sessions)
    /\ at[Stack].pc \in StackPcs /\ (at[Stack].pc # "idle" => at[Stack].conn \in Sessions)

\* The session's goroutine has yet to set the state, or was not started.
BeforeConnected(i) == at[i].pc \in {"idle", "dial", "connected"}

\* The socket of a session is registered while it is open, and a connected
\* session has one.
SessionSock(i) ==
    /\ i \in udpSocks <=> sock[i] = "open"
    /\ ustate[i] = "udpConnected" => i \in udpSocks /\ ~BeforeConnected(i)
    /\ at[i].pc = "connected" => i \in udpSocks
    /\ at[i].pc \in {"delete", "unsock"} => ustate[i] # "udpConnected"

\* The reader of packets handles and closes only what has been connected.
RxSock ==
    /\ at[Rx].pc \in ClosePcs \union {"lookup", "write"} => ~BeforeConnected(at[Rx].conn)
    /\ at[Rx].pc \in {"delete", "unsock"} => ustate[at[Rx].conn] # "udpConnected"

SocketsInv == (\A i \in Sessions : SessionSock(i)) /\ RxSock

\* The actor has a packet that it may still queue or send.
Carries(a) == at[a].pc \in CarryPcs

PacketsInv ==
    /\ \A a \in Actors : Carries(a) => at[a].pkt <= pkts
    /\ \A i \in Sessions : \A k \in DOMAIN pending[i] : pending[i][k] <= pkts
    /\ \A i \in Sessions : \A k \in DOMAIN sent[i] : sent[i][k] <= pkts
    /\ \A a, b \in Actors : Carries(a) /\ Carries(b) /\ at[a].pkt = at[b].pkt => a = b
    /\ \A a \in Actors, i \in Sessions : \A k \in DOMAIN pending[i] :
          Carries(a) => at[a].pkt # pending[i][k]
    /\ \A a \in Actors, i \in Sessions : \A k \in DOMAIN sent[i] :
          Carries(a) => at[a].pkt # sent[i][k]
    /\ \A i, j \in Sessions : \A k \in DOMAIN pending[i], l \in DOMAIN pending[j] :
          pending[i][k] = pending[j][l] => i = j /\ k = l
    /\ \A i, j \in Sessions : \A k \in DOMAIN pending[i], l \in DOMAIN sent[j] :
          pending[i][k] # sent[j][l]
    /\ \A i, j \in Sessions : \A k \in DOMAIN sent[i], l \in DOMAIN sent[j] :
          sent[i][k] = sent[j][l] => i = j /\ k = l

CountsInv ==
    \A i \in Sessions :
        /\ Len(pending[i]) <= PendingCap
        /\ answers[i].back <= answers[i].read /\ answers[i].read <= answers[i].come
        /\ answers[i].come <= Len(sent[i])
        /\ fetch[i] = "write" => answers[i].back < answers[i].read

UdpInv == UdpTypes /\ ActorsInv /\ SocketsInv /\ PacketsInv /\ CountsInv
-----------------------------------------------------------------------------
(* One actor moves.                                                          *)

Moves(a, p, i, n) ==
    /\ at' \in [Actors -> Frames]
    /\ at'[a].pc = p /\ at'[a].conn = i /\ at'[a].pkt = n
    /\ \A b \in Actors : b # a => at'[b] = at[b]

\* An actor gets a new frame: the others keep theirs.
LEMMA FrameMoves ==
    ASSUME UdpTypes, NEW a \in Actors, NEW p \in Pcs, NEW i \in SomeSession, NEW n \in Nat,
           at' = [at EXCEPT ![a] = Frame(p, i, n)]
    PROVE  Moves(a, p, i, n)
  BY DEF UdpTypes, Frame, Frames, Moves

\* An actor becomes idle.
LEMMA IdleMoves ==
    ASSUME UdpTypes, NEW a \in Actors, at' = [at EXCEPT ![a] = Idle]
    PROVE  Moves(a, "idle", NoSession, 0)
  <1>1. "idle" \in Pcs /\ NoSession \in SomeSession /\ 0 \in Nat
    BY DEF Pcs, SomeSession
  <1> QED BY <1>1, FrameMoves DEF Idle

\* An actor goes to another step with the same packet.
LEMMA StepMoves ==
    ASSUME UdpTypes, NEW a \in Actors, NEW p \in Pcs, Step(a, p)
    PROVE  Moves(a, p, at[a].conn, at[a].pkt)
  <1>1. at[a] \in Frames
    BY DEF UdpTypes
  <1>2. [at[a] EXCEPT !.pc = p] \in Frames
    BY <1>1 DEF Frames
  <1>3. at' = [at EXCEPT ![a] = [at[a] EXCEPT !.pc = p]]
    BY DEF Step
  <1> QED BY <1>1, <1>2, <1>3 DEF UdpTypes, Frames, Moves

\* The same, written without Step.
LEMMA SetMoves ==
    ASSUME UdpTypes, NEW a \in Actors, NEW p \in Pcs,
           at' = [at EXCEPT ![a] = [at[a] EXCEPT !.pc = p]]
    PROVE  Moves(a, p, at[a].conn, at[a].pkt)
  BY StepMoves DEF Step
-----------------------------------------------------------------------------
(* Where the packets are.                                                    *)

\* No packet changes its place, unless an actor drops the one it has.
LEMMA PacketsStay ==
    ASSUME PacketsInv, UNCHANGED <<pending, sent, pkts>>,
           \A a \in Actors : Carries(a)' => Carries(a) /\ at'[a].pkt = at[a].pkt
    PROVE  PacketsInv'
  BY SMTT(30) DEF PacketsInv

\* udpRecvFn gets a packet.
LEMMA PacketComes ==
    ASSUME UdpTypes, PacketsInv, UNCHANGED <<pending, sent>>, pkts' = pkts + 1,
           Rx \in Actors, at'[Rx].pkt = pkts + 1,
           \A a \in Actors : a # Rx /\ Carries(a)' => Carries(a) /\ at'[a].pkt = at[a].pkt
    PROVE  PacketsInv'
  <1>1. pkts \in Nat /\ \A i \in Sessions : pending[i] \in Seq(Nat) /\ sent[i] \in Seq(Nat)
    BY DEF UdpTypes
  <1>2. \A i \in Sessions : \A k \in DOMAIN pending[i] : pending[i][k] \in Nat
    BY <1>1, SMTT(30)
  <1>3. \A i \in Sessions : \A k \in DOMAIN sent[i] : sent[i][k] \in Nat
    BY <1>1, SMTT(30)
  <1>4. \A a \in Actors : at[a].pkt \in Nat
    BY DEF UdpTypes, Frames
  <1>5. /\ \A i \in Sessions : \A k \in DOMAIN pending[i] : pending[i][k] < pkts + 1
        /\ \A i \in Sessions : \A k \in DOMAIN sent[i] : sent[i][k] < pkts + 1
        /\ \A a \in Actors : Carries(a) => at[a].pkt < pkts + 1
    BY <1>1, <1>2, <1>3, <1>4, SMTT(30) DEF PacketsInv
  <1>6. /\ \A i \in Sessions : \A k \in DOMAIN pending[i] :
             pending[i][k] <= pkts + 1 /\ pending[i][k] # pkts + 1
        /\ \A i \in Sessions : \A k \in DOMAIN sent[i] :
             sent[i][k] <= pkts + 1 /\ sent[i][k] # pkts + 1
        /\ \A a \in Actors : Carries(a) => at[a].pkt <= pkts + 1 /\ at[a].pkt # pkts + 1
        /\ pkts + 1 <= pkts + 1
    BY <1>1, <1>2, <1>3, <1>4, <1>5, SMTT(30)
  <1> DEFINE new == pkts + 1
  <1>7. /\ \A i \in Sessions : \A k \in DOMAIN pending[i] :
             pending[i][k] <= new /\ pending[i][k] # new
        /\ \A i \in Sessions : \A k \in DOMAIN sent[i] :
             sent[i][k] <= new /\ sent[i][k] # new
        /\ \A a \in Actors : Carries(a) => at[a].pkt <= new /\ at[a].pkt # new
        /\ new <= new
        /\ pkts' = new /\ at'[Rx].pkt = new
    BY <1>6
  <1> HIDE DEF new
  <1>8. /\ \A a \in Actors : Carries(a)' => at'[a].pkt <= new
        /\ \A a, b \in Actors : Carries(a)' /\ Carries(b)' /\ at'[a].pkt = at'[b].pkt => a = b
    BY <1>7 DEF PacketsInv
  <1>9. \A a \in Actors, i \in Sessions :
          /\ \A k \in DOMAIN pending[i] : Carries(a)' => at'[a].pkt # pending[i][k]
          /\ \A k \in DOMAIN sent[i] : Carries(a)' => at'[a].pkt # sent[i][k]
    BY <1>7, SMTT(30) DEF PacketsInv
  <1> QED BY <1>7, <1>8, <1>9, SMTT(30) DEF PacketsInv

\* A packet of an actor goes to the end of a queue.
LEMMA PacketQueued ==
    ASSUME UdpTypes, PacketsInv, NEW a \in Actors, Carries(a), ~Carries(a)',
           \A b \in Actors : b # a => at'[b] = at[b],
           NEW i \in Sessions, pending' = [pending EXCEPT ![i] = Append(@, at[a].pkt)],
           UNCHANGED <<sent, pkts>>
    PROVE  PacketsInv'
  <1> DEFINE n == at[a].pkt
  <1>1. n \in Nat /\ pending[i] \in Seq(Nat) /\ pkts \in Nat
    BY DEF UdpTypes, Frames
  <1>2. /\ DOMAIN pending'[i] = 1 .. Len(pending[i]) + 1 /\ Len(pending[i]) \in Nat
        /\ DOMAIN pending[i] = 1 .. Len(pending[i])
        /\ \A k \in DOMAIN pending[i] : pending'[i][k] = pending[i][k]
        /\ pending'[i][Len(pending[i]) + 1] = n
        /\ \A j \in Sessions : j # i => pending'[j] = pending[j]
    BY <1>1, SMTT(30) DEF UdpTypes
  <1> DEFINE e == Len(pending[i]) + 1
  <1>3. /\ \A k \in DOMAIN pending'[i] : k \in DOMAIN pending[i] \/ k = e
        /\ e \notin DOMAIN pending[i]
    BY <1>2, SMTT(30)
  <1>4. \A b \in Actors : Carries(b)' => b # a /\ Carries(b) /\ at'[b] = at[b]
    BY DEF Carries
  <1> HIDE DEF n, e
  <1>5. \A j \in Sessions : \A k \in DOMAIN pending'[j] :
          \/ k \in DOMAIN pending[j] /\ pending'[j][k] = pending[j][k]
          \/ j = i /\ k = e /\ pending'[j][k] = n
    BY <1>2, <1>3 DEF e
  <1>6. \A b \in Actors : Carries(b)' => at'[b].pkt # n
    BY <1>4, SMTT(30) DEF PacketsInv, n
  <1>7. /\ n <= pkts
        /\ \A j \in Sessions : \A k \in DOMAIN pending[j] : pending[j][k] # n
        /\ \A j \in Sessions : \A k \in DOMAIN sent[j] : sent[j][k] # n
    BY SMTT(30) DEF PacketsInv, n
  <1>8. \A j, l \in Sessions : \A k \in DOMAIN pending'[j], m \in DOMAIN pending'[l] :
          pending'[j][k] = pending'[l][m] => j = l /\ k = m
    BY <1>5, <1>7, SMTT(30) DEF PacketsInv
  <1>9. \A b \in Actors, j \in Sessions : \A k \in DOMAIN pending'[j] :
          Carries(b)' => at'[b].pkt # pending'[j][k]
    BY <1>4, <1>5, <1>6, SMTT(30) DEF PacketsInv
  <1>10. \A j, l \in Sessions : \A k \in DOMAIN pending'[j], m \in DOMAIN sent[l] :
          pending'[j][k] # sent[l][m]
    BY <1>5, <1>7, SMTT(30) DEF PacketsInv
  <1>11. \A j \in Sessions : \A k \in DOMAIN pending'[j] : pending'[j][k] <= pkts
    BY <1>5, <1>7, SMTT(30) DEF PacketsInv
  <1> QED BY <1>4, <1>8, <1>9, <1>10, <1>11, SMTT(30) DEF PacketsInv

\* DrainPending takes the first packet of a queue.
LEMMA PacketDrained ==
    ASSUME UdpTypes, PacketsInv, NEW i \in Sessions, i \in Actors, pending[i] # <<>>,
           ~Carries(i), at'[i].pkt = Head(pending[i]),
           \A b \in Actors : b # i => at'[b] = at[b],
           pending' = [pending EXCEPT ![i] = Tail(@)], UNCHANGED <<sent, pkts>>
    PROVE  PacketsInv'
  <1>1. pending[i] \in Seq(Nat)
    BY DEF UdpTypes
  <1> DEFINE n == pending[i][1]
  <1>2. /\ DOMAIN pending'[i] = 1 .. Len(pending[i]) - 1 /\ Len(pending[i]) \in Nat \ {0}
        /\ DOMAIN pending[i] = 1 .. Len(pending[i])
        /\ \A k \in DOMAIN pending'[i] : pending'[i][k] = pending[i][k + 1]
        /\ at'[i].pkt = n
        /\ \A j \in Sessions : j # i => pending'[j] = pending[j]
    BY <1>1, SMTT(30) DEF UdpTypes
  <1>3. /\ 1 \in DOMAIN pending[i]
        /\ \A k \in DOMAIN pending'[i] : k + 1 \in DOMAIN pending[i] /\ k + 1 # 1
    BY <1>2, SMTT(30)
  <1>4. \A b \in Actors : b # i => (Carries(b)' <=> Carries(b)) /\ at'[b] = at[b]
    BY DEF Carries
  <1>5. /\ n <= pkts
        /\ \A a \in Actors : Carries(a) => at[a].pkt # n
        /\ \A j \in Sessions : \A k \in DOMAIN sent[j] : sent[j][k] # n
        /\ \A j \in Sessions : \A k \in DOMAIN pending[j] : j # i \/ k # 1 => pending[j][k] # n
    BY <1>3, SMTT(30) DEF PacketsInv, n
  <1> HIDE DEF n
  <1> DEFINE Was(j, k) == IF j = i THEN k + 1 ELSE k
  <1>6. \A j \in Sessions : \A k \in DOMAIN pending'[j] :
          /\ Was(j, k) \in DOMAIN pending[j] /\ pending'[j][k] = pending[j][Was(j, k)]
          /\ j # i \/ Was(j, k) # 1
    BY <1>2, <1>3
  <1>7. \A j \in Sessions : \A k, m \in DOMAIN pending'[j] : Was(j, k) = Was(j, m) => k = m
    BY <1>2, SMTT(30)
  <1> HIDE DEF Was
  <1>8. \A j, l \in Sessions : \A k \in DOMAIN pending'[j], m \in DOMAIN pending'[l] :
          pending'[j][k] = pending'[l][m] => j = l /\ k = m
    BY <1>6, <1>7, SMTT(30) DEF PacketsInv
  <1>9. \A j \in Sessions : \A k \in DOMAIN pending'[j] : pending'[j][k] <= pkts
    BY <1>6, SMTT(30) DEF PacketsInv
  <1>10. \A j, l \in Sessions : \A k \in DOMAIN pending'[j], m \in DOMAIN sent[l] :
          pending'[j][k] # sent[l][m]
    BY <1>6, SMTT(30) DEF PacketsInv
  <1>11. \A b \in Actors : Carries(b)' => at'[b].pkt <= pkts
    BY <1>2, <1>4, <1>5 DEF PacketsInv
  <1>12. \A a, b \in Actors : Carries(a)' /\ Carries(b)' /\ at'[a].pkt = at'[b].pkt => a = b
    BY <1>2, <1>4, <1>5, SMTT(30) DEF PacketsInv
  <1>13. \A b \in Actors, j \in Sessions : \A k \in DOMAIN pending'[j] :
          Carries(b)' => at'[b].pkt # pending'[j][k]
    BY <1>2, <1>4, <1>5, <1>6, SMTT(30) DEF PacketsInv
  <1>14. \A b \in Actors, j \in Sessions : \A k \in DOMAIN sent[j] :
          Carries(b)' => at'[b].pkt # sent[j][k]
    BY <1>2, <1>4, <1>5, SMTT(30) DEF PacketsInv
  <1> QED BY <1>8, <1>9, <1>10, <1>11, <1>12, <1>13, <1>14, SMTT(30) DEF PacketsInv

\* The handler sends the packet of an actor.
LEMMA PacketSent ==
    ASSUME UdpTypes, PacketsInv, NEW a \in Actors, Carries(a), ~Carries(a)',
           \A b \in Actors : b # a => at'[b] = at[b],
           NEW i \in Sessions, sent' = [sent EXCEPT ![i] = Append(@, at[a].pkt)],
           UNCHANGED <<pending, pkts>>
    PROVE  PacketsInv'
  <1> DEFINE n == at[a].pkt
             e == Len(sent[i]) + 1
  <1>1. n \in Nat /\ sent[i] \in Seq(Nat) /\ pkts \in Nat
    BY DEF UdpTypes, Frames
  <1>2. /\ DOMAIN sent'[i] = 1 .. Len(sent[i]) + 1 /\ Len(sent[i]) \in Nat
        /\ DOMAIN sent[i] = 1 .. Len(sent[i])
        /\ \A k \in DOMAIN sent[i] : sent'[i][k] = sent[i][k]
        /\ sent'[i][Len(sent[i]) + 1] = n
        /\ \A j \in Sessions : j # i => sent'[j] = sent[j]
    BY <1>1, SMTT(30) DEF UdpTypes
  <1>3. \A k \in DOMAIN sent'[i] : k \in DOMAIN sent[i] \/ k = e
    BY <1>2, SMTT(30)
  <1>4. \A b \in Actors : Carries(b)' => b # a /\ Carries(b) /\ at'[b] = at[b]
    BY DEF Carries
  <1> HIDE DEF n, e
  <1>5. \A j \in Sessions : \A k \in DOMAIN sent'[j] :
          \/ k \in DOMAIN sent[j] /\ sent'[j][k] = sent[j][k]
          \/ j = i /\ k = e /\ sent'[j][k] = n
    BY <1>2, <1>3, SMTT(30) DEF e
  <1>6. \A b \in Actors : Carries(b)' => at'[b].pkt # n
    BY <1>4, SMTT(30) DEF PacketsInv, n
  <1>7. /\ n <= pkts
        /\ \A j \in Sessions : \A k \in DOMAIN pending[j] : pending[j][k] # n
        /\ \A j \in Sessions : \A k \in DOMAIN sent[j] : sent[j][k] # n
    BY SMTT(30) DEF PacketsInv, n
  <1>8. \A j, l \in Sessions : \A k \in DOMAIN sent'[j], m \in DOMAIN sent'[l] :
          sent'[j][k] = sent'[l][m] => j = l /\ k = m
    BY <1>5, <1>7, SMTT(30) DEF PacketsInv
  <1>9. \A b \in Actors, j \in Sessions : \A k \in DOMAIN sent'[j] :
          Carries(b)' => at'[b].pkt # sent'[j][k]
    BY <1>4, <1>5, <1>6, SMTT(30) DEF PacketsInv
  <1>10. \A j, l \in Sessions : \A k \in DOMAIN pending[j], m \in DOMAIN sent'[l] :
          pending[j][k] # sent'[l][m]
    BY <1>5, <1>7, SMTT(30) DEF PacketsInv
  <1>11. \A j \in Sessions : \A k \in DOMAIN sent'[j] : sent'[j][k] <= pkts
    BY <1>5, <1>7, SMTT(30) DEF PacketsInv
  <1> QED BY <1>4, <1>8, <1>9, <1>10, <1>11, SMTT(30) DEF PacketsInv
-----------------------------------------------------------------------------
(* The invariant is kept by every action.                                    *)

\* The actors are the receiver and one goroutine per session.
LEMMA ActorFacts ==
    /\ Rx \in Actors /\ Stack \in Actors /\ Sessions \subseteq Actors
    /\ Rx \notin Sessions /\ Stack \notin Sessions /\ Rx # Stack
    /\ \A a \in Actors : a = Rx \/ a = Stack \/ a \in Sessions
    /\ NoSession \notin Sessions
  BY SessionsAssumption DEF Actors

\* No session, no packet at first.
LEMMA UdpInvInit == Init => UdpInv
  <1> SUFFICES ASSUME Init PROVE UdpInv
    OBVIOUS
  <1>1. Idle \in Frames /\ Idle.pc = "idle"
    BY DEF Idle, Frame, Frames, Pcs, SomeSession
  <1>2. UdpTypes
    <2>1. at \in [Actors -> Frames]
      BY <1>1 DEF Init
    <2>2. answers \in [Sessions -> Counts] /\ idle \in [Sessions -> Idles]
      BY DEF Init, Counts, Idles
    <2>3. pending \in [Sessions -> Seq(Nat)] /\ sent \in [Sessions -> Seq(Nat)]
      BY SMTT(30) DEF Init
    <2> QED BY <2>1, <2>2, <2>3 DEF Init, UdpTypes, States, SomeSession, FetchPcs
  <1>3. \A a \in Actors : at[a].pc = "idle"
    BY <1>1 DEF Init
  <1>4. ActorsInv
    BY <1>3, ActorFacts DEF ActorsInv, SessionPcs, Pcs, RxPcs, StackPcs
  <1>5. SocketsInv
    BY <1>3, ActorFacts DEF Init, SocketsInv, SessionSock, RxSock, ClosePcs
  <1>6. PacketsInv
    BY <1>3, SMTT(30) DEF Init, PacketsInv, Carries, CarryPcs
  <1>7. CountsInv
    BY UdpBounds, SMTT(30) DEF Init, CountsInv
  <1> QED BY <1>2, <1>4, <1>5, <1>6, <1>7 DEF UdpInv

\* udpRecvFn finds the session of the source address.
LEMMA RecvKnownKeeps == ASSUME UdpInv, NEW s \in Srcs, RecvKnown(s) PROVE UdpInv'
  <1>0. UdpTypes /\ ActorsInv /\ SocketsInv /\ PacketsInv /\ CountsInv
    BY DEF UdpInv
  <1>1. udpConns[s] \in Sessions /\ at[Rx].pc = "idle"
    BY <1>0, SMTT(30) DEF RecvKnown, UdpTypes, SomeSession, Idle, Frame
  <1>2. Moves(Rx, "receive", udpConns[s], pkts + 1)
    <2>1. udpConns[s] \in SomeSession /\ pkts + 1 \in Nat /\ "receive" \in Pcs
      BY <1>0, <1>1, SMTT(30) DEF UdpTypes, SomeSession, Pcs, CarryPcs
    <2> QED BY <1>0, <2>1, FrameMoves, ActorFacts DEF RecvKnown
  <1>3. UdpTypes'
    BY <1>0, <1>2, SMTT(30) DEF UdpTypes, Moves, RecvKnown, sessVars, sockVars, proxyVars
  <1>4. ActorsInv'
    BY <1>0, <1>1, <1>2, ActorFacts DEF ActorsInv, Moves, RxPcs, CarryPcs
  <1>5. SocketsInv'
    BY <1>0, <1>2, ActorFacts
       DEF SocketsInv, SessionSock, RxSock, BeforeConnected, Moves, ClosePcs, RecvKnown, sessVars, sockVars
  <1>6. PacketsInv'
    BY <1>0, <1>2, PacketComes, ActorFacts DEF Moves, Carries, RecvKnown, sessVars, proxyVars
  <1>7. CountsInv'
    BY <1>0 DEF CountsInv, RecvKnown, sessVars, proxyVars
  <1> QED BY <1>3, <1>4, <1>5, <1>6, <1>7 DEF UdpInv

\* udpRecvFn makes a session and starts its Connect.
LEMMA RecvNewKeeps ==
    ASSUME UdpInv, NEW s \in Srcs, NEW i \in Sessions, RecvNew(s, i) PROVE UdpInv'
  <1>0. UdpTypes /\ ActorsInv /\ SocketsInv /\ PacketsInv /\ CountsInv
    BY DEF UdpInv
  <1> DEFINE f == Frame("store", i, pkts + 1)
             g == Frame("dial", i, 0)
  <1>1. /\ f \in Frames /\ f.pc = "store" /\ f.conn = i /\ f.pkt = pkts + 1
        /\ g \in Frames /\ g.pc = "dial" /\ g.conn = i
    <2>1. i \in SomeSession /\ pkts + 1 \in Nat /\ "store" \in Pcs /\ "dial" \in Pcs /\ 0 \in Nat
      BY <1>0, SMTT(30) DEF UdpTypes, SomeSession, Pcs, CarryPcs
    <2> QED BY <2>1 DEF Frame, Frames
  <1>2. at' = [at EXCEPT ![Rx] = f, ![i] = g]
    BY DEF RecvNew
  <1> HIDE DEF f, g
  <1>3. /\ at' \in [Actors -> Frames] /\ at'[Rx] = f /\ at'[i] = g
        /\ \A b \in Actors : b # Rx /\ b # i => at'[b] = at[b]
    BY <1>0, <1>1, <1>2, ActorFacts DEF UdpTypes
  <1>4. /\ ustate' \in [Sessions -> States] /\ ustate'[i] = "udpConnecting"
        /\ \A j \in Sessions : j # i => ustate'[j] = ustate[j]
    BY <1>0 DEF UdpTypes, RecvNew, States
  <1>5. UdpTypes'
    <2>1. pkts' \in Nat /\ UNCHANGED <<udpConns, idle, pending, sock, udpSocks, sockTicks,
                                       fetch, answers, sent>>
      BY <1>0, SMTT(30) DEF UdpTypes, RecvNew, sockVars, proxyVars
    <2> QED BY <1>0, <1>3, <1>4, <2>1 DEF UdpTypes
  <1>6. ActorsInv'
    BY <1>0, <1>1, <1>3, ActorFacts, SMTT(30) DEF ActorsInv, RxPcs, CarryPcs, SessionPcs, Pcs
  <1>7. SocketsInv'
    <2>1. \A j \in Sessions : SessionSock(j)'
      BY <1>0, <1>1, <1>3, <1>4, ActorFacts, SMTT(60)
         DEF SocketsInv, SessionSock, BeforeConnected, ClosePcs, RecvNew, sockVars
    <2>2. RxSock'
      BY <1>0, <1>1, <1>3, <1>4, ActorFacts, SMTT(60)
         DEF SocketsInv, RxSock, BeforeConnected, ClosePcs, RecvNew, sockVars
    <2> QED BY <2>1, <2>2 DEF SocketsInv
  <1>8. PacketsInv'
    <2>1. ~Carries(i)'
      BY <1>1, <1>3 DEF Carries, CarryPcs
    <2>2. \A a \in Actors : a # Rx /\ Carries(a)' => Carries(a) /\ at'[a].pkt = at[a].pkt
      BY <1>3, <2>1 DEF Carries
    <2> QED BY <1>0, <1>1, <1>3, <2>2, PacketComes, ActorFacts DEF RecvNew, proxyVars
  <1>9. CountsInv'
    BY <1>0 DEF CountsInv, RecvNew, proxyVars
  <1> QED BY <1>5, <1>6, <1>7, <1>8, <1>9 DEF UdpInv

\* udpRecvFn stores the session it made.
LEMMA RecvStoreKeeps == ASSUME UdpInv, RecvStore PROVE UdpInv'
  <1>0. UdpTypes /\ ActorsInv /\ SocketsInv /\ PacketsInv /\ CountsInv
    BY DEF UdpInv
  <1>1. Moves(Rx, "receive", at[Rx].conn, at[Rx].pkt)
    BY <1>0, StepMoves, ActorFacts DEF RecvStore, Pcs, CarryPcs
  <1>2. at[Rx].conn \in Sessions /\ at[Rx].pc = "store"
    BY <1>0 DEF RecvStore, ActorsInv
  <1>3. udpConns' \in [Srcs -> SomeSession]
    BY <1>0, <1>2 DEF UdpTypes, SomeSession, RecvStore
  <1>4. UdpTypes'
    BY <1>0, <1>1, <1>3 DEF UdpTypes, Moves, RecvStore, sockVars, proxyVars
  <1>5. ActorsInv'
    BY <1>0, <1>1, <1>2, ActorFacts, SMTT(30) DEF ActorsInv, Moves, RxPcs, CarryPcs
  <1>6. SocketsInv'
    BY <1>0, <1>1, ActorFacts
       DEF SocketsInv, SessionSock, RxSock, BeforeConnected, Moves, ClosePcs, RecvStore, sockVars
  <1>7. PacketsInv'
    BY <1>0, <1>1, <1>2, PacketsStay DEF Moves, Carries, CarryPcs, RecvStore, proxyVars
  <1>8. CountsInv'
    BY <1>0 DEF CountsInv, RecvStore, proxyVars
  <1> QED BY <1>4, <1>5, <1>6, <1>7, <1>8 DEF UdpInv

\* Steps that change nothing but where an actor is.
OnlyAt == UNCHANGED <<ustate, udpConns, idle, pending, sock, udpSocks, sockTicks,
                      fetch, answers, sent, pkts>>

\* A step of one actor that moves no packet to a queue or to the proxy.
LEMMA OnlyAtKeeps ==
    ASSUME UdpInv, OnlyAt, at' \in [Actors -> Frames], ActorsInv', SocketsInv',
           \A a \in Actors : Carries(a)' => Carries(a) /\ at'[a].pkt = at[a].pkt
    PROVE  UdpInv'
  <1>1. UdpTypes'
    BY DEF UdpInv, UdpTypes, OnlyAt
  <1>2. PacketsInv'
    BY PacketsStay DEF UdpInv, OnlyAt
  <1>3. CountsInv'
    BY DEF UdpInv, CountsInv, OnlyAt
  <1> QED BY <1>1, <1>2, <1>3 DEF UdpInv

\* ReceiveTo on a connecting session: the packet is queued, or dropped when the queue is full.
LEMMA RecvEnqueueKeeps == ASSUME UdpInv, RecvEnqueue PROVE UdpInv'
  <1>0. UdpTypes /\ ActorsInv /\ SocketsInv /\ PacketsInv /\ CountsInv
    BY DEF UdpInv
  <1> DEFINE i == at[Rx].conn
  <1>1. i \in Sessions /\ at[Rx].pc = "receive" /\ Carries(Rx)
    BY <1>0 DEF RecvEnqueue, ActorsInv, Carries, CarryPcs
  <1>2. idle' \in [Sessions -> Idles]
    <2>1. [type |-> "int32", n |-> IdleTicks] \in Idles
      BY UdpBounds DEF Idles
    <2> QED BY <1>0, <2>1 DEF RecvEnqueue, UdpTypes
  <1>3. UNCHANGED <<ustate, udpConns, sock, udpSocks, sockTicks, fetch, answers, sent, pkts>>
    BY DEF RecvEnqueue, sockVars, proxyVars
  <1>4. CASE /\ Len(pending[i]) < PendingCap
             /\ pending' = [pending EXCEPT ![i] = Append(@, at[Rx].pkt)]
             /\ at' = [at EXCEPT ![Rx] = Idle]
    <2>1. Moves(Rx, "idle", NoSession, 0)
      BY <1>0, <1>4, IdleMoves, ActorFacts
    <2>2. at[Rx].pkt \in Nat /\ pending[i] \in Seq(Nat) /\ PendingCap \in Nat
      BY <1>0, <1>1, ActorFacts, UdpBounds DEF UdpTypes, Frames
    <2>3. /\ pending' \in [Sessions -> Seq(Nat)] /\ Len(pending'[i]) <= PendingCap
          /\ \A j \in Sessions : j # i => pending'[j] = pending[j]
      BY <1>0, <1>1, <1>4, <2>2, SMTT(30) DEF UdpTypes
    <2>4. UdpTypes'
      BY <1>0, <1>2, <1>3, <2>1, <2>3 DEF UdpTypes, Moves
    <2>5. ActorsInv'
      BY <1>0, <2>1, ActorFacts, SMTT(30) DEF ActorsInv, Moves, RxPcs
    <2>6. SocketsInv'
      BY <1>0, <1>3, <2>1, ActorFacts
         DEF SocketsInv, SessionSock, RxSock, BeforeConnected, Moves, ClosePcs
    <2>7. PacketsInv'
      <3>1. ~Carries(Rx)'
        BY <2>1 DEF Moves, Carries, CarryPcs
      <3> QED BY <1>0, <1>1, <1>3, <1>4, <2>1, <3>1, PacketQueued, ActorFacts DEF Moves
    <2>8. CountsInv'
      BY <1>0, <1>3, <2>3 DEF CountsInv
    <2> QED BY <2>4, <2>5, <2>6, <2>7, <2>8 DEF UdpInv
  <1>5. CASE Step(Rx, "check") /\ UNCHANGED pending
    <2>1. Moves(Rx, "check", at[Rx].conn, at[Rx].pkt)
      BY <1>0, <1>5, StepMoves, ActorFacts DEF Pcs, CarryPcs
    <2>2. UdpTypes'
      BY <1>0, <1>2, <1>3, <1>5, <2>1 DEF UdpTypes, Moves
    <2>3. ActorsInv'
      BY <1>0, <1>1, <2>1, ActorFacts, SMTT(30) DEF ActorsInv, Moves, RxPcs, CarryPcs
    <2>4. SocketsInv'
      BY <1>0, <1>3, <2>1, ActorFacts
         DEF SocketsInv, SessionSock, RxSock, BeforeConnected, Moves, ClosePcs
    <2>5. PacketsInv'
      BY <1>0, <1>1, <1>3, <1>5, <2>1, PacketsStay DEF Moves, Carries, CarryPcs
    <2>6. CountsInv'
      BY <1>0, <1>3, <1>5 DEF CountsInv
    <2> QED BY <2>2, <2>3, <2>4, <2>5, <2>6 DEF UdpInv
  <1> QED BY <1>4, <1>5 DEF RecvEnqueue

\* ReceiveTo looks at the state before it hands the packet on.
LEMMA RecvCheckKeeps == ASSUME UdpInv, RecvCheck PROVE UdpInv'
  <1>0. UdpTypes /\ ActorsInv /\ SocketsInv
    BY DEF UdpInv
  <1>1. OnlyAt /\ at[Rx].pc = "check" /\ at[Rx].conn \in Sessions
    BY <1>0 DEF RecvCheck, OnlyAt, sessVars, sockVars, proxyVars, ActorsInv
  <1>2. CASE ustate[at[Rx].conn] = "udpConnected"
    <2>1. Moves(Rx, "lookup", at[Rx].conn, at[Rx].pkt)
      <3>1. at' = [at EXCEPT ![Rx] = [at[Rx] EXCEPT !.pc = "lookup"]]
        BY <1>2 DEF RecvCheck
      <3>2. "lookup" \in Pcs
        BY DEF Pcs, CarryPcs
      <3> QED BY <1>0, <3>1, <3>2, SetMoves, ActorFacts
    <2>2. ActorsInv'
      BY <1>0, <1>1, <2>1, ActorFacts, SMTT(30) DEF ActorsInv, Moves, RxPcs, CarryPcs
    <2>3. SocketsInv'
      BY <1>0, <1>1, <1>2, <2>1, ActorFacts
         DEF SocketsInv, SessionSock, RxSock, BeforeConnected, Moves, OnlyAt
    <2>4. \A a \in Actors : Carries(a)' => Carries(a) /\ at'[a].pkt = at[a].pkt
      BY <1>1, <2>1 DEF Moves, Carries, CarryPcs
    <2> QED BY <1>1, <2>1, <2>2, <2>3, <2>4, OnlyAtKeeps DEF Moves
  <1>3. CASE ustate[at[Rx].conn] # "udpConnected"
    <2>1. Moves(Rx, "idle", NoSession, 0)
      BY <1>0, <1>3, IdleMoves, ActorFacts DEF RecvCheck
    <2>2. ActorsInv'
      BY <1>0, <2>1, ActorFacts, SMTT(30) DEF ActorsInv, Moves, RxPcs
    <2>3. SocketsInv'
      BY <1>0, <1>1, <2>1, ActorFacts
         DEF SocketsInv, SessionSock, RxSock, BeforeConnected, Moves, ClosePcs, OnlyAt
    <2>4. \A a \in Actors : Carries(a)' => Carries(a) /\ at'[a].pkt = at[a].pkt
      BY <2>1 DEF Moves, Carries, CarryPcs
    <2> QED BY <1>1, <2>1, <2>2, <2>3, <2>4, OnlyAtKeeps DEF Moves
  <1> QED BY <1>2, <1>3

\* Who is inside the handler has a session; a goroutine has its own.
LEMMA WhoHandles ==
    ASSUME ActorsInv, NEW a \in Actors, at[a].pc \in ClosePcs \union {"lookup", "write"}
    PROVE  /\ at[a].conn \in Sessions
           /\ a \in Sessions => at[a].conn = a
           /\ a = Stack => at[a].pc \in {"close", "delete"}
  BY ActorFacts DEF ActorsInv, ClosePcs, StackPcs

\* ReceiveTo goes on to the write, or to Close.
LEMMA HandlerMoveKeeps ==
    ASSUME UdpInv, OnlyAt, NEW a \in Actors, at[a].pc \in {"lookup", "write"},
           NEW p \in {"write", "close"}, Step(a, p)
    PROVE  UdpInv'
  <1>0. UdpTypes /\ ActorsInv /\ SocketsInv
    BY DEF UdpInv
  <1>1. Moves(a, p, at[a].conn, at[a].pkt)
    BY <1>0, StepMoves DEF Pcs, CarryPcs, ClosePcs
  <1>2. at[a].conn \in Sessions /\ (a \in Sessions => at[a].conn = a) /\ a # Stack
    BY <1>0, WhoHandles
  <1>3. ActorsInv'
    BY <1>0, <1>1, <1>2, ActorFacts, SMTT(30)
       DEF ActorsInv, Moves, RxPcs, SessionPcs, Pcs, CarryPcs, ClosePcs
  <1>4. SocketsInv'
    <2>0. at[Rx].pc # "idle" => at[Rx].conn \in Sessions
      BY <1>0 DEF ActorsInv
    <2>1. CASE a = Rx
      BY <1>0, <1>1, <1>2, <2>1, ActorFacts, SMTT(30)
         DEF SocketsInv, SessionSock, RxSock, BeforeConnected, Moves, ClosePcs, OnlyAt
    <2>2. CASE a \in Sessions
      BY <1>0, <1>1, <2>0, <2>2, ActorFacts, SMTT(30)
         DEF SocketsInv, SessionSock, RxSock, BeforeConnected, Moves, ClosePcs, OnlyAt
    <2> QED BY <1>2, <2>1, <2>2, ActorFacts
  <1>5. \A b \in Actors : Carries(b)' => Carries(b) /\ at'[b].pkt = at[b].pkt
    BY <1>1 DEF Moves, Carries, CarryPcs
  <1> QED BY <1>1, <1>3, <1>4, <1>5, OnlyAtKeeps DEF Moves

\* ReceiveTo returns.
LEMMA ResumeFacts ==
    ASSUME UdpInv, NEW a \in Actors, at[a].pc = "write", at' = [at EXCEPT ![a] = Resume(a)],
           UNCHANGED <<ustate, sock, udpSocks>>
    PROVE  /\ at' \in [Actors -> Frames] /\ ActorsInv' /\ SocketsInv'
           /\ ~Carries(a)' /\ \A b \in Actors : b # a => at'[b] = at[b]
  <1>0. UdpTypes /\ ActorsInv /\ SocketsInv
    BY DEF UdpInv
  <1>1. at[a].conn \in Sessions /\ (a \in Sessions => at[a].conn = a) /\ a # Stack
    BY <1>0, WhoHandles
  <1>2. CASE a = Rx
    <2>1. Moves(Rx, "idle", NoSession, 0)
      BY <1>0, <1>2, IdleMoves DEF Resume
    <2>2. ActorsInv'
      BY <1>0, <2>1, ActorFacts, SMTT(30) DEF ActorsInv, Moves, RxPcs
    <2>3. SocketsInv'
      BY <1>0, <2>1, ActorFacts DEF SocketsInv, SessionSock, RxSock, BeforeConnected, Moves, ClosePcs
    <2> QED BY <1>2, <2>1, <2>2, <2>3 DEF Moves, Carries, CarryPcs
  <1>3. CASE a # Rx
    <2>1. Moves(a, "drain", at[a].conn, at[a].pkt)
      <3>1. at' = [at EXCEPT ![a] = [at[a] EXCEPT !.pc = "drain"]] /\ "drain" \in Pcs
        BY <1>3 DEF Resume, Pcs
      <3> QED BY <1>0, <3>1, SetMoves
    <2>2. a \in Sessions
      BY <1>1, <1>3, ActorFacts
    <2>3. ActorsInv'
      BY <1>0, <1>1, <2>1, <2>2, ActorFacts, SMTT(30) DEF ActorsInv, Moves, SessionPcs, Pcs
    <2>4. SocketsInv'
      BY <1>0, <2>1, <2>2, ActorFacts, SMTT(30)
         DEF SocketsInv, SessionSock, RxSock, BeforeConnected, Moves, ClosePcs
    <2> QED BY <2>1, <2>3, <2>4 DEF Moves, Carries, CarryPcs
  <1> QED BY <1>2, <1>3

\* The handler writes the packet to the socket of the session.
LEMMA HandlerWriteKeeps == ASSUME UdpInv, NEW a \in Actors, HandlerWrite(a) PROVE UdpInv'
  <1>0. UdpTypes /\ ActorsInv /\ PacketsInv /\ CountsInv
    BY DEF UdpInv
  <1> DEFINE i == at[a].conn
  <1>1. at[a].pc = "write" /\ Carries(a) /\ i \in Sessions
    BY <1>0, WhoHandles DEF HandlerWrite, Carries, CarryPcs
  <1>2. /\ sent' = [sent EXCEPT ![i] = Append(@, at[a].pkt)]
        /\ UNCHANGED <<ustate, udpConns, idle, pending, sock, udpSocks, sockTicks,
                       fetch, answers, pkts>>
    BY DEF HandlerWrite, sessVars, sockVars
  <1>3. /\ at' \in [Actors -> Frames] /\ ActorsInv' /\ SocketsInv'
        /\ ~Carries(a)' /\ \A b \in Actors : b # a => at'[b] = at[b]
    BY <1>1, <1>2, ResumeFacts DEF HandlerWrite
  <1>4. at[a].pkt \in Nat /\ sent[i] \in Seq(Nat)
    BY <1>0, <1>1 DEF UdpTypes, Frames
  <1>5. /\ sent' \in [Sessions -> Seq(Nat)] /\ Len(sent'[i]) = Len(sent[i]) + 1
        /\ Len(sent[i]) \in Nat
        /\ \A j \in Sessions : j # i => sent'[j] = sent[j]
    BY <1>0, <1>1, <1>2, <1>4, SMTT(30) DEF UdpTypes
  <1>6. UdpTypes'
    BY <1>0, <1>2, <1>3, <1>5 DEF UdpTypes
  <1>7. PacketsInv'
    BY <1>0, <1>1, <1>2, <1>3, PacketSent
  <1>8. CountsInv'
    <2>1. answers[i].come \in Nat
      BY <1>0, <1>1 DEF UdpTypes, Counts
    <2>2. answers[i].come <= Len(sent'[i])
      BY <1>0, <1>1, <1>5, <2>1, SMTT(30) DEF CountsInv
    <2> QED BY <1>0, <1>2, <1>5, <2>2 DEF CountsInv
  <1> QED BY <1>3, <1>6, <1>7, <1>8 DEF UdpInv

\* The handler answers from the DNS cache and sends nothing.
LEMMA HandlerCachedKeeps == ASSUME UdpInv, NEW a \in Actors, HandlerCached(a) PROVE UdpInv'
  <1>1. OnlyAt /\ at[a].pc = "write"
    BY DEF HandlerCached, OnlyAt, sessVars, sockVars, proxyVars
  <1>2. CASE at' = [at EXCEPT ![a] = Resume(a)]
    <2>1. /\ at' \in [Actors -> Frames] /\ ActorsInv' /\ SocketsInv'
          /\ ~Carries(a)' /\ \A b \in Actors : b # a => at'[b] = at[b]
      BY <1>1, <1>2, ResumeFacts DEF OnlyAt
    <2>2. \A b \in Actors : Carries(b)' => Carries(b) /\ at'[b].pkt = at[b].pkt
      BY <2>1 DEF Carries
    <2> QED BY <1>1, <2>1, <2>2, OnlyAtKeeps
  <1>3. CASE Step(a, "close")
    BY <1>1, <1>3, HandlerMoveKeeps
  <1> QED BY <1>2, <1>3 DEF HandlerCached, Step

\* conn.Close sets the state.
LEMMA CloseStateKeeps == ASSUME UdpInv, NEW a \in Actors, CloseState(a) PROVE UdpInv'
  <1>0. UdpTypes /\ ActorsInv /\ SocketsInv /\ PacketsInv /\ CountsInv
    BY DEF UdpInv
  <1> DEFINE i == at[a].conn
  <1>1. at[a].pc = "close" /\ i \in Sessions /\ (a \in Sessions => i = a)
    BY <1>0, WhoHandles DEF CloseState, ClosePcs
  <1>2. Moves(a, "delete", at[a].conn, at[a].pkt)
    BY <1>0, StepMoves DEF CloseState, Pcs, ClosePcs
  <1>3. UNCHANGED <<udpConns, idle, pending, sock, udpSocks, sockTicks, fetch, answers, sent, pkts>>
    BY DEF CloseState, sockVars, proxyVars
  <1>4. /\ ustate' \in [Sessions -> States] /\ ustate'[i] = "udpClosed"
        /\ \A j \in Sessions : j # i => ustate'[j] = ustate[j]
    BY <1>0, <1>1 DEF CloseState, UdpTypes, States
  <1>5. UdpTypes'
    BY <1>0, <1>2, <1>3, <1>4 DEF UdpTypes, Moves
  <1>6. ActorsInv'
    BY <1>0, <1>1, <1>2, ActorFacts, SMTT(30)
       DEF ActorsInv, Moves, RxPcs, SessionPcs, StackPcs, Pcs, ClosePcs
  <1>7. SocketsInv'
    <2>0. at[Rx].pc # "idle" => at[Rx].conn \in Sessions
      BY <1>0 DEF ActorsInv
    <2>1. CASE a = Rx
      BY <1>0, <1>1, <1>2, <1>3, <1>4, <2>1, ActorFacts, SMTT(30)
         DEF SocketsInv, SessionSock, RxSock, BeforeConnected, Moves, ClosePcs
    <2>2. CASE a = Stack
      <3>1. \A j \in Sessions : SessionSock(j)'
        BY <1>0, <1>1, <1>2, <1>3, <1>4, <2>0, <2>2, ActorFacts, SMTT(60)
           DEF SocketsInv, SessionSock, BeforeConnected, Moves, ClosePcs
      <3>2. RxSock'
        BY <1>0, <1>1, <1>2, <1>3, <1>4, <2>0, <2>2, ActorFacts, SMTT(60)
           DEF SocketsInv, RxSock, BeforeConnected, Moves, ClosePcs
      <3> QED BY <3>1, <3>2 DEF SocketsInv
    <2>3. CASE a \in Sessions
      BY <1>0, <1>1, <1>2, <1>3, <1>4, <2>0, <2>3, ActorFacts, SMTT(30)
         DEF SocketsInv, SessionSock, RxSock, BeforeConnected, Moves, ClosePcs
    <2> QED BY <2>1, <2>2, <2>3, ActorFacts
  <1>8. PacketsInv'
    BY <1>0, <1>2, <1>3, PacketsStay DEF Moves, Carries, CarryPcs
  <1>9. CountsInv'
    BY <1>0, <1>3 DEF CountsInv
  <1> QED BY <1>5, <1>6, <1>7, <1>8, <1>9 DEF UdpInv

\* udpConns.Delete.
LEMMA CloseDeleteKeeps == ASSUME UdpInv, NEW a \in Actors, CloseDelete(a) PROVE UdpInv'
  <1>0. UdpTypes /\ ActorsInv /\ SocketsInv /\ PacketsInv /\ CountsInv
    BY DEF UdpInv
  <1>1. at[a].pc = "delete" /\ at[a].conn \in Sessions /\ (a \in Sessions => at[a].conn = a)
    BY <1>0, WhoHandles DEF CloseDelete, ClosePcs
  <1>2. UNCHANGED <<ustate, idle, pending, sock, udpSocks, sockTicks, fetch, answers, sent, pkts>>
    BY DEF CloseDelete, sockVars, proxyVars
  <1>3. udpConns' \in [Srcs -> SomeSession]
    BY <1>0 DEF CloseDelete, UdpTypes, SomeSession
  <1>4. at[Rx].pc # "idle" => at[Rx].conn \in Sessions
    BY <1>0 DEF ActorsInv
  <1>5. /\ at' \in [Actors -> Frames] /\ ActorsInv' /\ SocketsInv'
        /\ ~Carries(a)' /\ \A b \in Actors : b # a => at'[b] = at[b]
    <2>1. CASE a = Stack
      <3>1. Moves(Stack, "idle", NoSession, 0)
        BY <1>0, <2>1, IdleMoves DEF CloseDelete
      <3>2. ActorsInv'
        BY <1>0, <3>1, ActorFacts, SMTT(30) DEF ActorsInv, Moves, StackPcs
      <3>3. SocketsInv'
        BY <1>0, <1>2, <1>4, <3>1, ActorFacts
           DEF SocketsInv, SessionSock, RxSock, BeforeConnected, Moves, ClosePcs
      <3> QED BY <2>1, <3>1, <3>2, <3>3 DEF Moves, Carries, CarryPcs
    <2>2. CASE a # Stack
      <3>1. Moves(a, "unsock", at[a].conn, at[a].pkt)
        <4>1. at' = [at EXCEPT ![a] = [at[a] EXCEPT !.pc = "unsock"]] /\ "unsock" \in Pcs
          BY <2>2 DEF CloseDelete, Pcs, ClosePcs
        <4> QED BY <1>0, <4>1, SetMoves
      <3>2. ActorsInv'
        BY <1>0, <1>1, <2>2, <3>1, ActorFacts, SMTT(30)
           DEF ActorsInv, Moves, RxPcs, SessionPcs, Pcs, ClosePcs
      <3>3. SocketsInv'
        <4>1. CASE a = Rx
          BY <1>0, <1>1, <1>2, <3>1, <4>1, ActorFacts, SMTT(30)
             DEF SocketsInv, SessionSock, RxSock, BeforeConnected, Moves, ClosePcs
        <4>2. CASE a \in Sessions
          BY <1>0, <1>1, <1>2, <1>4, <3>1, <4>2, ActorFacts, SMTT(30)
             DEF SocketsInv, SessionSock, RxSock, BeforeConnected, Moves, ClosePcs
        <4> QED BY <2>2, <4>1, <4>2, ActorFacts
      <3> QED BY <3>1, <3>2, <3>3 DEF Moves, Carries, CarryPcs
    <2> QED BY <2>1, <2>2
  <1>6. UdpTypes'
    BY <1>0, <1>2, <1>3, <1>5 DEF UdpTypes
  <1>7. PacketsInv'
    BY <1>0, <1>2, <1>5, PacketsStay DEF Carries
  <1>8. CountsInv'
    BY <1>0, <1>2 DEF CountsInv
  <1> QED BY <1>5, <1>6, <1>7, <1>8 DEF UdpInv

\* The handler's Close: by now the session is closed for good.
LEMMA CloseSockKeeps == ASSUME UdpInv, NEW a \in Actors, CloseSock(a) PROVE UdpInv'
  <1>0. UdpTypes /\ ActorsInv /\ SocketsInv /\ PacketsInv /\ CountsInv
    BY DEF UdpInv
  <1> DEFINE i == at[a].conn
  <1>1. at[a].pc = "unsock" /\ i \in Sessions /\ (a \in Sessions => i = a) /\ a # Stack
    BY <1>0, WhoHandles DEF CloseSock, ClosePcs
  <1>2. UNCHANGED <<ustate, udpConns, idle, pending, sockTicks, fetch, answers, sent, pkts>>
    BY DEF CloseSock, sessVars
  <1>3. at[Rx].pc # "idle" => at[Rx].conn \in Sessions
    BY <1>0 DEF ActorsInv
  <1>4. /\ sock' \in [Sessions -> {"none", "open", "closed"}] /\ udpSocks' \subseteq Sessions
        /\ i \notin udpSocks' /\ sock'[i] # "open"
        /\ \A j \in Sessions : j # i => sock'[j] = sock[j] /\ (j \in udpSocks' <=> j \in udpSocks)
    BY <1>0, <1>1 DEF CloseSock, UdpTypes, SocketsInv, SessionSock, RxSock
  <1>5. ustate[i] # "udpConnected" /\ at[i].pc # "connected"
    BY <1>0, <1>1, ActorFacts DEF SocketsInv, SessionSock, RxSock, BeforeConnected, ClosePcs
  <1>6. /\ at' \in [Actors -> Frames] /\ ActorsInv' /\ SocketsInv'
        /\ ~Carries(a)' /\ \A b \in Actors : b # a => at'[b] = at[b]
    <2>1. CASE a = Rx
      <3>1. Moves(Rx, "idle", NoSession, 0)
        BY <1>0, <2>1, IdleMoves DEF CloseSock, Quit
      <3>2. ActorsInv'
        BY <1>0, <3>1, ActorFacts DEF ActorsInv, Moves, RxPcs
      <3>3. SocketsInv'
        <4>1. \A j \in Sessions : SessionSock(j)'
          BY <1>0, <1>2, <1>4, <1>5, <3>1, ActorFacts, SMTT(60)
             DEF SocketsInv, SessionSock, BeforeConnected, Moves, ClosePcs
        <4>2. RxSock'
          BY <1>0, <1>2, <1>4, <1>5, <3>1, ActorFacts, SMTT(60)
             DEF SocketsInv, RxSock, BeforeConnected, Moves, ClosePcs
        <4> QED BY <4>1, <4>2 DEF SocketsInv
      <3> QED BY <2>1, <3>1, <3>2, <3>3 DEF Moves, Carries, CarryPcs
    <2>2. CASE a # Rx
      <3>1. Moves(a, "done", at[a].conn, at[a].pkt)
        <4>1. at' = [at EXCEPT ![a] = [at[a] EXCEPT !.pc = "done"]] /\ "done" \in Pcs
          BY <2>2 DEF CloseSock, Quit, Pcs
        <4> QED BY <1>0, <4>1, SetMoves
      <3>2. ActorsInv'
        BY <1>0, <1>1, <2>2, <3>1, ActorFacts, SMTT(30) DEF ActorsInv, Moves, SessionPcs, Pcs
      <3>3. SocketsInv'
        <4>1. ASSUME NEW j \in Sessions PROVE SessionSock(j)'
          <5>1. SessionSock(j) /\ j \in Actors /\ ustate'[j] = ustate[j]
            BY <1>0, <1>2, ActorFacts DEF SocketsInv
          <5>2. CASE j = a
            BY <1>1, <1>4, <1>5, <3>1, <5>1, <5>2, SMTT(30) DEF SessionSock, BeforeConnected, Moves
          <5>3. CASE j # a
            <6>1. at'[j] = at[j]
              BY <3>1, <5>1, <5>3 DEF Moves
            <6> QED BY <1>4, <1>5, <5>1, <6>1, SMTT(30) DEF SessionSock, BeforeConnected
          <5> QED BY <5>2, <5>3
        <4>2. RxSock'
          BY <1>0, <1>1, <1>2, <1>3, <1>4, <1>5, <2>2, <3>1, ActorFacts, SMTT(60)
             DEF SocketsInv, RxSock, BeforeConnected, Moves, ClosePcs
        <4> QED BY <4>1, <4>2 DEF SocketsInv
      <3> QED BY <3>1, <3>2, <3>3 DEF Moves, Carries, CarryPcs
    <2> QED BY <2>1, <2>2
  <1>7. UdpTypes'
    BY <1>0, <1>2, <1>4, <1>6 DEF UdpTypes
  <1>8. PacketsInv'
    BY <1>0, <1>2, <1>6, PacketsStay DEF Carries
  <1>9. CountsInv'
    BY <1>0, <1>2 DEF CountsInv
  <1> QED BY <1>6, <1>7, <1>8, <1>9 DEF UdpInv

\* The stack closes a session it knows.
LEMMA StackCloseKeeps == ASSUME UdpInv, NEW s \in Srcs, StackClose(s) PROVE UdpInv'
  <1>0. UdpTypes /\ ActorsInv /\ SocketsInv
    BY DEF UdpInv
  <1>1. OnlyAt /\ udpConns[s] \in Sessions
    BY <1>0 DEF StackClose, OnlyAt, sessVars, sockVars, proxyVars, UdpTypes, SomeSession
  <1>2. Moves(Stack, "close", udpConns[s], 0)
    <2>1. udpConns[s] \in SomeSession /\ 0 \in Nat /\ "close" \in Pcs
      BY <1>1 DEF SomeSession, Pcs, ClosePcs
    <2> QED BY <1>0, <2>1, FrameMoves, ActorFacts DEF StackClose
  <1>3. ActorsInv'
    BY <1>0, <1>1, <1>2, ActorFacts DEF ActorsInv, Moves, StackPcs
  <1>4. SocketsInv'
    <2>1. at[Rx].pc # "idle" => at[Rx].conn \in Sessions
      BY <1>0 DEF ActorsInv
    <2> QED BY <1>0, <1>1, <1>2, <2>1, ActorFacts
            DEF SocketsInv, SessionSock, RxSock, BeforeConnected, Moves, ClosePcs, OnlyAt
  <1>5. \A b \in Actors : Carries(b)' => Carries(b) /\ at'[b].pkt = at[b].pkt
    BY <1>2 DEF Moves, Carries, CarryPcs
  <1> QED BY <1>1, <1>2, <1>3, <1>4, <1>5, OnlyAtKeeps DEF Moves

\* Connect succeeds: nobody can be closing the session's socket yet.
LEMMA ConnectOkKeeps == ASSUME UdpInv, NEW i \in Sessions, ConnectOk(i) PROVE UdpInv'
  <1>0. UdpTypes /\ ActorsInv /\ SocketsInv /\ PacketsInv /\ CountsInv
    BY DEF UdpInv
  <1>1. at[i].pc = "dial" /\ at[i].conn = i
    BY <1>0 DEF ConnectOk, ActorsInv
  <1>2. Moves(i, "connected", at[i].conn, at[i].pkt)
    BY <1>0, StepMoves, ActorFacts DEF ConnectOk, Pcs
  <1>3. UNCHANGED <<ustate, udpConns, idle, pending, answers, sent, pkts>>
    BY DEF ConnectOk, sessVars
  <1>4. /\ sock' \in [Sessions -> {"none", "open", "closed"}] /\ udpSocks' = udpSocks \union {i}
        /\ sock'[i] = "open" /\ \A j \in Sessions : j # i => sock'[j] = sock[j]
        /\ sockTicks' \in [Sessions -> {0, IdleTicks}]
        /\ fetch' \in [Sessions -> FetchPcs]
        /\ \A j \in Sessions : fetch'[j] = "write" => fetch[j] = "write"
    BY <1>0 DEF ConnectOk, UdpTypes, FetchPcs
  <1>5. UdpTypes'
    BY <1>0, <1>2, <1>3, <1>4 DEF UdpTypes, Moves
  <1>6. ActorsInv'
    BY <1>0, <1>1, <1>2, ActorFacts, SMTT(30) DEF ActorsInv, Moves, SessionPcs, Pcs
  <1>7. SocketsInv'
    <2>1. at[Rx].pc # "idle" => at[Rx].conn \in Sessions
      BY <1>0 DEF ActorsInv
    <2>2. \A j \in Sessions : SessionSock(j)'
      BY <1>0, <1>1, <1>2, <1>3, <1>4, <2>1, ActorFacts, SMTT(60)
         DEF SocketsInv, SessionSock, BeforeConnected, Moves, ClosePcs
    <2>3. RxSock'
      BY <1>0, <1>1, <1>2, <1>3, <1>4, <2>1, ActorFacts, SMTT(60)
         DEF SocketsInv, RxSock, BeforeConnected, Moves, ClosePcs
    <2> QED BY <2>2, <2>3 DEF SocketsInv
  <1>8. PacketsInv'
    BY <1>0, <1>2, <1>3, PacketsStay DEF Moves, Carries, CarryPcs
  <1>9. CountsInv'
    BY <1>0, <1>3, <1>4 DEF CountsInv
  <1> QED BY <1>5, <1>6, <1>7, <1>8, <1>9 DEF UdpInv

\* Connect fails: the goroutine closes the session.
LEMMA ConnectFailKeeps == ASSUME UdpInv, NEW i \in Sessions, ConnectFail(i) PROVE UdpInv'
  <1>0. UdpTypes /\ ActorsInv /\ SocketsInv
    BY DEF UdpInv
  <1>1. OnlyAt /\ at[i].pc = "dial" /\ at[i].conn = i
    BY <1>0 DEF ConnectFail, OnlyAt, sessVars, sockVars, proxyVars, ActorsInv
  <1>2. Moves(i, "close", at[i].conn, at[i].pkt)
    BY <1>0, StepMoves, ActorFacts DEF ConnectFail, Pcs, ClosePcs
  <1>3. ActorsInv'
    BY <1>0, <1>1, <1>2, ActorFacts, SMTT(30) DEF ActorsInv, Moves, SessionPcs, Pcs, ClosePcs
  <1>4. SocketsInv'
    <2>1. at[Rx].pc # "idle" => at[Rx].conn \in Sessions
      BY <1>0 DEF ActorsInv
    <2>2. \A j \in Sessions : SessionSock(j)'
      BY <1>0, <1>1, <1>2, ActorFacts, SMTT(30)
         DEF SocketsInv, SessionSock, BeforeConnected, Moves, OnlyAt
    <2>3. RxSock'
      BY <1>0, <1>1, <1>2, <2>1, ActorFacts, SMTT(30)
         DEF SocketsInv, RxSock, BeforeConnected, Moves, ClosePcs, OnlyAt
    <2> QED BY <2>2, <2>3 DEF SocketsInv
  <1>5. \A b \in Actors : Carries(b)' => Carries(b) /\ at'[b].pkt = at[b].pkt
    BY <1>2 DEF Moves, Carries, CarryPcs
  <1> QED BY <1>1, <1>2, <1>3, <1>4, <1>5, OnlyAtKeeps DEF Moves

\* The state becomes udpConnected, perhaps again after LWIPStack.Close.
LEMMA SetConnectedKeeps == ASSUME UdpInv, NEW i \in Sessions, SetConnected(i) PROVE UdpInv'
  <1>0. UdpTypes /\ ActorsInv /\ SocketsInv /\ PacketsInv /\ CountsInv
    BY DEF UdpInv
  <1>1. at[i].pc = "connected" /\ at[i].conn = i
    BY <1>0 DEF SetConnected, ActorsInv
  <1>2. Moves(i, "drain", at[i].conn, at[i].pkt)
    BY <1>0, StepMoves, ActorFacts DEF SetConnected, Pcs
  <1>3. UNCHANGED <<udpConns, idle, pending, sock, udpSocks, sockTicks, fetch, answers, sent, pkts>>
    BY DEF SetConnected, sockVars, proxyVars
  <1>4. /\ ustate' \in [Sessions -> States] /\ ustate'[i] = "udpConnected"
        /\ \A j \in Sessions : j # i => ustate'[j] = ustate[j]
    BY <1>0 DEF SetConnected, UdpTypes, States
  <1>5. UdpTypes'
    BY <1>0, <1>2, <1>3, <1>4 DEF UdpTypes, Moves
  <1>6. ActorsInv'
    BY <1>0, <1>1, <1>2, ActorFacts, SMTT(30) DEF ActorsInv, Moves, SessionPcs, Pcs
  <1>7. SocketsInv'
    <2>1. at[Rx].pc # "idle" => at[Rx].conn \in Sessions
      BY <1>0 DEF ActorsInv
    <2>2. \A j \in Sessions : SessionSock(j)'
      BY <1>0, <1>1, <1>2, <1>3, <1>4, <2>1, ActorFacts, SMTT(60)
         DEF SocketsInv, SessionSock, BeforeConnected, Moves, ClosePcs
    <2>3. RxSock'
      BY <1>0, <1>1, <1>2, <1>3, <1>4, <2>1, ActorFacts, SMTT(60)
         DEF SocketsInv, RxSock, BeforeConnected, Moves, ClosePcs
    <2> QED BY <2>2, <2>3 DEF SocketsInv
  <1>8. PacketsInv'
    BY <1>0, <1>2, <1>3, PacketsStay DEF Moves, Carries, CarryPcs
  <1>9. CountsInv'
    BY <1>0, <1>3 DEF CountsInv
  <1> QED BY <1>5, <1>6, <1>7, <1>8, <1>9 DEF UdpInv

\* The goroutine takes the queued packets one by one.
LEMMA DrainKeeps == ASSUME UdpInv, NEW i \in Sessions, Drain(i) PROVE UdpInv'
  <1>0. UdpTypes /\ ActorsInv /\ SocketsInv /\ PacketsInv /\ CountsInv
    BY DEF UdpInv
  <1>1. /\ at[i].pc = "drain" /\ at[i].conn = i
        /\ UNCHANGED <<ustate, udpConns, idle, sock, udpSocks, sockTicks, fetch, answers, sent, pkts>>
    BY <1>0 DEF Drain, ActorsInv, sockVars, proxyVars
  <1>2. at[Rx].pc # "idle" => at[Rx].conn \in Sessions
    BY <1>0 DEF ActorsInv
  <1>3. CASE Step(i, "done") /\ UNCHANGED pending
    <2>1. Moves(i, "done", at[i].conn, at[i].pkt)
      BY <1>0, <1>3, StepMoves, ActorFacts DEF Pcs
    <2>2. ActorsInv'
      BY <1>0, <1>1, <2>1, ActorFacts, SMTT(30) DEF ActorsInv, Moves, SessionPcs, Pcs
    <2>3. SocketsInv'
      BY <1>0, <1>1, <1>2, <2>1, ActorFacts, SMTT(30)
         DEF SocketsInv, SessionSock, RxSock, BeforeConnected, Moves, ClosePcs
    <2>4. \A b \in Actors : Carries(b)' => Carries(b) /\ at'[b].pkt = at[b].pkt
      BY <2>1 DEF Moves, Carries, CarryPcs
    <2>5. OnlyAt
      BY <1>1, <1>3 DEF OnlyAt
    <2> QED BY <2>1, <2>2, <2>3, <2>4, <2>5, OnlyAtKeeps DEF Moves
  <1>4. CASE /\ pending[i] # <<>>
             /\ at' = [at EXCEPT ![i] = Frame("lookup", i, Head(pending[i]))]
             /\ pending' = [pending EXCEPT ![i] = Tail(@)]
    <2>1. /\ pending[i] \in Seq(Nat) /\ Head(pending[i]) \in Nat /\ Tail(pending[i]) \in Seq(Nat)
          /\ Len(Tail(pending[i])) = Len(pending[i]) - 1 /\ Len(pending[i]) \in Nat
      BY <1>0, <1>4, SMTT(30) DEF UdpTypes
    <2>2. Moves(i, "lookup", i, Head(pending[i]))
      <3>1. i \in SomeSession /\ "lookup" \in Pcs
        BY DEF SomeSession, Pcs, CarryPcs
      <3> QED BY <1>0, <1>4, <2>1, <3>1, FrameMoves, ActorFacts
    <2>3. /\ pending' \in [Sessions -> Seq(Nat)] /\ Len(pending'[i]) <= Len(pending[i])
          /\ \A j \in Sessions : j # i => pending'[j] = pending[j]
      BY <1>0, <1>4, <2>1, SMTT(30) DEF UdpTypes
    <2>4. UdpTypes'
      BY <1>0, <1>1, <2>2, <2>3 DEF UdpTypes, Moves
    <2>5. ActorsInv'
      BY <1>0, <2>2, ActorFacts, SMTT(30) DEF ActorsInv, Moves, SessionPcs, Pcs, CarryPcs
    <2>6. SocketsInv'
      <3>1. \A j \in Sessions : SessionSock(j)'
        BY <1>0, <1>1, <1>2, <2>2, ActorFacts, SMTT(60)
           DEF SocketsInv, SessionSock, BeforeConnected, Moves, ClosePcs
      <3>2. RxSock'
        BY <1>0, <1>1, <1>2, <2>2, ActorFacts, SMTT(60)
           DEF SocketsInv, RxSock, BeforeConnected, Moves, ClosePcs
      <3> QED BY <3>1, <3>2 DEF SocketsInv
    <2>7. PacketsInv'
      <3>1. ~Carries(i)
        BY <1>1 DEF Carries, CarryPcs
      <3> QED BY <1>0, <1>1, <1>4, <2>2, <3>1, PacketDrained, ActorFacts DEF Moves
    <2>8. CountsInv'
      <3>1. Len(pending'[i]) <= PendingCap
        BY <1>0, <2>1, <1>4, UdpBounds, SMTT(30) DEF CountsInv, UdpTypes
      <3> QED BY <1>0, <1>1, <2>3, <3>1 DEF CountsInv
    <2> QED BY <2>4, <2>5, <2>6, <2>7, <2>8 DEF UdpInv
  <1> QED BY <1>3, <1>4 DEF Drain

\* Steps of the proxy and of fetchSocksData.
OnlyAnswers == UNCHANGED <<ustate, udpConns, idle, pending, sock, udpSocks, sockTicks, at, sent, pkts>>

\* A step that changes the answers alone keeps the rest of the invariant.
LEMMA OnlyAnswersKeeps ==
    ASSUME UdpInv, OnlyAnswers, fetch' \in [Sessions -> FetchPcs],
           answers' \in [Sessions -> Counts], CountsInv'
    PROVE  UdpInv'
  <1>1. UdpTypes' /\ ActorsInv'
    BY DEF UdpInv, UdpTypes, ActorsInv, OnlyAnswers
  <1>2. SocketsInv'
    BY DEF UdpInv, SocketsInv, SessionSock, RxSock, BeforeConnected, OnlyAnswers
  <1>3. PacketsInv'
    BY PacketsStay DEF UdpInv, Carries, OnlyAnswers
  <1> QED BY <1>1, <1>2, <1>3 DEF UdpInv

\* The answers of one session are counted: they stay in order.
LEMMA AnswersStep ==
    ASSUME UdpInv, OnlyAnswers, NEW i \in Sessions, NEW r \in Counts, NEW p \in FetchPcs,
           answers' = [answers EXCEPT ![i] = r], fetch' = [fetch EXCEPT ![i] = p],
           r.back <= r.read, r.read <= r.come, r.come <= Len(sent[i]),
           p = "write" => r.back < r.read
    PROVE  UdpInv'
  <1>1. fetch' \in [Sessions -> FetchPcs] /\ answers' \in [Sessions -> Counts]
    BY DEF UdpInv, UdpTypes
  <1>2. CountsInv'
    BY DEF UdpInv, UdpTypes, CountsInv, OnlyAnswers
  <1> QED BY <1>1, <1>2, OnlyAnswersKeeps

\* The proxy answers, and fetchSocksData reads and writes the answers back.
LEMMA ProxyKeeps ==
    ASSUME UdpInv, NEW i \in Sessions, Fetch(i) \/ ProxyAnswers(i) PROVE UdpInv'
  <1> DEFINE c == answers[i]
  <1>0. /\ c \in Counts /\ fetch[i] \in FetchPcs /\ Len(sent[i]) \in Nat
        /\ c.come \in Nat /\ c.read \in Nat /\ c.back \in Nat
        /\ c.back <= c.read /\ c.read <= c.come /\ c.come <= Len(sent[i])
        /\ fetch[i] = "write" => c.back < c.read
    BY SMTT(30) DEF UdpInv, UdpTypes, CountsInv, Counts
  <1>1. OnlyAnswers
    BY DEF Fetch, FetchRead, FetchError, FetchWrite, ProxyAnswers, OnlyAnswers, sessVars, sockVars
  <1>2. CASE ProxyAnswers(i)
    <2> DEFINE r == [c EXCEPT !.come = c.come + 1]
    <2>1. answers' = [answers EXCEPT ![i] = r] /\ fetch' = [fetch EXCEPT ![i] = fetch[i]]
      BY <1>2 DEF ProxyAnswers, UdpInv, UdpTypes
    <2>2. r \in Counts /\ r.come = c.come + 1 /\ r.read = c.read /\ r.back = c.back
      BY <1>0, SMTT(30) DEF Counts
    <2>3. c.come < Len(sent[i])
      BY <1>2 DEF ProxyAnswers
    <2> HIDE DEF r, c
    <2>4. /\ r.back <= r.read /\ r.read <= r.come /\ r.come <= Len(sent[i])
          /\ fetch[i] = "write" => r.back < r.read
      BY <1>0, <2>2, <2>3, SMTT(30)
    <2> QED BY <1>0, <1>1, <2>1, <2>2, <2>4, AnswersStep
  <1>3. ASSUME NEW unpacks \in BOOLEAN, FetchRead(i, unpacks) PROVE UdpInv'
    <2> DEFINE r == [c EXCEPT !.read = c.read + 1]
               p == IF unpacks THEN "write" ELSE "done"
    <2>1. answers' = [answers EXCEPT ![i] = r] /\ fetch' = [fetch EXCEPT ![i] = p]
      BY <1>3 DEF FetchRead
    <2>2. r \in Counts /\ r.come = c.come /\ r.read = c.read + 1 /\ r.back = c.back
      BY <1>0, SMTT(30) DEF Counts
    <2>3. c.read < c.come /\ p \in FetchPcs
      BY <1>3 DEF FetchRead, FetchPcs
    <2> HIDE DEF r, c, p
    <2>4. /\ r.back <= r.read /\ r.read <= r.come /\ r.come <= Len(sent[i]) /\ r.back < r.read
      BY <1>0, <2>2, <2>3, SMTT(30)
    <2> QED BY <1>1, <2>1, <2>2, <2>3, <2>4, AnswersStep
  <1>4. CASE FetchError(i)
    <2>1. answers' = [answers EXCEPT ![i] = c] /\ fetch' = [fetch EXCEPT ![i] = "done"]
      BY <1>4 DEF FetchError, UdpInv, UdpTypes
    <2>2. "done" \in FetchPcs
      BY DEF FetchPcs
    <2> HIDE DEF c
    <2> QED BY <1>0, <1>1, <2>1, <2>2, AnswersStep
  <1>5. CASE FetchWrite(i)
    <2> DEFINE n == IF ustate[i] = "udpConnected" THEN c.back + 1 ELSE c.back
               r == [c EXCEPT !.back = n]
    <2>1. answers' = [answers EXCEPT ![i] = r] /\ fetch' = [fetch EXCEPT ![i] = "done"]
      BY <1>5 DEF FetchWrite
    <2>2. n \in Nat /\ n <= c.back + 1
      BY <1>0, SMTT(30)
    <2> HIDE DEF n
    <2>3. r \in Counts /\ r.come = c.come /\ r.read = c.read /\ r.back = n
      BY <1>0, <2>2 DEF Counts
    <2>4. c.back < c.read /\ "done" \in FetchPcs
      BY <1>0, <1>5 DEF FetchWrite, FetchPcs
    <2> HIDE DEF r, c
    <2>5. /\ r.back <= r.read /\ r.read <= r.come /\ r.come <= Len(sent[i])
      BY <1>0, <2>2, <2>3, <2>4, SMTT(30)
    <2> QED BY <1>1, <2>1, <2>3, <2>4, <2>5, AnswersStep
  <1> QED BY <1>2, <1>3, <1>4, <1>5 DEF Fetch

\* The sweeps find nothing to do: UdpConMap holds an int32 where onAction looks
\* for an int, and initTimer counts down a copy.
LEMMA SweepsIdle ==
    ASSUME UdpTypes, onAction \/ initTimer
    PROVE  UNCHANGED <<ustate, udpConns, idle, sock, sockTicks>>
  <1>1. CASE onAction
    <2>1. \A i \in Sessions : idle[i].type # "int"
      BY DEF UdpTypes, Idles
    <2>2. {i \in Sessions : idle[i].type = "int"} = {}
      BY <2>1
    <2>3. /\ idle' = [i \in Sessions |-> idle[i]] /\ ustate' = [i \in Sessions |-> ustate[i]]
          /\ udpConns' = [s \in Srcs |-> udpConns[s]]
      BY <1>1, <2>2 DEF onAction
    <2>4. idle' = idle /\ ustate' = ustate /\ udpConns' = udpConns
      BY <2>3 DEF UdpTypes
    <2> QED BY <1>1, <2>4 DEF onAction, sockVars
  <1>2. CASE initTimer
    <2>0. IdleTicks # 1
      BY UdpBounds
    <2>1. \A i \in Sessions : sockTicks[i] # 1
      BY <2>0, SMTT(30) DEF UdpTypes
    <2>2. {i \in Sessions : sockTicks[i] = 1} = {}
      BY <2>1
    <2>3. sockTicks' = [i \in Sessions |-> sockTicks[i]] /\ sock' = [i \in Sessions |-> sock[i]]
      BY <1>2, <2>2 DEF initTimer
    <2>4. sockTicks' = sockTicks /\ sock' = sock
      BY <2>3 DEF UdpTypes
    <2> QED BY <1>2, <2>4 DEF initTimer, sessVars
  <1> QED BY <1>1, <1>2

\* The idle sweeps.
LEMMA SweepsKeep == ASSUME UdpInv, onAction \/ initTimer PROVE UdpInv'
  <1>1. UNCHANGED <<ustate, udpConns, idle, sock, sockTicks>>
    BY SweepsIdle DEF UdpInv
  <1>2. OnlyAnswers /\ UNCHANGED <<fetch, answers>>
    BY <1>1 DEF onAction, initTimer, OnlyAnswers, sessVars, sockVars, proxyVars
  <1> QED BY <1>2, OnlyAnswersKeeps DEF UdpInv, UdpTypes, CountsInv, OnlyAnswers

\* A step that changes nothing of these, or only a read deadline.
LEMMA QuietKeeps ==
    ASSUME UdpInv, UNCHANGED vars \/ \E i \in Sessions : Deadline(i) PROVE UdpInv'
  <1>1. OnlyAnswers /\ UNCHANGED <<fetch, answers>>
    BY DEF vars, Deadline, OnlyAnswers, sessVars, proxyVars
  <1> QED BY <1>1, OnlyAnswersKeeps DEF UdpInv, UdpTypes, CountsInv, OnlyAnswers

\* Every step of the handler.
LEMMA HandlerKeeps == ASSUME UdpInv, NEW a \in Actors, Handler(a) PROVE UdpInv'
  <1>1. CASE HandlerLookup(a) \/ HandlerError(a)
    <2>1. OnlyAt
      BY <1>1 DEF HandlerLookup, HandlerError, OnlyAt, sessVars, sockVars, proxyVars
    <2>2. at[a].pc \in {"lookup", "write"} /\ (Step(a, "write") \/ Step(a, "close"))
      BY <1>1 DEF HandlerLookup, HandlerError
    <2> QED BY <2>1, <2>2, HandlerMoveKeeps
  <1> QED BY <1>1, HandlerWriteKeeps, HandlerCachedKeeps, CloseStateKeeps, CloseDeleteKeeps,
             CloseSockKeeps DEF Handler

\* Every step keeps the invariant.
LEMMA UdpInvNext == UdpInv /\ [Next]_vars => UdpInv'
  <1> SUFFICES ASSUME UdpInv, [Next]_vars PROVE UdpInv'
    OBVIOUS
  <1>1. CASE UNCHANGED vars
    BY <1>1, QuietKeeps
  <1>2. CASE \E s \in Srcs : RecvKnown(s) \/ StackClose(s)
    BY <1>2, RecvKnownKeeps, StackCloseKeeps
  <1>3. CASE \E s \in Srcs, i \in Sessions : RecvNew(s, i)
    BY <1>3, RecvNewKeeps
  <1>4. CASE Receiver
    BY <1>4, RecvStoreKeeps, RecvEnqueueKeeps, RecvCheckKeeps DEF Receiver
  <1>5. CASE \E a \in Actors : Handler(a)
    BY <1>5, HandlerKeeps
  <1>6. CASE \E i \in Sessions : Session(i)
    BY <1>6, ConnectOkKeeps, ConnectFailKeeps, SetConnectedKeeps, DrainKeeps DEF Session
  <1>7. CASE \E i \in Sessions : Fetch(i) \/ ProxyAnswers(i)
    BY <1>7, ProxyKeeps
  <1>8. CASE \E i \in Sessions : Deadline(i)
    BY <1>8, QuietKeeps
  <1>9. CASE onAction \/ initTimer
    BY <1>9, SweepsKeep
  <1> QED BY <1>1, <1>2, <1>3, <1>4, <1>5, <1>6, <1>7, <1>8, <1>9 DEF Next
-----------------------------------------------------------------------------
\* The inductive invariant holds.
THEOREM UdpInvariant == Spec => []UdpInv
  BY UdpInvInit, UdpInvNext, PTL DEF Spec

\* No packet of a client reaches the proxy twice, however the lwIP thread, the
\* sessions' goroutines and the closers interleave; the queue of early packets
\* keeps to its capacity, and no answer is read or written back twice.
THEOREM ForwardedOnceTheorem == Spec => []ForwardedOnce
  <1>1. UdpInv => ForwardedOnce
    BY DEF UdpInv, PacketsInv, CountsInv, ForwardedOnce
  <1> QED BY <1>1, UdpInvariant, PTL

\* udpSocks holds exactly the open sockets, and a connected session has one.
THEOREM SocketOfSessionTheorem == Spec => []SocketOfSession
  <1>1. UdpInv => SocketOfSession
    BY DEF UdpInv, SocketsInv, SessionSock, RxSock, SocketOfSession
  <1> QED BY <1>1, UdpInvariant, PTL

\* No sweep closes an idle session (onAction) or its socket (initTimer).
SweepsCloseNothing == [][onAction \/ initTimer => UNCHANGED <<ustate, udpConns, sock>>]_vars

\* What the sweeps are there for does not happen: whatever a session's count,
\* onAction closes no session and initTimer no socket.
THEOREM SweepsCloseNothingTheorem == Spec => SweepsCloseNothing
  <1>1. UdpInv /\ [Next]_vars => [onAction \/ initTimer => UNCHANGED <<ustate, udpConns, sock>>]_vars
    BY SweepsIdle DEF UdpInv
  <1> QED BY <1>1, UdpInvariant, PTL DEF Spec, SweepsCloseNothing
=============================================================================
