------------------------------ MODULE UdpConn ------------------------------
(***************************************************************************)
(* The UDP sessions of lwipcore/core (udp_conn.go,                         *)
(* udp_callback_export.go) with the SOCKS handler that relays them         *)
(* (proxy/socks/udp.go).  A session is a udpConn; udpConns finds it by the *)
(* client's source address.                                                *)
(*                                                                         *)
(* The actors are the lwIP thread, which runs udpRecvFn for one packet     *)
(* after the other; the goroutine newUDPConn starts for every session; the *)
(* goroutine that waits for the proxy's answer; the two idle sweeps; and   *)
(* LWIPStack.Close.  A step is a section under one mutex, or one operation *)
(* of a sync.Map or a socket.                                              *)
(***************************************************************************)
EXTENDS Naturals, Sequences, FiniteSets

CONSTANTS Srcs,        \* client source addresses
          Sessions,    \* the udpConns that may be created
          NoSession,
          Rx, Stack,   \* the lwIP thread and the goroutine in LWIPStack.Close
          MaxPkts,     \* packets the clients send
          PendingCap,  \* capacity of the channel pending
          IdleTicks,   \* sweeps an idle session should survive (timeout)
          ProxyFails   \* whether the proxy's port may be unreachable

ASSUME SessionsAssumption ==
    NoSession \notin Sessions /\ {Rx, Stack} \cap Sessions = {} /\ Rx # Stack
ASSUME UdpBounds == /\ MaxPkts \in Nat /\ PendingCap \in Nat \ {0}
                    /\ IdleTicks \in Nat \ {0, 1} /\ ProxyFails \in BOOLEAN

VARIABLES
    ustate,     \* conn.state
    src,        \* conn.localAddr
    udpConns,   \* the map from source addresses to sessions
    idle,       \* UdpConMap: the session's value, with its Go type
    pending,    \* the early packets
    sock,       \* the handler's socket to the proxy: "none", "open", "closed"
    udpSocks,   \* the sessions in the handler's map udpSocks
    sockTicks,  \* connectionTimeMap
    expired,    \* the sockets whose deadline has passed
    at,         \* where an actor is, with the session and packet it works on
    fetch,      \* fetchSocksData
    answers,    \* answers of the proxy: how many came, were read, were written back
    sent,       \* packets sent to the proxy, per session
    pkts,       \* packets received from the clients
    visited     \* the source addresses Range has visited in LWIPStack.Close

vars == <<ustate, src, udpConns, idle, pending, sock, udpSocks, sockTicks, expired,
          at, fetch, answers, sent, pkts, visited>>
sessVars  == <<ustate, src, udpConns, idle, pending>>
sockVars  == <<sock, udpSocks, sockTicks, expired>>
proxyVars == <<fetch, answers, sent>>

Actors == Sessions \union {Rx, Stack}
Frame(p, i, n) == [pc |-> p, conn |-> i, pkt |-> n]
Idle == Frame("idle", NoSession, 0)
Step(a, p) == at' = [at EXCEPT ![a].pc = p]

Init ==
    /\ ustate = [i \in Sessions |-> "none"]
    /\ src = [i \in Sessions |-> CHOOSE s \in Srcs : TRUE]
    /\ udpConns = [s \in Srcs |-> NoSession]
    /\ idle = [i \in Sessions |-> [type |-> "absent", n |-> 0]]
    /\ pending = [i \in Sessions |-> <<>>]
    /\ sock = [i \in Sessions |-> "none"]
    /\ udpSocks = {}
    /\ sockTicks = [i \in Sessions |-> 0]
    /\ expired = {}
    /\ at = [a \in Actors |-> Idle]
    /\ fetch = [i \in Sessions |-> "none"]
    /\ answers = [i \in Sessions |-> [come |-> 0, read |-> 0, back |-> 0]]
    /\ sent = [i \in Sessions |-> <<>>]
    /\ pkts = 0
    /\ visited = {}

----------------------------------------------------------------------------
(* udpRecvFn in the lwIP thread. *)

\* A packet for the session of its source address, if udpConns has one.
RecvKnown(s) ==
    /\ at[Rx] = Idle /\ pkts < MaxPkts
    /\ udpConns[s] # NoSession
    /\ pkts' = pkts + 1
    /\ at' = [at EXCEPT ![Rx] = Frame("receive", udpConns[s], pkts + 1)]
    /\ UNCHANGED <<sessVars, sockVars, proxyVars, visited>>

\* Otherwise newUDPConn makes one and starts its goroutine.
RecvNew(s, i) ==
    /\ at[Rx] = Idle /\ pkts < MaxPkts
    /\ udpConns[s] = NoSession
    /\ ustate[i] = "none"
    /\ ustate' = [ustate EXCEPT ![i] = "udpConnecting"]
    /\ src' = [src EXCEPT ![i] = s]
    /\ pkts' = pkts + 1
    /\ at' = [at EXCEPT ![Rx] = Frame("store", i, pkts + 1), ![i] = Frame("dial", i, 0)]
    /\ UNCHANGED <<udpConns, idle, pending, sockVars, proxyVars, visited>>

\* udpConns.Store, after the session's goroutine was started.
RecvStore ==
    /\ at[Rx].pc = "store"
    /\ udpConns' = [udpConns EXCEPT ![src[at[Rx].conn]] = at[Rx].conn]
    /\ Step(Rx, "receive")
    /\ UNCHANGED <<ustate, src, idle, pending, sockVars, proxyVars, pkts, visited>>

\* Mutant of RecvEnqueue: a connected session queues the packet as well.
RecvEnqueue_Always ==
    LET i == at[Rx].conn IN
    /\ at[Rx].pc = "receive"
    /\ idle' = [idle EXCEPT ![i] = [type |-> "int32", n |-> IdleTicks]]
    /\ IF Len(pending[i]) < PendingCap
       THEN /\ pending' = [pending EXCEPT ![i] = Append(@, at[Rx].pkt)]
            /\ at' = [at EXCEPT ![Rx] = Idle]
       ELSE Step(Rx, "check") /\ UNCHANGED pending
    /\ UNCHANGED <<ustate, src, udpConns, sockVars, proxyVars, pkts, visited>>

\* Mutant of RecvEnqueue: a queued packet is also handed to the handler.
RecvEnqueue_FallsThrough ==
    LET i == at[Rx].conn IN
    /\ at[Rx].pc = "receive"
    /\ idle' = [idle EXCEPT ![i] = [type |-> "int32", n |-> IdleTicks]]
    /\ pending' = [pending EXCEPT ![i] =
          IF ustate[i] = "udpConnecting" /\ Len(@) < PendingCap
          THEN Append(@, at[Rx].pkt) ELSE @]
    /\ Step(Rx, "check")
    /\ UNCHANGED <<ustate, src, udpConns, sockVars, proxyVars, pkts, visited>>

\* UdpConMap.Store(conn, timeout), an int32, and enqueueEarlyPacket.
RecvEnqueue ==
    LET i == at[Rx].conn IN
    /\ at[Rx].pc = "receive"
    /\ idle' = [idle EXCEPT ![i] = [type |-> "int32", n |-> IdleTicks]]
    /\ IF ustate[i] = "udpConnecting" /\ Len(pending[i]) < PendingCap
       THEN /\ pending' = [pending EXCEPT ![i] = Append(@, at[Rx].pkt)]
            /\ at' = [at EXCEPT ![Rx] = Idle]
       ELSE Step(Rx, "check") /\ UNCHANGED pending
    /\ UNCHANGED <<ustate, src, udpConns, sockVars, proxyVars, pkts, visited>>

\* checkState: the packet is dropped unless the session is connected.
RecvCheck ==
    /\ at[Rx].pc = "check"
    /\ at' = [at EXCEPT ![Rx] = IF ustate[@.conn] = "udpConnected"
                                THEN [@ EXCEPT !.pc = "lookup"] ELSE Idle]
    /\ UNCHANGED <<sessVars, sockVars, proxyVars, pkts, visited>>

----------------------------------------------------------------------------
(* The handler's ReceiveTo and Close, run by the lwIP thread for a packet  *)
(* that has just come, and by a session's goroutine for an early packet.   *)

\* Where the actor continues after ReceiveTo.
Resume(a) == IF a = Rx THEN Idle ELSE [at[a] EXCEPT !.pc = "drain"]
Quit(a)   == IF a = Rx THEN Idle ELSE [at[a] EXCEPT !.pc = "done"]

\* Reads and writes of the socket succeed: it is open and its deadline has not
\* passed.
Usable(i) == sock[i] = "open" /\ i \notin expired

HandlerLookup(a) ==
    /\ at[a].pc = "lookup"
    /\ Step(a, IF at[a].conn \in udpSocks THEN "write" ELSE "close")
    /\ UNCHANGED <<sessVars, sockVars, proxyVars, pkts, visited>>

\* The packet is sent.
HandlerWrite(a) ==
    LET i == at[a].conn IN
    /\ at[a].pc = "write" /\ Usable(i)
    /\ sent' = [sent EXCEPT ![i] = Append(@, at[a].pkt)]
    /\ at' = [at EXCEPT ![a] = Resume(a)]
    /\ UNCHANGED <<sessVars, sockVars, fetch, answers, pkts, visited>>

\* The write fails, and the handler closes the session.
HandlerError(a) ==
    /\ at[a].pc = "write" /\ (ProxyFails \/ ~Usable(at[a].conn))
    /\ Step(a, "close")
    /\ UNCHANGED <<sessVars, sockVars, proxyVars, pkts, visited>>

\* A DNS query that the cache answers: WriteFrom checks the session's state.
HandlerCached(a) ==
    /\ at[a].pc = "write"
    /\ at' = [at EXCEPT ![a] = IF ustate[@.conn] = "udpConnected" THEN Resume(a)
                               ELSE [@ EXCEPT !.pc = "close"]]
    /\ UNCHANGED <<sessVars, sockVars, proxyVars, pkts, visited>>

\* Mutant of CloseState: only a connecting session becomes closed.
CloseState_NotConnected(a) ==
    /\ at[a].pc = "close"
    /\ ustate' = [ustate EXCEPT ![at[a].conn] = IF @ = "udpConnected" THEN @ ELSE "udpClosed"]
    /\ Step(a, "delete")
    /\ UNCHANGED <<src, udpConns, idle, pending, sockVars, proxyVars, pkts, visited>>

\* conn.Close(): first the state ...
CloseState(a) ==
    /\ at[a].pc = "close"
    /\ ustate' = [ustate EXCEPT ![at[a].conn] = "udpClosed"]
    /\ Step(a, "delete")
    /\ UNCHANGED <<src, udpConns, idle, pending, sockVars, proxyVars, pkts, visited>>

\* ... then udpConns.Delete, by source address.  LWIPStack.Close and a failed
\* Connect only close the session, the handler also its socket.
CloseDelete(a) ==
    /\ at[a].pc = "delete"
    /\ udpConns' = [udpConns EXCEPT ![src[at[a].conn]] = NoSession]
    /\ at' = [at EXCEPT ![a] = IF a = Stack THEN Idle ELSE [@ EXCEPT !.pc = "unsock"]]
    /\ UNCHANGED <<ustate, src, idle, pending, sockVars, proxyVars, pkts, visited>>

CloseSock(a) ==
    LET i == at[a].conn IN
    /\ at[a].pc = "unsock"
    /\ sock' = [sock EXCEPT ![i] = IF i \in udpSocks THEN "closed" ELSE @]
    /\ udpSocks' = udpSocks \ {i}
    /\ at' = [at EXCEPT ![a] = Quit(a)]
    /\ UNCHANGED <<sessVars, sockTicks, expired, fetch,
                   answers, sent, pkts, visited>>

\* LWIPStack.Close: udpConns.Range(... Close()) visits an address at most once.
StackClose(s) ==
    /\ at[Stack] = Idle /\ s \notin visited
    /\ udpConns[s] # NoSession
    /\ at' = [at EXCEPT ![Stack] = Frame("close", udpConns[s], 0)]
    /\ visited' = visited \union {s}
    /\ UNCHANGED <<sessVars, sockVars, proxyVars, pkts>>

----------------------------------------------------------------------------
(* The goroutine newUDPConn starts. *)

\* Connect: the socket is made, entered in connectionTimeMap and udpSocks, and
\* fetchSocksData is started.
ConnectOk(i) ==
    /\ at[i].pc = "dial"
    /\ sock' = [sock EXCEPT ![i] = "open"]
    /\ sockTicks' = [sockTicks EXCEPT ![i] = IdleTicks]
    /\ udpSocks' = udpSocks \union {i}
    /\ fetch' = [fetch EXCEPT ![i] = "read"]
    /\ Step(i, "connected")
    /\ UNCHANGED <<sessVars, expired, answers, sent, pkts, visited>>

ConnectFail(i) ==
    /\ at[i].pc = "dial"
    /\ Step(i, "close")
    /\ UNCHANGED <<sessVars, sockVars, proxyVars, pkts, visited>>

\* conn.state = udpConnected, whatever the state is by now.
SetConnected(i) ==
    /\ at[i].pc = "connected"
    /\ ustate' = [ustate EXCEPT ![i] = "udpConnected"]
    /\ Step(i, "drain")
    /\ UNCHANGED <<src, udpConns, idle, pending, sockVars, proxyVars, pkts, visited>>

\* The loop DrainPending hands the early packets to the handler.
Drain(i) ==
    /\ at[i].pc = "drain"
    /\ IF pending[i] = <<>>
       THEN Step(i, "done") /\ UNCHANGED pending
       ELSE /\ at' = [at EXCEPT ![i] = Frame("lookup", i, Head(pending[i]))]
            /\ pending' = [pending EXCEPT ![i] = Tail(@)]
    /\ UNCHANGED <<ustate, src, udpConns, idle, sockVars, proxyVars, pkts, visited>>

----------------------------------------------------------------------------
(* The proxy, the deadline of its socket, and fetchSocksData. *)

ProxyAnswers(i) ==
    /\ answers[i].come < Len(sent[i])
    /\ answers' = [answers EXCEPT ![i].come = @ + 1]
    /\ UNCHANGED <<sessVars, sockVars, at, fetch, sent, pkts, visited>>

Deadline(i) ==
    /\ sock[i] = "open" /\ i \notin expired
    /\ expired' = expired \union {i}
    /\ UNCHANGED <<sessVars, sock, udpSocks, sockTicks, at,
                   proxyVars, pkts, visited>>

\* remoteConn.Read returns an answer; UnpackUDPData may reject it.
FetchRead(i, unpacks) ==
    /\ fetch[i] = "read" /\ Usable(i)
    /\ answers[i].read < answers[i].come
    /\ answers' = [answers EXCEPT ![i].read = @ + 1]
    /\ fetch' = [fetch EXCEPT ![i] = IF unpacks THEN "write" ELSE "done"]
    /\ UNCHANGED <<sessVars, sockVars, at, sent, pkts, visited>>

\* remoteConn.Read fails: the deadline has passed, the socket was closed, or the
\* proxy's port is unreachable.
FetchError(i) ==
    /\ fetch[i] = "read" /\ (ProxyFails \/ ~Usable(i))
    /\ fetch' = [fetch EXCEPT ![i] = "done"]
    /\ UNCHANGED <<sessVars, sockVars, at, answers, sent, pkts, visited>>

\* conn.WriteFrom; fetchSocksData returns after one answer.
FetchWrite(i) ==
    /\ fetch[i] = "write"
    /\ answers' = [answers EXCEPT ![i].back = IF ustate[i] = "udpConnected" THEN @ + 1 ELSE @]
    /\ fetch' = [fetch EXCEPT ![i] = "done"]
    /\ UNCHANGED <<sessVars, sockVars, at, sent, pkts, visited>>

----------------------------------------------------------------------------
(* The sweeps, every five seconds. *)

\* onAction counts down the values of type int only, and closes at zero.
onAction ==
    LET counted == {i \in Sessions : idle[i].type = "int"}
        due == {i \in counted : idle[i].n = 0}
    IN
    /\ idle' = [i \in Sessions |->
                  CASE i \in due           -> [type |-> "absent", n |-> 0]
                    [] i \in counted \ due -> [idle[i] EXCEPT !.n = @ - 1]
                    [] OTHER               -> idle[i]]
    /\ ustate' = [i \in Sessions |-> IF i \in due THEN "udpClosed" ELSE ustate[i]]
    /\ udpConns' = [s \in Srcs |-> IF \E i \in due : src[i] = s THEN NoSession ELSE udpConns[s]]
    /\ UNCHANGED <<src, pending, sockVars, at, proxyVars, pkts, visited>>

\* initTimer's loop decrements its copy of the count, and does not store it.
initTimer ==
    LET due == {i \in Sessions : sockTicks[i] = 1} IN
    /\ sockTicks' = [i \in Sessions |-> IF i \in due THEN 0 ELSE sockTicks[i]]
    /\ sock' = [i \in Sessions |-> IF i \in due THEN "closed" ELSE sock[i]]
    /\ UNCHANGED <<sessVars, udpSocks, expired, at, fetch,
                   answers, sent, pkts, visited>>

----------------------------------------------------------------------------

Receiver == \/ RecvStore
            \/ RecvEnqueue
            \/ RecvCheck

Handler(a) == \/ HandlerLookup(a)
              \/ HandlerWrite(a)
              \/ HandlerError(a)
              \/ HandlerCached(a)
              \/ CloseState(a)
              \/ CloseDelete(a)
              \/ CloseSock(a)

Session(i) == \/ ConnectOk(i)
              \/ ConnectFail(i)
              \/ SetConnected(i)
              \/ Drain(i)

Fetch(i) == \/ \E unpacks \in BOOLEAN : FetchRead(i, unpacks)
            \/ FetchError(i)
            \/ FetchWrite(i)

Next ==
    \/ \E s \in Srcs : RecvKnown(s) \/ StackClose(s)
    \/ \E s \in Srcs, i \in Sessions : RecvNew(s, i)
    \/ Receiver
    \/ \E a \in Actors : Handler(a)
    \/ \E i \in Sessions : Session(i) \/ Fetch(i) \/ ProxyAnswers(i) \/ Deadline(i)
    \/ onAction
    \/ initTimer

Spec == Init /\ [][Next]_vars

\* Every goroutine that can run does, a dial ends, and the sweeps go on.
\* Nothing is assumed of the clients, the proxy, or LWIPStack.Close being called.
Fairness ==
    /\ WF_vars(Receiver)
    /\ \A a \in Actors : WF_vars(Handler(a))
    /\ \A i \in Sessions : WF_vars(Session(i)) /\ WF_vars(Fetch(i))
    /\ WF_vars(onAction)
    /\ WF_vars(initTimer)

FairSpec == Spec /\ Fairness

----------------------------------------------------------------------------
(* Properties. *)

\* A packet goes to the proxy at most once, whether the lwIP thread forwards it
\* or the session's goroutine, which takes over the early packets at the moment
\* the state changes; the channel they wait in never holds more than it can,
\* and no answer is read or written back that did not come.
ForwardedOnce ==
    /\ \A i \in Sessions :
          /\ Len(pending[i]) <= PendingCap
          /\ answers[i].back <= answers[i].read /\ answers[i].read <= answers[i].come
          /\ answers[i].come <= Len(sent[i])
    /\ \A i, j \in Sessions : \A m \in DOMAIN sent[i], n \in DOMAIN sent[j] :
          sent[i][m] = sent[j][n] => i = j /\ m = n

\* The handler's sockets and the sessions agree: udpSocks holds exactly the open
\* sockets, and a connected session has one, so that a packet which passed
\* checkState finds the socket unless the session is closed in between.
SocketOfSession ==
    \A i \in Sessions :
        /\ i \in udpSocks <=> sock[i] = "open"
        /\ ustate[i] = "udpConnected" => i \in udpSocks

\* Early packets do not stay in the queue of a session that connects: a packet
\* queued just before the state changes is still drained.
EarlyPacketsLeave ==
    \A i \in Sessions :
        (pending[i] # <<>>) ~> (pending[i] = <<>> \/ ustate[i] = "udpClosed")
=============================================================================
