-------------------------- MODULE TcpStreamProofs --------------------------
(***************************************************************************)
(* Proof that the connections of TcpConn implement TunnelStream, for any   *)
(* set of connections and any bounds, and with it that a handler reads the *)
(* client's segments in order and is told of the end after all of them.    *)
(*                                                                         *)
(* The invariant of TcpConnProofs says nothing of the data.  The one added *)
(* here says where each segment is: read, in the pipe with a blocked       *)
(* Receive, refused and kept by the pcb, or dropped with the receive side  *)
(* shut.                                                                   *)
(***************************************************************************)
EXTENDS TcpStream, TcpConnProofs

\* Most leaves are first-order; the ones with arithmetic or records ask for SMT.
USE Zenon

\* The segment a blocked Receive of c holds, 0 for none, and its FIN.
Blocked(c)    == IF lwipMutex.conn = c THEN lwipMutex.seg ELSE 0
BlockedFin(c) == lwipMutex.conn = c /\ lwipMutex.fin

\* Of n segments the reader got k.  st is the connection's state, p its pcb, b
\* and f what a blocked Receive holds.
Data(st, p, b, f, n, k) ==
    /\ p.refused # 0 => p.refused = n /\ b = 0 /\ n = k + 1
    /\ b # 0 => b = n /\ n = k + 1
    /\ p.tcp # "FREED" /\ ~p.rxClosed /\ p.refused = 0 /\ b = 0 => n = k
    /\ p.fin \/ f => ~CanReceive(p)
    /\ f => p.refused = 0
    /\ st = "tcpReceiveClosed" => p.tcp = "CLOSE_WAIT" /\ p.refused = 0 /\ b = 0
    /\ st \in {"tcpNewConn", "tcpConnecting", "tcpConnected"} =>
          p.tcp \in {"ESTABLISHED", "CLOSE_WAIT"}
    /\ p.tcp = "FREED" => p.refused = 0 /\ ~p.fin
    /\ k <= n

DataInv ==
    \A c \in Conns : Data(state[c], pcb[c], Blocked(c), BlockedFin(c), segs[c], Len(got[c]))

\* The order in which the goroutines of a connection work: q is pc[c], d says
\* whether the pipe is closed, b is what a blocked Receive holds.
Order(st, p, d, b, q) ==
    /\ q["stack"] \in {"idle", "checkState", "done"}
    /\ q["connector"] \in {"idle", "accept", "dial"} => q["relay"] = "idle"
    /\ q["connector"] = "accept" =>
          st \in {"tcpNewConn", "tcpAborting"} /\ p.tcp = "ESTABLISHED" /\ b = 0
    /\ \A a \in Actors : q[a] = "shutdown" => st \in {"tcpWriteClosed"} \union AtLeastClosing
    /\ st = "tcpReceiveClosed" => d
    /\ st = "none" => ~d

OrderInv == \A c \in Conns : Order(state[c], pcb[c], pipeDone[c], Blocked(c), pc[c])

SInv == IInv /\ DataInv /\ OrderInv /\ InOrderDelivery

----------------------------------------------------------------------------
(* What a part of a handler does to a connection, p being its pcb before. *)

SameConn(c) == /\ state'[c] = state[c] /\ pipeDone'[c] = pipeDone[c]
               /\ (c \in tcpConns' <=> c \in tcpConns)

Keeps(c, p) == SameConn(c) /\ pcb'[c] = p

Drops(c, p) ==
    /\ SameConn(c) /\ pcb'[c] = FreedPcb
    /\ p.cbs /\ c \in tcpConns => p.tcp \notin {"ESTABLISHED", "CLOSE_WAIT"}

Leaves(c, p) ==
    /\ c \in tcpConns /\ c \notin tcpConns' /\ state'[c] \in Released
    /\ pcb'[c] \in {FreedPcb, tcp_close(p)} \/ (pcb'[c] = p /\ ~Live(p))

Ends(c, p) ==
    /\ state[c] \in {"tcpConnecting", "tcpConnected"} /\ state'[c] = "tcpReceiveClosed"
    /\ c \in tcpConns /\ c \in tcpConns' /\ pipeDone'[c] /\ pcb'[c] = p

\* release takes the connection out of the map.
LEMMA ReleaseOutcome ==
    ASSUME PartType, NEW c \in Conns, NEW s \in Released, release(c, s)
    PROVE  c \notin tcpConns' /\ state'[c] \in Released
BY DEF PartType, release

\* closeInternal and abortInternal take it out with its pcb closed or freed.
LEMMA InternalOutcome ==
    ASSUME PartType, NEW c \in Conns, c \in tcpConns, NEW p, Live(pcb[c]) \/ p = pcb[c],
           closeInternal(c, p) \/ abortInternal(c, p)
    PROVE  Leaves(c, p)
<1>1. c \notin tcpConns' /\ state'[c] \in Released
  BY ReleaseOutcome DEF closeInternal, abortInternal, Released
<1>2. pcb'[c] \in {FreedPcb, tcp_close(p)} \/ (pcb'[c] = p /\ ~Live(p))
  BY DEF closeInternal, abortInternal, UsePcb, SetPcb, PartType
<1> QED  BY <1>1, <1>2 DEF Leaves

\* checkState leaves the connection alone or releases it.
LEMMA CheckOutcome ==
    ASSUME PartType, ConnInv, NEW c \in Conns, NEW p, Live(pcb[c]) \/ p = pcb[c],
           checkState(c, p)
    PROVE  Keeps(c, p) \/ Leaves(c, p)
<1>1. CASE state[c] \in {"tcpClosing", "tcpAborting"}
  <2>1. c \in tcpConns
    BY <1>1 DEF ConnInv, Released
  <2>2. closeInternal(c, p) \/ abortInternal(c, p)
    BY <1>1 DEF checkState
  <2> QED  BY <2>1, <2>2, InternalOutcome
<1>2. CASE state[c] \notin {"tcpClosing", "tcpAborting"}
  <2>1. SetPcb(c, p) /\ UNCHANGED connVars
    BY <1>2 DEF checkState
  <2> QED  BY <2>1 DEF Keeps, SameConn, SetPcb, PartType, connVars
<1> QED  BY <1>1, <1>2

\* A pcb that is freed leaves the map, too, if it still has its callbacks.
LEMMA FreeOutcome ==
    ASSUME PartType, NEW c \in Conns, NEW p, FreeWithErr(c, p)
    PROVE  Leaves(c, p) \/ Drops(c, p)
<1>1. pcb'[c] = FreedPcb
  BY DEF FreeWithErr, SetPcb, PartType
<1>2. CASE p.cbs /\ Active(p) /\ c \in tcpConns
  <2>1. release(c, "tcpErrored")
    BY <1>2 DEF FreeWithErr, tcpErrFn
  <2> QED  BY <1>1, <1>2, <2>1, ReleaseOutcome DEF Leaves, Released
<1>3. CASE ~(p.cbs /\ Active(p) /\ c \in tcpConns)
  <2>1. UNCHANGED connVars
    BY <1>3 DEF FreeWithErr, tcpErrFn
  <2> QED  BY <1>1, <1>3, <2>1 DEF Drops, SameConn, connVars, Active, Live
<1> QED  BY <1>2, <1>3

\* The sent and poll callbacks.
LEMMA SentOutcome ==
    ASSUME PartType, ConnInv, NEW c \in Conns, Live(pcb[c]), NEW p, tcpSentFn(c, p)
    PROVE  Keeps(c, p) \/ Leaves(c, p) \/ Drops(c, p)
<1>1. CASE ~p.cbs
  <2>1. SetPcb(c, p) /\ UNCHANGED connVars
    BY <1>1 DEF tcpSentFn
  <2> QED  BY <2>1 DEF Keeps, SameConn, SetPcb, PartType, connVars
<1>2. CASE p.cbs /\ c \in tcpConns
  BY <1>2, CheckOutcome DEF tcpSentFn
<1>3. CASE p.cbs /\ c \notin tcpConns
  BY <1>3, FreeOutcome DEF tcpSentFn
<1> QED  BY <1>1, <1>2, <1>3

\* The end of the client's stream.
LEMMA EofOutcome ==
    ASSUME PartType, ConnInv, NEW c \in Conns, Live(pcb[c]), NEW p, tcpRecvFnEof(c, p)
    PROVE  Keeps(c, p) \/ Leaves(c, p) \/ Drops(c, p) \/ Ends(c, p)
<1>1. CASE ~p.cbs
  <2>1. SetPcb(c, p) /\ UNCHANGED connVars
    BY <1>1 DEF tcpRecvFnEof
  <2> QED  BY <2>1 DEF Keeps, SameConn, SetPcb, PartType, connVars
<1>2. CASE p.cbs /\ c \in tcpConns
  <2>0. LocalClosed(c, p)
    BY <1>2 DEF tcpRecvFnEof
  <2>1. CASE state[c] = "tcpWriteClosed"
    <3>1. closeInternal(c, p)
      BY <2>0, <2>1 DEF LocalClosed
    <3> QED  BY <1>2, <3>1, InternalOutcome
  <2>2. CASE state[c] \in {"tcpConnecting", "tcpConnected"}
    <3>1. /\ pipeDone' = [pipeDone EXCEPT ![c] = TRUE]
          /\ state' = [state EXCEPT ![c] = "tcpReceiveClosed"]
          /\ SetPcb(c, p) /\ tcpConns' = tcpConns
      BY <2>0, <2>2 DEF LocalClosed
    <3> QED  BY <1>2, <2>2, <3>1 DEF Ends, SetPcb, PartType
  <2>3. CASE state[c] \notin {"tcpWriteClosed", "tcpConnecting", "tcpConnected"}
    <3>1. checkState(c, p)
      BY <2>0, <2>3 DEF LocalClosed
    <3> QED  BY <3>1, CheckOutcome
  <2> QED  BY <2>1, <2>2, <2>3
<1>3. CASE p.cbs /\ c \notin tcpConns
  BY <1>3, FreeOutcome DEF tcpRecvFnEof
<1> QED  BY <1>1, <1>2, <1>3

\* What follows a segment that was taken: the end of the stream only with a FIN.
LEMMA DeliveredOutcome ==
    ASSUME PartType, ConnInv, NEW c \in Conns, Live(pcb[c]), NEW p, NEW fin, Delivered(c, p, fin)
    PROVE  \/ Keeps(c, p) \/ Leaves(c, p) \/ Drops(c, p)
           \/ fin /\ Ends(c, p)
<1>1. CASE fin
  BY <1>1, EofOutcome DEF Delivered
<1>2. CASE ~fin
  <2>1. SetPcb(c, p) /\ UNCHANGED connVars
    BY <1>2 DEF Delivered
  <2> QED  BY <2>1 DEF Keeps, SameConn, SetPcb, PartType, connVars
<1> QED  BY <1>1, <1>2

----------------------------------------------------------------------------
(* The outcomes keep the data where it is, and are steps of the stream. *)

\* The fields of the pcbs the handlers make that Data reads.
LEMMA CloseFields ==
    ASSUME NEW p \in PcbType
    PROVE  \/ tcp_close(p) = FreedPcb
           \/ /\ tcp_close(p).rxClosed /\ tcp_close(p).refused = p.refused
              /\ tcp_close(p).fin = p.fin
              /\ tcp_close(p).tcp = "FREED" => p.tcp = "FREED"
              /\ CanReceive(tcp_close(p)) => CanReceive(p)
<1> DEFINE t == CASE p.tcp = "ESTABLISHED" -> "FIN_WAIT"
                  [] p.tcp = "CLOSE_WAIT"  -> "LAST_ACK"
                  [] OTHER                 -> p.tcp
           q == [p EXCEPT !.tcp = t]
           r == [q EXCEPT !.rxClosed = TRUE, !.cbs = FALSE]
<1>1. tcp_close(p) \in {FreedPcb, r}
  BY DEF tcp_close, tcp_close_shutdown_fin, PcbType
<1>2. t = "FREED" => p.tcp = "FREED"
  OBVIOUS
<1>3. t \in {"ESTABLISHED", "FIN_WAIT"} => CanReceive(p)
  BY DEF CanReceive
<1>4. r.tcp = t /\ r.rxClosed /\ r.refused = p.refused /\ r.fin = p.fin
  <2> HIDE DEF t
  <2> QED  BY DEF PcbType
<1> HIDE DEF r
<1> QED  BY <1>1, <1>2, <1>3, <1>4 DEF CanReceive

\* Shutting the receive side drops what was refused.
LEMMA ShutFields ==
    ASSUME NEW p \in PcbType
    PROVE  LET q == tcp_shutdown_rx(p) IN
           q.tcp = p.tcp /\ q.rxClosed /\ q.refused = 0 /\ ~q.fin /\ q.cbs = p.cbs
BY DEF tcp_shutdown_rx, PcbType

\* A freed pcb holds nothing.
LEMMA FreedFields == FreedPcb.tcp = "FREED" /\ FreedPcb.refused = 0 /\ ~FreedPcb.fin
BY DEF FreedPcb, Pcb

\* A part of a handler keeps Data.
LEMMA OutcomeData ==
    ASSUME PartType, ConnInv, NEW c \in Conns, NEW p, Shape(c, p), NEW n \in Nat, NEW k \in Nat,
           Data(state[c], p, 0, FALSE, n, k),
           \/ Keeps(c, p) \/ Leaves(c, p) \/ Drops(c, p)
           \/ Ends(c, p) /\ ~CanReceive(p) /\ p.refused = 0
    PROVE  Data(state'[c], pcb'[c], 0, FALSE, n, k)
<1>1. CASE Keeps(c, p)
  BY <1>1 DEF Keeps, SameConn
<1>2. CASE Leaves(c, p)
  <2>1. state'[c] \notin {"tcpReceiveClosed", "tcpNewConn", "tcpConnecting", "tcpConnected"}
    BY <1>2 DEF Leaves, Released
  <2>2. pcb'[c] \in {FreedPcb, p, tcp_close(p)}
    BY <1>2 DEF Leaves
  <2>3. p \in PcbType
    BY DEF Shape
  <2> QED  BY <2>1, <2>2, <2>3, CloseFields, FreedFields, SMTT(30) DEF Data
<1>3. CASE Drops(c, p)
  <2>1. p.tcp \in {"ESTABLISHED", "CLOSE_WAIT"} => c \notin tcpConns
    BY <1>3 DEF Drops, Shape, ConnInv, Live
  <2>2. state[c] \notin {"tcpReceiveClosed", "tcpNewConn", "tcpConnecting", "tcpConnected"}
    BY <2>1 DEF ConnInv, Data, Released
  <2>3. state'[c] = state[c] /\ pcb'[c] = FreedPcb
    BY <1>3 DEF Drops, SameConn
  <2> QED  BY <2>2, <2>3, FreedFields DEF Data
<1>4. CASE Ends(c, p) /\ ~CanReceive(p) /\ p.refused = 0
  <2>1. p.tcp = "CLOSE_WAIT"
    BY <1>4 DEF Ends, Data, CanReceive
  <2> QED  BY <1>4, <2>1 DEF Ends, Data
<1> QED  BY <1>1, <1>2, <1>3, <1>4

\* What a step that moves no data may do to the phase of c.
PhaseStep(c) ==
    LET old == streamPhase[c]
        new == streamPhase'[c]
    IN  \/ new = old
        \/ old = "none" /\ new = "open"
        \/ old \in {"open", "closing"} /\ new = "eof" /\ Len(got[c]) = segs[c]
        \/ old \in {"open", "eof"} /\ new = "closing"
        \/ old \in {"open", "eof", "closing"} /\ new = "gone"

\* The phase of one connection.
LEMMA PhaseOf ==
    ASSUME NEW c \in Conns
    PROVE  /\ streamPhase[c] =
                 IF state[c] = "none" THEN "none"
                 ELSE IF c \notin tcpConns THEN "gone"
                 ELSE IF state[c] = "tcpReceiveClosed" /\ ~pcb[c].rxClosed THEN "eof"
                 ELSE IF pipeDone[c] THEN "closing" ELSE "open"
           /\ streamPhase'[c] =
                 IF state'[c] = "none" THEN "none"
                 ELSE IF c \notin tcpConns' THEN "gone"
                 ELSE IF state'[c] = "tcpReceiveClosed" /\ ~pcb'[c].rxClosed THEN "eof"
                 ELSE IF pipeDone'[c] THEN "closing" ELSE "open"
BY DEF streamPhase

\* A part of a handler is a step of the stream.
LEMMA OutcomePhase ==
    ASSUME PartType, ConnInv, NEW c \in Conns, NEW p, Shape(c, p),
           Data(state[c], p, 0, FALSE, segs[c], Len(got[c])),
           \/ Keeps(c, p) \/ Leaves(c, p) \/ Drops(c, p)
           \/ Ends(c, p) /\ ~CanReceive(p) /\ p.refused = 0,
           state[c] = "tcpReceiveClosed" => p.rxClosed = pcb[c].rxClosed
    PROVE  PhaseStep(c)
<1>1. CASE Keeps(c, p)
  BY <1>1, PhaseOf, SMTT(30) DEF Keeps, SameConn, PhaseStep
<1>2. CASE Leaves(c, p)
  <2>1. state[c] # "none" /\ state'[c] # "none"
    BY <1>2 DEF Leaves, ConnInv, Released
  <2> QED  BY <1>2, <2>1, PhaseOf DEF Leaves, PhaseStep
<1>3. CASE Drops(c, p)
  <2>1. p.tcp = "CLOSE_WAIT" => c \notin tcpConns
    BY <1>3 DEF Drops, Shape, ConnInv, Live
  <2>2. state[c] # "tcpReceiveClosed"
    BY <2>1 DEF ConnInv, Data, Released
  <2> QED  BY <1>3, <2>2, PhaseOf DEF Drops, SameConn, PhaseStep
<1>4. CASE Ends(c, p) /\ ~CanReceive(p) /\ p.refused = 0
  <2>1. p.tcp = "CLOSE_WAIT" /\ (~p.rxClosed => Len(got[c]) = segs[c])
    BY <1>4 DEF Ends, Data, CanReceive
  <2> QED  BY <1>4, <2>1, PhaseOf DEF Ends, PhaseStep
<1> QED  BY <1>1, <1>2, <1>3, <1>4

----------------------------------------------------------------------------
(* From one connection to the whole state. *)

StreamStep == [Stream!Next]_(Stream!vars)

\* What a step must do besides keeping IInv.
StreamKept == DataInv' /\ OrderInv' /\ InOrderDelivery' /\ StreamStep

\* A step of c leaves the data of the other connections alone.
OwnData(c) ==
    /\ \A d \in Conns : d # c => segs'[d] = segs[d] /\ got'[d] = got[d] /\ pc'[d] = pc[d]
    /\ \/ lwipMutex' = lwipMutex
       \/ lwipMutex.conn \in {c, NoConn} /\ lwipMutex'.conn \in {c, NoConn}

\* Then only c has to be looked at.
LEMMA OneConn ==
    ASSUME SInv, NEW c \in Conns, Others(c), OwnData(c),
           Data(state'[c], pcb'[c], Blocked(c)', BlockedFin(c)', segs'[c], Len(got'[c])),
           Order(state'[c], pcb'[c], pipeDone'[c], Blocked(c)', pc'[c]),
           \A i \in DOMAIN got'[c] : got'[c][i] = i
    PROVE  DataInv' /\ OrderInv' /\ InOrderDelivery'
<1> SUFFICES ASSUME NEW d \in Conns, d # c
             PROVE  /\ Data(state'[d], pcb'[d], Blocked(d)', BlockedFin(d)', segs'[d], Len(got'[d]))
                    /\ Order(state'[d], pcb'[d], pipeDone'[d], Blocked(d)', pc'[d])
                    /\ \A i \in DOMAIN got'[d] : got'[d][i] = i
  BY DEF DataInv, OrderInv, InOrderDelivery
<1>1. Blocked(d)' = Blocked(d) /\ (BlockedFin(d)' <=> BlockedFin(d))
  BY ConnsAssumption, SMTT(30) DEF OwnData, Blocked, BlockedFin
<1>2. /\ state'[d] = state[d] /\ pcb'[d] = pcb[d] /\ pipeDone'[d] = pipeDone[d]
      /\ segs'[d] = segs[d] /\ got'[d] = got[d] /\ pc'[d] = pc[d]
  BY DEF Others, OwnData
<1>3. /\ Data(state[d], pcb[d], Blocked(d), BlockedFin(d), segs[d], Len(got[d]))
      /\ Order(state[d], pcb[d], pipeDone[d], Blocked(d), pc[d])
      /\ \A i \in DOMAIN got[d] : got[d][i] = i
  BY DEF SInv, DataInv, OrderInv, InOrderDelivery
<1>4. Data(state'[d], pcb'[d], Blocked(d)', BlockedFin(d)', segs'[d], Len(got'[d]))
  BY <1>1, <1>2, <1>3 DEF Data
<1> QED  BY <1>1, <1>2, <1>3, <1>4

\* The phases of the other connections stay; that of c is the only change.
LEMMA PhaseOthers ==
    ASSUME NEW c \in Conns, Others(c)
    PROVE  streamPhase' = [streamPhase EXCEPT ![c] = streamPhase'[c]]
<1>1. ASSUME NEW d \in Conns, d # c PROVE streamPhase'[d] = streamPhase[d]
  BY <1>1, PhaseOf, SMTT(30) DEF Others
<1>2. /\ streamPhase = [d \in Conns |-> streamPhase[d]]
      /\ streamPhase' = [d \in Conns |-> streamPhase'[d]]
  BY DEF streamPhase
<1> HIDE DEF streamPhase
<1> QED  BY <1>1, <1>2

\* A step that moves no data is a step of the stream.
LEMMA StreamMove ==
    ASSUME NEW c \in Conns, Others(c), PhaseStep(c), segs' = segs, got' = got
    PROVE  StreamStep
<1>1. streamPhase' = [streamPhase EXCEPT ![c] = streamPhase'[c]]
  BY PhaseOthers
<1>2. CASE streamPhase'[c] = streamPhase[c]
  <2>1. streamPhase' = streamPhase
    BY <1>1, <1>2 DEF streamPhase
  <2> QED  BY <2>1 DEF StreamStep, Stream!vars
<1>3. CASE streamPhase'[c] # streamPhase[c]
  <2>1. \/ Stream!Open(c) \/ Stream!EndOfStream(c) \/ Stream!StopReading(c) \/ Stream!Release(c)
    BY <1>1, <1>3 DEF PhaseStep, Stream!Open, Stream!EndOfStream, Stream!StopReading,
       Stream!Release, Stream!Enter
  <2> QED  BY <2>1 DEF StreamStep, Stream!Next
<1> QED  BY <1>2, <1>3

\* A segment that arrives is a Take of the stream.
LEMMA StreamTake ==
    ASSUME NEW c \in Conns, Others(c), streamPhase[c] \notin {"none", "eof"},
           streamPhase'[c] \in {streamPhase[c], "gone"},
           segs' = [segs EXCEPT ![c] = @ + 1], got' = got
    PROVE  StreamStep
<1>1. streamPhase' = [streamPhase EXCEPT ![c] = streamPhase'[c]]
  BY PhaseOthers
<1>2. streamPhase'[c] = streamPhase[c] => streamPhase' = streamPhase
  BY <1>1 DEF streamPhase
<1>3. Stream!Take(c)
  BY <1>1, <1>2 DEF Stream!Take, Stream!Enter
<1> QED  BY <1>3 DEF StreamStep, Stream!Next

\* Nothing is blocked while lwipMutex is free.
LEMMA NothingBlocked ==
    ASSUME NEW c \in Conns, lwipUnlocked
    PROVE  Blocked(c) = 0 /\ ~BlockedFin(c)
BY ConnsAssumption DEF lwipUnlocked, Free, Blocked, BlockedFin

\* Nothing is blocked after a step that ends with lwipMutex free.
LEMMA NothingBlockedNext ==
    ASSUME NEW c \in Conns, lwipMutex' = Free
    PROVE  Blocked(c)' = 0 /\ ~BlockedFin(c)'
BY ConnsAssumption DEF Free, Blocked, BlockedFin

\* What the outcomes do to the connection's own state.
ConnMove(c) ==
    \/ SameConn(c)
    \/ state'[c] \in Released
    \/ /\ state[c] \in {"tcpConnecting", "tcpConnected"}
       /\ state'[c] = "tcpReceiveClosed" /\ pipeDone'[c]

\* Program counters that go on without starting another tcp_shutdown.
PcMove(q, r) ==
    /\ r["stack"] \in {"idle", "checkState", "done"}
    /\ r["connector"] \in {"idle", "dial"} => r["relay"] = "idle"
    /\ r["connector"] # "accept"
    /\ \A a \in Actors : r[a] = "shutdown" => q[a] = "shutdown"

\* Such a move keeps the order of the goroutines.
LEMMA MoveOrder ==
    ASSUME NEW c \in Conns, NEW p, NEW b, Order(state[c], p, pipeDone[c], b, pc[c]),
           ConnMove(c), PcMove(pc[c], pc'[c])
    PROVE  Order(state'[c], pcb'[c], pipeDone'[c], Blocked(c)', pc'[c])
BY DEF Order, ConnMove, SameConn, PcMove, Released, AtLeastClosing

\* Every outcome of a part is such a move.
LEMMA OutcomeMove ==
    ASSUME NEW c \in Conns, NEW p,
           Keeps(c, p) \/ Leaves(c, p) \/ Drops(c, p) \/ Ends(c, p)
    PROVE  ConnMove(c)
BY DEF ConnMove, Keeps, Leaves, Drops, Ends

\* Counters that stay, while no newTCPConn is under way.
LEMMA StayMove ==
    ASSUME SInv, NEW c \in Conns, pc[c]["connector"] # "accept", pc'[c] = pc[c]
    PROVE  PcMove(pc[c], pc'[c])
BY DEF SInv, OrderInv, Order, PcMove

----------------------------------------------------------------------------
(* lwIP's steps. *)

\* A part of a handler that gives nothing to a reader and ends with lwipMutex free.
LEMMA PartReturn ==
    ASSUME SInv, NEW c \in Conns, lwipMutex.conn \in {c, NoConn}, lwipMutex' = Free,
           Others(c), NEW p, Shape(c, p),
           Data(state[c], p, 0, FALSE, segs[c], Len(got[c])),
           \/ Keeps(c, p) \/ Leaves(c, p) \/ Drops(c, p)
           \/ Ends(c, p) /\ ~CanReceive(p) /\ p.refused = 0,
           state[c] = "tcpReceiveClosed" => p.rxClosed = pcb[c].rxClosed,
           PcMove(pc[c], pc'[c]), \A d \in Conns : d # c => pc'[d] = pc[d],
           UNCHANGED <<segs, got>>
    PROVE  StreamKept
<1>1. PartType /\ RestType /\ ConnInv
  BY TypeParts DEF SInv, IInv
<1>2. segs[c] \in Nat /\ Len(got[c]) \in Nat
  BY <1>1, BoundsAssumption, SMTT(30) DEF RestType
<1>3. Data(state'[c], pcb'[c], 0, FALSE, segs[c], Len(got[c]))
  BY <1>1, <1>2, OutcomeData
<1>4. Blocked(c)' = 0 /\ ~BlockedFin(c)'
  BY NothingBlockedNext
<1>5. Data(state'[c], pcb'[c], Blocked(c)', BlockedFin(c)', segs'[c], Len(got'[c]))
  BY <1>3, <1>4 DEF Data
<1>6. Order(state'[c], pcb'[c], pipeDone'[c], Blocked(c)', pc'[c])
  BY OutcomeMove, MoveOrder DEF SInv, OrderInv
<1>7. OwnData(c)
  BY DEF OwnData, Free
<1>8. DataInv' /\ OrderInv' /\ InOrderDelivery'
  BY <1>5, <1>6, <1>7, OneConn DEF SInv, InOrderDelivery
<1>9. StreamStep
  BY <1>1, OutcomePhase, StreamMove
<1> QED  BY <1>8, <1>9 DEF StreamKept

\* A part of a handler that runs under lwipMutex from its beginning to its end.
LEMMA PartStep ==
    ASSUME SInv, NEW c \in Conns, lwipUnlocked, Others(c), NEW p, Shape(c, p),
           Data(state[c], p, 0, FALSE, segs[c], Len(got[c])),
           \/ Keeps(c, p) \/ Leaves(c, p) \/ Drops(c, p)
           \/ Ends(c, p) /\ ~CanReceive(p) /\ p.refused = 0,
           state[c] = "tcpReceiveClosed" => p.rxClosed = pcb[c].rxClosed,
           PcMove(pc[c], pc'[c]), \A d \in Conns : d # c => pc'[d] = pc[d],
           UNCHANGED <<lwipMutex, segs, got>>
    PROVE  StreamKept
<1>1. lwipMutex.conn \in {c, NoConn} /\ lwipMutex' = Free
  BY DEF lwipUnlocked, Free
<1> QED  BY <1>1, PartReturn

\* The pcb as it is holds its data, and so does the one a FIN makes of it.
LEMMA OwnPcbData ==
    ASSUME SInv, NEW c \in Conns, lwipUnlocked
    PROVE  /\ Data(state[c], pcb[c], 0, FALSE, segs[c], Len(got[c]))
           /\ pc[c]["connector"] # "accept"
<1>1. Data(state[c], pcb[c], Blocked(c), BlockedFin(c), segs[c], Len(got[c]))
  BY DEF SInv, DataInv
<1>2. Data(state[c], pcb[c], 0, FALSE, segs[c], Len(got[c]))
  BY <1>1, NothingBlocked DEF Data
<1> QED  BY <1>2, NoAccept DEF SInv

\* The fields of the pcb after a FIN.
LEMMA GotFinFields ==
    ASSUME NEW q \in PcbType, CanReceive(q), NEW p \in GotFin(q)
    PROVE  /\ p.rxClosed = q.rxClosed /\ p.refused = q.refused /\ p.fin = q.fin
           /\ p.tcp \in {"CLOSE_WAIT", "CLOSING", "TIME_WAIT"} /\ ~CanReceive(p)
           /\ q.tcp = "ESTABLISHED" => p.tcp = "CLOSE_WAIT"
<1>1. CASE q.tcp = "FIN_WAIT"
  <2>1. \/ p = [q EXCEPT !.tcp = "CLOSING"]
        \/ p = [q EXCEPT !.tcp = "TIME_WAIT", !.unacked = 0]
    BY <1>1 DEF GotFin
  <2> QED  BY <1>1, <2>1 DEF PcbType, CanReceive
<1>2. CASE q.tcp # "FIN_WAIT"
  <2>1. p = [q EXCEPT !.tcp = "CLOSE_WAIT"]
    BY <1>2 DEF GotFin
  <2> QED  BY <1>2, <2>1 DEF PcbType, CanReceive
<1> QED  BY <1>1, <1>2

\* Segments without data.
LEMMA SegmentStream ==
    ASSUME SInv, NEW c \in Conns, InputFin(c) \/ InputRst(c) \/ InputAck(c) \/ InputFinAck(c)
    PROVE  StreamKept
<1>1. PartType /\ RestType /\ ConnInv /\ pcb[c] \in PcbType
  BY TypeParts DEF SInv, IInv, PartType
<1>2. lwipUnlocked /\ UNCHANGED <<lwipMutex, pc, reader, dataVars>>
  BY DEF InputFin, InputRst, InputAck, InputFinAck
<1>3. /\ Data(state[c], pcb[c], 0, FALSE, segs[c], Len(got[c]))
      /\ PcMove(pc[c], pc'[c]) /\ pc' = pc /\ segs' = segs /\ got' = got
  BY <1>2, OwnPcbData, StayMove DEF dataVars
<1>4. CASE InputFin(c)
  <2>1. PICK p \in GotFin(pcb[c]) : tcpRecvFnEof(c, p)
    BY <1>4 DEF InputFin
  <2>2. CanReceive(pcb[c]) /\ pcb[c].refused = 0
    BY <1>4 DEF InputFin
  <2>3. Live(pcb[c]) /\ Shape(c, p)
    BY <1>1, <2>2, GotFinShape
  <2>4. Kept(c)
    BY <1>1, <2>1, <2>3, EofLemma
  <2>5. /\ p.rxClosed = pcb[c].rxClosed /\ p.refused = 0 /\ p.fin = pcb[c].fin
        /\ p.tcp \in {"CLOSE_WAIT", "CLOSING", "TIME_WAIT"} /\ ~CanReceive(p)
        /\ pcb[c].tcp = "ESTABLISHED" => p.tcp = "CLOSE_WAIT"
    BY <1>1, <2>2, GotFinFields
  <2>6. Data(state[c], p, 0, FALSE, segs[c], Len(got[c]))
    BY <1>3, <2>2, <2>5 DEF Data, CanReceive
  <2>7. Keeps(c, p) \/ Leaves(c, p) \/ Drops(c, p) \/ Ends(c, p)
    BY <1>1, <2>1, <2>3, EofOutcome
  <2> QED  BY <1>2, <1>3, <2>3, <2>4, <2>5, <2>6, <2>7, PartStep DEF Kept
<1>5. CASE InputRst(c)
  <2>1. Live(pcb[c]) /\ FreeWithErr(c, pcb[c])
    BY <1>5 DEF InputRst, Active
  <2>2. Kept(c)
    BY <1>1, <2>1, FreeWithErrLemma
  <2>3. Leaves(c, pcb[c]) \/ Drops(c, pcb[c])
    BY <1>1, <2>1, FreeOutcome
  <2> QED  BY <1>1, <1>2, <1>3, <2>2, <2>3, SelfShape, PartStep DEF Kept
<1>6. CASE InputAck(c)
  <2>1. PICK n \in 1 .. pcb[c].unacked : tcpSentFn(c, [pcb[c] EXCEPT !.unacked = @ - n])
    BY <1>6 DEF InputAck
  <2> DEFINE m == pcb[c].unacked - n
             p == [pcb[c] EXCEPT !.unacked = m]
  <2>2. tcpSentFn(c, p) /\ Live(pcb[c]) /\ m \in 0 .. SndBuf
    BY <1>1, <1>6, <2>1, BoundsAssumption, SMTT(30) DEF PcbType, InputAck, Active
  <2>3. /\ p.rxClosed = pcb[c].rxClosed /\ p.refused = pcb[c].refused /\ p.fin = pcb[c].fin
        /\ p.tcp = pcb[c].tcp /\ Shape(c, p)
    BY <1>1, <2>2 DEF PcbType, Shape, Live
  <2> HIDE DEF p, m
  <2>4. Kept(c)
    BY <1>1, <2>2, <2>3, SentLemma
  <2>5. Data(state[c], p, 0, FALSE, segs[c], Len(got[c]))
    BY <1>3, <2>3 DEF Data, CanReceive
  <2>6. Keeps(c, p) \/ Leaves(c, p) \/ Drops(c, p)
    BY <1>1, <2>2, SentOutcome
  <2> QED  BY <1>2, <1>3, <2>3, <2>4, <2>5, <2>6, PartStep DEF Kept
<1>7. CASE InputFinAck(c)
  <2>1. Live(pcb[c])
    BY <1>7 DEF InputFinAck, Live
  <2>2. CASE pcb[c].tcp = "CLOSING"
    <3> DEFINE p == [pcb[c] EXCEPT !.tcp = "TIME_WAIT"]
    <3>1. SetPcb(c, p) /\ UNCHANGED <<connVars, writer, stalePcb>>
      BY <1>7, <2>2 DEF InputFinAck
    <3>2. /\ p.rxClosed = pcb[c].rxClosed /\ p.refused = pcb[c].refused /\ p.fin = pcb[c].fin
          /\ p.tcp = "TIME_WAIT" /\ Shape(c, p)
      BY <1>1, <2>1 DEF PcbType, Shape, Live, TcpStates
    <3> HIDE DEF p
    <3>3. Kept(c)
      BY <1>1, <3>1, <3>2, KeepLemma DEF WriterStep
    <3>4. Data(state[c], p, 0, FALSE, segs[c], Len(got[c]))
      BY <1>3, <2>2, <3>2 DEF Data, CanReceive
    <3>5. Keeps(c, p)
      BY <1>1, <3>1 DEF Keeps, SameConn, SetPcb, PartType, connVars
    <3> QED  BY <1>2, <1>3, <3>2, <3>3, <3>4, <3>5, PartStep DEF Kept
  <2>3. CASE pcb[c].tcp # "CLOSING" /\ pcb[c].rxClosed
    <3>1. SetPcb(c, FreedPcb) /\ UNCHANGED <<connVars, writer, stalePcb>>
      BY <1>7, <2>3 DEF InputFinAck
    <3>2. Kept(c)
      BY <1>1, <2>1, <3>1, SilentFreeLemma
    <3>3. Drops(c, pcb[c])
      BY <1>1, <1>7, <2>3, <3>1 DEF InputFinAck, Drops, SameConn, SetPcb, PartType, connVars
    <3> QED  BY <1>1, <1>2, <1>3, <3>2, <3>3, SelfShape, PartStep DEF Kept
  <2>4. CASE pcb[c].tcp # "CLOSING" /\ ~pcb[c].rxClosed
    <3>1. FreeWithErr(c, pcb[c])
      BY <1>7, <2>4 DEF InputFinAck
    <3>2. Kept(c)
      BY <1>1, <2>1, <3>1, FreeWithErrLemma
    <3>3. Leaves(c, pcb[c]) \/ Drops(c, pcb[c])
      BY <1>1, <3>1, FreeOutcome
    <3> QED  BY <1>1, <1>2, <1>3, <3>2, <3>3, SelfShape, PartStep DEF Kept
  <2> QED  BY <2>2, <2>3, <2>4
<1> QED  BY <1>4, <1>5, <1>6, <1>7

\* The fields of a pcb that keeps segment n, or nothing.
LEMMA RefusedFields ==
    ASSUME NEW p \in PcbType, NEW n, NEW fin \in BOOLEAN
    PROVE  LET q == [p EXCEPT !.refused = n, !.fin = fin] IN
           /\ q.tcp = p.tcp /\ q.rxClosed = p.rxClosed /\ q.refused = n /\ q.fin = fin
           /\ q.cbs = p.cbs
BY DEF PcbType

\* tcpRecvFn with the next segment: it is refused, goes to the pipe, is dropped
\* with the receive side shut, or ends the connection.
LEMMA RecvStream ==
    ASSUME PartType, ConnInv, NEW c \in Conns, Live(pcb[c]), NEW p, Shape(c, p),
           NEW n \in 1 .. MaxSegs, NEW k \in Nat, n = k + 1, NEW fin \in BOOLEAN,
           p.refused = 0, ~p.fin, fin => ~CanReceive(p), state[c] # "tcpReceiveClosed",
           state[c] \in {"tcpNewConn", "tcpConnecting", "tcpConnected"} =>
               p.tcp \in {"ESTABLISHED", "CLOSE_WAIT"},
           lwipUnlocked, tcpRecvFn(c, p, n, fin)
    PROVE  /\ Data(state'[c], pcb'[c], Blocked(c)', BlockedFin(c)', n, k)
           /\ ConnMove(c)
           /\ lwipMutex' = lwipMutex \/ lwipMutex'.conn = c
           /\ \/ streamPhase'[c] = streamPhase[c]
              \/ streamPhase[c] \in {"open", "closing"} /\ streamPhase'[c] = "gone"
<1> DEFINE blocks == /\ c \in tcpConns
                     /\ state[c] \in {"tcpConnected", "tcpWriteClosed"}
                     /\ ~pipeDone[c]
<1>0. p \in PcbType /\ n \in Nat /\ n # 0 /\ Live(p)
  BY BoundsAssumption, SMTT(30) DEF Shape
<1>1. CASE c \notin tcpConns
  <2>1. FreeWithErr(c, p) /\ lwipMutex' = lwipMutex
    BY <1>1 DEF tcpRecvFn
  <2>2. pcb'[c] = FreedPcb /\ SameConn(c)
    BY <1>1, <2>1, FreeOutcome DEF Leaves, Drops
  <2>3. state[c] \in Released \union {"none"}
    BY <1>1 DEF ConnInv
  <2>4. Blocked(c)' = 0 /\ ~BlockedFin(c)'
    BY <2>1, NothingBlockedNext DEF lwipUnlocked
  <2>5. Data(state'[c], pcb'[c], Blocked(c)', BlockedFin(c)', n, k)
    BY <1>0, <2>2, <2>3, <2>4, FreedFields, SMTT(30) DEF Data, SameConn, Released
  <2>6. streamPhase'[c] = streamPhase[c]
    BY <1>1, <2>2, PhaseOf DEF SameConn
  <2> QED  BY <2>1, <2>2, <2>5, <2>6 DEF ConnMove
<1>2. CASE c \in tcpConns /\ state[c] = "tcpConnecting"
  <2> DEFINE q == [p EXCEPT !.refused = n, !.fin = fin]
  <2>1. SetPcb(c, q) /\ UNCHANGED <<connVars, lwipMutex>>
    BY <1>2 DEF tcpRecvFn
  <2>2. /\ q.tcp = p.tcp /\ q.rxClosed = p.rxClosed /\ q.refused = n /\ q.fin = fin
    BY <1>0, RefusedFields, SMTT(30)
  <2> HIDE DEF q
  <2>3. pcb'[c] = q /\ SameConn(c)
    BY <2>1 DEF SetPcb, PartType, SameConn, connVars
  <2>4. Blocked(c)' = 0 /\ ~BlockedFin(c)'
    BY <2>1, NothingBlockedNext DEF lwipUnlocked
  <2>5. Data(state'[c], pcb'[c], Blocked(c)', BlockedFin(c)', n, k)
    BY <1>0, <1>2, <2>2, <2>3, <2>4, SMTT(30) DEF Data, SameConn, CanReceive, Live
  <2>6. streamPhase'[c] = streamPhase[c]
    BY <1>2, <2>3, PhaseOf DEF SameConn
  <2> QED  BY <2>1, <2>3, <2>5, <2>6 DEF ConnMove
<1>3. CASE blocks
  <2> DEFINE q == [p EXCEPT !.refused = 0, !.fin = FALSE]
  <2>1. /\ lwipMutex' = [conn |-> c, seg |-> n, fin |-> fin]
        /\ SetPcb(c, q) /\ UNCHANGED connVars
    BY <1>3 DEF tcpRecvFn
  <2>2. q.tcp = p.tcp /\ q.rxClosed = p.rxClosed /\ q.refused = 0 /\ ~q.fin
    BY <1>0, RefusedFields, SMTT(30)
  <2> HIDE DEF q
  <2>3. pcb'[c] = q /\ SameConn(c)
    BY <2>1 DEF SetPcb, PartType, SameConn, connVars
  <2>4. Blocked(c)' = n /\ (BlockedFin(c)' <=> fin) /\ lwipMutex'.conn = c
    BY <2>1 DEF Blocked, BlockedFin
  <2>5. Data(state'[c], pcb'[c], Blocked(c)', BlockedFin(c)', n, k)
    BY <1>0, <1>3, <2>2, <2>3, <2>4, SMTT(30) DEF Data, SameConn, CanReceive, Live
  <2>6. streamPhase'[c] = streamPhase[c]
    BY <1>3, <2>3, PhaseOf DEF SameConn
  <2> QED  BY <2>3, <2>4, <2>5, <2>6 DEF ConnMove
<1>4. CASE c \in tcpConns /\ ~blocks /\ state[c] # "tcpConnecting"
  <2> DEFINE q == tcp_shutdown_rx(p)
  <2>1. state[c] # "tcpErrored"
    BY <1>4 DEF ConnInv, Released
  <2>2. Delivered(c, q, fin) /\ lwipMutex' = lwipMutex
    BY <1>4, <2>1 DEF tcpRecvFn
  <2>3. q.tcp = p.tcp /\ q.rxClosed /\ q.refused = 0 /\ ~q.fin /\ q.cbs = p.cbs
    BY <1>0, ShutFields
  <2>4. Shape(c, q)
    <3>1. n \in 0 .. MaxSegs
      BY BoundsAssumption, SMTT(30)
    <3> QED  BY <3>1, ShapeFacts
  <2> HIDE DEF q
  <2>5. \/ Keeps(c, q) \/ Leaves(c, q) \/ Drops(c, q)
        \/ Ends(c, q) /\ ~CanReceive(q) /\ q.refused = 0
    BY <2>2, <2>3, DeliveredOutcome DEF CanReceive
  <2>6. Data(state[c], q, 0, FALSE, n, k)
    BY <1>0, <2>3, SMTT(30) DEF Data, Live
  <2>7. Blocked(c)' = 0 /\ ~BlockedFin(c)'
    BY <2>2, NothingBlockedNext DEF lwipUnlocked
  <2>8. Data(state'[c], pcb'[c], Blocked(c)', BlockedFin(c)', n, k)
    <3>1. Data(state'[c], pcb'[c], 0, FALSE, n, k)
      BY <1>0, <2>4, <2>5, <2>6, OutcomeData
    <3> QED  BY <2>7, <3>1 DEF Data
  <2>9. ConnMove(c)
    BY <2>5, OutcomeMove
  <2>10. \/ streamPhase'[c] = streamPhase[c]
         \/ streamPhase[c] \in {"open", "closing"} /\ streamPhase'[c] = "gone"
    <3>1. CASE Keeps(c, q) \/ Drops(c, q)
      BY <3>1, PhaseOf DEF Keeps, Drops, SameConn
    <3>2. CASE Leaves(c, q)
      <4>1. state[c] # "none" /\ state'[c] # "none"
        BY <3>2 DEF Leaves, ConnInv, Released
      <4> QED  BY <3>2, <4>1, PhaseOf DEF Leaves
    <3>3. CASE Ends(c, q)
      <4>1. state[c] = "tcpConnected" /\ pipeDone[c]
        BY <1>4, <3>3 DEF Ends, PartType
      <4> QED  BY <2>3, <3>3, <4>1, PhaseOf DEF Ends
    <3> QED  BY <2>5, <3>1, <3>2, <3>3
  <2> QED  BY <2>2, <2>8, <2>9, <2>10
<1> QED  BY <1>1, <1>2, <1>3, <1>4

\* A data segment.
LEMMA InputDataStream ==
    ASSUME SInv, NEW c \in Conns, NEW fin \in BOOLEAN, InputData(c, fin)
    PROVE  StreamKept
<1>1. PartType /\ RestType /\ ConnInv /\ pcb[c] \in PcbType
  BY TypeParts DEF SInv, IInv, PartType
<1>2. /\ lwipUnlocked /\ CanReceive(pcb[c]) /\ pcb[c].refused = 0 /\ segs[c] < MaxSegs
      /\ segs' = [segs EXCEPT ![c] = @ + 1] /\ pc' = pc /\ got' = got
  BY DEF InputData
<1>3. PICK p \in IF fin THEN GotFin(pcb[c]) ELSE {pcb[c]} :
          IF p.rxClosed
          THEN FreeWithErr(c, p) /\ UNCHANGED lwipMutex
          ELSE tcpRecvFn(c, p, segs[c] + 1, fin)
  BY DEF InputData
<1> DEFINE n == segs[c] + 1
           k == Len(got[c])
<1>4. n \in 1 .. MaxSegs /\ k \in Nat /\ n \in Nat /\ segs'[c] = n /\ segs[c] \in Nat
  BY <1>1, <1>2, BoundsAssumption, SMTT(30) DEF RestType
<1>5. /\ Data(state[c], pcb[c], 0, FALSE, segs[c], k)
      /\ PcMove(pc[c], pc'[c])
  BY <1>2, OwnPcbData, StayMove
<1>6. Live(pcb[c]) /\ Shape(c, p)
  BY <1>1, <1>2, GotFinShape, SelfShape DEF CanReceive, Live
<1>7. /\ p.rxClosed = pcb[c].rxClosed /\ p.refused = 0 /\ p.fin = pcb[c].fin
      /\ fin => ~CanReceive(p)
      /\ pcb[c].tcp = "ESTABLISHED" => p.tcp \in {"ESTABLISHED", "CLOSE_WAIT"}
  BY <1>1, <1>2, GotFinFields
<1>8. /\ state[c] # "tcpReceiveClosed" /\ ~p.fin
      /\ state[c] \in {"tcpNewConn", "tcpConnecting", "tcpConnected"} =>
            p.tcp \in {"ESTABLISHED", "CLOSE_WAIT"}
  BY <1>2, <1>5, <1>7 DEF Data, CanReceive
<1>9. state[c] # "none" /\ streamPhase[c] \notin {"none", "eof"}
  <2>1. state[c] # "none"
    BY <1>1, <1>6 DEF ConnInv, Live
  <2> QED  BY <1>8, <2>1, PhaseOf
<1>10. CASE p.rxClosed
  <2>1. FreeWithErr(c, p) /\ lwipMutex' = lwipMutex
    BY <1>3, <1>10
  <2>2. Others(c)
    BY <1>1, <1>6, <2>1, FreeWithErrLemma DEF Kept
  <2>3. Leaves(c, p) \/ Drops(c, p)
    BY <1>1, <2>1, FreeOutcome
  <2>4. Data(state[c], p, 0, FALSE, n, k)
    BY <1>4, <1>5, <1>6, <1>7, <1>8, <1>10, SMTT(30) DEF Data, Shape, Live
  <2>5. Data(state'[c], pcb'[c], 0, FALSE, n, k)
    BY <1>1, <1>4, <1>6, <2>3, <2>4, OutcomeData
  <2>6. Blocked(c)' = 0 /\ ~BlockedFin(c)'
    BY <1>2, <2>1, NothingBlockedNext DEF lwipUnlocked
  <2>7. Data(state'[c], pcb'[c], Blocked(c)', BlockedFin(c)', segs'[c], Len(got'[c]))
    BY <1>2, <1>4, <2>5, <2>6 DEF Data
  <2>8. Order(state'[c], pcb'[c], pipeDone'[c], Blocked(c)', pc'[c])
    BY <1>5, <2>3, OutcomeMove, MoveOrder DEF SInv, OrderInv
  <2>9. DataInv' /\ OrderInv' /\ InOrderDelivery'
    BY <1>1, <1>2, <2>1, <2>2, <2>7, <2>8, OneConn DEF OwnData, SInv, InOrderDelivery, RestType
  <2>10. streamPhase'[c] \in {streamPhase[c], "gone"}
    BY <1>8, <2>3, PhaseOf DEF Leaves, Drops, SameConn, Released
  <2> QED  BY <1>2, <1>9, <2>2, <2>9, <2>10, StreamTake DEF StreamKept
<1>11. CASE ~p.rxClosed
  <2>1. tcpRecvFn(c, p, n, fin)
    BY <1>3, <1>11
  <2>2. n = k + 1
    BY <1>2, <1>4, <1>5, <1>6, <1>7, <1>11 DEF Data, Live
  <2>3. Others(c)
    BY <1>1, <1>4, <1>6, <2>1, RecvLemma, SMTT(30) DEF Kept
  <2>4. /\ Data(state'[c], pcb'[c], Blocked(c)', BlockedFin(c)', n, k)
        /\ ConnMove(c)
        /\ lwipMutex' = lwipMutex \/ lwipMutex'.conn = c
        /\ streamPhase'[c] \in {streamPhase[c], "gone"}
    BY <1>1, <1>2, <1>4, <1>6, <1>7, <1>8, <2>1, <2>2, RecvStream, SMTT(30)
  <2>5. OwnData(c)
    BY <1>1, <1>2, <2>4 DEF OwnData, RestType, lwipUnlocked, Free
  <2>6. Order(state'[c], pcb'[c], pipeDone'[c], Blocked(c)', pc'[c])
    BY <1>5, <2>4, MoveOrder DEF SInv, OrderInv
  <2>7. Data(state'[c], pcb'[c], Blocked(c)', BlockedFin(c)', segs'[c], Len(got'[c]))
    BY <1>2, <1>4, <2>4
  <2>8. DataInv' /\ OrderInv' /\ InOrderDelivery'
    BY <1>2, <2>3, <2>5, <2>6, <2>7, OneConn DEF SInv, InOrderDelivery
  <2> QED  BY <1>2, <1>9, <2>3, <2>4, <2>8, StreamTake DEF StreamKept
<1> QED  BY <1>10, <1>11

\* Refused data that is offered again.
LEMMA RefusedStream ==
    ASSUME SInv, NEW c \in Conns, lwipUnlocked, Live(pcb[c]), pcb[c].refused # 0,
           tcp_process_refused_data(c), UNCHANGED <<segs, got>>,
           PcMove(pc[c], pc'[c]), \A d \in Conns : d # c => pc'[d] = pc[d]
    PROVE  StreamKept
<1>1. PartType /\ RestType /\ ConnInv /\ pcb[c] \in PcbType
  BY TypeParts DEF SInv, IInv, PartType
<1> DEFINE n == pcb[c].refused
           k == Len(got[c])
           fin == pcb[c].fin
           p == [pcb[c] EXCEPT !.refused = 0, !.fin = FALSE]
<1>2. tcpRecvFn(c, p, n, fin)
  BY DEF tcp_process_refused_data
<1>3. /\ n \in 1 .. MaxSegs /\ n \in 0 .. MaxSegs /\ fin \in BOOLEAN
      /\ k \in Nat /\ 0 \in 0 .. MaxSegs
  BY <1>1, BoundsAssumption, SMTT(30) DEF PcbType, RestType
<1>4. p.tcp = pcb[c].tcp /\ p.rxClosed = pcb[c].rxClosed /\ p.refused = 0 /\ ~p.fin
  BY <1>1, RefusedFields, SMTT(30)
<1>5. Shape(c, p)
  BY <1>1, <1>3, SelfShape, ShapeFacts
<1>6. Data(state[c], pcb[c], 0, FALSE, segs[c], k)
  BY OwnPcbData
<1>7. /\ n = segs[c] /\ n = k + 1 /\ (fin => ~CanReceive(p))
      /\ state[c] # "tcpReceiveClosed"
      /\ state[c] \in {"tcpNewConn", "tcpConnecting", "tcpConnected"} =>
            p.tcp \in {"ESTABLISHED", "CLOSE_WAIT"}
  BY <1>4, <1>6 DEF Data, CanReceive
<1> HIDE DEF p, n, fin, k
<1>8. /\ Data(state'[c], pcb'[c], Blocked(c)', BlockedFin(c)', n, k)
      /\ ConnMove(c)
      /\ lwipMutex' = lwipMutex \/ lwipMutex'.conn = c
      /\ \/ streamPhase'[c] = streamPhase[c]
         \/ streamPhase[c] \in {"open", "closing"} /\ streamPhase'[c] = "gone"
  BY <1>1, <1>2, <1>3, <1>4, <1>5, <1>7, RecvStream
<1>9. Others(c)
  BY <1>1, <1>2, <1>3, <1>5, RecvLemma DEF Kept
<1>10. OwnData(c)
  BY <1>8 DEF OwnData, lwipUnlocked, Free
<1>11. Order(state'[c], pcb'[c], pipeDone'[c], Blocked(c)', pc'[c])
  BY <1>8, MoveOrder DEF SInv, OrderInv
<1>12. Data(state'[c], pcb'[c], Blocked(c)', BlockedFin(c)', segs'[c], Len(got'[c]))
  BY <1>7, <1>8 DEF k
<1>13. DataInv' /\ OrderInv' /\ InOrderDelivery'
  BY <1>9, <1>10, <1>11, <1>12, OneConn DEF SInv, InOrderDelivery
<1>14. StreamStep
  BY <1>8, <1>9, StreamMove DEF PhaseStep
<1> QED  BY <1>13, <1>14 DEF StreamKept

\* lwIP's timers.
LEMMA TimersStream ==
    ASSUME SInv, NEW c \in Conns, Timers(c)
    PROVE  StreamKept
<1>1. PartType /\ RestType /\ ConnInv /\ Shape(c, pcb[c])
  BY TypeParts, SelfShape DEF SInv, IInv
<1>2. lwipUnlocked /\ Live(pcb[c]) /\ UNCHANGED <<pc, segs, got>>
  BY DEF Timers, TimerPoll, TimerRefused, TimerRemove, TimerTimeWait, dataVars, Active,
     MayTimeOut, Live
<1>3. Data(state[c], pcb[c], 0, FALSE, segs[c], Len(got[c])) /\ PcMove(pc[c], pc'[c])
  BY <1>2, OwnPcbData, StayMove
<1>4. CASE TimerPoll(c)
  <2>1. tcpSentFn(c, pcb[c]) /\ UNCHANGED lwipMutex
    BY <1>4 DEF TimerPoll
  <2>2. Others(c)
    BY <1>1, <1>2, <2>1, SentLemma DEF Kept
  <2>3. Keeps(c, pcb[c]) \/ Leaves(c, pcb[c]) \/ Drops(c, pcb[c])
    BY <1>1, <1>2, <2>1, SentOutcome
  <2> QED  BY <1>1, <1>2, <1>3, <2>1, <2>2, <2>3, PartStep
<1>5. CASE TimerRefused(c)
  BY <1>2, <1>3, <1>5, RefusedStream DEF TimerRefused
<1>6. CASE TimerRemove(c)
  <2>1. FreeWithErr(c, pcb[c]) /\ UNCHANGED lwipMutex
    BY <1>6 DEF TimerRemove
  <2>2. Others(c)
    BY <1>1, <1>2, <2>1, FreeWithErrLemma DEF Kept
  <2>3. Leaves(c, pcb[c]) \/ Drops(c, pcb[c])
    BY <1>1, <2>1, FreeOutcome
  <2> QED  BY <1>1, <1>2, <1>3, <2>1, <2>2, <2>3, PartStep
<1>7. CASE TimerTimeWait(c)
  <2>1. /\ SetPcb(c, FreedPcb) /\ UNCHANGED <<connVars, lwipMutex, writer, stalePcb>>
        /\ pcb[c].tcp = "TIME_WAIT"
    BY <1>7 DEF TimerTimeWait
  <2>2. Others(c)
    BY <1>1, <1>2, <2>1, SilentFreeLemma DEF Kept
  <2>3. Drops(c, pcb[c])
    BY <1>1, <2>1 DEF Drops, SameConn, SetPcb, PartType, connVars
  <2> QED  BY <1>1, <1>2, <1>3, <2>1, <2>2, <2>3, PartStep
<1> QED  BY <1>4, <1>5, <1>6, <1>7 DEF Timers

\* Receive returns: the reader took the segment, or it is lost with the receive
\* side shut.
LEMMA ReceiveReturnStream ==
    ASSUME SInv, NEW c \in Conns, ReceiveReturn(c)
    PROVE  StreamKept
<1>1. PartType /\ RestType /\ ConnInv /\ MutexInv /\ pcb[c] \in PcbType
  BY TypeParts DEF SInv, IInv, PartType
<1>2. /\ lwipMutex.conn = c /\ pc[c]["connector"] # "accept"
      /\ lwipMutex' = Free /\ UNCHANGED <<pc, segs, got>>
  BY DEF ReceiveReturn, dataVars
<1> DEFINE p == IF lwipMutex.seg = 0 THEN pcb[c] ELSE tcp_shutdown_rx(pcb[c])
           fin == lwipMutex.fin
<1>3. Delivered(c, p, fin)
  BY DEF ReceiveReturn
<1>4. Live(pcb[c])
  BY <1>1, <1>2, HeldBy DEF MutexInv
<1>5. 0 \in 0 .. MaxSegs
  BY BoundsAssumption, SMTT(30)
<1>6. Shape(c, p)
  BY <1>1, <1>4, <1>5, SelfShape, ShapeFacts
<1>7. Data(state[c], pcb[c], lwipMutex.seg, fin, segs[c], Len(got[c]))
  <2>1. Blocked(c) = lwipMutex.seg /\ (BlockedFin(c) <=> fin)
    BY <1>2 DEF Blocked, BlockedFin
  <2>2. Data(state[c], pcb[c], Blocked(c), BlockedFin(c), segs[c], Len(got[c]))
    BY DEF SInv, DataInv
  <2> HIDE DEF fin
  <2> QED  BY <2>1, <2>2 DEF Data
<1>8. /\ Data(state[c], p, 0, FALSE, segs[c], Len(got[c]))
      /\ fin => ~CanReceive(p) /\ p.refused = 0
      /\ state[c] = "tcpReceiveClosed" => p.rxClosed = pcb[c].rxClosed
  <2>1. CASE lwipMutex.seg = 0
    BY <1>7, <2>1 DEF Data
  <2>2. CASE lwipMutex.seg # 0
    <3>1. p.tcp = pcb[c].tcp /\ p.rxClosed /\ p.refused = 0 /\ ~p.fin
      BY <1>1, <2>2, ShutFields
    <3> HIDE DEF p, fin
    <3>2. Data(state[c], p, 0, FALSE, segs[c], Len(got[c]))
      BY <1>7, <2>2, <3>1 DEF Data
    <3>3. fin => ~CanReceive(p)
      BY <1>7, <3>1 DEF Data, CanReceive
    <3>4. state[c] # "tcpReceiveClosed"
      BY <1>7, <2>2 DEF Data
    <3> QED  BY <3>1, <3>2, <3>3, <3>4
  <2> QED  BY <2>1, <2>2
<1> HIDE DEF p, fin
<1>9. Others(c)
  BY <1>1, <1>3, <1>4, <1>6, DeliveredLemma DEF Kept
<1>10. \/ Keeps(c, p) \/ Leaves(c, p) \/ Drops(c, p)
       \/ Ends(c, p) /\ ~CanReceive(p) /\ p.refused = 0
  BY <1>1, <1>3, <1>4, <1>8, DeliveredOutcome, SMTT(30)
<1>11. PcMove(pc[c], pc'[c])
  BY <1>2, StayMove
<1> QED  BY <1>2, <1>6, <1>8, <1>9, <1>10, <1>11, PartReturn

----------------------------------------------------------------------------
(* The goroutines. *)

\* A step of the connection's own state, its pipe and its program counters.
LEMMA OwnStep ==
    ASSUME SInv, NEW c \in Conns, Others(c), PhaseStep(c), UNCHANGED <<pcb, segs, got>>,
           \/ lwipMutex' = lwipMutex
           \/ /\ lwipMutex.conn \in {c, NoConn} /\ lwipMutex'.conn \in {c, NoConn}
              /\ Blocked(c)' = Blocked(c) /\ (BlockedFin(c)' => BlockedFin(c)),
           \A d \in Conns : d # c => pc'[d] = pc[d],
           state'[c] = "tcpReceiveClosed" => state[c] = "tcpReceiveClosed",
           state'[c] \in {"tcpNewConn", "tcpConnecting", "tcpConnected"} =>
               pcb[c].tcp \in {"ESTABLISHED", "CLOSE_WAIT"},
           Order(state'[c], pcb[c], pipeDone'[c], Blocked(c), pc'[c])
    PROVE  StreamKept
<1>1. Blocked(c)' = Blocked(c) /\ (BlockedFin(c)' => BlockedFin(c))
  BY DEF Blocked, BlockedFin
<1>2. Data(state[c], pcb[c], Blocked(c), BlockedFin(c), segs[c], Len(got[c]))
  BY DEF SInv, DataInv
<1>3. Data(state'[c], pcb'[c], Blocked(c)', BlockedFin(c)', segs'[c], Len(got'[c]))
  BY <1>1, <1>2 DEF Data
<1>4. Order(state'[c], pcb'[c], pipeDone'[c], Blocked(c)', pc'[c])
  BY <1>1
<1>5. OwnData(c)
  BY DEF OwnData
<1>6. DataInv' /\ OrderInv' /\ InOrderDelivery'
  BY <1>3, <1>4, <1>5, OneConn DEF SInv, InOrderDelivery
<1> QED  BY <1>6, StreamMove DEF StreamKept

\* A step that leaves the connection alone but for its program counters.
LEMMA QuietStep ==
    ASSUME SInv, NEW c \in Conns, UNCHANGED <<connVars, pcb, lwipMutex, segs, got>>,
           \A d \in Conns : d # c => pc'[d] = pc[d],
           Order(state[c], pcb[c], pipeDone[c], Blocked(c), pc'[c])
    PROVE  StreamKept
<1>1. Others(c) /\ PhaseStep(c)
  BY PhaseOf DEF Others, PhaseStep, connVars
<1>2. Data(state[c], pcb[c], Blocked(c), BlockedFin(c), segs[c], Len(got[c]))
  BY DEF SInv, DataInv
<1>3. state'[c] \in {"tcpNewConn", "tcpConnecting", "tcpConnected"} =>
          pcb[c].tcp \in {"ESTABLISHED", "CLOSE_WAIT"}
  BY <1>2 DEF Data, connVars
<1> QED  BY <1>1, <1>3, OwnStep DEF connVars

\* newTCPConn up to tcpConns.Store opens the stream.
LEMMA AcceptStream ==
    ASSUME SInv, NEW c \in Conns, Accept(c)
    PROVE  StreamKept
<1>1. PartType /\ RestType /\ ConnInv /\ PcInv
  BY TypeParts DEF SInv, IInv
<1>2. /\ pcb' = [pcb EXCEPT ![c] = NewPcb]
      /\ connKeyArg' = [connKeyArg EXCEPT ![c] = "live"]
      /\ tcpConns' = tcpConns \union {c}
      /\ state' = [state EXCEPT ![c] = "tcpNewConn"]
      /\ lwipMutex' = [conn |-> c, seg |-> 0, fin |-> FALSE]
      /\ Goto(c, "connector", "accept")
      /\ UNCHANGED <<pipeDone, segs, got>>
      /\ lwipUnlocked /\ pcb[c] = NoPcb
  BY DEF Accept, SetPcb, dataVars
<1>3. /\ pcb'[c] = NewPcb /\ state'[c] = "tcpNewConn" /\ c \in tcpConns'
      /\ state[c] = "none" /\ Others(c)
  BY <1>1, <1>2, PcbFacts DEF PartType, ConnInv, Others
<1>4. /\ pc'[c]["connector"] = "accept"
      /\ \A b \in Actors : b # "connector" => pc'[c][b] = pc[c][b]
      /\ \A d \in Conns : d # c => pc'[d] = pc[d]
  BY <1>1, <1>2, GotoLemma DEF Actors, Pcs
<1>5. pc'[c]["relay"] = "idle" /\ pc'[c]["stack"] = "idle"
  BY <1>1, <1>3, <1>4 DEF PcInv, Actors
<1>6. Blocked(c)' = 0 /\ ~BlockedFin(c)'
  BY <1>2 DEF Blocked, BlockedFin
<1>7. /\ NewPcb.tcp = "ESTABLISHED" /\ NewPcb.refused = 0 /\ ~NewPcb.fin
      /\ NoPcb.tcp = "NONE" /\ ~NoPcb.rxClosed /\ NoPcb.refused = 0
  BY DEF NewPcb, NoPcb, Pcb
<1>8. Data(state[c], NoPcb, 0, FALSE, segs[c], Len(got[c])) /\ ~pipeDone[c]
  <2>1. Order(state[c], pcb[c], pipeDone[c], Blocked(c), pc[c])
    BY DEF SInv, OrderInv
  <2> QED  BY <1>2, <1>3, <2>1, OwnPcbData DEF Order
<1>9. Data(state'[c], pcb'[c], Blocked(c)', BlockedFin(c)', segs'[c], Len(got'[c]))
  BY <1>2, <1>3, <1>6, <1>7, <1>8 DEF Data
<1>10. Order(state'[c], pcb'[c], pipeDone'[c], Blocked(c)', pc'[c])
  BY <1>3, <1>4, <1>5, <1>6, <1>7 DEF Order, Actors
<1>11. OwnData(c)
  BY <1>2, <1>4 DEF OwnData, lwipUnlocked, Free
<1>12. DataInv' /\ OrderInv' /\ InOrderDelivery'
  BY <1>2, <1>3, <1>9, <1>10, <1>11, OneConn DEF SInv, InOrderDelivery
<1>13. PhaseStep(c)
  BY <1>2, <1>3, <1>8, PhaseOf DEF PhaseStep
<1> QED  BY <1>2, <1>3, <1>12, <1>13, StreamMove DEF StreamKept

\* The end of newTCPConn is no step of the stream.
LEMMA AcceptReturnStream ==
    ASSUME SInv, NEW c \in Conns, AcceptReturn(c)
    PROVE  StreamKept
<1>1. PartType /\ RestType /\ ConnInv /\ MutexInv /\ AcceptInv
  BY TypeParts DEF SInv, IInv
<1>2. /\ pc[c]["connector"] = "accept"
      /\ state' = [state EXCEPT ![c] = "tcpConnecting"] /\ lwipMutex' = Free
      /\ Goto(c, "connector", "dial")
      /\ UNCHANGED <<tcpConns, connKeyArg, pipeDone, pcb, segs, got>>
  BY DEF AcceptReturn, dataVars
<1>3. lwipMutex.conn = c /\ c \in tcpConns
  BY <1>1, <1>2, HeldBy DEF AcceptInv, MutexInv
<1>4. Order(state[c], pcb[c], pipeDone[c], Blocked(c), pc[c])
  BY DEF SInv, OrderInv
<1>5. /\ state[c] \in {"tcpNewConn", "tcpAborting"} /\ pcb[c].tcp = "ESTABLISHED"
      /\ Blocked(c) = 0 /\ pc[c]["relay"] = "idle"
      /\ pc[c]["stack"] \in {"idle", "checkState", "done"}
  BY <1>2, <1>4 DEF Order
<1>6. /\ pc'[c]["connector"] = "dial"
      /\ \A b \in Actors : b # "connector" => pc'[c][b] = pc[c][b]
      /\ \A d \in Conns : d # c => pc'[d] = pc[d]
  BY <1>1, <1>2, GotoLemma DEF Actors, Pcs
<1>7. state'[c] = "tcpConnecting" /\ Others(c)
  BY <1>1, <1>2 DEF PartType, Others
<1>8. PhaseStep(c)
  BY <1>2, <1>3, <1>5, <1>7, PhaseOf, SMTT(30) DEF PhaseStep
<1>9. Order(state'[c], pcb[c], pipeDone'[c], Blocked(c), pc'[c])
  BY <1>2, <1>5, <1>6, <1>7 DEF Order, Actors
<1>10. Blocked(c)' = Blocked(c) /\ ~BlockedFin(c)' /\ lwipMutex'.conn = NoConn
  BY <1>2, <1>5, NothingBlockedNext DEF Free
<1> QED  BY <1>2, <1>3, <1>5, <1>6, <1>7, <1>8, <1>9, <1>10, OwnStep

\* Goto for the goroutine a, in terms of Order: nobody starts a tcp_shutdown.
LEMMA GotoOrder ==
    ASSUME SInv, NEW c \in Conns, NEW a \in Actors, NEW l \in Pcs, Goto(c, a, l),
           l \notin {"idle", "accept", "dial", "shutdown"}, pc[c][a] # "idle" \/ a = "stack",
           a = "stack" => l \in {"checkState", "done"},
           a = "connector" => pc[c][a] # "accept"
    PROVE  /\ Order(state[c], pcb[c], pipeDone[c], Blocked(c), pc'[c])
           /\ pc[c]["connector"] # "accept" => PcMove(pc[c], pc'[c])
           /\ \A d \in Conns : d # c => pc'[d] = pc[d]
<1>1. RestType
  BY TypeParts DEF SInv, IInv
<1>2. /\ pc'[c][a] = l
      /\ \A b \in Actors : b # a => pc'[c][b] = pc[c][b]
      /\ \A d \in Conns : d # c => pc'[d] = pc[d]
  BY <1>1, GotoLemma
<1>3. Order(state[c], pcb[c], pipeDone[c], Blocked(c), pc[c])
  BY DEF SInv, OrderInv
<1>4. CASE a = "connector"
  BY <1>2, <1>3, <1>4 DEF Order, PcMove, Actors
<1>5. CASE a = "relay"
  BY <1>2, <1>3, <1>5 DEF Order, PcMove, Actors
<1>6. CASE a = "stack"
  BY <1>2, <1>3, <1>6 DEF Order, PcMove, Actors
<1> QED  BY <1>2, <1>4, <1>5, <1>6 DEF Actors

\* The goroutine of newTCPConn, up to the refused data.
LEMMA ConnectorStream ==
    ASSUME SInv, NEW c \in Conns,
           DialOk(c) \/ DialFail(c) \/ Settle(c) \/ ProcessRefused(c)
    PROVE  StreamKept
<1>1. PartType /\ RestType /\ ConnInv
  BY TypeParts DEF SInv, IInv
<1>2. "connector" \in Actors /\ "relay" \in Actors /\ "stack" \in Actors
  BY DEF Actors
<1>3. Order(state[c], pcb[c], pipeDone[c], Blocked(c), pc[c])
  BY DEF SInv, OrderInv
<1>4. CASE DialOk(c)
  <2>1. /\ pc' = [pc EXCEPT ![c] = [pc[c] EXCEPT !["connector"] = "settle", !["relay"] = "copy"]]
        /\ pc[c]["connector"] = "dial" /\ UNCHANGED <<connVars, pcb, lwipMutex, segs, got>>
    BY <1>1, <1>4 DEF DialOk, RestType, dataVars
  <2>2. /\ \A d \in Conns : d # c => pc'[d] = pc[d]
        /\ pc'[c]["connector"] = "settle" /\ pc'[c]["relay"] = "copy"
        /\ pc'[c]["stack"] = pc[c]["stack"]
    BY <1>1, <1>2, <2>1 DEF RestType
  <2>3. Order(state[c], pcb[c], pipeDone[c], Blocked(c), pc'[c])
    BY <1>3, <2>2 DEF Order, Actors
  <2> QED  BY <2>1, <2>2, <2>3, QuietStep
<1>5. CASE DialFail(c)
  <2>1. /\ Goto(c, "connector", "closeRead") /\ pc[c]["connector"] = "dial"
        /\ UNCHANGED <<connVars, pcb, lwipMutex, segs, got>>
    BY <1>5 DEF DialFail, dataVars
  <2>2. /\ Order(state[c], pcb[c], pipeDone[c], Blocked(c), pc'[c])
        /\ \A d \in Conns : d # c => pc'[d] = pc[d]
    BY <1>2, <2>1, GotoOrder DEF Pcs
  <2> QED  BY <2>1, <2>2, QuietStep
<1>6. CASE Settle(c)
  <2>1. /\ pc[c]["connector"] = "settle"
        /\ UNCHANGED <<tcpConns, connKeyArg, pipeDone, pcb, lwipMutex, segs, got>>
    BY <1>6 DEF Settle, dataVars
  <2>2. CASE state[c] = "tcpConnecting"
    <3>1. state' = [state EXCEPT ![c] = "tcpConnected"] /\ Goto(c, "connector", "refused")
      BY <1>6, <2>2 DEF Settle
    <3>2. /\ Order(state[c], pcb[c], pipeDone[c], Blocked(c), pc'[c])
          /\ \A d \in Conns : d # c => pc'[d] = pc[d]
      BY <1>2, <2>1, <3>1, GotoOrder DEF Pcs
    <3>3. state'[c] = "tcpConnected" /\ Others(c)
      BY <1>1, <2>1, <3>1 DEF PartType, Others
    <3>4. pc'[c]["connector"] = "refused"
      BY <1>1, <1>2, <3>1, GotoLemma DEF Pcs
    <3>5. Order(state'[c], pcb[c], pipeDone'[c], Blocked(c), pc'[c])
      BY <2>1, <2>2, <3>2, <3>3, <3>4 DEF Order, AtLeastClosing, Released
    <3>6. Data(state[c], pcb[c], Blocked(c), BlockedFin(c), segs[c], Len(got[c]))
      BY DEF SInv, DataInv
    <3>7. pcb[c].tcp \in {"ESTABLISHED", "CLOSE_WAIT"}
      BY <2>2, <3>6 DEF Data
    <3>8. PhaseStep(c)
      BY <2>1, <2>2, <3>3, PhaseOf DEF PhaseStep
    <3> QED  BY <2>1, <3>2, <3>3, <3>5, <3>7, <3>8, OwnStep
  <2>3. CASE state[c] # "tcpConnecting"
    <3>1. state' = state /\ Goto(c, "connector", "done")
      BY <1>6, <2>3 DEF Settle
    <3>2. /\ Order(state[c], pcb[c], pipeDone[c], Blocked(c), pc'[c])
          /\ \A d \in Conns : d # c => pc'[d] = pc[d]
      BY <1>2, <2>1, <3>1, GotoOrder DEF Pcs
    <3> QED  BY <2>1, <3>1, <3>2, QuietStep DEF connVars
  <2> QED  BY <2>2, <2>3
<1>7. CASE ProcessRefused(c)
  <2>1. /\ pc[c]["connector"] = "refused" /\ Goto(c, "connector", "done") /\ lwipUnlocked
        /\ UNCHANGED <<segs, got>>
    BY <1>7 DEF ProcessRefused, dataVars
  <2>2. /\ Order(state[c], pcb[c], pipeDone[c], Blocked(c), pc'[c])
        /\ PcMove(pc[c], pc'[c])
        /\ \A d \in Conns : d # c => pc'[d] = pc[d]
    BY <1>2, <2>1, GotoOrder DEF Pcs
  <2>3. CASE Live(pcb[c]) /\ pcb[c].refused # 0
    <3>1. tcp_process_refused_data(c)
      BY <1>7, <2>3 DEF ProcessRefused
    <3> QED  BY <2>1, <2>2, <2>3, <3>1, RefusedStream
  <2>4. CASE ~(Live(pcb[c]) /\ pcb[c].refused # 0)
    <3>1. UsePcb(c, pcb[c]) /\ UNCHANGED <<connVars, lwipMutex>>
      BY <1>7, <2>4 DEF ProcessRefused
    <3>2. pcb' = pcb
      BY <1>1, <3>1 DEF UsePcb, SetPcb, PartType
    <3> QED  BY <2>1, <2>2, <3>1, <3>2, QuietStep
  <2> QED  BY <2>3, <2>4
<1> QED  BY <1>4, <1>5, <1>6, <1>7

\* tcp_shutdown of the send side leaves the received data alone.
LEMMA ShutTxFields ==
    ASSUME NEW p \in PcbType
    PROVE  LET q == tcp_shutdown_tx(p) IN
           /\ q.rxClosed = p.rxClosed /\ q.refused = p.refused /\ q.fin = p.fin
           /\ CanReceive(q) => CanReceive(p)
           /\ q.tcp = "FREED" <=> p.tcp = "FREED"
<1> DEFINE t == CASE p.tcp = "ESTABLISHED" -> "FIN_WAIT"
                  [] p.tcp = "CLOSE_WAIT"  -> "LAST_ACK"
                  [] OTHER                 -> p.tcp
           q == [p EXCEPT !.tcp = t]
<1>1. tcp_shutdown_tx(p) = q
  BY DEF tcp_shutdown_tx, tcp_close_shutdown_fin, PcbType
<1>2. t = "FREED" <=> p.tcp = "FREED"
  OBVIOUS
<1>3. t \in {"ESTABLISHED", "FIN_WAIT"} => CanReceive(p)
  BY DEF CanReceive
<1>4. q.tcp = t /\ q.rxClosed = p.rxClosed /\ q.refused = p.refused /\ q.fin = p.fin
  <2> HIDE DEF t
  <2> QED  BY DEF PcbType
<1> HIDE DEF q, t
<1> QED  BY <1>1, <1>2, <1>3, <1>4 DEF CanReceive

\* conn.pcb as a goroutine uses it, with the received data left alone.
LEMMA UseStream ==
    ASSUME SInv, NEW c \in Conns, lwipUnlocked, NEW p, UsePcb(c, p),
           Live(pcb[c]) =>
               /\ Shape(c, p) /\ p.rxClosed = pcb[c].rxClosed /\ p.refused = pcb[c].refused
               /\ p.fin = pcb[c].fin /\ (CanReceive(p) => CanReceive(pcb[c]))
               /\ \/ p.tcp = pcb[c].tcp
                  \/ state[c] \in {"tcpWriteClosed"} \union AtLeastClosing,
           writer' \in [Conns -> {"none", "recv", "check", "push", "unlocked",
                                  "waiting", "done"}],
           PcMove(pc[c], pc'[c]), \A d \in Conns : d # c => pc'[d] = pc[d],
           UNCHANGED <<connVars, lwipMutex, segs, got>>
    PROVE  StreamKept
<1>1. PartType /\ RestType /\ ConnInv
  BY TypeParts DEF SInv, IInv
<1> DEFINE q == IF Live(pcb[c]) THEN p ELSE pcb[c]
<1>2. Others(c)
  BY <1>1, UsePcbLemma DEF Kept
<1>3. Shape(c, q)
  BY <1>1, SelfShape
<1>4. Keeps(c, q)
  BY <1>1 DEF Keeps, SameConn, UsePcb, SetPcb, PartType, connVars
<1>5. Data(state[c], pcb[c], 0, FALSE, segs[c], Len(got[c]))
  BY OwnPcbData
<1>6. q.rxClosed = pcb[c].rxClosed
  OBVIOUS
<1>7. Data(state[c], q, 0, FALSE, segs[c], Len(got[c]))
  <2>1. CASE Live(pcb[c])
    BY <1>5, <2>1 DEF Data, Shape, Live, AtLeastClosing, Released
  <2>2. CASE ~Live(pcb[c])
    BY <1>5, <2>2
  <2> QED  BY <2>1, <2>2
<1> HIDE DEF q
<1> QED  BY <1>2, <1>3, <1>4, <1>6, <1>7, PartStep

\* Close, and the second half of Abort.
LEMMA CloseStream ==
    ASSUME SInv, NEW c \in Conns, NEW a \in Actors,
           \/ CloseRead(c, a) \/ CloseWrite(c, a)
           \/ CloseWriteShutdown(c, a) \/ AbortCheckState(c, a)
    PROVE  StreamKept
<1>1. PartType /\ RestType /\ ConnInv /\ PcInv
  BY TypeParts DEF SInv, IInv
<1>2. Order(state[c], pcb[c], pipeDone[c], Blocked(c), pc[c])
  BY DEF SInv, OrderInv
<1>3. /\ pc[c][a] \in {"closeRead", "closeWrite", "shutdown", "checkState"}
      /\ state[c] # "none"
  BY <1>1 DEF PcInv, CloseRead, CloseWrite, CloseWriteShutdown, AbortCheckState
<1>4. CASE CloseRead(c, a)
  <2>1. /\ pc[c][a] = "closeRead" /\ Goto(c, a, "closeWrite")
        /\ pipeDone' = [pipeDone EXCEPT ![c] = TRUE]
        /\ UNCHANGED <<state, tcpConns, connKeyArg, pcb, lwipMutex, segs, got>>
    BY <1>4 DEF CloseRead, dataVars
  <2>2. a # "stack"
    BY <1>2, <2>1 DEF Order
  <2>3. /\ Order(state[c], pcb[c], pipeDone[c], Blocked(c), pc'[c])
        /\ \A d \in Conns : d # c => pc'[d] = pc[d]
    BY <2>1, <2>2, GotoOrder DEF Pcs
  <2>4. pipeDone'[c] /\ Others(c)
    BY <1>1, <2>1 DEF PartType, Others
  <2>5. Order(state'[c], pcb[c], pipeDone'[c], Blocked(c), pc'[c])
    BY <1>3, <2>1, <2>3, <2>4 DEF Order
  <2>6. PhaseStep(c)
    BY <2>1, <2>4, PhaseOf DEF PhaseStep
  <2>7. Data(state[c], pcb[c], Blocked(c), BlockedFin(c), segs[c], Len(got[c]))
    BY DEF SInv, DataInv
  <2>8. state'[c] \in {"tcpNewConn", "tcpConnecting", "tcpConnected"} =>
            pcb[c].tcp \in {"ESTABLISHED", "CLOSE_WAIT"}
    BY <2>1, <2>7 DEF Data
  <2> QED  BY <2>1, <2>3, <2>4, <2>5, <2>6, <2>8, OwnStep
<1>5. CASE CloseWrite(c, a)
  <2>1. /\ pc[c][a] = "closeWrite"
        /\ UNCHANGED <<tcpConns, connKeyArg, pipeDone, pcb, lwipMutex, segs, got>>
    BY <1>5 DEF CloseWrite, dataVars
  <2>2. a # "stack"
    BY <1>2, <2>1 DEF Order
  <2>3. CASE state[c] \in AtLeastClosing \union {"tcpWriteClosed"}
    <3>1. Goto(c, a, AfterClose(a)) /\ state' = state
      BY <1>5, <2>3 DEF CloseWrite
    <3>2. AfterClose(a) \in {"abort", "done"}
      BY DEF AfterClose
    <3>3. /\ Order(state[c], pcb[c], pipeDone[c], Blocked(c), pc'[c])
          /\ \A d \in Conns : d # c => pc'[d] = pc[d]
      BY <2>1, <2>2, <3>1, <3>2, GotoOrder DEF Pcs
    <3> QED  BY <2>1, <3>1, <3>3, QuietStep DEF connVars
  <2>4. CASE state[c] \notin AtLeastClosing \union {"tcpWriteClosed"}
    <3> DEFINE s == IF state[c] = "tcpReceiveClosed" THEN "tcpClosing" ELSE "tcpWriteClosed"
    <3>1. state' = [state EXCEPT ![c] = s] /\ Goto(c, a, "shutdown")
      BY <1>5, <2>4 DEF CloseWrite
    <3>2. state'[c] = s /\ Others(c) /\ s \in {"tcpClosing", "tcpWriteClosed"}
      BY <1>1, <2>1, <3>1 DEF PartType, Others
    <3>3. /\ pc'[c][a] = "shutdown"
          /\ \A b \in Actors : b # a => pc'[c][b] = pc[c][b]
          /\ \A d \in Conns : d # c => pc'[d] = pc[d]
      BY <1>1, <3>1, GotoLemma DEF Pcs
    <3>4. PhaseStep(c)
      <4>1. state[c] = "tcpReceiveClosed" => pipeDone[c]
        BY <1>2 DEF Order
      <4>2. c \in tcpConns
        BY <1>1, <1>3, <2>4 DEF ConnInv, AtLeastClosing
      <4> QED  BY <1>3, <2>1, <3>2, <4>1, <4>2, PhaseOf DEF PhaseStep
    <3>5. Order(state'[c], pcb[c], pipeDone'[c], Blocked(c), pc'[c])
      <4>1. CASE a = "connector"
        BY <1>2, <2>1, <3>2, <3>3, <4>1 DEF Order, Actors, AtLeastClosing
      <4>2. CASE a = "relay"
        BY <1>2, <2>1, <3>2, <3>3, <4>2 DEF Order, Actors, AtLeastClosing
      <4> QED  BY <2>2, <4>1, <4>2 DEF Actors
    <3> QED  BY <2>1, <3>2, <3>3, <3>4, <3>5, OwnStep
  <2> QED  BY <2>3, <2>4
<1>6. CASE CloseWriteShutdown(c, a)
  <2>1. /\ pc[c][a] = "shutdown" /\ lwipUnlocked /\ UsePcb(c, tcp_shutdown_tx(pcb[c]))
        /\ Goto(c, a, AfterClose(a)) /\ UNCHANGED <<connVars, lwipMutex, writer, segs, got>>
    BY <1>6 DEF CloseWriteShutdown, dataVars
  <2>2. a # "stack" /\ state[c] \in {"tcpWriteClosed"} \union AtLeastClosing
    BY <1>2, <2>1 DEF Order
  <2>3. pc[c]["connector"] # "accept"
    BY <2>1, OwnPcbData
  <2>4. AfterClose(a) \in {"abort", "done"}
    BY DEF AfterClose
  <2>5. PcMove(pc[c], pc'[c]) /\ \A d \in Conns : d # c => pc'[d] = pc[d]
    BY <2>1, <2>2, <2>3, <2>4, GotoOrder DEF Pcs
  <2> DEFINE p == tcp_shutdown_tx(pcb[c])
  <2>6. /\ p.rxClosed = pcb[c].rxClosed /\ p.refused = pcb[c].refused
        /\ p.fin = pcb[c].fin /\ (CanReceive(p) => CanReceive(pcb[c]))
    BY <1>1, ShutTxFields DEF PartType
  <2>7. Live(pcb[c]) => Shape(c, p)
    BY <1>1, CloseFacts DEF PartType, Shape, Live
  <2>8. writer' \in [Conns -> {"none", "recv", "check", "push", "unlocked",
                               "waiting", "done"}]
    BY <1>1, <2>1 DEF PartType
  <2> HIDE DEF p
  <2>9. UsePcb(c, p)
    BY <2>1 DEF p
  <2> QED  BY <2>1, <2>2, <2>5, <2>6, <2>7, <2>8, <2>9, UseStream
<1>7. CASE AbortCheckState(c, a)
  <2>1. /\ pc[c][a] = "checkState" /\ lwipUnlocked /\ checkState(c, pcb[c])
        /\ Goto(c, a, "done") /\ UNCHANGED <<lwipMutex, segs, got>>
    BY <1>7 DEF AbortCheckState, dataVars
  <2>2. /\ Data(state[c], pcb[c], 0, FALSE, segs[c], Len(got[c]))
        /\ pc[c]["connector"] # "accept"
    BY <2>1, OwnPcbData
  <2>3. PcMove(pc[c], pc'[c]) /\ \A d \in Conns : d # c => pc'[d] = pc[d]
    BY <2>1, <2>2, GotoOrder DEF Pcs
  <2>4. Shape(c, pcb[c])
    BY <1>1, SelfShape
  <2>5. Others(c)
    BY <1>1, <2>1, <2>4, CheckStateLemma DEF Kept
  <2>6. Keeps(c, pcb[c]) \/ Leaves(c, pcb[c])
    BY <1>1, <2>1, CheckOutcome
  <2> QED  BY <2>1, <2>2, <2>3, <2>4, <2>5, <2>6, PartStep
<1> QED  BY <1>4, <1>5, <1>6, <1>7

\* The first half of Abort.
LEMMA AbortStream ==
    ASSUME SInv, NEW c \in Conns, AbortAfterClose(c) \/ AbortByStack(c)
    PROVE  StreamKept
<1>1. PartType /\ RestType /\ ConnInv /\ PcInv
  BY TypeParts DEF SInv, IInv
<1>2. Order(state[c], pcb[c], pipeDone[c], Blocked(c), pc[c])
  BY DEF SInv, OrderInv
<1>3. PICK a \in Actors : /\ Abort(c, a)
                          /\ \/ a = "connector" /\ pc[c][a] = "abort"
                             \/ a = "stack" /\ c \in tcpConns
  BY DEF AbortAfterClose, AbortByStack, Actors
<1>4. state[c] # "none"
  BY <1>1, <1>3 DEF PcInv, ConnInv
<1>5. /\ Goto(c, a, "checkState")
      /\ UNCHANGED <<tcpConns, connKeyArg, pipeDone, pcb, lwipMutex, segs, got>>
  BY <1>3 DEF Abort, dataVars
<1>6. /\ Order(state[c], pcb[c], pipeDone[c], Blocked(c), pc'[c])
      /\ \A d \in Conns : d # c => pc'[d] = pc[d]
  BY <1>3, <1>5, GotoOrder DEF Pcs
<1>7. CASE state[c] \in {"tcpAborting"} \union Released
  <2>1. state' = state
    BY <1>1, <1>3, <1>7 DEF Abort, PartType
  <2> QED  BY <1>5, <1>6, <2>1, QuietStep DEF connVars
<1>8. CASE state[c] \notin {"tcpAborting"} \union Released
  <2>1. state' = [state EXCEPT ![c] = "tcpAborting"]
    BY <1>3, <1>8 DEF Abort
  <2>2. state'[c] = "tcpAborting" /\ Others(c)
    BY <1>1, <1>5, <2>1 DEF PartType, Others
  <2>3. Order(state'[c], pcb[c], pipeDone'[c], Blocked(c), pc'[c])
    BY <1>5, <1>6, <2>2 DEF Order, AtLeastClosing
  <2>4. PhaseStep(c)
    <3>1. state[c] = "tcpReceiveClosed" => pipeDone[c]
      BY <1>2 DEF Order
    <3> QED  BY <1>4, <1>5, <2>2, <3>1, PhaseOf DEF PhaseStep
  <2> QED  BY <1>5, <1>6, <2>2, <2>3, <2>4, OwnStep
<1> QED  BY <1>7, <1>8

\* The pipe hands the segment to the reader: the next one of the stream.
LEMMA ReadDataStream ==
    ASSUME SInv, NEW c \in Conns, ReadData(c)
    PROVE  StreamKept
<1>1. PartType /\ RestType /\ ConnInv /\ MutexInv
  BY TypeParts DEF SInv, IInv
<1>2. /\ ~pipeDone[c] /\ lwipMutex.conn = c /\ lwipMutex.seg # 0
      /\ got' = [got EXCEPT ![c] = Append(@, lwipMutex.seg)]
      /\ lwipMutex' = [lwipMutex EXCEPT !.seg = 0]
      /\ UNCHANGED <<connVars, pcb, pc, segs>>
  BY DEF ReadData
<1> DEFINE n == segs[c]
           k == Len(got[c])
<1>3. Data(state[c], pcb[c], lwipMutex.seg, lwipMutex.fin, n, k)
  <2>1. Blocked(c) = lwipMutex.seg /\ (BlockedFin(c) <=> lwipMutex.fin)
    BY <1>2 DEF Blocked, BlockedFin
  <2>2. Data(state[c], pcb[c], Blocked(c), BlockedFin(c), n, k)
    BY DEF SInv, DataInv
  <2> QED  BY <2>1, <2>2 DEF Data
<1>4. lwipMutex.seg = n /\ n = k + 1
  BY <1>2, <1>3 DEF Data
<1>5. n \in Nat /\ k \in Nat /\ got[c] \in Seq(Nat)
  BY <1>1, BoundsAssumption, SMTT(30) DEF RestType
<1>6. got'[c] = Append(got[c], n) /\ \A d \in Conns : d # c => got'[d] = got[d]
  BY <1>1, <1>2, <1>4 DEF RestType
<1>7. Len(got'[c]) = n /\ \A i \in DOMAIN got'[c] : got'[c][i] = i
  <2>1. \A i \in 1 .. k : got[c][i] = i
    BY <1>5, SMTT(30) DEF SInv, InOrderDelivery
  <2> QED  BY <1>4, <1>5, <1>6, <2>1, SMTT(30)
<1>8. /\ lwipMutex'.conn = c /\ lwipMutex'.seg = 0 /\ lwipMutex'.fin = lwipMutex.fin
  BY <1>1, <1>2 DEF RestType
<1>9. Blocked(c)' = 0 /\ (BlockedFin(c)' <=> lwipMutex.fin)
  BY <1>8 DEF Blocked, BlockedFin
<1>10. Data(state'[c], pcb'[c], Blocked(c)', BlockedFin(c)', segs'[c], Len(got'[c]))
  <2>1. Data(state[c], pcb[c], 0, lwipMutex.fin, n, n)
    BY <1>2, <1>3, <1>5, SMTT(30) DEF Data
  <2> QED  BY <1>2, <1>7, <1>9, <2>1 DEF Data, connVars
<1>11. Order(state'[c], pcb'[c], pipeDone'[c], Blocked(c)', pc'[c])
  <2>1. Order(state[c], pcb[c], pipeDone[c], Blocked(c), pc[c])
    BY DEF SInv, OrderInv
  <2>2. Order(state[c], pcb[c], pipeDone[c], 0, pc[c])
    BY <2>1 DEF Order
  <2> QED  BY <1>2, <1>9, <2>2 DEF connVars
<1>12. Others(c) /\ OwnData(c)
  BY <1>2, <1>6, <1>8 DEF Others, OwnData, connVars
<1>13. DataInv' /\ OrderInv' /\ InOrderDelivery'
  BY <1>7, <1>10, <1>11, <1>12, OneConn
<1>14. Stream!Deliver(c)
  <2>1. c \in tcpConns
    BY <1>1, <1>2, HeldBy DEF MutexInv
  <2>2. state[c] \notin {"none", "tcpReceiveClosed"}
    BY <1>1, <1>2, <1>3, <2>1 DEF ConnInv, Data
  <2>3. streamPhase[c] = "open"
    BY <1>2, <2>1, <2>2, PhaseOf
  <2>4. streamPhase' = streamPhase
    BY <1>2 DEF streamPhase, connVars
  <2>5. got' = [got EXCEPT ![c] = Append(@, Len(@) + 1)]
    BY <1>2, <1>4
  <2> QED  BY <1>2, <1>4, <1>5, <2>3, <2>4, <2>5, SMTT(30) DEF Stream!Deliver
<1> QED  BY <1>13, <1>14 DEF StreamKept, StreamStep, Stream!Next

\* The other steps of the relay.
LEMMA RelayStream ==
    ASSUME SInv, NEW c \in Conns,
           \/ ReadCheck(c) \/ ReadEof(c) \/ \E ok \in BOOLEAN : Forward(c, ok)
           \/ ProxyData(c) \/ ProxyEof(c) \/ WriteCheck(c) \/ WriteWait(c) \/ RelayEnds(c)
           \/ WritePush(c) \/ WriteError(c)
    PROVE  StreamKept
<1>1. PartType /\ RestType /\ ConnInv
  BY TypeParts DEF SInv, IInv
<1>2. Order(state[c], pcb[c], pipeDone[c], Blocked(c), pc[c])
  BY DEF SInv, OrderInv
<1>3. CASE \/ ReadCheck(c) \/ ReadEof(c) \/ \E ok \in BOOLEAN : Forward(c, ok)
           \/ ProxyData(c) \/ ProxyEof(c) \/ WriteCheck(c) \/ WriteWait(c)
  <2>1. UNCHANGED <<connVars, pcb, lwipMutex, pc, segs, got>>
    BY <1>3 DEF ReadCheck, ReadEof, Forward, ProxyData, ProxyEof, WriteCheck, WriteWait, dataVars
  <2> QED  BY <1>2, <2>1, QuietStep
<1>4. CASE RelayEnds(c)
  <2>1. /\ pc[c]["relay"] = "copy" /\ Goto(c, "relay", "closeRead")
        /\ UNCHANGED <<connVars, pcb, lwipMutex, segs, got>>
    BY <1>4 DEF RelayEnds, dataVars
  <2>2. /\ Order(state[c], pcb[c], pipeDone[c], Blocked(c), pc'[c])
        /\ \A d \in Conns : d # c => pc'[d] = pc[d]
    BY <2>1, GotoOrder DEF Pcs, Actors
  <2> QED  BY <2>1, <2>2, QuietStep
<1>5. CASE WritePush(c)
  <2>1. PICK n \in {0, toWrite(c)} :
            /\ UsePcb(c, [pcb[c] EXCEPT !.unacked = @ + n])
            /\ writer' = [writer EXCEPT ![c] = IF n = left[c] THEN "recv" ELSE "unlocked"]
    BY <1>5 DEF WritePush
  <2>2. lwipUnlocked /\ UNCHANGED <<connVars, lwipMutex, pc, segs, got>>
    BY <1>5 DEF WritePush
  <2>3. pcb[c] \in PcbType /\ pcb[c].unacked + n \in 0 .. SndBuf
    BY <1>1, ToWriteFacts DEF PartType
  <2> DEFINE m == pcb[c].unacked + n
             p == [pcb[c] EXCEPT !.unacked = m]
  <2>4. UsePcb(c, p)
    BY <2>1
  <2>5. m \in 0 .. SndBuf
    BY <2>3
  <2> HIDE DEF m
  <2>6. /\ p.rxClosed = pcb[c].rxClosed /\ p.refused = pcb[c].refused /\ p.fin = pcb[c].fin
        /\ p.tcp = pcb[c].tcp /\ Shape(c, p)
    BY <2>3, <2>5 DEF PcbType, Shape, Live
  <2> HIDE DEF p
  <2>7. PcMove(pc[c], pc'[c])
    BY <2>2, OwnPcbData, StayMove
  <2>8. writer' \in [Conns -> {"none", "recv", "check", "push", "unlocked",
                               "waiting", "done"}]
    BY <1>1, <2>1 DEF PartType
  <2> QED  BY <2>2, <2>4, <2>6, <2>7, <2>8, UseStream DEF CanReceive
<1>6. CASE WriteError(c)
  <2>1. /\ lwipUnlocked /\ UsePcb(c, pcb[c]) /\ writer' = [writer EXCEPT ![c] = "done"]
        /\ UNCHANGED <<connVars, lwipMutex, pc, segs, got>>
    BY <1>6 DEF WriteError, dataVars
  <2>2. pcb' = pcb
    BY <1>1, <2>1 DEF UsePcb, SetPcb, PartType
  <2> QED  BY <1>2, <2>1, <2>2, QuietStep
<1> QED  BY <1>3, <1>4, <1>5, <1>6

----------------------------------------------------------------------------
(* The theorems. *)

\* In the first state nothing was sent or read.
LEMMA StreamInit ==
    ASSUME Init
    PROVE  SInv /\ Stream!Init
<1>1. IInv
  BY InitLemma
<1>2. ASSUME NEW c \in Conns
      PROVE  /\ Data(state[c], pcb[c], Blocked(c), BlockedFin(c), segs[c], Len(got[c]))
             /\ Order(state[c], pcb[c], pipeDone[c], Blocked(c), pc[c])
             /\ got[c] = <<>>
  <2>1. /\ state[c] = "none" /\ pcb[c] = NoPcb /\ segs[c] = 0 /\ got[c] = <<>> /\ ~pipeDone[c]
        /\ \A a \in Actors : pc[c][a] = "idle"
    BY <1>2 DEF Init
  <2>2. Blocked(c) = 0 /\ ~BlockedFin(c)
    BY <1>2, NothingBlocked DEF Init, lwipUnlocked
  <2>3. NoPcb.tcp = "NONE" /\ NoPcb.refused = 0 /\ ~NoPcb.fin
    BY DEF NoPcb, Pcb
  <2> QED  BY <2>1, <2>2, <2>3, SMTT(30) DEF Data, Order, Actors
<1>3. DataInv /\ OrderInv /\ InOrderDelivery
  BY <1>2, SMTT(30) DEF DataInv, OrderInv, InOrderDelivery
<1>4. Stream!Init
  BY DEF Init, Stream!Init, streamPhase
<1> QED  BY <1>1, <1>3, <1>4 DEF SInv

\* Every step keeps the invariant and is a step of the stream, or none.
LEMMA StreamNext ==
    ASSUME SInv, [Next]_vars
    PROVE  SInv' /\ StreamStep
<1>1. IInv'
  BY NextLemma DEF SInv
<1>2. StreamKept
  <2>1. ASSUME NEW c \in Conns, Client(c)
        PROVE  StreamKept
    BY <2>1, AcceptStream, InputDataStream, SegmentStream DEF Client
  <2>2. ASSUME NEW c \in Conns, Timers(c)
        PROVE  StreamKept
    BY <2>2, TimersStream
  <2>3. ASSUME NEW c \in Conns, Proxy(c)
        PROVE  StreamKept
    BY <2>3, ConnectorStream, RelayStream DEF Proxy
  <2>4. ASSUME NEW c \in Conns, Goroutines(c)
        PROVE  StreamKept
    BY <2>4, AcceptReturnStream, ReceiveReturnStream, ConnectorStream, CloseStream,
       AbortStream, ReadDataStream, RelayStream DEF Goroutines
  <2>5. ASSUME NEW c \in Conns, AbortByStack(c)
        PROVE  StreamKept
    BY <2>5, AbortStream
  <2>6. CASE UNCHANGED vars
    <3>1. UNCHANGED <<state, tcpConns, pipeDone, pcb, lwipMutex, pc, segs, got>>
      BY <2>6 DEF vars, connVars, dataVars
    <3>2. DataInv' /\ OrderInv' /\ InOrderDelivery'
      BY <3>1 DEF SInv, DataInv, OrderInv, InOrderDelivery, Blocked, BlockedFin
    <3>3. streamPhase' = streamPhase
      BY <3>1 DEF streamPhase
    <3> QED  BY <3>1, <3>2, <3>3 DEF StreamKept, StreamStep, Stream!vars
  <2> QED  BY <2>1, <2>2, <2>3, <2>4, <2>5, <2>6 DEF Next, OpenNext
<1> QED  BY <1>1, <1>2 DEF SInv, StreamKept

\* The invariant of the data holds in every reachable state.
THEOREM StreamInvariant == Spec => []SInv
BY StreamInit, StreamNext, PTL DEF Spec

\* Every behaviour of the connections, whatever lwIP, its timers, the callbacks
\* and the goroutines do, is one of the abstract streams.
THEOREM StreamRefinement == Spec => ImplementsStream
<1>1. Init => Stream!Init
  BY StreamInit
<1>2. SInv /\ [Next]_vars => [Stream!Next]_(Stream!vars)
  BY StreamNext DEF StreamStep
<1> QED  BY <1>1, <1>2, StreamInvariant, PTL DEF Spec, ImplementsStream, Stream!Spec

\* The handler reads the client's segments in order, without a gap or a repeat.
THEOREM DeliveredInOrder == Spec => []InOrderDelivery
BY StreamInvariant, PTL DEF SInv

\* The handler is told of the end of the client's stream only after the last of
\* its segments, or when the receive side was shut.
THEOREM EndAfterData == Spec => []FinAfterData
<1>1. SInv => FinAfterData
  <2> SUFFICES ASSUME SInv, NEW c \in Conns, state[c] = "tcpReceiveClosed",
                      ~pcb[c].rxClosed
               PROVE  Len(got[c]) = segs[c]
    BY DEF FinAfterData
  <2> QED  BY DEF SInv, DataInv, Data
<1> QED  BY <1>1, StreamInvariant, PTL
=============================================================================
