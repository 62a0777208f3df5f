------------------------------ MODULE TcpConn ------------------------------
(***************************************************************************)
(* The TCP connections of lwipcore/core (tcp_conn.go and                   *)
(* tcp_callback_export.go) with the goroutines that use them: the          *)
(* goroutine newTCPConn starts for the handler, the relay of the SOCKS     *)
(* handler (proxy/socks/tcp.go) with its two copy loops, and the goroutine *)
(* that calls LWIPStack.Close.                                             *)
(*                                                                         *)
(* A step is what happens between two points where another goroutine can   *)
(* run: a section under the connection's own mutex, or a whole critical    *)
(* section under lwipMutex.  Everything lwIP does happens under lwipMutex. *)
(* It is held across steps in two cases: newTCPConn, between the entry in  *)
(* the map and the state tcpConnecting, and a Receive that waits in the    *)
(* pipe write for the reader.                                              *)
(***************************************************************************)
EXTENDS LwipPcb, Sequences, FiniteSets

CONSTANTS Conns,      \* the connections the TUN side may open
          NoConn,     \* not a connection
          MaxSegs,    \* data segments the client sends on a connection
          SndBuf,     \* units that fit lwIP's send buffer (pcb->snd_buf)
          WriteLen,   \* units in one Write of the relay
          MaxWrites,  \* Writes of the relay on a connection
          ProxyFails  \* whether a write to the proxy may fail

ASSUME ConnsAssumption == NoConn \notin Conns
ASSUME BoundsAssumption ==
    /\ MaxSegs \in Nat /\ MaxWrites \in Nat
    /\ SndBuf \in Nat \ {0} /\ WriteLen \in Nat \ {0}
    /\ ProxyFails \in BOOLEAN

VARIABLES
    state,       \* conn.state
    tcpConns,    \* the connections the map tcpConns holds
    connKeyArg,  \* the C memory that holds the key: "nil", "live" or "freed"
    pipeDone,    \* one end of the pipe sndPipeReader/sndPipeWriter is closed
    pcb,         \* conn.pcb, see LwipPcb
    lwipMutex,   \* the frame of the callback that is left half done, or Free
    pc,          \* program counters of the connector, relay and stack closer
    reader,      \* the copy loop from the connection to the proxy
    writer,      \* the copy loop from the proxy to the connection
    left,        \* units the current Write has still to enqueue
    writes,      \* Writes started
    segs,        \* data segments lwIP took from the client
    got,         \* segments Read returned, in order
    stalePcb     \* history: connections whose freed pcb was used

connVars == <<state, tcpConns, connKeyArg, pipeDone>>
dataVars == <<left, writes, segs, got>>
vars == <<connVars, pcb, lwipMutex, pc, reader, writer, dataVars, stalePcb>>

States == {"none", "tcpNewConn", "tcpConnecting", "tcpConnected",
           "tcpWriteClosed", "tcpReceiveClosed", "tcpClosing", "tcpAborting", "tcpClosed",
           "tcpErrored"}
Released       == {"tcpClosed", "tcpErrored"}
AtLeastClosing == {"tcpClosing", "tcpAborting"} \union Released

Actors == {"connector", "relay", "stack"}
Pcs == {"idle", "accept", "dial", "settle", "refused", "copy", "closeRead", "closeWrite",
        "shutdown", "abort", "checkState", "done"}

\* No goroutine is inside lwipMutex.  A frame is the connection that is being
\* accepted or whose Receive blocks, the segment Receive writes (0 once the
\* reader took it) and whether the segment ends with a FIN.
Free == [conn |-> NoConn, seg |-> 0, fin |-> FALSE]
lwipUnlocked == lwipMutex = Free

Init ==
    /\ state = [c \in Conns |-> "none"]
    /\ tcpConns = {}
    /\ connKeyArg = [c \in Conns |-> "nil"]
    /\ pipeDone = [c \in Conns |-> FALSE]
    /\ pcb = [c \in Conns |-> NoPcb]
    /\ lwipMutex = Free
    /\ pc = [c \in Conns |-> [a \in Actors |-> "idle"]]
    /\ reader = [c \in Conns |-> "none"]
    /\ writer = [c \in Conns |-> "none"]
    /\ left = [c \in Conns |-> 0]
    /\ writes = [c \in Conns |-> 0]
    /\ segs = [c \in Conns |-> 0]
    /\ got = [c \in Conns |-> <<>>]
    /\ stalePcb = {}

----------------------------------------------------------------------------
(* Parts of the handlers.  p is the pcb's record at the point of the call. *)

SetPcb(c, p) == pcb' = [pcb EXCEPT ![c] = p]
Goto(c, a, l) == pc' = [pc EXCEPT ![c][a] = l]

\* A Go goroutine uses conn.pcb: harmless while it is live; on freed memory
\* (undefined) no other connection is affected and the use is recorded.
UsePcb(c, p) ==
    /\ SetPcb(c, IF Live(pcb[c]) THEN p ELSE pcb[c])
    /\ stalePcb' = IF Live(pcb[c]) THEN stalePcb ELSE stalePcb \union {c}

\* conn.canWrite.Broadcast(): only a goroutine already in Wait notices.
Broadcast(c) ==
    writer' = [writer EXCEPT ![c] = IF @ = "waiting" THEN "check" ELSE @]

\* Mutant of release: the map keeps the connection.
release_KeepsEntry(c, s) ==
    /\ connKeyArg' = [connKeyArg EXCEPT ![c] = IF c \in tcpConns THEN "freed" ELSE @]
    /\ pipeDone' = [pipeDone EXCEPT ![c] = TRUE]
    /\ state' = [state EXCEPT ![c] = s]
    /\ UNCHANGED tcpConns

\* release(), and the state it leaves (Err overwrites tcpClosed at once).
release(c, s) ==
    /\ connKeyArg' = [connKeyArg EXCEPT ![c] = IF c \in tcpConns THEN "freed" ELSE @]
    /\ tcpConns' = tcpConns \ {c}
    /\ pipeDone' = [pipeDone EXCEPT ![c] = TRUE]
    /\ state' = [state EXCEPT ![c] = s]

\* Mutant of closeInternal: the callbacks are not cleared before tcp_close.
closeInternal_KeepsCallbacks(c, p) ==
    /\ release(c, "tcpClosed")
    /\ UsePcb(c, [tcp_close(p) EXCEPT !.cbs = p.cbs])

closeInternal(c, p) ==
    /\ release(c, "tcpClosed")
    /\ UsePcb(c, tcp_close(p))

\* release(), then tcp_abort.  The err callback it makes reads the connKeyArg that
\* release has just freed; the key is no longer in the map, so it does nothing.
abortInternal(c, p) ==
    /\ release(c, "tcpClosed")
    /\ UsePcb(c, FreedPcb)

\* Mutant of checkState: tcpAborting is not handled.
checkState_NoAbort(c, p) ==
    CASE state[c] = "tcpClosed"   -> SetPcb(c, p) /\ UNCHANGED <<connVars, writer, stalePcb>>
      [] state[c] = "tcpClosing"  -> closeInternal(c, p) /\ UNCHANGED writer
      [] OTHER -> /\ Broadcast(c)
                  /\ SetPcb(c, p)
                  /\ UNCHANGED <<connVars, stalePcb>>

checkState(c, p) ==
    CASE state[c] = "tcpClosed"   -> SetPcb(c, p) /\ UNCHANGED <<connVars, writer, stalePcb>>
      [] state[c] = "tcpClosing"  -> closeInternal(c, p) /\ UNCHANGED writer
      [] state[c] = "tcpAborting" -> abortInternal(c, p) /\ UNCHANGED writer
      [] OTHER -> /\ Broadcast(c)
                  /\ SetPcb(c, p)
                  /\ UNCHANGED <<connVars, stalePcb>>

\* Mutant of LocalClosed: no early return from tcpClosing on.
LocalClosed_NoGuard(c, p) ==
    CASE state[c] = "tcpWriteClosed" -> closeInternal(c, p) /\ Broadcast(c)
      [] state[c] # "tcpWriteClosed" ->
            /\ pipeDone' = [pipeDone EXCEPT ![c] = TRUE]
            /\ state' = [state EXCEPT ![c] = "tcpReceiveClosed"]
            /\ Broadcast(c)
            /\ SetPcb(c, p)
            /\ UNCHANGED <<tcpConns, connKeyArg, stalePcb>>

\* setLocalClosed() and checkState().
LocalClosed(c, p) ==
    CASE state[c] = "tcpWriteClosed" -> closeInternal(c, p) /\ Broadcast(c)
      [] state[c] \in {"tcpConnecting", "tcpConnected"} ->
            /\ pipeDone' = [pipeDone EXCEPT ![c] = TRUE]
            /\ state' = [state EXCEPT ![c] = "tcpReceiveClosed"]
            /\ Broadcast(c)
            /\ SetPcb(c, p)
            /\ UNCHANGED <<tcpConns, connKeyArg, stalePcb>>
      [] OTHER -> checkState(c, p)

\* tcpErrFn and Err.  lwIP runs it together with freeing the pcb.
tcpErrFn(c) ==
    IF c \in tcpConns
    THEN release(c, "tcpErrored") /\ Broadcast(c)
    ELSE UNCHANGED <<connVars, writer>>

\* lwIP gives up the pcb p; errf is called unless it was cleared or the pcb
\* had left the active list.
FreeWithErr(c, p) ==
    /\ SetPcb(c, FreedPcb)
    /\ IF p.cbs /\ Active(p) THEN tcpErrFn(c) ELSE UNCHANGED <<connVars, writer>>
    /\ UNCHANGED stalePcb

\* The sent and poll callbacks: a connection that is not in the map is aborted.
tcpSentFn(c, p) ==
    CASE ~p.cbs -> SetPcb(c, p) /\ UNCHANGED <<connVars, writer, stalePcb>>
      [] p.cbs /\ c \in tcpConns -> checkState(c, p)
      [] OTHER -> FreeWithErr(c, p)

\* TCP_EVENT_CLOSED: tcpRecvFn with a nil pbuf.
tcpRecvFnEof(c, p) ==
    CASE ~p.cbs -> SetPcb(c, p) /\ UNCHANGED <<connVars, writer, stalePcb>>
      [] p.cbs /\ c \in tcpConns -> LocalClosed(c, p)
      [] OTHER -> FreeWithErr(c, p)

\* The end of tcpRecvFn after ERR_OK, and the FIN that follows the segment.
Delivered(c, p, fin) ==
    IF fin THEN tcpRecvFnEof(c, p)
    ELSE SetPcb(c, p) /\ UNCHANGED <<connVars, writer, stalePcb>>

\* Mutant of tcpRecvFn: a connected connection refuses the data, too.
tcpRecvFn_RefusesAlways(c, p, n, fin) ==
    IF c \in tcpConns
    THEN /\ SetPcb(c, [p EXCEPT !.refused = n, !.fin = fin])
         /\ UNCHANGED <<connVars, writer, stalePcb, lwipMutex>>
    ELSE FreeWithErr(c, p) /\ UNCHANGED lwipMutex

\* receiveCheck, and Receive up to the point where the pipe write blocks.
\* Segment n is kept by lwIP, handed to the pipe, or dropped with the receive
\* side shut down; lwipMutex stays locked in the second case.
tcpRecvFn(c, p, n, fin) ==
    CASE c \notin tcpConns ->
            FreeWithErr(c, p) /\ UNCHANGED lwipMutex
      [] c \in tcpConns /\ state[c] = "tcpConnecting" ->
            /\ SetPcb(c, [p EXCEPT !.refused = n, !.fin = fin])
            /\ UNCHANGED <<connVars, writer, stalePcb, lwipMutex>>
      [] /\ c \in tcpConns
         /\ state[c] \in {"tcpConnected", "tcpWriteClosed"}
         /\ ~pipeDone[c] ->
            /\ lwipMutex' = [conn |-> c, seg |-> n, fin |-> fin]
            /\ SetPcb(c, [p EXCEPT !.refused = 0, !.fin = FALSE])
            /\ UNCHANGED <<connVars, writer, stalePcb>>
      [] c \in tcpConns /\ state[c] = "tcpErrored" ->
            abortInternal(c, p) /\ UNCHANGED <<writer, lwipMutex>>
      [] OTHER ->
            Delivered(c, tcp_shutdown_rx(p), fin) /\ UNCHANGED lwipMutex

----------------------------------------------------------------------------
(* lwIP: segments from the client and timers, each under lwipMutex.        *)

\* tcpAcceptFn and newTCPConn up to tcpConns.Store: the connection, under a key
\* nobody else uses, can be seen by LWIPStack.Close from here on.
Accept(c) ==
    /\ lwipUnlocked
    /\ pcb[c] = NoPcb
    /\ SetPcb(c, NewPcb)
    /\ connKeyArg' = [connKeyArg EXCEPT ![c] = "live"]
    /\ tcpConns' = tcpConns \union {c}
    /\ state' = [state EXCEPT ![c] = "tcpNewConn"]
    /\ lwipMutex' = [conn |-> c, seg |-> 0, fin |-> FALSE]
    /\ Goto(c, "connector", "accept")
    /\ UNCHANGED <<pipeDone, reader, writer, dataVars, stalePcb>>

\* The rest of newTCPConn: the state is set, whatever it is by now, and the
\* handler's goroutine is started.
AcceptReturn(c) ==
    /\ pc[c]["connector"] = "accept"
    /\ state' = [state EXCEPT ![c] = "tcpConnecting"]
    /\ lwipMutex' = Free
    /\ Goto(c, "connector", "dial")
    /\ UNCHANGED <<tcpConns, connKeyArg, pipeDone, pcb, reader, writer, dataVars, stalePcb>>

\* tcp_input with the next data segment.  While data is refused the segment is
\* dropped, so the client sends it again.
InputData(c, fin) ==
    /\ lwipUnlocked
    /\ CanReceive(pcb[c]) /\ pcb[c].refused = 0
    /\ segs[c] < MaxSegs
    /\ segs' = [segs EXCEPT ![c] = @ + 1]
    /\ \E p \in IF fin THEN GotFin(pcb[c]) ELSE {pcb[c]} :
          IF p.rxClosed
          THEN FreeWithErr(c, p) /\ UNCHANGED lwipMutex
          ELSE tcpRecvFn(c, p, segs[c] + 1, fin)
    /\ UNCHANGED <<pc, reader, left, writes, got>>

\* Mutant of InputFin: the FIN is reported before the refused data.
InputFin_Overtakes(c) ==
    /\ lwipUnlocked
    /\ CanReceive(pcb[c])
    /\ \E p \in GotFin(pcb[c]) : tcpRecvFnEof(c, p)
    /\ UNCHANGED <<lwipMutex, pc, reader, dataVars>>

\* tcp_input with a FIN and no data.
InputFin(c) ==
    /\ lwipUnlocked
    /\ CanReceive(pcb[c]) /\ pcb[c].refused = 0
    /\ \E p \in GotFin(pcb[c]) : tcpRecvFnEof(c, p)
    /\ UNCHANGED <<lwipMutex, pc, reader, dataVars>>

\* tcp_input with an acceptable RST.
InputRst(c) ==
    /\ lwipUnlocked
    /\ Active(pcb[c])
    /\ FreeWithErr(c, pcb[c])
    /\ UNCHANGED <<lwipMutex, pc, reader, dataVars>>

\* tcp_input with an ACK for data.
InputAck(c) ==
    /\ lwipUnlocked
    /\ Active(pcb[c])
    /\ \E n \in 1 .. pcb[c].unacked :
          tcpSentFn(c, [pcb[c] EXCEPT !.unacked = @ - n])
    /\ UNCHANGED <<lwipMutex, pc, reader, dataVars>>

\* tcp_input with the ACK for our FIN.  A FIN is no data, so there is no sent
\* event; tcp_input_delayed_close calls errf unless the receive side was shut.
InputFinAck(c) ==
    /\ lwipUnlocked
    /\ pcb[c].tcp \in {"LAST_ACK", "CLOSING"} /\ pcb[c].unacked = 0
    /\ CASE pcb[c].tcp = "CLOSING" ->
               /\ SetPcb(c, [pcb[c] EXCEPT !.tcp = "TIME_WAIT"])
               /\ UNCHANGED <<connVars, writer, stalePcb>>
         [] pcb[c].tcp = "LAST_ACK" /\ pcb[c].rxClosed ->
               SetPcb(c, FreedPcb) /\ UNCHANGED <<connVars, writer, stalePcb>>
         [] OTHER -> FreeWithErr(c, pcb[c])
    /\ UNCHANGED <<lwipMutex, pc, reader, dataVars>>

\* tcp_slowtmr: the poll callback.
TimerPoll(c) ==
    /\ lwipUnlocked
    /\ Active(pcb[c]) /\ pcb[c].cbs
    /\ tcpSentFn(c, pcb[c])
    /\ UNCHANGED <<lwipMutex, pc, reader, dataVars>>

\* tcp_slowtmr: a pcb that is removed.
TimerRemove(c) ==
    /\ lwipUnlocked
    /\ MayTimeOut(pcb[c])
    /\ FreeWithErr(c, pcb[c])
    /\ UNCHANGED <<lwipMutex, pc, reader, dataVars>>

\* tcp_slowtmr: the end of TIME_WAIT, without a callback.
TimerTimeWait(c) ==
    /\ lwipUnlocked
    /\ pcb[c].tcp = "TIME_WAIT"
    /\ SetPcb(c, FreedPcb)
    /\ UNCHANGED <<connVars, lwipMutex, pc, reader, writer, dataVars, stalePcb>>

\* tcp_process_refused_data.
tcp_process_refused_data(c) ==
    tcpRecvFn(c, [pcb[c] EXCEPT !.refused = 0, !.fin = FALSE],
              pcb[c].refused, pcb[c].fin)

\* tcp_fasttmr, or tcp_input for a segment that arrives while data is refused.
TimerRefused(c) ==
    /\ lwipUnlocked
    /\ Live(pcb[c]) /\ pcb[c].refused # 0
    /\ tcp_process_refused_data(c)
    /\ UNCHANGED <<pc, reader, dataVars>>

\* Receive returns: the reader took the segment (tcp_recved), or the pipe was
\* closed and tcpRecvFn shuts the receive side; then a FIN, if there is one.
ReceiveReturn(c) ==
    /\ lwipMutex.conn = c /\ pc[c]["connector"] # "accept"
    /\ lwipMutex.seg = 0 \/ pipeDone[c]
    /\ Delivered(c, IF lwipMutex.seg = 0 THEN pcb[c] ELSE tcp_shutdown_rx(pcb[c]),
                 lwipMutex.fin)
    /\ lwipMutex' = Free
    /\ UNCHANGED <<pc, reader, dataVars>>

----------------------------------------------------------------------------
(* The goroutine newTCPConn starts: Handle dials the proxy, then the relay *)
(* goroutines run, or the connection is closed and aborted.                *)

DialOk(c) ==
    /\ pc[c]["connector"] = "dial"
    /\ pc' = [pc EXCEPT ![c]["connector"] = "settle", ![c]["relay"] = "copy"]
    /\ reader' = [reader EXCEPT ![c] = "check"]
    /\ writer' = [writer EXCEPT ![c] = "recv"]
    /\ UNCHANGED <<connVars, pcb, lwipMutex, dataVars, stalePcb>>

DialFail(c) ==
    /\ pc[c]["connector"] = "dial"
    /\ Goto(c, "connector", "closeRead")
    /\ UNCHANGED <<connVars, pcb, lwipMutex, reader, writer, dataVars, stalePcb>>

\* Mutant of Settle: the state is set without looking at it.
Settle_Always(c) ==
    /\ pc[c]["connector"] = "settle"
    /\ state' = [state EXCEPT ![c] = "tcpConnected"]
    /\ Goto(c, "connector", "refused")
    /\ UNCHANGED <<tcpConns, connKeyArg, pipeDone, pcb, lwipMutex, reader, writer,
                   dataVars, stalePcb>>

\* tcp_conn.go:117-123.
Settle(c) ==
    /\ pc[c]["connector"] = "settle"
    /\ IF state[c] = "tcpConnecting"
       THEN /\ state' = [state EXCEPT ![c] = "tcpConnected"]
            /\ Goto(c, "connector", "refused")
       ELSE Goto(c, "connector", "done") /\ UNCHANGED state
    /\ UNCHANGED <<tcpConns, connKeyArg, pipeDone, pcb, lwipMutex, reader, writer,
                   dataVars, stalePcb>>

\* tcp_conn.go:125-129: reads pcb.refused_data, whatever happened since.
ProcessRefused(c) ==
    /\ pc[c]["connector"] = "refused"
    /\ lwipUnlocked
    /\ Goto(c, "connector", "done")
    /\ IF Live(pcb[c]) /\ pcb[c].refused # 0
       THEN tcp_process_refused_data(c)
       ELSE /\ UsePcb(c, pcb[c])
            /\ UNCHANGED <<connVars, writer, lwipMutex>>
    /\ UNCHANGED <<reader, dataVars>>

----------------------------------------------------------------------------
(* Close() and Abort().  a is the goroutine: the connector after a failed  *)
(* dial, or the relay when both copy loops have ended.                     *)

AfterClose(a) == IF a = "connector" THEN "abort" ELSE "done"

CloseRead(c, a) ==
    /\ pc[c][a] = "closeRead"
    /\ pipeDone' = [pipeDone EXCEPT ![c] = TRUE]
    /\ Goto(c, a, "closeWrite")
    /\ UNCHANGED <<state, tcpConns, connKeyArg, pcb, lwipMutex, reader, writer,
                   dataVars, stalePcb>>

\* CloseWrite up to conn.Unlock().
CloseWrite(c, a) ==
    /\ pc[c][a] = "closeWrite"
    /\ IF state[c] \in AtLeastClosing \union {"tcpWriteClosed"}
       THEN Goto(c, a, AfterClose(a)) /\ UNCHANGED state
       ELSE /\ state' = [state EXCEPT ![c] = IF @ = "tcpReceiveClosed"
                                             THEN "tcpClosing"
                                             ELSE "tcpWriteClosed"]
            /\ Goto(c, a, "shutdown")
    /\ UNCHANGED <<tcpConns, connKeyArg, pipeDone, pcb, lwipMutex, reader, writer,
                   dataVars, stalePcb>>

\* Mutant of CloseWriteShutdown: lwipMutex is not taken.
CloseWriteShutdown_Unlocked(c, a) ==
    /\ pc[c][a] = "shutdown"
    /\ UsePcb(c, tcp_shutdown_tx(pcb[c]))
    /\ Goto(c, a, AfterClose(a))
    /\ UNCHANGED <<connVars, lwipMutex, reader, writer, dataVars>>

\* The rest of CloseWrite: tcp_shutdown(conn.pcb, 0, 1) under lwipMutex.
CloseWriteShutdown(c, a) ==
    /\ pc[c][a] = "shutdown"
    /\ lwipUnlocked
    /\ UsePcb(c, tcp_shutdown_tx(pcb[c]))
    /\ Goto(c, a, AfterClose(a))
    /\ UNCHANGED <<connVars, lwipMutex, reader, writer, dataVars>>

\* Mutant of Abort: a connection whose receive side is closed is left alone.
Abort_NotHalfClosed(c, a) ==
    /\ state' = [state EXCEPT ![c] =
          IF @ \in {"tcpReceiveClosed", "tcpAborting"} \union Released
          THEN @ ELSE "tcpAborting"]
    /\ Goto(c, a, "checkState")
    /\ UNCHANGED <<tcpConns, connKeyArg, pipeDone, pcb, lwipMutex, reader, writer,
                   dataVars, stalePcb>>

\* Abort up to conn.Unlock().
Abort(c, a) ==
    /\ state' = [state EXCEPT ![c] = IF @ \in {"tcpAborting"} \union Released
                                     THEN @ ELSE "tcpAborting"]
    /\ Goto(c, a, "checkState")
    /\ UNCHANGED <<tcpConns, connKeyArg, pipeDone, pcb, lwipMutex, reader, writer,
                   dataVars, stalePcb>>

AbortAfterClose(c) == pc[c]["connector"] = "abort" /\ Abort(c, "connector")

\* LWIPStack.Close: tcpConns.Range(... Abort()).
AbortByStack(c) ==
    pc[c]["stack"] = "idle" /\ c \in tcpConns /\ Abort(c, "stack")

\* Mutant of AbortCheckState: lwipMutex is not taken.
AbortCheckState_Unlocked(c, a) ==
    /\ pc[c][a] = "checkState"
    /\ checkState(c, pcb[c])
    /\ Goto(c, a, "done")
    /\ UNCHANGED <<lwipMutex, reader, dataVars>>

\* The rest of Abort: checkState() under lwipMutex.
AbortCheckState(c, a) ==
    /\ pc[c][a] = "checkState"
    /\ lwipUnlocked
    /\ checkState(c, pcb[c])
    /\ Goto(c, a, "done")
    /\ UNCHANGED <<lwipMutex, reader, dataVars>>

----------------------------------------------------------------------------
(* The relay: io.Copy(proxy, conn) is the reader, io.Copy(conn, proxy) the *)
(* writer; when both have ended, the connection is closed.                 *)

\* Mutant of ReadCheck: Read fails before the connection is connected.
ReadCheck_NotConnecting(c) ==
    /\ reader[c] = "check"
    /\ reader' = [reader EXCEPT ![c] =
          IF state[c] \in {"tcpConnected", "tcpWriteClosed"} THEN "read" ELSE "done"]
    /\ UNCHANGED <<connVars, pcb, lwipMutex, pc, writer, dataVars, stalePcb>>

\* Read up to conn.Unlock().
ReadCheck(c) ==
    /\ reader[c] = "check"
    /\ reader' = [reader EXCEPT ![c] =
          IF state[c] \in AtLeastClosing \union {"tcpReceiveClosed"}
          THEN "done" ELSE "read"]
    /\ UNCHANGED <<connVars, pcb, lwipMutex, pc, writer, dataVars, stalePcb>>

\* The pipe hands the segment of the blocked Receive to Read.
ReadData(c) ==
    /\ reader[c] = "read" /\ ~pipeDone[c]
    /\ lwipMutex.conn = c /\ lwipMutex.seg # 0
    /\ got' = [got EXCEPT ![c] = Append(@, lwipMutex.seg)]
    /\ lwipMutex' = [lwipMutex EXCEPT !.seg = 0]
    /\ reader' = [reader EXCEPT ![c] = "forward"]
    /\ UNCHANGED <<connVars, pcb, pc, writer, left, writes, segs, stalePcb>>

ReadEof(c) ==
    /\ reader[c] = "read" /\ pipeDone[c]
    /\ reader' = [reader EXCEPT ![c] = "done"]
    /\ UNCHANGED <<connVars, pcb, lwipMutex, pc, writer, dataVars, stalePcb>>

\* The proxy accepts the data, or the write to the proxy fails.
Forward(c, ok) ==
    /\ reader[c] = "forward" /\ (ok \/ ProxyFails)
    /\ reader' = [reader EXCEPT ![c] = IF ok THEN "check" ELSE "done"]
    /\ UNCHANGED <<connVars, pcb, lwipMutex, pc, writer, dataVars, stalePcb>>

\* The proxy sends data: Write is called.
ProxyData(c) ==
    /\ writer[c] = "recv" /\ writes[c] < MaxWrites
    /\ writer' = [writer EXCEPT ![c] = "check"]
    /\ writes' = [writes EXCEPT ![c] = @ + 1]
    /\ left' = [left EXCEPT ![c] = WriteLen]
    /\ UNCHANGED <<connVars, pcb, lwipMutex, pc, reader, segs, got, stalePcb>>

\* The proxy's stream ends or fails.
ProxyEof(c) ==
    /\ writer[c] = "recv"
    /\ writer' = [writer EXCEPT ![c] = "done"]
    /\ UNCHANGED <<connVars, pcb, lwipMutex, pc, reader, dataVars, stalePcb>>

WriteCheck(c) ==
    /\ writer[c] = "check"
    /\ writer' = [writer EXCEPT ![c] =
          IF state[c] \in {"tcpConnecting", "tcpConnected", "tcpReceiveClosed"}
          THEN "push" ELSE "done"]
    /\ UNCHANGED <<connVars, pcb, lwipMutex, pc, reader, dataVars, stalePcb>>

\* Mutant of toWrite: the free part of the send buffer is not looked at.
toWrite_NoClip(c) == left[c]

\* What Write tries to enqueue: at most the free part of snd_buf.
toWrite(c) == LET room == SndBuf - pcb[c].unacked
              IN  IF left[c] <= room THEN left[c] ELSE room

\* Write between lwipMutex.Lock() and Unlock(): toWrite units are enqueued, or
\* none if tcp_write returns ERR_MEM.  A freed pcb may answer anything.
WritePush(c) ==
    /\ writer[c] = "push"
    /\ lwipUnlocked
    /\ Live(pcb[c]) /\ toWrite(c) > 0 => CanWrite(pcb[c])
    /\ \E n \in {0, toWrite(c)} :
          /\ UsePcb(c, [pcb[c] EXCEPT !.unacked = @ + n])
          /\ left' = [left EXCEPT ![c] = @ - n]
          /\ writer' = [writer EXCEPT ![c] = IF n = left[c] THEN "recv" ELSE "unlocked"]
    /\ UNCHANGED <<connVars, lwipMutex, pc, reader, writes, segs, got>>

\* tcp_write fails: Write returns the error and the copy loop ends.
WriteError(c) ==
    /\ writer[c] = "push"
    /\ lwipUnlocked
    /\ toWrite(c) > 0 /\ ~CanWrite(pcb[c])
    /\ UsePcb(c, pcb[c])
    /\ writer' = [writer EXCEPT ![c] = "done"]
    /\ UNCHANGED <<connVars, lwipMutex, pc, reader, dataVars>>

\* canWrite.Wait() enters the wait list; a broadcast before that is not seen.
WriteWait(c) ==
    /\ writer[c] = "unlocked"
    /\ writer' = [writer EXCEPT ![c] = "waiting"]
    /\ UNCHANGED <<connVars, pcb, lwipMutex, pc, reader, dataVars, stalePcb>>

RelayEnds(c) ==
    /\ pc[c]["relay"] = "copy"
    /\ reader[c] = "done" /\ writer[c] = "done"
    /\ Goto(c, "relay", "closeRead")
    /\ UNCHANGED <<connVars, pcb, lwipMutex, reader, writer, dataVars, stalePcb>>

----------------------------------------------------------------------------

Client(c) ==
    \/ Accept(c)
    \/ \E fin \in BOOLEAN : InputData(c, fin)
    \/ InputFin(c)
    \/ InputRst(c)
    \/ InputAck(c)
    \/ InputFinAck(c)

Timers(c) ==
    \/ TimerPoll(c)
    \/ TimerRefused(c)
    \/ TimerRemove(c)
    \/ TimerTimeWait(c)

Proxy(c) ==
    \/ DialOk(c)
    \/ DialFail(c)
    \/ \E ok \in BOOLEAN : Forward(c, ok)
    \/ ProxyData(c)
    \/ ProxyEof(c)

\* The steps the Go scheduler takes of its own: none waits for a peer.
Goroutines(c) ==
    \/ AcceptReturn(c)
    \/ ReceiveReturn(c)
    \/ Settle(c)
    \/ ProcessRefused(c)
    \/ \E a \in Actors : \/ CloseRead(c, a)
                          \/ CloseWrite(c, a)
                          \/ CloseWriteShutdown(c, a)
                          \/ AbortCheckState(c, a)
    \/ AbortAfterClose(c)
    \/ ReadCheck(c)
    \/ ReadData(c)
    \/ ReadEof(c)
    \/ WriteCheck(c)
    \/ WritePush(c)
    \/ WriteError(c)
    \/ WriteWait(c)
    \/ RelayEnds(c)

\* While the stack is open, and when LWIPStack.Close may also be called.
OpenNext == \E c \in Conns : Client(c) \/ Timers(c) \/ Proxy(c) \/ Goroutines(c)
Next == OpenNext \/ \E c \in Conns : AbortByStack(c)

Spec == Init /\ [][Next]_vars

\* Every goroutine that can run runs (Go's scheduler, and its mutexes, which
\* hand over to a waiter), a dial ends, and the proxy takes what it is sent.
\* Nothing is assumed of the client, nor of what the proxy sends.
GoFairness ==
    \A c \in Conns :
        /\ WF_vars(AcceptReturn(c)) /\ WF_vars(ReceiveReturn(c))
        /\ WF_vars(DialOk(c) \/ DialFail(c))
        /\ WF_vars(Settle(c)) /\ WF_vars(ProcessRefused(c))
        /\ \A a \in Actors : /\ WF_vars(CloseRead(c, a))
                             /\ WF_vars(CloseWrite(c, a))
                             /\ WF_vars(CloseWriteShutdown(c, a))
                             /\ WF_vars(AbortCheckState(c, a))
        /\ WF_vars(AbortAfterClose(c))
        /\ WF_vars(ReadCheck(c)) /\ WF_vars(ReadData(c)) /\ WF_vars(ReadEof(c))
        /\ WF_vars(\E ok \in BOOLEAN : Forward(c, ok))
        /\ WF_vars(WriteCheck(c)) /\ WF_vars(WritePush(c) \/ WriteError(c))
        /\ WF_vars(WriteWait(c)) /\ WF_vars(RelayEnds(c))

\* The stack's ticker keeps lwIP's timers going.  A pcb that only may time out
\* (TimerRemove) need not do so.
TimerFairness ==
    \A c \in Conns :
        WF_vars(TimerPoll(c)) /\ WF_vars(TimerRefused(c)) /\ WF_vars(TimerTimeWait(c))

Fairness == GoFairness /\ TimerFairness

FairSpec == Spec /\ Fairness
FairOpenSpec == Init /\ [][OpenNext]_vars /\ Fairness

----------------------------------------------------------------------------
(* Properties. *)

PcbType == [tcp : TcpStates, cbs : BOOLEAN, rxClosed : BOOLEAN,
            refused : 0 .. MaxSegs, fin : BOOLEAN, unacked : 0 .. SndBuf]

\* The type invariant.
TypeOK ==
    /\ state \in [Conns -> States]
    /\ tcpConns \subseteq Conns
    /\ connKeyArg \in [Conns -> {"nil", "live", "freed"}]
    /\ pipeDone \in [Conns -> BOOLEAN]
    /\ pcb \in [Conns -> PcbType]
    /\ lwipMutex \in [conn : Conns \union {NoConn}, seg : 0 .. MaxSegs, fin : BOOLEAN]
    /\ pc \in [Conns -> [Actors -> Pcs]]
    /\ reader \in [Conns -> {"none", "check", "read", "forward", "done"}]
    /\ writer \in [Conns -> {"none", "recv", "check", "push", "unlocked", "waiting", "done"}]
    /\ left \in [Conns -> 0 .. WriteLen]
    /\ writes \in [Conns -> 0 .. MaxWrites]
    /\ segs \in [Conns -> 0 .. MaxSegs]
    /\ got \in [Conns -> Seq(1 .. MaxSegs)]
    /\ stalePcb \subseteq Conns

\* Every callback lwIP can still make finds its own connection: while the
\* callbacks are set on a live pcb, connKeyArg is valid memory, the map has the
\* connection, and it is not released.  checkState returns nil for a closed
\* connection, and the callbacks' err.(*lwipError) would panic on that nil.
CallbackFindsOpenConn ==
    \A c \in Conns : Live(pcb[c]) /\ pcb[c].cbs =>
        /\ connKeyArg[c] = "live"
        /\ c \in tcpConns
        /\ state[c] \notin Released

\* release() gives everything back together: a connection in the map owns its
\* key memory, and one that left the map is in a final state with its key
\* memory freed and its pipe closed, so no reader stays blocked.
ReleasedCompletely ==
    \A c \in Conns :
        IF c \in tcpConns
        THEN connKeyArg[c] = "live" /\ state[c] \notin Released
        ELSE \/ state[c] = "none"
             \/ state[c] \in Released /\ connKeyArg[c] = "freed" /\ pipeDone[c]

\* While Receive waits in the pipe write, or newTCPConn is under way, holding
\* lwipMutex, nobody frees the pcb that is used after it, although Abort and
\* CloseWrite may change the state meanwhile.
BlockedReceiveKeepsPcb ==
    \A c \in Conns : lwipMutex.conn = c =>
        Live(pcb[c]) /\ pcb[c].cbs /\ c \in tcpConns

\* The handler reads the client's segments in order, without a gap, also across
\* data refused while the proxy is being dialled and retried later.
InOrderDelivery ==
    \A c \in Conns : \A i \in DOMAIN got[c] : got[c][i] = i

\* A reader that still reads is told of the client's FIN only after it got all
\* the data before it (the FIN behind refused data is kept back).
FinAfterData ==
    \A c \in Conns : state[c] = "tcpReceiveClosed" /\ ~pcb[c].rxClosed =>
        Len(got[c]) = segs[c]

\* Nothing revives a connection: tcpClosed and tcpErrored are final, whatever
\* goroutine was between two of its lock sections.
ReleasedIsFinal ==
    [][\A c \in Conns : state[c] \in Released => state'[c] = state[c]]_vars

\* A connection that is being closed or aborted only proceeds to its release,
\* once newTCPConn, which overwrites the state, has returned.
ClosingProceeds ==
    [][\A c \in Conns :
          state[c] \in {"tcpClosing", "tcpAborting"} /\ pc[c]["connector"] # "accept" =>
              state'[c] \in {state[c], "tcpAborting"} \union Released]_vars

\* Data that was refused while the handler dials does not stay with lwIP: the
\* fast timer, the next segment or the connector delivers it.
RefusedDataLeaves ==
    \A c \in Conns : (pcb[c].refused # 0) ~> (pcb[c].refused = 0)

\* lwipMutex, which every connection needs, does not stay locked by a Receive.
LwipMutexReleased ==
    \A c \in Conns : (lwipMutex.conn = c) ~> (lwipMutex.conn # c)

\* An aborted connection is released, by Abort itself or by a callback.
AbortReleases ==
    \A c \in Conns : (state[c] = "tcpAborting") ~> (state[c] \in Released)

\* "lwIP runs in a single thread": while a Receive holds lwipMutex, no goroutine
\* touches the pcb of another connection.
LwipSingleThread ==
    [][\A d \in Conns : lwipMutex.conn \notin {NoConn, d} => pcb'[d] = pcb[d]]_vars

\* No goroutine uses a connection's pcb after lwIP freed it: "If it's in
\* tcpErrored state, the pcb was already freed".
NoStalePcb == stalePcb = {}
=============================================================================
