----------------------------- MODULE TcpStream ------------------------------
(* The connections of TcpConn as the streams of TunnelStream: the refinement *)
(* mapping.                                                                  *)
EXTENDS TcpConn

\* An accepted connection is in the map until it is released; its handler reads
\* until the pipe is closed, by LocalClosed at the end of the client's stream,
\* or by CloseRead.  A receive side that was shut (rxClosed) has lost data.
streamPhase ==
    [c \in Conns |->
        IF state[c] = "none" THEN "none"
        ELSE IF c \notin tcpConns THEN "gone"
        ELSE IF state[c] = "tcpReceiveClosed" /\ ~pcb[c].rxClosed THEN "eof"
        ELSE IF pipeDone[c] THEN "closing"
        ELSE "open"]

Stream == INSTANCE TunnelStream WITH phase <- streamPhase, sent <- segs

\* What a handler is promised of a connection (conn.go, Read, LocalClosed and
\* Err) is what it gets: every step of lwIP, of a timer, of a callback and of
\* any goroutine is a step of the stream, or none.
ImplementsStream == Stream!Spec
=============================================================================
