----------------------------- MODULE LwipStack -----------------------------
(***************************************************************************)
(* The life of the stack (lwipcore/core/lwip.go) around its connections:   *)
(* Write feeds packets to lwIP, a ticker goroutine runs lwIP's timers, and *)
(* Close cancels the context, aborts the connections it finds in tcpConns  *)
(* and closes the listening pcb.  The connections are those of TcpConn;    *)
(* here their client segments arrive through Write and their timers run    *)
(* while the ticker does.                                                  *)
(***************************************************************************)
EXTENDS TcpConn

VARIABLES
    ctxDone,    \* s.ctx is cancelled
    inFlight,   \* a Write is past its look at s.ctx
    tickerOn,   \* the ticker goroutine has not returned
    closer,     \* LWIPStack.Close: "idle", "range", "listener", "done"
    existing,   \* the connections in tcpConns when Range starts
    accepted,   \* those of them whose newTCPConn has returned by then
    listening   \* the listening pcb accepts

stackVars == <<ctxDone, inFlight, tickerOn, closer, existing, accepted, listening>>
allVars == <<vars, stackVars>>

StackInit ==
    /\ Init
    /\ ctxDone = FALSE
    /\ inFlight = FALSE
    /\ tickerOn = TRUE
    /\ closer = "idle"
    /\ existing = {}
    /\ accepted = {}
    /\ listening = TRUE

\* Write up to the call of input().
WriteStart ==
    /\ ~ctxDone /\ ~inFlight
    /\ inFlight' = TRUE
    /\ UNCHANGED <<vars, ctxDone, tickerOn, closer, existing, accepted, listening>>

\* input() under lwipMutex: the packet makes lwIP take a step of a connection;
\* a connection is accepted only by a listening pcb.
WriteInput(c) ==
    /\ inFlight
    /\ Client(c)
    /\ pcb[c] = NoPcb => listening
    /\ inFlight' = FALSE
    /\ UNCHANGED <<ctxDone, tickerOn, closer, existing, accepted, listening>>

\* A packet for none of the connections.
WriteOther ==
    /\ inFlight /\ lwipUnlocked
    /\ inFlight' = FALSE
    /\ UNCHANGED <<vars, ctxDone, tickerOn, closer, existing, accepted, listening>>

\* sys_check_timeouts() in the ticker goroutine; a tick that was ready when the
\* context was cancelled may still be taken.
Tick(c) == tickerOn /\ Timers(c) /\ UNCHANGED stackVars

TickerStops ==
    /\ ctxDone /\ tickerOn
    /\ tickerOn' = FALSE
    /\ UNCHANGED <<vars, ctxDone, inFlight, closer, existing, accepted, listening>>

\* Close: s.cancel(), and tcpConns.Range begins.
CloseStart ==
    /\ closer = "idle"
    /\ ctxDone' = TRUE
    /\ closer' = "range"
    /\ existing' = tcpConns
    /\ accepted' = {c \in tcpConns : pc[c]["connector"] # "accept"}
    /\ UNCHANGED <<vars, inFlight, tickerOn, listening>>

\* Range calls Abort on one connection at a time.  It visits what was in the map
\* from the start, and may or may not visit what was stored meanwhile.
RangeAbort(c) ==
    /\ closer = "range"
    /\ \A d \in Conns : pc[d]["stack"] # "checkState"
    /\ AbortByStack(c)
    /\ UNCHANGED stackVars

\* Mutant of RangeEnd: Close goes on only when the map is empty.
RangeEnd_WhenEmpty ==
    /\ closer = "range"
    /\ \A c \in Conns : pc[c]["stack"] # "checkState"
    /\ tcpConns = {}
    /\ closer' = "listener"
    /\ UNCHANGED <<vars, ctxDone, inFlight, tickerOn, existing, accepted, listening>>

RangeEnd ==
    /\ closer = "range"
    /\ \A c \in Conns : pc[c]["stack"] # "checkState"
    /\ \A c \in existing : pc[c]["stack"] = "done" \/ c \notin tcpConns
    /\ closer' = "listener"
    /\ UNCHANGED <<vars, ctxDone, inFlight, tickerOn, existing, accepted, listening>>

\* tcp_accept(nil) and tcp_close of the listening pcb under lwipMutex.
CloseListener ==
    /\ closer = "listener" /\ lwipUnlocked
    /\ listening' = FALSE
    /\ closer' = "done"
    /\ UNCHANGED <<vars, ctxDone, inFlight, tickerOn, existing, accepted>>

\* The other goroutines of a connection.
ConnStep(c) == (Proxy(c) \/ Goroutines(c)) /\ UNCHANGED stackVars

StackNext ==
    \/ WriteStart \/ WriteOther \/ TickerStops
    \/ CloseStart \/ RangeEnd \/ CloseListener
    \/ \E c \in Conns : \/ WriteInput(c)
                        \/ Tick(c)
                        \/ RangeAbort(c)
                        \/ ConnStep(c)

StackSpec == StackInit /\ [][StackNext]_allVars

\* The goroutines of the connections as in TcpConn (with Close's AbortCheckState),
\* Close itself once it was called, and a Write that is under way.
StackFairness ==
    /\ GoFairness
    /\ WF_allVars(TickerStops) /\ WF_allVars(RangeEnd) /\ WF_allVars(CloseListener)
    /\ WF_allVars(\E c \in Conns : RangeAbort(c))
    /\ WF_allVars(\E c \in Conns : WriteInput(c)) /\ WF_allVars(WriteOther)

StackFairSpec == StackSpec /\ StackFairness

----------------------------------------------------------------------------

\* Close leaves none of the connections it found accepted: when Range has ended,
\* each of them is released, whatever its handler, its client and the timers did.
CloseReleasesAccepted ==
    closer \in {"listener", "done"} =>
        \A c \in accepted : c \notin tcpConns /\ state[c] \in Released

\* Close returns as long as no Receive keeps lwipMutex for ever: nothing else in
\* Range, Abort and the closing of the listener waits without end.
CloseReturns ==
    []<>lwipUnlocked => ((closer = "range") ~> (closer = "done"))
=============================================================================
