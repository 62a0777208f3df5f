--------------------------- MODULE TcpConnProofs ---------------------------
(***************************************************************************)
(* Proofs about TcpConn, for any set of connections and any bounds.        *)
(*                                                                         *)
(* The inductive invariant adds to the properties of TcpConn how the three *)
(* owners of a connection agree: the Go object, the map tcpConns and the   *)
(* pcb.  The parts of the handlers (release, checkState, LocalClosed, ...) *)
(* are shown once to preserve it; the actions follow from these lemmas.    *)
(***************************************************************************)
EXTENDS TcpConn, TLAPS

\* Most leaves are first-order; the ones with arithmetic or records ask for SMT.
USE Zenon

\* The agreement of the connection's state, the map and the pcb.
ConnInv ==
    \A c \in Conns :
        /\ state[c] = "none" <=> pcb[c].tcp = "NONE"
        /\ IF c \in tcpConns
           THEN connKeyArg[c] = "live" /\ state[c] \notin Released \union {"none"}
           ELSE \/ state[c] = "none"
                \/ state[c] \in Released /\ connKeyArg[c] = "freed" /\ pipeDone[c]
        /\ Live(pcb[c]) => (pcb[c].cbs <=> c \in tcpConns)

\* A goroutine works on a connection only after it was accepted.
PcInv == \A c \in Conns, a \in Actors : pc[c][a] # "idle" => state[c] # "none"

\* A callback is left half done only with a live connection.
MutexInv == lwipMutex # Free =>
    /\ lwipMutex.conn \in Conns
    /\ lwipMutex.conn \in tcpConns
    /\ Live(pcb[lwipMutex.conn])

\* newTCPConn runs under lwipMutex to its end.
AcceptInv == \A c \in Conns : pc[c]["connector"] = "accept" => lwipMutex.conn = c

IInv == TypeOK /\ ConnInv /\ PcInv /\ MutexInv /\ AcceptInv

----------------------------------------------------------------------------

\* The type of the variables the parts of the handlers change.
PartType ==
    /\ state \in [Conns -> States]
    /\ tcpConns \subseteq Conns
    /\ connKeyArg \in [Conns -> {"nil", "live", "freed"}]
    /\ pipeDone \in [Conns -> BOOLEAN]
    /\ pcb \in [Conns -> PcbType]
    /\ writer \in [Conns -> {"none", "recv", "check", "push", "unlocked", "waiting", "done"}]
    /\ stalePcb \subseteq Conns

\* p may be what lwIP made of the pcb of c before it calls back.
Shape(c, p) ==
    /\ p \in PcbType
    /\ p.cbs = pcb[c].cbs
    /\ Live(p) <=> Live(pcb[c])
    /\ p.tcp = "NONE" <=> pcb[c].tcp = "NONE"

\* What every part of a handler keeps.
Others(c) ==
    \A d \in Conns : d # c => /\ state'[d] = state[d] /\ connKeyArg'[d] = connKeyArg[d]
                              /\ pipeDone'[d] = pipeDone[d] /\ pcb'[d] = pcb[d]
                              /\ (d \in tcpConns' <=> d \in tcpConns)

\* What a part may do to the state of c.
StateStep(c) ==
    /\ state[c] \in Released => state'[c] = state[c]
    /\ state[c] \in {"tcpClosing", "tcpAborting"} /\ pc[c]["connector"] # "accept" =>
          state'[c] \in {state[c], "tcpAborting"} \union Released
    /\ state[c] # "none" => state'[c] # "none"

Kept(c) == PartType' /\ ConnInv' /\ Others(c) /\ StateStep(c)

\* The three constant pcbs are typed; only an accepted one is live and has
\* callbacks.
LEMMA PcbFacts ==
    /\ NoPcb \in PcbType /\ NewPcb \in PcbType /\ FreedPcb \in PcbType
    /\ NoPcb.tcp = "NONE" /\ ~Live(NoPcb) /\ ~NoPcb.cbs
    /\ Live(NewPcb) /\ NewPcb.cbs /\ NewPcb.tcp # "NONE"
    /\ ~Live(FreedPcb) /\ ~FreedPcb.cbs /\ FreedPcb.tcp # "NONE"
BY BoundsAssumption, SMTT(30) DEF NoPcb, NewPcb, FreedPcb, Pcb, PcbType, TcpStates, Live

\* tcp_close leaves no callbacks; tcp_shutdown leaves a live pcb and its
\* callbacks alone.
LEMMA CloseFacts ==
    ASSUME NEW p \in PcbType, Live(p)
    PROVE  /\ tcp_close(p) \in PcbType /\ ~tcp_close(p).cbs /\ tcp_close(p).tcp # "NONE"
           /\ tcp_shutdown_tx(p) \in PcbType /\ Live(tcp_shutdown_tx(p))
           /\ tcp_shutdown_tx(p).cbs = p.cbs
           /\ tcp_shutdown_rx(p) \in PcbType /\ Live(tcp_shutdown_rx(p))
           /\ tcp_shutdown_rx(p).cbs = p.cbs
<1>1. /\ tcp_shutdown_rx(p) \in PcbType /\ Live(tcp_shutdown_rx(p))
      /\ tcp_shutdown_rx(p).cbs = p.cbs
  <2>1. 0 \in 0 .. MaxSegs
    BY BoundsAssumption, SMTT(30)
  <2> DEFINE R == 0 .. MaxSegs
             U == 0 .. SndBuf
  <2>2. 0 \in R /\ PcbType = [tcp : TcpStates, cbs : BOOLEAN, rxClosed : BOOLEAN,
                              refused : R, fin : BOOLEAN, unacked : U]
    BY <2>1 DEF PcbType
  <2> HIDE DEF R, U
  <2> QED  BY <2>2, Zenon DEF tcp_shutdown_rx, Live
<1> DEFINE q == tcp_close_shutdown_fin(p)
<1>2. q \in PcbType /\ Live(q) /\ q.cbs = p.cbs
  <2> DEFINE t == CASE p.tcp = "ESTABLISHED" -> "FIN_WAIT"
                    [] p.tcp = "CLOSE_WAIT"  -> "LAST_ACK"
                    [] OTHER                 -> p.tcp
  <2>1. t \in TcpStates \ {"NONE", "FREED"}
    BY DEF PcbType, TcpStates, Live
  <2>2. q = [p EXCEPT !.tcp = t]
    BY DEF tcp_close_shutdown_fin, PcbType
  <2> HIDE DEF t, q
  <2> QED  BY <2>1, <2>2 DEF PcbType, Live
<1> HIDE DEF q
<1>3. /\ [q EXCEPT !.rxClosed = TRUE, !.cbs = FALSE] \in PcbType
      /\ ~[q EXCEPT !.rxClosed = TRUE, !.cbs = FALSE].cbs
      /\ [q EXCEPT !.rxClosed = TRUE, !.cbs = FALSE].tcp # "NONE"
  BY <1>2, Zenon DEF PcbType, Live
<1>4. tcp_close(p) \in {FreedPcb, [q EXCEPT !.rxClosed = TRUE, !.cbs = FALSE]}
  BY DEF tcp_close, q
<1> QED
  BY <1>1, <1>2, <1>3, <1>4, PcbFacts, Zenon DEF tcp_shutdown_tx, q

----------------------------------------------------------------------------
(* The parts of the handlers keep the agreement. *)

\* The writer either goes on as before or is woken up.
WriterStep(c) == writer' = writer \/ Broadcast(c)

\* Waking a writer, or not, keeps the type of writer.
LEMMA WriterType ==
    ASSUME PartType, NEW c \in Conns, WriterStep(c)
    PROVE  writer' \in [Conns -> {"none", "recv", "check", "push", "unlocked",
                                  "waiting", "done"}]
BY DEF PartType, WriterStep, Broadcast

\* A step that only changes the pcb within its shape keeps the connection
\* right.
LEMMA KeepLemma ==
    ASSUME PartType, ConnInv, NEW c \in Conns, NEW p, Shape(c, p),
           SetPcb(c, p), WriterStep(c), UNCHANGED <<connVars, stalePcb>>
    PROVE  Kept(c)
<1>1. PartType'
  BY WriterType DEF PartType, Shape, SetPcb, connVars
<1>2. Others(c) /\ StateStep(c)
  BY DEF Others, StateStep, PartType, SetPcb, connVars
<1>3. pcb'[c] = p /\ \A d \in Conns : d # c => pcb'[d] = pcb[d]
  BY DEF PartType, SetPcb
<1>4. ConnInv'
  BY <1>3, ZenonT(60) DEF ConnInv, Shape, connVars, Live
<1> QED  BY <1>1, <1>2, <1>4 DEF Kept

\* release(), together with a pcb that no longer calls back.
LEMMA ReleaseLemma ==
    ASSUME PartType, ConnInv, NEW c \in Conns, c \in tcpConns,
           NEW s \in Released, release(c, s), WriterStep(c),
           pcb' = pcb \/ (\E q \in PcbType : SetPcb(c, q)),
           pcb'[c].tcp # "NONE", Live(pcb'[c]) => ~pcb'[c].cbs,
           stalePcb' \subseteq Conns
    PROVE  Kept(c)
<1>1. PartType'
  <2>1. pcb' \in [Conns -> PcbType]
    BY DEF PartType, SetPcb
  <2>2. /\ state' \in [Conns -> States]
        /\ tcpConns' \subseteq Conns
        /\ connKeyArg' \in [Conns -> {"nil", "live", "freed"}]
        /\ pipeDone' \in [Conns -> BOOLEAN]
    BY DEF PartType, release, Released, States
  <2> QED  BY <2>1, <2>2, WriterType DEF PartType
<1>2. \A d \in Conns : d # c => pcb'[d] = pcb[d]
  BY DEF PartType, SetPcb
<1>3. Others(c)
  BY <1>2 DEF Others, PartType, release
<1>4. /\ state'[c] = s /\ c \notin tcpConns' /\ connKeyArg'[c] = "freed" /\ pipeDone'[c]
      /\ state[c] \notin Released
  BY DEF PartType, release, ConnInv
<1>5. StateStep(c)
  BY <1>4 DEF StateStep, Released
<1>6. ConnInv'
  <2> SUFFICES ASSUME NEW d \in Conns
               PROVE  /\ state'[d] = "none" <=> pcb'[d].tcp = "NONE"
                      /\ IF d \in tcpConns'
                         THEN connKeyArg'[d] = "live" /\ state'[d] \notin Released \union {"none"}
                         ELSE \/ state'[d] = "none"
                              \/ state'[d] \in Released /\ connKeyArg'[d] = "freed" /\ pipeDone'[d]
                      /\ Live(pcb'[d]) => (pcb'[d].cbs <=> d \in tcpConns')
    BY DEF ConnInv, Live, Released
  <2>1. CASE d = c
    BY <2>1, <1>4 DEF Released
  <2>2. CASE d # c
    BY <2>2, <1>3, ZenonT(60) DEF Others, ConnInv
  <2> QED  BY <2>1, <2>2
<1> QED  BY <1>1, <1>3, <1>5, <1>6 DEF Kept

\* closeInternal releases the connection completely, whether or not the pcb is
\* live.
LEMMA CloseInternalLemma ==
    ASSUME PartType, ConnInv, NEW c \in Conns, c \in tcpConns, NEW p, Shape(c, p),
           closeInternal(c, p), WriterStep(c)
    PROVE  Kept(c)
<1>1. pcb[c] \in PcbType /\ pcb[c].tcp # "NONE"
  BY DEF PartType, ConnInv
<1>2. CASE Live(pcb[c])
  <2>1. /\ tcp_close(p) \in PcbType /\ ~tcp_close(p).cbs /\ tcp_close(p).tcp # "NONE"
    BY <1>2, CloseFacts DEF Shape
  <2>2. SetPcb(c, tcp_close(p)) /\ pcb'[c] = tcp_close(p) /\ stalePcb' = stalePcb
    BY <1>2 DEF closeInternal, UsePcb, SetPcb, PartType
  <2> QED  BY <2>1, <2>2, ReleaseLemma DEF closeInternal, Released, PartType
<1>3. CASE ~Live(pcb[c])
  <2>1. SetPcb(c, pcb[c]) /\ pcb'[c] = pcb[c] /\ stalePcb' \subseteq Conns
    BY <1>3 DEF closeInternal, UsePcb, SetPcb, PartType
  <2> QED  BY <1>1, <1>3, <2>1, ReleaseLemma DEF closeInternal, Released, PartType
<1> QED  BY <1>2, <1>3

\* abortInternal (tcp_abort and release) keeps the connection right.
LEMMA AbortInternalLemma ==
    ASSUME PartType, ConnInv, NEW c \in Conns, c \in tcpConns, NEW p,
           abortInternal(c, p), WriterStep(c)
    PROVE  Kept(c)
<1>1. pcb[c] \in PcbType /\ pcb[c].tcp # "NONE"
  BY DEF PartType, ConnInv
<1>2. stalePcb' \subseteq Conns
  BY DEF abortInternal, UsePcb, PartType
<1>3. SetPcb(c, IF Live(pcb[c]) THEN FreedPcb ELSE pcb[c])
  BY DEF abortInternal, UsePcb
<1>4. pcb'[c] = IF Live(pcb[c]) THEN FreedPcb ELSE pcb[c]
  BY <1>3 DEF SetPcb, PartType
<1> QED
  BY <1>1, <1>2, <1>3, <1>4, PcbFacts, ReleaseLemma DEF abortInternal, Released

\* checkState keeps the connection right in every state it may find.
LEMMA CheckStateLemma ==
    ASSUME PartType, ConnInv, NEW c \in Conns, NEW p, Shape(c, p), checkState(c, p)
    PROVE  Kept(c)
<1>1. CASE state[c] = "tcpClosed"
  <2>1. SetPcb(c, p) /\ UNCHANGED <<connVars, writer, stalePcb>>
    BY <1>1 DEF checkState
  <2> QED  BY <2>1, KeepLemma DEF WriterStep
<1>2. CASE state[c] = "tcpClosing"
  <2>1. closeInternal(c, p) /\ UNCHANGED writer
    BY <1>2 DEF checkState
  <2>2. c \in tcpConns
    BY <1>2 DEF ConnInv, Released
  <2> QED  BY <2>1, <2>2, CloseInternalLemma DEF WriterStep
<1>3. CASE state[c] = "tcpAborting"
  <2>1. abortInternal(c, p) /\ UNCHANGED writer
    BY <1>3 DEF checkState
  <2>2. c \in tcpConns
    BY <1>3 DEF ConnInv, Released
  <2> QED  BY <2>1, <2>2, AbortInternalLemma DEF WriterStep
<1>4. CASE state[c] \notin {"tcpClosed", "tcpClosing", "tcpAborting"}
  <2>1. Broadcast(c) /\ SetPcb(c, p) /\ UNCHANGED <<connVars, stalePcb>>
    BY <1>4 DEF checkState
  <2> QED  BY <2>1, KeepLemma DEF WriterStep
<1> QED  BY <1>1, <1>2, <1>3, <1>4

\* LocalClosed, the end of the client's stream, keeps the connection right.
LEMMA LocalClosedLemma ==
    ASSUME PartType, ConnInv, NEW c \in Conns, NEW p, Shape(c, p), LocalClosed(c, p)
    PROVE  Kept(c)
<1>1. CASE state[c] = "tcpWriteClosed"
  <2>1. closeInternal(c, p) /\ Broadcast(c)
    BY <1>1 DEF LocalClosed
  <2>2. c \in tcpConns
    BY <1>1 DEF ConnInv, Released
  <2> QED  BY <2>1, <2>2, CloseInternalLemma DEF WriterStep
<1>2. CASE state[c] \in {"tcpConnecting", "tcpConnected"}
  <2>1. /\ pipeDone' = [pipeDone EXCEPT ![c] = TRUE]
        /\ state' = [state EXCEPT ![c] = "tcpReceiveClosed"]
        /\ Broadcast(c)
        /\ SetPcb(c, p)
        /\ UNCHANGED <<tcpConns, connKeyArg, stalePcb>>
    BY <1>2 DEF LocalClosed
  <2>2. c \in tcpConns
    BY <1>2 DEF ConnInv, Released
  <2>3. PartType'
    BY <2>1, WriterType DEF PartType, Shape, SetPcb, States, WriterStep
  <2>4. /\ state'[c] = "tcpReceiveClosed" /\ pcb'[c] = p
        /\ \A d \in Conns : d # c => /\ state'[d] = state[d] /\ pcb'[d] = pcb[d]
                                     /\ pipeDone'[d] = pipeDone[d]
    BY <2>1 DEF PartType, SetPcb
  <2>5. Others(c) /\ StateStep(c)
    BY <1>2, <2>1, <2>4 DEF Others, StateStep, Released
  <2>6. ConnInv'
    <3>1. /\ pcb'[c].cbs = pcb[c].cbs
          /\ Live(pcb'[c]) <=> Live(pcb[c])
          /\ pcb'[c].tcp = "NONE" <=> pcb[c].tcp = "NONE"
      BY <2>4 DEF Shape
    <3>2. connKeyArg[c] = "live" /\ pcb[c].tcp # "NONE"
          /\ Live(pcb[c]) => pcb[c].cbs
      BY <1>2, <2>2 DEF ConnInv
    <3>3. connKeyArg' = connKeyArg /\ tcpConns' = tcpConns
      BY <2>1
    <3> QED  BY <2>2, <2>4, <3>1, <3>2, <3>3, SMTT(30) DEF ConnInv, Released
  <2> QED  BY <2>3, <2>5, <2>6 DEF Kept
<1>3. CASE state[c] \notin {"tcpWriteClosed", "tcpConnecting", "tcpConnected"}
  <2>1. checkState(c, p)
    BY <1>3 DEF LocalClosed
  <2> QED  BY <2>1, CheckStateLemma
<1> QED  BY <1>1, <1>2, <1>3

\* A pcb that lwIP frees without a callback leaves its connection right.
LEMMA SilentFreeLemma ==
    ASSUME PartType, ConnInv, NEW c \in Conns, Live(pcb[c]), SetPcb(c, FreedPcb),
           UNCHANGED <<connVars, writer, stalePcb>>
    PROVE  Kept(c)
<1>1. pcb'[c] = FreedPcb
  BY DEF SetPcb, PartType
<1>2. PartType'
  BY PcbFacts DEF PartType, SetPcb, connVars
<1>3. Others(c) /\ StateStep(c)
  BY DEF Others, StateStep, PartType, SetPcb, connVars
<1>4. ConnInv'
  BY <1>1, <1>3, PcbFacts, SMTT(30) DEF ConnInv, Others, connVars, Live
<1> QED  BY <1>2, <1>3, <1>4 DEF Kept

\* A pcb freed with the err callback takes its connection out of the map.
LEMMA FreeWithErrLemma ==
    ASSUME PartType, ConnInv, NEW c \in Conns, Live(pcb[c]), NEW p, FreeWithErr(c, p)
    PROVE  Kept(c)
<1>1. pcb'[c] = FreedPcb /\ SetPcb(c, FreedPcb) /\ UNCHANGED stalePcb
  BY DEF FreeWithErr, SetPcb, PartType
<1>2. CASE p.cbs /\ Active(p) /\ c \in tcpConns
  <2>1. release(c, "tcpErrored") /\ Broadcast(c)
    BY <1>2 DEF FreeWithErr, tcpErrFn
  <2> QED
    BY <1>1, <1>2, <2>1, ReleaseLemma, PcbFacts DEF Released, WriterStep, PartType
<1>3. CASE ~(p.cbs /\ Active(p) /\ c \in tcpConns)
  <2>1. UNCHANGED <<connVars, writer>>
    BY <1>3 DEF FreeWithErr, tcpErrFn
  <2> QED  BY <1>1, <2>1, SilentFreeLemma
<1> QED  BY <1>2, <1>3

\* The sent and poll callbacks keep the connection right.
LEMMA SentLemma ==
    ASSUME PartType, ConnInv, NEW c \in Conns, Live(pcb[c]), NEW p, Shape(c, p),
           tcpSentFn(c, p)
    PROVE  Kept(c)
<1>1. CASE ~p.cbs
  BY <1>1, KeepLemma DEF tcpSentFn, WriterStep
<1>2. CASE p.cbs /\ c \in tcpConns
  BY <1>2, CheckStateLemma DEF tcpSentFn
<1>3. CASE p.cbs /\ c \notin tcpConns
  BY <1>3, FreeWithErrLemma DEF tcpSentFn
<1> QED  BY <1>1, <1>2, <1>3

\* The receive callback without data keeps the connection right.
LEMMA EofLemma ==
    ASSUME PartType, ConnInv, NEW c \in Conns, Live(pcb[c]), NEW p, Shape(c, p),
           tcpRecvFnEof(c, p)
    PROVE  Kept(c)
<1>1. CASE ~p.cbs
  BY <1>1, KeepLemma DEF tcpRecvFnEof, WriterStep
<1>2. CASE p.cbs /\ c \in tcpConns
  BY <1>2, LocalClosedLemma DEF tcpRecvFnEof
<1>3. CASE p.cbs /\ c \notin tcpConns
  BY <1>3, FreeWithErrLemma DEF tcpRecvFnEof
<1> QED  BY <1>1, <1>2, <1>3

\* What tcp_input does after a segment was taken keeps the connection right.
LEMMA DeliveredLemma ==
    ASSUME PartType, ConnInv, NEW c \in Conns, Live(pcb[c]), NEW p, Shape(c, p),
           NEW fin, Delivered(c, p, fin)
    PROVE  Kept(c)
<1>1. CASE fin
  BY <1>1, EofLemma DEF Delivered
<1>2. CASE ~fin
  BY <1>2, KeepLemma DEF Delivered, WriterStep
<1> QED  BY <1>1, <1>2

\* Refusing a segment, and dropping refused data, stay within the shape of the
\* pcb.
LEMMA ShapeFacts ==
    ASSUME PartType, NEW c \in Conns, Live(pcb[c]), NEW p, Shape(c, p),
           NEW n \in 0 .. MaxSegs, NEW fin \in BOOLEAN
    PROVE  /\ Shape(c, [p EXCEPT !.refused = n, !.fin = fin])
           /\ Shape(c, tcp_shutdown_rx(p))
<1> DEFINE R == 0 .. MaxSegs
           U == 0 .. SndBuf
<1>1. n \in R /\ PcbType = [tcp : TcpStates, cbs : BOOLEAN, rxClosed : BOOLEAN,
                            refused : R, fin : BOOLEAN, unacked : U]
  BY DEF PcbType
<1> HIDE DEF R, U
<1>2. Shape(c, [p EXCEPT !.refused = n, !.fin = fin])
  BY <1>1, Zenon DEF Shape, Live
<1>3. Shape(c, tcp_shutdown_rx(p))
  BY CloseFacts DEF Shape, Live
<1> QED  BY <1>2, <1>3

\* tcpRecvFn leaves lwipMutex alone or keeps it for a connection that is open.
LEMMA RecvLemma ==
    ASSUME PartType, ConnInv, NEW c \in Conns, Live(pcb[c]), NEW p, Shape(c, p),
           NEW n \in 0 .. MaxSegs, NEW fin \in BOOLEAN, tcpRecvFn(c, p, n, fin)
    PROVE  /\ Kept(c)
           /\ \/ lwipMutex' = lwipMutex
              \/ /\ lwipMutex' = [conn |-> c, seg |-> n, fin |-> fin]
                 /\ c \in tcpConns' /\ Live(pcb'[c])
<1> DEFINE blocks == /\ c \in tcpConns
                     /\ state[c] \in {"tcpConnected", "tcpWriteClosed"}
                     /\ ~pipeDone[c]
<1>1. CASE c \notin tcpConns
  <2>1. FreeWithErr(c, p) /\ UNCHANGED lwipMutex
    BY <1>1 DEF tcpRecvFn
  <2> QED  BY <2>1, FreeWithErrLemma
<1>2. CASE c \in tcpConns /\ state[c] = "tcpConnecting"
  <2>1. /\ SetPcb(c, [p EXCEPT !.refused = n, !.fin = fin])
        /\ UNCHANGED <<connVars, writer, stalePcb, lwipMutex>>
    BY <1>2 DEF tcpRecvFn
  <2> QED  BY <2>1, ShapeFacts, KeepLemma, Zenon DEF WriterStep
<1>3. CASE blocks
  <2>1. /\ lwipMutex' = [conn |-> c, seg |-> n, fin |-> fin]
        /\ SetPcb(c, [p EXCEPT !.refused = 0, !.fin = FALSE])
        /\ UNCHANGED <<connVars, writer, stalePcb>>
    BY <1>3 DEF tcpRecvFn
  <2>2. 0 \in 0 .. MaxSegs
    BY BoundsAssumption, SMTT(30)
  <2>3. Shape(c, [p EXCEPT !.refused = 0, !.fin = FALSE])
    BY <2>2, ShapeFacts, Zenon
  <2>4. c \in tcpConns' /\ Live(pcb'[c])
    BY <1>3, <2>1, <2>3, SMTT(30) DEF SetPcb, PartType, connVars, Shape
  <2> QED  BY <2>1, <2>3, <2>4, KeepLemma DEF WriterStep
<1>4. CASE c \in tcpConns /\ ~blocks /\ state[c] # "tcpConnecting"
  <2>1. state[c] # "tcpErrored"
    BY <1>4 DEF ConnInv, Released
  <2>2. Delivered(c, tcp_shutdown_rx(p), fin) /\ UNCHANGED lwipMutex
    BY <1>4, <2>1 DEF tcpRecvFn
  <2> QED  BY <2>2, ShapeFacts, DeliveredLemma, Zenon
<1> QED  BY <1>1, <1>2, <1>3, <1>4

----------------------------------------------------------------------------
(* The steps. *)

\* The type of the other variables.
RestType ==
    /\ lwipMutex \in [conn : Conns \union {NoConn}, seg : 0 .. MaxSegs, fin : BOOLEAN]
    /\ pc \in [Conns -> [Actors -> Pcs]]
    /\ reader \in [Conns -> {"none", "check", "read", "forward", "done"}]
    /\ left \in [Conns -> 0 .. WriteLen]
    /\ writes \in [Conns -> 0 .. MaxWrites]
    /\ segs \in [Conns -> 0 .. MaxSegs]
    /\ got \in [Conns -> Seq(1 .. MaxSegs)]

\* The type invariant is that of the connections and that of the rest.
LEMMA TypeParts == TypeOK <=> PartType /\ RestType
BY Zenon DEF TypeOK, PartType, RestType

\* What a step may do to the state of the connections.
StateSteps == \A d \in Conns : StateStep(d)

\* What a step of c must keep, with what the lemmas on the parts say.
LEMMA Combine ==
    ASSUME IInv, NEW c \in Conns, Kept(c), RestType', MutexInv', AcceptInv',
           \A d \in Conns : d # c => pc'[d] = pc[d],
           \A a \in Actors : pc'[c][a] # "idle" => state'[c] # "none"
    PROVE  IInv' /\ StateSteps
<1>1. TypeOK'
  BY TypeParts, PTL DEF Kept
<1>2. PcInv'
  <2> SUFFICES ASSUME NEW d \in Conns, NEW a \in Actors, pc'[d][a] # "idle"
               PROVE  state'[d] # "none"
    BY DEF PcInv
  <2> QED  BY DEF IInv, PcInv, Kept, Others
<1>3. StateSteps
  BY DEF StateSteps, Kept, Others, StateStep
<1> QED  BY <1>1, <1>2, <1>3 DEF IInv, Kept

\* A step of c that leaves the program counters alone.
LEMMA CombineSamePc ==
    ASSUME IInv, NEW c \in Conns, Kept(c), RestType', MutexInv', AcceptInv', UNCHANGED pc
    PROVE  IInv' /\ StateSteps
<1>1. \A a \in Actors : pc'[c][a] # "idle" => state'[c] # "none"
  BY DEF IInv, PcInv, Kept, StateStep
<1> QED  BY <1>1, Combine

\* lwipMutex after a step that takes and releases it.
LEMMA MutexSame ==
    ASSUME lwipUnlocked, UNCHANGED lwipMutex
    PROVE  MutexInv'
BY DEF lwipUnlocked, MutexInv, Free

\* A mutex that a connection holds is not free.
LEMMA HeldBy ==
    ASSUME NEW c \in Conns, lwipMutex.conn = c
    PROVE  lwipMutex # Free
BY ConnsAssumption, SMTT(30) DEF Free

\* While lwipMutex is free no newTCPConn is under way.
LEMMA NoAccept ==
    ASSUME IInv, lwipUnlocked
    PROVE  \A c \in Conns : pc[c]["connector"] # "accept"
<1>1. AcceptInv
  BY DEF IInv
<1> QED  BY <1>1, HeldBy DEF AcceptInv, lwipUnlocked

\* A step that moves no program counter while lwipMutex is free keeps
\* AcceptInv.
LEMMA AcceptSame ==
    ASSUME IInv, lwipUnlocked, UNCHANGED pc
    PROVE  AcceptInv'
BY NoAccept DEF AcceptInv

\* Goto moves one program counter of one connection.
LEMMA GotoLemma ==
    ASSUME RestType, NEW c \in Conns, NEW a \in Actors, NEW l \in Pcs, Goto(c, a, l)
    PROVE  /\ pc' \in [Conns -> [Actors -> Pcs]]
           /\ pc'[c][a] = l
           /\ \A b \in Actors : b # a => pc'[c][b] = pc[c][b]
           /\ \A d \in Conns : d # c => pc'[d] = pc[d]
BY DEF RestType, Goto

\* A step that touches neither the connections nor their pcbs.
LEMMA Quiet ==
    ASSUME IInv, UNCHANGED <<connVars, pcb>>, PartType', RestType', MutexInv', PcInv', AcceptInv'
    PROVE  IInv' /\ StateSteps
<1>1. TypeOK'
  BY TypeParts, PTL
<1>2. ConnInv' /\ StateSteps
  BY DEF IInv, ConnInv, connVars, StateSteps, StateStep
<1> QED  BY <1>1, <1>2 DEF IInv

\* A step that only sets the state of c, or only closes the pipe.
LEMMA SetStateLemma ==
    ASSUME PartType, ConnInv, NEW c \in Conns, c \in tcpConns,
           NEW s \in States \ (Released \union {"none"}),
           state[c] \in {"tcpClosing", "tcpAborting"} /\ pc[c]["connector"] # "accept" =>
               s \in {state[c], "tcpAborting"},
           state' = [state EXCEPT ![c] = s],
           UNCHANGED <<tcpConns, connKeyArg, pipeDone, pcb, writer, stalePcb>>
    PROVE  Kept(c)
<1>1. /\ state' \in [Conns -> States] /\ state'[c] = s
      /\ \A d \in Conns : d # c => state'[d] = state[d]
      /\ state[c] \notin Released \union {"none"}
      /\ pcb[c].tcp # "NONE"
  BY DEF PartType, ConnInv
<1>2. PartType'
  BY <1>1 DEF PartType
<1>3. Others(c) /\ StateStep(c)
  BY <1>1 DEF Others, StateStep
<1>4. ConnInv'
  BY <1>1 DEF ConnInv, Live
<1> QED  BY <1>2, <1>3, <1>4 DEF Kept

\* Closing the pipe keeps the connection right.
LEMMA SetPipeLemma ==
    ASSUME PartType, ConnInv, NEW c \in Conns, pipeDone' = [pipeDone EXCEPT ![c] = TRUE],
           UNCHANGED <<state, tcpConns, connKeyArg, pcb, writer, stalePcb>>
    PROVE  Kept(c)
<1>1. /\ pipeDone' \in [Conns -> BOOLEAN] /\ pipeDone'[c]
      /\ \A d \in Conns : d # c => pipeDone'[d] = pipeDone[d]
  BY DEF PartType
<1>2. PartType'
  BY <1>1 DEF PartType
<1>3. Others(c) /\ StateStep(c)
  BY <1>1 DEF Others, StateStep
<1>4. ConnInv'
  BY <1>1 DEF ConnInv, Live
<1> QED  BY <1>2, <1>3, <1>4 DEF Kept

\* A step that leaves the connections, their pcbs, the callback and the program
\* counters alone.
LEMMA RelayLemma ==
    ASSUME IInv, UNCHANGED <<connVars, pcb, lwipMutex, pc, stalePcb>>,
           writer' \in [Conns -> {"none", "recv", "check", "push", "unlocked",
                                  "waiting", "done"}],
           reader' \in [Conns -> {"none", "check", "read", "forward", "done"}],
           left' \in [Conns -> 0 .. WriteLen], writes' \in [Conns -> 0 .. MaxWrites],
           segs' = segs, got' = got
    PROVE  IInv' /\ StateSteps
<1>1. PartType /\ RestType
  BY TypeParts DEF IInv
<1>2. PartType' /\ RestType'
  BY <1>1 DEF PartType, RestType, connVars
<1>3. MutexInv' /\ PcInv' /\ AcceptInv'
  BY DEF IInv, MutexInv, PcInv, AcceptInv, connVars
<1> QED  BY <1>2, <1>3, Quiet

\* A step in which lwIP runs a part of a handler for c, under lwipMutex.
LEMMA LwipLemma ==
    ASSUME IInv, NEW c \in Conns, lwipUnlocked, Kept(c), UNCHANGED <<pc, reader>>,
           \/ lwipMutex' = lwipMutex
           \/ \E n \in 0 .. MaxSegs, fin \in BOOLEAN :
                 /\ lwipMutex' = [conn |-> c, seg |-> n, fin |-> fin]
                 /\ c \in tcpConns' /\ Live(pcb'[c]),
           segs' \in [Conns -> 0 .. MaxSegs], UNCHANGED <<left, writes, got>>
    PROVE  IInv' /\ StateSteps
<1>1. RestType
  BY TypeParts DEF IInv
<1>2. RestType'
  <2>1. lwipMutex' \in [conn : Conns \union {NoConn}, seg : 0 .. MaxSegs, fin : BOOLEAN]
    BY <1>1, SMTT(30) DEF RestType
  <2> QED  BY <1>1, <2>1, Zenon DEF RestType
<1>3. MutexInv'
  BY MutexSame, SMTT(30) DEF MutexInv
<1> QED  BY <1>2, <1>3, AcceptSame, CombineSamePc

\* newTCPConn up to tcpConns.Store: a fresh connection enters the map with its
\* key and its callbacks.
LEMMA AcceptLemma ==
    ASSUME IInv, NEW c \in Conns, Accept(c)
    PROVE  IInv' /\ StateSteps
<1>1. PartType /\ RestType /\ ConnInv
  BY TypeParts DEF IInv
<1>2. /\ pcb' = [pcb EXCEPT ![c] = NewPcb]
      /\ connKeyArg' = [connKeyArg EXCEPT ![c] = "live"]
      /\ tcpConns' = tcpConns \union {c}
      /\ state' = [state EXCEPT ![c] = "tcpNewConn"]
      /\ lwipMutex' = [conn |-> c, seg |-> 0, fin |-> FALSE]
      /\ Goto(c, "connector", "accept")
      /\ UNCHANGED <<pipeDone, reader, writer, dataVars, stalePcb>>
      /\ lwipUnlocked /\ pcb[c] = NoPcb
  BY SMTT(30) DEF Accept, SetPcb
<1>3. /\ pc' \in [Conns -> [Actors -> Pcs]]
      /\ \A d \in Conns : d # c => pc'[d] = pc[d]
  BY <1>1, <1>2, GotoLemma DEF Actors, Pcs
<1>4. /\ pcb'[c] = NewPcb /\ state'[c] = "tcpNewConn" /\ connKeyArg'[c] = "live"
      /\ c \in tcpConns' /\ state[c] = "none"
  BY <1>1, <1>2, PcbFacts DEF PartType, ConnInv
<1>5. PartType'
  BY <1>1, <1>2, PcbFacts, SMTT(30) DEF PartType, States
<1>6. Others(c) /\ StateStep(c)
  BY <1>1, <1>2, <1>4 DEF Others, StateStep, PartType, Released
<1>7. ConnInv'
  BY <1>1, <1>4, <1>6, PcbFacts, SMTT(30) DEF ConnInv, Others, Live, Released
<1>8. 0 \in 0 .. MaxSegs
  BY BoundsAssumption, SMTT(30)
<1>9. RestType' /\ MutexInv'
  BY <1>1, <1>2, <1>3, <1>4, <1>8, PcbFacts, SMTT(30) DEF RestType, MutexInv, dataVars
<1>10. AcceptInv'
  BY <1>2, <1>3, NoAccept, SMTT(30) DEF AcceptInv
<1> QED
  BY <1>3, <1>4, <1>5, <1>6, <1>7, <1>9, <1>10, Combine DEF Kept

\* newTCPConn's end: tcpConnecting is set on a connection that is still in the
\* map.
LEMMA AcceptReturnLemma ==
    ASSUME IInv, NEW c \in Conns, AcceptReturn(c)
    PROVE  IInv' /\ StateSteps
<1>1. PartType /\ RestType /\ ConnInv
  BY TypeParts DEF IInv
<1>2. c \in tcpConns
  <2>1. AcceptInv /\ MutexInv
    BY SMTT(30) DEF IInv
  <2>2. lwipMutex.conn = c
    BY <2>1 DEF AcceptInv, AcceptReturn
  <2>3. lwipMutex # Free
    BY <2>2, HeldBy, SMTT(30)
  <2> QED  BY <2>1, <2>2, <2>3 DEF MutexInv
<1>3. /\ state' = [state EXCEPT ![c] = "tcpConnecting"]
      /\ UNCHANGED <<tcpConns, connKeyArg, pipeDone, pcb, writer, stalePcb>>
      /\ lwipMutex' = Free /\ Goto(c, "connector", "dial") /\ UNCHANGED <<reader, dataVars>>
      /\ pc[c]["connector"] = "accept"
  BY DEF AcceptReturn
<1>4. Kept(c)
  BY <1>1, <1>2, <1>3, SetStateLemma, Zenon DEF States, Released
<1>5. 0 \in 0 .. MaxSegs
  BY BoundsAssumption, SMTT(30)
<1>6. /\ RestType' /\ MutexInv' /\ \A d \in Conns : d # c => pc'[d] = pc[d]
      /\ pc'[c]["connector"] = "dial"
  <2>1. "connector" \in Actors /\ "dial" \in Pcs
    BY DEF Actors, Pcs
  <2>2. /\ pc' \in [Conns -> [Actors -> Pcs]] /\ pc'[c]["connector"] = "dial"
        /\ \A d \in Conns : d # c => pc'[d] = pc[d]
    BY <1>1, <1>3, <2>1, GotoLemma
  <2>3. RestType'
    BY <1>1, <1>3, <1>5, <2>2, SMTT(120) DEF RestType, Free, dataVars
  <2>4. MutexInv'
    BY <1>3, SMTT(120) DEF MutexInv, Free
  <2> QED  BY <2>2, <2>3, <2>4
<1>8. AcceptInv'
  BY <1>3, <1>6 DEF IInv, AcceptInv
<1>7. state'[c] # "none"
  BY <1>1, <1>3, SMTT(30) DEF PartType
<1> QED  BY <1>4, <1>6, <1>7, <1>8, Combine, SMTT(30)

\* A FIN changes a pcb within its shape.
LEMMA GotFinShape ==
    ASSUME PartType, NEW c \in Conns, CanReceive(pcb[c]), NEW p \in GotFin(pcb[c])
    PROVE  Live(pcb[c]) /\ Shape(c, p)
<1>1. 0 \in 0 .. SndBuf
  BY BoundsAssumption, SMTT(30)
<1> DEFINE R == 0 .. MaxSegs
           U == 0 .. SndBuf
<1>2. 0 \in U /\ PcbType = [tcp : TcpStates, cbs : BOOLEAN, rxClosed : BOOLEAN,
                            refused : R, fin : BOOLEAN, unacked : U]
  BY <1>1 DEF PcbType
<1> HIDE DEF R, U
<1>3. pcb[c] \in PcbType
  BY DEF PartType
<1>4. Live(pcb[c])
  BY DEF CanReceive, Live
<1>5. CASE pcb[c].tcp = "FIN_WAIT"
  <2>1. CASE p = [pcb[c] EXCEPT !.tcp = "CLOSING"]
    <3>1. p \in PcbType /\ p.cbs = pcb[c].cbs /\ p.tcp = "CLOSING"
      BY <1>2, <1>3, <2>1 DEF TcpStates
    <3> QED  BY <1>4, <3>1 DEF Shape, Live
  <2>2. CASE p = [pcb[c] EXCEPT !.tcp = "TIME_WAIT", !.unacked = 0]
    <3>1. p \in PcbType /\ p.cbs = pcb[c].cbs /\ p.tcp = "TIME_WAIT"
      BY <1>2, <1>3, <2>2, Zenon DEF TcpStates
    <3> QED  BY <1>4, <3>1 DEF Shape, Live
  <2> QED  BY <1>4, <1>5, <2>1, <2>2 DEF GotFin
<1>6. CASE pcb[c].tcp # "FIN_WAIT"
  <2>1. p = [pcb[c] EXCEPT !.tcp = "CLOSE_WAIT"]
    BY <1>6 DEF GotFin
  <2>2. p \in PcbType /\ p.cbs = pcb[c].cbs /\ p.tcp = "CLOSE_WAIT"
    BY <1>2, <1>3, <2>1 DEF TcpStates
  <2> QED  BY <1>4, <2>2 DEF Shape, Live
<1> QED  BY <1>5, <1>6

\* The pcb as it is has its own shape.
LEMMA SelfShape ==
    ASSUME PartType, NEW c \in Conns
    PROVE  Shape(c, pcb[c])
BY DEF PartType, Shape

\* A data segment, refused data before it included, keeps the invariant.
LEMMA InputDataLemma ==
    ASSUME IInv, NEW c \in Conns, NEW fin \in BOOLEAN, InputData(c, fin)
    PROVE  IInv' /\ StateSteps
<1>1. PartType /\ RestType /\ ConnInv
  BY TypeParts DEF IInv
<1>2. /\ lwipUnlocked /\ CanReceive(pcb[c]) /\ segs[c] < MaxSegs
      /\ segs' = [segs EXCEPT ![c] = @ + 1]
      /\ UNCHANGED <<pc, reader, left, writes, got>>
  BY DEF InputData
<1>3. segs[c] + 1 \in 0 .. MaxSegs /\ segs' \in [Conns -> 0 .. MaxSegs]
  BY <1>1, <1>2, BoundsAssumption, SMTT(30) DEF RestType
<1>4. PICK p \in IF fin THEN GotFin(pcb[c]) ELSE {pcb[c]} :
          IF p.rxClosed
          THEN FreeWithErr(c, p) /\ UNCHANGED lwipMutex
          ELSE tcpRecvFn(c, p, segs[c] + 1, fin)
  BY SMTT(30) DEF InputData
<1>5. Live(pcb[c]) /\ Shape(c, p)
  BY <1>1, <1>2, GotFinShape, SelfShape, SMTT(30) DEF CanReceive, Live
<1>6. CASE p.rxClosed
  BY <1>1, <1>2, <1>3, <1>4, <1>5, <1>6, FreeWithErrLemma, LwipLemma, SMTT(30)
<1>7. CASE ~p.rxClosed
  <2>1. tcpRecvFn(c, p, segs[c] + 1, fin)
    BY <1>4, <1>7, SMTT(30)
  <2>2. /\ Kept(c)
        /\ \/ lwipMutex' = lwipMutex
           \/ /\ lwipMutex' = [conn |-> c, seg |-> segs[c] + 1, fin |-> fin]
              /\ c \in tcpConns' /\ Live(pcb'[c])
    BY <1>1, <1>3, <1>5, <2>1, RecvLemma
  <2> QED  BY <1>2, <1>3, <2>2, LwipLemma
<1> QED  BY <1>6, <1>7

\* Offering refused data again keeps the connection right; if its Receive
\* blocks, the pcb stays live.
LEMMA RefusedLemma ==
    ASSUME PartType, ConnInv, NEW c \in Conns, Live(pcb[c]), tcp_process_refused_data(c)
    PROVE  /\ Kept(c)
           /\ \/ lwipMutex' = lwipMutex
              \/ \E n \in 0 .. MaxSegs, fin \in BOOLEAN :
                    /\ lwipMutex' = [conn |-> c, seg |-> n, fin |-> fin]
                    /\ c \in tcpConns' /\ Live(pcb'[c])
<1>1. 0 \in 0 .. MaxSegs
  BY BoundsAssumption, SMTT(30)
<1>2. pcb[c].refused \in 0 .. MaxSegs /\ pcb[c].fin \in BOOLEAN
  BY SMTT(30) DEF PartType, PcbType
<1>3. Shape(c, [pcb[c] EXCEPT !.refused = 0, !.fin = FALSE])
  BY <1>1, SelfShape, ShapeFacts, Zenon
<1> QED  BY <1>2, <1>3, RecvLemma DEF tcp_process_refused_data

\* Segments without data keep the invariant.
LEMMA SegmentLemma ==
    ASSUME IInv, NEW c \in Conns, InputFin(c) \/ InputRst(c) \/ InputAck(c) \/ InputFinAck(c)
    PROVE  IInv' /\ StateSteps
<1>1. PartType /\ RestType /\ ConnInv
  BY TypeParts DEF IInv
<1>2. segs' \in [Conns -> 0 .. MaxSegs] /\ lwipUnlocked /\ UNCHANGED <<lwipMutex, pc, reader, left, writes, got>>
  BY <1>1 DEF RestType, InputFin, InputRst, InputAck, InputFinAck, dataVars
<1>3. SUFFICES Kept(c)
  BY <1>2, LwipLemma, SMTT(30)
<1>4. CASE InputFin(c)
  <2>1. PICK p \in GotFin(pcb[c]) : tcpRecvFnEof(c, p)
    BY <1>4, SMTT(30) DEF InputFin
  <2> QED  BY <1>1, <1>4, <2>1, GotFinShape, EofLemma, SMTT(120) DEF InputFin
<1>5. CASE InputRst(c)
  BY <1>1, <1>5, FreeWithErrLemma DEF InputRst, Active
<1>6. CASE InputAck(c)
  <2>1. PICK n \in 1 .. pcb[c].unacked : tcpSentFn(c, [pcb[c] EXCEPT !.unacked = @ - n])
    BY <1>6 DEF InputAck
  <2>2. pcb[c] \in PcbType /\ pcb[c].unacked - n \in 0 .. SndBuf
    BY <1>1, BoundsAssumption, SMTT(30) DEF PartType, PcbType
  <2>3. Shape(c, [pcb[c] EXCEPT !.unacked = @ - n])
    BY <2>2 DEF Shape, PcbType, Live
  <2> QED  BY <1>1, <1>6, <2>1, <2>3, SentLemma DEF InputAck, Active
<1>7. CASE InputFinAck(c)
  <2>1. Live(pcb[c])
    BY <1>7 DEF InputFinAck, Live
  <2>2. CASE pcb[c].tcp = "CLOSING"
    <3>1. /\ SetPcb(c, [pcb[c] EXCEPT !.tcp = "TIME_WAIT"])
          /\ UNCHANGED <<connVars, writer, stalePcb>>
      BY <1>7, <2>2 DEF InputFinAck
    <3>2. Shape(c, [pcb[c] EXCEPT !.tcp = "TIME_WAIT"])
      BY <1>1, <2>1 DEF PartType, Shape, PcbType, Live, TcpStates
    <3> QED  BY <1>1, <3>1, <3>2, KeepLemma DEF WriterStep
  <2>3. CASE pcb[c].tcp # "CLOSING" /\ pcb[c].rxClosed
    <3>1. SetPcb(c, FreedPcb) /\ UNCHANGED <<connVars, writer, stalePcb>>
      BY <1>7, <2>3 DEF InputFinAck
    <3> QED  BY <1>1, <2>1, <3>1, SilentFreeLemma
  <2>4. CASE pcb[c].tcp # "CLOSING" /\ ~pcb[c].rxClosed
    BY <1>1, <1>7, <2>1, <2>4, FreeWithErrLemma DEF InputFinAck
  <2> QED  BY <2>2, <2>3, <2>4
<1> QED  BY <1>4, <1>5, <1>6, <1>7

\* lwIP's timers keep the invariant.
LEMMA TimersLemma ==
    ASSUME IInv, NEW c \in Conns, Timers(c)
    PROVE  IInv' /\ StateSteps
<1>1. PartType /\ RestType /\ ConnInv
  BY TypeParts DEF IInv
<1>2. segs' \in [Conns -> 0 .. MaxSegs] /\ lwipUnlocked /\ UNCHANGED <<pc, reader, left, writes, got>>
  BY <1>1, SMTT(30) DEF RestType, Timers, TimerPoll, TimerRefused, TimerRemove, TimerTimeWait, dataVars
<1>3. CASE TimerPoll(c)
  BY <1>1, <1>2, <1>3, SelfShape, SentLemma, LwipLemma, Zenon DEF TimerPoll, Active
<1>4. CASE TimerRefused(c)
  BY <1>1, <1>2, <1>4, RefusedLemma, LwipLemma, SMTT(30) DEF TimerRefused
<1>5. CASE TimerRemove(c)
  BY <1>1, <1>2, <1>5, FreeWithErrLemma, LwipLemma, SMTT(30) DEF TimerRemove, MayTimeOut, Active
<1>6. CASE TimerTimeWait(c)
  BY <1>1, <1>2, <1>6, SilentFreeLemma, LwipLemma DEF TimerTimeWait, Live
<1> QED  BY <1>3, <1>4, <1>5, <1>6, SMTT(30) DEF Timers

\* The return of a blocked Receive keeps the invariant.
LEMMA ReceiveReturnLemma ==
    ASSUME IInv, NEW c \in Conns, ReceiveReturn(c)
    PROVE  IInv' /\ StateSteps
<1>1. PartType /\ RestType /\ ConnInv /\ MutexInv
  BY TypeParts, SMTT(30) DEF IInv
<1>2. Live(pcb[c])
  BY <1>1, ConnsAssumption, SMTT(30) DEF ReceiveReturn, MutexInv, Free
<1>3. 0 \in 0 .. MaxSegs
  BY BoundsAssumption, SMTT(30)
<1>4. Kept(c)
  BY <1>1, <1>2, <1>3, SelfShape, ShapeFacts, DeliveredLemma, ZenonT(30) DEF ReceiveReturn
<1>5. RestType' /\ MutexInv' /\ UNCHANGED pc
  BY <1>1, <1>3, SMTT(30) DEF ReceiveReturn, RestType, MutexInv, Free, dataVars
<1>6. AcceptInv'
  BY <1>5, SMTT(30) DEF IInv, AcceptInv, ReceiveReturn
<1> QED  BY <1>4, <1>5, <1>6, CombineSamePc

----------------------------------------------------------------------------
(* The goroutines. *)

\* A step that changes one program counter of an accepted connection.
LEMMA GotoCombine ==
    ASSUME IInv, NEW c \in Conns, NEW a \in Actors, NEW l \in Pcs \ {"accept"},
           Goto(c, a, l), state[c] # "none", Kept(c), MutexInv',
           UNCHANGED <<lwipMutex, reader, dataVars>>
    PROVE  IInv' /\ StateSteps
<1>1. RestType
  BY TypeParts, SMTT(30) DEF IInv
<1>2. RestType' /\ \A d \in Conns : d # c => pc'[d] = pc[d]
  BY <1>1, GotoLemma, SMTT(30) DEF RestType, dataVars
<1>3. state'[c] # "none"
  BY ZenonT(30) DEF Kept, StateStep
<1>4. AcceptInv'
  <2> SUFFICES ASSUME NEW d \in Conns, pc'[d]["connector"] = "accept"
               PROVE  lwipMutex.conn = d
    BY DEF AcceptInv
  <2>1. pc[d]["connector"] = "accept"
    BY <1>1, GotoLemma DEF Actors
  <2> QED  BY <2>1, Zenon DEF IInv, AcceptInv
<1> QED  BY <1>2, <1>3, <1>4, Combine, Zenon

\* A callback that blocks outlives the steps that leave the map and the pcbs alone.
LEMMA MutexKept ==
    ASSUME IInv, UNCHANGED <<tcpConns, pcb, lwipMutex>>
    PROVE  MutexInv'
BY DEF IInv, MutexInv

\* conn.pcb as the Go goroutines use it.
LEMMA UsePcbLemma ==
    ASSUME PartType, ConnInv, NEW c \in Conns, NEW p, UsePcb(c, p),
           Live(pcb[c]) => Shape(c, p), UNCHANGED connVars,
           writer' \in [Conns -> {"none", "recv", "check", "push", "unlocked",
                                  "waiting", "done"}]
    PROVE  Kept(c)
<1> DEFINE q == IF Live(pcb[c]) THEN p ELSE pcb[c]
<1>1. Shape(c, q) /\ SetPcb(c, q)
  BY SelfShape DEF UsePcb
<1>2. pcb'[c] = q /\ \A d \in Conns : d # c => pcb'[d] = pcb[d]
  BY <1>1 DEF SetPcb, PartType
<1> HIDE DEF q
<1>3. PartType'
  <2>1. pcb' \in [Conns -> PcbType]
    BY <1>1 DEF PartType, Shape, SetPcb
  <2>2. stalePcb' \subseteq Conns
    BY SMTT(30) DEF PartType, UsePcb
  <2> QED  BY <2>1, <2>2 DEF PartType, connVars
<1>4. Others(c) /\ StateStep(c)
  BY <1>2, SMTT(30) DEF Others, StateStep, connVars
<1>5. /\ pcb'[c].cbs = pcb[c].cbs
      /\ Live(pcb'[c]) <=> Live(pcb[c])
      /\ pcb'[c].tcp = "NONE" <=> pcb[c].tcp = "NONE"
  BY <1>1, <1>2, SMTT(30) DEF Shape
<1>6. \A d \in Conns : /\ pcb'[d].cbs = pcb[d].cbs
                       /\ Live(pcb'[d]) <=> Live(pcb[d])
                       /\ pcb'[d].tcp = "NONE" <=> pcb[d].tcp = "NONE"
  BY <1>2, <1>5, SMTT(30)
<1>7. ConnInv'
  BY <1>6, SMTT(30) DEF ConnInv, connVars
<1> QED  BY <1>3, <1>4, <1>7 DEF Kept

\* A step that leaves the connection alone keeps it right.
LEMMA UnchangedLemma ==
    ASSUME PartType, ConnInv, NEW c \in Conns, UNCHANGED <<connVars, pcb, writer, stalePcb>>
    PROVE  Kept(c)
BY DEF PartType, ConnInv, Kept, Others, StateStep, connVars

\* The goroutine of newTCPConn keeps the invariant.
LEMMA ConnectorLemma ==
    ASSUME IInv, NEW c \in Conns,
           DialOk(c) \/ DialFail(c) \/ Settle(c) \/ ProcessRefused(c)
    PROVE  IInv' /\ StateSteps
<1>1. PartType /\ RestType /\ ConnInv
  BY TypeParts DEF IInv
<1>2. "connector" \in Actors /\ "relay" \in Actors
  BY DEF Actors
<1>3. state[c] # "none"
  BY <1>2 DEF IInv, PcInv, DialOk, DialFail, Settle, ProcessRefused
<1>4. CASE DialOk(c)
  <2>1. pc' = [pc EXCEPT ![c] = [pc[c] EXCEPT !["connector"] = "settle", !["relay"] = "copy"]]
    BY <1>1, <1>4, Zenon DEF DialOk, RestType
  <2>2. /\ pc' \in [Conns -> [Actors -> Pcs]]
        /\ \A d \in Conns : d # c => pc'[d] = pc[d]
    BY <1>1, <2>1, Zenon DEF RestType, Pcs
  <2>3. PartType' /\ RestType'
    BY <1>1, <1>4, <2>2, Zenon DEF DialOk, PartType, RestType, connVars, dataVars
  <2>4. PcInv'
    BY <1>3, <1>4, <2>2 DEF IInv, PcInv, DialOk, connVars
  <2>5. AcceptInv'
    <3>1. pc'[c]["connector"] = "settle" /\ lwipMutex' = lwipMutex
      BY <1>1, <1>2, <1>4, <2>1, SMTT(30) DEF RestType, DialOk
    <3> QED  BY <2>2, <3>1 DEF IInv, AcceptInv
  <2> QED  BY <1>4, <2>3, <2>4, <2>5, MutexKept, Quiet, SMTT(30) DEF DialOk, connVars
<1>5. CASE DialFail(c)
  <2>1. Kept(c) /\ MutexInv'
    BY <1>1, <1>5, UnchangedLemma, MutexKept DEF DialFail, connVars
  <2> QED  BY <1>2, <1>3, <1>5, <2>1, GotoCombine, Zenon DEF DialFail, Pcs
<1>6. CASE Settle(c)
  <2>1. MutexInv'
    BY <1>6, MutexKept DEF Settle
  <2>2. CASE state[c] = "tcpConnecting"
    <3>1. c \in tcpConns
      BY <1>1, <2>2, SMTT(30) DEF ConnInv, Released
    <3>2. /\ state' = [state EXCEPT ![c] = "tcpConnected"] /\ Goto(c, "connector", "refused")
          /\ UNCHANGED <<tcpConns, connKeyArg, pipeDone, pcb, lwipMutex, reader, writer,
                         dataVars, stalePcb>>
      BY <1>6, <2>2, SMTT(30) DEF Settle
    <3>3. Kept(c)
      BY <1>1, <2>2, <3>1, <3>2, SetStateLemma, Zenon DEF States, Released
    <3> QED  BY <1>2, <1>3, <2>1, <3>2, <3>3, GotoCombine, SMTT(30) DEF Pcs
  <2>3. CASE state[c] # "tcpConnecting"
    <3>1. Goto(c, "connector", "done") /\ Kept(c)
      BY <1>1, <1>6, <2>3, UnchangedLemma DEF Settle, connVars
    <3> QED  BY <1>2, <1>3, <1>6, <2>1, <3>1, GotoCombine DEF Settle, Pcs
  <2> QED  BY <2>2, <2>3, SMTT(30)
<1>7. CASE ProcessRefused(c)
  <2>1. Goto(c, "connector", "done") /\ lwipUnlocked /\ UNCHANGED <<reader, dataVars>>
    BY <1>7, SMTT(30) DEF ProcessRefused
  <2>2. CASE Live(pcb[c]) /\ pcb[c].refused # 0
    <3>1. /\ Kept(c)
          /\ \/ lwipMutex' = lwipMutex
             \/ \E n \in 0 .. MaxSegs, fin \in BOOLEAN :
                   /\ lwipMutex' = [conn |-> c, seg |-> n, fin |-> fin]
                   /\ c \in tcpConns' /\ Live(pcb'[c])
      BY <1>1, <1>7, <2>2, RefusedLemma, Zenon DEF ProcessRefused
    <3>2. MutexInv'
      BY <2>1, <3>1, MutexSame, SMTT(30) DEF MutexInv
    <3>3. /\ RestType' /\ \A d \in Conns : d # c => pc'[d] = pc[d]
          /\ pc'[c]["connector"] = "done"
      <4>1. /\ pc' \in [Conns -> [Actors -> Pcs]]
            /\ \A d \in Conns : d # c => pc'[d] = pc[d]
            /\ pc'[c]["connector"] = "done"
        BY <1>1, <1>2, <2>1, GotoLemma, SMTT(30) DEF Pcs
      <4>2. lwipMutex' \in [conn : Conns \union {NoConn}, seg : 0 .. MaxSegs, fin : BOOLEAN]
        BY <1>1, <3>1, SMTT(30) DEF RestType
      <4> QED  BY <1>1, <2>1, <4>1, <4>2, SMTT(30) DEF RestType, dataVars
    <3>4. state'[c] # "none"
      BY <1>3, <3>1, ZenonT(60), SMTT(120) DEF Kept, StateStep
    <3>5. AcceptInv'
      BY <2>1, <3>3, NoAccept, SMTT(30) DEF AcceptInv
    <3> QED  BY <3>1, <3>2, <3>3, <3>4, <3>5, Combine, SMTT(30)
  <2>3. CASE ~(Live(pcb[c]) /\ pcb[c].refused # 0)
    <3>1. UsePcb(c, pcb[c]) /\ UNCHANGED <<connVars, writer, lwipMutex>>
      BY <1>7, <2>3, Zenon DEF ProcessRefused
    <3>2. Kept(c)
      BY <1>1, <3>1, SelfShape, UsePcbLemma DEF PartType
    <3> QED  BY <1>2, <1>3, <2>1, <3>1, <3>2, MutexSame, GotoCombine, SMTT(30) DEF Pcs
  <2> QED  BY <2>2, <2>3, SMTT(30)
<1> QED  BY <1>4, <1>5, <1>6, <1>7

\* The steps of Close, and the second half of Abort, keep the invariant.
LEMMA CloseLemma ==
    ASSUME IInv, NEW c \in Conns, NEW a \in Actors,
           \/ CloseRead(c, a) \/ CloseWrite(c, a)
           \/ CloseWriteShutdown(c, a) \/ AbortCheckState(c, a)
    PROVE  IInv' /\ StateSteps
<1>1. PartType /\ RestType /\ ConnInv
  BY TypeParts, SMTT(30) DEF IInv
<1>2. state[c] # "none"
  BY DEF IInv, PcInv, CloseRead, CloseWrite, CloseWriteShutdown, AbortCheckState
<1>3. AfterClose(a) \in Pcs \ {"accept"}
  BY SMTT(30) DEF AfterClose, Pcs
<1>4. CASE CloseRead(c, a)
  <2>1. Kept(c) /\ MutexInv'
    BY <1>1, <1>4, SetPipeLemma, MutexKept, ZenonT(30) DEF CloseRead
  <2> QED  BY <1>2, <1>4, <2>1, GotoCombine, SMTT(30) DEF CloseRead, Pcs
<1>5. CASE CloseWrite(c, a)
  <2>1. MutexInv' /\ UNCHANGED <<lwipMutex, reader, dataVars>>
    BY <1>5, MutexKept DEF CloseWrite
  <2>2. CASE state[c] \in AtLeastClosing \union {"tcpWriteClosed"}
    <3>1. Goto(c, a, AfterClose(a)) /\ Kept(c)
      BY <1>1, <1>5, <2>2, UnchangedLemma DEF CloseWrite, connVars
    <3> QED  BY <1>2, <1>3, <2>1, <3>1, GotoCombine
  <2>3. CASE state[c] \notin AtLeastClosing \union {"tcpWriteClosed"}
    <3> DEFINE s == IF state[c] = "tcpReceiveClosed" THEN "tcpClosing" ELSE "tcpWriteClosed"
    <3>1. state' = [state EXCEPT ![c] = s] /\ Goto(c, a, "shutdown")
      BY <1>5, <2>3 DEF CloseWrite
    <3>2. s \in States \ (Released \union {"none"})
      BY SMTT(30) DEF States, Released
    <3> HIDE DEF s
    <3>3. c \in tcpConns
      BY <1>1, <1>2, <2>3, ZenonT(30) DEF ConnInv, Released, AtLeastClosing
    <3>4. Kept(c)
      BY <1>1, <1>5, <2>3, <3>1, <3>2, <3>3, SetStateLemma, ZenonT(30) DEF CloseWrite, AtLeastClosing
    <3> QED  BY <1>2, <2>1, <3>1, <3>4, GotoCombine, SMTT(30) DEF Pcs
  <2> QED  BY <2>2, <2>3
<1>6. CASE CloseWriteShutdown(c, a)
  <2>1. Live(pcb[c]) => Shape(c, tcp_shutdown_tx(pcb[c]))
    BY <1>1, CloseFacts, SMTT(30) DEF PartType, Shape, Live
  <2>2. Kept(c) /\ MutexInv'
    BY <1>1, <1>6, <2>1, UsePcbLemma, MutexSame, ZenonT(30) DEF CloseWriteShutdown, PartType
  <2> QED  BY <1>2, <1>3, <1>6, <2>2, GotoCombine, SMTT(30) DEF CloseWriteShutdown
<1>7. CASE AbortCheckState(c, a)
  <2>1. Kept(c) /\ MutexInv'
    BY <1>1, <1>7, SelfShape, CheckStateLemma, MutexSame DEF AbortCheckState
  <2> QED  BY <1>2, <1>7, <2>1, GotoCombine, SMTT(30) DEF AbortCheckState, Pcs
<1> QED  BY <1>4, <1>5, <1>6, <1>7

\* The first half of Abort, by the connector or by the stack, keeps the
\* invariant.
LEMMA AbortLemma ==
    ASSUME IInv, NEW c \in Conns, AbortAfterClose(c) \/ AbortByStack(c)
    PROVE  IInv' /\ StateSteps
<1>1. PartType /\ RestType /\ ConnInv
  BY TypeParts DEF IInv
<1>2. PICK a \in Actors : Abort(c, a)
  BY DEF AbortAfterClose, AbortByStack, Actors
<1>3. state[c] # "none"
  <2>1. CASE AbortAfterClose(c)
    BY <2>1, SMTT(30) DEF IInv, PcInv, AbortAfterClose, Actors
  <2>2. CASE AbortByStack(c)
    BY <1>1, <2>2 DEF AbortByStack, ConnInv
  <2> QED  BY <2>1, <2>2
<1>4. Kept(c)
  <2>1. CASE state[c] \in {"tcpAborting"} \union Released
    <3>1. state' = state
      BY <1>1, <1>2, <2>1 DEF Abort, PartType
    <3> QED  BY <1>1, <1>2, <3>1, UnchangedLemma DEF Abort, connVars
  <2>2. CASE state[c] \notin {"tcpAborting"} \union Released
    <3>1. state' = [state EXCEPT ![c] = "tcpAborting"]
      BY <1>2, <2>2 DEF Abort
    <3>2. c \in tcpConns
      BY <1>1, <1>3, <2>2 DEF ConnInv
    <3> QED  BY <1>1, <1>2, <3>1, <3>2, SetStateLemma, Zenon DEF Abort, States, Released
  <2> QED  BY <2>1, <2>2
<1> QED  BY <1>2, <1>3, <1>4, MutexKept, GotoCombine DEF Abort, Pcs

\* The copy loop towards the proxy keeps the invariant.
LEMMA ReaderLemma ==
    ASSUME IInv, NEW c \in Conns,
           \/ ReadCheck(c) \/ ReadEof(c) \/ ReadData(c)
           \/ \E ok \in BOOLEAN : Forward(c, ok)
    PROVE  IInv' /\ StateSteps
<1>1. PartType /\ RestType /\ ConnInv
  BY TypeParts, SMTT(30) DEF IInv
<1>2. CASE ReadCheck(c) \/ ReadEof(c) \/ \E ok \in BOOLEAN : Forward(c, ok)
  <2>1. /\ UNCHANGED <<connVars, pcb, lwipMutex, pc, writer, dataVars, stalePcb>>
        /\ reader' \in [Conns -> {"none", "check", "read", "forward", "done"}]
    BY <1>1, <1>2, Zenon DEF ReadCheck, ReadEof, Forward, RestType
  <2> QED  BY <1>1, <2>1, RelayLemma, SMTT(30) DEF PartType, RestType, dataVars
<1>3. CASE ReadData(c)
  <2>1. lwipMutex.seg \in 1 .. MaxSegs /\ 0 \in 0 .. MaxSegs
    BY <1>1, <1>3, BoundsAssumption, SMTT(30) DEF ReadData, RestType
  <2>2. got' \in [Conns -> Seq(1 .. MaxSegs)]
    <3> DEFINE S == 1 .. MaxSegs
    <3>1. lwipMutex.seg \in S /\ got \in [Conns -> Seq(S)]
      BY <1>1, <2>1 DEF RestType
    <3>2. got' = [got EXCEPT ![c] = Append(@, lwipMutex.seg)]
      BY <1>3 DEF ReadData
    <3> HIDE DEF S
    <3>3. got' \in [Conns -> Seq(S)]
      BY <3>1, <3>2, SMTT(30)
    <3> QED  BY <3>3 DEF S
  <2>3. /\ lwipMutex' \in [conn : Conns \union {NoConn}, seg : 0 .. MaxSegs, fin : BOOLEAN]
        /\ lwipMutex'.conn = lwipMutex.conn
    <3> DEFINE R == 0 .. MaxSegs
    <3>1. /\ lwipMutex \in [conn : Conns \union {NoConn}, seg : R, fin : BOOLEAN] /\ 0 \in R
          /\ lwipMutex' = [lwipMutex EXCEPT !.seg = 0]
      BY <1>1, <1>3, <2>1 DEF RestType, ReadData
    <3> HIDE DEF R
    <3>2. /\ lwipMutex' \in [conn : Conns \union {NoConn}, seg : R, fin : BOOLEAN]
          /\ lwipMutex'.conn = lwipMutex.conn
      BY <3>1
    <3> QED  BY <3>2 DEF R
  <2>4. PartType' /\ RestType' /\ UNCHANGED <<connVars, pcb>>
    BY <1>1, <1>3, <2>2, <2>3, SMTT(30) DEF ReadData, PartType, RestType, connVars
  <2>5. MutexInv'
    BY <1>3, <2>3, <2>4, ConnsAssumption, SMTT(30) DEF IInv, MutexInv, ReadData, Free, connVars
  <2>6. PcInv'
    BY <1>3 DEF IInv, PcInv, ReadData, connVars
  <2>7. AcceptInv'
    BY <1>3, <2>3, SMTT(30) DEF IInv, AcceptInv, ReadData
  <2> QED  BY <2>4, <2>5, <2>6, <2>7, Quiet
<1> QED  BY <1>2, <1>3

\* Write pushes no more than the send buffer and the data left allow.
LEMMA ToWriteFacts ==
    ASSUME PartType, RestType, NEW c \in Conns, NEW n \in {0, toWrite(c)}
    PROVE  /\ pcb[c].unacked + n \in 0 .. SndBuf
           /\ left[c] - n \in 0 .. WriteLen
<1>1. pcb[c].unacked \in 0 .. SndBuf /\ left[c] \in 0 .. WriteLen
  BY DEF PartType, RestType, PcbType
<1> QED  BY <1>1, BoundsAssumption, SMTT(30) DEF toWrite

\* The copy loop from the proxy keeps the invariant.
LEMMA WriterLemma ==
    ASSUME IInv, NEW c \in Conns,
           \/ ProxyData(c) \/ ProxyEof(c) \/ WriteCheck(c) \/ WritePush(c)
           \/ WriteError(c) \/ WriteWait(c)
    PROVE  IInv' /\ StateSteps
<1>1. PartType /\ RestType /\ ConnInv
  BY TypeParts DEF IInv
<1>2. writer' \in [Conns -> {"none", "recv", "check", "push", "unlocked", "waiting", "done"}]
  BY <1>1, SMTT(30) DEF PartType, ProxyData, ProxyEof, WriteCheck, WritePush, WriteError, WriteWait
<1>3. CASE ProxyData(c)
  <2>1. left' \in [Conns -> 0 .. WriteLen] /\ writes' \in [Conns -> 0 .. MaxWrites]
    <3>1. WriteLen \in 0 .. WriteLen /\ writes[c] + 1 \in 0 .. MaxWrites
      <4>1. writes[c] \in 0 .. MaxWrites /\ writes[c] < MaxWrites
        BY <1>1, <1>3, SMTT(30) DEF ProxyData, RestType
      <4> QED  BY <4>1, BoundsAssumption, SMTT(30)
    <3> QED  BY <1>1, <1>3, <3>1 DEF ProxyData, RestType
  <2> QED  BY <1>1, <1>2, <1>3, <2>1, RelayLemma, SMTT(30) DEF ProxyData, RestType
<1>4. CASE ProxyEof(c) \/ WriteCheck(c) \/ WriteWait(c)
  <2>1. UNCHANGED <<connVars, pcb, lwipMutex, pc, reader, dataVars, stalePcb>>
    BY <1>4 DEF ProxyEof, WriteCheck, WriteWait
  <2> QED  BY <1>1, <1>2, <2>1, RelayLemma, SMTT(30) DEF RestType, dataVars
<1>5. CASE WritePush(c)
  <2>1. PICK n \in {0, toWrite(c)} :
           /\ UsePcb(c, [pcb[c] EXCEPT !.unacked = @ + n])
           /\ left' = [left EXCEPT ![c] = @ - n]
    BY <1>5, Zenon DEF WritePush
  <2>2. pcb[c].unacked + n \in 0 .. SndBuf /\ left[c] - n \in 0 .. WriteLen
    BY <1>1, ToWriteFacts, Zenon
  <2>3. Shape(c, [pcb[c] EXCEPT !.unacked = @ + n])
    <3> DEFINE R == 0 .. MaxSegs
               U == 0 .. SndBuf
               m == pcb[c].unacked + n
    <3>1. m \in U /\ pcb[c] \in [tcp : TcpStates, cbs : BOOLEAN, rxClosed : BOOLEAN,
                                 refused : R, fin : BOOLEAN, unacked : U]
      BY <1>1, <2>2 DEF PartType, PcbType
    <3> HIDE DEF R, U, m
    <3>2. LET q == [pcb[c] EXCEPT !.unacked = m] IN
          /\ q \in [tcp : TcpStates, cbs : BOOLEAN, rxClosed : BOOLEAN,
                    refused : R, fin : BOOLEAN, unacked : U]
          /\ q.cbs = pcb[c].cbs /\ q.tcp = pcb[c].tcp
      BY <3>1
    <3> QED  BY <3>2 DEF Shape, Live, PcbType, R, U, m
  <2>4. Kept(c)
    BY <1>1, <1>2, <1>5, <2>1, <2>3, UsePcbLemma DEF WritePush
  <2>5. RestType'
    BY <1>1, <1>5, <2>1, <2>2, SMTT(30) DEF WritePush, RestType
  <2> QED  BY <1>5, <2>4, <2>5, MutexSame, AcceptSame, CombineSamePc DEF WritePush
<1>6. CASE WriteError(c)
  <2>1. Kept(c)
    BY <1>1, <1>2, <1>6, SelfShape, UsePcbLemma, SMTT(30) DEF WriteError
  <2>2. RestType'
    BY <1>1, <1>6, SMTT(30) DEF WriteError, RestType, dataVars
  <2> QED  BY <1>6, <2>1, <2>2, MutexSame, AcceptSame, CombineSamePc DEF WriteError
<1> QED  BY <1>3, <1>4, <1>5, <1>6

\* The end of the relay keeps the invariant.
LEMMA RelayEndsLemma ==
    ASSUME IInv, NEW c \in Conns, RelayEnds(c)
    PROVE  IInv' /\ StateSteps
<1>1. PartType /\ ConnInv /\ state[c] # "none"
  BY TypeParts, SMTT(120) DEF IInv, PcInv, RelayEnds, Actors
<1>2. Kept(c) /\ MutexInv'
  BY <1>1, UnchangedLemma, MutexKept, Zenon DEF RelayEnds, connVars
<1> QED  BY <1>1, <1>2, GotoCombine, Zenon DEF RelayEnds, Actors, Pcs

----------------------------------------------------------------------------
(* The theorems. *)

\* The invariant holds before any connection.
LEMMA InitLemma == Init => IInv
<1> SUFFICES ASSUME Init PROVE IInv
  OBVIOUS
<1>1. 0 \in 0 .. MaxSegs /\ 0 \in 0 .. WriteLen /\ 0 \in 0 .. MaxWrites
  BY BoundsAssumption, SMTT(30)
<1>2. PartType
  BY PcbFacts, SMTT(30) DEF Init, PartType, States
<1>3. RestType
  BY <1>1, SMTT(30) DEF Init, RestType, Free, Pcs
<1>4. ConnInv /\ PcInv /\ MutexInv /\ AcceptInv
  BY PcbFacts DEF Init, ConnInv, PcInv, MutexInv, AcceptInv, Actors
<1> QED  BY <1>2, <1>3, <1>4, TypeParts DEF IInv

\* One step: the invariant, and what the step may do to a connection's state.
LEMMA NextLemma == IInv /\ [Next]_vars => IInv' /\ StateSteps
<1> SUFFICES ASSUME IInv, [Next]_vars PROVE IInv' /\ StateSteps
  OBVIOUS
<1>1. CASE UNCHANGED vars
  <2>1. PartType /\ RestType
    BY TypeParts, SMTT(30) DEF IInv
  <2>2. PartType' /\ RestType'
    BY <1>1, <2>1, SMTT(30) DEF vars, connVars, dataVars, PartType, RestType
  <2>3. MutexInv' /\ PcInv' /\ AcceptInv'
    BY <1>1, Zenon DEF IInv, MutexInv, PcInv, AcceptInv, vars, connVars
  <2> QED  BY <1>1, <2>2, <2>3, Quiet DEF vars
<1>2. ASSUME NEW c \in Conns, Client(c) PROVE IInv' /\ StateSteps
  BY <1>2, AcceptLemma, InputDataLemma, SegmentLemma DEF Client
<1>3. ASSUME NEW c \in Conns, Proxy(c) PROVE IInv' /\ StateSteps
  BY <1>3, ConnectorLemma, ReaderLemma, WriterLemma, SMTT(30) DEF Proxy
<1>4. ASSUME NEW c \in Conns, Goroutines(c) PROVE IInv' /\ StateSteps
  BY <1>4, AcceptReturnLemma, ReceiveReturnLemma, ConnectorLemma, CloseLemma, AbortLemma, ReaderLemma,
     WriterLemma, RelayEndsLemma DEF Goroutines
<1> QED
  BY <1>1, <1>2, <1>3, <1>4, TimersLemma, AbortLemma DEF Next, OpenNext

\* The inductive invariant: the connection's state, the map tcpConns, the key
\* memory and the pcb agree in every reachable state.
THEOREM Invariance == Spec => []IInv
BY InitLemma, NextLemma, PTL DEF Spec

\* The type invariant of TcpConn, for all bounds.
THEOREM TypeCorrect == Spec => []TypeOK
<1>1. IInv => TypeOK
  BY SMTT(30) DEF IInv
<1> QED  BY <1>1, Invariance, PTL

\* Every callback lwIP can make finds an open connection with a valid key.
THEOREM CallbackSafe == Spec => []CallbackFindsOpenConn
<1>1. IInv => CallbackFindsOpenConn
  BY SMTT(30) DEF IInv, ConnInv, CallbackFindsOpenConn
<1> QED  BY <1>1, Invariance, PTL

\* release() gives the map entry, the key memory and the pipe back together.
THEOREM ReleaseComplete == Spec => []ReleasedCompletely
<1>1. IInv => ReleasedCompletely
  BY SMTT(30) DEF IInv, ConnInv, ReleasedCompletely
<1> QED  BY <1>1, Invariance, PTL

\* The pcb of a blocked Receive is not freed.
THEOREM BlockedReceiveSafe == Spec => []BlockedReceiveKeepsPcb
<1>1. IInv => BlockedReceiveKeepsPcb
  <2> SUFFICES ASSUME IInv, NEW c \in Conns, lwipMutex.conn = c
               PROVE  Live(pcb[c]) /\ pcb[c].cbs /\ c \in tcpConns
    BY DEF BlockedReceiveKeepsPcb
  <2>1. MutexInv /\ ConnInv
    BY DEF IInv
  <2>2. Live(pcb[c]) /\ c \in tcpConns
    BY <2>1, HeldBy DEF MutexInv
  <2> QED  BY <2>1, <2>2, SMTT(30) DEF ConnInv
<1> QED  BY <1>1, Invariance, PTL

\* No step takes a connection out of tcpClosed or tcpErrored.
THEOREM ReleaseFinal == Spec => ReleasedIsFinal
<1>1. StateSteps => \A c \in Conns : state[c] \in Released => state'[c] = state[c]
  BY DEF StateSteps, StateStep
<1> QED  BY <1>1, Invariance, NextLemma, PTL DEF Spec, ReleasedIsFinal

\* A connection that is being closed or aborted only goes on to its release, once
\* newTCPConn has returned.
THEOREM ClosingGoesOn == Spec => ClosingProceeds
<1>1. StateSteps => \A c \in Conns :
          state[c] \in {"tcpClosing", "tcpAborting"} /\ pc[c]["connector"] # "accept" =>
              state'[c] \in {state[c], "tcpAborting"} \union Released
  BY DEF StateSteps, StateStep
<1> QED  BY <1>1, Invariance, NextLemma, PTL DEF Spec, ClosingProceeds

\* While a Receive holds lwipMutex no step touches the pcb of another connection:
\* a step that changes a pcb takes lwipMutex, or is the return of that Receive.
THEOREM SingleThread == Spec => LwipSingleThread
<1> DEFINE Others_untouched ==
       \A d \in Conns : lwipMutex.conn \notin {NoConn, d} => pcb'[d] = pcb[d]
<1>1. IInv /\ [Next]_vars => Others_untouched
  <2> SUFFICES ASSUME IInv, [Next]_vars, NEW d \in Conns,
                      lwipMutex.conn \notin {NoConn, d}
               PROVE  pcb'[d] = pcb[d]
    OBVIOUS
  <2>1. ~lwipUnlocked
    BY SMTT(30) DEF lwipUnlocked, Free
  <2>2. ASSUME NEW c \in Conns, Client(c) \/ Timers(c) PROVE FALSE
    BY <2>1, <2>2, SMTT(30) DEF Client, Accept, InputData, InputFin, InputRst, InputAck,
       InputFinAck, Timers, TimerPoll, TimerRefused, TimerRemove, TimerTimeWait
  <2>3. ASSUME NEW c \in Conns, Proxy(c) PROVE pcb' = pcb
    BY <2>3, SMTT(30) DEF Proxy, DialOk, DialFail, Forward, ProxyData, ProxyEof
  <2>4. ASSUME NEW c \in Conns, ReceiveReturn(c) PROVE pcb'[d] = pcb[d]
    <3>1. PartType /\ ConnInv /\ c # d
      BY <2>4, TypeParts, SMTT(30) DEF IInv, ReceiveReturn
    <3>2. lwipMutex.conn = c
      BY <2>4 DEF ReceiveReturn
    <3>3. lwipMutex # Free
      BY <3>2, HeldBy
    <3>4. Live(pcb[c])
      BY <3>2, <3>3 DEF IInv, MutexInv
    <3>5. 0 \in 0 .. MaxSegs
      BY BoundsAssumption, SMTT(30)
    <3>6. Kept(c)
      BY <2>4, <3>1, <3>4, <3>5, SelfShape, ShapeFacts, DeliveredLemma, ZenonT(30) DEF ReceiveReturn
    <3> QED  BY <3>1, <3>6, SMTT(30) DEF Kept, Others
  <2>5. ASSUME NEW c \in Conns, Goroutines(c), ~ReceiveReturn(c) PROVE pcb' = pcb
    BY <2>1, <2>5 DEF Goroutines, AcceptReturn, Settle, ProcessRefused, CloseRead, CloseWrite,
       CloseWriteShutdown, AbortCheckState, AbortAfterClose, Abort, ReadCheck, ReadData,
       ReadEof, WriteCheck, WritePush, WriteError, WriteWait, RelayEnds
  <2>6. ASSUME NEW c \in Conns, AbortByStack(c) PROVE pcb' = pcb
    BY <2>6, SMTT(30) DEF AbortByStack, Abort
  <2>7. CASE UNCHANGED vars
    BY <2>7, SMTT(30) DEF vars
  <2> QED
    BY <2>2, <2>3, <2>4, <2>5, <2>6, <2>7, SMTT(30) DEF Next, OpenNext
<1> HIDE DEF Others_untouched
<1>2. Others_untouched =>
          \A d \in Conns : lwipMutex.conn \notin {NoConn, d} => pcb'[d] = pcb[d]
  BY DEF Others_untouched
<1> QED  BY <1>1, <1>2, Invariance, PTL DEF Spec, LwipSingleThread
=============================================================================
