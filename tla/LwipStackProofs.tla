-------------------------- MODULE LwipStackProofs --------------------------
(***************************************************************************)
(* Proofs about LwipStack, for any set of connections and any bounds: the  *)
(* stack with its Write, ticker and Close takes only steps of TcpConn, so  *)
(* that everything proved of the connections holds in it, and Close leaves *)
(* none of the connections it found accepted.                              *)
(***************************************************************************)
EXTENDS LwipStack, TcpConnProofs

\* What Range of LWIPStack.Close has done to the connections so far.  An
\* accepted connection it has called Abort on can only go on to its release.
RangeInv ==
    /\ \A c \in Conns : pc[c]["stack"] \in {"idle", "checkState", "done"}
    /\ closer \in {"idle", "range", "listener", "done"}
    /\ closer = "idle" => accepted = {} /\ \A c \in Conns : pc[c]["stack"] = "idle"
    /\ accepted \subseteq existing /\ existing \subseteq Conns
    /\ \A c \in accepted :
          /\ state[c] # "none" /\ pc[c]["connector"] # "accept"
          /\ pc[c]["stack"] = "checkState" => state[c] \in {"tcpAborting"} \union Released
          /\ pc[c]["stack"] = "done" => state[c] \in Released
          /\ closer \in {"listener", "done"} => state[c] \in Released

StackInv == IInv /\ RangeInv

\* Goto changes one program counter.
LEMMA GotoOne ==
    ASSUME RestType, NEW c \in Conns, NEW a \in Actors, NEW l, Goto(c, a, l)
    PROVE  \A d \in Conns, b \in Actors :
              pc'[d][b] = IF d = c /\ b = a THEN l ELSE pc[d][b]
  BY SMTT(30) DEF RestType, Goto

\* How a step moves the connector and the goroutine in LWIPStack.Close, which
\* calls Abort only on the connections of A.
PcStep(A) ==
    \A c \in Conns :
        /\ state[c] # "none" /\ pc[c]["connector"] # "accept" => pc'[c]["connector"] # "accept"
        /\ \/ pc'[c]["stack"] = pc[c]["stack"]
           \/ c \in A /\ AbortByStack(c) /\ pc'[c]["stack"] = "checkState"
           \/ AbortCheckState(c, "stack") /\ pc'[c]["stack"] = "done"

\* A step of the connections moves the place of the stack only at the ones it aborts.
LEMMA PcSteps ==
    ASSUME IInv, \A c \in Conns : pc[c]["stack"] \in {"idle", "checkState", "done"}
    PROVE  /\ [OpenNext]_vars => PcStep({})
           /\ \A c \in Conns : AbortByStack(c) => PcStep({c})
  <1>1. RestType /\ ConnInv
    BY TypeParts DEF IInv
  <1>2. "connector" \in Actors /\ "stack" \in Actors /\ "relay" \in Actors
    BY DEF Actors
  <1>3. ASSUME pc' = pc PROVE PcStep({})
    BY <1>3 DEF PcStep
  <1>4. ASSUME NEW c \in Conns, NEW l, Goto(c, "relay", l) PROVE PcStep({})
    BY <1>1, <1>2, <1>4, GotoOne DEF PcStep
  <1>5. ASSUME NEW c \in Conns, NEW l, l # "accept", Goto(c, "connector", l) PROVE PcStep({})
    BY <1>1, <1>2, <1>5, GotoOne DEF PcStep
  <1>6. ASSUME NEW c \in Conns, Client(c) PROVE PcStep({})
    <2>1. CASE Accept(c)
      <3>1. state[c] = "none"
        BY <1>1, <2>1, PcbFacts DEF ConnInv, Accept
      <3> QED BY <1>1, <1>2, <2>1, <3>1, GotoOne DEF PcStep, Accept
    <2>2. CASE ~Accept(c)
      BY <1>3, <1>6, <2>2 DEF Client, InputData, InputFin, InputRst, InputAck, InputFinAck
    <2> QED BY <2>1, <2>2
  <1>7. ASSUME NEW c \in Conns, Timers(c) PROVE PcStep({})
    BY <1>3, <1>7 DEF Timers, TimerPoll, TimerRefused, TimerRemove, TimerTimeWait
  <1>8. ASSUME NEW c \in Conns, Proxy(c) PROVE PcStep({})
    <2>1. CASE DialOk(c)
      <3>1. \A d \in Conns : pc'[d]["stack"] = pc[d]["stack"]
        BY <1>1, <1>2, <2>1, SMTT(30) DEF DialOk, RestType
      <3>2. \A d \in Conns : pc'[d]["connector"] \in {pc[d]["connector"], "settle"}
        BY <1>1, <1>2, <2>1 DEF DialOk, RestType
      <3> QED BY <3>1, <3>2 DEF PcStep
    <2>2. CASE DialFail(c)
      BY <1>5, <2>2 DEF DialFail
    <2> QED BY <1>3, <1>8, <2>1, <2>2 DEF Proxy, Forward, ProxyData, ProxyEof
  <1>9. ASSUME NEW c \in Conns, NEW a \in Actors,
               CloseRead(c, a) \/ CloseWrite(c, a) \/ CloseWriteShutdown(c, a) \/ AbortCheckState(c, a)
        PROVE  PcStep({})
    <2>1. PICK l \in {"closeWrite", "shutdown", "abort", "done"} : Goto(c, a, l)
      BY <1>9 DEF CloseRead, CloseWrite, CloseWriteShutdown, AbortCheckState, AfterClose
    <2>2. CASE a = "stack"
      <3>1. AbortCheckState(c, "stack")
        BY <1>9, <2>2 DEF CloseRead, CloseWrite, CloseWriteShutdown
      <3>2. Goto(c, "stack", "done")
        BY <3>1 DEF AbortCheckState
      <3> QED BY <1>1, <1>2, <3>1, <3>2, GotoOne DEF PcStep
    <2>3. CASE a # "stack"
      BY <1>4, <1>5, <2>1, <2>3 DEF Actors
    <2> QED BY <2>2, <2>3
  <1>10. ASSUME NEW c \in Conns, AbortByStack(c) PROVE PcStep({c})
    <2>1. Goto(c, "stack", "checkState")
      BY <1>10, SMTT(30) DEF AbortByStack, Abort
    <2> QED BY <1>1, <1>2, <1>10, <2>1, GotoOne DEF PcStep
  <1>11. ASSUME NEW c \in Conns, Goroutines(c) PROVE PcStep({})
    <2>1. CASE AcceptReturn(c)
      BY <1>5, <2>1 DEF AcceptReturn
    <2>2. CASE Settle(c)
      BY <1>5, <2>2 DEF Settle
    <2>3. CASE ProcessRefused(c)
      BY <1>5, <2>3 DEF ProcessRefused
    <2>4. CASE AbortAfterClose(c)
      BY <1>5, <2>4 DEF AbortAfterClose, Abort
    <2>5. CASE RelayEnds(c)
      BY <1>4, <2>5 DEF RelayEnds
    <2> QED BY <1>3, <1>9, <1>11, <2>1, <2>2, <2>3, <2>4, <2>5, SMTT(30)
            DEF Goroutines, ReceiveReturn, ReadCheck, ReadData, ReadEof, WriteCheck, WritePush,
                WriteError, WriteWait
  <1>12. ASSUME UNCHANGED vars PROVE PcStep({})
    BY <1>3, <1>12 DEF vars
  <1> QED BY <1>6, <1>7, <1>8, <1>10, <1>11, <1>12 DEF OpenNext

\* The rest of Abort leaves nothing of an aborting or released connection.
LEMMA CheckStateReleases ==
    ASSUME IInv, NEW c \in Conns, state[c] \in {"tcpAborting"} \union Released,
           AbortCheckState(c, "stack")
    PROVE  state'[c] \in Released
  <1>1. CASE state[c] = "tcpAborting"
    BY <1>1, TypeParts DEF AbortCheckState, checkState, abortInternal, release, Released, IInv, PartType
  <1>2. CASE state[c] \in Released
    BY <1>2 DEF AbortCheckState, checkState, Released, connVars
  <1> QED BY <1>1, <1>2

----------------------------------------------------------------------------

\* A step of the stack is a step of the connections, or leaves them alone.
LEMMA StackStep == [StackNext]_allVars => [Next]_vars
  <1> SUFFICES ASSUME StackNext PROVE [Next]_vars
    BY DEF allVars
  <1>1. CASE WriteStart \/ WriteOther \/ TickerStops \/ CloseStart \/ RangeEnd \/ CloseListener
    BY <1>1 DEF WriteStart, WriteOther, TickerStops, CloseStart, RangeEnd, CloseListener
  <1>2. CASE \E c \in Conns : WriteInput(c) \/ Tick(c) \/ RangeAbort(c) \/ ConnStep(c)
    BY <1>2 DEF WriteInput, Tick, RangeAbort, ConnStep, Next, OpenNext
  <1> QED BY <1>1, <1>2 DEF StackNext

\* What a step of the connections does to those Range has dealt with.
LEMMA RangeKept ==
    ASSUME StackInv, [Next]_vars, UNCHANGED <<closer, existing, accepted>>,
           NEW A, PcStep(A), A = {} \/ closer = "range"
    PROVE  RangeInv'
  <1>1. IInv /\ RangeInv /\ StateSteps
    BY NextLemma DEF StackInv
  <1>2. PcStep(A)
    OBVIOUS
  <1>3. \A c \in Conns : AbortByStack(c) => state'[c] \in {"tcpAborting"} \union Released
    BY <1>1, TypeParts DEF AbortByStack, Abort, IInv, PartType
  <1>4. \A c \in Conns : AbortCheckState(c, "stack") => pc[c]["stack"] = "checkState"
    BY DEF AbortCheckState
  <1>5. \A c \in Conns : pc'[c]["stack"] \in {"idle", "checkState", "done"}
    BY <1>1, <1>2 DEF PcStep, RangeInv
  <1>6. closer' = "idle" => accepted' = {} /\ \A c \in Conns : pc'[c]["stack"] = "idle"
    BY <1>1, <1>2, <1>4, SMTT(30) DEF PcStep, RangeInv
  <1>7. ASSUME NEW c \in accepted
        PROVE  /\ state'[c] # "none" /\ pc'[c]["connector"] # "accept"
               /\ pc'[c]["stack"] = "checkState" => state'[c] \in {"tcpAborting"} \union Released
               /\ pc'[c]["stack"] = "done" => state'[c] \in Released
               /\ closer \in {"listener", "done"} => state'[c] \in Released
    <2>1. /\ c \in Conns /\ state[c] # "none" /\ pc[c]["connector"] # "accept"
          /\ pc[c]["stack"] = "checkState" => state[c] \in {"tcpAborting"} \union Released
          /\ pc[c]["stack"] = "done" => state[c] \in Released
          /\ closer \in {"listener", "done"} => state[c] \in Released
      BY <1>1 DEF RangeInv
    <2>2. state'[c] # "none" /\ pc'[c]["connector"] # "accept"
      BY <1>1, <1>2, <2>1 DEF StateSteps, StateStep, PcStep
    <2>3. /\ state[c] \in Released => state'[c] \in Released
          /\ state[c] \in {"tcpAborting"} \union Released =>
                state'[c] \in {"tcpAborting"} \union Released
      BY <1>1, <2>1 DEF StateSteps, StateStep
    <2>4. pc'[c]["stack"] = "checkState" => state'[c] \in {"tcpAborting"} \union Released
      BY <1>2, <1>3, <2>1, <2>3, SMTT(30) DEF PcStep
    <2>5. pc'[c]["stack"] = "done" => state'[c] \in Released
      BY <1>1, <1>2, <1>4, <2>1, <2>3, CheckStateReleases DEF PcStep
    <2> QED BY <2>1, <2>2, <2>3, <2>4, <2>5, SMTT(30)
  <1> QED BY <1>1, <1>5, <1>6, <1>7 DEF RangeInv

\* The stack starts with no close under way.
LEMMA StackInvInit == StackInit => StackInv
  <1> SUFFICES ASSUME StackInit PROVE StackInv
    OBVIOUS
  <1>1. IInv
    BY InitLemma DEF StackInit
  <1>2. \A c \in Conns : pc[c]["stack"] = "idle"
    BY DEF StackInit, Init, Actors
  <1> QED BY <1>1, <1>2 DEF StackInit, StackInv, RangeInv

\* Every step of the stack and its connections keeps the invariant.
LEMMA StackInvNext == StackInv /\ [StackNext]_allVars => StackInv'
  <1> SUFFICES ASSUME StackInv, [StackNext]_allVars PROVE StackInv'
    OBVIOUS
  <1>1. [Next]_vars /\ IInv /\ RangeInv
    BY StackStep DEF StackInv
  <1>2. IInv'
    BY <1>1, NextLemma
  <1>3. RangeInv'
    <2>1. CASE CloseStart
      <3>1. /\ closer = "idle" /\ closer' = "range" /\ existing' = tcpConns
            /\ accepted' = {c \in tcpConns : pc[c]["connector"] # "accept"}
            /\ UNCHANGED <<state, pc>>
        BY <2>1 DEF CloseStart, vars, connVars
      <3>2. tcpConns \subseteq Conns /\ \A c \in tcpConns : state[c] # "none"
        BY <1>1, TypeParts DEF IInv, PartType, ConnInv
      <3>3. \A c \in Conns : pc[c]["stack"] = "idle"
        BY <1>1, <3>1 DEF RangeInv
      <3> QED BY <3>1, <3>2, <3>3 DEF RangeInv
    <2>2. CASE RangeEnd
      <3>1. /\ closer' = "listener" /\ UNCHANGED <<state, pc, existing, accepted>>
            /\ \A c \in existing : pc[c]["stack"] = "done" \/ c \notin tcpConns
        BY <2>2 DEF RangeEnd, vars, connVars
      <3>2. \A c \in accepted : state[c] \in Released
        BY <1>1, <3>1 DEF RangeInv, IInv, ConnInv
      <3> QED BY <1>1, <3>1, <3>2 DEF RangeInv
    <2>3. CASE CloseListener
      <3>1. closer = "listener" /\ closer' = "done" /\ UNCHANGED <<state, pc, existing, accepted>>
        BY <2>3 DEF CloseListener, vars, connVars
      <3> QED BY <1>1, <3>1 DEF RangeInv
    <2>4. CASE UNCHANGED <<closer, existing, accepted>> /\ UNCHANGED <<state, pc>>
      BY <1>1, <2>4 DEF RangeInv
    <2>5. CASE WriteStart \/ WriteOther \/ TickerStops
      BY <2>4, <2>5 DEF WriteStart, WriteOther, TickerStops, vars, connVars
    <2>6. ASSUME NEW c \in Conns, WriteInput(c) \/ Tick(c) \/ ConnStep(c) PROVE RangeInv'
      <3>1. /\ UNCHANGED <<closer, existing, accepted>>
            /\ Client(c) \/ Timers(c) \/ Proxy(c) \/ Goroutines(c)
        BY <2>6, SMTT(30) DEF WriteInput, Tick, ConnStep, stackVars
      <3>2. PcStep({})
        BY <1>1, <3>1, PcSteps DEF RangeInv, OpenNext
      <3> QED BY <1>1, <3>1, <3>2, RangeKept DEF StackInv
    <2>7. ASSUME NEW c \in Conns, RangeAbort(c) PROVE RangeInv'
      <3>1. closer = "range" /\ AbortByStack(c) /\ UNCHANGED <<closer, existing, accepted>>
        BY <2>7 DEF RangeAbort, stackVars
      <3>2. PcStep({c})
        BY <1>1, <3>1, PcSteps DEF RangeInv
      <3> QED BY <1>1, <3>1, <3>2, RangeKept DEF StackInv
    <2>8. CASE UNCHANGED allVars
      BY <2>4, <2>8 DEF allVars, vars, connVars, stackVars
    <2> QED BY <2>1, <2>2, <2>3, <2>5, <2>6, <2>7, <2>8, SMTT(30) DEF StackNext
  <1> QED BY <1>2, <1>3 DEF StackInv

----------------------------------------------------------------------------

\* The stack implements TcpConn: what holds of the connections by themselves
\* holds of them in the stack, whose Write and ticker decide when lwIP runs.
THEOREM StackImplementsTcpConn == StackSpec => Spec
  <1>1. StackInit => Init
    BY DEF StackInit
  <1> QED BY <1>1, StackStep, PTL DEF StackSpec, Spec

\* The inductive invariant holds.
THEOREM StackInvariant == StackSpec => []StackInv
  BY StackInvInit, StackInvNext, PTL DEF StackSpec

\* When Range of LWIPStack.Close has ended, every connection it found accepted
\* has left the map and is released, whatever its handler, its client, the
\* timers and a late Write did meanwhile.
THEOREM CloseReleasesAcceptedTheorem == StackSpec => []CloseReleasesAccepted
  <1>1. StackInv => CloseReleasesAccepted
    BY DEF StackInv, RangeInv, IInv, ConnInv, CloseReleasesAccepted, Released
  <1> QED BY <1>1, StackInvariant, PTL

\* In the stack, too, every callback of lwIP finds an open connection, and a
\* connection that left the map has given everything back.
THEOREM StackKeepsConnections == StackSpec => [](CallbackFindsOpenConn /\ ReleasedCompletely)
  BY StackImplementsTcpConn, CallbackSafe, ReleaseComplete, PTL
=============================================================================
