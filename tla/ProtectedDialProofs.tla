------------------------ MODULE ProtectedDialProofs ------------------------
(* Proofs about ProtectedDial, for any number of dialing goroutines and any  *)
(* limit of open descriptors.                                                *)
EXTENDS ProtectedDial, WellFoundedInduction, TLAPS

\* The kernel finds a lowest number among the free ones.
LEMMA LowestIsFree == FreeNumbers # {} => Lowest(FreeNumbers) \in FreeNumbers
  <1> SUFFICES ASSUME FreeNumbers # {} PROVE Lowest(FreeNumbers) \in FreeNumbers
    OBVIOUS
  <1> DEFINE R == {ss \in Nat \X Nat : ss[1] < ss[2]}
  <1>1. FreeNumbers \subseteq Nat
    BY DialAssumption DEF FreeNumbers, Numbers
  <1>2. IsWellFoundedOn(R, Nat)
    BY NatLessThanWellFounded DEF OpToRel
  <1>3. PICK n \in FreeNumbers : \A m \in FreeNumbers : ~ (<<m, n>> \in R)
    <2> HIDE DEF R
    <2> QED BY <1>1, <1>2, WFMin, Zenon
  <1>4. ASSUME NEW m \in FreeNumbers PROVE n <= m
    <2>1. m \in Nat /\ n \in Nat
      BY <1>1
    <2>2. m < n => <<m, n>> \in R
      BY <2>1
    <2> QED BY <1>3, <2>1, <2>2
  <1> QED BY <1>4 DEF Lowest

DialPcs == {"start", "protect", "qos", "connect", "file", "fileclose", "deferred", "open",
            "failed", "closed"}
DialRecs == [pc : DialPcs, fd : 0..MaxFd, conn : 0..MaxFd]

\* The inductive invariant: every open descriptor has a dial that will still
\* close it, and a dial between syscall.Socket and its deferred close has one.
Dialing == {"protect", "qos", "connect", "file", "fileclose", "deferred"}
DialInv ==
  /\ open \in [Numbers -> Dialers \cup {NoDialer}]
  /\ dial \in [Dialers -> DialRecs]
  /\ \A d \in Dialers : dial[d].pc \in Dialing => dial[d].fd \in Numbers
  /\ NoFdLeaked

\* No descriptor is open before the first dial.
LEMMA DialInvInit == DialInit => DialInv
  BY DialAssumption DEF DialInit, DialInv, DialRecs, DialPcs, Dialing, NoFdLeaked, Numbers

\* A step that makes r of d's record leaks nothing when d will still close what
\* it opens, and what it was to close and leaves open.
LEMMA StepKeeps ==
    ASSUME DialInv, NEW d \in Dialers, NEW r \in DialRecs, dial' = [dial EXCEPT ![d] = r],
           r.pc \in Dialing => r.fd \in Numbers,
           open' \in [Numbers -> Dialers \cup {NoDialer}],
           \A n \in Numbers : open'[n] # NoDialer /\ open[n] = NoDialer => WillClose(d, n)',
           \A n \in Numbers : open'[n] # NoDialer /\ WillClose(d, n) => WillClose(d, n)'
    PROVE  DialInv'
  <1>1. /\ dial' \in [Dialers -> DialRecs] /\ dial'[d] = r
        /\ \A e \in Dialers \ {d} : dial'[e] = dial[e]
    BY DEF DialInv
  <1>2. ASSUME NEW n \in Numbers, open'[n] # NoDialer PROVE \E e \in Dialers : WillClose(e, n)'
    <2>1. CASE open[n] = NoDialer
      BY <1>2, <2>1
    <2>2. CASE open[n] # NoDialer
      <3>1. PICK e \in Dialers : WillClose(e, n)
        BY <2>2 DEF DialInv, NoFdLeaked
      <3>2. CASE e = d
        BY <1>2, <3>1, <3>2
      <3>3. CASE e # d
        BY <1>1, <3>1, <3>3 DEF WillClose
      <3> QED BY <3>2, <3>3
    <2> QED BY <2>1, <2>2
  <1>3. NoFdLeaked'
    BY <1>2 DEF NoFdLeaked, Numbers
  <1>4. \A e \in Dialers : dial'[e].pc \in Dialing => dial'[e].fd \in Numbers
    BY <1>1 DEF DialInv
  <1> QED BY <1>1, <1>3, <1>4 DEF DialInv, Numbers, DialRecs

\* What the steps make of the record s of their dial.
LEMMA RecordGoto ==
    ASSUME NEW s \in DialRecs, NEW q \in DialPcs
    PROVE  /\ [s EXCEPT !.pc = q] \in DialRecs
           /\ [s EXCEPT !.pc = q].pc = q
           /\ [s EXCEPT !.pc = q].fd = s.fd /\ [s EXCEPT !.pc = q].conn = s.conn
  <1> DEFINE F == 0..MaxFd
  <1>1. DialRecs = [pc : DialPcs, fd : F, conn : F]
    BY DEF DialRecs
  <1> HIDE DEF F
  <1> QED BY <1>1

\* What Goto changes: the place of one dial.
LEMMA GotoFacts ==
    ASSUME DialInv, NEW d \in Dialers, NEW q \in DialPcs, Goto(d, q)
    PROVE  \E r \in DialRecs :
             /\ dial' = [dial EXCEPT ![d] = r] /\ dial'[d] = r
             /\ r.pc = q /\ r.fd = dial[d].fd /\ r.conn = dial[d].conn
  <1> DEFINE r == [dial[d] EXCEPT !.pc = q]
  <1>1. r \in DialRecs /\ r.pc = q /\ r.fd = dial[d].fd /\ r.conn = dial[d].conn
    BY RecordGoto DEF DialInv
  <1>2. dial' = [dial EXCEPT ![d] = r]
    BY DEF Goto
  <1> HIDE DEF r
  <1>3. dial'[d] = r
    BY <1>2 DEF DialInv
  <1> QED BY <1>1, <1>2, <1>3, Zenon

\* What a close changes: its number is free, the others keep their owners.
LEMMA CloseFacts ==
    ASSUME DialInv, NEW n, CloseFd(n)
    PROVE  /\ open' \in [Numbers -> Dialers \cup {NoDialer}]
           /\ \A m \in Numbers : open'[m] # NoDialer => m # n /\ open'[m] = open[m]
  BY Zenon DEF DialInv, CloseFd

\* Protect, SetsockoptInt and Connect, and net.FileConn when it fails.
LEMMA CallKeeps ==
    ASSUME DialInv, NEW d \in Dialers, UNCHANGED open,
           NEW q \in {"qos", "connect", "file", "fileclose", "deferred"}, Goto(d, q),
           dial[d].pc \in {"protect", "qos", "connect", "file"}
    PROVE  DialInv'
  <1>1. PICK r \in DialRecs :
             /\ dial' = [dial EXCEPT ![d] = r] /\ dial'[d] = r
             /\ r.pc = q /\ r.fd = dial[d].fd /\ r.conn = dial[d].conn
    BY GotoFacts DEF DialPcs
  <1>2. \A m \in Numbers : WillClose(d, m) => WillClose(d, m)'
    BY <1>1 DEF WillClose
  <1>3. r.fd \in Numbers
    BY <1>1 DEF DialInv, Dialing
  <1> QED BY <1>1, <1>2, <1>3, StepKeeps, Zenon DEF DialInv

\* The closes: of the file, of the dial and of the connection.
LEMMA CloseKeeps ==
    ASSUME DialInv, NEW d \in Dialers, FileClose(d) \/ DeferredClose(d) \/ ConnClose(d)
    PROVE  DialInv'
  <1>1. CASE FileClose(d)
    <2>1. PICK r \in DialRecs :
             /\ dial' = [dial EXCEPT ![d] = r] /\ dial'[d] = r
             /\ r.pc = "deferred" /\ r.fd = dial[d].fd /\ r.conn = dial[d].conn
      BY <1>1, GotoFacts DEF DialPcs, FileClose
    <2>2. \A m \in Numbers : WillClose(d, m) => WillClose(d, m)'
      BY <1>1, <2>1 DEF WillClose, FileClose
    <2>3. r.fd \in Numbers
      BY <1>1, <2>1 DEF DialInv, Dialing, FileClose
    <2> QED BY <1>1, <2>1, <2>2, <2>3, StepKeeps, CloseFacts, Zenon DEF FileClose
  <1>2. CASE DeferredClose(d)
    <2>1. PICK r \in DialRecs :
             /\ dial' = [dial EXCEPT ![d] = r] /\ dial'[d] = r
             /\ r.pc = IF dial[d].conn = 0 THEN "failed" ELSE "open"
             /\ r.fd = dial[d].fd /\ r.conn = dial[d].conn
      BY <1>2, GotoFacts DEF DialPcs, DeferredClose
    <2>2. \A m \in Numbers : m # dial[d].fd /\ WillClose(d, m) => WillClose(d, m)'
      BY <1>2, <2>1 DEF WillClose, DeferredClose, Numbers
    <2>3. r.pc \notin Dialing
      BY <2>1 DEF Dialing
    <2> QED BY <1>2, <2>1, <2>2, <2>3, StepKeeps, CloseFacts, Zenon DEF DeferredClose
  <1>3. CASE ConnClose(d)
    <2>1. PICK r \in DialRecs :
             /\ dial' = [dial EXCEPT ![d] = r] /\ dial'[d] = r /\ r.pc = "closed"
      BY <1>3, GotoFacts DEF DialPcs, ConnClose
    <2>2. \A m \in Numbers : m # dial[d].conn => ~WillClose(d, m)
      BY <1>3 DEF WillClose, ConnClose
    <2>3. r.pc \notin Dialing
      BY <2>1 DEF Dialing
    <2> QED BY <1>3, <2>1, <2>2, <2>3, StepKeeps, CloseFacts, Zenon DEF ConnClose
  <1> QED BY <1>1, <1>2, <1>3

\* The steps that open a descriptor: syscall.Socket and net.FileConn.
LEMMA OpenKeeps ==
    ASSUME DialInv, NEW d \in Dialers, Socket(d) \/ FileConn(d)
    PROVE  DialInv'
  <1>1. dial[d] \in DialRecs
    BY DEF DialInv
  <1>2. CASE Socket(d)
    <2>1. PICK n \in Numbers : n = Lowest(FreeNumbers)
      BY <1>2, LowestIsFree, Zenon DEF Socket, FreeNumbers
    <2> DEFINE r == [dial[d] EXCEPT !.pc = "protect", !.fd = n]
    <2>2. /\ dial[d].pc = "start" /\ dial' = [dial EXCEPT ![d] = r]
          /\ open' = [open EXCEPT ![n] = d]
      BY <1>2, <2>1, Zenon DEF Socket
    <2>3. "protect" \in DialPcs /\ n \in 0..MaxFd
      BY DialAssumption DEF DialPcs, Numbers
    <2>4. r \in DialRecs /\ r.pc = "protect" /\ r.fd = n
      <3> DEFINE F == 0..MaxFd
      <3>1. n \in F /\ DialRecs = [pc : DialPcs, fd : F, conn : F]
        BY <2>3 DEF DialRecs
      <3> HIDE DEF F
      <3> QED BY <1>1, <2>3, <3>1, Zenon
    <2> HIDE DEF r
    <2>5. /\ open' \in [Numbers -> Dialers \cup {NoDialer}]
          /\ \A m \in Numbers \ {n} : open'[m] = open[m]
      BY <2>2 DEF DialInv
    <2>6. dial'[d] = r
      BY <2>2 DEF DialInv
    <2>7. WillClose(d, n)' /\ \A m \in Numbers : ~WillClose(d, m)
      BY <2>2, <2>4, <2>6 DEF WillClose
    <2> QED BY <2>2, <2>4, <2>5, <2>7, StepKeeps, ZenonT(30)
  <1>3. CASE FileConn(d) /\ Goto(d, "fileclose") /\ UNCHANGED open
    BY <1>3, CallKeeps DEF FileConn
  <1>4. CASE FileConn(d) /\ ~(Goto(d, "fileclose") /\ UNCHANGED open)
    <2>1. PICK n \in Numbers : n = Lowest(FreeNumbers)
      BY <1>4, LowestIsFree DEF FileConn, FreeNumbers
    <2> DEFINE r == [dial[d] EXCEPT !.pc = "fileclose", !.conn = n]
    <2>2. /\ dial[d].pc = "file" /\ dial' = [dial EXCEPT ![d] = r]
          /\ open' = [open EXCEPT ![n] = open[dial[d].fd]]
      BY <1>4, <2>1, Zenon DEF FileConn
    <2>3. "fileclose" \in DialPcs /\ n \in 0..MaxFd
      BY DialAssumption DEF DialPcs, Numbers
    <2>4. /\ r \in DialRecs /\ r.pc = "fileclose"
          /\ r.fd = dial[d].fd /\ r.conn = n
      <3> DEFINE F == 0..MaxFd
      <3>1. n \in F /\ DialRecs = [pc : DialPcs, fd : F, conn : F]
        BY <2>3 DEF DialRecs
      <3> HIDE DEF F
      <3> QED BY <1>1, <2>3, <3>1, Zenon
    <2> HIDE DEF r
    <2>5. dial[d].fd \in Numbers
      BY <2>2 DEF DialInv, Dialing
    <2>6. /\ open' \in [Numbers -> Dialers \cup {NoDialer}]
          /\ \A m \in Numbers \ {n} : open'[m] = open[m]
      BY <2>2, <2>5 DEF DialInv
    <2>7. dial'[d] = r
      BY <2>2 DEF DialInv
    <2>8. WillClose(d, n)' /\ \A m \in Numbers : WillClose(d, m) => WillClose(d, m)'
      BY <2>2, <2>4, <2>7 DEF WillClose
    <2> QED BY <2>2, <2>4, <2>5, <2>6, <2>8, StepKeeps, Zenon
  <1> QED BY <1>2, <1>3, <1>4

\* Every step of every dial keeps the invariant.
LEMMA DialInvNext == DialInv /\ [DialNext]_DialVars => DialInv'
  <1> SUFFICES ASSUME DialInv, [DialNext]_DialVars PROVE DialInv'
    OBVIOUS
  <1>1. CASE UNCHANGED DialVars
    BY <1>1 DEF DialInv, DialVars, NoFdLeaked, WillClose, Numbers, DialRecs
  <1>2. ASSUME NEW d \in Dialers, SocketFails(d) PROVE DialInv'
    <2>1. PICK r \in DialRecs : /\ dial' = [dial EXCEPT ![d] = r] /\ r.pc = "failed"
      BY <1>2, GotoFacts DEF DialPcs, SocketFails
    <2>2. \A m \in Numbers : ~WillClose(d, m)
      BY <1>2 DEF WillClose, SocketFails
    <2> QED BY <1>2, <2>1, <2>2, StepKeeps, Zenon DEF SocketFails, DialInv, Dialing
  <1>3. ASSUME NEW d \in Dialers, Protect(d) \/ SetQos(d) \/ Connect(d) PROVE DialInv'
    BY <1>3, CallKeeps DEF Protect, SetQos, Connect, Call
  <1> QED BY <1>1, <1>2, <1>3, OpenKeeps, CloseKeeps DEF DialNext

\* However many goroutines dial, whichever of syscall.Socket, Protect,
\* SetsockoptInt, Connect and net.FileConn fail, and although the deferred
\* syscall.Close closes a number that may belong to somebody else by then, no
\* descriptor is left open that nobody will close.
THEOREM NoFdLeakedTheorem == DialSpec => []NoFdLeaked
  <1>1. DialInv => NoFdLeaked
    BY DEF DialInv
  <1> QED BY <1>1, DialInvInit, DialInvNext, PTL DEF DialSpec

\* Once every dial has failed, or its connection was closed, all descriptors
\* are free again.
THEOREM AllGivenBack ==
    DialSpec => []((\A d \in Dialers : dial[d].pc \in {"start", "failed", "closed"})
                     => \A n \in Numbers : open[n] = NoDialer)
  <1>1. DialInv => ((\A d \in Dialers : dial[d].pc \in {"start", "failed", "closed"})
                     => \A n \in Numbers : open[n] = NoDialer)
    BY DEF DialInv, NoFdLeaked, WillClose
  <1> QED BY <1>1, DialInvInit, DialInvNext, PTL DEF DialSpec

\* The table of open files and the records of the dials stay well formed.
THEOREM DialTyped == DialSpec => []DialTypeOK
  <1>1. DialInv => DialTypeOK
    BY DEF DialInv, DialTypeOK, DialRecs, DialPcs
  <1> QED BY <1>1, DialInvInit, DialInvNext, PTL DEF DialSpec
=============================================================================
