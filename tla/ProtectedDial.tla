--------------------------- MODULE ProtectedDial ---------------------------
(* The life of the file descriptors of UdpDail and dialProtectedTCP          *)
(* (socketbase/diar.go, socketbase/tcp_dial_posix.go), which the proxies run *)
(* in many goroutines.  The kernel gives out the lowest free number, and a   *)
(* close frees a number whatever file it stands for by then.                 *)
EXTENDS Integers

CONSTANTS Dialers,             \* one dial each, by goroutines of the process
          MaxFd,               \* the process's limit of open descriptors
          NoDialer             \* the file of a closed number

ASSUME DialAssumption == NoDialer \notin Dialers /\ MaxFd \in Nat

VARIABLES open,                \* number -> whose socket it stands for
          dial                 \* dialer -> [pc, fd, conn]; 0 is no descriptor

Numbers == 1..MaxFd
FreeNumbers == {n \in Numbers : open[n] = NoDialer}
Lowest(S) == CHOOSE n \in S : \A m \in S : n <= m
CloseFd(n) == open' = [open EXCEPT ![n] = NoDialer]
Goto(d, pc) == dial' = [dial EXCEPT ![d].pc = pc]

DialInit ==
  /\ open = [n \in Numbers |-> NoDialer]
  /\ dial = [d \in Dialers |-> [pc |-> "start", fd |-> 0, conn |-> 0]]

\* The address cannot be used or syscall.Socket fails: nothing to give back.
SocketFails(d) == dial[d].pc = "start" /\ Goto(d, "failed") /\ UNCHANGED open

\* syscall.Socket; the deferred syscall.Close(fd) is on its way from here on.
Socket(d) ==
  /\ dial[d].pc = "start" /\ FreeNumbers # {}
  /\ LET n == Lowest(FreeNumbers) IN
       /\ open' = [open EXCEPT ![n] = d]
       /\ dial' = [dial EXCEPT ![d].pc = "protect", ![d].fd = n]

\* p.Protect, SetsockoptInt (only in dialProtectedTCP), syscall.Connect: each
\* may fail, and does when the number is closed.
Call(d, pc, next) ==
  /\ dial[d].pc = pc
  /\ \/ open[dial[d].fd] # NoDialer /\ Goto(d, next)
     \/ Goto(d, "deferred")
  /\ UNCHANGED open
Protect(d) == Call(d, "protect", "qos") \/ Call(d, "protect", "connect")
SetQos(d) == Call(d, "qos", "connect")
Connect(d) == Call(d, "connect", "file")

\* fdToConn: net.FileConn has its own descriptor, a duplicate.
FileConn(d) ==
  /\ dial[d].pc = "file"
  /\ \/ /\ open[dial[d].fd] # NoDialer /\ FreeNumbers # {}
        /\ LET n == Lowest(FreeNumbers) IN
             /\ open' = [open EXCEPT ![n] = open[dial[d].fd]]
             /\ dial' = [dial EXCEPT ![d].pc = "fileclose", ![d].conn = n]
     \/ Goto(d, "fileclose") /\ UNCHANGED open

\* fdToConn's deferred file.Close: the file has taken over the descriptor.
FileClose(d) == dial[d].pc = "fileclose" /\ CloseFd(dial[d].fd) /\ Goto(d, "deferred")

\* The deferred syscall.Close of the dial.
DeferredClose_OnSuccess(d) ==
  /\ dial[d].pc = "deferred"
  /\ IF dial[d].conn = 0 THEN UNCHANGED open ELSE CloseFd(dial[d].fd)
  /\ Goto(d, IF dial[d].conn = 0 THEN "failed" ELSE "open")
DeferredClose(d) ==
  /\ dial[d].pc = "deferred"
  /\ CloseFd(dial[d].fd)
  /\ Goto(d, IF dial[d].conn = 0 THEN "failed" ELSE "open")

\* The proxy closes the connection it got.
ConnClose(d) == dial[d].pc = "open" /\ CloseFd(dial[d].conn) /\ Goto(d, "closed")

DialNext ==
  \E d \in Dialers :
    \/ SocketFails(d) \/ Socket(d) \/ Protect(d) \/ SetQos(d) \/ Connect(d)
    \/ FileConn(d) \/ FileClose(d) \/ DeferredClose(d) \/ ConnClose(d)

DialVars == <<open, dial>>
DialSpec == DialInit /\ [][DialNext]_DialVars
-----------------------------------------------------------------------------
DialTypeOK ==
  /\ open \in [Numbers -> Dialers \cup {NoDialer}]
  /\ dial \in [Dialers ->
       [pc : {"start", "protect", "qos", "connect", "file", "fileclose", "deferred", "open",
              "failed", "closed"},
        fd : 0..MaxFd, conn : 0..MaxFd]]

\* The dial still has a close of number n before it.
WillClose(d, n) ==
  \/ dial[d].fd = n /\ dial[d].pc \in {"protect", "qos", "connect", "file", "fileclose", "deferred"}
  \/ dial[d].conn = n /\ dial[d].pc \in {"fileclose", "deferred", "open"}

\* No descriptor leaks: whichever call of UdpDail, dialProtectedTCP or fdToConn
\* fails, and whatever other dials do to the numbers, every open descriptor is
\* one that a dial or a connection will still close.
NoFdLeaked == \A n \in Numbers : open[n] # NoDialer => \E d \in Dialers : WillClose(d, n)

\* fdToConn: the os.File "takes over the life" of the descriptor, and "closing
\* the new net.Conn does not affect" it "and vice versa": the connection a dial
\* returned stands for the socket it dialed until the caller closes it.
ConnKeepsSocket == \A d \in Dialers : dial[d].pc = "open" => open[dial[d].conn] = d
=============================================================================
