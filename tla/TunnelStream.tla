---------------------------- MODULE TunnelStream ----------------------------
(***************************************************************************)
(* What a handler is promised of the client's stream on each connection,   *)
(* whatever lwIP, the timers and the goroutines do in between: it reads    *)
(* the client's segments in order, each once and none left out; it is told *)
(* of the end of the stream only when it has read all of it; and a         *)
(* connection that is gone stays gone.                                     *)
(***************************************************************************)
EXTENDS Naturals, Sequences

CONSTANT Conns

VARIABLES
    phase,  \* "none", "open", "eof" (told of the end), "closing" or "gone"
    sent,   \* segments the stack took from the client
    got     \* the segments the handler read, numbered from 1

vars == <<phase, sent, got>>

Init ==
    /\ phase = [c \in Conns |-> "none"]
    /\ sent = [c \in Conns |-> 0]
    /\ got = [c \in Conns |-> <<>>]

Enter(c, p) == phase' = [phase EXCEPT ![c] = p]

Open(c) == phase[c] = "none" /\ Enter(c, "open") /\ UNCHANGED <<sent, got>>

\* The client sends, but not behind the end of its stream.  A segment that
\* nobody can be given may be the end of the connection.
Take(c) ==
    /\ phase[c] \notin {"none", "eof"}
    /\ sent' = [sent EXCEPT ![c] = @ + 1]
    /\ UNCHANGED phase \/ Enter(c, "gone")
    /\ UNCHANGED got

Deliver(c) ==
    /\ phase[c] = "open" /\ Len(got[c]) < sent[c]
    /\ got' = [got EXCEPT ![c] = Append(@, Len(@) + 1)]
    /\ UNCHANGED <<phase, sent>>

EndOfStream(c) ==
    /\ phase[c] \in {"open", "closing"} /\ Len(got[c]) = sent[c]
    /\ Enter(c, "eof")
    /\ UNCHANGED <<sent, got>>

\* The handler reads no more, or the connection is being closed or aborted.
StopReading(c) ==
    phase[c] \in {"open", "eof"} /\ Enter(c, "closing") /\ UNCHANGED <<sent, got>>

Release(c) ==
    /\ phase[c] \in {"open", "eof", "closing"} /\ Enter(c, "gone")
    /\ UNCHANGED <<sent, got>>

Next == \E c \in Conns : \/ Open(c) \/ Take(c) \/ Deliver(c)
                         \/ EndOfStream(c) \/ StopReading(c) \/ Release(c)

Spec == Init /\ [][Next]_vars
=============================================================================
