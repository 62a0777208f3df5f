------------------------------ MODULE LwipPcb ------------------------------
(***************************************************************************)
(* The lwIP protocol control block of one accepted TCP connection, as the  *)
(* Go side of lwipcore/core sees it: the functions of the bundled lwIP     *)
(* that the Go code calls, and the parts of tcp_input and the TCP timers   *)
(* that decide which callback is invoked and when a pcb is freed.          *)
(*                                                                         *)
(* A pcb is a record:                                                      *)
(*   tcp       its TCP state.  FIN_WAIT stands for FIN_WAIT_1 and _2.      *)
(*             NONE is "not yet accepted", FREED is memory given back by   *)
(*             tcp_free.                                                   *)
(*   cbs       the recv/sent/err/poll callbacks and callback_arg are set   *)
(*   rxClosed  the flag TF_RXCLOSED                                        *)
(*   refused   pcb->refused_data: the number of the segment the receive    *)
(*             callback refused, 0 for NULL                                *)
(*   fin       refused_data carries PBUF_FLAG_TCP_FIN                      *)
(*   unacked   units written with tcp_write and not yet acknowledged       *)
(***************************************************************************)
EXTENDS Naturals

TcpStates == {"NONE", "ESTABLISHED", "CLOSE_WAIT", "FIN_WAIT", "LAST_ACK",
              "CLOSING", "TIME_WAIT", "FREED"}

Pcb(tcp, cbs) == [tcp |-> tcp, cbs |-> cbs, rxClosed |-> FALSE,
                  refused |-> 0, fin |-> FALSE, unacked |-> 0]

NoPcb    == Pcb("NONE", FALSE)
NewPcb   == Pcb("ESTABLISHED", TRUE)
FreedPcb == Pcb("FREED", FALSE)

\* The pcb's memory is valid.
Live(p) == p.tcp \notin {"NONE", "FREED"}

\* On tcp_active_pcbs: the lists tcp_slowtmr polls and tcp_abandon reports on.
Active(p) == Live(p) /\ p.tcp # "TIME_WAIT"

\* The application side of the receive stream is still open at TCP level.
CanReceive(p) == p.tcp \in {"ESTABLISHED", "FIN_WAIT"}

\* tcp_close_shutdown_fin: send a FIN in the states that have not sent one.
tcp_close_shutdown_fin(p) ==
    [p EXCEPT !.tcp = CASE @ = "ESTABLISHED" -> "FIN_WAIT"
                        [] @ = "CLOSE_WAIT"  -> "LAST_ACK"
                        [] OTHER             -> @]

\* tcp_shutdown(pcb, 1, 0): TF_RXCLOSED, refused data is dropped.
tcp_shutdown_rx(p) == [p EXCEPT !.rxClosed = TRUE, !.refused = 0, !.fin = FALSE]

\* tcp_shutdown(pcb, 0, 1): ERR_CONN, and no change, in the closing states.
tcp_shutdown_tx(p) == tcp_close_shutdown_fin(p)

\* tcp_close after the callbacks were cleared: refused data is answered by a
\* reset, and the pcb is gone at once; otherwise a FIN goes out.
tcp_close(p) ==
    IF p.tcp \in {"ESTABLISHED", "CLOSE_WAIT"} /\ p.refused # 0
    THEN FreedPcb
    ELSE [tcp_close_shutdown_fin(p) EXCEPT !.rxClosed = TRUE, !.cbs = FALSE]

\* tcp_process on an in-sequence FIN.  From FIN_WAIT_1 the next state depends
\* on whether our own FIN is acknowledged by then.
GotFin(p) ==
    IF p.tcp = "FIN_WAIT"
    THEN {[p EXCEPT !.tcp = "CLOSING"],
          [p EXCEPT !.tcp = "TIME_WAIT", !.unacked = 0]}
    ELSE {[p EXCEPT !.tcp = "CLOSE_WAIT"]}

\* tcp_write accepts data in this state (tcp_write_checks).
CanWrite(p) == p.tcp \in {"ESTABLISHED", "CLOSE_WAIT"}

\* tcp_slowtmr may remove the pcb: a segment or a FIN is retransmitted too
\* often, or the pcb stays too long in FIN_WAIT_2 or LAST_ACK.
MayTimeOut(p) ==
    Active(p) /\ (p.unacked > 0 \/ p.tcp \in {"FIN_WAIT", "CLOSING", "LAST_ACK"})
=============================================================================
