------------------------------ MODULE LwipAltcp ------------------------------
(* The layered TCP API: altcp.c (calls dispatched through the function table  *)
(* of a connection, and the defaults of a layer that passes them on to its    *)
(* inner connection) and altcp_tcp.c (the lowest layer, over a tcp pcb).      *)
(* LWIP_ALTCP is off in this build. The layer above (TLS, a proxy) is not in  *)
(* the tree: it is modelled from the defaults written for it.                 *)
EXTENDS Integers, FiniteSets, TLC

CONSTANTS
  AltConns,      \* altcp pcbs (MEMP_ALTCP_PCB)
  AltPcbs        \* tcp pcbs, listeners included

ASSUME AltcpAssumption == 0 \notin AltConns /\ 0 \notin AltPcbs

VARIABLE al
\* al.conn[c]  a struct altcp_pcb in use: its state (tcp pcb, 0 is NULL), its
\*             inner_conn and the connection built on it (0: none)
\* al.tcp[p]   a tcp pcb in use: its callback_arg, whether the altcp_tcp
\*             callbacks are set, its condition, and the connection whose
\*             call last arrived at it (0: none)
\* al.app      the connections the application may still use
\* al.lost     the application was told of a connection it no longer had

AltcpInit ==
  al = [conn |-> <<>>, tcp |-> <<>>, app |-> {}, lost |-> FALSE]

FreeConns == AltConns \ DOMAIN al.conn
FreePcbs == AltPcbs \ DOMAIN al.tcp
Drop(f, S) == [x \in DOMAIN f \ S |-> f[x]]

(* altcp_alloc and altcp_free. Identities are interchangeable: take one. *)
OneOf(S) == CHOOSE x \in S : TRUE
altcp_alloc(s, c) == [s EXCEPT !.conn = (c :> [tcp |-> 0, inner |-> 0, outer |-> 0]) @@ @]
altcp_free(s, c) == [s EXCEPT !.conn = Drop(@, {c})]

(* altcp_tcp_setup: the callbacks of pcb p lead to connection c. *)
altcp_tcp_setup(s, c, p) ==
  [s EXCEPT !.conn[c].tcp = p,
            !.tcp = IF p = 0 THEN @ ELSE [@ EXCEPT ![p].arg = c, ![p].cbs = TRUE]]

altcp_tcp_remove_callbacks(s, p) == [s EXCEPT !.tcp[p].arg = 0, !.tcp[p].cbs = FALSE]

NewPcb(s, p, st, arg) == [s EXCEPT !.tcp = (p :> [arg |-> arg, cbs |-> FALSE, st |-> st, user |-> 0]) @@ @]
GonePcb(s, p) == [s EXCEPT !.tcp = Drop(@, {p})]

(* altcp_new_ip_type, altcp_tcp_new_ip_type: without memory for the altcp pcb *)
(* the tcp pcb is closed again.                                               *)
altcp_new ==
  /\ FreePcbs # {}
  /\ LET p == OneOf(FreePcbs) IN
     IF FreeConns = {} THEN UNCHANGED al
     ELSE LET c == OneOf(FreeConns) IN
          al' = [altcp_tcp_setup(altcp_alloc(NewPcb(al, p, "open", 0), c), c, p)
                   EXCEPT !.app = @ \cup {c}]

(* A layer puts a connection of its own on top of one the application has. *)
LayerNew ==
  /\ FreeConns # {}
  /\ \E c \in al.app :
       LET o == OneOf(FreeConns) IN
       /\ al.conn[c].inner = 0 /\ al.conn[c].tcp # 0
       /\ al.tcp[al.conn[c].tcp].st = "open" /\ al.tcp[al.conn[c].tcp].user = 0
       /\ al' = [altcp_alloc(al, o) EXCEPT !.conn[o].inner = c, !.conn[c].outer = o,
                                           !.app = (@ \ {c}) \cup {o}]

(* A call on connection c: the function table of a layer passes it to the     *)
(* inner connection, the one of altcp_tcp to its pcb.                         *)
altcp_inner(c) == IF al.conn[c].inner = 0 THEN c ELSE al.conn[c].inner

altcp_call(c) == [al EXCEPT !.tcp[al.conn[altcp_inner(c)].tcp].user = c]

(* The application writes, reads, binds, asks for an address and so on. A     *)
(* connection that came with a failed accept has no pcb and is only closed.   *)
AppCalls ==
  \E c \in al.app :
    /\ al.conn[altcp_inner(c)].tcp # 0
    /\ al' = altcp_call(c)

(* altcp_tcp_listen: tcp_listen moves to a smaller pcb (or has no memory for  *)
(* it), and the connection follows.                                           *)
altcp_tcp_listen_KeepsPcb(s, c, lpcb) == GonePcb(NewPcb(s, lpcb, "listen", c), s.conn[c].tcp)

altcp_tcp_listen(s, c, lpcb) ==
  GonePcb([NewPcb(s, lpcb, "listen", c) EXCEPT !.conn[c].tcp = lpcb], s.conn[c].tcp)

Listens ==
  \E c \in al.app :
    /\ FreePcbs # {} /\ al.conn[c].inner = 0 /\ al.conn[c].tcp # 0
    /\ al.tcp[al.conn[c].tcp].st = "open"
    /\ al' = altcp_tcp_listen(al, c, OneOf(FreePcbs))

(* A SYN for a listener: the new pcb has the listener's callback_arg and none *)
(* of its callbacks.                                                          *)
SynArrives ==
  \E l \in DOMAIN al.tcp :
    /\ al.tcp[l].st = "listen" /\ FreePcbs # {}
    /\ al' = NewPcb(al, OneOf(FreePcbs), "pending", al.tcp[l].arg)

(* The error callback of pcb p, which is freed afterwards: altcp_tcp_err      *)
(* tells the application (through the layer above) and frees the connection.  *)
(* The layer frees its own connection as well.                                *)

altcp_tcp_err(s, p) ==
  LET c == s.tcp[p].arg
      top == IF s.conn[c].outer = 0 THEN c ELSE s.conn[c].outer
  IN
  IF ~s.tcp[p].cbs \/ c = 0 THEN s
  ELSE [s EXCEPT !.conn = Drop(@, {c, top}), !.app = @ \ {top}, !.lost = @ \/ top \notin s.app]

(* tcp_abort, a reset or a timeout: the callback, and the pcb is gone. *)
PcbFails(s, p) == GonePcb(altcp_tcp_err(s, p), p)

TcpFails ==
  \E p \in DOMAIN al.tcp :
    /\ al.tcp[p].st # "listen"
    /\ al' = PcbFails(al, p)

(* altcp_tcp_accept, called when a pending connection is established and when *)
(* a SYN found no memory (p = 0). An error from the application, or no memory *)
(* for the altcp pcb, makes tcp_process abort the pcb.                        *)
altcp_tcp_accept(p, ok) ==
  IF FreeConns = {} THEN IF p = 0 THEN al ELSE PcbFails(al, p)
  ELSE LET c == OneOf(FreeConns)
           s == [altcp_tcp_setup(altcp_alloc(al, c), c, p) EXCEPT !.app = @ \cup {c}]
       IN  CASE p # 0 /\ ok -> [s EXCEPT !.tcp[p].st = "open"]
             [] p # 0 /\ ~ok -> PcbFails(s, p)
             [] OTHER -> s

AltcpAccepts ==
  \E l \in DOMAIN al.tcp, ok \in BOOLEAN :
    /\ al.tcp[l].st = "listen"
    /\ \/ \E p \in DOMAIN al.tcp :
            /\ al.tcp[p].st = "pending" /\ al.tcp[p].arg = al.tcp[l].arg
            /\ al' = altcp_tcp_accept(p, ok)
       \/ FreePcbs = {} /\ al' = altcp_tcp_accept(0, ok)

(* altcp_abort: tcp_abort runs the error callback. *)
AppAborts ==
  \E c \in al.app :
    LET p == al.conn[altcp_inner(c)].tcp IN
    /\ p # 0 /\ al.tcp[p].st # "listen"
    /\ al' = PcbFails(al, p)

(* altcp_tcp_close: the callbacks go first, and come back when tcp_close has  *)
(* no memory for the FIN; on success the pcb lives on without a connection.   *)
(* A listener is not closed through this call: altcp_tcp_remove_callbacks     *)
(* would touch fields a listening pcb does not have.                          *)
altcp_tcp_close(s, c, ok) ==
  LET p == s.conn[c].tcp
      t == altcp_tcp_remove_callbacks(s, p)
  IN
  IF p = 0 THEN altcp_free(s, c)
  ELSE IF ok THEN altcp_free([t EXCEPT !.tcp[p].st = "closing"], c)
       ELSE [t EXCEPT !.tcp[p].arg = c, !.tcp[p].cbs = TRUE]

(* altcp_close by the application; a layer closes its inner connection first, *)
(* also for altcp_default_shutdown of both directions.                        *)
AppCloses ==
  \E c \in al.app, ok \in BOOLEAN :
    LET i == altcp_inner(c)
        s == altcp_tcp_close(al, i, ok)
    IN
    /\ al.conn[i].tcp # 0 => al.tcp[al.conn[i].tcp].st = "open"
    /\ al' = IF i \in DOMAIN s.conn THEN s
             ELSE [altcp_free(s, c) EXCEPT !.app = @ \ {c}]

AltcpNext ==
  \/ altcp_new \/ LayerNew \/ AppCalls \/ Listens \/ SynArrives
  \/ AltcpAccepts \/ TcpFails \/ AppAborts \/ AppCloses

-------------------------------------------------------------------------------
(* A connection and its pcb refer to each other, in both directions, as long  *)
(* as the callbacks are set: altcp_tcp_recv and the others never find a       *)
(* connection that was freed or that belongs to another pcb, and the events   *)
(* of a pcb go to the connection whose calls arrive at it.                    *)
AltcpPaired ==
  /\ \A p \in DOMAIN al.tcp : al.tcp[p].cbs =>
       /\ al.tcp[p].arg \in DOMAIN al.conn
       /\ al.conn[al.tcp[p].arg].tcp = p
       /\ al.tcp[p].user \in {0, al.tcp[p].arg, al.conn[al.tcp[p].arg].outer}
  /\ \A c \in DOMAIN al.conn : al.conn[c].tcp # 0 =>
       /\ al.conn[c].tcp \in DOMAIN al.tcp
       /\ al.tcp[al.conn[c].tcp].arg = c

(* Every connection in use can still be reached by the application, itself or *)
(* through the layer on top of it, and the application is told of the end of  *)
(* a connection only while it has it.                                         *)
NothingLeaked ==
  /\ ~al.lost
  /\ al.app \subseteq DOMAIN al.conn
  /\ \A c \in DOMAIN al.conn : c \in al.app \/ al.conn[c].outer \in al.app

(* The two layers of a connection point to each other until both are gone, and *)
(* neither is left behind.                                                     *)
AltcpSound == AltcpPaired /\ NothingLeaked
===============================================================================
