---------------------------- MODULE LwipTimeouts ----------------------------
(* The timers of the stack (timeouts.c): a list of timeouts sorted by their  *)
(* due time on a clock that wraps, the cyclic timers that renew themselves,  *)
(* and the TCP timer, which only runs while there are connections.           *)
(*                                                                           *)
(* sys_check_timeouts reads the clock once and then runs handler after       *)
(* handler; time passes while they run, so that a check is many steps here.  *)
(* The stack's loop in lwip.go calls it; how late it may be is bounded.      *)
EXTENDS Integers, Sequences, FiniteSets, SequencesExt

CONSTANTS TimeSpace,           \* 2^32: the clock's values are 0 .. TimeSpace - 1
          Intervals,           \* cyclic timer -> interval_ms
          TCP_TMR_INTERVAL,
          OnceAfter,           \* how long a timeout of an application waits
          MaxOnce,             \* bound on how many of those wait
          MaxLate,             \* how long after the start of a check the next one
                               \* starts, so how long a check lasts at most
          MaxWork              \* how long a handler runs

VARIABLE tm

ASSUME TimeoutsAssumption ==
  /\ OnceAfter \in Nat /\ 2 * (OnceAfter + 2 * MaxLate) < TimeSpace /\ MaxOnce \in Nat
  /\ TimeSpace \in Nat \ {0} /\ MaxLate \in Nat /\ MaxWork \in Nat
  /\ \A c \in DOMAIN Intervals :
        Intervals[c] \in Nat \ {0} /\ 2 * (Intervals[c] + 2 * MaxLate) < TimeSpace

Later(t, d) == (t + d) % TimeSpace
LWIP_MAX_TIMEOUT == (TimeSpace \div 2) - 1
TIME_LESS_THAN_Unsigned(t, compare_to) == t < compare_to
TIME_LESS_THAN(t, compare_to) == (t - compare_to) % TimeSpace > LWIP_MAX_TIMEOUT

\* Before the first timeout that is due later, so after those due at the same
\* time.
sys_timeout_abs(list, h, time) ==
  LET later == {i \in DOMAIN list : TIME_LESS_THAN(time, list[i].time)}
      at == IF later = {} THEN Len(list) + 1 ELSE CHOOSE i \in later : \A j \in later : i <= j
  IN InsertAt(list, at, [h |-> h, time |-> time])

sys_timeout(s, msecs, h) == [s EXCEPT !.list = sys_timeout_abs(@, h, Later(s.now, msecs))]

\* The first timeout with that handler (and argument) is taken out.
sys_untimeout(s, h) ==
  LET match == {i \in DOMAIN s.list : s.list[i].h = h}
  IN IF match = {} THEN s
     ELSE [s EXCEPT !.list = RemoveAt(@, CHOOSE i \in match : \A j \in match : i <= j)]

SYS_TIMEOUTS_SLEEPTIME_INFINITE == TimeSpace - 1
sys_timeouts_sleeptime(s) ==
  IF s.list = <<>> THEN SYS_TIMEOUTS_SLEEPTIME_INFINITE
  ELSE IF TIME_LESS_THAN(Head(s.list).time, s.now) THEN 0
  ELSE (Head(s.list).time - s.now) % TimeSpace

tcp_timer_needed(s) ==
  IF s.active \/ ~s.pcbs THEN s
  ELSE sys_timeout([s EXCEPT !.active = TRUE], TCP_TMR_INTERVAL, "tcp")

\* The TCP timer has run, and left connections or not.
tcpip_tcp_timer(s) ==
  IF s.pcbs THEN sys_timeout(s, TCP_TMR_INTERVAL, "tcp") ELSE [s EXCEPT !.active = FALSE]

\* The handler of c has run: the next time is one interval after the last, or,
\* when that is over already, one interval from now.
lwip_cyclic_timer(s, c, due) ==
  LET next == Later(due, Intervals[c])
  IN [s EXCEPT !.list = sys_timeout_abs(@, c,
                          IF TIME_LESS_THAN(next, s.now) THEN Later(s.now, Intervals[c]) ELSE next)]

sys_restart_timeouts(s) ==
  [s EXCEPT !.list = [i \in DOMAIN @ |->
                        [@[i] EXCEPT !.time = Later(s.now, (@ - s.list[1].time) % TimeSpace)]]]

-----------------------------------------------------------------------------
\* sys_timeouts_init starts the cyclic timers, TCP's excepted.  late is how
\* long ago the last check began, and at the time it read (0 after it); asleep: the device was
\* suspended, and the timeouts are not restarted yet.  once
\* counts the timeouts an application started that neither ran nor were taken back.
sys_timeouts_init(s) ==
  [s EXCEPT !.list = FoldSet(LAMBDA c, list : sys_timeout_abs(list, c, Later(s.now, Intervals[c])),
                             <<>>, DOMAIN Intervals)]
TmInit ==
  \E now \in {0, TimeSpace - 2} :
    tm = sys_timeouts_init([now |-> now, list |-> <<>>, at |-> 0, late |-> 0,
                            checking |-> FALSE, asleep |-> FALSE, active |-> FALSE, pcbs |-> FALSE, once |-> 0])

Idle == ~tm.checking /\ ~tm.asleep

TmPass == Idle /\ tm.late < MaxLate /\ tm' = [tm EXCEPT !.now = Later(@, 1), !.late = @ + 1]

\* A connection begins, or the last one ends.
TmConnect == Idle /\ tm.once = 0 /\ tm' = tcp_timer_needed([tm EXCEPT !.pcbs = TRUE])
TmDisconnect == Idle /\ tm.pcbs /\ tm' = [tm EXCEPT !.pcbs = FALSE]

\* An application starts a timeout, or takes one back (there may be none).  To keep
\* the lists short, a behaviour has such timeouts or connections at a time.
TmStart == Idle /\ tm.once < MaxOnce /\ ~tm.active /\ tm' = sys_timeout([tm EXCEPT !.once = @ + 1], OnceAfter, "once")
TmCancel == Idle /\ tm' = sys_untimeout([tm EXCEPT !.once = IF @ = 0 THEN 0 ELSE @ - 1], "once")

\* sys_check_timeouts.
TmCheck == Idle /\ tm' = [tm EXCEPT !.checking = TRUE, !.at = tm.now, !.late = 0]
TmRun ==
  /\ tm.checking /\ tm.list # <<>> /\ ~TIME_LESS_THAN(tm.at, Head(tm.list).time)
  /\ LET t == Head(tm.list)
     IN \E d \in 0 .. MaxWork, left \in BOOLEAN :
          LET s == [tm EXCEPT !.list = Tail(@), !.now = Later(@, d), !.late = @ + d,
                              !.pcbs = @ /\ (t.h = "tcp" => left), !.once = IF t.h = "once" THEN @ - 1 ELSE @]
          IN /\ tm.late + d <= MaxLate
             /\ tm' = CASE t.h = "tcp" -> tcpip_tcp_timer(s)
                        [] t.h = "once" -> s
                        [] OTHER -> lwip_cyclic_timer(s, t.h, t.time)
TmCheckEnd ==
  /\ tm.checking /\ (tm.list = <<>> \/ TIME_LESS_THAN(tm.at, Head(tm.list).time))
  /\ tm' = [tm EXCEPT !.checking = FALSE, !.at = 0]

\* The device sleeps; sys_restart_timeouts is called when it wakes up.
TmSuspend == Idle /\ \E now \in 0 .. TimeSpace - 1 : tm' = [tm EXCEPT !.now = now, !.asleep = TRUE]
TmRestart == tm.asleep /\ tm' = sys_restart_timeouts([tm EXCEPT !.asleep = FALSE, !.late = 0])

TmNext ==
  TmPass \/ TmConnect \/ TmDisconnect \/ TmStart \/ TmCancel \/ TmCheck \/ TmRun \/ TmCheckEnd \/ TmSuspend \/ TmRestart
-----------------------------------------------------------------------------
Waiting(h) == Cardinality({i \in DOMAIN tm.list : tm.list[i].h = h})

\* No timer is lost and none runs twice: each cyclic timer is in the list once,
\* and TCP's exactly when tcpip_tcp_timer_active says so, which it does as long
\* as there is a connection; an application's timeouts wait until they run or are
\* taken back, one by one.
TimersKept ==
  /\ \A c \in DOMAIN Intervals : Waiting(c) = 1
  /\ Waiting("tcp") = IF tm.active THEN 1 ELSE 0
  /\ tm.pcbs => tm.active
  /\ Waiting("once") = tm.once

\* The list is in the order in which the timeouts are due, also around the end
\* of the clock's range, so that looking at its head is enough.
TimersSorted ==
  ~tm.asleep =>
    \A i, j \in DOMAIN tm.list : i < j => ~TIME_LESS_THAN(tm.list[j].time, tm.list[i].time)

\* A timer waits for at most its interval, and after a restart, which makes the
\* first one due now, for as much longer as that one was overdue; or it is
\* overdue itself by no more than a check may be late and, during one, may last.
TimersPunctual ==
  ~tm.asleep =>
    \A i \in DOMAIN tm.list :
      LET h == tm.list[i].h
          interval == CASE h = "tcp" -> TCP_TMR_INTERVAL [] h = "once" -> OnceAfter [] OTHER -> Intervals[h]
          wait == (tm.list[i].time - tm.now) % TimeSpace
      IN wait <= interval + MaxLate \/ TimeSpace - wait <= MaxLate * (IF tm.checking THEN 2 ELSE 1)

\* Whoever sleeps for sys_timeouts_sleeptime sleeps past no timeout, and past
\* LWIP_MAX_TIMEOUT (its assertion) neither; it is told not to sleep exactly
\* when some timeout is due.
SleepsInTime ==
  ~tm.asleep /\ tm.list # <<>> =>
    LET d == sys_timeouts_sleeptime(tm)
    IN /\ d <= LWIP_MAX_TIMEOUT
       /\ d = 0 <=> \E i \in DOMAIN tm.list : ~TIME_LESS_THAN(tm.now, tm.list[i].time)
       /\ d > 0 => \A i \in DOMAIN tm.list : ~TIME_LESS_THAN(tm.list[i].time, Later(tm.now, d))

(* The timer list, over wrapping clocks, late checks, sleeping and restarting:    *)
(* no timer is lost or doubled, they are in order, none waits for longer than its *)
(* interval and the delay, and a sleep in between misses none.                    *)
TimersSound == TimersKept /\ TimersSorted /\ TimersPunctual /\ SleepsInTime
=============================================================================
