--------------------------------- MODULE MCLwipCore --------------------------
(* The way of the packets through lwIP for model checking: IP input, the     *)
(* neighbor caches, the timers, the pcb lists and the demultiplexing.  No    *)
(* two of these modules share state: a behaviour is one module's, the one in *)
(* focus, and the others stay in an initial state of theirs.                 *)
EXTENDS LwipIp, LwipNd6, LwipTimeouts, LwipPcbs,
        LwipDemux

VARIABLE focus

vars == <<focus, ip, nd, tm, pc, dm>>

\* Constants that a configuration file cannot write.
PcbPools == [udp |-> 2, raw |-> 2, tcp |-> 2, conn |-> 3, dial |-> 2]
TimerIntervals == [ip |-> 3, nd |-> 2]
SegmentOptions == {<<0>>, <<1>>, <<2, 4, 0, 5>>, <<2, 4, 1, 0>>, <<2, 4, 0, 0>>, <<8, 3, 9>>, <<3, 0>>}

Init ==
  /\ focus \in {"ip", "nd6", "timeouts", "pcbs", "demux"}
  /\ IpInit /\ NdInit /\ TmInit /\ PcbsInit /\ DemuxInit
  /\ focus = "nd6" \/ (nd.plan = "caches" /\ ~nd.autoconfig)
  /\ focus = "timeouts" \/ tm.now = 0
  /\ focus = "pcbs" \/ pc.plan = "udp"

Others ==
  /\ UNCHANGED focus
  /\ focus # "ip" => UNCHANGED ip
  /\ focus # "nd6" => UNCHANGED nd
  /\ focus # "timeouts" => UNCHANGED tm
  /\ focus # "pcbs" => UNCHANGED pc
  /\ focus # "demux" => UNCHANGED dm

Next ==
  \/ focus = "ip" /\ Others /\ IpNext
  \/ focus = "nd6" /\ Others /\ NdNext
  \/ focus = "timeouts" /\ Others /\ TmNext
  \/ focus = "pcbs" /\ Others /\ PcbsNext
  \/ focus = "demux" /\ Others /\ DemuxNext

Spec == Init /\ [][Next]_vars
=============================================================================
