--------------------------------- MODULE MCServices --------------------------
(* Buffers, memory, fragments, interfaces, conversions and services of lwIP, *)
(* and the parts of the Go program beside the two connection types, for      *)
(* model checking.  No two of these modules share state: a behaviour is one  *)
(* module's, the one in focus, and the others stay in an initial state of    *)
(* theirs.                                                                   *)
EXTENDS LwipReass, LwipPbuf, LwipMem, LwipChksum,
        LwipText, LwipNetif, LwipRoute, LwipAltcp, LwipDns,
        LwipDhcp, LwipDhcp6, LwipArp, LwipGroups,
        DnsCache, WireFormats, ProtectedDial, GvisorProxy

VARIABLE focus

vars == <<focus, reass, pb, hp, ck, tx, nt, rt, al, dns, dh, d6, ar, gr, storage, msgs, asker, now, wf, open, dial, px>>

\* Constants that a configuration file cannot write.
ServerReplies == {<<<<"CLIENTID", 6>>, <<"DNS_SERVERS", 48>>>>, <<<<"DNS_SERVERS", 16>>, <<"SERVERID", 3>>>>}
ElementSizes == <<2, 4, 5>>
HostLabels == {<<"a">>, <<"b">>, <<"a", "b">>}

Init ==
  /\ focus \in {"reass", "pbuf", "mem", "chksum", "text", "netif", "route", "altcp",
               "dns", "dhcp", "dhcp6", "arp", "groups", "cache", "wire",
               "dial", "gvisor"}
  /\ ReassInit /\ PbufInit /\ MemInit /\ ChkInit /\ TextInit /\ NetifInit /\ RtInit
  /\ AltcpInit /\ DnsInit /\ DhcpInit /\ Dhcp6Init /\ ArpInit /\ GroupInit
  /\ NewDNSCache /\ WireInit /\ DialInit /\ GpxInit
  /\ focus = "reass" \/ reass.ver = 4
  /\ focus = "netif" \/ nt.plan = "list"
  /\ focus = "route" \/ (rt.ver = 4 /\ Cardinality(Ifs(rt)) = 2 /\ rt.nif[2].bcast)
  /\ focus = "dns" \/ dns.plan = "types"
  /\ focus = "dhcp" \/ dh.plan = CHOOSE p \in DhcpPlans : TRUE
  /\ focus = "arp" \/ ar.plan = CHOOSE p \in ArpPlans : TRUE
  /\ focus = "groups" \/ (gr.proto = "mld" /\ gr.nets = GroupNetifs)
  /\ focus = "dhcp6" \/ ~d6.mem
  /\ px[1].proto = "tcp"         \* the flows are alike and two of UDP share nothing
  /\ focus = "gvisor" \/ px[2].proto = "tcp"

Others ==
  /\ UNCHANGED focus
  /\ focus # "reass" => UNCHANGED reass
  /\ focus # "pbuf" => UNCHANGED pb
  /\ focus # "mem" => UNCHANGED hp
  /\ focus # "chksum" => UNCHANGED ck
  /\ focus # "text" => UNCHANGED tx
  /\ focus # "netif" => UNCHANGED nt
  /\ focus # "route" => UNCHANGED rt
  /\ focus # "altcp" => UNCHANGED al
  /\ focus # "dns" => UNCHANGED dns
  /\ focus # "dhcp" => UNCHANGED dh
  /\ focus # "dhcp6" => UNCHANGED d6
  /\ focus # "arp" => UNCHANGED ar
  /\ focus # "groups" => UNCHANGED gr
  /\ focus # "cache" => UNCHANGED <<storage, msgs, asker, now>>
  /\ focus # "wire" => UNCHANGED wf
  /\ focus # "dial" => UNCHANGED <<open, dial>>
  /\ focus # "gvisor" => UNCHANGED px

Next ==
  \/ focus = "reass" /\ Others /\ ReassNext
  \/ focus = "pbuf" /\ Others /\ PbufNext
  \/ focus = "mem" /\ Others /\ MemNext
  \/ focus = "chksum" /\ Others /\ ChkNext
  \/ focus = "text" /\ Others /\ TextNext
  \/ focus = "netif" /\ Others /\ NetifNext
  \/ focus = "route" /\ Others /\ RtNext
  \/ focus = "altcp" /\ Others /\ AltcpNext
  \/ focus = "dns" /\ Others /\ DnsNext
  \/ focus = "dhcp" /\ Others /\ DhcpNext
  \/ focus = "dhcp6" /\ Others /\ Dhcp6Next
  \/ focus = "arp" /\ Others /\ ArpNext
  \/ focus = "groups" /\ Others /\ GroupNext
  \/ focus = "cache" /\ Others /\ CacheNext
  \/ focus = "wire" /\ Others /\ WireNext
  \/ focus = "dial" /\ Others /\ DialNext
  \/ focus = "gvisor" /\ Others /\ GpxNext

Spec == Init /\ [][Next]_vars

(* Every conversion agrees with what it is defined by: the checksums of data   *)
(* and of chains with the sum of their words, texts and names with what they   *)
(* denote, options with themselves however they are cut, and the SOCKS and     *)
(* UDP formats with the addresses and payloads that went in.                   *)
ConversionsExact ==
  /\ ChksumsAgree /\ ChainsAgree
  /\ Ip6RoundTrip /\ Ip4Denotes /\ MaskContiguous /\ DnsNamesRead /\ DhcpCutInvisible /\ ItoaFits
  /\ UdpRoundTrip /\ SocksAddrsAgree

(* Interfaces: their list, configuration and own packets, and the routes of    *)
(* packets between them.                                                       *)
InterfacesSound == NetifSound /\ RoutesSound

(* The clients of both DHCP versions, each with its shared pcb and its timers. *)
DhcpClientsSound == DhcpSound /\ Dhcp6Sound
=============================================================================
