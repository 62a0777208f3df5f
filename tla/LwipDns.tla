------------------------------- MODULE LwipDns ------------------------------
(* The DNS client of lwIP (core/dns.c) with its default options: random      *)
(* transaction ids and source ports, one question for several requests.      *)
(* lwipopts.h leaves it out of the build (LWIP_DNS 0).                       *)
(*                                                                           *)
(* A name is an opaque value and the address of name n of family f is        *)
(* <<n, f>>; how a name is put into a packet and compared is in LwipText.   *)
(* Answers arrive late, twice, or never, from any server and to any question *)
(* that was ever asked.  The found callbacks start no lookup themselves.     *)
EXTENDS Integers, Sequences, FiniteSets, SequencesExt

CONSTANTS DNS_TABLE_SIZE,
          DNS_MAX_REQUESTS,    \* callbacks that wait
          DNS_MAX_SOURCE_PORTS,
          DNS_MAX_RETRIES,
          DNS_MAX_TTL,
          DnsNames, DnsTxids,
          DnsTypes,            \* the types of lookups, of those below
          DnsSeqs              \* 2^8, the sequence numbers of lookups

VARIABLE dns                   \* [plan, tab, req, pcbs, last, seq, server, hosts, right]

ASSUME DnsAssumption ==
  /\ DnsTypes \subseteq {"v4", "v6", "v4v6", "v6v4"}
  /\ DNS_TABLE_SIZE \in Nat \ {0} /\ DNS_MAX_RETRIES \in Nat \ {0}
  /\ DNS_MAX_REQUESTS >= DNS_TABLE_SIZE /\ DNS_MAX_SOURCE_PORTS \in Nat \ {0}
  /\ Cardinality(DnsTxids) >= DNS_TABLE_SIZE

DnsTable == 1 .. DNS_TABLE_SIZE
DnsRequests == 1 .. DNS_MAX_REQUESTS
DnsPorts == 1 .. DNS_MAX_SOURCE_PORTS
DnsServers == 1 .. 2           \* DNS_MAX_SERVERS
NoDnsEntry == [st |-> "UNUSED", name |-> "", type |-> "v4", txid |-> 0, server |-> 1, tmr |-> 0,
               retries |-> 0, seq |-> 0, pcb |-> 0, ip |-> << >>, ttl |-> 0]
NoDnsRequest == [idx |-> 0, name |-> "", type |-> "v4"]     \* idx 0: no callback waits
FirstOf(S) == CHOOSE k \in S : \A j \in S : k <= j

Family(type) == IF type \in {"v6", "v6v4"} THEN "v6" ELSE "v4"
\* The families that answer a lookup of the type.
Families(type) == IF type \in {"v4v6", "v6v4"} THEN {"v4", "v6"} ELSE {type}
Fallback(type) == IF type = "v4v6" THEN "v6" ELSE "v4"
-----------------------------------------------------------------------------
\* The callbacks that wait for entry i are called, with its address or with
\* NULL, and the source port is closed unless another question uses it.
dns_call_found(d, i, ok) ==
  LET mine == {r \in DnsRequests : d.req[r].idx = i}
      ip == d.tab[i].ip
      port == d.tab[i].pcb
      shared == \E j \in DnsTable \ {i} : d.tab[j].st = "ASKING" /\ d.tab[j].pcb = port
  IN [d EXCEPT !.req = [r \in DnsRequests |-> IF r \in mine THEN NoDnsRequest ELSE d.req[r]],
               !.right = @ /\ \A r \in mine : ok => ip[1] = d.req[r].name /\ ip[2] \in Families(d.req[r].type),
               !.tab[i].type = IF ok THEN ip[2] ELSE @, !.tab[i].pcb = 0,
               !.pcbs = IF shared THEN @ ELSE @ \ {port}]

\* The ids for the new question of entry i.  The code draws one at random; one
\* is as good as another, and the least is used again the soonest.
dns_create_txid(d, i) ==
  DnsTxids \ {d.tab[j].txid : j \in {k \in DnsTable \ {i} : d.tab[k].st = "ASKING"}}
dns_backupserver_available(d, i) == d.tab[i].server = 1 /\ d.server[2]

\* The query leaves or not, the timer repeats it; without a server the lookup
\* has failed.
dns_send(d, i) ==
  IF d.server[d.tab[i].server] THEN d ELSE [dns_call_found(d, i, FALSE) EXCEPT !.tab[i] = NoDnsEntry]

dns_check_entry(d, i) ==
  LET e == d.tab[i]
      again == [d EXCEPT !.tab[i].tmr = e.retries + 1, !.tab[i].retries = @ + 1]
      backup == [d EXCEPT !.tab[i].tmr = 1, !.tab[i].retries = 0, !.tab[i].server = 2]
  IN CASE e.st = "NEW" ->
            dns_send([d EXCEPT !.tab[i].txid = FirstOf(dns_create_txid(d, i)), !.tab[i].st = "ASKING", !.tab[i].server = 1,
                               !.tab[i].tmr = 1, !.tab[i].retries = 0], i)
       [] e.st = "ASKING" ->
            IF e.tmr # 1 THEN [d EXCEPT !.tab[i].tmr = @ - 1]
            ELSE IF e.retries + 1 # DNS_MAX_RETRIES THEN dns_send(again, i)
            ELSE IF dns_backupserver_available(d, i) THEN dns_send(backup, i)
            ELSE [dns_call_found(d, i, FALSE) EXCEPT !.tab[i] = NoDnsEntry]
       [] e.st = "DONE" ->
            IF e.ttl <= 1 THEN [d EXCEPT !.tab[i] = NoDnsEntry] ELSE [d EXCEPT !.tab[i].ttl = @ - 1]
       [] OTHER -> d
dns_check_entries(d) ==
  FoldLeft(LAMBDA t, i : dns_check_entry(t, i), d, [i \in DnsTable |-> i])
-----------------------------------------------------------------------------
\* Of an answered question only name, address, age and ttl are still used.
dns_correct_response(d, i, ip, ttl) ==
  LET e == [NoDnsEntry EXCEPT !.st = "DONE", !.name = d.tab[i].name, !.seq = d.tab[i].seq, !.ip = ip,
                              !.pcb = d.tab[i].pcb, !.ttl = IF ttl > DNS_MAX_TTL THEN DNS_MAX_TTL ELSE ttl]
      t == [d EXCEPT !.tab[i] = e]
      u == dns_call_found(t, i, TRUE)
  IN IF u.tab[i].ttl = 0 THEN [u EXCEPT !.tab[i] = NoDnsEntry] ELSE u

\* Does message m answer the question of entry i?
AnswersQuestion_AnyName(d, i, m) ==
  d.tab[i].server = m.server /\ Family(d.tab[i].type) = m.qtype
AnswersQuestion(d, i, m) ==
  d.tab[i].server = m.server /\ d.tab[i].name = m.name /\ Family(d.tab[i].type) = m.qtype

\* The entries that wait for a message with the id.
Asked(d, txid) == {k \in DnsTable : d.tab[k].st = "ASKING" /\ d.tab[k].txid = txid}

\* A message arrives; m.fam is the family of the address in it or "none".
dns_recv(d, m) ==
  LET i == FirstOf(Asked(d, m.txid))
      type == d.tab[i].type
      failed == [dns_call_found(d, i, FALSE) EXCEPT !.tab[i] = NoDnsEntry]
      other == [d EXCEPT !.tab[i].type = Fallback(@), !.tab[i].st = "NEW"]
      hurry == [d EXCEPT !.tab[i].retries = DNS_MAX_RETRIES - 1, !.tab[i].tmr = 1]
  IN IF Asked(d, m.txid) = {} THEN d
     ELSE IF ~AnswersQuestion(d, i, m) THEN d
     ELSE IF m.err THEN IF dns_backupserver_available(d, i) THEN dns_check_entry(hurry, i) ELSE failed
     ELSE IF m.fam = Family(type) THEN dns_correct_response(d, i, <<m.name, m.fam>>, m.ttl)
     ELSE IF type \in {"v4v6", "v6v4"} THEN dns_check_entry(other, i) ELSE failed

\* The source port for a question, 0 for none, and the ports: a new one if it
\* can be opened, or else one that is open, in turn.
dns_alloc_pcb(d, room) ==
  LET closed == DnsPorts \ d.pcbs
      turn(k) == ((d.last - 1 + k) % DNS_MAX_SOURCE_PORTS) + 1
      open == {k \in 1 .. DNS_MAX_SOURCE_PORTS : turn(k) \in d.pcbs}
  IN IF closed # {} /\ room THEN [port |-> FirstOf(closed), pcbs |-> d.pcbs \cup {FirstOf(closed)}]
     ELSE [port |-> IF open = {} THEN 0 ELSE turn(FirstOf(open)), pcbs |-> d.pcbs]

\* The entry for a new question: a free one or the oldest answer, 0 for none.
DnsAge(d, i) == (d.seq - d.tab[i].seq) % DnsSeqs
DnsVictim(d) ==
  LET unused == {i \in DnsTable : d.tab[i].st = "UNUSED"}
      done == {i \in DnsTable : d.tab[i].st = "DONE" /\ DnsAge(d, i) > 0}
      oldest == {i \in done : \A j \in done : DnsAge(d, j) <= DnsAge(d, i)}
  IN IF unused # {} THEN FirstOf(unused) ELSE IF done = {} THEN 0 ELSE FirstOf(oldest)

dns_enqueue(d, name, type, room) ==
  LET free == {r \in DnsRequests : d.req[r].idx = 0}
      same == {i \in DnsTable : d.tab[i].st = "ASKING" /\ d.tab[i].name = name /\ d.tab[i].type = type}
      i == DnsVictim(d)
      p == dns_alloc_pcb(d, room)
      ask == [d EXCEPT !.tab[i] = [NoDnsEntry EXCEPT !.st = "NEW", !.name = name, !.type = type,
                                                     !.seq = d.seq, !.pcb = p.port],
                       !.req[FirstOf(free)] = [idx |-> i, name |-> name, type |-> type],
                       !.pcbs = p.pcbs, !.last = p.port, !.seq = (@ + 1) % DnsSeqs]
  IN IF free = {} THEN d
     ELSE IF same # {}
     THEN [d EXCEPT !.req[FirstOf(free)] = [idx |-> FirstOf(same), name |-> name, type |-> type]]
     ELSE IF i = 0 THEN d
     ELSE IF p.port = 0 THEN [d EXCEPT !.tab[i] = NoDnsEntry]
     ELSE dns_check_entry(ask, i)
-----------------------------------------------------------------------------
\* The addresses that are known of a name, of one family: the local hosts first.
dns_lookup_local(d, name, fam) == {k \in DOMAIN d.hosts : d.hosts[k] = <<name, fam>>}
dns_lookup(d, name, fam) ==
  IF dns_lookup_local(d, name, fam) # {} THEN <<d.hosts[FirstOf(dns_lookup_local(d, name, fam))]>>
  ELSE LET known == {i \in DnsTable : d.tab[i].st = "DONE" /\ d.tab[i].name = name /\ d.tab[i].ip[2] = fam}
       IN IF known = {} THEN << >> ELSE <<d.tab[FirstOf(known)].ip>>
dns_local_addhost(d, ip) == [d EXCEPT !.hosts = <<ip>> \o @]
dns_local_removehost(d, ip) == [d EXCEPT !.hosts = SelectSeq(@, LAMBDA h : h # ip)]

\* The result of the calls that find the address at once is << ip >>.
Found(d, name, type) ==
  LET first == dns_lookup(d, name, Family(type))
  IN IF first # << >> THEN first
     ELSE IF type \in {"v4v6", "v6v4"} THEN dns_lookup(d, name, Fallback(type)) ELSE << >>
dns_gethostbyname_addrtype(d, name, type, room) ==
  LET found == Found(d, name, type)
  IN IF found # << >>
     THEN [d EXCEPT !.right = @ /\ found[1][1] = name /\ found[1][2] \in Families(type)]
     ELSE IF ~d.server[1] THEN d ELSE dns_enqueue(d, name, type, room)
-----------------------------------------------------------------------------
\* A message that repeats a question with an error holds no address.
DnsMessages ==
  {m \in [txid : DnsTxids, server : DnsServers, name : DnsNames, qtype : {"v4", "v6"},
          err : BOOLEAN, fam : {"none", "v4", "v6"}, ttl : {0, DNS_MAX_TTL + 1}] :
     (m.err => m.fam = "none") /\ (m.fam = "none" => m.ttl = 0)}

\* In a behaviour the types of lookups, the servers or the local hosts vary.
DnsInit ==
  dns \in [plan : {"types", "servers", "hosts"}, tab : {[i \in DnsTable |-> NoDnsEntry]},
           req : {[r \in DnsRequests |-> NoDnsRequest]}, pcbs : {{}}, last : {1}, seq : {0},
           server : {[s \in DnsServers |-> TRUE]}, hosts : {<< >>}, right : {TRUE}]

DnsLookup ==
  \E name \in DnsNames, type \in (IF dns.plan = "types" THEN DnsTypes ELSE {"v4"}), room \in BOOLEAN :
     /\ room \/ dns.plan = "servers"
     /\ dns' = dns_gethostbyname_addrtype(dns, name, type, room)
DnsRecv ==
  \E m \in DnsMessages :
     /\ m.qtype = "v6" => dns.plan = "types"
     /\ m.server # 1 => dns.plan = "servers"
     /\ Asked(dns, m.txid) # {}
     /\ dns' = dns_recv(dns, m)
dns_tmr == dns' = dns_check_entries(dns)
dns_setserver == dns.plan = "servers" /\ \E set \in BOOLEAN : dns' = [dns EXCEPT !.server[2] = set]
\* The first server is taken away while questions are out.
DnsNoServer == dns.plan = "servers" /\ dns' = [dns EXCEPT !.server[1] = FALSE, !.server[2] = FALSE]
DnsHosts ==
  dns.plan = "hosts" /\ \E ip \in DnsNames \X {"v4"} :
     dns' = IF dns.hosts = << >> THEN dns_local_addhost(dns, ip) ELSE dns_local_removehost(dns, ip)

DnsNext == DnsLookup \/ DnsRecv \/ dns_tmr \/ dns_setserver \/ DnsNoServer \/ DnsHosts
-----------------------------------------------------------------------------
\* Two questions that are out never have one transaction id (dns_create_txid:
\* an answer would be taken for the first of them), each has a source port that
\* is open, although ports are shared, and no port stays open without one.
QuestionsDistinct ==
  LET asking == {i \in DnsTable : dns.tab[i].st = "ASKING"}
  IN /\ \A i, j \in asking : dns.tab[i].txid = dns.tab[j].txid => i = j
     /\ {dns.tab[i].pcb : i \in asking} = dns.pcbs

\* A callback that waits is owed by a question that is out, is of its name, and
\* has a timer that runs; and no question is out that nobody waits for.
RequestsServed ==
  /\ \A r \in DnsRequests : dns.req[r].idx # 0 =>
       LET e == dns.tab[dns.req[r].idx]
       IN e.st = "ASKING" /\ e.name = dns.req[r].name /\ e.tmr \in 1 .. DNS_MAX_RETRIES
  /\ \A i \in DnsTable : dns.tab[i].st = "ASKING" => \E r \in DnsRequests : dns.req[r].idx = i

\* Who asked for a name gets an address of that name, of a family they asked
\* for, from the cache, the local hosts or the network, whatever arrives when.
RightAddress == dns.right

(* The resolver, over answers that are lost, late, repeated or foreign: questions *)
(* differ, every request is waited for, and gets its own name's address.          *)
DnsSound == QuestionsDistinct /\ RequestsServed /\ RightAddress
=============================================================================
