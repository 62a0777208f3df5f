------------------------------- MODULE LwipText ------------------------------
(* Conversions between numbers and text: IPv4 and IPv6 addresses (ip4_addr.c, *)
(* ip6_addr.c, ip.c), which carry the addresses of every connection between   *)
(* lwIP and the Go code (addr.go), names in DNS messages (dns.c), the options *)
(* of a DHCP reply (dhcp.c) and lwip_itoa (def.c).                            *)
(* The text of an address is a sequence of tokens: colons, and the values of  *)
(* groups of digits. Which digits a value is printed with is left out.        *)
EXTENDS Integers, FiniteSets, Sequences, SequencesExt, TLC

CONSTANTS
  Octet,        \* values of an octet of an IPv4 address
  Octets,       \* the ones tried
  MaskBits,     \* width of a netmask
  DnsLabels,    \* labels of names
  DhcpCuts      \* lengths of the first pbuf of a DHCP reply tried

ASSUME TextAssumption == Octet \in Nat \ {0, 1} /\ MaskBits \in Nat /\ DhcpCuts \subseteq Nat

VARIABLE tx
\* tx.job   which conversion is looked at, with its inputs

Up(n) == [i \in 1 .. n |-> i]
SeqsTo(S, n) == UNION {[1 .. k -> S] : k \in 0 .. n}
Zeros(n) == [i \in 1 .. n |-> 0]

-------------------------------------------------------------------------------
(* IPv6. An address is its eight blocks; behind is the block that lies behind *)
(* it in memory (the zone and padding): ip6addr_ntoa_r looks at it when the   *)
(* last block is zero. FFFF stands for 0xFFFF.                                *)
FFFF == 65535
Colon == <<>>
Block(n) == <<n>>
DottedQuad(m, n) == <<m, n>>
IsBlock(t) == Len(t) = 1
IsDotted(t) == Len(t) = 2

IsMapped(a) == SubSeq(a, 1, 6) = <<0, 0, 0, 0, 0, FFFF>>

(* One turn of the loop of ip6addr_ntoa_r: o.text is the text so far, o.flag  *)
(* is empty_block_flag. Two zero blocks in a row start the empty block.       *)

NtoaBlock(a, behind, o, k) ==
  LET next == IF k = 8 THEN behind ELSE a[k + 1]
      Written(p) == [p EXCEPT !.text = @ \o (IF k > 1 THEN <<Colon>> ELSE <<>>) \o <<Block(a[k])>>]
  IN
  CASE a[k] = 0 /\ k = 8 /\ o.flag = 1 -> [o EXCEPT !.text = Append(@, Colon)]
    [] a[k] = 0 /\ o.flag = 0 /\ next = 0 -> [text |-> Append(o.text, Colon), flag |-> 1]
    [] a[k] = 0 /\ k # 8 /\ o.flag = 1 -> o
    [] OTHER -> Written([o EXCEPT !.flag = IF a[k] # 0 /\ @ = 1 THEN 2 ELSE @])

(* A mapped IPv4 address ends in dotted form, here the token of its two       *)
(* blocks.                                                                    *)
ip6addr_ntoa_r(a, behind) ==
  IF IsMapped(a) THEN <<Colon, Colon, Block(FFFF), Colon, DottedQuad(a[7], a[8])>>
  ELSE FoldLeft(LAMBDA o, k : NtoaBlock(a, behind, o, k), [text |-> <<>>, flag |-> 0], Up(8)).text

(* ip6addr_aton. The first pass counts the blocks that an empty block stands  *)
(* for; -1 is a dotted part in the wrong place.                               *)
Colons(t) == Len(SelectSeq(t, LAMBDA x : x = Colon))

zero_blocks(t) ==
  LET n == 8 - Colons(t) IN
  IF \A i \in DOMAIN t : ~IsDotted(t[i]) THEN n
  ELSE IF n \in {5, 2} THEN n - 1 ELSE -1

(* The second pass: p.blk the blocks stored, p.idx current_block_index, p.val *)
(* current_block_value, p.end the verdict once it is reached. The token after *)
(* an empty block is skipped (s++ in the code).                               *)
StoreText(p) == [p EXCEPT !.blk[p.idx + 1] = p.val]

AtColon(t, p, i) ==
  LET q == [StoreText(p) EXCEPT !.idx = p.idx + 1, !.val = 0]
      After(k) == IF i + k <= Len(t) THEN t[i + k] ELSE Block(0)
      z == zero_blocks(t)
  IN
  CASE q.idx = 6 /\ i < Len(t) /\ IsDotted(t[i + 1]) ->
         [q EXCEPT !.blk[7] = t[i + 1][1], !.blk[8] = t[i + 1][2], !.idx = 7, !.end = "ok"]
    [] q.idx > 7 -> [q EXCEPT !.end = "bad"]
    [] q.idx <= 7 /\ After(1) = Colon ->
         IF After(2) = Colon \/ (z > 0 /\ q.idx + z > 7) THEN [q EXCEPT !.end = "bad"]
         ELSE [q EXCEPT !.blk = [k \in 1 .. 8 |-> IF k \in q.idx + 1 .. q.idx + z THEN 0 ELSE @[k]],
                        !.idx = q.idx + (IF z > 0 THEN z ELSE 0), !.skip = TRUE]
    [] OTHER -> q

AtonToken(t, p, i) ==
  CASE p.end # "" -> p
    [] p.end = "" /\ p.skip -> [p EXCEPT !.skip = FALSE]
    [] p.end = "" /\ ~p.skip /\ t[i] = Colon -> AtColon(t, p, i)
    [] p.end = "" /\ ~p.skip /\ IsBlock(t[i]) -> [p EXCEPT !.val = t[i][1]]
    [] OTHER -> [p EXCEPT !.end = "bad"]

ip6addr_aton(t) ==
  LET start == [blk |-> Zeros(8), idx |-> 0, val |-> 0, skip |-> FALSE, end |-> ""]
      p == FoldLeft(LAMBDA q, i : AtonToken(t, q, i), start, Up(Len(t)))
  IN
  CASE zero_blocks(t) < 0 \/ p.end = "bad" -> <<>>
    [] p.end = "ok" -> p.blk
    [] OTHER -> IF p.idx = 7 THEN StoreText(p).blk ELSE <<>>

(* net.IP.String, which udp_conn.go hands to ip6addr_aton: the first of the   *)
(* longest runs of at least two zero blocks is left out, and a mapped address *)
(* is dotted alone (and goes to ip4addr_aton).                                *)
GoText(a) ==
  LET Run(i, n) == n >= 2 /\ \A k \in i .. i + n - 1 : a[k] = 0
      runs == {r \in (1 .. 8) \X (2 .. 8) : r[1] + r[2] <= 9 /\ Run(r[1], r[2])}
      Best(r) == \A q \in runs : q[2] < r[2] \/ (q[2] = r[2] /\ q[1] >= r[1])
      Blocks(i, j) == FlattenSeq([k \in 1 .. (IF j < i THEN 0 ELSE j - i + 1) |->
                        IF k = 1 THEN <<Block(a[i])>> ELSE <<Colon, Block(a[i + k - 1])>>])
  IN  IF runs = {} THEN Blocks(1, 8)
      ELSE LET r == CHOOSE x \in runs : Best(x) IN
           Blocks(1, r[1] - 1) \o <<Colon, Colon>> \o Blocks(r[1] + r[2], 8)

-------------------------------------------------------------------------------
(* IPv4: ip4addr_aton takes one to four parts; the last one fills the octets  *)
(* that are left, the others are an octet each. <<>> is a failure.            *)

ip4addr_aton(parts) ==
  LET n == Len(parts)
      Octs(v, k) == [i \in 1 .. k |-> (v \div Octet ^ (k - i)) % Octet]
  IN
  IF n = 0 \/ n > 4 \/ (n > 1 /\ parts[n] >= Octet ^ (5 - n))
           \/ (\E i \in 1 .. n - 1 : parts[i] >= Octet)
  THEN <<>>
  ELSE SubSeq(parts, 1, n - 1) \o Octs(parts[n] % Octet ^ 4, 5 - n)

ip4addr_ntoa_r(a) == a

(* ip4_addr_netmask_valid: the first loop stops at the first zero bit, the    *)
(* second refuses a one behind it.                                            *)
FirstZero(m) ==
  LET z == {i \in DOMAIN m : m[i] = 0} IN
  IF z = {} THEN Len(m) + 1 ELSE CHOOSE i \in z : \A j \in z : i <= j

ip4_addr_netmask_valid(m) == \A i \in FirstZero(m) .. Len(m) : m[i] = 0

-------------------------------------------------------------------------------
(* DNS names: a name is its labels, text the same with dots. dns_send writes  *)
(* each label behind its length and a zero at the end.                        *)
Dotted(name) ==
  FlattenSeq([i \in DOMAIN name |-> IF i = 1 THEN name[1] ELSE <<".">> \o name[i]])

dns_send_name(name) ==
  FlattenSeq([i \in DOMAIN name |-> <<Len(name[i])>> \o name[i]]) \o <<0>>

(* dns_skip_name and dns_compare_name walk the labels of message m from at;   *)
(* the value is the offset behind the name, 0 for a failure. The query moves  *)
(* one character per byte of the message, so that the label at offset o is    *)
(* compared with the query from o - at on, whatever separates its labels;     *)
(* what lies behind the query's end compares equal to nothing. A length with  *)
(* both high bits set is a pointer of two bytes, which ends a name: skipped   *)
(* over, and never equal.                                                     *)
DnsPointer == 192

Walk(m, at, pointers, Ok(_)) ==
  LET Step(w, i) ==
        IF w.at = 0 \/ w.done THEN w
        ELSE IF m[w.at] >= DnsPointer
        THEN [at |-> IF pointers THEN w.at + 1 ELSE 0, done |-> TRUE]
        ELSE LET next == w.at + m[w.at] + 1 IN
             IF next > Len(m) \/ ~Ok(w.at) THEN [at |-> 0, done |-> TRUE]
             ELSE [at |-> next, done |-> m[next] = 0]
      end == FoldLeft(Step, [at |-> at, done |-> FALSE], Up(Len(m))).at
  IN  IF end = 0 THEN 0 ELSE end + 1

dns_skip_name(m, at) == Walk(m, at, TRUE, LAMBDA o : TRUE)

dns_compare_name(query, m, at) ==
  Walk(m, at, FALSE, LAMBDA o : \A k \in 1 .. m[o] :
                 o - at + k <= Len(query) /\ query[o - at + k] = m[o + k])

-------------------------------------------------------------------------------
(* The options of a DHCP reply: dhcp_parse_reply over a chain of at most two  *)
(* pbufs (options that the file and sname fields hold are left out). A kind   *)
(* has a length it must have, a length that is decoded and a place for it.    *)
OptEnd == 255
OptPad == 0
DhcpKinds ==
  (53 :> [ok |-> {1}, decode |-> 1]) @@          \* DHCP_OPTION_MESSAGE_TYPE
  (51 :> [ok |-> {4}, decode |-> 4]) @@          \* DHCP_OPTION_LEASE_TIME
  (3 :> [ok |-> 4 .. 255, decode |-> 4]) @@      \* DHCP_OPTION_ROUTER
  (6 :> [ok |-> {4 * i : i \in 0 .. 63}, decode |-> 8])   \* DHCP_OPTION_DNS_SERVER, two places

Least(a, b) == IF a < b THEN a ELSE b
From(chain, q, at, n) == SubSeq(FlattenSeq(SubSeq(chain, q, Len(chain))), at + 1, at + n)

(* The options an option of kind op sets, of those not given yet: a word per  *)
(* place. <<>> when the message is too short for them.                        *)
Decoded(chain, d, op, len) ==
  LET n == Least(len, DhcpKinds[op].decode)
      words == [k \in 1 .. (n + 3) \div 4 |-> From(chain, d.q, d.at + 2 + 4 * (k - 1), Least(n, 4))]
      Given(k) == \E g \in d.got : g[1] = op /\ g[2] = k
      first == {k \in DOMAIN words : Given(k)}
      new == {k \in DOMAIN words : \A j \in first : k < j}
  IN  IF \E k \in new : Len(words[k]) < Least(n, 4) THEN <<>>
      ELSE <<d.got \cup {<<op, k, words[k]>> : k \in new}>>

(* The length of an option may lie in the next pbuf. *)

OptionLen(chain, d) ==
  CASE d.at + 1 < Len(chain[d.q]) -> chain[d.q][d.at + 2]
    [] d.at + 1 >= Len(chain[d.q]) /\ d.q < Len(chain) -> chain[d.q + 1][1]
    [] OTHER -> 0

(* Behind an option: the offset moves, into the next pbuf where necessary. *)
Advance(chain, d, n) ==
  LET at == d.at + n
      len == Len(chain[d.q])
      next == [d EXCEPT !.q = @ + 1, !.at = at - len, !.max = @ - len]
  IN
  CASE at < len -> [d EXCEPT !.at = at]
    [] at >= len /\ next.at >= next.max -> [d EXCEPT !.end = "ERR_BUF"]
    [] OTHER -> IF d.q = Len(chain) THEN [d EXCEPT !.end = "ERR_VAL"] ELSE next

ParseOption(chain, d, i) ==
  LET b == chain[d.q]
      op == b[d.at + 1]
      len == OptionLen(chain, d)
      got == Decoded(chain, d, op, len)
  IN
  CASE d.end # "" -> d
    [] d.end = "" /\ (d.at >= d.max \/ op = OptEnd) -> [d EXCEPT !.end = "ERR_OK"]
    [] d.end = "" /\ d.at < d.max /\ op = OptPad -> Advance(chain, d, 1)
    [] d.end = "" /\ d.at < d.max /\ op \notin DOMAIN DhcpKinds \cup {OptEnd, OptPad} ->
         Advance(chain, d, len + 2)
    [] OTHER -> CASE len \notin DhcpKinds[op].ok -> [d EXCEPT !.end = "ERR_VAL"]
                  [] got = <<>> -> [d EXCEPT !.end = "ERR_BUF"]
                  [] OTHER -> Advance(chain, [d EXCEPT !.got = got[1]], len + 2)

(* The options begin at offset start of the message. *)
dhcp_parse_reply(chain, start) ==
  LET total == Len(FlattenSeq(chain))
      first == IF start >= Len(chain[1])
               THEN [q |-> 2, at |-> start - Len(chain[1]), max |-> total - Len(chain[1])]
               ELSE [q |-> 1, at |-> start, max |-> total]
      d == FoldLeft(LAMBDA x, i : ParseOption(chain, x, i),
                    [end |-> "", got |-> {}] @@ first, Up(total + 1))
  IN  <<d.end, IF d.end = "ERR_OK" THEN d.got ELSE {}>>

-------------------------------------------------------------------------------
(* lwip_itoa: the digits are written from the end of the buffer and moved to  *)
(* its beginning; "" is left behind when they do not fit.                     *)
Digits(n) ==
  LET w == CHOOSE k \in 1 .. 9 : n < 10 ^ k /\ (k = 1 \/ n >= 10 ^ (k - 1)) IN
  [i \in 1 .. w |-> (n \div 10 ^ (w - i)) % 10]

lwip_itoa(size, number) ==
  LET n == IF number < 0 THEN -number ELSE number
      room == size - 1 - (IF number < 0 THEN 1 ELSE 0)   \* bytes between res and tmp
  IN
  CASE size < 2 -> <<>>
    [] size >= 2 /\ n = 0 -> <<0>>
    [] OTHER -> IF Len(Digits(n)) > room THEN <<>>
                ELSE IF number < 0 THEN <<"-">> \o Digits(n) ELSE Digits(n)

-------------------------------------------------------------------------------
TextInit == tx = [job |-> "none"]

Addresses6 ==
  [1 .. 8 -> {0, 1}] \cup {<<0, 0, 0, 0, 0, FFFF, x, y>> : x, y \in {0, 1}}

Ip6 == \E a \in Addresses6, b \in {0, 1} : tx' = [job |-> "ip6", addr |-> a, behind |-> b]
Ip4 == \E p \in SeqsTo(Octets, 4) : tx' = [job |-> "ip4", parts |-> p]
Mask == \E m \in [1 .. MaskBits -> {0, 1}] : tx' = [job |-> "mask", mask |-> m]
DnsName ==
  \E x, y \in SeqsTo(DnsLabels, 3) \ {<<>>}, n \in 0 .. 2 :
    \E end \in {<<0>>, <<DnsPointer, 12>>} :
      tx' = [job |-> "dns", query |-> x, name |-> y, before |-> n, end |-> end]
Itoa ==
  \E size \in 0 .. 5, number \in {-1000, -999, -99, -1, 0, 1, 9, 10, 999, 1000, 9999} :
    tx' = [job |-> "itoa", size |-> size, number |-> number]

(* A reply: the bytes before the options, up to two options, and their end.   *)
(* The bytes of a value tell its places apart.                                *)
DhcpOption(o) == <<o[1], o[2]>> \o [i \in 1 .. o[2] |-> 10 * o[1] + i]
DhcpOptionSet == {<<53, 1>>, <<51, 4>>, <<3, 8>>, <<6, 8>>, <<99, 2>>}
DhcpReply ==
  \E os \in SeqsTo(DhcpOptionSet, 2), pad \in 0 .. 1, cut \in DhcpCuts :
    LET r == <<7, 7>> \o Zeros(pad) \o FlattenSeq([i \in DOMAIN os |-> DhcpOption(os[i])])
             \o <<OptEnd>>
    IN  /\ cut < Len(r)
        /\ tx' = [job |-> "dhcp", reply |-> r, cut |-> cut]

TextNext == tx.job = "none" /\ (Ip6 \/ Ip4 \/ Mask \/ DnsName \/ DhcpReply \/ Itoa)

-------------------------------------------------------------------------------
(* An IPv6 address survives the way to text and back, whatever blocks are     *)
(* zero and whatever lies behind the address in memory; and ip6addr_aton      *)
(* reads the text that the Go side writes.                                    *)
Ip6RoundTrip ==
  tx.job = "ip6" =>
    /\ ip6addr_aton(ip6addr_ntoa_r(tx.addr, tx.behind)) = tx.addr
    /\ ~IsMapped(tx.addr) => ip6addr_aton(GoText(tx.addr)) = tx.addr

(* ip4addr_aton accepts exactly the parts that fit, and the address it gives  *)
(* is the number they denote; printing and reading an address changes nothing.*)
Ip4Denotes ==
  tx.job = "ip4" =>
    LET a == ip4addr_aton(tx.parts)
        n == Len(tx.parts)
        Number(x) == FoldLeft(LAMBDA v, o : v * Octet + o, 0, x)
    IN  /\ a # <<>> <=> /\ n > 0
                        /\ \A i \in 1 .. n - 1 : tx.parts[i] < Octet
                        /\ n > 1 => tx.parts[n] < Octet ^ (5 - n)
        /\ a # <<>> => /\ Len(a) = 4
                       /\ Number(a) = (Number(SubSeq(tx.parts, 1, n - 1)) * Octet ^ (5 - n)
                                       + tx.parts[n]) % Octet ^ 4
                       /\ ip4addr_aton(ip4addr_ntoa_r(a)) = a

(* A netmask is valid exactly when no one follows a zero. *)
MaskContiguous ==
  tx.job = "mask" =>
    (ip4_addr_netmask_valid(tx.mask) <=>
       \E k \in 0 .. MaskBits : \A i \in 1 .. MaskBits : tx.mask[i] = 1 <=> i <= k)

(* A name written by dns_send is recognised by dns_compare_name and passed    *)
(* over by dns_skip_name, which agree on where it ends; so is one that ends   *)
(* in a pointer.                                                              *)
DnsNamesRead ==
  tx.job = "dns" =>
    LET whole == dns_send_name(tx.name)
        m == Zeros(tx.before) \o SubSeq(whole, 1, Len(whole) - 1) \o tx.end
        at == tx.before + 1
        found == dns_compare_name(Dotted(tx.query), m, at)
    IN  /\ dns_skip_name(m, at) = Len(m) + 1
        /\ tx.query = tx.name /\ tx.end = <<0>> => found = Len(m) + 1
        /\ found # 0 => found = dns_skip_name(m, at)

(* The options read from a DHCP reply do not depend on where the reply is cut *)
(* into two pbufs, in front of the options or between any two bytes of them.  *)
DhcpCutInvisible ==
  tx.job = "dhcp" =>
    LET r == tx.reply IN
    dhcp_parse_reply(<<SubSeq(r, 1, tx.cut), SubSeq(r, tx.cut + 1, Len(r))>>, 2)
      = dhcp_parse_reply(<<r>>, 2)

(* lwip_itoa writes the number exactly when it and the final zero fit. *)
ItoaFits ==
  tx.job = "itoa" =>
    LET n == IF tx.number < 0 THEN -tx.number ELSE tx.number
        full == (IF tx.number < 0 THEN <<"-">> ELSE <<>>) \o Digits(n)
    IN  lwip_itoa(tx.size, tx.number) = IF Len(full) < tx.size THEN full ELSE <<>>
===============================================================================
