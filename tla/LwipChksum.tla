------------------------------ MODULE LwipChksum -----------------------------
(* The Internet checksum of inet_chksum.c: the three implementations of       *)
(* lwip_standard_chksum (the build uses the second, LWIP_CHKSUM_ALGORITHM 2), *)
(* and the sums over chains of pbufs and pseudo headers, against the          *)
(* ones'-complement sum they stand for. The host is little endian. Bytes have *)
(* Base values, a u16_t two of them and a u32_t four, so that sums overflow   *)
(* as in the code while the inputs stay few.                                  *)
EXTENDS Integers, Sequences, SequencesExt

CONSTANTS
  Base,         \* values of a byte
  ChkShort,     \* data up to this length take every value,
  ChkLong,      \* data up to this length only the extreme bytes
  ChkPbufs      \* bytes spread over pbufs in the checks of chains

ASSUME ChksumAssumption == {Base, ChkShort, ChkLong, ChkPbufs} \subseteq Nat \ {0}

VARIABLE ck
\* ck.job   which computation is looked at, with its inputs

Word == Base * Base
U32 == Word * Word

(* FOLD_U32T, SWAP_BYTES_IN_WORD (which also drops what lies above the word)  *)
(* and the complement of a u16_t.                                             *)
FOLD_U32T(x) == (x \div Word) + (x % Word)
SWAP_BYTES_IN_WORD(x) == (x % Base) * Base + ((x % Word) \div Base)
Complement(x) == Word - 1 - (x % Word)

SumOf(s) == FoldLeft(LAMBDA a, b : a + b, 0, s)

(* The u16_t values of the bytes d in memory, and what a last odd byte        *)
(* counts for in the lower or the upper half of t.                            *)
Words(d) == [i \in 1 .. Len(d) \div 2 |-> d[2 * i - 1] + Base * d[2 * i]]
LastByte(d) == IF Len(d) % 2 = 1 THEN d[Len(d)] ELSE 0

(* Version 1: network order, byte by byte, swapped at the end. *)
chksum1(d) ==
  LET acc == SumOf([i \in 1 .. Len(d) \div 2 |-> Base * d[2 * i - 1] + d[2 * i]])
             + Base * LastByte(d)
      a == FOLD_U32T(acc)
  IN  SWAP_BYTES_IN_WORD(IF a >= Word THEN FOLD_U32T(a) ELSE a)

(* Version 2: words as they lie in memory; from an odd address the first byte *)
(* goes to the upper half of t and the sum is swapped back.                   *)
chksum2(d, at) ==
  LET odd == at % 2 = 1
      head == IF odd /\ d # <<>> THEN Base * Head(d) ELSE 0
      rest == IF odd /\ d # <<>> THEN Tail(d) ELSE d
      sum == FOLD_U32T(FOLD_U32T((SumOf(Words(rest)) + head + LastByte(rest)) % U32))
  IN  IF odd THEN SWAP_BYTES_IN_WORD(sum) ELSE sum

(* Version 3: the same with two u32_t at a time and their carries. *)

AddCarry(sum, x) ==
  LET tmp == (sum + x) % U32 IN IF tmp < sum THEN tmp + 1 ELSE tmp

chksum3(d, at) ==
  LET odd == at % 2 = 1
      head == IF odd /\ d # <<>> THEN Base * Head(d) ELSE 0
      even == IF odd /\ d # <<>> THEN Tail(d) ELSE d
      \* ps is aligned to two bytes here; one word more if not to four
      one == (at + Len(d) - Len(even)) % 4 # 0 /\ Len(even) > 1
      first == IF one THEN even[1] + Base * even[2] ELSE 0
      body == IF one THEN SubSeq(even, 3, Len(even)) ELSE even
      longs == 2 * (Len(body) \div 8)
      Long(i) == body[4 * i - 3] + Base * body[4 * i - 2]
                 + Word * (body[4 * i - 1] + Base * body[4 * i])
      sum == FoldLeft(LAMBDA a, i : AddCarry(a, Long(i)), first, [i \in 1 .. longs |-> i])
      rest == SubSeq(body, 4 * longs + 1, Len(body))
      all == FOLD_U32T(sum) + SumOf(Words(rest)) + head + LastByte(rest)
      folded == FOLD_U32T(FOLD_U32T(all % U32))
  IN  IF odd THEN SWAP_BYTES_IN_WORD(folded) ELSE folded

(* A chain is a sequence of pieces of data. The loop over its pbufs: add the  *)
(* sum of each, swap the accumulator behind a pbuf of odd length, and swap it *)
(* back at the end if it is swapped then.                                     *)
ChainStep(a, d) ==
  LET acc == FOLD_U32T(a.acc + chksum2(d.sum, 0)) IN
  IF d.len % 2 = 0 THEN [a EXCEPT !.acc = acc]
  ELSE [acc |-> SWAP_BYTES_IN_WORD(acc), swapped |-> ~a.swapped]

ChainSum_StaysSwapped(acc, chain) ==
  FoldLeft(ChainStep, [acc |-> acc, swapped |-> FALSE], chain).acc

ChainSum(acc, chain) ==
  LET a == FoldLeft(ChainStep, [acc |-> acc, swapped |-> FALSE], chain) IN
  IF a.swapped THEN SWAP_BYTES_IN_WORD(a.acc) ELSE a.acc

Whole(chain) == [i \in DOMAIN chain |-> [sum |-> chain[i], len |-> Len(chain[i])]]

(* inet_chksum_pbuf *)
inet_chksum_pbuf(chain) == Complement(ChainSum(0, Whole(chain)))

(* inet_cksum_pseudo_base: acc is the sum over the addresses. *)
inet_cksum_pseudo_base(chain, proto, acc) ==
  LET len == Len(FlattenSeq(chain))
      a == ChainSum(acc, Whole(chain)) + SWAP_BYTES_IN_WORD(proto) + SWAP_BYTES_IN_WORD(len)
  IN  Complement(FOLD_U32T(FOLD_U32T(a)))

(* inet_cksum_pseudo_partial_base: only the first n bytes of the chain, cut   *)
(* from the pbuf in which they end; later pbufs are not looked at.            *)
Firsts(chain, n) ==
  LET Before(i) == SumOf([k \in 1 .. i - 1 |-> Len(chain[k])])
      used == SelectSeq([k \in DOMAIN chain |-> k], LAMBDA k : Before(k) < n)
      Clip(i) == SubSeq(chain[i], 1, IF n - Before(i) < Len(chain[i]) THEN n - Before(i)
                                     ELSE Len(chain[i]))
  IN  [k \in DOMAIN used |-> [sum |-> Clip(used[k]), len |-> Len(chain[used[k]])]]

inet_cksum_pseudo_partial_base(chain, proto, n, acc) ==
  LET len == Len(FlattenSeq(chain))
      a == ChainSum(acc, Firsts(chain, n)) + SWAP_BYTES_IN_WORD(proto) + SWAP_BYTES_IN_WORD(len)
  IN  Complement(FOLD_U32T(FOLD_U32T(a)))

(* The address parts of inet_chksum_pseudo and ip6_chksum_pseudo: the words   *)
(* of both addresses, folded.                                                 *)
chksum_addresses(words) == FOLD_U32T(FOLD_U32T(SumOf(words)))

SeqsUpTo(S, n) == UNION {[1 .. k -> S] : k \in 0 .. n}
ChkData == SeqsUpTo(0 .. Base - 1, ChkShort) \cup SeqsUpTo({0, Base - 1}, ChkLong)
ChkPieces == SeqsUpTo({0, Base - 1}, ChkPbufs)

ChkInit == ck = [job |-> "none"]

ChkStandard ==
  \E d \in ChkData, at \in 0 .. 3 : ck' = [job |-> "standard", data |-> d, at |-> at]

(* Every way to lay data over three pbufs, and to ask for its first n bytes. *)
ChkChain ==
  \E d \in ChkPieces : \E i \in 0 .. Len(d) : \E j \in i .. Len(d), n \in 1 .. Len(d),
    proto \in {1, Word - 1}, words \in {<<0, 0>>, <<1, Word - 1>>, <<Word - 1, Word - 1>>} :
    ck' = [job |-> "chain", n |-> n, proto |-> proto, words |-> words,
           chain |-> <<SubSeq(d, 1, i), SubSeq(d, i + 1, j), SubSeq(d, j + 1, Len(d))>>]

ChkNext == ck.job = "none" /\ (ChkStandard \/ ChkChain)

-------------------------------------------------------------------------------
(* The reference: the ones'-complement sum of words, in which a sum is zero   *)
(* only when every word is; data of odd length are padded with a zero byte.   *)
OnesSum(words) ==
  LET s == SumOf(words) IN IF s = 0 THEN 0 ELSE ((s - 1) % (Word - 1)) + 1

Padded(d) == Words(IF Len(d) % 2 = 0 THEN d ELSE Append(d, 0))

(* The three versions compute the ones'-complement sum of the data, from any  *)
(* alignment of the data in memory.                                           *)
ChksumsAgree ==
  ck.job = "standard" =>
    \A v \in {chksum1(ck.data), chksum2(ck.data, ck.at), chksum3(ck.data, ck.at)} :
      v = OnesSum(Padded(ck.data))

(* The checksum of a packet does not depend on how its bytes are spread over  *)
(* pbufs, odd lengths and empty pbufs included: the sums over chains are the  *)
(* complement of the ones'-complement sum of addresses, payload (or its first *)
(* n bytes), protocol and length.                                             *)
ChainsAgree ==
  ck.job = "chain" =>
    LET d == FlattenSeq(ck.chain)
        acc == chksum_addresses(ck.words)
        extra == <<SWAP_BYTES_IN_WORD(ck.proto), SWAP_BYTES_IN_WORD(Len(d))>>
        Ref(bytes, more) == Complement(OnesSum(Padded(bytes) \o more))
    IN  /\ inet_chksum_pbuf(ck.chain) = Ref(d, <<>>)
        /\ inet_cksum_pseudo_base(ck.chain, ck.proto, acc) = Ref(d, extra \o ck.words)
        /\ inet_cksum_pseudo_partial_base(ck.chain, ck.proto, ck.n, acc)
             = Ref(SubSeq(d, 1, ck.n), extra \o ck.words)
===============================================================================
