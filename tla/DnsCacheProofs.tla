--------------------------- MODULE DnsCacheProofs ---------------------------
(* Proofs about DnsCache, for any number of concurrent calls of ReceiveTo,   *)
(* any questions and any number of stored responses.                         *)
EXTENDS DnsCache, TLAPS

Messages == [q : Questions, id : AskIds, exp : Int]
Hits == [pc : {"hit"}, q : Questions, id : AskIds, msg : Nat, at : Int, alone : BOOLEAN]
Packed == [pc : {"packed"}, q : Questions, id : AskIds, at : Int, alone : BOOLEAN, got : Messages]

\* An entry of the cache is a response to the question it is found by.
StorageSound ==
  \A k \in Questions :
    storage[k] # 0 => storage[k] \in DOMAIN msgs /\ msgs[storage[k]].q = k

\* The message Query has handed out answers the question, had not expired, and
\* keeps the caller's Id as long as no other call is given it.
HitsSound ==
  \A a \in Askers : asker[a].pc = "hit" =>
    /\ asker[a].msg \in DOMAIN msgs
    /\ msgs[asker[a].msg].q = asker[a].q
    /\ asker[a].at <= msgs[asker[a].msg].exp
    /\ asker[a].alone => msgs[asker[a].msg].id = asker[a].id

CacheInv ==
  /\ storage \in [Questions -> Nat]
  /\ msgs \in Seq(Messages)
  /\ asker \in [Askers -> {NoAsk} \cup Hits \cup Packed]
  /\ now \in Int
  /\ StorageSound /\ HitsSound /\ AnswersAsked /\ AnswerIdKept

\* The empty cache satisfies the invariant.
LEMMA CacheInvInit == NewDNSCache => CacheInv
  BY DEF NewDNSCache, CacheInv, StorageSound, HitsSound, AnswersAsked, AnswerIdKept, NoAsk

\* The clock moves: entries only come closer to their expiry.
LEMMA SecondKeeps == ASSUME CacheInv, Second PROVE CacheInv'
  BY DEF Second, CacheInv, StorageSound, HitsSound, AnswersAsked, AnswerIdKept

\* Store appends a message: those handed out before keep their place.
LEMMA StoreKeeps == ASSUME CacheInv, CacheStore PROVE CacheInv'
  <1>1. PICK q \in Questions, i \in AskIds, ttl \in 0..MaxTtl :
          /\ msgs' = Append(msgs, [q |-> q, id |-> i, exp |-> now + ttl])
          /\ storage' = [storage EXCEPT ![q] = Len(msgs')]
    BY Zenon DEF CacheStore, cacheKey
  <1>2. UNCHANGED <<asker, now>>
    BY DEF CacheStore
  <1> DEFINE m == [q |-> q, id |-> i, exp |-> now + ttl]
  <1>3. m \in Messages /\ m.q = q
    BY DEF Messages, CacheInv
  <1> HIDE DEF m
  <1>4. /\ msgs' = Append(msgs, m) /\ msgs' \in Seq(Messages) /\ Len(msgs') = Len(msgs) + 1
        /\ msgs'[Len(msgs')] = m /\ DOMAIN msgs = 1..Len(msgs) /\ DOMAIN msgs' = 1..Len(msgs')
        /\ \A e \in DOMAIN msgs : e \in DOMAIN msgs' /\ msgs'[e] = msgs[e]
    BY <1>1, <1>3 DEF CacheInv, m
  <1>5. storage' \in [Questions -> Nat] /\ StorageSound'
    BY <1>1, <1>3, <1>4 DEF CacheInv, StorageSound
  <1>6. HitsSound'
    BY <1>2, <1>4 DEF CacheInv, HitsSound
  <1>7. AnswersAsked' /\ AnswerIdKept'
    BY <1>2 DEF CacheInv, AnswersAsked, AnswerIdKept
  <1> QED BY <1>2, <1>4, <1>5, <1>6, <1>7 DEF CacheInv

\* An expired entry is deleted; the message itself stays with who has it.
LEMMA ExpiryKeeps ==
    ASSUME CacheInv, NEW q \in Questions, storage' = [storage EXCEPT ![q] = 0],
           UNCHANGED <<msgs, asker, now>>
    PROVE  CacheInv'
  <1>1. storage' \in [Questions -> Nat] /\ StorageSound'
    BY DEF CacheInv, StorageSound
  <1> QED BY <1>1 DEF CacheInv, HitsSound, AnswersAsked, AnswerIdKept

\* Query writes the Id into the message it returns, which may be one that
\* another call is about to pack.
LEMMA HitKeeps ==
    ASSUME CacheInv, NEW a \in Askers, asker[a] = NoAsk, NEW q \in Questions, NEW i \in AskIds,
           NEW e, e = storage[q], e # 0, ~Expired(msgs[e]), Hit(a, q, i, e), UNCHANGED now
    PROVE  CacheInv'
  <1>1. e \in DOMAIN msgs /\ msgs[e].q = q /\ now <= msgs[e].exp /\ msgs[e] \in Messages
        /\ e \in Nat
    <2>1. e \in DOMAIN msgs /\ msgs[e].q = q /\ e \in Nat
      BY DEF CacheInv, StorageSound
    <2>2. msgs[e] \in Messages
      BY <2>1 DEF CacheInv
    <2>3. msgs[e].exp \in Int /\ now \in Int
      BY <2>2 DEF Messages, CacheInv
    <2>4. now <= msgs[e].exp
      BY <2>3 DEF Expired
    <2> QED BY <2>1, <2>2, <2>4
  <1> DEFINE m == WithId(msgs[e], i)
  <1>2. m \in Messages /\ m.q = q /\ m.id = i /\ m.exp = msgs[e].exp
    BY <1>1 DEF WithId, Messages
  <1> HIDE DEF m
  <1>3. /\ msgs' \in Seq(Messages) /\ DOMAIN msgs' = DOMAIN msgs /\ msgs'[e] = m
        /\ \A f \in DOMAIN msgs : f # e => msgs'[f] = msgs[f]
    <2>1. msgs' = [msgs EXCEPT ![e] = m]
      BY DEF Hit, m
    <2> QED BY <1>1, <1>2, <2>1 DEF CacheInv
  <1> DEFINE h == [pc |-> "hit", q |-> q, id |-> i, msg |-> e, at |-> now, alone |-> TRUE]
  <1>4. /\ h \in Hits /\ h.pc = "hit" /\ h.q = q /\ h.id = i /\ h.msg = e /\ h.at = now
    BY <1>1 DEF CacheInv, Hits
  <1>5. asker'[a] = h
    BY DEF Hit
  <1>6. ASSUME NEW b \in Askers, b # a
        PROVE  \/ asker'[b] = asker[b] /\ (asker[b].pc = "hit" => asker[b].msg # e)
               \/ /\ asker[b] \in Hits /\ asker[b].pc = "hit" /\ asker[b].msg = e
                  /\ asker'[b] \in Hits /\ asker'[b].pc = "hit" /\ asker'[b].q = asker[b].q
                  /\ asker'[b].msg = e /\ asker'[b].at = asker[b].at /\ ~asker'[b].alone
    <2>1. CASE ~(asker[b].pc = "hit" /\ asker[b].msg = e)
      BY <1>6, <2>1 DEF Hit
    <2>2. CASE asker[b].pc = "hit" /\ asker[b].msg = e
      <3>1. asker[b] \in Hits
        BY <2>2 DEF CacheInv, Hits, Packed, NoAsk
      <3>2. asker'[b] = [asker[b] EXCEPT !.alone = FALSE]
        BY <1>6, <2>2 DEF Hit
      <3> QED BY <2>2, <3>1, <3>2, Zenon DEF Hits
    <2> QED BY <2>1, <2>2
  <1> HIDE DEF h
  <1>7. asker' \in [Askers -> {NoAsk} \cup Hits \cup Packed]
    <2>1. \A b \in Askers : asker'[b] \in {NoAsk} \cup Hits \cup Packed
      BY <1>4, <1>5, <1>6 DEF CacheInv
    <2> QED BY <2>1, Zenon DEF Hit
  <1>8. storage' = storage /\ StorageSound'
    BY <1>1, <1>2, <1>3 DEF Hit, CacheInv, StorageSound
  <1>9. HitsSound'
    <2> SUFFICES ASSUME NEW b \in Askers, asker'[b].pc = "hit"
                 PROVE  /\ asker'[b].msg \in DOMAIN msgs'
                        /\ msgs'[asker'[b].msg].q = asker'[b].q
                        /\ asker'[b].at <= msgs'[asker'[b].msg].exp
                        /\ asker'[b].alone => msgs'[asker'[b].msg].id = asker'[b].id
      BY DEF HitsSound
    <2>1. CASE b = a
      BY <1>1, <1>2, <1>3, <1>4, <1>5, <2>1
    <2>2. CASE b # a
      BY <1>1, <1>2, <1>3, <1>6, <2>2 DEF CacheInv, HitsSound
    <2> QED BY <2>1, <2>2
  <1>10. AnswersAsked' /\ AnswerIdKept'
    BY <1>4, <1>5, <1>6 DEF CacheInv, AnswersAsked, AnswerIdKept
  <1> QED BY <1>3, <1>7, <1>8, <1>9, <1>10 DEF CacheInv

\* Query: a hit hands out a stored message, an expired entry leaves the cache.
LEMMA QueryKeeps == ASSUME CacheInv, NEW a \in Askers, CacheQuery(a) PROVE CacheInv'
  <1>1. PICK q \in Questions, i \in AskIds :
          LET e == storage[q] IN
          IF e = 0 THEN UNCHANGED <<storage, msgs, asker>>
          ELSE IF Expired(msgs[e])
          THEN storage' = [storage EXCEPT ![q] = 0] /\ UNCHANGED <<msgs, asker>>
          ELSE Hit(a, q, i, e)
    BY DEF CacheQuery, cacheKey
  <1>2. asker[a] = NoAsk /\ UNCHANGED now
    BY DEF CacheQuery
  <1>3. CASE UNCHANGED <<storage, msgs, asker>>
    BY <1>2, <1>3 DEF CacheInv, StorageSound, HitsSound, AnswersAsked, AnswerIdKept
  <1>4. CASE storage' = [storage EXCEPT ![q] = 0] /\ UNCHANGED <<msgs, asker>>
    BY <1>2, <1>4, ExpiryKeeps, Zenon
  <1>5. CASE storage[q] # 0 /\ ~Expired(msgs[storage[q]]) /\ Hit(a, q, i, storage[q])
    BY <1>2, <1>5, HitKeeps
  <1> QED BY <1>1, <1>3, <1>4, <1>5

\* PackBuffer reads the message as it is by now.
LEMMA PackKeeps == ASSUME CacheInv, NEW a \in Askers, CachePack(a) PROVE CacheInv'
  <1> DEFINE s == asker[a]
             r == [pc |-> "packed", q |-> s.q, id |-> s.id, at |-> s.at, alone |-> s.alone,
                   got |-> msgs[s.msg]]
  <1>1. /\ s \in Hits /\ s.msg \in DOMAIN msgs /\ msgs[s.msg] \in Messages
        /\ msgs[s.msg].q = s.q /\ s.at <= msgs[s.msg].exp
        /\ s.alone => msgs[s.msg].id = s.id
    BY DEF CachePack, CacheInv, HitsSound, Hits, Packed, NoAsk
  <1>2. asker' = [asker EXCEPT ![a] = r] /\ UNCHANGED <<storage, msgs, now>>
    BY DEF CachePack
  <1>3. /\ r \in Packed /\ r.pc = "packed" /\ r.q = s.q /\ r.id = s.id /\ r.at = s.at
        /\ r.alone = s.alone /\ r.got = msgs[s.msg]
    BY <1>1 DEF Hits, Packed
  <1> HIDE DEF r, s
  <1>4. asker' \in [Askers -> {NoAsk} \cup Hits \cup Packed]
    BY <1>2, <1>3 DEF CacheInv
  <1>5. asker'[a] = r /\ \A b \in Askers : b # a => asker'[b] = asker[b]
    BY <1>2 DEF CacheInv
  <1>6. HitsSound'
    BY <1>2, <1>3, <1>5 DEF CacheInv, HitsSound
  <1>7. AnswersAsked' /\ AnswerIdKept'
    BY <1>1, <1>3, <1>5 DEF CacheInv, AnswersAsked, AnswerIdKept
  <1> QED BY <1>2, <1>4, <1>6, <1>7 DEF CacheInv, StorageSound

\* The answer is sent: the asker is idle again, the cache is as it was.
LEMMA AnsweredKeeps == ASSUME CacheInv, NEW a \in Askers, CacheAnswered(a) PROVE CacheInv'
  <1>1. asker' = [asker EXCEPT ![a] = NoAsk] /\ UNCHANGED <<storage, msgs, now>>
    BY DEF CacheAnswered
  <1>2. asker' \in [Askers -> {NoAsk} \cup Hits \cup Packed]
    BY <1>1 DEF CacheInv
  <1>3. asker'[a].pc = "idle" /\ \A b \in Askers : b # a => asker'[b] = asker[b]
    BY <1>1 DEF CacheInv, NoAsk
  <1>4. HitsSound' /\ AnswersAsked' /\ AnswerIdKept'
    BY <1>1, <1>3 DEF CacheInv, HitsSound, AnswersAsked, AnswerIdKept
  <1> QED BY <1>1, <1>2, <1>4 DEF CacheInv, StorageSound

\* Every step of the cache and its askers keeps the invariant.
LEMMA CacheInvNext == CacheInv /\ [CacheNext]_CacheVars => CacheInv'
  <1> SUFFICES ASSUME CacheInv, [CacheNext]_CacheVars PROVE CacheInv'
    OBVIOUS
  <1>1. CASE UNCHANGED CacheVars
    BY <1>1 DEF CacheVars, CacheInv, StorageSound, HitsSound, AnswersAsked, AnswerIdKept
  <1> QED BY <1>1, SecondKeeps, StoreKeeps, QueryKeeps, PackKeeps, AnsweredKeeps DEF CacheNext

\* However many calls of ReceiveTo ask and whatever is stored and expires in
\* between: every answer from the cache is one to the caller's question, was
\* alive when Query found it, and has the caller's Id unless another call of
\* Query got the same message before it was packed.
THEOREM CacheAnswersTheorem == CacheSpec => []CacheAnswers
  <1>1. CacheInv => CacheAnswers
    BY DEF CacheInv, CacheAnswers
  <1> QED BY <1>1, CacheInvInit, CacheInvNext, PTL DEF CacheSpec
=============================================================================
