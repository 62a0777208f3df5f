------------------------------ MODULE DnsCache ------------------------------
(* The DNS cache (common/dns/cache/cache.go) and how the UDP handler of the  *)
(* SOCKS proxy uses it (ReceiveTo and fetchSocksData of proxy/socks/udp.go). *)
(* ReceiveTo runs in lwIP's thread and in the goroutine that forwards a      *)
(* session's early packets, so two calls may be in the cache at a time; the  *)
(* mutex covers Query and Store, while the message Query returns is packed   *)
(* after the unlock.  fetchSocksData hands Store the datagram of the proxy   *)
(* with its encapsulation: what Unpack makes of that is left open, and any   *)
(* message it could make of it is stored.                                    *)
EXTENDS Integers, Sequences

CONSTANTS CacheNames, CacheTypes,   \* of questions
          Askers,                   \* goroutines in ReceiveTo
          AskIds,                   \* of requests
          MaxStores,                \* datagrams of the proxy
          MaxTtl, MaxNow            \* of a response, and of the clock, in seconds

VARIABLES storage,             \* key -> index in msgs; 0 is no entry
          msgs,                \* the messages stored so far
          asker,               \* a call of ReceiveTo; alone: nobody else has
                               \* been given its message since
          now

Questions == CacheNames \X CacheTypes
cacheKey_NameOnly(q) == <<q[1], CHOOSE t \in CacheTypes : TRUE>>
cacheKey(q) == q
NoAsk == [pc |-> "idle"]

NewDNSCache ==
  /\ storage = [k \in Questions |-> 0]
  /\ msgs = << >>
  /\ asker = [a \in Askers |-> NoAsk]
  /\ now = 0

\* Store; what does not unpack, is no success or has no answer changes nothing.
\* exp comes from the first answer.
CacheStore ==
  /\ Len(msgs) < MaxStores
  /\ \E q \in Questions, i \in AskIds, ttl \in 0..MaxTtl :
       /\ msgs' = Append(msgs, [q |-> q, id |-> i, exp |-> now + ttl])
       /\ storage' = [storage EXCEPT ![cacheKey(q)] = Len(msgs')]
  /\ UNCHANGED <<asker, now>>

\* Query, between Lock and Unlock.  The Id is written into the shared message.
Expired(m) == now > m.exp
WithId(m, i) == [m EXCEPT !.id = i]
Hit(a, q, i, e) ==
  /\ msgs' = [msgs EXCEPT ![e] = WithId(@, i)]
  /\ asker' = [b \in Askers |->
       IF b = a THEN [pc |-> "hit", q |-> q, id |-> i, msg |-> e, at |-> now, alone |-> TRUE]
       ELSE IF asker[b].pc = "hit" /\ asker[b].msg = e THEN [asker[b] EXCEPT !.alone = FALSE]
       ELSE asker[b]]
  /\ UNCHANGED storage
CacheQuery(a) ==
  /\ asker[a] = NoAsk
  /\ \E q \in Questions, i \in AskIds :
       LET e == storage[cacheKey(q)] IN
       IF e = 0 THEN UNCHANGED <<storage, msgs, asker>>
       ELSE IF Expired(msgs[e])
       THEN storage' = [storage EXCEPT ![cacheKey(q)] = 0] /\ UNCHANGED <<msgs, asker>>
       ELSE Hit(a, q, i, e)
  /\ UNCHANGED now

\* ReceiveTo's PackBuffer: the answer is what the message says by now.
CachePack(a) ==
  /\ asker[a].pc = "hit"
  /\ asker' = [asker EXCEPT ![a] = [pc |-> "packed", q |-> @.q, id |-> @.id, at |-> @.at,
                                     alone |-> @.alone, got |-> msgs[@.msg]]]
  /\ UNCHANGED <<storage, msgs, now>>

\* WriteFrom, and ReceiveTo returns.
CacheAnswered(a) ==
  /\ asker[a].pc = "packed"
  /\ asker' = [asker EXCEPT ![a] = NoAsk]
  /\ UNCHANGED <<storage, msgs, now>>

Second == now < MaxNow /\ now' = now + 1 /\ UNCHANGED <<storage, msgs, asker>>

CacheNext ==
  \/ CacheStore \/ Second
  \/ \E a \in Askers : CacheQuery(a) \/ CachePack(a) \/ CacheAnswered(a)

CacheVars == <<storage, msgs, asker, now>>
CacheSpec == NewDNSCache /\ [][CacheNext]_CacheVars
-----------------------------------------------------------------------------
\* Every answer from the cache is a response to the very question that was
\* asked, name and type, and had not expired when Query looked: entries that
\* are replaced or expire between Query and PackBuffer change nothing.
AnswersAsked ==
  \A a \in Askers : asker[a].pc = "packed" =>
    asker[a].got.q = asker[a].q /\ asker[a].at <= asker[a].got.exp

\* The answer has the asker's Id, unless another call of Query was given the
\* same message before it was packed: Query returns the cached message itself.
AnswerIdKept ==
  \A a \in Askers : asker[a].pc = "packed" /\ asker[a].alone => asker[a].got.id = asker[a].id

(* What Query hands out, between another Query and a Store: the answer to this *)
(* question, alive when it was found, with the id of who asked alone.          *)
CacheAnswers == AnswersAsked /\ AnswerIdKept
=============================================================================
