---------------------------- MODULE ServerProofs ----------------------------
(***************************************************************************)
(* Theorems about the server: its authorizer, for any callers, tokens,      *)
(* channels, lifetimes and timeout and a cache of any size, and the two     *)
(* parts together, for any settings, interval and timeout of the poller.    *)
(***************************************************************************)
EXTENDS MCServer, FiniteSetTheorems, SequenceTheorems, TLAPS

(* The longest an answer may be kept, in ticks.                              *)
Span(allow) == (IF allow THEN AllowTtl ELSE DenyTtl) * TicksPerSecond

(* An answer about a pair is what the API says now, or what it said before   *)
(* it last changed its mind, which was no longer ago than since.             *)
Holds(pair, allow, since) ==
  \/ allow <=> pair \in apiAllows
  \/ changes > 0 /\ since <= changedAt[pair]

Entries == [key : Keys, value : BOOLEAN, expiresAt : Nat]

(* The entries a cache may have in this state: the API's word on the pair of *)
(* their key, kept for no longer than the lifetime from when it was given.   *)
Justified ==
  {e \in Entries :
     /\ e.expiresAt <= now + Span(e.value)
     /\ \A pair \in Pairs : CacheKey(pair[1], pair[2]) = e.key =>
          \/ e.value <=> pair \in apiAllows
          \/ changes > 0 /\ e.expiresAt <= changedAt[pair] + Span(e.value) + Timeout}

Typed ==
  /\ now \in 0..MaxNow
  /\ apiAllows \subseteq Pairs
  /\ changedAt \in [Pairs -> 0..MaxNow]
  /\ changes \in 0..MaxChanges
  /\ inflight \in [Keys -> {NoRequest} \cup Requests \cup Replies]
  /\ calls \in [Callers -> {NotCalling} \cup Questions \cup Answers]

(* A request is filed under the key of its own pair, is not overdue, and was *)
(* sent before its token expired; a reply is the API's word since then.      *)
InOrder(key) ==
  inflight[key] # NoRequest =>
    LET r == inflight[key] IN
      /\ CacheKey(r.cred, r.channel) = key
      /\ r.sentAt <= now /\ now <= r.sentAt + Timeout
      /\ r.cred # Anon => r.sentAt < Exp[r.cred] * TicksPerSecond
      /\ r.status = "replied" => Holds(<<r.cred, r.channel>>, r.allow, r.sentAt)

RequestsInOrder == \A key \in Keys : InOrder(key)

CacheJustified == cache \in Seq(Justified) /\ Len(cache) <= MaxEntries

WaitersHaveARequest ==
  \A x \in Callers : calls[x].state = "waiting" =>
    inflight[CacheKey(calls[x].cred, calls[x].channel)] # NoRequest

IInv == Typed /\ RequestsInOrder /\ CacheJustified /\ WaitersHaveARequest

-----------------------------------------------------------------------------
(* Arithmetic the solver needs in these shapes.                              *)
LEMMA BoundTypes ==
  /\ TicksPerSecond \in Nat /\ TicksPerSecond > 0
  /\ Timeout \in Nat /\ Timeout > 0
  /\ MaxEntries \in Nat \ {0}
  /\ AllowTtl \in Nat /\ DenyTtl \in Nat /\ MaxNow \in Nat /\ MaxChanges \in Nat
  /\ ApiTtls \subseteq Nat
BY BoundsAssumption

(* Products of natural numbers are natural numbers and grow with each        *)
(* factor.                                                                   *)
LEMMA ProductsAreMonotonic ==
  ASSUME NEW a \in Nat, NEW b \in Nat, NEW c \in Nat, a <= b
  PROVE  a * c \in Nat /\ b * c \in Nat /\ a * c <= b * c
<1>1. \A m, n \in Nat : m * n \in Nat
  OBVIOUS
<1>2. (b - a) \in Nat /\ (b - a) * c = b * c - a * c
  OBVIOUS
<1>3. (b - a) * c \in Nat
  BY <1>1, <1>2
<1> QED
  BY <1>1, <1>2, <1>3

(* A lifetime is a natural number.                                           *)
LEMMA SpanType ==
  ASSUME NEW allow \in BOOLEAN
  PROVE  Span(allow) \in Nat
BY BoundTypes, ProductsAreMonotonic DEF Span

(* A clock short of a second, rounded down, is short of that second.         *)
LEMMA BeforeTheSecond ==
  ASSUME NEW time \in Nat, NEW second \in Nat,
         ~(second <= time \div TicksPerSecond)
  PROVE  time < second * TicksPerSecond
<1> DEFINE q == time \div TicksPerSecond
<1>1. q \in Nat /\ time < (q + 1) * TicksPerSecond
  BY BoundTypes
<1>2. q + 1 <= second
  BY <1>1
<1> HIDE DEF q
<1>3. (q + 1) * TicksPerSecond <= second * TicksPerSecond
  BY <1>1, <1>2, BoundTypes, ProductsAreMonotonic
<1> QED
  BY <1>1, <1>2, <1>3, BoundTypes, ProductsAreMonotonic

-----------------------------------------------------------------------------
(* The keys of two questions differ if the questions do.                     *)
LEMMA KeysTellPairs ==
  ASSUME NEW t \in Credentials, NEW c \in Channels,
         NEW u \in Credentials, NEW d \in Channels,
         CacheKey(t, c) = CacheKey(u, d)
  PROVE  t = u /\ c = d
BY AnonAssumption, UniqueJtiAssumption DEF CacheKey, Credentials

(* A question has a key.                                                     *)
LEMMA KeyType ==
  ASSUME NEW t \in Credentials, NEW c \in Channels
  PROVE  CacheKey(t, c) \in Keys /\ <<t, c>> \in Pairs
BY DEF Keys, Pairs

(* The smallest of two or three numbers is one of them and none is smaller.  *)
LEMMA LeastOfSome ==
  ASSUME NEW a \in Nat, NEW b \in Nat, NEW S, S = {} \/ \E c \in Nat : S = {c}
  PROVE  /\ Least({a, b} \cup S) \in Nat
         /\ Least({a, b} \cup S) <= a /\ Least({a, b} \cup S) <= b
<1> DEFINE all == {a, b} \cup S
<1>1. \E m \in all : \A n \in all : m <= n
  OBVIOUS
<1>2. Least(all) \in all /\ \A n \in all : Least(all) <= n
  BY <1>1 DEF Least
<1> QED
  BY <1>2

(* normalizeDecision() never exceeds the lifetime of its kind of answer.     *)
LEMMA LifetimesAreCapped ==
  ASSUME Typed, NEW reply \in Replies
  PROVE  /\ TtlSeconds(reply) \in Nat
         /\ TtlSeconds(reply) * TicksPerSecond \in Nat
         /\ TtlSeconds(reply) * TicksPerSecond <= Span(reply.allow)
<1> DEFINE cap == IF reply.allow THEN AllowTtl ELSE DenyTtl
           left == IF Exp[reply.cred] > NowSeconds
                     THEN Exp[reply.cred] - NowSeconds ELSE 0
           some == IF reply.allow /\ reply.cred # Anon THEN {left} ELSE {}
<1>1. reply.ttl \in Nat /\ cap \in Nat
  BY BoundTypes DEF Replies
<1>2. NowSeconds \in Nat
  BY BoundTypes DEF Typed, NowSeconds
<1>3. some = {} \/ \E n \in Nat : some = {n}
  <2>1. ASSUME reply.cred # Anon PROVE left \in Nat
    <3>1. Exp[reply.cred] \in Nat
      BY <2>1, ClaimsAssumption DEF Replies, Credentials
    <3> QED
      BY <1>2, <3>1
  <2> QED
    BY <2>1
<1>4. TtlSeconds(reply) = Least({reply.ttl, cap} \cup some)
  BY DEF TtlSeconds
<1> HIDE DEF some, cap
<1>5. TtlSeconds(reply) \in Nat /\ TtlSeconds(reply) <= cap
  BY <1>1, <1>3, <1>4, LeastOfSome
<1>6. Span(reply.allow) = cap * TicksPerSecond
  BY DEF Span, cap
<1> QED
  BY <1>1, <1>5, <1>6, BoundTypes, ProductsAreMonotonic

-----------------------------------------------------------------------------
(* At first nobody asks and nothing is cached.                               *)
LEMMA InitIsInOrder == Init => IInv
<1> SUFFICES ASSUME Init PROVE IInv
  OBVIOUS
<1>1. Typed
  <2>1. NoRequest \in {NoRequest} \cup Requests \cup Replies
    OBVIOUS
  <2>2. NotCalling \in {NotCalling} \cup Questions \cup Answers
    OBVIOUS
  <2> QED
    BY <2>1, <2>2, BoundTypes DEF Init, Typed
<1>2. RequestsInOrder
  BY DEF Init, RequestsInOrder, InOrder
<1>3. CacheJustified
  BY BoundTypes, EmptySeq DEF Init, CacheJustified
<1>4. WaitersHaveARequest
  BY DEF Init, WaitersHaveARequest, NotCalling
<1> QED
  BY <1>1, <1>2, <1>3, <1>4 DEF IInv

(* What is said of requests and of entries depends on the API, the clock and *)
(* the requests alone.                                                       *)
LEMMA SameRequests ==
  ASSUME RequestsInOrder, UNCHANGED <<now, apiAllows, changedAt, changes, inflight>>
  PROVE  RequestsInOrder'
BY DEF RequestsInOrder, InOrder, Holds

(* The cache may hold the same entries while neither the clock nor the API   *)
(* changes.                                                                  *)
LEMMA SameEntries ==
  ASSUME UNCHANGED <<now, apiAllows, changedAt, changes>>
  PROVE  Justified' = Justified
BY DEF Justified, Entries

(* The entry found for a key is an entry, and that key's.                    *)
LEMMA EntryOfKey ==
  ASSUME NEW entries, NEW key, Has(entries, key)
  PROVE  /\ Position(entries, key) \in DOMAIN entries
         /\ EntryOf(entries, key) = entries[Position(entries, key)]
         /\ EntryOf(entries, key).key = key
BY DEF Has, Position, EntryOf

(* Without a key the others keep their order and close ranks.                *)
LEMMA WithoutAKey ==
  ASSUME NEW S, NEW entries \in Seq(S), NEW key, Has(entries, key)
  PROVE  /\ Without(entries, key) \in Seq(S)
         /\ Len(Without(entries, key)) = Len(entries) - 1
         /\ \A i \in 1..(Len(entries) - 1) :
              Without(entries, key)[i] =
                IF i < Position(entries, key) THEN entries[i] ELSE entries[i + 1]
<1> DEFINE p == Position(entries, key)
           before == SubSeq(entries, 1, p - 1)
           after == SubSeq(entries, p + 1, Len(entries))
<1>1. p \in 1..Len(entries)
  BY EntryOfKey
<1>2. Without(entries, key) = before \o after
  BY DEF Without
<1> HIDE DEF p
<1>3. /\ before \in Seq(S) /\ Len(before) = p - 1
      /\ \A i \in 1..(p - 1) : before[i] = entries[i]
  <2>1. \A i \in 1..(p - 1) : entries[i] \in S
    BY <1>1, ElementOfSeq
  <2>2. 1 \in Int /\ p - 1 \in Int
    BY <1>1
  <2> QED
    BY <1>1, <2>1, <2>2, SubSeqProperties
<1>4. /\ after \in Seq(S) /\ Len(after) = Len(entries) - p
      /\ \A i \in 1..(Len(entries) - p) : after[i] = entries[p + i]
  <2>1. \A i \in (p + 1)..Len(entries) : entries[i] \in S
    BY <1>1, ElementOfSeq
  <2>2. p + 1 \in Int /\ Len(entries) \in Int
    BY <1>1
  <2> QED
    BY <1>1, <2>1, <2>2, SubSeqProperties
<1> HIDE DEF before, after
<1>5. /\ before \o after \in Seq(S)
      /\ Len(before \o after) = Len(before) + Len(after)
      /\ \A i \in 1..(Len(before) + Len(after)) :
           (before \o after)[i] = IF i <= Len(before) THEN before[i]
                                  ELSE after[i - Len(before)]
  BY <1>3, <1>4, ConcatProperties
<1> QED
  BY <1>1, <1>2, <1>3, <1>4, <1>5 DEF p

(* get() takes nothing in: what it leaves was there, and no more of it.      *)
LEMMA GetKeeps ==
  ASSUME NEW S, NEW entries \in Seq(S), NEW key, NEW time
  PROVE  /\ Get(entries, key, time) \in Seq(S)
         /\ Len(Get(entries, key, time)) <= Len(entries)
<1>1. CASE ~Has(entries, key)
  BY <1>1 DEF Get, Hits, Without
<1>2. CASE Has(entries, key)
  <2>1. EntryOf(entries, key) \in S
    BY <1>2, EntryOfKey, ElementOfSeq
  <2> QED
    BY <1>2, <2>1, WithoutAKey, AppendProperties DEF Get
<1> QED
  BY <1>1, <1>2

(* set() takes in the new entry only, and the cache stays within its size.   *)
LEMMA SetAdds ==
  ASSUME MaxEntries \in Nat \ {0}, NEW S, NEW entries \in Seq(S),
         Len(entries) <= MaxEntries, NEW key, NEW value, NEW ttl, NEW time,
         ttl > 0 => [key |-> key, value |-> value, expiresAt |-> time + ttl] \in S
  PROVE  /\ Set(entries, key, value, ttl, time) \in Seq(S)
         /\ Len(Set(entries, key, value, ttl, time)) <= MaxEntries
<1> DEFINE rest == Without(entries, key)
           entry == [key |-> key, value |-> value, expiresAt |-> time + ttl]
           all == Append(rest, entry)
<1>1. rest \in Seq(S) /\ Len(rest) <= MaxEntries
  <2>1. CASE Has(entries, key)
    BY <2>1, WithoutAKey
  <2>2. CASE ~Has(entries, key)
    BY <2>2 DEF Without
  <2> QED
    BY <2>1, <2>2
<1>2. ASSUME ttl > 0
      PROVE  Evict(all) \in Seq(S) /\ Len(Evict(all)) <= MaxEntries
  <2>1. entry \in S
    BY <1>2
  <2> HIDE DEF rest, entry
  <2>2. all \in Seq(S) /\ Len(all) = Len(rest) + 1
    BY <1>1, <2>1, AppendProperties
  <2> HIDE DEF all
  <2>3. CASE Len(all) <= MaxEntries
    BY <2>2, <2>3 DEF Evict
  <2>4. CASE Len(all) > MaxEntries
    <3>1. Evict(all) = SubSeq(all, 2, Len(all)) /\ Len(all) = MaxEntries + 1
      BY <1>1, <2>2, <2>4 DEF Evict
    <3>2. \A i \in 2..Len(all) : all[i] \in S
      BY <2>2, ElementOfSeq
    <3> QED
      BY <2>2, <3>1, <3>2, SubSeqProperties
  <2> QED
    BY <1>1, <2>2, <2>3, <2>4
<1>3. Set(entries, key, value, ttl, time) = IF ttl > 0 THEN Evict(all) ELSE rest
  BY DEF Set
<1> QED
  BY <1>1, <1>2, <1>3

(* get() leaves entries that were there.                                     *)
LEMMA GetStaysJustified ==
  ASSUME CacheJustified, UNCHANGED <<now, apiAllows, changedAt, changes>>,
         NEW key, cache' = Get(cache, key, now)
  PROVE  CacheJustified'
<1>1. /\ Get(cache, key, now) \in Seq(Justified)
      /\ Len(Get(cache, key, now)) <= Len(cache)
  BY GetKeeps DEF CacheJustified
<1> QED
  BY <1>1, SameEntries, BoundTypes, LenProperties DEF CacheJustified

(* A hit is an entry for the question, and not yet over.                     *)
LEMMA HitIsJustified ==
  ASSUME CacheJustified, NEW key, Hits(cache, key, now)
  PROVE  /\ EntryOf(cache, key) \in Justified
         /\ EntryOf(cache, key).key = key
         /\ now < EntryOf(cache, key).expiresAt
         /\ GetValue(cache, key, now) = EntryOf(cache, key).value
         /\ GetValue(cache, key, now) \in BOOLEAN
<1>1. /\ EntryOf(cache, key) \in Justified
      /\ EntryOf(cache, key).key = key
  BY EntryOfKey, ElementOfSeq DEF CacheJustified, Hits
<1>2. EntryOf(cache, key).expiresAt \in Nat /\ EntryOf(cache, key).value \in BOOLEAN
  BY <1>1 DEF Justified, Entries
<1>3. now < EntryOf(cache, key).expiresAt \/ ~(EntryOf(cache, key).expiresAt > now)
  BY <1>2
<1> QED
  BY <1>1, <1>2 DEF Hits, Fresh, GetValue

(* An answer has the type of one.                                            *)
LEMMA AnswerType ==
  ASSUME NEW t \in Credentials, NEW c \in Channels, NEW allow \in BOOLEAN,
         NEW ground \in {"local", "cache", "remote", "failure"}
  PROVE  /\ Answer(t, c, allow, ground) \in Answers
         /\ Answer(t, c, allow, ground).state = "answered"
BY DEF Answer, Answers

(* Every state of a caller and of a request is told by its tag.              *)
LEMMA Tags ==
  ASSUME Typed
  PROVE  /\ \A key \in Keys :
              /\ inflight[key] # NoRequest <=> inflight[key].status \in {"sent", "replied"}
              /\ inflight[key].status = "sent" => inflight[key] \in Requests
              /\ inflight[key].status = "replied" => inflight[key] \in Replies
         /\ \A x \in Callers :
              calls[x].state = "waiting" => calls[x] \in Questions
<1>1. \A r \in Requests : r.status = "sent"
  BY DEF Requests
<1>2. \A r \in Replies : r.status = "replied"
  BY DEF Replies
<1>3. NoRequest.status = "none"
  BY DEF NoRequest
<1>4. \A a \in Answers : a.state = "answered"
  BY DEF Answers
<1>5. NotCalling.state = "idle"
  BY DEF NotCalling
<1>6. \A key \in Keys : inflight[key] \in {NoRequest} \cup Requests \cup Replies
  BY DEF Typed
<1>7. \A x \in Callers : calls[x] \in {NotCalling} \cup Questions \cup Answers
  BY DEF Typed
<1> QED
  BY <1>1, <1>2, <1>3, <1>4, <1>5, <1>6, <1>7
-----------------------------------------------------------------------------
(* A caller is answered at once, or goes on with its answer.                 *)
LEMMA AnsweringKeepsOrder ==
  ASSUME IInv, NEW x \in Callers, NEW answer \in {NotCalling} \cup Answers, NEW key,
         UNCHANGED <<now, apiAllows, changedAt, changes, inflight>>,
         calls' = [calls EXCEPT ![x] = answer],
         cache' = cache \/ cache' = Get(cache, key, now)
  PROVE  IInv'
<1> USE DEF IInv
<1>1. answer.state # "waiting"
  BY DEF NotCalling, Answers
<1>2. Typed'
  BY DEF Typed
<1>3. RequestsInOrder'
  BY SameRequests
<1>4. CacheJustified'
  <2>1. CASE cache' = cache
    BY <2>1, SameEntries DEF CacheJustified
  <2>2. CASE cache' = Get(cache, key, now)
    BY <2>2, GetStaysJustified
  <2> QED
    BY <2>1, <2>2
<1>5. WaitersHaveARequest'
  BY <1>1 DEF WaitersHaveARequest, Typed
<1> QED
  BY <1>2, <1>3, <1>4, <1>5

(* The rules decide without cache or request.                                *)
LEMMA LocalKeepsOrder ==
  ASSUME IInv, NEW x \in Callers, NEW t \in Credentials, NEW c \in Channels,
         AuthorizeLocally(x, t, c)
  PROVE  IInv'
<1> DEFINE answer == Answer(t, c, ~Expired(t) /\ <<t, c>> \in AllowedLocally, "local")
<1>1. (~Expired(t) /\ <<t, c>> \in AllowedLocally) \in BOOLEAN
  OBVIOUS
<1>2. answer \in Answers
  BY <1>1, AnswerType
<1> HIDE DEF answer
<1>3. /\ UNCHANGED <<now, apiAllows, changedAt, changes, inflight, cache>>
      /\ calls' = [calls EXCEPT ![x] = answer]
  BY DEF AuthorizeLocally, Tell, answer
<1> QED
  BY <1>2, <1>3, AnsweringKeepsOrder

(* A hit answers at once and moves its entry.                                *)
LEMMA CachedKeepsOrder ==
  ASSUME IInv, NEW x \in Callers, NEW t \in Credentials, NEW c \in Channels,
         AuthorizeFromCache(x, t, c)
  PROVE  IInv'
<1> DEFINE key == CacheKey(t, c)
           answer == Answer(t, c, GetValue(cache, key, now), "cache")
<1>1. GetValue(cache, key, now) \in BOOLEAN
  BY HitIsJustified DEF AuthorizeFromCache, IInv
<1>2. answer \in Answers
  BY <1>1, AnswerType
<1> HIDE DEF answer, key
<1>3. /\ UNCHANGED <<now, apiAllows, changedAt, changes, inflight>>
      /\ calls' = [calls EXCEPT ![x] = answer]
      /\ cache' = Get(cache, key, now)
  BY DEF AuthorizeFromCache, Tell, answer, key
<1> QED
  BY <1>2, <1>3, AnsweringKeepsOrder

(* A caller sends the request of its question, or joins it.                  *)
LEMMA RemoteKeepsOrder ==
  ASSUME IInv, NEW x \in Callers, NEW t \in Credentials, NEW c \in Channels,
         AuthorizeRemotely(x, t, c)
  PROVE  IInv'
<1> USE DEF IInv
<1> DEFINE key == CacheKey(t, c)
           request == [status |-> "sent", cred |-> t, channel |-> c, sentAt |-> now]
           question == [state |-> "waiting", cred |-> t, channel |-> c]
<1>1. /\ UNCHANGED <<now, apiAllows, changedAt, changes>>
      /\ calls' = [calls EXCEPT ![x] = question]
      /\ cache' = Get(cache, key, now)
      /\ \/ inflight[key] # NoRequest /\ inflight' = inflight
         \/ inflight[key] = NoRequest /\ inflight' = [inflight EXCEPT ![key] = request]
  BY DEF AuthorizeRemotely, Tell
<1>2. request \in Requests /\ request # NoRequest /\ request.status = "sent"
  BY DEF Typed, Requests, NoRequest
<1>3. question \in Questions
  BY DEF Questions
<1>4. key \in Keys
  BY KeyType
<1>5. t # Anon => now < Exp[t] * TicksPerSecond
  <2> SUFFICES ASSUME t # Anon PROVE now < Exp[t] * TicksPerSecond
    OBVIOUS
  <2>1. Exp[t] \in Nat /\ now \in Nat
    BY ClaimsAssumption DEF Credentials, Typed
  <2>2. ~(Exp[t] <= now \div TicksPerSecond)
    BY DEF AuthorizeRemotely, LocallyDecided, Expired, NowSeconds
  <2> QED
    BY <2>1, <2>2, BeforeTheSecond
<1>6. /\ request.cred = t /\ request.channel = c /\ request.sentAt = now
      /\ question.cred = t /\ question.channel = c
  OBVIOUS
<1>7. /\ inflight'[key] # NoRequest
      /\ \A k \in Keys : inflight'[k] = inflight[k] \/ (k = key /\ inflight'[k] = request)
  BY <1>1, <1>2, <1>4 DEF Typed
<1> HIDE DEF request, question, key
<1>8. Typed'
  BY <1>1, <1>2, <1>3, <1>4 DEF Typed
<1>9. RequestsInOrder'
  <2> SUFFICES ASSUME NEW k \in Keys PROVE InOrder(k)'
    BY DEF RequestsInOrder
  <2>1. CASE inflight'[k] = inflight[k]
    BY <1>1, <2>1 DEF RequestsInOrder, InOrder, Holds
  <2>2. CASE k = key /\ inflight'[k] = request
    BY <1>1, <1>2, <1>5, <1>6, <2>2, BoundTypes DEF InOrder, Typed, key
  <2> QED
    BY <1>7, <2>1, <2>2
<1>10. CacheJustified'
  BY <1>1, GetStaysJustified
<1>11. WaitersHaveARequest'
  <2> SUFFICES ASSUME NEW y \in Callers, calls'[y].state = "waiting"
               PROVE  inflight'[CacheKey(calls'[y].cred, calls'[y].channel)] # NoRequest
    BY DEF WaitersHaveARequest
  <2>1. CASE y = x
    BY <1>1, <1>6, <1>7, <2>1 DEF Typed, key
  <2>2. CASE y # x
    <3>1. calls'[y] = calls[y]
      BY <1>1, <2>2 DEF Typed
    <3>2. inflight[CacheKey(calls[y].cred, calls[y].channel)] # NoRequest
      BY <3>1 DEF WaitersHaveARequest
    <3>3. CacheKey(calls[y].cred, calls[y].channel) \in Keys
      BY <3>1, Tags, KeyType DEF Questions
    <3> QED
      BY <1>2, <1>7, <3>1, <3>2, <3>3
  <2> QED
    BY <2>1, <2>2
<1> QED
  BY <1>8, <1>9, <1>10, <1>11
-----------------------------------------------------------------------------
(* The reply is the API's word when it handles the request.                  *)
LEMMA ReplyKeepsOrder ==
  ASSUME IInv, NEW key \in Keys, ApiReplies(key)
  PROVE  IInv'
<1> USE DEF IInv
<1>1. PICK ttl \in ApiTtls :
        inflight' = [inflight EXCEPT ![key] =
          [status |-> "replied", cred |-> @.cred, channel |-> @.channel,
           sentAt |-> @.sentAt, ttl |-> ttl,
           allow |-> <<@.cred, @.channel>> \in apiAllows]]
  BY DEF ApiReplies
<1> DEFINE r == inflight[key]
           reply == [status |-> "replied", cred |-> r.cred, channel |-> r.channel,
                     sentAt |-> r.sentAt, ttl |-> ttl,
                     allow |-> <<r.cred, r.channel>> \in apiAllows]
<1>2. inflight[key].status = "sent" /\ inflight[key] \in Requests /\ inflight[key] # NoRequest
  BY Tags DEF ApiReplies
<1>3. /\ UNCHANGED <<now, apiAllows, changedAt, changes, cache, calls>>
      /\ inflight' = [inflight EXCEPT ![key] = reply]
  BY <1>1 DEF ApiReplies
<1>4. /\ reply.status = "replied" /\ reply.cred = r.cred /\ reply.channel = r.channel
      /\ reply.sentAt = r.sentAt /\ reply.allow = (<<r.cred, r.channel>> \in apiAllows)
  OBVIOUS
<1>5. reply \in Replies /\ reply # NoRequest
  <2>1. r.cred \in Credentials /\ r.channel \in Channels /\ r.sentAt \in 0..MaxNow
    BY <1>2 DEF Requests
  <2>2. (<<r.cred, r.channel>> \in apiAllows) \in BOOLEAN
    OBVIOUS
  <2>3. reply \in Replies
    BY <2>1, <2>2 DEF Replies
  <2> QED
    BY <2>3, <1>4 DEF NoRequest
<1> HIDE DEF reply
<1>6. Typed'
  BY <1>3, <1>5 DEF Typed
<1>7. RequestsInOrder'
  <2> SUFFICES ASSUME NEW k \in Keys PROVE InOrder(k)'
    BY DEF RequestsInOrder
  <2>1. CASE k # key
    <3>1. inflight'[k] = inflight[k]
      BY <1>3, <2>1 DEF Typed
    <3> QED
      BY <1>3, <3>1 DEF RequestsInOrder, InOrder, Holds
  <2>2. CASE k = key
    <3>1. inflight'[k] = reply
      BY <1>3, <2>2 DEF Typed
    <3>2. /\ CacheKey(r.cred, r.channel) = key
          /\ r.sentAt <= now /\ now <= r.sentAt + Timeout
          /\ r.cred # Anon => r.sentAt < Exp[r.cred] * TicksPerSecond
      BY <1>2 DEF RequestsInOrder, InOrder
    <3> QED
      BY <1>3, <1>4, <2>2, <3>1, <3>2 DEF InOrder, Holds
  <2> QED
    BY <2>1, <2>2
<1>8. CacheJustified'
  BY <1>3, SameEntries DEF CacheJustified
<1>9. WaitersHaveARequest'
  <2> SUFFICES ASSUME NEW y \in Callers, calls[y].state = "waiting"
               PROVE  inflight'[CacheKey(calls[y].cred, calls[y].channel)] # NoRequest
    BY <1>3 DEF WaitersHaveARequest
  <2>1. CacheKey(calls[y].cred, calls[y].channel) \in Keys
    BY Tags, KeyType DEF Questions
  <2> QED
    BY <1>3, <1>5, <2>1 DEF WaitersHaveARequest, Typed
<1> QED
  BY <1>6, <1>7, <1>8, <1>9

(* The API changes its mind about a pair: what was said of it before then    *)
(* was said no later than now.                                               *)
LEMMA ChangeKeepsOrder ==
  ASSUME IInv, NEW pair \in Pairs, ApiChanges(pair)
  PROVE  IInv'
<1> USE DEF IInv
<1>1. /\ UNCHANGED <<now, cache, inflight, calls>>
      /\ changes' = changes + 1 /\ changes < MaxChanges
      /\ changedAt' = [changedAt EXCEPT ![pair] = now]
      /\ apiAllows' \subseteq Pairs
      /\ \A q \in Pairs : q # pair => (q \in apiAllows' <=> q \in apiAllows)
  BY DEF ApiChanges, Typed
<1>2. now \in Nat /\ changes \in Nat /\ changes' > 0
  BY <1>1, BoundTypes DEF Typed
<1>3. changedAt'[pair] = now /\ \A q \in Pairs : q # pair => changedAt'[q] = changedAt[q]
  BY <1>1 DEF Typed
<1>4. Typed'
  BY <1>1, <1>2, BoundTypes DEF Typed
<1>5. RequestsInOrder'
  <2> SUFFICES ASSUME NEW k \in Keys, inflight[k] # NoRequest PROVE InOrder(k)'
    BY <1>1 DEF RequestsInOrder, InOrder
  <2>1. InOrder(k)
    BY DEF RequestsInOrder
  <2>2. CASE inflight[k].status = "sent"
    BY <1>1, <2>1, <2>2 DEF InOrder
  <2>3. CASE inflight[k].status = "replied"
    <3> DEFINE q == <<inflight[k].cred, inflight[k].channel>>
    <3>1. q \in Pairs
      BY <2>3, Tags DEF Replies, Pairs
    <3>2. Holds(q, inflight[k].allow, inflight[k].sentAt) /\ inflight[k].sentAt <= now
      BY <2>1, <2>3 DEF InOrder
    <3> HIDE DEF q
    <3>3. Holds(q, inflight[k].allow, inflight[k].sentAt)'
      BY <1>1, <1>2, <1>3, <3>1, <3>2 DEF Holds, q
    <3> QED
      BY <1>1, <2>1, <3>3 DEF InOrder, q
  <2> QED
    BY <2>2, <2>3, Tags
<1>6. CacheJustified'
  <2>1. ASSUME NEW e \in Justified PROVE e \in Justified'
    <3>1. /\ e \in Entries /\ e.value \in BOOLEAN /\ e.expiresAt \in Nat
          /\ e.expiresAt <= now + Span(e.value)
      BY <2>1 DEF Justified, Entries
    <3>2. Span(e.value) \in Nat /\ Timeout \in Nat
      BY <3>1, SpanType, BoundTypes
    <3>3. ASSUME NEW q \in Pairs, CacheKey(q[1], q[2]) = e.key
          PROVE  \/ e.value <=> q \in apiAllows'
                 \/ /\ changes' > 0
                    /\ e.expiresAt <= changedAt'[q] + Span(e.value) + Timeout
      <4>1. CASE q = pair
        BY <1>2, <1>3, <3>1, <3>2, <4>1
      <4>2. CASE q # pair
        BY <1>1, <1>2, <1>3, <2>1, <3>3, <4>2 DEF Justified
      <4> QED
        BY <4>1, <4>2
    <3> QED
      BY <1>1, <3>1, <3>3 DEF Justified, Entries, Span
  <2>2. cache' = cache
    BY <1>1
  <2> QED
    BY <2>1, <2>2, SeqMonotonic DEF CacheJustified
<1>7. WaitersHaveARequest'
  BY <1>1 DEF WaitersHaveARequest
<1> QED
  BY <1>4, <1>5, <1>6, <1>7

(* The clock goes on while no request is overdue.                            *)
LEMMA TickKeepsOrder ==
  ASSUME IInv, Tick
  PROVE  IInv'
<1> USE DEF IInv
<1>1. /\ UNCHANGED <<apiAllows, changedAt, changes, cache, inflight, calls>>
      /\ now' = now + 1 /\ now < MaxNow
      /\ \A key \in Keys : ~TimedOut(key)
  BY DEF Tick
<1>2. Typed'
  BY <1>1, BoundTypes DEF Typed
<1>3. RequestsInOrder'
  <2> SUFFICES ASSUME NEW k \in Keys, inflight[k] # NoRequest PROVE InOrder(k)'
    BY <1>1 DEF RequestsInOrder, InOrder
  <2>1. InOrder(k)
    BY DEF RequestsInOrder
  <2>2. inflight[k].sentAt \in Nat /\ now \in Nat
    BY Tags, BoundTypes DEF Requests, Replies, Typed
  <2>3. ~(now >= inflight[k].sentAt + Timeout)
    BY <1>1 DEF TimedOut
  <2>4. now' <= inflight[k].sentAt + Timeout /\ inflight[k].sentAt <= now'
    BY <1>1, <2>1, <2>2, <2>3, BoundTypes DEF InOrder
  <2> QED
    BY <1>1, <2>1, <2>4 DEF InOrder, Holds
<1>4. CacheJustified'
  <2>1. ASSUME NEW e \in Justified PROVE e \in Justified'
    <3>1. e.value \in BOOLEAN /\ e.expiresAt \in Nat /\ now \in Nat
      BY <2>1, BoundTypes DEF Justified, Entries, Typed
    <3>2. e.expiresAt <= now' + Span(e.value)
      BY <1>1, <2>1, <3>1, SpanType DEF Justified
    <3> QED
      BY <1>1, <2>1, <3>2 DEF Justified, Entries, Span
  <2>2. cache' = cache
    BY <1>1
  <2> QED
    BY <2>1, <2>2, SeqMonotonic DEF CacheJustified
<1>5. WaitersHaveARequest'
  BY <1>1 DEF WaitersHaveARequest
<1> QED
  BY <1>2, <1>3, <1>4, <1>5
-----------------------------------------------------------------------------
(* The end of a shared call leaves the other requests and their callers.     *)
LEMMA ConcludeKeepsOrder ==
  ASSUME IInv, NEW key \in Keys, NEW allow \in BOOLEAN, NEW ground \in {"remote", "failure"},
         Conclude(key, allow, ground)
  PROVE  Typed' /\ RequestsInOrder' /\ WaitersHaveARequest'
<1> USE DEF IInv
<1> DEFINE Waits(x) == /\ calls[x].state = "waiting"
                       /\ CacheKey(calls[x].cred, calls[x].channel) = key
           told(x) == Answer(calls[x].cred, calls[x].channel, allow, ground)
<1>1. /\ UNCHANGED <<now, apiAllows, changedAt, changes>>
      /\ inflight' = [inflight EXCEPT ![key] = NoRequest]
      /\ calls' = [x \in Callers |-> IF Waits(x) THEN told(x) ELSE calls[x]]
  BY DEF Conclude, Tell
<1>2. ASSUME NEW x \in Callers, Waits(x)
      PROVE  told(x) \in Answers /\ told(x).state = "answered"
  <2>1. calls[x].cred \in Credentials /\ calls[x].channel \in Channels
    BY <1>2, Tags DEF Questions
  <2> QED
    BY <2>1, AnswerType
<1>3. \A k \in Keys : inflight'[k] = IF k = key THEN NoRequest ELSE inflight[k]
  BY <1>1 DEF Typed
<1> HIDE DEF told
<1>4. Typed'
  <2>1. inflight' \in [Keys -> {NoRequest} \cup Requests \cup Replies]
    BY <1>1 DEF Typed
  <2>2. calls' \in [Callers -> {NotCalling} \cup Questions \cup Answers]
    BY <1>1, <1>2 DEF Typed
  <2> QED
    BY <1>1, <2>1, <2>2 DEF Typed
<1>5. RequestsInOrder'
  BY <1>1, <1>3 DEF RequestsInOrder, InOrder, Holds
<1>6. WaitersHaveARequest'
  <2> SUFFICES ASSUME NEW y \in Callers, calls'[y].state = "waiting"
               PROVE  inflight'[CacheKey(calls'[y].cred, calls'[y].channel)] # NoRequest
    BY DEF WaitersHaveARequest
  <2>1. calls'[y] = calls[y] /\ ~Waits(y)
    BY <1>1, <1>2
  <2>2. CacheKey(calls[y].cred, calls[y].channel) \in Keys
    BY <2>1, Tags, KeyType DEF Questions
  <2> QED
    BY <1>3, <2>1, <2>2 DEF WaitersHaveARequest
<1> QED
  BY <1>4, <1>5, <1>6

(* What is kept of a reply is the API's word, given no earlier than the      *)
(* request was sent and so no longer ago than its timeout.                   *)
LEMMA ResponseKeepsOrder ==
  ASSUME IInv, NEW key \in Keys, Respond(key)
  PROVE  IInv'
<1> USE DEF IInv
<1> DEFINE reply == inflight[key]
           ttl == TtlSeconds(reply) * TicksPerSecond
           entry == [key |-> key, value |-> reply.allow, expiresAt |-> now + ttl]
<1>1. /\ Conclude(key, reply.allow, "remote")
      /\ cache' = IF TtlSeconds(reply) > 0
                     THEN Set(cache, key, reply.allow, ttl, now) ELSE cache
      /\ reply \in Replies /\ reply.status = "replied" /\ reply # NoRequest
  BY Tags DEF Respond
<1>2. reply.allow \in BOOLEAN /\ reply.cred \in Credentials /\ reply.channel \in Channels
      /\ reply.sentAt \in Nat
  BY <1>1, BoundTypes DEF Replies
<1>3. Typed' /\ RequestsInOrder' /\ WaitersHaveARequest'
  BY <1>1, <1>2, ConcludeKeepsOrder
<1>4. /\ ttl \in Nat /\ ttl <= Span(reply.allow) /\ Span(reply.allow) \in Nat
      /\ now \in Nat /\ Timeout \in Nat
  BY <1>1, <1>2, LifetimesAreCapped, SpanType, BoundTypes DEF Typed
<1>5. /\ CacheKey(reply.cred, reply.channel) = key
      /\ now <= reply.sentAt + Timeout
      /\ Holds(<<reply.cred, reply.channel>>, reply.allow, reply.sentAt)
  BY <1>1 DEF RequestsInOrder, InOrder
<1> HIDE DEF reply, ttl
<1>6. entry \in Justified
  <2>1. entry \in Entries
    BY <1>2, <1>4 DEF Entries
  <2>2. entry.expiresAt <= now + Span(entry.value)
    BY <1>4
  <2>3. ASSUME NEW pair \in Pairs, CacheKey(pair[1], pair[2]) = key
        PROVE  \/ reply.allow <=> pair \in apiAllows
               \/ /\ changes > 0
                  /\ now + ttl <= changedAt[pair] + Span(reply.allow) + Timeout
    <3>1. pair = <<reply.cred, reply.channel>>
      <4>1. PICK t \in Credentials, c \in Channels : pair = <<t, c>>
        BY <2>3 DEF Pairs
      <4> QED
        BY <1>2, <1>5, <2>3, <4>1, KeysTellPairs
    <3>2. changedAt[pair] \in Nat
      BY <2>3, BoundTypes DEF Typed
    <3> QED
      BY <1>2, <1>4, <1>5, <3>1, <3>2 DEF Holds
  <2> QED
    BY <2>1, <2>2, <2>3 DEF Justified
<1>7. CacheJustified'
  <2>1. Justified' = Justified
    BY <1>1, SameEntries DEF Conclude, Tell
  <2>2. CASE cache' = cache
    BY <2>1, <2>2 DEF CacheJustified
  <2>3. CASE cache' = Set(cache, key, reply.allow, ttl, now)
    <3>1. /\ cache' \in Seq(Justified)
          /\ Len(cache') <= MaxEntries
      BY <1>6, <2>3, BoundTypes, SetAdds DEF CacheJustified
    <3> QED
      BY <2>1, <3>1 DEF CacheJustified
  <2> QED
    BY <1>1, <2>2, <2>3
<1> QED
  BY <1>3, <1>7

(* A failure leaves the cache alone.                                         *)
LEMMA FailureKeepsOrder ==
  ASSUME IInv, NEW key \in Keys, Fail(key)
  PROVE  IInv'
<1>1. Conclude(key, FALSE, "failure") /\ cache' = cache
  BY DEF Fail
<1>2. Typed' /\ RequestsInOrder' /\ WaitersHaveARequest'
  BY <1>1, ConcludeKeepsOrder
<1>3. CacheJustified'
  BY <1>1, SameEntries DEF Conclude, Tell, CacheJustified, IInv
<1> QED
  BY <1>2, <1>3 DEF IInv

(* Every step of the authorizer, the API and the clock keeps the order.      *)
LEMMA StepKeepsOrder == IInv /\ [Next]_vars => IInv'
<1> SUFFICES ASSUME IInv, [Next]_vars PROVE IInv'
  OBVIOUS
<1>1. ASSUME NEW x \in Callers, NEW t \in Credentials, NEW c \in Channels,
             AuthorizeLocally(x, t, c) \/ AuthorizeFromCache(x, t, c)
      PROVE  IInv'
  BY <1>1, LocalKeepsOrder, CachedKeepsOrder
<1>2. ASSUME NEW x \in Callers, NEW t \in Credentials, NEW c \in Channels,
             AuthorizeRemotely(x, t, c)
      PROVE  IInv'
  BY <1>2, RemoteKeepsOrder
<1>3. ASSUME NEW x \in Callers, Proceed(x)
      PROVE  IInv'
  <2>1. /\ UNCHANGED <<now, apiAllows, changedAt, changes, inflight, cache>>
        /\ calls' = [calls EXCEPT ![x] = NotCalling]
    BY <1>3 DEF Proceed
  <2> QED
    BY <2>1, AnsweringKeepsOrder
<1>4. ASSUME NEW key \in Keys, ApiReplies(key)
      PROVE  IInv'
  BY <1>4, ReplyKeepsOrder
<1>5. ASSUME NEW key \in Keys, Respond(key)
      PROVE  IInv'
  BY <1>5, ResponseKeepsOrder
<1>6. ASSUME NEW key \in Keys, Abort(key) \/ Break(key)
      PROVE  IInv'
  BY <1>6, FailureKeepsOrder DEF Abort, Break
<1>7. ASSUME NEW pair \in Pairs, ApiChanges(pair)
      PROVE  IInv'
  BY <1>7, ChangeKeepsOrder
<1>8. CASE Tick
  BY <1>8, TickKeepsOrder
<1>9. CASE UNCHANGED vars
  <2>1. UNCHANGED <<now, apiAllows, changedAt, changes, cache, inflight, calls>>
    BY <1>9 DEF vars
  <2>2. Typed' /\ WaitersHaveARequest'
    BY <2>1 DEF IInv, Typed, WaitersHaveARequest
  <2>3. RequestsInOrder' /\ CacheJustified'
    BY <2>1, SameRequests, SameEntries DEF IInv, CacheJustified
  <2> QED
    BY <2>2, <2>3 DEF IInv
<1> QED
  BY <1>1, <1>2, <1>3, <1>4, <1>5, <1>6, <1>7, <1>8, <1>9 DEF Next
-----------------------------------------------------------------------------
(* The order above holds in every state.                                     *)
LEMMA AlwaysInOrder == Spec => []IInv
BY InitIsInOrder, StepKeepsOrder, PTL DEF Spec

(* In that order the authorizer's state has its type, and the cache its      *)
(* size.                                                                     *)
LEMMA InOrderIsTyped == ASSUME IInv PROVE TypeOK
<1>1. \A i \in DOMAIN cache : cache[i].key \in Keys /\ cache[i].value \in BOOLEAN
  <2> SUFFICES ASSUME NEW i \in DOMAIN cache
               PROVE  cache[i].key \in Keys /\ cache[i].value \in BOOLEAN
    OBVIOUS
  <2>1. cache[i] \in Justified
    BY ElementOfSeq, LenProperties DEF IInv, CacheJustified
  <2> QED
    BY <2>1 DEF Justified, Entries
<1> QED
  BY <1>1 DEF TypeOK, IInv, Typed, CacheJustified

(* And every caller that waits has a request under way for its question,     *)
(* which ends within the timeout.                                            *)
LEMMA InOrderIsServed == ASSUME IInv PROVE WaitersHaveTheirRequest
<1> SUFFICES ASSUME NEW x \in Callers, calls[x].state = "waiting"
             PROVE  LET request == inflight[CacheKey(calls[x].cred, calls[x].channel)] IN
                      request # NoRequest /\ now <= request.sentAt + Timeout
  BY DEF WaitersHaveTheirRequest
<1> DEFINE key == CacheKey(calls[x].cred, calls[x].channel)
<1>1. key \in Keys
  BY Tags, KeyType DEF IInv, Questions
<1>2. inflight[key] # NoRequest
  BY DEF IInv, WaitersHaveARequest
<1> HIDE DEF key
<1>3. now <= inflight[key].sentAt + Timeout
  BY <1>1, <1>2 DEF IInv, RequestsInOrder, InOrder
<1> QED
  BY <1>2, <1>3 DEF key

(* In every state of the authorizer by itself its state has its type         *)
(* (authorizer.js).                                                          *)
THEOREM TypeCorrect == Spec => []TypeOK
BY AlwaysInOrder, InOrderIsTyped, PTL

-----------------------------------------------------------------------------
(* What an answer rests on when it is told: the rules, an entry of the       *)
(* cache, the reply to the question's request, or nothing.                   *)
RestsOn(t, c, allow, ground) ==
  \/ /\ ground = "local"
     /\ allow => ~Expired(t)
  \/ /\ ground = "cache"
     /\ ~Expired(t) /\ Hits(cache, CacheKey(t, c), now)
     /\ allow = GetValue(cache, CacheKey(t, c), now)
  \/ /\ ground = "remote"
     /\ inflight[CacheKey(t, c)].status = "replied"
     /\ allow = inflight[CacheKey(t, c)].allow
  \/ /\ ground = "failure"
     /\ ~allow

(* What the answer to a caller says.                                         *)
LEMMA AnswerParts ==
  ASSUME NEW t, NEW c, NEW allow, NEW ground
  PROVE  LET a == Answer(t, c, allow, ground) IN
           a.cred = t /\ a.channel = c /\ a.allow = allow /\ a.source = ground
BY DEF Answer

(* Whoever is told the end of a shared call asked its question.              *)
LEMMA ConcludedOnGrounds ==
  ASSUME IInv, NEW key \in Keys, NEW allow \in BOOLEAN, NEW ground,
         Conclude(key, allow, ground), NEW x \in Callers, Told(x)
  PROVE  /\ calls[x].state = "waiting"
         /\ CacheKey(calls[x].cred, calls[x].channel) = key
         /\ calls'[x] = Answer(calls[x].cred, calls[x].channel, allow, ground)
         /\ calls[x].cred \in Credentials /\ calls[x].channel \in Channels
         /\ UNCHANGED <<now, apiAllows, changedAt, changes>>
<1>1. /\ calls[x].state = "waiting"
      /\ CacheKey(calls[x].cred, calls[x].channel) = key
      /\ calls'[x] = Answer(calls[x].cred, calls[x].channel, allow, ground)
  BY DEF Conclude, Told
<1>2. calls[x] \in Questions
  BY <1>1, Tags DEF IInv
<1> QED
  BY <1>1, <1>2 DEF Questions, Conclude, Tell

(* Whoever is told an answer is told it on one of the four grounds above.    *)
LEMMA ToldOnGrounds ==
  ASSUME IInv, [Next]_vars, NEW x \in Callers, Told(x)
  PROVE  /\ calls'[x].cred \in Credentials /\ calls'[x].channel \in Channels
         /\ calls'[x].allow \in BOOLEAN
         /\ UNCHANGED <<now, apiAllows, changedAt, changes>>
         /\ RestsOn(calls'[x].cred, calls'[x].channel, calls'[x].allow, calls'[x].source)
<1> DEFINE Goal ==
      /\ calls'[x].cred \in Credentials /\ calls'[x].channel \in Channels
      /\ calls'[x].allow \in BOOLEAN
      /\ UNCHANGED <<now, apiAllows, changedAt, changes>>
      /\ RestsOn(calls'[x].cred, calls'[x].channel, calls'[x].allow, calls'[x].source)
<1>0. calls \in [Callers -> {NotCalling} \cup Questions \cup Answers]
  BY DEF IInv, Typed
<1>1. ASSUME NEW y \in Callers, NEW t \in Credentials, NEW c \in Channels,
             AuthorizeLocally(y, t, c)
      PROVE  Goal
  <2> DEFINE allow == ~Expired(t) /\ <<t, c>> \in AllowedLocally
  <2>1. /\ UNCHANGED <<now, apiAllows, changedAt, changes>>
        /\ calls' = [calls EXCEPT ![y] = Answer(t, c, allow, "local")]
    BY <1>1 DEF AuthorizeLocally, Tell
  <2>2. allow \in BOOLEAN /\ (allow => ~Expired(t))
    OBVIOUS
  <2> HIDE DEF allow
  <2>3. calls'[x] = Answer(t, c, allow, "local")
    BY <1>0, <2>1 DEF Told
  <2>4. /\ calls'[x].cred = t /\ calls'[x].channel = c
        /\ calls'[x].allow = allow /\ calls'[x].source = "local"
    BY <2>3, AnswerParts
  <2> QED
    BY <2>1, <2>2, <2>4 DEF RestsOn
<1>2. ASSUME NEW y \in Callers, NEW t \in Credentials, NEW c \in Channels,
             AuthorizeFromCache(y, t, c)
      PROVE  Goal
  <2> DEFINE allow == GetValue(cache, CacheKey(t, c), now)
  <2>1. /\ UNCHANGED <<now, apiAllows, changedAt, changes>>
        /\ calls' = [calls EXCEPT ![y] = Answer(t, c, allow, "cache")]
        /\ Hits(cache, CacheKey(t, c), now) /\ ~Expired(t)
    BY <1>2 DEF AuthorizeFromCache, Tell, LocallyDecided
  <2>2. allow \in BOOLEAN
    BY <2>1, HitIsJustified DEF IInv
  <2>3. calls'[x] = Answer(t, c, allow, "cache")
    BY <1>0, <2>1 DEF Told
  <2>4. /\ calls'[x].cred = t /\ calls'[x].channel = c
        /\ calls'[x].allow = allow /\ calls'[x].source = "cache"
    BY <2>3, AnswerParts
  <2> QED
    BY <2>1, <2>2, <2>4 DEF RestsOn
<1>3. ASSUME NEW y \in Callers, NEW t \in Credentials, NEW c \in Channels,
             AuthorizeRemotely(y, t, c)
      PROVE  Goal
  <2>1. calls' = [calls EXCEPT ![y] = [state |-> "waiting", cred |-> t, channel |-> c]]
    BY <1>3 DEF AuthorizeRemotely, Tell
  <2> QED
    BY <1>0, <2>1 DEF Told
<1>4. ASSUME NEW y \in Callers, Proceed(y)
      PROVE  Goal
  BY <1>0, <1>4 DEF Proceed, Told, NotCalling
<1>5. ASSUME NEW key \in Keys, Respond(key)
      PROVE  Goal
  <2>1. inflight[key].status = "replied" /\ Conclude(key, inflight[key].allow, "remote")
    BY <1>5 DEF Respond
  <2>2. inflight[key].allow \in BOOLEAN
    BY <2>1, Tags DEF IInv, Replies
  <2> DEFINE t == calls[x].cred
             c == calls[x].channel
  <2>3. /\ CacheKey(t, c) = key /\ t \in Credentials /\ c \in Channels
        /\ calls'[x] = Answer(t, c, inflight[key].allow, "remote")
        /\ UNCHANGED <<now, apiAllows, changedAt, changes>>
    BY <2>1, <2>2, ConcludedOnGrounds
  <2> HIDE DEF t, c
  <2>4. /\ calls'[x].cred = t /\ calls'[x].channel = c
        /\ calls'[x].allow = inflight[key].allow /\ calls'[x].source = "remote"
    BY <2>3, AnswerParts
  <2> QED
    BY <2>1, <2>2, <2>3, <2>4 DEF RestsOn
<1>6. ASSUME NEW key \in Keys, Abort(key) \/ Break(key)
      PROVE  Goal
  <2>1. Conclude(key, FALSE, "failure")
    BY <1>6 DEF Abort, Break, Fail
  <2> DEFINE t == calls[x].cred
             c == calls[x].channel
  <2>2. /\ t \in Credentials /\ c \in Channels
        /\ calls'[x] = Answer(t, c, FALSE, "failure")
        /\ UNCHANGED <<now, apiAllows, changedAt, changes>>
    BY <2>1, ConcludedOnGrounds
  <2> HIDE DEF t, c
  <2>3. /\ calls'[x].cred = t /\ calls'[x].channel = c
        /\ calls'[x].allow = FALSE /\ calls'[x].source = "failure"
    BY <2>2 DEF Answer
  <2> QED
    BY <2>2, <2>3 DEF RestsOn
<1>7. ASSUME calls' = calls
      PROVE  Goal
  BY <1>7 DEF Told
<1> QED
  BY <1>1, <1>2, <1>3, <1>4, <1>5, <1>6, <1>7
     DEF Next, vars, ApiReplies, ApiChanges, Tick

(* An answer from the cache or from a reply is the API's word, no older than *)
(* its lifetime and the call's timeout.                                      *)
LEMMA AnswersHold ==
  ASSUME IInv, NEW t \in Credentials, NEW c \in Channels, NEW allow \in BOOLEAN,
         NEW ground \in {"cache", "remote"}, RestsOn(t, c, allow, ground)
  PROVE  \/ allow <=> <<t, c>> \in apiAllows
         \/ /\ changes > 0
            /\ now <= changedAt[<<t, c>>] + Span(allow) + Timeout
<1> DEFINE pair == <<t, c>>
           key == CacheKey(t, c)
<1>1. /\ pair \in Pairs /\ key \in Keys /\ pair[1] = t /\ pair[2] = c
      /\ Span(allow) \in Nat /\ Timeout \in Nat /\ now \in Nat /\ changedAt[pair] \in Nat
  BY KeyType, SpanType, BoundTypes DEF IInv, Typed
<1>2. CASE ground = "cache"
  <2> DEFINE e == EntryOf(cache, key)
  <2>1. /\ e \in Justified /\ e.key = key /\ now < e.expiresAt
        /\ allow = e.value
    BY <1>2, HitIsJustified DEF RestsOn, IInv
  <2> HIDE DEF e
  <2>2. e.expiresAt \in Nat
    BY <2>1 DEF Justified, Entries
  <2>3. \/ e.value <=> pair \in apiAllows
        \/ /\ changes > 0
           /\ e.expiresAt <= changedAt[pair] + Span(e.value) + Timeout
    BY <1>1, <2>1 DEF Justified
  <2> QED
    BY <1>1, <2>1, <2>2, <2>3
<1>3. CASE ground = "remote"
  <2> DEFINE r == inflight[key]
  <2>1. r.status = "replied" /\ allow = r.allow /\ r \in Replies /\ r # NoRequest
    BY <1>1, <1>3, Tags DEF RestsOn, IInv
  <2>2. /\ CacheKey(r.cred, r.channel) = key
        /\ now <= r.sentAt + Timeout
        /\ Holds(<<r.cred, r.channel>>, r.allow, r.sentAt)
    BY <1>1, <2>1 DEF IInv, RequestsInOrder, InOrder
  <2> HIDE DEF r
  <2>3. r.cred = t /\ r.channel = c /\ r.sentAt \in Nat
    BY <2>1, <2>2, KeysTellPairs, BoundTypes DEF Replies
  <2> QED
    BY <1>1, <2>1, <2>2, <2>3 DEF Holds
<1> QED
  BY <1>2, <1>3

(* An allow that is not the rules' is the API's own for that token and       *)
(* channel, or was until a short time ago, and so is a denial from the cache *)
(* (authorizer.js, the cache and the shared call).                           *)
LEMMA AnswersAreTheApisOwn ==
  ASSUME IInv, [Next]_vars
  PROVE  AllowIsTheApis /\ CachedDenialIsTheApis
<1> SUFFICES ASSUME NEW x \in Callers, Told(x),
                    \/ calls'[x].allow /\ calls'[x].source # "local"
                    \/ ~calls'[x].allow /\ calls'[x].source = "cache"
             PROVE  LET pair == <<calls'[x].cred, calls'[x].channel>> IN
                      \/ calls'[x].allow <=> pair \in apiAllows
                      \/ /\ changes > 0
                         /\ now <= changedAt[pair] + Span(calls'[x].allow) + Timeout
  BY ToldOnGrounds DEF AllowIsTheApis, CachedDenialIsTheApis, Span
<1>1. /\ calls'[x].cred \in Credentials /\ calls'[x].channel \in Channels
      /\ calls'[x].allow \in BOOLEAN
      /\ RestsOn(calls'[x].cred, calls'[x].channel, calls'[x].allow, calls'[x].source)
  BY ToldOnGrounds
<1>2. calls'[x].source \in {"cache", "remote"}
  BY <1>1 DEF RestsOn
<1> QED
  BY <1>1, <1>2, AnswersHold

(* No answer allows an expired token, but for one that expired while its API *)
(* call was under way (authorizer.js, rules.js).                             *)
LEMMA ExpiredTokensAreDenied ==
  ASSUME IInv, [Next]_vars
  PROVE  AllowedBeforeExpiry
<1> SUFFICES ASSUME NEW x \in Callers, Told(x), calls'[x].allow, calls'[x].cred # Anon
             PROVE  now < Exp[calls'[x].cred] * TicksPerSecond
                          + (IF calls'[x].source = "remote" THEN Timeout ELSE 0)
  BY DEF AllowedBeforeExpiry
<1> DEFINE t == calls'[x].cred
           c == calls'[x].channel
           end == Exp[t] * TicksPerSecond
<1>1. t \in Credentials /\ c \in Channels /\ RestsOn(t, c, calls'[x].allow, calls'[x].source)
  BY ToldOnGrounds
<1>2. Exp[t] \in Nat /\ end \in Nat /\ now \in Nat /\ Timeout \in Nat
  BY <1>1, ClaimsAssumption, BoundTypes, ProductsAreMonotonic DEF Credentials, IInv, Typed
<1>3. CASE calls'[x].source \in {"local", "cache"}
  <2>1. ~(Exp[t] <= now \div TicksPerSecond)
    BY <1>1, <1>3 DEF RestsOn, Expired, NowSeconds
  <2>2. now < end
    BY <1>2, <2>1, BeforeTheSecond
  <2> QED
    BY <1>2, <1>3, <2>2
<1>4. CASE calls'[x].source = "remote"
  <2> DEFINE r == inflight[CacheKey(t, c)]
  <2>1. CacheKey(t, c) \in Keys
    BY <1>1, KeyType
  <2>2. r.status = "replied" /\ r \in Replies /\ r # NoRequest
    BY <1>1, <1>4, <2>1, Tags DEF RestsOn, IInv
  <2>3. /\ CacheKey(r.cred, r.channel) = CacheKey(t, c)
        /\ now <= r.sentAt + Timeout
        /\ r.cred # Anon => r.sentAt < Exp[r.cred] * TicksPerSecond
    BY <2>1, <2>2 DEF IInv, RequestsInOrder, InOrder
  <2> HIDE DEF r
  <2>4. r.cred = t /\ r.sentAt \in Nat
    BY <1>1, <2>2, <2>3, KeysTellPairs, BoundTypes DEF Replies
  <2> QED
    BY <1>2, <1>4, <2>3, <2>4
<1>5. calls'[x].source # "failure"
  BY <1>1 DEF RestsOn
<1> QED
  BY <1>1, <1>3, <1>4, <1>5 DEF RestsOn
-----------------------------------------------------------------------------
(* The poller, for any settings, interval and timeout.                       *)
PollAssumptions == Sync!TimeAssumption /\ Sync!EnvAssumption /\ Sync!ApiAssumption

States == [enabled : BOOLEAN, mode : Sync!Modes, origins : Origins]
Polling == [sentAt : 0..PollNow, answered : BOOLEAN, version : 1..Sync!version]

(* TypeOK without the count of polls, which OnePoll states.                  *)
PollTyped ==
  /\ now \in 0..PollNow
  /\ env \in Envs
  /\ phase \in {"created", "running", "stopping", "closed"}
  /\ configs \in Seq(ApiConfigs) /\ Sync!version \in 1..(PollChanges + 1)
  /\ runtime \in States
  /\ source \in {"env", "api"} /\ failing \in BOOLEAN
  /\ requests \subseteq Polling
  /\ timers \subseteq 0..(PollNow + Interval)
  /\ policyMode \in Sync!Modes /\ clientPublish \in BOOLEAN /\ agOrigins \in Origins
  /\ clients \subseteq Sockets
  /\ enteredAs \in [clients -> Sync!Modes \cup {"stale"}]
  /\ applied \in 0..Sync!version /\ stableSince \in 0..PollNow

(* A poll is under way, or the next one is due, or neither.  While the       *)
(* server runs it is never neither; before and after it always is.           *)
NoPoll == requests = {} /\ timers = {}
OnePoll ==
  /\ \/ NoPoll
     \/ timers = {} /\ \E r \in requests : requests = {r}
     \/ requests = {} /\ \E due \in timers : timers = {due}
  /\ phase \in {"created", "closed"} \/ ~Sync!Polls => NoPoll
  /\ phase = "stopping" => timers = {}
  /\ phase = "running" /\ Sync!Polls => ~NoPoll

-----------------------------------------------------------------------------
(* What the environment and what an answer of the API mean is a state of the *)
(* configuration, and one in which the mode is off without a key.            *)
LEMMA EnvStateType ==
  ASSUME PollAssumptions, NEW e \in Envs
  PROVE  /\ Sync!EnvState(e) \in States
         /\ ~e.key \/ ~Sync!EnvState(e).enabled => Sync!EnvState(e).mode = "off"
<1>1. e \in [key : BOOLEAN, polls : BOOLEAN, switchedOn : BOOLEAN,
             requested : Sync!Modes \cup {Sync!NoMode}, origins : Origins]
  BY DEF PollAssumptions, Sync!EnvAssumption
<1>2. (e.switchedOn /\ e.key) \in BOOLEAN
  OBVIOUS
<1>3. Sync!OrEnforce(e.requested) \in Sync!Modes /\ "off" \in Sync!Modes
  BY <1>1 DEF Sync!OrEnforce, Sync!Modes
<1>4. Sync!EnvState(e) \in States
  BY <1>1, <1>2, <1>3 DEF Sync!EnvState, States
<1> QED
  BY <1>4 DEF Sync!EnvState

(* So is what an answer makes of it.                                         *)
LEMMA EffectiveType ==
  ASSUME PollAssumptions, NEW e \in Envs, NEW remote \in ApiConfigs
  PROVE  /\ Sync!Effective(e, remote) \in States
         /\ ~e.key \/ ~Sync!Effective(e, remote).enabled => Sync!Effective(e, remote).mode = "off"
<1>1. e \in [key : BOOLEAN, polls : BOOLEAN, switchedOn : BOOLEAN,
             requested : Sync!Modes \cup {Sync!NoMode}, origins : Origins]
  BY DEF PollAssumptions, Sync!EnvAssumption
<1>2. remote \in [enabled : BOOLEAN, mode : Sync!Modes \cup {Sync!NoMode},
                  origins : Origins \cup {NoOrigins}]
  BY DEF PollAssumptions, Sync!ApiAssumption
<1>3. (e.key /\ remote.enabled) \in BOOLEAN
  OBVIOUS
<1>4. Sync!OrEnforce(e.requested) \in Sync!Modes /\ "off" \in Sync!Modes
  BY <1>1 DEF Sync!OrEnforce, Sync!Modes
<1>5. Sync!Effective(e, remote) \in States
  BY <1>1, <1>2, <1>3, <1>4 DEF Sync!Effective, States
<1> QED
  BY <1>5 DEF Sync!Effective

(* The server as it was created.                                             *)
LEMMA TypedInit ==
  ASSUME PollAssumptions, Sync!Init
  PROVE  PollTyped
<1>1. runtime \in States
  BY EnvStateType DEF Sync!Init
<1>2. PICK config \in ApiConfigs : configs = <<config>>
  BY DEF Sync!Init
<1>3. configs \in Seq(ApiConfigs) /\ Sync!version = 1
  BY <1>2 DEF Sync!version
<1>4. policyMode \in Sync!Modes /\ agOrigins \in Origins /\ clientPublish \in BOOLEAN
  BY <1>1 DEF Sync!Init, States, Sync!EnvState
<1>5. enteredAs \in [clients -> Sync!Modes \cup {"stale"}]
  BY DEF Sync!Init
<1>6. /\ now \in 0..PollNow /\ stableSince \in 0..PollNow
      /\ Sync!version \in 1..(PollChanges + 1) /\ applied \in 0..Sync!version
  BY <1>3 DEF Sync!Init, PollAssumptions, Sync!TimeAssumption
<1> QED
  BY <1>1, <1>3, <1>4, <1>5, <1>6 DEF Sync!Init, PollTyped

(* A poll that is sent, and the end of one.                                  *)
LEMMA SendTyped ==
  ASSUME PollAssumptions, PollTyped, Sync!Send, Sync!version' = Sync!version
  PROVE  requests' \subseteq Polling' /\ timers' \subseteq 0..(PollNow + Interval)
<1>1. Polling' = Polling
  BY DEF Polling
<1>2. Sync!Request(now) \in Polling
  BY DEF PollTyped, Sync!Request, Polling
<1> QED
  BY <1>1, <1>2 DEF Sync!Send, Sync!TimersAfterSend, PollTyped

(* And the end of a poll, with the timer for the next.                       *)
LEMMA FinishTyped ==
  ASSUME PollAssumptions, PollTyped, NEW r \in requests, Sync!Finish(r), Sync!version' = Sync!version
  PROVE  requests' \subseteq Polling' /\ timers' \subseteq 0..(PollNow + Interval)
<1>1. Polling' = Polling
  BY DEF Polling
<1>2. {now + Interval} \subseteq 0..(PollNow + Interval)
  BY DEF PollTyped, PollAssumptions, Sync!TimeAssumption
<1> QED
  BY <1>1, <1>2 DEF Sync!Finish, Sync!TimersAfterPoll, PollTyped

(* Every variable keeps its type.                                            *)
LEMMA TypedStep ==
  ASSUME PollAssumptions, PollTyped, [Sync!Next]_(Sync!vars)
  PROVE  PollTyped'
<1> USE DEF PollTyped
<1>0. /\ {Interval, PollTimeout} \subseteq Nat \ {0} /\ {PollNow, PollChanges} \subseteq Nat
  BY DEF PollAssumptions, Sync!TimeAssumption
<1>1. ASSUME Sync!Start PROVE PollTyped'
  <2>1. Sync!version' = Sync!version
    BY <1>1 DEF Sync!Start, Sync!version
  <2>2. requests' \subseteq Polling' /\ timers' \subseteq 0..(PollNow + Interval)
    BY <1>1, <2>1, SendTyped DEF Sync!Start, Polling
  <2> QED
    BY <1>1, <2>1, <2>2 DEF Sync!Start, Sync!serverVars
<1>2. ASSUME Sync!PollAgain PROVE PollTyped'
  <2>1. Sync!version' = Sync!version
    BY <1>2 DEF Sync!PollAgain, Sync!version
  <2>2. requests' \subseteq Polling' /\ timers' \subseteq 0..(PollNow + Interval)
    BY <1>2, <2>1, SendTyped DEF Sync!PollAgain
  <2> QED
    BY <1>2, <2>1, <2>2 DEF Sync!PollAgain, Sync!serverVars
<1>3. ASSUME NEW r \in requests, Sync!ApiAnswers(r) PROVE PollTyped'
  <2>1. Sync!version' = Sync!version
    BY <1>3 DEF Sync!ApiAnswers, Sync!version
  <2>2. [r EXCEPT !.answered = TRUE, !.version = Sync!version] \in Polling
    <3>1. r \in Polling /\ Sync!version \in 1..Sync!version
      OBVIOUS
    <3> QED
      BY <3>1 DEF Polling
  <2>3. requests' \subseteq Polling'
    BY <1>3, <2>1, <2>2 DEF Sync!ApiAnswers, Polling
  <2> QED
    BY <1>3, <2>1, <2>3 DEF Sync!ApiAnswers, Sync!serverVars
<1>4. ASSUME NEW r \in requests, Sync!PollSucceeds(r) PROVE PollTyped'
  <2>1. Sync!version' = Sync!version
    BY <1>4 DEF Sync!PollSucceeds, Sync!version
  <2>2. requests' \subseteq Polling' /\ timers' \subseteq 0..(PollNow + Interval)
    BY <1>4, <2>1, FinishTyped DEF Sync!PollSucceeds
  <2>3. r.version \in 1..Sync!version /\ configs[r.version] \in ApiConfigs
    BY DEF Polling, Sync!version
  <2> DEFINE next == Sync!Effective(env, configs[r.version])
  <2>4. next \in States
    BY <2>3, EffectiveType
  <2>5. Sync!ApplyRemote(r)
    BY <1>4 DEF Sync!PollSucceeds
  <2>6. runtime' = next /\ source' = "api" /\ failing' = FALSE
    BY <2>5 DEF Sync!ApplyRemote
  <2>7. Sync!OnChange(next) \/ UNCHANGED <<policyMode, clientPublish, agOrigins, clients, enteredAs>>
    BY <2>5 DEF Sync!ApplyRemote
  <2> HIDE DEF next
  <2>8. /\ policyMode' \in Sync!Modes /\ clientPublish' \in BOOLEAN /\ agOrigins' \in Origins
        /\ clients' \subseteq clients
    BY <2>4, <2>7 DEF Sync!OnChange, Sync!MayPublish, States
  <2>9. enteredAs' \in [clients' -> Sync!Modes \cup {"stale"}]
    BY <2>7, <2>8 DEF Sync!OnChange
  <2>10. applied' \in 0..Sync!version'
    BY <1>4, <2>1, <2>3 DEF Sync!PollSucceeds
  <2> QED
    BY <1>4, <2>1, <2>2, <2>4, <2>6, <2>8, <2>9, <2>10 DEF Sync!PollSucceeds
<1>5. ASSUME NEW r \in requests, Sync!PollFails(r) PROVE PollTyped'
  <2>1. Sync!version' = Sync!version
    BY <1>5 DEF Sync!PollFails, Sync!version
  <2>2. requests' \subseteq Polling' /\ timers' \subseteq 0..(PollNow + Interval)
    BY <1>5, <2>1, FinishTyped DEF Sync!PollFails
  <2> QED
    BY <1>5, <2>1, <2>2 DEF Sync!PollFails, Sync!RuntimeAfterFailure
<1>6. ASSUME Sync!Stop PROVE PollTyped'
  BY <1>6 DEF Sync!Stop, Sync!serverVars, Sync!version, Polling
<1>7. ASSUME Sync!Close PROVE PollTyped'
  BY <1>7 DEF Sync!Close, Sync!version, Polling
<1>8. ASSUME NEW s \in Sockets, Sync!Connect(s) PROVE PollTyped'
  <2>1. runtime.mode \in Sync!Modes
    BY DEF States
  <2>2. enteredAs' \in [clients' -> Sync!Modes \cup {"stale"}]
    BY <1>8, <2>1 DEF Sync!Connect
  <2> QED
    BY <1>8, <2>2 DEF Sync!Connect, Sync!version, Polling
<1>9. ASSUME NEW s \in Sockets, Sync!Disconnect(s) PROVE PollTyped'
  <2>1. enteredAs' \in [clients' -> Sync!Modes \cup {"stale"}]
    BY <1>9 DEF Sync!Disconnect
  <2> QED
    BY <1>9, <2>1 DEF Sync!Disconnect, Sync!version, Polling
<1>10. ASSUME Sync!ApiChanges PROVE PollTyped'
  <2>1. PICK config \in ApiConfigs : configs' = Append(configs, config)
    BY <1>10 DEF Sync!ApiChanges
  <2>2. configs' \in Seq(ApiConfigs) /\ Sync!version' = Sync!version + 1
    BY <2>1 DEF Sync!version
  <2>3. Sync!version' \in 1..(PollChanges + 1) /\ 1..Sync!version \subseteq 1..Sync!version'
    BY <1>0, <1>10, <2>2 DEF Sync!ApiChanges
  <2>4. requests \subseteq Polling'
    BY <2>3 DEF Polling
  <2> QED
    BY <1>10, <2>2, <2>3, <2>4 DEF Sync!ApiChanges, Sync!serverVars
<1>11. ASSUME Sync!Tick PROVE PollTyped'
  <2>1. now' \in 0..PollNow
    BY <1>0, <1>11 DEF Sync!Tick
  <2> QED
    BY <1>11, <2>1 DEF Sync!Tick, Sync!serverVars, Sync!version, Polling
<1>12. CASE UNCHANGED Sync!vars
  BY <1>12 DEF Sync!vars, Sync!serverVars, Sync!version, Polling
<1> QED
  BY <1>1, <1>2, <1>3, <1>4, <1>5, <1>6, <1>7, <1>8, <1>9, <1>10, <1>11, <1>12
     DEF Sync!Next
-----------------------------------------------------------------------------
(* Polls do not overlap: the next is due only after the last one ended, and  *)
(* none is due once the poller was stopped.                                  *)
LEMMA OnePollInit == Sync!Init => OnePoll
BY DEF Sync!Init, OnePoll, NoPoll

(* A poll is sent only when none is under way, and its end sets one timer.   *)
LEMMA OnePollStep ==
  ASSUME PollTyped, OnePoll, [Sync!Next]_(Sync!vars)
  PROVE  OnePoll'
<1> USE DEF NoPoll
<1>1. ASSUME Sync!Start PROVE OnePoll'
  BY <1>1 DEF OnePoll, Sync!Start, Sync!Send, Sync!TimersAfterSend, Sync!Polls
<1>2. ASSUME Sync!PollAgain PROVE OnePoll'
  <2>1. requests = {} /\ Sync!Polls /\ phase = "running"
    BY <1>2 DEF OnePoll, Sync!PollAgain, PollTyped
  <2> QED
    BY <1>2, <2>1 DEF OnePoll, Sync!PollAgain, Sync!Send, Sync!TimersAfterSend, Sync!Polls
<1>3. ASSUME NEW r \in requests, Sync!ApiAnswers(r) PROVE OnePoll'
  <2>1. requests = {r} /\ timers = {}
    BY DEF OnePoll
  <2> QED
    BY <1>3, <2>1 DEF OnePoll, Sync!ApiAnswers, Sync!Polls
<1>4. ASSUME NEW r \in requests, Sync!PollSucceeds(r) \/ Sync!PollFails(r) PROVE OnePoll'
  <2>1. requests = {r} /\ timers = {}
    BY DEF OnePoll
  <2>2. Sync!Finish(r) /\ UNCHANGED <<env, phase>>
    BY <1>4 DEF Sync!PollSucceeds, Sync!PollFails
  <2> QED
    BY <2>1, <2>2 DEF OnePoll, Sync!Finish, Sync!TimersAfterPoll, Sync!Polls
<1>5. ASSUME Sync!Stop PROVE OnePoll'
  BY <1>5 DEF OnePoll, Sync!Stop, Sync!Polls
<1>6. ASSUME Sync!Close PROVE OnePoll'
  BY <1>6 DEF OnePoll, Sync!Close, Sync!PollerStopped, Sync!Polls
<1>7. ASSUME UNCHANGED <<env, phase, requests, timers>> PROVE OnePoll'
  BY <1>7 DEF OnePoll, Sync!Polls
<1>8. ASSUME NEW s \in Sockets, Sync!Connect(s) \/ Sync!Disconnect(s)
      PROVE  UNCHANGED <<env, phase, requests, timers>>
  BY <1>8 DEF Sync!Connect, Sync!Disconnect
<1>9. ASSUME Sync!ApiChanges \/ Sync!Tick \/ UNCHANGED Sync!vars
      PROVE  UNCHANGED <<env, phase, requests, timers>>
  BY <1>9 DEF Sync!ApiChanges, Sync!Tick, Sync!vars
<1> QED
  BY <1>1, <1>2, <1>3, <1>4, <1>5, <1>6, <1>7, <1>8, <1>9 DEF Sync!Next

(* Then at most one poll is under way or due.                                *)
LEMMA TypedIsTypeOK == PollTyped /\ OnePoll => Sync!TypeOK
<1> SUFFICES ASSUME PollTyped, OnePoll
             PROVE  Sync!Cardinality(requests) + Sync!Cardinality(timers) <= 1
  BY DEF PollTyped, Sync!TypeOK, States, Polling
<1>1. \A S : Sync!Cardinality(S) = Cardinality(S)
  BY DEF Sync!Cardinality, Cardinality
<1>2. Sync!Cardinality({}) = 0 /\ \A x : Sync!Cardinality({x}) = 1
  BY <1>1, FS_EmptySet, FS_Singleton
<1>3. requests = {} \/ timers = {}
  BY DEF OnePoll, NoPoll
<1>4. /\ requests = {} \/ \E x : requests = {x}
      /\ timers = {} \/ \E x : timers = {x}
  BY DEF OnePoll, NoPoll
<1>5. /\ Sync!Cardinality(requests) = 0 \/ (Sync!Cardinality(requests) = 1 /\ timers = {})
      /\ Sync!Cardinality(timers) = 0 \/ Sync!Cardinality(timers) = 1
  BY <1>2, <1>3, <1>4, Zenon
<1>6. timers = {} => Sync!Cardinality(timers) = 0
  BY <1>2
<1> QED
  BY <1>5, <1>6

-----------------------------------------------------------------------------
(* An answer that is under way is no older than the one in force, and one    *)
(* that is older than the API's settings was asked for before they changed.  *)
AnswersAreNew ==
  \A r \in requests :
    /\ applied <= r.version
    /\ r.sentAt <= now /\ now <= r.sentAt + PollTimeout
    /\ r.answered /\ r.version # Sync!version => r.sentAt <= stableSince

(* The next poll is due within the interval.                                 *)
DueInTime == \A due \in timers : now <= due /\ due <= now + Interval

(* LastGoodStays, and the version in force is one the API has answered.      *)
LastGood ==
  /\ source = "api" => applied >= 1
  /\ Sync!LastGoodStays

(* The part of CopiesAgree that is about the copies.                         *)
Copied ==
  /\ policyMode = runtime.mode
  /\ clientPublish = (runtime.mode # "enforce")
  /\ agOrigins = runtime.origins

(* While settings the API answers now are not in force, the poll that will   *)
(* bring them was sent or is due in time.                                    *)
Underway ==
  phase = "running" /\ Sync!Polls /\ runtime # Sync!Effective(env, Sync!api) =>
    /\ \A r \in requests : r.sentAt <= stableSince + PollTimeout + Interval
    /\ \A due \in timers : due <= stableSince + PollTimeout + Interval

PollInv ==
  /\ PollTyped /\ OnePoll /\ AnswersAreNew /\ DueInTime
  /\ LastGood /\ Copied /\ Sync!EnforceStartsClean /\ Underway
-----------------------------------------------------------------------------
(* A poll that ends leaves none under way.                                   *)
LEMMA FinishEndsIt ==
  ASSUME OnePoll, NEW r \in requests, Sync!Finish(r)
  PROVE  /\ requests' = {} /\ timers = {}
         /\ timers' \subseteq {now + Interval}
BY DEF OnePoll, NoPoll, Sync!Finish, Sync!TimersAfterPoll

(* The steps that neither time, nor the polls, nor the settings take part in. *)
Unrelated ==
  UNCHANGED <<now, env, configs, requests, timers, runtime, source, applied, stableSince>>

(* Stopping, closing and the sockets leave the configuration alone.          *)
LEMMA UnrelatedSteps ==
  /\ Sync!Stop => UNCHANGED <<now, env, configs, requests, runtime, source, applied, stableSince>>
  /\ Sync!Close => Unrelated
  /\ \A s \in Sockets : Sync!Connect(s) \/ Sync!Disconnect(s) => Unrelated /\ phase' = phase
  /\ UNCHANGED Sync!vars => Unrelated /\ phase' = phase
BY DEF Sync!Stop, Sync!Close, Sync!Connect, Sync!Disconnect, Sync!vars, Sync!serverVars, Unrelated

(* Nothing was asked or applied at first.                                    *)
LEMMA AnswersAreNewInit == Sync!Init => AnswersAreNew
BY DEF Sync!Init, AnswersAreNew

(* A request is sent after the last answer was applied, and answered with    *)
(* the settings of that moment.                                              *)
LEMMA AnswersAreNewStep ==
  ASSUME PollAssumptions, PollTyped, OnePoll, AnswersAreNew, [Sync!Next]_(Sync!vars)
  PROVE  AnswersAreNew'
<1>0. /\ PollTimeout \in Nat /\ now \in Nat /\ Sync!version \in Nat /\ applied \in Nat
      /\ applied <= Sync!version /\ stableSince \in Nat
      /\ \A r \in requests : r.sentAt \in Nat /\ r.version \in Nat
  BY DEF PollAssumptions, Sync!TimeAssumption, PollTyped, Polling
<1>1. ASSUME Sync!Send, UNCHANGED <<now, configs, applied>>,
             stableSince' = now \/ stableSince' = stableSince
      PROVE  AnswersAreNew'
  <2>1. \A r \in requests' : r \in requests \/ r = Sync!Request(now)
    BY <1>1 DEF Sync!Send
  <2>2. Sync!version' = Sync!version
    BY <1>1 DEF Sync!version
  <2>3. ASSUME NEW r \in requests
        PROVE  /\ applied' <= r.version
               /\ r.sentAt <= now' /\ now' <= r.sentAt + PollTimeout
               /\ r.answered /\ r.version # Sync!version' => r.sentAt <= stableSince'
    BY <1>0, <1>1, <2>2 DEF AnswersAreNew
  <2>4. /\ Sync!Request(now).version = Sync!version /\ Sync!Request(now).sentAt = now
        /\ ~Sync!Request(now).answered
    BY DEF Sync!Request
  <2> QED
    BY <1>0, <1>1, <2>1, <2>2, <2>3, <2>4 DEF AnswersAreNew
<1>2. ASSUME Sync!Start PROVE AnswersAreNew'
  <2>1. CASE Sync!Polls
    BY <1>1, <1>2, <2>1 DEF Sync!Start, Sync!serverVars
  <2>2. CASE ~Sync!Polls
    BY <1>2, <2>2 DEF Sync!Start, OnePoll, NoPoll, AnswersAreNew
  <2> QED
    BY <2>1, <2>2
<1>3. ASSUME Sync!PollAgain PROVE AnswersAreNew'
  BY <1>1, <1>3 DEF Sync!PollAgain, Sync!serverVars
<1>4. ASSUME NEW r \in requests, Sync!ApiAnswers(r) PROVE AnswersAreNew'
  <2> DEFINE answer == [r EXCEPT !.answered = TRUE, !.version = Sync!version]
  <2>1. answer.sentAt = r.sentAt /\ answer.version = Sync!version
    BY DEF PollTyped, Polling
  <2> HIDE DEF answer
  <2>2. requests' = (requests \ {r}) \cup {answer}
    BY <1>4 DEF Sync!ApiAnswers, answer
  <2>3. UNCHANGED <<now, applied, stableSince, Sync!version>>
    BY <1>4 DEF Sync!ApiAnswers, Sync!serverVars, Sync!version
  <2> QED
    BY <1>0, <2>1, <2>2, <2>3 DEF AnswersAreNew
<1>5. ASSUME NEW r \in requests, Sync!PollSucceeds(r) \/ Sync!PollFails(r)
      PROVE  AnswersAreNew'
  <2>1. requests' = {}
    BY <1>5, FinishEndsIt DEF Sync!PollSucceeds, Sync!PollFails
  <2> QED
    BY <2>1 DEF AnswersAreNew
<1>6. ASSUME Sync!ApiChanges PROVE AnswersAreNew'
  <2>1. UNCHANGED <<now, requests, applied>> /\ stableSince' = now
    BY <1>6 DEF Sync!ApiChanges, Sync!serverVars
  <2> QED
    BY <1>0, <2>1 DEF AnswersAreNew
<1>7. ASSUME Sync!Tick PROVE AnswersAreNew'
  <2>1. /\ UNCHANGED <<requests, applied, stableSince, Sync!version>> /\ now' = now + 1
        /\ \A r \in requests : now < r.sentAt + PollTimeout
    BY <1>7 DEF Sync!Tick, Sync!serverVars, Sync!version
  <2> QED
    BY <1>0, <2>1 DEF AnswersAreNew
<1>8. ASSUME UNCHANGED <<now, configs, requests, applied, stableSince>>
      PROVE  AnswersAreNew'
  BY <1>8 DEF AnswersAreNew, Sync!version
<1> QED
  BY <1>2, <1>3, <1>4, <1>5, <1>6, <1>7, <1>8, UnrelatedSteps DEF Sync!Next, Unrelated

(* The clock goes on only while nothing is overdue.                          *)
LEMMA DueInTimeStep ==
  ASSUME PollAssumptions, PollTyped, OnePoll, DueInTime, [Sync!Next]_(Sync!vars)
  PROVE  DueInTime'
<1>0. Interval \in Nat /\ now \in Nat /\ \A due \in timers : due \in Nat
  BY DEF PollAssumptions, Sync!TimeAssumption, PollTyped
<1>1. ASSUME Sync!Start \/ Sync!PollAgain PROVE DueInTime'
  BY <1>1 DEF Sync!Start, Sync!PollAgain, Sync!Send, Sync!TimersAfterSend, DueInTime
<1>2. ASSUME NEW r \in requests, Sync!PollSucceeds(r) \/ Sync!PollFails(r)
      PROVE  DueInTime'
  <2>1. timers' \subseteq {now + Interval} /\ now' = now
    BY <1>2, FinishEndsIt DEF Sync!PollSucceeds, Sync!PollFails
  <2> QED
    BY <1>0, <2>1 DEF DueInTime
<1>3. ASSUME Sync!Tick PROVE DueInTime'
  BY <1>0, <1>3 DEF Sync!Tick, DueInTime
<1>4. ASSUME Sync!Stop PROVE DueInTime'
  BY <1>4 DEF Sync!Stop, DueInTime
<1>5. ASSUME UNCHANGED <<now, timers>> PROVE DueInTime'
  BY <1>5 DEF DueInTime
<1>6. ASSUME NEW r \in requests, Sync!ApiAnswers(r) PROVE UNCHANGED <<now, timers>>
  BY <1>6 DEF Sync!ApiAnswers
<1>7. ASSUME Sync!ApiChanges PROVE UNCHANGED <<now, timers>>
  BY <1>7 DEF Sync!ApiChanges
<1> QED
  BY <1>1, <1>2, <1>3, <1>4, <1>5, <1>6, <1>7, UnrelatedSteps DEF Sync!Next, Unrelated
-----------------------------------------------------------------------------
(* What an answer puts in force.                                             *)
LEMMA AnswerInForce ==
  ASSUME PollTyped, NEW r \in requests, Sync!PollSucceeds(r)
  PROVE  /\ runtime' = Sync!Effective(env, configs[r.version])
         /\ source' = "api" /\ applied' = r.version /\ r.version \in 1..Sync!version
         /\ UNCHANGED <<now, env, phase, configs, stableSince>>
BY DEF PollTyped, Polling, Sync!PollSucceeds, Sync!ApplyRemote

(* At first the environment is in force.                                     *)
LEMMA LastGoodInit == Sync!Init => LastGood
BY DEF Sync!Init, LastGood, Sync!LastGoodStays

(* Only an answer replaces it, and a failure leaves it.                      *)
LEMMA LastGoodStep ==
  ASSUME PollTyped, LastGood, [Sync!Next]_(Sync!vars)
  PROVE  LastGood'
<1>1. ASSUME NEW r \in requests, Sync!PollSucceeds(r) PROVE LastGood'
  BY <1>1, AnswerInForce DEF LastGood, Sync!LastGoodStays
<1>2. ASSUME NEW r \in requests, Sync!PollFails(r) PROVE LastGood'
  BY <1>2 DEF Sync!PollFails, Sync!RuntimeAfterFailure, LastGood, Sync!LastGoodStays
<1>3. ASSUME Sync!ApiChanges PROVE LastGood'
  <2>1. PICK config \in ApiConfigs : configs' = Append(configs, config)
    BY <1>3 DEF Sync!ApiChanges
  <2>2. source = "api" => applied \in 1..Len(configs)
    BY DEF LastGood, PollTyped, Sync!version
  <2>3. source = "api" => configs'[applied] = configs[applied]
    BY <2>1, <2>2 DEF PollTyped
  <2> QED
    BY <1>3, <2>3 DEF Sync!ApiChanges, Sync!serverVars, LastGood, Sync!LastGoodStays, PollTyped
<1>4. ASSUME UNCHANGED <<env, configs, runtime, source, applied>> PROVE LastGood'
  BY <1>4 DEF LastGood, Sync!LastGoodStays
<1>5. ASSUME NEW r \in requests, Sync!ApiAnswers(r)
      PROVE  UNCHANGED <<env, configs, runtime, source, applied>>
  BY <1>5 DEF Sync!ApiAnswers, Sync!serverVars
<1>6. ASSUME Sync!Start \/ Sync!PollAgain \/ Sync!Tick
      PROVE  UNCHANGED <<env, configs, runtime, source, applied>>
  BY <1>6 DEF Sync!Start, Sync!PollAgain, Sync!Tick, Sync!serverVars
<1> QED
  BY <1>1, <1>2, <1>3, <1>4, <1>5, <1>6, UnrelatedSteps DEF Sync!Next, Unrelated

(* Where the configuration comes from says when auth is off.                 *)
LEMMA OffWithoutKey ==
  ASSUME PollAssumptions, PollTyped, LastGood
  PROVE  ~env.key \/ ~runtime.enabled => runtime.mode = "off"
<1>1. CASE source = "env"
  BY <1>1, EnvStateType DEF LastGood, Sync!LastGoodStays, PollTyped
<1>2. CASE source # "env"
  <2>1. configs[applied] \in ApiConfigs
    BY <1>2 DEF LastGood, PollTyped, Sync!version
  <2> QED
    BY <1>2, <2>1, EffectiveType DEF LastGood, Sync!LastGoodStays, PollTyped
<1> QED
  BY <1>1, <1>2

(* The listener brings the copies along with the configuration.              *)
LEMMA CopiedInit == Sync!Init => Copied
BY DEF Sync!Init, Copied, Sync!EnvState

(* No step changes the configuration without its copies.                     *)
LEMMA CopiedStep ==
  ASSUME Copied, [Sync!Next]_(Sync!vars)
  PROVE  Copied'
<1>1. ASSUME NEW r \in requests, Sync!PollSucceeds(r) PROVE Copied'
  BY <1>1 DEF Sync!PollSucceeds, Sync!ApplyRemote, Sync!OnChange, Sync!MayPublish, Copied
<1>2. ASSUME UNCHANGED <<runtime, policyMode, clientPublish, agOrigins>> PROVE Copied'
  BY <1>2 DEF Copied
<1>3. ASSUME NEW r \in requests, Sync!ApiAnswers(r) \/ Sync!PollFails(r)
      PROVE  UNCHANGED <<runtime, policyMode, clientPublish, agOrigins>>
  BY <1>3 DEF Sync!ApiAnswers, Sync!PollFails, Sync!RuntimeAfterFailure, Sync!serverVars
<1>4. ASSUME NEW s \in Sockets, Sync!Connect(s) \/ Sync!Disconnect(s)
      PROVE  UNCHANGED <<runtime, policyMode, clientPublish, agOrigins>>
  BY <1>4 DEF Sync!Connect, Sync!Disconnect
<1>5. ASSUME \/ Sync!Start \/ Sync!PollAgain \/ Sync!Stop \/ Sync!Close \/ Sync!ApiChanges \/ Sync!Tick
             \/ UNCHANGED Sync!vars
      PROVE  UNCHANGED <<runtime, policyMode, clientPublish, agOrigins>>
  BY <1>5 DEF Sync!Start, Sync!PollAgain, Sync!Stop, Sync!Close, Sync!ApiChanges, Sync!Tick, Sync!vars, Sync!serverVars
<1> QED
  BY <1>1, <1>2, <1>3, <1>4, <1>5 DEF Sync!Next

(* Entering enforce disconnects everybody, and who connects later does so    *)
(* under enforce.                                                            *)
LEMMA EnforceStartsCleanInit == Sync!Init => Sync!EnforceStartsClean
BY DEF Sync!Init, Sync!EnforceStartsClean

(* Whoever is connected when enforce begins is disconnected.                 *)
LEMMA EnforceStartsCleanStep ==
  ASSUME Sync!EnforceStartsClean, [Sync!Next]_(Sync!vars)
  PROVE  Sync!EnforceStartsClean'
<1> USE DEF Sync!EnforceStartsClean
<1>1. ASSUME NEW r \in requests, Sync!PollSucceeds(r) PROVE Sync!EnforceStartsClean'
  <2> DEFINE next == Sync!Effective(env, configs[r.version])
  <2>1. Sync!ApplyRemote(r)
    BY <1>1 DEF Sync!PollSucceeds
  <2>2. runtime' = next
    BY <2>1 DEF Sync!ApplyRemote
  <2>3. \/ Sync!OnChange(next)
        \/ next = runtime /\ UNCHANGED <<clients, enteredAs>>
    BY <2>1 DEF Sync!ApplyRemote
  <2> HIDE DEF next
  <2>4. CASE Sync!OnChange(next)
    BY <2>2, <2>4 DEF Sync!OnChange, Sync!Disconnects
  <2> QED
    BY <2>2, <2>3, <2>4
<1>2. ASSUME UNCHANGED <<runtime, clients, enteredAs>> PROVE Sync!EnforceStartsClean'
  BY <1>2
<1>3. ASSUME NEW r \in requests, Sync!ApiAnswers(r) \/ Sync!PollFails(r)
      PROVE  UNCHANGED <<runtime, clients, enteredAs>>
  BY <1>3 DEF Sync!ApiAnswers, Sync!PollFails, Sync!RuntimeAfterFailure, Sync!serverVars
<1>4. ASSUME NEW s \in Sockets, Sync!Connect(s) \/ Sync!Disconnect(s)
      PROVE  Sync!EnforceStartsClean'
  BY <1>4 DEF Sync!Connect, Sync!Disconnect
<1>5. ASSUME Sync!Close PROVE Sync!EnforceStartsClean'
  BY <1>5 DEF Sync!Close
<1>6. ASSUME Sync!Start \/ Sync!PollAgain \/ Sync!Stop \/ Sync!ApiChanges \/ Sync!Tick \/ UNCHANGED Sync!vars
      PROVE  UNCHANGED <<runtime, clients, enteredAs>>
  BY <1>6 DEF Sync!Start, Sync!PollAgain, Sync!Stop, Sync!ApiChanges, Sync!Tick, Sync!vars, Sync!serverVars
<1> QED
  BY <1>1, <1>2, <1>3, <1>4, <1>5, <1>6 DEF Sync!Next
-----------------------------------------------------------------------------
(* An answer that is older than the API's settings ends no later than a      *)
(* timeout after they changed; the poll after it brings them.                *)
LEMMA UnderwayInit == Sync!Init => Underway
BY DEF Sync!Init, Underway

(* What has changed is on its way, or will be asked for in time.             *)
LEMMA UnderwayStep ==
  ASSUME PollAssumptions, PollTyped, OnePoll, AnswersAreNew, DueInTime, Underway, [Sync!Next]_(Sync!vars)
  PROVE  Underway'
<1>0. /\ {Interval, PollTimeout} \subseteq Nat /\ {now, stableSince} \subseteq Nat
      /\ \A r \in requests : r.sentAt \in Nat
      /\ \A due \in timers : due \in Nat
  BY DEF PollAssumptions, Sync!TimeAssumption, PollTyped, Polling
<1>1. ASSUME Sync!Start PROVE Underway'
  <2>1. CASE Sync!Polls
    <3>1. requests' \subseteq {Sync!Request(now)} /\ timers' = {}
      BY <1>1, <2>1 DEF Sync!Start, Sync!Send, Sync!TimersAfterSend, OnePoll, NoPoll
    <3>2. Sync!Request(now).sentAt = now /\ stableSince' = now
      BY <1>1 DEF Sync!Start, Sync!Request
    <3> QED
      BY <1>0, <3>1, <3>2 DEF Underway
  <2>2. CASE ~Sync!Polls
    BY <1>1, <2>2 DEF Sync!Start, Sync!Polls, Underway
  <2> QED
    BY <2>1, <2>2
<1>2. ASSUME Sync!PollAgain PROVE Underway'
  <2> PICK due \in timers : due <= now
    BY <1>2 DEF Sync!PollAgain
  <2>1. due = now /\ requests = {}
    BY <1>0 DEF DueInTime, OnePoll, NoPoll
  <2>2. requests' = {Sync!Request(now)} /\ timers' = {} /\ Sync!Request(now).sentAt = now
    BY <1>2, <2>1 DEF Sync!PollAgain, Sync!Send, Sync!TimersAfterSend, Sync!Request
  <2>3. UNCHANGED <<env, phase, configs, runtime, stableSince>>
    BY <1>2 DEF Sync!PollAgain, Sync!serverVars
  <2> QED
    BY <2>1, <2>2, <2>3 DEF Underway, Sync!Polls, Sync!api, Sync!version
<1>3. ASSUME NEW r \in requests, Sync!ApiAnswers(r) PROVE Underway'
  <2>1. [r EXCEPT !.answered = TRUE, !.version = Sync!version].sentAt = r.sentAt
    BY DEF PollTyped, Polling
  <2>2. \A q \in requests' : \E p \in requests : q.sentAt = p.sentAt
    BY <1>3, <2>1 DEF Sync!ApiAnswers
  <2>3. UNCHANGED <<env, phase, configs, runtime, stableSince, timers>>
    BY <1>3 DEF Sync!ApiAnswers, Sync!serverVars
  <2> QED
    BY <2>2, <2>3 DEF Underway, Sync!Polls, Sync!api, Sync!version
<1>4. ASSUME NEW r \in requests, Sync!PollSucceeds(r) PROVE Underway'
  <2>1. requests' = {} /\ timers' \subseteq {now + Interval}
    BY <1>4, FinishEndsIt DEF Sync!PollSucceeds
  <2>2. CASE r.version = Sync!version
    BY <1>4, <2>2, AnswerInForce DEF Underway, Sync!api, Sync!version
  <2>3. CASE r.version # Sync!version
    <3>1. r.answered
      BY <1>4 DEF Sync!PollSucceeds
    <3>2. now <= stableSince + PollTimeout
      BY <1>0, <2>3, <3>1 DEF AnswersAreNew
    <3> QED
      BY <1>0, <1>4, <2>1, <3>2, AnswerInForce DEF Underway
  <2> QED
    BY <2>2, <2>3
<1>5. ASSUME NEW r \in requests, Sync!PollFails(r) PROVE Underway'
  <2>1. requests' = {} /\ timers' \subseteq {now + Interval} /\ stableSince' = now
    BY <1>5, FinishEndsIt DEF Sync!PollFails
  <2> QED
    BY <1>0, <2>1 DEF Underway
<1>6. ASSUME Sync!ApiChanges PROVE Underway'
  <2>1. stableSince' = now /\ UNCHANGED <<requests, timers>>
    BY <1>6 DEF Sync!ApiChanges
  <2> QED
    BY <1>0, <2>1 DEF Underway, AnswersAreNew, DueInTime
<1>7. ASSUME Sync!Stop \/ Sync!Close PROVE Underway'
  BY <1>7 DEF Sync!Stop, Sync!Close, Underway
<1>8. ASSUME UNCHANGED <<env, phase, configs, requests, timers, runtime, stableSince>>
      PROVE  Underway'
  BY <1>8 DEF Underway, Sync!Polls, Sync!api, Sync!version
<1>9. ASSUME Sync!Tick PROVE Underway'
  BY <1>8, <1>9 DEF Sync!Tick, Sync!serverVars
<1> QED
  BY <1>1, <1>2, <1>3, <1>4, <1>5, <1>6, <1>7, <1>8, <1>9, UnrelatedSteps
     DEF Sync!Next, Unrelated
-----------------------------------------------------------------------------
(* All parts hold at first.                                                  *)
LEMMA InvInit == ASSUME PollAssumptions, Sync!Init PROVE PollInv
BY TypedInit, OnePollInit, AnswersAreNewInit, LastGoodInit, CopiedInit,
   EnforceStartsCleanInit, UnderwayInit
   DEF PollInv, Sync!Init, DueInTime

(* Every step preserves each part, with the help of the others.              *)
LEMMA InvStep == ASSUME PollAssumptions, PollInv, [Sync!Next]_(Sync!vars) PROVE PollInv'
<1>1. PollTyped' /\ OnePoll'
  BY TypedStep, OnePollStep DEF PollInv
<1>2. AnswersAreNew' /\ DueInTime'
  BY AnswersAreNewStep, DueInTimeStep DEF PollInv
<1>3. LastGood'
  BY LastGoodStep DEF PollInv
<1>4. Copied'
  BY CopiedStep DEF PollInv
<1>5. Sync!EnforceStartsClean'
  BY EnforceStartsCleanStep DEF PollInv
<1>6. Underway'
  BY UnderwayStep DEF PollInv
<1> QED
  BY <1>1, <1>2, <1>3, <1>4, <1>5, <1>6 DEF PollInv

(* With a poll always under way or due, and in time, the settings cannot     *)
(* stay unapplied for longer.                                                *)
LEMMA InvAppliesInTime == ASSUME PollAssumptions, PollInv PROVE Sync!AppliedInTime
<1> SUFFICES ASSUME phase = "running", Sync!Polls,
                    now > stableSince + Interval + 2 * PollTimeout,
                    runtime # Sync!Effective(env, Sync!api)
             PROVE  FALSE
  BY DEF Sync!AppliedInTime
<1> USE DEF PollInv
<1>0. /\ {Interval, PollTimeout} \subseteq Nat /\ {now, stableSince} \subseteq Nat
      /\ \A r \in requests : r.sentAt \in Nat
      /\ \A due \in timers : due \in Nat
  BY DEF PollAssumptions, Sync!TimeAssumption, PollTyped, Polling
<1>1. ASSUME NEW r \in requests PROVE FALSE
  BY <1>0 DEF AnswersAreNew, Underway
<1>2. ASSUME NEW due \in timers PROVE FALSE
  BY <1>0 DEF DueInTime, Underway
<1> QED
  BY <1>1, <1>2 DEF OnePoll, NoPoll

(* One configuration is in force, the last good answer or the environment's, *)
(* and the policy, client publish and the origins follow it (runtime.js,     *)
(* app.js).                                                                  *)
LEMMA InForce == ASSUME PollAssumptions, PollInv PROVE Sync!InForceEverywhere
BY OffWithoutKey DEF PollInv, LastGood, Copied, Sync!CopiesAgree, Sync!InForceEverywhere

(* What is applied was asked for after what was applied before.              *)
LEMMA AppliedStep ==
  ASSUME PollInv, [Sync!Next]_(Sync!vars)
  PROVE  Sync!NeverGoesBack
<1>0. applied \in Nat
  BY DEF PollInv, PollTyped
<1>1. ASSUME NEW r \in requests, Sync!PollSucceeds(r) PROVE applied' >= applied
  <2>1. applied' = r.version /\ r.version \in Nat
    BY <1>1, AnswerInForce DEF PollInv
  <2> QED
    BY <1>0, <2>1 DEF PollInv, AnswersAreNew
<1>2. ASSUME NEW r \in requests, Sync!ApiAnswers(r) \/ Sync!PollFails(r) PROVE applied' = applied
  BY <1>2 DEF Sync!ApiAnswers, Sync!PollFails, Sync!serverVars
<1>3. ASSUME Sync!Start \/ Sync!PollAgain \/ Sync!ApiChanges \/ Sync!Tick PROVE applied' = applied
  BY <1>3 DEF Sync!Start, Sync!PollAgain, Sync!ApiChanges, Sync!Tick, Sync!serverVars
<1> QED
  BY <1>0, <1>1, <1>2, <1>3, UnrelatedSteps DEF Sync!Next, Unrelated, Sync!NeverGoesBack

-----------------------------------------------------------------------------
(* The server: its authorizer and its poller.  The poller's constants are as *)
(* its lemmas ask.                                                           *)
LEMMA PollingFits == PollAssumptions
BY PollingAssumptions DEF PollAssumptions

(* Whichever part the behaviour is of is in its own order.                   *)
ServerInv ==
  \/ part = "authorizer" /\ IInv
  \/ part = "polling" /\ PollInv

(* Every part starts in order.                                               *)
LEMMA ServerInvInit == ASSUME ServerInit PROVE ServerInv
<1>1. CASE part = "authorizer" /\ Init
  BY <1>1, InitIsInOrder DEF ServerInv
<1>2. CASE part = "polling" /\ Sync!Init
  BY <1>2, PollingFits, InvInit DEF ServerInv
<1> QED
  BY <1>1, <1>2 DEF ServerInit

(* A step of the server is one of its part.                                  *)
LEMMA StepsOfParts ==
  ASSUME [ServerNext]_serverVars
  PROVE  /\ part' = part
         /\ part = "authorizer" => [Next]_vars
         /\ part = "polling" => [Sync!Next]_(Sync!vars)
<1>1. CASE ServerNext
  BY <1>1 DEF ServerNext
<1>2. CASE UNCHANGED serverVars
  BY <1>2 DEF serverVars, authorizerVars, pollingVars, vars, Sync!vars, Sync!serverVars
<1> QED
  BY <1>1, <1>2

(* And keeps the order of it.                                                *)
LEMMA ServerInvStep ==
  ASSUME ServerInv, [ServerNext]_serverVars
  PROVE  ServerInv'
<1>1. CASE part = "authorizer" /\ IInv
  <2>1. part' = "authorizer" /\ IInv'
    BY <1>1, StepsOfParts, StepKeepsOrder
  <2> QED
    BY <2>1 DEF ServerInv
<1>2. CASE part = "polling" /\ PollInv
  <2>1. [Sync!Next]_(Sync!vars)
    BY <1>2, StepsOfParts
  <2>2. PollInv'
    BY <1>2, <2>1, PollingFits, InvStep
  <2> QED
    BY <1>2, <2>2, StepsOfParts DEF ServerInv
<1> QED
  BY <1>1, <1>2 DEF ServerInv

(* So the server always is.                                                  *)
LEMMA ServerAlwaysInOrder == ServerSpec => []ServerInv
BY ServerInvInit, ServerInvStep, PTL DEF ServerSpec

-----------------------------------------------------------------------------
(* In every state each part of the server has its type.                      *)
THEOREM ServerTypeCorrect == ServerSpec => []ServerTypeOK
<1>1. ServerInv => ServerTypeOK
  <2>1. PollInv => Sync!TypeOK
    BY TypedIsTypeOK DEF PollInv
  <2> QED
    BY <2>1, InOrderIsTyped DEF ServerInv, ServerTypeOK
<1> QED
  BY <1>1, ServerAlwaysInOrder, PTL

(* Every caller that waits has a request under way for its question, which   *)
(* ends within the timeout (authorizer.js, the shared call).                 *)
THEOREM NobodyWaitsForLong == ServerSpec => []WaitersAreServed
<1>1. ServerInv => WaitersAreServed
  BY InOrderIsServed DEF ServerInv, WaitersAreServed
<1> QED
  BY <1>1, ServerAlwaysInOrder, PTL

(* An allow that is not the rules' is the API's own for that token and       *)
(* channel, or was until a short time ago, and so is a denial from the cache *)
(* (authorizer.js, the cache and the shared call).                           *)
THEOREM AnswersAreHonest == ServerSpec => AnswersAreTheApis
<1>1. ServerInv /\ [ServerNext]_serverVars =>
        [part = "authorizer" => AllowIsTheApis /\ CachedDenialIsTheApis]_serverVars
  BY StepsOfParts, AnswersAreTheApisOwn DEF ServerInv
<1> QED
  BY <1>1, ServerAlwaysInOrder, PTL DEF ServerSpec, AnswersAreTheApis

(* No answer allows an expired token, but for one that expired while its API *)
(* call was under way (authorizer.js, rules.js).                             *)
THEOREM ExpiredMeansDenied == ServerSpec => ExpiredTokensDenied
<1>1. ServerInv /\ [ServerNext]_serverVars =>
        [part = "authorizer" => AllowedBeforeExpiry]_serverVars
  BY StepsOfParts, ExpiredTokensAreDenied DEF ServerInv
<1> QED
  BY <1>1, ServerAlwaysInOrder, PTL DEF ServerSpec, ExpiredTokensDenied

(* One configuration is in force, the last good answer or the environment's, *)
(* and the policy, client publish and the origins follow it (runtime.js,     *)
(* app.js).                                                                  *)
THEOREM OneConfigurationInForce == ServerSpec => []InForceEverywhere
<1>1. PollInv => Sync!InForceEverywhere
  BY PollingFits, InForce
<1>2. ServerInv => InForceEverywhere
  BY <1>1 DEF ServerInv, InForceEverywhere
<1> QED
  BY <1>2, ServerAlwaysInOrder, PTL

(* Settings the API keeps answering are in force an interval and two         *)
(* timeouts after they changed or a poll failed (config-poller.js).          *)
THEOREM ChangesAppliedInTime == ServerSpec => []AppliedInTime
<1>1. PollInv => Sync!AppliedInTime
  BY PollingFits, InvAppliesInTime
<1>2. ServerInv => AppliedInTime
  BY <1>1 DEF ServerInv, AppliedInTime
<1> QED
  BY <1>2, ServerAlwaysInOrder, PTL

(* In enforce every open socket connected under enforce (app.js).            *)
THEOREM EnforceIsClean == ServerSpec => []EnforceStartsClean
<1>1. PollInv => Sync!EnforceStartsClean
  BY DEF PollInv
<1>2. ServerInv => EnforceStartsClean
  BY <1>1 DEF ServerInv, EnforceStartsClean
<1> QED
  BY <1>2, ServerAlwaysInOrder, PTL

(* No answer replaces a newer one, and no poll is under way or due once the  *)
(* server is closed (config-poller.js, poll and stop).                       *)
THEOREM PollsInOrder == ServerSpec => PollsStayInOrder
<1>1. ASSUME ServerInv, ServerInv', [ServerNext]_serverVars, part = "polling"
      PROVE  Sync!NeverGoesBack /\ Sync!NoPollAfterClose'
  <2>1. PollInv /\ PollInv' /\ [Sync!Next]_(Sync!vars)
    BY <1>1, StepsOfParts DEF ServerInv
  <2>2. Sync!NeverGoesBack
    BY <2>1, AppliedStep
  <2>3. OnePoll'
    BY <2>1 DEF PollInv
  <2> QED
    BY <2>2, <2>3 DEF Sync!NoPollAfterClose, OnePoll, NoPoll
<1> QED
  BY <1>1, ServerAlwaysInOrder, PTL DEF ServerSpec, PollsStayInOrder
=============================================================================
