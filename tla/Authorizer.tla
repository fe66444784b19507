----------------------------- MODULE Authorizer -----------------------------
(***************************************************************************)
(* socket/lib/authorizer.js: local rules, then the cache, then one API call *)
(* that every caller with the same question shares.  The clock ticks finer  *)
(* than a second, because the cache counts milliseconds and the tokens and  *)
(* lifetimes count seconds.                                                 *)
(***************************************************************************)
EXTENDS Naturals, Sequences, TtlLruCache

CONSTANTS
  Callers,
  Channels,
  Tokens,          \* signed tokens
  Anon,            \* no token
  Jti,             \* the jti of a token, or NoJti
  NoJti,
  Exp,             \* the second a token expires at
  AllowedLocally,  \* <<token or Anon, channel>> the local rules allow,
  DeniedLocally,   \* and those they deny; the API decides the others
  TicksPerSecond,
  AllowTtl,        \* ALLOW_TTL_SECONDS
  DenyTtl,         \* DENY_TTL_SECONDS
  Timeout,         \* timeoutMs, in ticks
  ApiTtls,         \* the lifetimes the API's answers carry, in seconds
  MaxNow,          \* bound: when the clock stops
  MaxChanges       \* bound: how often the API changes its mind

Credentials == Tokens \cup {Anon}
Pairs == Credentials \X Channels

ASSUME AnonAssumption == Anon \notin Tokens
ASSUME ClaimsAssumption ==
  Exp \in [Tokens -> Nat] /\ DOMAIN Jti = Tokens
ASSUME UniqueJtiAssumption ==
  \A t, u \in Tokens : Jti[t] = Jti[u] /\ Jti[t] # NoJti => t = u
ASSUME LocalAssumption ==
  /\ AllowedLocally \subseteq Pairs /\ DeniedLocally \subseteq Pairs
  /\ AllowedLocally \cap DeniedLocally = {}
ASSUME BoundsAssumption ==
  /\ {TicksPerSecond, Timeout, MaxEntries} \subseteq Nat \ {0}
  /\ {AllowTtl, DenyTtl, MaxNow, MaxChanges} \subseteq Nat
  /\ ApiTtls \subseteq Nat

VARIABLES
  now,        \* the clock, in ticks
  apiAllows,  \* the pairs the API would allow now
  changedAt,  \* history: when the API last changed its mind about a pair
  changes,    \* how often it did
  cache,      \* this.cache
  inflight,   \* inflight[key]: the shared API call for a key, or NoRequest
  calls       \* calls[x]: what caller x asked and what it was told

vars == <<now, apiAllows, changedAt, changes, cache, inflight, calls>>

NowSeconds == now \div TicksPerSecond

(* cacheKey(): a token without a jti is known by its fingerprint.            *)
CacheKey_ChannelOnly(t, c) == [kind |-> "any", id |-> Anon, channel |-> c]
CacheKey(t, c) ==
  IF t = Anon
    THEN [kind |-> "anon", id |-> Anon, channel |-> c]
    ELSE IF Jti[t] # NoJti
           THEN [kind |-> "jti", id |-> Jti[t], channel |-> c]
           ELSE [kind |-> "sig", id |-> t, channel |-> c]
Keys == {CacheKey(pair[1], pair[2]) : pair \in Pairs}

NoRequest == [status |-> "none"]
Requests == [status : {"sent"}, cred : Credentials, channel : Channels,
             sentAt : 0..MaxNow]
Replies == [status : {"replied"}, cred : Credentials, channel : Channels,
            sentAt : 0..MaxNow, allow : BOOLEAN, ttl : ApiTtls]

NotCalling == [state |-> "idle"]
Questions == [state : {"waiting"}, cred : Credentials, channel : Channels]
Answers == [state : {"answered"}, cred : Credentials, channel : Channels,
            allow : BOOLEAN, source : {"local", "cache", "remote", "failure"}]

TypeOK ==
  /\ now \in 0..MaxNow
  /\ apiAllows \subseteq Pairs
  /\ changedAt \in [Pairs -> 0..MaxNow]
  /\ changes \in 0..MaxChanges
  /\ Len(cache) <= MaxEntries
  /\ \A i \in DOMAIN cache :
       cache[i].key \in Keys /\ cache[i].value \in BOOLEAN
  /\ inflight \in [Keys -> {NoRequest} \cup Requests \cup Replies]
  /\ calls \in [Callers -> {NotCalling} \cup Questions \cup Answers]

Init ==
  /\ now = 0
  /\ apiAllows \in SUBSET (Pairs \ (AllowedLocally \cup DeniedLocally))
  /\ changedAt = [pair \in Pairs |-> 0]
  /\ changes = 0
  /\ cache = <<>>
  /\ inflight = [key \in Keys |-> NoRequest]
  /\ calls = [x \in Callers |-> NotCalling]
-----------------------------------------------------------------------------
Answer(t, c, allow, source) ==
  [state |-> "answered", cred |-> t, channel |-> c,
   allow |-> allow, source |-> source]

Tell(x, answer) ==
  /\ calls' = [calls EXCEPT ![x] = answer]
  /\ UNCHANGED <<now, apiAllows, changedAt, changes>>

(* localDecision() (rules.js): an expired token is denied before the rules   *)
(* that allow are tried.                                                     *)
Expired_Never(t) == FALSE
Expired(t) == t # Anon /\ Exp[t] <= NowSeconds
LocallyDecided(t, c) ==
  Expired(t) \/ <<t, c>> \in AllowedLocally \cup DeniedLocally

AuthorizeLocally(x, t, c) ==
  /\ calls[x] = NotCalling
  /\ LocallyDecided(t, c)
  /\ Tell(x, Answer(t, c, ~Expired(t) /\ <<t, c>> \in AllowedLocally, "local"))
  /\ UNCHANGED <<cache, inflight>>

(* A cache hit answers and moves the entry; an expired entry is dropped on   *)
(* the way to the API.                                                       *)
AuthorizeFromCache(x, t, c) ==
  /\ calls[x] = NotCalling
  /\ ~LocallyDecided(t, c)
  /\ Hits(cache, CacheKey(t, c), now)
  /\ Tell(x, Answer(t, c, GetValue(cache, CacheKey(t, c), now), "cache"))
  /\ cache' = Get(cache, CacheKey(t, c), now)
  /\ UNCHANGED inflight

(* The first caller sends the request; the others join it.                   *)
AuthorizeRemotely(x, t, c) ==
  /\ calls[x] = NotCalling
  /\ ~LocallyDecided(t, c)
  /\ ~Hits(cache, CacheKey(t, c), now)
  /\ now + Timeout <= MaxNow
  /\ Tell(x, [state |-> "waiting", cred |-> t, channel |-> c])
  /\ cache' = Get(cache, CacheKey(t, c), now)
  /\ inflight' = IF inflight[CacheKey(t, c)] # NoRequest
       THEN inflight
       ELSE [inflight EXCEPT ![CacheKey(t, c)] =
               [status |-> "sent", cred |-> t, channel |-> c, sentAt |-> now]]

(* The caller goes on with its answer.                                       *)
Proceed(x) ==
  /\ calls[x].state = "answered"
  /\ calls' = [calls EXCEPT ![x] = NotCalling]
  /\ UNCHANGED <<now, apiAllows, changedAt, changes, cache, inflight>>
-----------------------------------------------------------------------------
(* The API: it decides when it handles a request, and may decide otherwise   *)
(* afterwards.                                                               *)
ApiReplies(key) ==
  /\ inflight[key].status = "sent"
  /\ \E ttl \in ApiTtls :
       inflight' = [inflight EXCEPT ![key] =
         [status |-> "replied", cred |-> @.cred, channel |-> @.channel,
          sentAt |-> @.sentAt, ttl |-> ttl,
          allow |-> <<@.cred, @.channel>> \in apiAllows]]
  /\ UNCHANGED <<now, apiAllows, changedAt, changes, cache, calls>>

ApiChanges(pair) ==
  /\ changes < MaxChanges
  /\ changes' = changes + 1
  /\ apiAllows' = IF pair \in apiAllows THEN apiAllows \ {pair}
                                        ELSE apiAllows \cup {pair}
  /\ changedAt' = [changedAt EXCEPT ![pair] = now]
  /\ UNCHANGED <<now, cache, inflight, calls>>
-----------------------------------------------------------------------------
(* The end of the shared call: it is forgotten and every caller is told.     *)
Conclude_OneCaller(key, allow, source) ==
  /\ inflight' = [inflight EXCEPT ![key] = NoRequest]
  /\ \E x \in Callers :
       /\ calls[x].state = "waiting"
       /\ CacheKey(calls[x].cred, calls[x].channel) = key
       /\ Tell(x, Answer(calls[x].cred, calls[x].channel, allow, source))
Conclude(key, allow, source) ==
  /\ inflight' = [inflight EXCEPT ![key] = NoRequest]
  /\ calls' = [x \in Callers |->
       IF /\ calls[x].state = "waiting"
          /\ CacheKey(calls[x].cred, calls[x].channel) = key
         THEN Answer(calls[x].cred, calls[x].channel, allow, source)
         ELSE calls[x]]
  /\ UNCHANGED <<now, apiAllows, changedAt, changes>>

Least(S) == CHOOSE m \in S : \A n \in S : m <= n

(* normalizeDecision(): the caps on the lifetime, in seconds.                *)
TtlSeconds_NoDenyCap(reply) ==
  Least({reply.ttl, AllowTtl} \cup
        IF reply.allow /\ reply.cred # Anon
          THEN {IF Exp[reply.cred] > NowSeconds
                  THEN Exp[reply.cred] - NowSeconds ELSE 0}
          ELSE {})
TtlSeconds(reply) ==
  Least({reply.ttl, IF reply.allow THEN AllowTtl ELSE DenyTtl} \cup
        IF reply.allow /\ reply.cred # Anon
          THEN {IF Exp[reply.cred] > NowSeconds
                  THEN Exp[reply.cred] - NowSeconds ELSE 0}
          ELSE {})

Respond(key) ==
  /\ inflight[key].status = "replied"
  /\ LET reply == inflight[key] IN
       /\ cache' = IF TtlSeconds(reply) > 0
            THEN Set(cache, key, reply.allow,
                     TtlSeconds(reply) * TicksPerSecond, now)
            ELSE cache
       /\ Conclude(key, reply.allow, "remote")

(* Whatever goes wrong is a denial for those who wait, and is not cached.    *)
Fail(key) ==
  /\ inflight[key] # NoRequest
  /\ cache' = cache
  /\ Conclude(key, FALSE, "failure")

TimedOut(key) ==
  /\ inflight[key] # NoRequest
  /\ now >= inflight[key].sentAt + Timeout

(* The abort timer.                                                          *)
Abort(key) == TimedOut(key) /\ Fail(key)

(* Transport errors, error statuses and malformed answers.                   *)
Break(key) == ~TimedOut(key) /\ Fail(key)

(* The timer fires when its time comes, before the clock goes on.            *)
Tick ==
  /\ now < MaxNow
  /\ \A key \in Keys : ~TimedOut(key)
  /\ now' = now + 1
  /\ UNCHANGED <<apiAllows, changedAt, changes, cache, inflight, calls>>
-----------------------------------------------------------------------------
Next ==
  \/ \E x \in Callers, t \in Credentials, c \in Channels :
       \/ AuthorizeLocally(x, t, c)
       \/ AuthorizeFromCache(x, t, c)
       \/ AuthorizeRemotely(x, t, c)
  \/ \E x \in Callers : Proceed(x)
  \/ \E key \in Keys : ApiReplies(key) \/ Respond(key) \/ Abort(key) \/ Break(key)
  \/ \E pair \in Pairs \ (AllowedLocally \cup DeniedLocally) : ApiChanges(pair)
  \/ Tick

Spec == Init /\ [][Next]_vars
-----------------------------------------------------------------------------
(* Properties; those about a step are actions. *)

Told(x) == calls'[x] # calls[x] /\ calls'[x].state = "answered"

(* A caller is allowed by the API's word for its own token and channel only: *)
(* the API allows the pair, or stopped to so recently that a call or a       *)
(* cached answer from before still counts (300 s and the call's timeout).    *)
AllowIsTheApis ==
  \A x \in Callers :
     Told(x) /\ calls'[x].allow /\ calls'[x].source # "local"
     => LET pair == <<calls'[x].cred, calls'[x].channel>> IN
          \/ pair \in apiAllows
          \/ /\ changes > 0
             /\ now <= changedAt[pair] + AllowTtl * TicksPerSecond + Timeout

(* A caller is denied from the cache only by the API's word, and not long    *)
(* (30 s and the timeout) after the API began to allow: failures are never   *)
(* remembered.                                                               *)
CachedDenialIsTheApis ==
  \A x \in Callers :
     Told(x) /\ ~calls'[x].allow /\ calls'[x].source = "cache"
     => LET pair == <<calls'[x].cred, calls'[x].channel>> IN
          \/ pair \notin apiAllows
          \/ /\ changes > 0
             /\ now <= changedAt[pair] + DenyTtl * TicksPerSecond + Timeout

(* No answer allows an expired token, unless the token expired while the API *)
(* call of that answer was under way.                                        *)
AllowedBeforeExpiry ==
  \A x \in Callers :
     Told(x) /\ calls'[x].allow /\ calls'[x].cred # Anon
     => now < Exp[calls'[x].cred] * TicksPerSecond
              + (IF calls'[x].source = "remote" THEN Timeout ELSE 0)

(* Every caller that waits, the one that sent the request or one that joined *)
(* it, waits for a request that is under way and ends within its timeout,    *)
(* even if the API never replies.                                            *)
WaitersHaveTheirRequest ==
  \A x \in Callers : calls[x].state = "waiting" =>
    LET request == inflight[CacheKey(calls[x].cred, calls[x].channel)] IN
      request # NoRequest /\ now <= request.sentAt + Timeout

(* The README says allow decisions are cached "never past the token's        *)
(* expiry".  The lifetime is a whole number of seconds counted from a time   *)
(* rounded down, and the cache counts it from the time itself.               *)
CachedAllowEndsWithToken ==
  \A t \in Tokens, c \in Channels :
    Has(cache, CacheKey(t, c)) /\ EntryOf(cache, CacheKey(t, c)).value
      => EntryOf(cache, CacheKey(t, c)).expiresAt <= Exp[t] * TicksPerSecond
=============================================================================
