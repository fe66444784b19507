------------------------------ MODULE MCParts ------------------------------
(* The parts of the socket server that work by themselves: the internal     *)
(* listener, the decision cache, the channel and claim rules, the denial    *)
(* log and the process.  A behaviour is one of theirs and leaves the others' *)
(* variables alone.  The listener's are those of InternalPublish itself.    *)
EXTENDS InternalPublish

CONSTANTS
  Parts, c1, c2,
  Keys, Values, MaxEntries, MaxTtl, CacheNow,                       \* of CacheUse,
  Tokens, RuleChannels, InvalidChannels, MaxLifetime, RulesNow,     \* TokenUse,
  Clients, Families, Reasons, DeniedChannels, MaxRows, MaxDenials, DenialsNow,
                                                                    \* DenialLog
  Envs, Payloads, MinKey, MaxPort, MaxOriginsLength                 \* and ServerProcess

VARIABLES
  part,
  entries, result, lastSet, since,        \* cache
  claims, accepted, channel, decision,    \* rules
  rows, recorded,                         \* denials
  env, phase, status, attached, runtime, open   \* process

publishVars == <<publishKey, message, stage, received, unsent, response,
                 counters, delivered, verifiedAt>>
cacheVars == <<entries, result, lastSet, since>>
rulesVars == <<claims, accepted, channel, decision>>
denialVars == <<rows, recorded>>
processVars == <<env, phase, status, attached, runtime, open>>
partsVars == <<part, now, publishVars, cacheVars, rulesVars, denialVars, processVars>>

(* Two requests at once: bodies at and over the limit, a channel named       *)
(* twice, an invalid one, stale and early timestamps, a wrong signature.     *)
Message(route, declared, length, stamp, genuine, channels) ==
  [route |-> route, declared |-> declared, length |-> length, stamp |-> stamp,
   genuine |-> genuine, channels |-> channels]

MCMessages ==
  {Message("publish", 2, 2, 0, TRUE, <<c1, c2, c1>>),
   Message("publish", NoLength, 1, 2, TRUE, <<c1, c2>>),
   Message("publish", NoLength, 3, 0, TRUE, <<c1>>),
   Message("publish", 3, 0, 0, TRUE, <<c1>>),
   Message("publish", 1, 1, 1, FALSE, <<c2>>),
   Message("publish", 1, 1, 1, TRUE, <<c2, InvalidChannel>>),
   Message("publish", 1, 1, 1, TRUE, Unparsable),
   Message("stats", NoLength, 0, 1, TRUE, Unparsable),
   Message("unknown", NoLength, 0, 1, TRUE, Unparsable),
   Message("otherMethod", NoLength, 1, 1, TRUE, <<c1>>)}

(* Three keys compete for two entries. *)
Cache == INSTANCE CacheUse WITH MaxNow <- CacheNow

(* Every kind, with and without a company, a subject, ids and a scope, and   *)
(* tokens that live too long or have no expiry; channels of every family,    *)
(* with ids that belong to the token, to somebody else or to nobody.         *)
MCInvalidChannels == {<<"">>}
MCChannels == MCInvalidChannels \cup
  {<<"fleetbase", "install">>, <<"order", "o1">>, <<"company", "">>,
   <<"company", "acme">>, <<"company", "acme2">>, <<"api", "">>,
   <<"api", "u1">>, <<"user", "">>, <<"user", "u1">>, <<"driver", "u2">>,
   <<"install", "acme", "">>, <<"install", "acme", "e1">>,
   <<"uninstall", "acme", "e1", "">>, <<"install", "", "e1">>}

Names == INSTANCE ChannelRules

MCTokens ==
  [iss : BOOLEAN, aud : {TRUE}, iat : {1}, exp : {Names!NotANumber, 2, 3, 4},
   kind : Names!Kinds \cup {"other"}, cid : {"", "acme"}, cpid : {"", "acme2"},
   sub : {"", "u1"}, ids : {{}, {""}, {"u1"}},
   scoped : {FALSE}, scp : {{}}]
  \cup
  [iss : {TRUE}, aud : BOOLEAN, iat : {Names!NotANumber, 1}, exp : {3},
   kind : {"user", "system"}, cid : {"acme"}, cpid : {""}, sub : {"u1"},
   ids : {{"u1"}}, scoped : {TRUE}, scp : {{}, {<<"order", "o1">>}}]

Rules == INSTANCE TokenUse WITH Channels <- RuleChannels, MaxNow <- RulesNow

(* Eight kinds of denials compete for three rows. *)
Denials == INSTANCE DenialLog WITH ChannelNames <- DeniedChannels, MaxNow <- DenialsNow
MCDeniedChannels == {<<"order", "odd">>, <<"company", "odd">>, <<"odd">>, <<>>}

(* Every key, switch and mode; options that name what is reserved; ports     *)
(* that meet, with and without a default; bodies no field of which is right. *)
Unset == -1
NotDigits == -2

MCEnvs ==
  LET Base == [key |-> 3, switch |-> TRUE, mode |-> "blank",
               options |-> [text |-> "blank", given |-> {}],
               authorizeUrl |-> "authorize", configUrl |-> "blank",
               port |-> Unset, internalPort |-> Unset, pollSeconds |-> Unset, scc |-> FALSE] IN
  {Base}
  \cup {[Base EXCEPT !.key = k, !.switch = s, !.mode = m] :
          k \in {0, 1, 2}, s \in BOOLEAN, m \in {"blank", "off", "log", "enforce", "other"}}
  \cup {[Base EXCEPT !.key = k, !.options = [text |-> "object", given |-> g]] :
          k \in {0, 2}, g \in {{"origins"}, {"authKey"}, {"allowClientPublish", "origins"}, {"httpServer", "authVerifyAlgorithms"}}}
  \cup {[Base EXCEPT !.options = [text |-> t, given |-> {}]] : t \in {"broken", "array"}}
  \cup {[Base EXCEPT !.authorizeUrl = a, !.configUrl = c] :
          a \in {"authorize", "elsewhere", "other", "ftp"}, c \in {"blank", "given", "other"}}
  \cup {[Base EXCEPT !.port = p, !.internalPort = i, !.pollSeconds = n, !.scc = (n = 0)] :
          p \in {NotDigits, Unset, 0, 2, 3, 4}, i \in {Unset, 0, 1, 3}, n \in {NotDigits, Unset, 0}}
MCPayloads ==
  {[object |-> o, enabled |-> e, mode |-> m, origins |-> n] :
     o \in BOOLEAN, e \in {"true", "false", "other"}, m \in {"absent", "log", "other"}, n \in {0, 2, 3}}

Process == INSTANCE ServerProcess

ASSUME ProcessAssumptions == Process!LimitsAssumption
ASSUME CacheAssumptions == Cache!MaxAssumption /\ Cache!TtlAssumption /\ Cache!ValuesAssumption
ASSUME RulesAssumptions == Rules!ChannelsAssumption /\ Rules!NumbersAssumption
ASSUME DenialsAssumptions == Denials!BoundsAssumption /\ Denials!NamesAssumption

-----------------------------------------------------------------------------
NoPublish ==
  /\ publishKey = "unused" /\ message = "unused" /\ stage = "unused"
  /\ received = "unused" /\ unsent = "unused" /\ response = "unused"
  /\ counters = "unused" /\ delivered = "unused" /\ verifiedAt = "unused"
NoCache == entries = "unused" /\ result = "unused" /\ lastSet = "unused" /\ since = "unused"
NoRules == claims = "unused" /\ accepted = "unused" /\ channel = "unused" /\ decision = "unused"
NoDenials == rows = "unused" /\ recorded = "unused"
NoProcess ==
  /\ env = "unused" /\ phase = "unused" /\ status = "unused"
  /\ attached = "unused" /\ runtime = "unused" /\ open = "unused"

PartsInit ==
  /\ part \in Parts
  /\ \/ part = "process" /\ Process!Init /\ now = 0
        /\ NoPublish /\ NoCache /\ NoRules /\ NoDenials
     \/ /\ NoProcess
        /\ \/ part = "publish" /\ Init /\ NoCache /\ NoRules /\ NoDenials
           \/ part = "cache" /\ Cache!Init /\ NoPublish /\ NoRules /\ NoDenials
           \/ part = "rules" /\ Rules!Init /\ NoPublish /\ NoCache /\ NoDenials
           \/ part = "denials" /\ Denials!Init /\ NoPublish /\ NoCache /\ NoRules

Publishing(action) ==
  /\ part = "publish" /\ action
  /\ UNCHANGED <<part, cacheVars, rulesVars, denialVars, processVars>>

OfProcess(action) ==
  /\ part = "process" /\ action
  /\ UNCHANGED <<part, now, publishVars, cacheVars, rulesVars, denialVars>>

PartsNext ==
  \/ Publishing(Next)
  \/ OfProcess(Process!Next)
  \/ /\ UNCHANGED <<part, publishVars, processVars>>
     /\ \/ part = "cache" /\ Cache!Next /\ UNCHANGED <<rulesVars, denialVars>>
        \/ part = "rules" /\ Rules!Next /\ UNCHANGED <<cacheVars, denialVars>>
        \/ part = "denials" /\ Denials!Next /\ UNCHANGED <<cacheVars, rulesVars>>

(* A client sends its body or goes away, and a publish ends.  The process's  *)
(* timer fires.                                                              *)
PartsFairness ==
  /\ WF_partsVars(OfProcess(Process!Force))
  /\ \A r \in Requests :
       /\ WF_partsVars(Publishing(Data(r) \/ Abort(r) \/ End(r)))
       /\ \A c \in Channels : WF_partsVars(Publishing(Deliver(r, c) \/ Refuse(r, c)))

PartsSpec == PartsInit /\ [][PartsNext]_partsVars /\ PartsFairness

-----------------------------------------------------------------------------
(* Each part's state has its type. *)
PartsTypeOK ==
  CASE part = "publish" -> TypeOK
    [] part = "cache" -> Cache!TypeOK
    [] part = "rules" -> Rules!TypeOK
    [] part = "denials" -> Denials!TypeOK
    [] part = "process" -> Process!TypeOK

(* 202 means that each named channel got the message exactly once, and the   *)
(* counters on /stats say what was answered (internal.js).                   *)
AnswersAreTrue == part = "publish" => AcceptedMeansDelivered /\ CountersMatchAnswers

(* Nothing is published but by a genuine and recent signature (internal.js). *)
OnlyVerifiedIsPublished == part = "publish" => PublishesVerifiedOnly

(* Every request that arrived is answered, whatever fails (internal.js), and *)
(* a process told to stop ends, whatever hangs (server.js).                  *)
Waits(r) == \/ part = "publish" /\ stage[r] # "none"
            \/ part = "process" /\ Process!Stopping
Released(r) == /\ part = "publish" => response[r] # 0
               /\ part = "process" => phase = "exited"
EveryRequestAnswered == \A r \in Requests : Waits(r) ~> Released(r)

(* get() returns the last value set for its key, and only before it expires  *)
(* (cache.js).                                                       *)
ServesLastSet == [][part = "cache" => Cache!ServesLastSet]_partsVars

(* What is given up is what was used least: the least recently used entry of *)
(* a full cache, the rarest row of a full denial log.                        *)
EvictionSpares ==
  [][/\ part = "cache" => Cache!RecentKeysKept'
     /\ part = "denials" => Denials!FrequentRowsStay]_partsVars

(* The rules allow what the socket's README lists, and an accepted token no  *)
(* longer than its lifetime (rules.js, middleware.js); no option and no      *)
(* answer changes what the process says it controls (config.js, runtime.js). *)
RulesAsDocumented ==
  /\ part = "rules" => Rules!AllowsAsDocumented /\ Rules!TokensAreShortLived
  /\ part = "process" =>
       Process!OptionsStayOurs /\ Process!AuthNeedsKey /\ Process!ListenersApart

(* No row counts a denial that did not happen (denials.js).                  *)
CountsAreHonest == part = "denials" => Denials!CountsAreHonest
=============================================================================
