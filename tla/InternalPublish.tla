-------------------------- MODULE InternalPublish --------------------------
(***************************************************************************)
(* The internal HTTP listener (socket/lib/internal.js, verifyRequest in     *)
(* socket/lib/signing.js): a request is read chunk by chunk, authenticated, *)
(* and published channel by channel, each with an outcome of its own.       *)
(***************************************************************************)
EXTENDS Integers, Sequences, FiniteSets, SequencesExt

CONSTANTS
  Requests,
  Channels,
  InvalidChannel,  \* a name isValidChannel() refuses
  Messages,        \* what a request may carry
  Limit,           \* MAX_BODY_BYTES, in chunks
  MaxSkew,         \* MAX_SKEW_SECONDS
  MaxNow           \* bound: when the clock stops

NoLength == -1     \* no content-length header
Unparsable == <<>> \* a body without a list of channels

ASSUME BoundsAssumption == {Limit, MaxSkew, MaxNow} \subseteq Nat
ASSUME ChannelAssumption == InvalidChannel \notin Channels
ASSUME MessagesAssumption ==
  \A m \in Messages :
    /\ m.route \in {"publish", "stats", "unknown", "otherMethod"}
    /\ m.declared \in Nat \cup {NoLength} /\ m.length \in Nat
    /\ m.stamp \in Int /\ m.genuine \in BOOLEAN
    /\ m.channels \in Seq(Channels \cup {InvalidChannel})

VARIABLES
  now,
  publishKey,  \* whether there is a publish key
  message,     \* message[r]: what request r carries
  stage,       \* stage[r]: "none", "reading", "publishing" or "over"
  received,    \* received[r]: chunks read
  unsent,      \* unsent[r]: channels whose transmitPublish has not ended
  response,    \* response[r]: the status sent, 0 before
  counters,    \* stats.counters
  delivered,   \* history: how often r was published to a channel
  verifiedAt   \* history: when the signature of r was checked

vars == <<now, publishKey, message, stage, received, unsent, response,
          counters, delivered, verifiedAt>>

Counted == {"publish_too_large", "internal_unauthorized", "publish_rejected",
            "publish_failed", "publish_requests", "published_channels"}
Statuses == {200, 202, 400, 401, 404, 405, 413, 500, 503}

TypeOK ==
  /\ now \in 0..MaxNow /\ publishKey \in BOOLEAN
  /\ message \in [Requests -> Messages]
  /\ stage \in [Requests -> {"none", "reading", "publishing", "over"}]
  /\ \A r \in Requests : received[r] \in 0..message[r].length
  /\ unsent \in [Requests -> SUBSET Channels]
  /\ response \in [Requests -> Statuses \cup {0}]
  /\ counters \in [Counted -> Nat]
  /\ delivered \in [Requests -> [Channels -> Nat]]
  /\ verifiedAt \in [Requests -> 0..MaxNow]

Init ==
  /\ now = 0 /\ publishKey \in BOOLEAN
  /\ message \in [Requests -> Messages]
  /\ stage = [r \in Requests |-> "none"]
  /\ received = [r \in Requests |-> 0]
  /\ unsent = [r \in Requests |-> {}]
  /\ response = [r \in Requests |-> 0]
  /\ counters = [name \in Counted |-> 0]
  /\ delivered = [r \in Requests |-> [c \in Channels |-> 0]]
  /\ verifiedAt = [r \in Requests |-> 0]
-----------------------------------------------------------------------------
(* sendJson() sends nothing when a response went out before.                 *)
SendJson(r, status) ==
  response' = [response EXCEPT ![r] = IF @ = 0 THEN status ELSE @]

Increment(name, by) == counters' = [counters EXCEPT ![name] = @ + by]

Reply(r, status) ==
  /\ SendJson(r, status)
  /\ stage' = [stage EXCEPT ![r] = "over"]

(* internalHandler(), and the check of the declared length in readBody().    *)
Arrive(r) ==
  /\ stage[r] = "none"
  /\ CASE message[r].route = "unknown" ->
            Reply(r, 404) /\ counters' = counters
       [] message[r].route = "otherMethod" ->
            Reply(r, 405) /\ counters' = counters
       [] message[r].route \in {"publish", "stats"} ->
            IF message[r].declared > Limit
              THEN Reply(r, 413) /\ Increment("publish_too_large", 1)
              ELSE /\ stage' = [stage EXCEPT ![r] = "reading"]
                   /\ UNCHANGED <<response, counters>>
  /\ UNCHANGED <<now, publishKey, message, received, unsent, delivered, verifiedAt>>

(* on('data')                                                                *)
TooLarge(size) == size > Limit

Data(r) ==
  /\ stage[r] = "reading"
  /\ received[r] < message[r].length
  /\ received' = [received EXCEPT ![r] = @ + 1]
  /\ IF TooLarge(received[r] + 1)
       THEN Reply(r, 413) /\ Increment("publish_too_large", 1)
       ELSE UNCHANGED <<stage, response, counters>>
  /\ UNCHANGED <<now, publishKey, message, unsent, delivered, verifiedAt>>

(* on('error') and on('aborted')                                             *)
Abort(r) ==
  /\ stage[r] = "reading"
  /\ Reply(r, 400)
  /\ UNCHANGED <<now, publishKey, message, received, unsent, counters,
                 delivered, verifiedAt>>
-----------------------------------------------------------------------------
(* verifyRequest(): the clocks may be apart either way, and the signature is *)
(* that of this body.                                                        *)
Verified_StampIgnored(m) == m.genuine
Verified(m) ==
  /\ now - m.stamp <= MaxSkew /\ m.stamp - now <= MaxSkew
  /\ m.genuine

(* parsePublishBody(): the channels, each once.                              *)
Acceptable(m) ==
  m.channels # Unparsable /\ InvalidChannel \notin ToSet(m.channels)

(* on('end'): authenticate() goes on, then the handler up to its await.      *)
End(r) ==
  /\ stage[r] = "reading"
  /\ received[r] = message[r].length
  /\ verifiedAt' = [verifiedAt EXCEPT ![r] = now]
  /\ LET m == message[r] IN
       \/ /\ ~publishKey
          /\ Reply(r, 503)
          /\ UNCHANGED <<unsent, counters>>
       \/ /\ publishKey /\ ~Verified(m)
          /\ Reply(r, 401) /\ Increment("internal_unauthorized", 1)
          /\ unsent' = unsent
       \/ /\ publishKey /\ Verified(m) /\ m.route = "stats"
          /\ Reply(r, 200)
          /\ UNCHANGED <<unsent, counters>>
       \/ /\ publishKey /\ Verified(m) /\ m.route = "publish" /\ ~Acceptable(m)
          /\ Reply(r, 400) /\ Increment("publish_rejected", 1)
          /\ unsent' = unsent
       \/ /\ publishKey /\ Verified(m) /\ m.route = "publish" /\ Acceptable(m)
          /\ unsent' = [unsent EXCEPT ![r] = ToSet(m.channels)]
          /\ stage' = [stage EXCEPT ![r] = "publishing"]
          /\ UNCHANGED <<response, counters>>
  /\ UNCHANGED <<now, publishKey, message, received, delivered>>

(* Promise.all(): the last of the publishes to succeed answers 202, unless   *)
(* one failed and answered 500 before.                                       *)
AllDone_FirstSuffices(r, c) == TRUE
AllDone_AsManyAsListed(r, c) ==
  unsent[r] = {c} /\ Len(message[r].channels) = Cardinality(ToSet(message[r].channels))
AllDone(r, c) == unsent[r] = {c}

Deliver(r, c) ==
  /\ c \in unsent[r]
  /\ unsent' = [unsent EXCEPT ![r] = @ \ {c}]
  /\ delivered' = [delivered EXCEPT ![r][c] = @ + 1]
  /\ IF stage[r] = "publishing" /\ AllDone(r, c)
       THEN /\ Reply(r, 202)
            /\ counters' = [counters EXCEPT
                 !["publish_requests"] = @ + 1,
                 !["published_channels"] = @ + Cardinality(ToSet(message[r].channels))]
       ELSE UNCHANGED <<stage, response, counters>>
  /\ UNCHANGED <<now, publishKey, message, received, verifiedAt>>

Failed_EachTime(r) == TRUE
Failed(r) == stage[r] = "publishing"

Refuse(r, c) ==
  /\ c \in unsent[r]
  /\ unsent' = [unsent EXCEPT ![r] = @ \ {c}]
  /\ IF Failed(r)
       THEN Reply(r, 500) /\ Increment("publish_failed", 1)
       ELSE UNCHANGED <<stage, response, counters>>
  /\ UNCHANGED <<now, publishKey, message, received, delivered, verifiedAt>>

Tick ==
  /\ now < MaxNow
  /\ now' = now + 1
  /\ UNCHANGED <<publishKey, message, stage, received, unsent, response,
                 counters, delivered, verifiedAt>>
-----------------------------------------------------------------------------
Next ==
  \/ \E r \in Requests : Arrive(r) \/ Data(r) \/ Abort(r) \/ End(r)
  \/ \E r \in Requests, c \in Channels : Deliver(r, c) \/ Refuse(r, c)
  \/ Tick

Spec == Init /\ [][Next]_vars
-----------------------------------------------------------------------------
(* Properties. *)

(* 202 means that each named channel got the message exactly once, and no    *)
(* response lets a channel get it twice.                                     *)
AcceptedMeansDelivered ==
  \A r \in Requests :
    /\ \A c \in Channels : delivered[r][c] <= 1
    /\ response[r] = 202 =>
         \A c \in ToSet(message[r].channels) : delivered[r][c] = 1

(* Nothing is published for a request but by its own signature, checked      *)
(* within MaxSkew of its timestamp, and nothing for one that was refused;    *)
(* only a 500 may leave channels published.                                  *)
PublishesVerifiedOnly ==
  \A r \in Requests :
    (\E c \in Channels : delivered[r][c] > 0) =>
      /\ publishKey /\ message[r].genuine /\ message[r].length <= Limit
      /\ verifiedAt[r] - message[r].stamp \in -MaxSkew..MaxSkew
      /\ response[r] \in {0, 202, 500}

Answered(status) == {r \in Requests : response[r] = status}
Published ==
  {pair \in Answered(202) \X Channels : pair[2] \in ToSet(message[pair[1]].channels)}

(* The counters on /stats say what was answered.                             *)
CountersMatchAnswers ==
  /\ counters["publish_too_large"] = Cardinality(Answered(413))
  /\ counters["internal_unauthorized"] = Cardinality(Answered(401))
  /\ counters["publish_failed"] = Cardinality(Answered(500))
  /\ counters["publish_requests"] = Cardinality(Answered(202))
  /\ counters["published_channels"] = Cardinality(Published)
=============================================================================
