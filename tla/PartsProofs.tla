----------------------------- MODULE PartsProofs -----------------------------
(***************************************************************************)
(* Theorems about the parts of the socket server that work by themselves:   *)
(* the internal listener, the decision cache, the rules, the denial log and *)
(* the process, for any requests, messages, tokens, channels and limits.    *)
(***************************************************************************)
EXTENDS MCParts, FiniteSetTheorems, SequenceTheorems, WellFoundedInduction, TLAPS

Named(r) == ToSet(message[r].channels)

(* TypeOK, with received a function.                                         *)
Typed ==
  /\ now \in 0..MaxNow /\ publishKey \in BOOLEAN
  /\ message \in [Requests -> Messages]
  /\ stage \in [Requests -> {"none", "reading", "publishing", "over"}]
  /\ received \in [Requests -> Nat]
  /\ \A r \in Requests : received[r] <= message[r].length
  /\ unsent \in [Requests -> SUBSET Channels]
  /\ response \in [Requests -> Statuses \cup {0}]
  /\ counters \in [Counted -> Nat]
  /\ delivered \in [Requests -> [Channels -> Nat]]
  /\ verifiedAt \in [Requests -> 0..MaxNow]

(* The message was signed, recently, by the key's owner, and is small.       *)
Vouched(r) ==
  /\ publishKey /\ message[r].genuine /\ message[r].length <= Limit
  /\ verifiedAt[r] - message[r].stamp \in -MaxSkew..MaxSkew

(* Until it is verified a request has published nothing and asked for        *)
(* nothing; after that each channel it names is asked for, delivered once,   *)
(* or failed.                                                                *)
OnceEach(r) ==
  \A c \in Channels : /\ delivered[r][c] <= 1
                      /\ c \in unsent[r] => delivered[r][c] = 0
NothingYet(r) ==
  stage[r] \in {"none", "reading"} =>
    /\ response[r] = 0 /\ unsent[r] = {}
    /\ \A c \in Channels : delivered[r][c] = 0
WithinLimit(r) ==
  /\ stage[r] = "none" => received[r] = 0
  /\ stage[r] = "reading" => received[r] <= Limit
UnderWay(r) ==
  stage[r] = "publishing" =>
    /\ response[r] = 0 /\ Named(r) \subseteq Channels
    /\ \A c \in Named(r) : c \in unsent[r] \/ delivered[r][c] = 1
Accepted(r) ==
  response[r] = 202 =>
    unsent[r] = {} /\ \A c \in Named(r) : delivered[r][c] = 1
ByItsSignature(r) ==
  stage[r] = "publishing" \/ unsent[r] # {} \/ (\E c \in Channels : delivered[r][c] > 0)
    => Vouched(r) /\ response[r] \in {0, 202, 500}

InStep(r) ==
  /\ OnceEach(r) /\ NothingYet(r) /\ WithinLimit(r)
  /\ UnderWay(r) /\ Accepted(r) /\ ByItsSignature(r)

(* The counters say what was answered, which is counted.                     *)
AnsweredAreFinite ==
  /\ \A code \in {413, 401, 500, 202} : IsFiniteSet(Answered(code))
  /\ IsFiniteSet(Published)

RequestsInStep == \A r \in Requests : InStep(r)

IInv == Typed /\ RequestsInStep /\ AnsweredAreFinite /\ CountersMatchAnswers
-----------------------------------------------------------------------------
(* The parts of a message have their types.                                  *)
LEMMA MessageType ==
  ASSUME Typed, NEW r \in Requests
  PROVE  /\ message[r] \in Messages
         /\ message[r].length \in Nat /\ message[r].stamp \in Int
         /\ message[r].declared \in Int
         /\ message[r].channels \in Seq(Channels \cup {InvalidChannel})
         /\ message[r].route \in {"publish", "stats", "unknown", "otherMethod"}
BY MessagesAssumption DEF Typed, NoLength

(* A list of channels names finitely many.                                   *)
LEMMA NamedIsFinite ==
  ASSUME NEW S, NEW list \in Seq(S)
  PROVE  IsFiniteSet(ToSet(list)) /\ Cardinality(ToSet(list)) \in Nat
<1>1. IsFiniteSet(1..Len(list)) /\ DOMAIN list = 1..Len(list)
  BY FS_Interval
<1>2. list \in Surjection(1..Len(list), ToSet(list))
  BY <1>1 DEF ToSet, Surjection
<1> QED
  BY <1>1, <1>2, FS_Surjection, FS_CardinalityType

(* What an action leaves alone for a request leaves it in step.              *)
LEMMA OthersInStep ==
  ASSUME RequestsInStep, NEW q \in Requests,
         UNCHANGED <<publishKey, message>>,
         stage'[q] = stage[q], received'[q] = received[q], unsent'[q] = unsent[q],
         response'[q] = response[q], delivered'[q] = delivered[q],
         verifiedAt'[q] = verifiedAt[q]
  PROVE  InStep(q)'
<1>1. InStep(q)
  BY DEF RequestsInStep
<1>2. Named(q)' = Named(q) /\ Vouched(q)' = Vouched(q)
  BY DEF Named, Vouched
<1>3. OnceEach(q)' /\ NothingYet(q)' /\ WithinLimit(q)'
  BY <1>1 DEF InStep, OnceEach, NothingYet, WithinLimit
<1>4. UnderWay(q)' /\ Accepted(q)' /\ ByItsSignature(q)'
  BY <1>1, <1>2 DEF InStep, UnderWay, Accepted, ByItsSignature
<1> QED
  BY <1>3, <1>4 DEF InStep

-----------------------------------------------------------------------------
(* An answer makes one more of its kind.                                     *)
AnsweredBy(responses, code) == {q \in Requests : responses[q] = code}

(* One request more has the status it is answered with, and no other status  *)
(* gains or loses one.                                                       *)
LEMMA OneMoreAnswered ==
  ASSUME NEW before, NEW after, NEW r \in Requests, before[r] = 0, after[r] # 0,
         \A q \in Requests \ {r} : after[q] = before[q],
         NEW kind, kind # 0, IsFiniteSet(AnsweredBy(before, kind))
  PROVE  /\ IsFiniteSet(AnsweredBy(after, kind))
         /\ Cardinality(AnsweredBy(after, kind))
              = Cardinality(AnsweredBy(before, kind)) + (IF kind = after[r] THEN 1 ELSE 0)
<1>1. Cardinality(AnsweredBy(before, kind)) \in Nat
  BY FS_CardinalityType
<1>2. CASE kind = after[r]
  <2>1. /\ AnsweredBy(after, kind) = AnsweredBy(before, kind) \cup {r}
        /\ r \notin AnsweredBy(before, kind)
    BY <1>2 DEF AnsweredBy
  <2>2. /\ IsFiniteSet(AnsweredBy(before, kind) \cup {r})
        /\ Cardinality(AnsweredBy(before, kind) \cup {r})
             = Cardinality(AnsweredBy(before, kind)) + 1
    BY <2>1, FS_AddElement
  <2>3. /\ IsFiniteSet(AnsweredBy(after, kind))
        /\ Cardinality(AnsweredBy(after, kind)) = Cardinality(AnsweredBy(before, kind)) + 1
    BY <2>1, <2>2, Zenon
  <2> QED
    BY <1>2, <2>3
<1>3. CASE kind # after[r]
  <2>1. AnsweredBy(after, kind) = AnsweredBy(before, kind)
    BY <1>3 DEF AnsweredBy
  <2> QED
    BY <1>1, <1>3, <2>1
<1> QED
  BY <1>2, <1>3

(* A message that is accepted adds the channels it names, and no other reply *)
(* adds any.                                                                 *)
LEMMA ChannelsStayCounted ==
  ASSUME IInv, NEW r \in Requests, response[r] = 0,
         \A q \in Requests \ {r} : response'[q] = response[q], message' = message,
         counters'["published_channels"]
           = counters["published_channels"]
               + (IF 202 = response'[r] THEN Cardinality(Named(r)) ELSE 0),
         202 = response'[r] => Named(r) \subseteq Channels
  PROVE  /\ IsFiniteSet(Published)'
         /\ counters'["published_channels"] = Cardinality(Published)'
<1> DEFINE new == {r} \X Named(r)
<1>1. /\ IsFiniteSet(Published) /\ counters["published_channels"] = Cardinality(Published)
      /\ Cardinality(Published) \in Nat
  BY FS_CardinalityType DEF IInv, AnsweredAreFinite, CountersMatchAnswers
<1>2. IsFiniteSet(Named(r)) /\ Cardinality(Named(r)) \in Nat
  BY MessageType, NamedIsFinite DEF IInv, Named
<1>3. CASE 202 = response'[r]
  <2>1. IsFiniteSet({r}) /\ Cardinality({r}) = 1
    BY FS_Singleton
  <2>2. IsFiniteSet(new) /\ Cardinality(new) = 1 * Cardinality(Named(r))
    BY <1>2, <2>1, FS_Product
  <2>3. Published' = Published \cup new /\ Published \cap new = {}
    BY <1>3 DEF Published, Answered, Named
  <2> HIDE DEF new
  <2>4. IsFiniteSet(Published \cup new)
        /\ Cardinality(Published \cup new)
             = Cardinality(Published) + Cardinality(new) - Cardinality(Published \cap new)
    BY <1>1, <2>2, FS_Union
  <2>5. Cardinality(Published \cap new) = 0
    BY <2>3, FS_EmptySet
  <2>6. Cardinality(Published \cup new) = Cardinality(Published) + Cardinality(Named(r))
    BY <1>1, <1>2, <2>2, <2>4, <2>5
  <2> QED
    BY <1>1, <1>3, <2>3, <2>4, <2>6
<1>4. CASE 202 # response'[r]
  <2>1. Published' = Published
    BY <1>4 DEF Published, Answered
  <2> QED
    BY <1>1, <1>4, <2>1
<1> QED
  BY <1>3, <1>4

(* A reply that counts itself keeps the counters right.                      *)
LEMMA AnswersStayCounted ==
  ASSUME IInv, NEW r \in Requests, response[r] = 0, response'[r] # 0,
         \A q \in Requests \ {r} : response'[q] = response[q],
         counters'["publish_too_large"]
           = counters["publish_too_large"] + (IF 413 = response'[r] THEN 1 ELSE 0),
         counters'["internal_unauthorized"]
           = counters["internal_unauthorized"] + (IF 401 = response'[r] THEN 1 ELSE 0),
         counters'["publish_failed"]
           = counters["publish_failed"] + (IF 500 = response'[r] THEN 1 ELSE 0),
         counters'["publish_requests"]
           = counters["publish_requests"] + (IF 202 = response'[r] THEN 1 ELSE 0),
         counters'["published_channels"]
           = counters["published_channels"]
               + (IF 202 = response'[r] THEN Cardinality(Named(r)) ELSE 0),
         message' = message, 202 = response'[r] => Named(r) \subseteq Channels
  PROVE  AnsweredAreFinite' /\ CountersMatchAnswers'
<1>1. /\ IsFiniteSet(AnsweredBy(response, 413)) /\ IsFiniteSet(AnsweredBy(response, 401))
      /\ IsFiniteSet(AnsweredBy(response, 500)) /\ IsFiniteSet(AnsweredBy(response, 202))
  BY DEF IInv, AnsweredAreFinite, Answered, AnsweredBy
<1>2. /\ counters["publish_too_large"] = Cardinality(AnsweredBy(response, 413))
      /\ counters["internal_unauthorized"] = Cardinality(AnsweredBy(response, 401))
      /\ counters["publish_failed"] = Cardinality(AnsweredBy(response, 500))
      /\ counters["publish_requests"] = Cardinality(AnsweredBy(response, 202))
  BY DEF IInv, CountersMatchAnswers, Answered, AnsweredBy
<1>3. ASSUME NEW kind, kind # 0, IsFiniteSet(AnsweredBy(response, kind))
      PROVE  /\ IsFiniteSet(AnsweredBy(response', kind))
             /\ Cardinality(AnsweredBy(response', kind))
                  = Cardinality(AnsweredBy(response, kind)) + (IF kind = response'[r] THEN 1 ELSE 0)
  BY <1>3, OneMoreAnswered, SMTT(30)
<1>4. /\ IsFiniteSet(AnsweredBy(response', 413))
      /\ counters'["publish_too_large"] = Cardinality(AnsweredBy(response', 413))
  BY <1>1, <1>2, <1>3
<1>5. /\ IsFiniteSet(AnsweredBy(response', 401))
      /\ counters'["internal_unauthorized"] = Cardinality(AnsweredBy(response', 401))
  BY <1>1, <1>2, <1>3
<1>6. /\ IsFiniteSet(AnsweredBy(response', 500))
      /\ counters'["publish_failed"] = Cardinality(AnsweredBy(response', 500))
  BY <1>1, <1>2, <1>3
<1>7. /\ IsFiniteSet(AnsweredBy(response', 202))
      /\ counters'["publish_requests"] = Cardinality(AnsweredBy(response', 202))
  BY <1>1, <1>2, <1>3
<1>8. /\ IsFiniteSet(Published)'
      /\ counters'["published_channels"] = Cardinality(Published)'
  BY ChannelsStayCounted
<1> QED
  BY <1>4, <1>5, <1>6, <1>7, <1>8
     DEF AnsweredAreFinite, CountersMatchAnswers, Answered, AnsweredBy

(* Without a reply nothing is counted.                                       *)
LEMMA NoneAnswered ==
  ASSUME IInv, UNCHANGED <<message, response, counters>>
  PROVE  AnsweredAreFinite' /\ CountersMatchAnswers'
<1>1. \A kind : Answered(kind)' = Answered(kind)
  BY DEF Answered
<1>2. Published' = Published
  BY <1>1 DEF Published
<1> QED
  BY <1>1, <1>2 DEF IInv, AnsweredAreFinite, CountersMatchAnswers
-----------------------------------------------------------------------------
(* No request has arrived at first.                                          *)
LEMMA InitInStep == Init => IInv
<1> SUFFICES ASSUME Init PROVE IInv
  OBVIOUS
<1>1. Typed
  <2>1. \A r \in Requests : message[r].length \in Nat
    BY MessagesAssumption DEF Init
  <2> QED
    BY <2>1, BoundsAssumption DEF Init, Typed, Statuses
<1>2. RequestsInStep
  <2> SUFFICES ASSUME NEW r \in Requests PROVE InStep(r)
    BY DEF RequestsInStep
  <2>1. /\ stage[r] = "none" /\ response[r] = 0 /\ unsent[r] = {} /\ received[r] = 0
        /\ \A c \in Channels : delivered[r][c] = 0
    BY DEF Init
  <2> QED
    BY <2>1 DEF InStep, OnceEach, NothingYet, WithinLimit, UnderWay, Accepted, ByItsSignature
<1>3. \A kind \in {413, 401, 500, 202} : Answered(kind) = {}
  BY DEF Init, Answered
<1>4. Published = {}
  BY <1>3 DEF Published
<1>5. AnsweredAreFinite
  BY <1>3, <1>4, FS_EmptySet DEF AnsweredAreFinite
<1>6. CountersMatchAnswers
  BY <1>3, <1>4, FS_EmptySet DEF CountersMatchAnswers, Init, Counted
<1> QED
  BY <1>1, <1>2, <1>5, <1>6 DEF IInv

(* More of the body of r may have been read, and its signature checked.      *)
ReadsOn(r) ==
  /\ received' \in [Requests -> Nat] /\ verifiedAt' \in [Requests -> 0..MaxNow]
  /\ \A q \in Requests : received'[q] <= message[q].length
  /\ \A q \in Requests \ {r} : received'[q] = received[q] /\ verifiedAt'[q] = verifiedAt[q]

(* A request that is answered before it published anything is in step, and   *)
(* the others with it.                                                       *)
LEMMA EarlyReplyInStep ==
  ASSUME IInv, NEW r \in Requests, stage[r] \in {"none", "reading"},
         NEW code \in Statuses \ {202}, Reply(r, code),
         UNCHANGED <<now, publishKey, message, unsent, delivered>>,
         ReadsOn(r),
         counters' \in [Counted -> Nat]
  PROVE  /\ Typed' /\ RequestsInStep'
         /\ response[r] = 0 /\ response'[r] = code
         /\ \A q \in Requests \ {r} : response'[q] = response[q]
<1>1. /\ response[r] = 0 /\ unsent[r] = {}
      /\ \A c \in Channels : delivered[r][c] = 0
  BY DEF IInv, RequestsInStep, InStep, NothingYet
<1>2. /\ response' = [response EXCEPT ![r] = code]
      /\ stage' = [stage EXCEPT ![r] = "over"]
  BY <1>1 DEF Reply, SendJson
<1>3. Typed'
  BY <1>2 DEF IInv, Typed, ReadsOn
<1>4. RequestsInStep'
  <2> SUFFICES ASSUME NEW q \in Requests PROVE InStep(q)'
    BY DEF RequestsInStep
  <2>1. CASE q = r
    <3>1. /\ stage'[q] = "over" /\ response'[q] = code /\ code # 202
          /\ unsent'[q] = {} /\ \A c \in Channels : delivered'[q][c] = 0
      BY <1>1, <1>2, <2>1 DEF IInv, Typed
    <3> QED
      BY <3>1 DEF InStep, OnceEach, NothingYet, WithinLimit, UnderWay, Accepted, ByItsSignature
  <2>2. CASE q # r
    <3>1. /\ stage'[q] = stage[q] /\ received'[q] = received[q] /\ response'[q] = response[q]
          /\ verifiedAt'[q] = verifiedAt[q]
      BY <1>2, <2>2 DEF IInv, Typed, ReadsOn
    <3> QED
      BY <3>1, OthersInStep DEF IInv
  <2> QED
    BY <2>1, <2>2
<1>5. response'[r] = code /\ \A q \in Requests \ {r} : response'[q] = response[q]
  BY <1>2 DEF IInv, Typed
<1> QED
  BY <1>1, <1>3, <1>4, <1>5

(* Counting one more under a name counts nothing else.                       *)
LEMMA IncrementOne ==
  ASSUME Typed, NEW name \in Counted, Increment(name, 1)
  PROVE  /\ counters' \in [Counted -> Nat]
         /\ counters'[name] = counters[name] + 1
         /\ \A other \in Counted \ {name} : counters'[other] = counters[other]
BY DEF Typed, Increment

(* A reply before anything is published, with its counter if it has one.     *)
LEMMA EarlyReplyCounted ==
  ASSUME IInv, NEW r \in Requests, stage[r] \in {"none", "reading"},
         NEW code \in Statuses \ {202, 500}, Reply(r, code),
         UNCHANGED <<now, publishKey, message, unsent, delivered>>,
         ReadsOn(r),
         \/ code = 413 /\ Increment("publish_too_large", 1)
         \/ code = 401 /\ Increment("internal_unauthorized", 1)
         \/ code \notin {413, 401} /\ Increment("publish_rejected", 1)
         \/ code \notin {413, 401} /\ counters' = counters
  PROVE  IInv'
<1>1. Typed
  BY DEF IInv
<1>2. /\ counters' \in [Counted -> Nat]
      /\ counters'["publish_too_large"]
           = counters["publish_too_large"] + (IF 413 = code THEN 1 ELSE 0)
      /\ counters'["internal_unauthorized"]
           = counters["internal_unauthorized"] + (IF 401 = code THEN 1 ELSE 0)
      /\ counters'["publish_failed"] = counters["publish_failed"]
      /\ counters'["publish_requests"] = counters["publish_requests"]
      /\ counters'["published_channels"] = counters["published_channels"]
  <2>0. counters \in [Counted -> Nat] /\ \A name \in Counted : counters[name] \in Nat
    BY <1>1 DEF Typed
  <2>1. CASE code = 413 /\ Increment("publish_too_large", 1)
    BY <1>1, <2>0, <2>1, IncrementOne DEF Counted
  <2>2. CASE code = 401 /\ Increment("internal_unauthorized", 1)
    BY <1>1, <2>0, <2>2, IncrementOne DEF Counted
  <2>3. CASE code \notin {413, 401} /\ Increment("publish_rejected", 1)
    BY <1>1, <2>0, <2>3, IncrementOne DEF Counted
  <2>4. CASE code \notin {413, 401} /\ counters' = counters
    BY <2>0, <2>4 DEF Counted
  <2> QED
    BY <2>1, <2>2, <2>3, <2>4
<1>3. /\ Typed' /\ RequestsInStep'
      /\ response[r] = 0 /\ response'[r] = code
      /\ \A q \in Requests \ {r} : response'[q] = response[q]
  BY <1>2, EarlyReplyInStep
<1>4. AnsweredAreFinite' /\ CountersMatchAnswers'
  <2>1. code # 0 /\ code # 500 /\ code # 202
    BY DEF Statuses
  <2>2. /\ counters["publish_failed"] \in Nat /\ counters["publish_requests"] \in Nat
        /\ counters["published_channels"] \in Nat
    BY <1>1 DEF Typed, Counted
  <2> QED
    BY <1>2, <1>3, <2>1, <2>2, AnswersStayCounted
<1> QED
  BY <1>3, <1>4 DEF IInv
-----------------------------------------------------------------------------
(* Nothing but the stage of r and what was read of it changes.               *)
LEMMA NothingRead ==
  ASSUME Typed, UNCHANGED <<message, received, verifiedAt>>, NEW r \in Requests
  PROVE  ReadsOn(r)
BY DEF Typed, ReadsOn

(* A request arrives: it is refused by its method, path or declared length,  *)
(* or is read.                                                               *)
LEMMA ArriveInStep ==
  ASSUME IInv, NEW r \in Requests, Arrive(r)
  PROVE  IInv'
<1> USE DEF IInv
<1>1. /\ UNCHANGED <<now, publishKey, message, received, unsent, delivered, verifiedAt>>
      /\ stage[r] = "none" /\ ReadsOn(r)
  BY NothingRead DEF Arrive
<1>2. CASE \/ Reply(r, 404) /\ counters' = counters
           \/ Reply(r, 405) /\ counters' = counters
           \/ Reply(r, 413) /\ Increment("publish_too_large", 1)
  <2>1. {404, 405, 413} \subseteq Statuses \ {202, 500}
    BY DEF Statuses
  <2>2. CASE Reply(r, 404) /\ counters' = counters
    BY <1>1, <2>1, <2>2, EarlyReplyCounted
  <2>3. CASE Reply(r, 405) /\ counters' = counters
    BY <1>1, <2>1, <2>3, EarlyReplyCounted
  <2>4. CASE Reply(r, 413) /\ Increment("publish_too_large", 1)
    BY <1>1, <2>1, <2>4, EarlyReplyCounted
  <2> QED
    BY <1>2, <2>2, <2>3, <2>4
<1>3. CASE /\ stage' = [stage EXCEPT ![r] = "reading"]
           /\ UNCHANGED <<response, counters>>
  <2>1. Typed'
    BY <1>1, <1>3 DEF Typed
  <2>2. RequestsInStep'
    <3> SUFFICES ASSUME NEW q \in Requests PROVE InStep(q)'
      BY DEF RequestsInStep
    <3>1. CASE q = r
      <4>1. /\ stage'[q] = "reading" /\ response'[q] = 0 /\ unsent'[q] = {}
            /\ \A c \in Channels : delivered'[q][c] = 0
        BY <1>1, <1>3, <3>1 DEF RequestsInStep, InStep, NothingYet, Typed
      <4>2. received'[q] <= Limit
        BY <1>1, <3>1, BoundsAssumption DEF RequestsInStep, InStep, WithinLimit
      <4> QED
        BY <4>1, <4>2 DEF InStep, OnceEach, NothingYet, WithinLimit, UnderWay,
                          Accepted, ByItsSignature
    <3>2. CASE q # r
      <4>1. stage'[q] = stage[q]
        BY <1>3, <3>2 DEF Typed
      <4> QED
        BY <1>1, <1>3, <4>1, OthersInStep
    <3> QED
      BY <3>1, <3>2
  <2>3. AnsweredAreFinite' /\ CountersMatchAnswers'
    BY <1>1, <1>3, NoneAnswered
  <2> QED
    BY <2>1, <2>2, <2>3
<1>4. message[r].route \in {"publish", "stats", "unknown", "otherMethod"}
  BY MessageType
<1> QED
  BY <1>2, <1>3, <1>4 DEF Arrive

(* More of a body is read, while it is within the limit.                     *)
LEMMA DataInStep ==
  ASSUME IInv, NEW r \in Requests, Data(r)
  PROVE  IInv'
<1> USE DEF IInv
<1>1. /\ UNCHANGED <<now, publishKey, message, unsent, delivered, verifiedAt>>
      /\ stage[r] = "reading" /\ received[r] < message[r].length
      /\ received' = [received EXCEPT ![r] = @ + 1]
  BY DEF Data
<1>2. message[r].length \in Nat /\ received[r] \in Nat /\ Limit \in Nat
  BY MessageType, BoundsAssumption DEF Typed
<1>3. ReadsOn(r) /\ received'[r] = received[r] + 1
  BY <1>1, <1>2 DEF Typed, ReadsOn
<1>4. CASE Reply(r, 413) /\ Increment("publish_too_large", 1)
  <2>1. 413 \in Statuses \ {202, 500}
    BY DEF Statuses
  <2> QED
    BY <1>1, <1>3, <1>4, <2>1, EarlyReplyCounted
<1>5. CASE ~TooLarge(received[r] + 1) /\ UNCHANGED <<stage, response, counters>>
  <2>1. Typed'
    BY <1>1, <1>3, <1>5 DEF Typed, ReadsOn
  <2>2. RequestsInStep'
    <3> SUFFICES ASSUME NEW q \in Requests PROVE InStep(q)'
      BY DEF RequestsInStep
    <3>1. CASE q = r
      <4>1. /\ stage'[q] = "reading" /\ response'[q] = 0 /\ unsent'[q] = {}
            /\ \A c \in Channels : delivered'[q][c] = 0
        BY <1>1, <1>5, <3>1 DEF RequestsInStep, InStep, NothingYet
      <4>2. received'[q] <= Limit
        BY <1>2, <1>3, <1>5, <3>1 DEF TooLarge
      <4> QED
        BY <4>1, <4>2 DEF InStep, OnceEach, NothingYet, WithinLimit, UnderWay,
                          Accepted, ByItsSignature
    <3>2. CASE q # r
      BY <1>1, <1>3, <1>5, <3>2, OthersInStep DEF ReadsOn
    <3> QED
      BY <3>1, <3>2
  <2>3. AnsweredAreFinite' /\ CountersMatchAnswers'
    BY <1>1, <1>5, NoneAnswered
  <2> QED
    BY <2>1, <2>2, <2>3
<1> QED
  BY <1>4, <1>5 DEF Data

(* A request that is aborted while it is read is answered 400.               *)
LEMMA AbortInStep ==
  ASSUME IInv, NEW r \in Requests, Abort(r)
  PROVE  IInv'
<1>1. /\ UNCHANGED <<now, publishKey, message, received, unsent, counters, delivered, verifiedAt>>
      /\ stage[r] = "reading" /\ Reply(r, 400)
  BY DEF Abort
<1>2. 400 \in Statuses \ {202, 500}
  BY DEF Statuses
<1>3. ReadsOn(r)
  BY <1>1, NothingRead DEF IInv
<1> QED
  BY <1>1, <1>2, <1>3, EarlyReplyCounted

(* A request is verified, and refused or on its way.                         *)
LEMMA EndInStep ==
  ASSUME IInv, NEW r \in Requests, End(r)
  PROVE  IInv'
<1> USE DEF IInv
<1>1. /\ UNCHANGED <<now, publishKey, message, received, delivered>>
      /\ stage[r] = "reading" /\ received[r] = message[r].length
      /\ verifiedAt' = [verifiedAt EXCEPT ![r] = now]
  BY DEF End
<1>2. ReadsOn(r) /\ verifiedAt'[r] = now
  BY <1>1 DEF Typed, ReadsOn
<1>3. {503, 401, 200, 400} \subseteq Statuses \ {202, 500}
  BY DEF Statuses
<1>4. CASE Reply(r, 503) /\ UNCHANGED <<unsent, counters>>
  BY <1>1, <1>2, <1>3, <1>4, EarlyReplyCounted
<1>5. CASE Reply(r, 401) /\ Increment("internal_unauthorized", 1) /\ unsent' = unsent
  BY <1>1, <1>2, <1>3, <1>5, EarlyReplyCounted
<1>6. CASE Reply(r, 200) /\ UNCHANGED <<unsent, counters>>
  BY <1>1, <1>2, <1>3, <1>6, EarlyReplyCounted
<1>7. CASE Reply(r, 400) /\ Increment("publish_rejected", 1) /\ unsent' = unsent
  BY <1>1, <1>2, <1>3, <1>7, EarlyReplyCounted
<1>8. CASE /\ publishKey /\ Verified(message[r]) /\ Acceptable(message[r])
           /\ unsent' = [unsent EXCEPT ![r] = ToSet(message[r].channels)]
           /\ stage' = [stage EXCEPT ![r] = "publishing"]
           /\ UNCHANGED <<response, counters>>
  <2>1. ToSet(message[r].channels) \subseteq Channels
    <3>1. ToSet(message[r].channels) \subseteq Channels \cup {InvalidChannel}
      BY MessageType, ElementOfSeq DEF ToSet
    <3> QED
      BY <1>8, <3>1 DEF Acceptable
  <2>2. Typed'
    BY <1>1, <1>2, <1>8, <2>1 DEF Typed, ReadsOn
  <2>3. RequestsInStep'
    <3> SUFFICES ASSUME NEW q \in Requests PROVE InStep(q)'
      BY DEF RequestsInStep
    <3>1. CASE q = r
      <4>1. /\ stage'[q] = "publishing" /\ response'[q] = 0
            /\ unsent'[q] = Named(q)' /\ Named(q)' \subseteq Channels
            /\ \A c \in Channels : delivered'[q][c] = 0
        BY <1>1, <1>8, <2>1, <3>1 DEF RequestsInStep, InStep, NothingYet, Typed, Named
      <4>2. Vouched(q)'
        <5>1. message[r].length <= Limit
          BY <1>1 DEF RequestsInStep, InStep, WithinLimit
        <5>2. now - message[r].stamp \in -MaxSkew..MaxSkew
          BY <1>8, MessageType, BoundsAssumption DEF Verified, Typed
        <5> QED
          BY <1>1, <1>2, <1>8, <3>1, <5>1, <5>2 DEF Vouched, Verified
      <4>3. OnceEach(q)' /\ NothingYet(q)' /\ WithinLimit(q)'
        BY <4>1 DEF OnceEach, NothingYet, WithinLimit
      <4>4. UnderWay(q)' /\ Accepted(q)' /\ ByItsSignature(q)'
        BY <4>1, <4>2 DEF UnderWay, Accepted, ByItsSignature
      <4> QED
        BY <4>3, <4>4 DEF InStep
    <3>2. CASE q # r
      <4>1. stage'[q] = stage[q] /\ unsent'[q] = unsent[q]
        BY <1>8, <3>2 DEF Typed
      <4> QED
        BY <1>1, <1>2, <1>8, <3>2, <4>1, OthersInStep DEF ReadsOn
    <3> QED
      BY <3>1, <3>2
  <2>4. AnsweredAreFinite' /\ CountersMatchAnswers'
    BY <1>1, <1>2, <1>8, NoneAnswered
  <2> QED
    BY <2>2, <2>3, <2>4
<1> QED
  BY <1>4, <1>5, <1>6, <1>7, <1>8 DEF End
-----------------------------------------------------------------------------
(* A channel the request still waits for is among its own, was not published *)
(* to before, and the request is not yet accepted.                           *)
LEMMA UnsentInStep ==
  ASSUME Typed, RequestsInStep, NEW r \in Requests, NEW c \in unsent[r]
  PROVE  /\ c \in Channels /\ delivered[r][c] = 0
         /\ Vouched(r) /\ response[r] \in {0, 500}
         /\ stage[r] \in {"publishing", "over"}
<1>1. c \in Channels /\ stage[r] \in {"none", "reading", "publishing", "over"}
  BY DEF Typed
<1>2. InStep(r)
  BY DEF RequestsInStep
<1> QED
  BY <1>1, <1>2 DEF InStep, OnceEach, Accepted, ByItsSignature, NothingYet

(* A channel got the message.  The last of them to succeed answers.          *)
LEMMA DeliverInStep ==
  ASSUME IInv, NEW r \in Requests, NEW c \in Channels, Deliver(r, c)
  PROVE  IInv'
<1> USE DEF IInv
<1>1. /\ UNCHANGED <<now, publishKey, message, received, verifiedAt>>
      /\ c \in unsent[r]
      /\ unsent' = [unsent EXCEPT ![r] = @ \ {c}]
      /\ delivered' = [delivered EXCEPT ![r][c] = @ + 1]
  BY DEF Deliver
<1>2. /\ delivered[r][c] = 0 /\ Vouched(r) /\ response[r] \in {0, 500}
      /\ stage[r] \in {"publishing", "over"} /\ InStep(r)
  BY <1>1, UnsentInStep DEF RequestsInStep
<1>3. /\ unsent'[r] = unsent[r] \ {c} /\ delivered'[r][c] = 1
      /\ \A d \in Channels \ {c} : delivered'[r][d] = delivered[r][d]
      /\ \A q \in Requests \ {r} : unsent'[q] = unsent[q] /\ delivered'[q] = delivered[q]
      /\ unsent' \in [Requests -> SUBSET Channels]
      /\ delivered' \in [Requests -> [Channels -> Nat]]
  BY <1>1, <1>2 DEF Typed
<1>4. OnceEach(r)' /\ Vouched(r)' /\ Named(r)' = Named(r)
  BY <1>1, <1>2, <1>3 DEF InStep, OnceEach, Vouched, Named
<1>5. CASE UNCHANGED <<stage, response, counters>>
  <2>1. Typed'
    BY <1>1, <1>3, <1>5 DEF Typed
  <2>2. RequestsInStep'
    <3> SUFFICES ASSUME NEW q \in Requests PROVE InStep(q)'
      BY DEF RequestsInStep
    <3>1. CASE q = r
      <4>1. NothingYet(q)' /\ WithinLimit(q)' /\ Accepted(q)' /\ ByItsSignature(q)'
        BY <1>2, <1>4, <1>5, <3>1 DEF NothingYet, WithinLimit, Accepted, ByItsSignature
      <4>2. UnderWay(q)'
        BY <1>2, <1>3, <1>4, <1>5, <3>1 DEF InStep, UnderWay
      <4> QED
        BY <1>4, <3>1, <4>1, <4>2 DEF InStep
    <3>2. CASE q # r
      BY <1>1, <1>3, <1>5, <3>2, OthersInStep
    <3> QED
      BY <3>1, <3>2
  <2>3. AnsweredAreFinite' /\ CountersMatchAnswers'
    BY <1>1, <1>5, NoneAnswered
  <2> QED
    BY <2>1, <2>2, <2>3
<1>6. CASE /\ stage[r] = "publishing" /\ AllDone(r, c) /\ Reply(r, 202)
           /\ counters' = [counters EXCEPT
                !["publish_requests"] = @ + 1,
                !["published_channels"] = @ + Cardinality(ToSet(message[r].channels))]
  <2>1. response[r] = 0
    BY <1>2, <1>6 DEF InStep, UnderWay
  <2>2. /\ response' = [response EXCEPT ![r] = 202] /\ stage' = [stage EXCEPT ![r] = "over"]
    BY <1>6, <2>1 DEF Reply, SendJson
  <2>3. /\ response'[r] = 202 /\ stage'[r] = "over" /\ unsent'[r] = {}
        /\ \A q \in Requests \ {r} : response'[q] = response[q] /\ stage'[q] = stage[q]
    BY <1>3, <1>6, <2>2 DEF Typed, AllDone
  <2>4. /\ counters' \in [Counted -> Nat]
        /\ counters'["publish_requests"] = counters["publish_requests"] + 1
        /\ counters["publish_too_large"] \in Nat
        /\ counters["internal_unauthorized"] \in Nat /\ counters["publish_failed"] \in Nat
        /\ counters'["publish_too_large"] = counters["publish_too_large"]
        /\ counters'["internal_unauthorized"] = counters["internal_unauthorized"]
        /\ counters'["publish_failed"] = counters["publish_failed"]
        /\ counters'["published_channels"]
             = counters["published_channels"] + Cardinality(Named(r))
    <3> DEFINE named == Cardinality(ToSet(message[r].channels))
    <3>1. named \in Nat
      BY MessageType, NamedIsFinite
    <3> HIDE DEF named
    <3>2. counters' = [counters EXCEPT !["publish_requests"] = @ + 1,
                                       !["published_channels"] = @ + named]
      BY <1>6 DEF named
    <3>3. counters \in [Counted -> Nat]
      BY DEF Typed
    <3>4. /\ counters' \in [Counted -> Nat]
          /\ counters'["published_channels"] = counters["published_channels"] + named
          /\ counters'["publish_requests"] = counters["publish_requests"] + 1
          /\ \A other \in Counted \ {"publish_requests", "published_channels"} :
               counters'[other] = counters[other]
      BY <3>1, <3>2, <3>3 DEF Counted
    <3> QED
      BY <3>3, <3>4 DEF Counted, named, Named
  <2>5. Typed'
    BY <1>1, <1>3, <2>2, <2>4 DEF Typed, Statuses
  <2>6. RequestsInStep'
    <3> SUFFICES ASSUME NEW q \in Requests PROVE InStep(q)'
      BY DEF RequestsInStep
    <3>1. CASE q = r
      <4>1. NothingYet(q)' /\ WithinLimit(q)' /\ UnderWay(q)' /\ ByItsSignature(q)'
        BY <1>4, <2>3, <3>1 DEF NothingYet, WithinLimit, UnderWay, ByItsSignature
      <4>2. Accepted(q)'
        <5>1. Named(r) \subseteq Channels /\ \A d \in Named(r) : d = c \/ delivered[r][d] = 1
          BY <1>2, <1>6 DEF InStep, UnderWay, AllDone
        <5>2. \A d \in Named(r) : delivered'[r][d] = 1
          BY <1>3, <5>1
        <5> QED
          BY <1>4, <2>3, <3>1, <5>2 DEF Accepted
      <4> QED
        BY <1>4, <3>1, <4>1, <4>2 DEF InStep
    <3>2. CASE q # r
      BY <1>1, <1>3, <2>3, <3>2, OthersInStep
    <3> QED
      BY <3>1, <3>2
  <2>7. Named(r) \subseteq Channels
    BY <1>2, <1>6 DEF InStep, UnderWay
  <2>8. AnsweredAreFinite' /\ CountersMatchAnswers'
    BY <1>1, <2>1, <2>3, <2>4, <2>7, AnswersStayCounted
  <2> QED
    BY <2>5, <2>6, <2>8
<1> QED
  BY <1>5, <1>6 DEF Deliver

(* A channel refused the message.  The first of them to fail answers.        *)
LEMMA RefuseInStep ==
  ASSUME IInv, NEW r \in Requests, NEW c \in Channels, Refuse(r, c)
  PROVE  IInv'
<1> USE DEF IInv
<1>1. /\ UNCHANGED <<now, publishKey, message, received, delivered, verifiedAt>>
      /\ c \in unsent[r]
      /\ unsent' = [unsent EXCEPT ![r] = @ \ {c}]
  BY DEF Refuse
<1>2. /\ Vouched(r) /\ response[r] \in {0, 500}
      /\ stage[r] \in {"publishing", "over"} /\ InStep(r)
  BY <1>1, UnsentInStep DEF RequestsInStep
<1>3. /\ unsent'[r] = unsent[r] \ {c}
      /\ \A q \in Requests \ {r} : unsent'[q] = unsent[q]
      /\ unsent' \in [Requests -> SUBSET Channels]
  BY <1>1 DEF Typed
<1>4. OnceEach(r)' /\ Vouched(r)' /\ Named(r)' = Named(r)
  BY <1>1, <1>2, <1>3 DEF InStep, OnceEach, Vouched, Named
<1>5. CASE stage[r] # "publishing" /\ UNCHANGED <<stage, response, counters>>
  <2>1. Typed'
    BY <1>1, <1>3, <1>5 DEF Typed
  <2>2. RequestsInStep'
    <3> SUFFICES ASSUME NEW q \in Requests PROVE InStep(q)'
      BY DEF RequestsInStep
    <3>1. CASE q = r
      <4>1. /\ NothingYet(q)' /\ WithinLimit(q)' /\ Accepted(q)' /\ ByItsSignature(q)'
            /\ UnderWay(q)'
        BY <1>2, <1>4, <1>5, <3>1
           DEF NothingYet, WithinLimit, Accepted, ByItsSignature, UnderWay
      <4> QED
        BY <1>4, <3>1, <4>1 DEF InStep
    <3>2. CASE q # r
      BY <1>1, <1>3, <1>5, <3>2, OthersInStep
    <3> QED
      BY <3>1, <3>2
  <2>3. AnsweredAreFinite' /\ CountersMatchAnswers'
    BY <1>1, <1>5, NoneAnswered
  <2> QED
    BY <2>1, <2>2, <2>3
<1>6. CASE stage[r] = "publishing" /\ Reply(r, 500) /\ Increment("publish_failed", 1)
  <2>1. response[r] = 0
    BY <1>2, <1>6 DEF InStep, UnderWay
  <2>2. /\ response' = [response EXCEPT ![r] = 500] /\ stage' = [stage EXCEPT ![r] = "over"]
    BY <1>6, <2>1 DEF Reply, SendJson
  <2>3. /\ response'[r] = 500 /\ stage'[r] = "over"
        /\ \A q \in Requests \ {r} : response'[q] = response[q] /\ stage'[q] = stage[q]
    BY <2>2 DEF Typed
  <2>4. /\ counters' \in [Counted -> Nat]
        /\ counters'["publish_failed"] = counters["publish_failed"] + 1
        /\ counters["publish_too_large"] \in Nat
        /\ counters["internal_unauthorized"] \in Nat /\ counters["publish_requests"] \in Nat
        /\ counters'["publish_too_large"] = counters["publish_too_large"]
        /\ counters'["internal_unauthorized"] = counters["internal_unauthorized"]
        /\ counters'["publish_requests"] = counters["publish_requests"]
        /\ counters["published_channels"] \in Nat
        /\ counters'["published_channels"] = counters["published_channels"]
    BY <1>6, IncrementOne DEF Counted, Typed
  <2>5. Typed'
    BY <1>1, <1>3, <2>2, <2>4 DEF Typed, Statuses
  <2>6. RequestsInStep'
    <3> SUFFICES ASSUME NEW q \in Requests PROVE InStep(q)'
      BY DEF RequestsInStep
    <3>1. CASE q = r
      <4>1. /\ NothingYet(q)' /\ WithinLimit(q)' /\ Accepted(q)' /\ ByItsSignature(q)'
            /\ UnderWay(q)'
        BY <1>4, <2>3, <3>1 DEF NothingYet, WithinLimit, Accepted, ByItsSignature, UnderWay
      <4> QED
        BY <1>4, <3>1, <4>1 DEF InStep
    <3>2. CASE q # r
      BY <1>1, <1>3, <2>3, <3>2, OthersInStep
    <3> QED
      BY <3>1, <3>2
  <2>7. AnsweredAreFinite' /\ CountersMatchAnswers'
    BY <1>1, <2>1, <2>3, <2>4, AnswersStayCounted
  <2> QED
    BY <2>5, <2>6, <2>7
<1> QED
  BY <1>5, <1>6 DEF Refuse, Failed

(* Time, and steps of nobody.                                                *)
LEMMA ClockInStep ==
  ASSUME IInv, now' \in 0..MaxNow,
         UNCHANGED <<publishKey, message, stage, received, unsent, response,
                     counters, delivered, verifiedAt>>
  PROVE  IInv'
<1>1. Typed'
  BY DEF IInv, Typed
<1>2. RequestsInStep'
  <2> SUFFICES ASSUME NEW q \in Requests PROVE InStep(q)'
    BY DEF RequestsInStep
  <2> QED
    BY OthersInStep DEF IInv
<1>3. AnsweredAreFinite' /\ CountersMatchAnswers'
  BY NoneAnswered
<1> QED
  BY <1>1, <1>2, <1>3 DEF IInv

(* Every step of a request, and the clock, keeps all requests in step.       *)
LEMMA StepInStep == IInv /\ [Next]_vars => IInv'
<1> SUFFICES ASSUME IInv, [Next]_vars PROVE IInv'
  OBVIOUS
<1>1. ASSUME NEW r \in Requests, Arrive(r) \/ Data(r) \/ Abort(r) \/ End(r)
      PROVE  IInv'
  BY <1>1, ArriveInStep, DataInStep, AbortInStep, EndInStep
<1>2. ASSUME NEW r \in Requests, NEW c \in Channels, Deliver(r, c) \/ Refuse(r, c)
      PROVE  IInv'
  BY <1>2, DeliverInStep, RefuseInStep
<1>3. CASE Tick
  <2>1. now' \in 0..MaxNow
    BY <1>3, BoundsAssumption DEF Tick, IInv, Typed
  <2> QED
    BY <1>3, <2>1, ClockInStep DEF Tick
<1>4. CASE UNCHANGED vars
  <2>1. now' \in 0..MaxNow
    BY <1>4 DEF vars, IInv, Typed
  <2> QED
    BY <1>4, <2>1, ClockInStep DEF vars
<1> QED
  BY <1>1, <1>2, <1>3, <1>4 DEF Next

-----------------------------------------------------------------------------
(* They are in step in every state.                                          *)
LEMMA AlwaysInStep == Spec => []IInv
BY InitInStep, StepInStep, PTL DEF Spec

(* Then the listener's state has its type.                                   *)
LEMMA InStepIsTyped == ASSUME IInv PROVE TypeOK
<1>1. \A r \in Requests : received[r] \in 0..message[r].length
  BY MessageType DEF IInv, Typed
<1> QED
  BY <1>1 DEF IInv, Typed, TypeOK

(* A request answered 202 published to each of its channels exactly once,    *)
(* and no request twice to one (internal.js, publish).                       *)
LEMMA AcceptedIsDelivered == ASSUME IInv PROVE AcceptedMeansDelivered
BY DEF IInv, RequestsInStep, InStep, OnceEach, Accepted, Named, AcceptedMeansDelivered

(* What is published was signed by the key's owner, within the clock skew,   *)
(* and is no larger than a body may be (internal.js, signing.js).            *)
LEMMA VerifiedIsPublished == ASSUME IInv PROVE PublishesVerifiedOnly
BY DEF IInv, RequestsInStep, InStep, ByItsSignature, Vouched, PublishesVerifiedOnly

(* The listener by itself: what it answers is true (internal.js).            *)
THEOREM ListenerCorrect ==
  Spec => [](TypeOK /\ AcceptedMeansDelivered /\ CountersMatchAnswers /\ PublishesVerifiedOnly)
<1>1. IInv => TypeOK /\ AcceptedMeansDelivered /\ CountersMatchAnswers /\ PublishesVerifiedOnly
  BY InStepIsTyped, AcceptedIsDelivered, VerifiedIsPublished DEF IInv
<1> QED
  BY <1>1, AlwaysInStep, PTL
-----------------------------------------------------------------------------
(* The process: until it has assembled its server nothing is in force, and   *)
(* while it runs it is with settings it understood.                          *)
Alive == {"starting", "public", "internal", "running", "stopping", "poller-stopped",
          "sockets-closed"}

ProcessInv ==
  /\ Process!TypeOK
  /\ phase = "loading" => runtime.mode = "none"
  /\ phase = "exited" => status # "none"
  /\ open # {} => phase \in Alive
  /\ phase \in Alive =>
       /\ Process!Understood(env)
       /\ attached = Process!ServerOptions(env)
       /\ runtime.mode \in Process!Modes
  /\ Process!AuthNeedsKey

(* The mode the environment asks for.                                        *)
LEMMA ModeOfEnv ==
  ASSUME Process!Understood(env)
  PROVE  /\ Process!ModeOf(env) \in Process!Modes
         /\ Process!ModeOf(env) # "off" => env.switch /\ Process!Keyed(env)
BY DEF Process!Understood, Process!ModeOf, Process!OrEnforce, Process!Modes, Process!Blank,
       Process!Absent

(* What an answer makes of it.                                               *)
LEMMA AppliedMode ==
  ASSUME Process!Understood(env), NEW p \in Payloads, Process!Readable(p)
  PROVE  /\ Process!Applied(p).mode \in Process!Modes
         /\ Process!Applied(p).mode # "off" => Process!Keyed(env)
         /\ Process!Applied(p) \in [mode : Process!Modes \cup {"none"},
                                    origins : {"none", "*:*", "theirs", "api's"}]
BY DEF Process!Understood, Process!Readable, Process!Applied, Process!OrEnforce, Process!Modes,
       Process!Blank, Process!Absent, Process!EnvOrigins

(* The options have values, and none of the process's own is theirs.         *)
LEMMA OptionsType ==
  /\ Process!ServerOptions(env) \in
       [Process!OptionNames -> {"none", "HS256", "yes", "no", "configured", "theirs", "default"}]
  /\ \A name \in Process!ReservedOptions : Process!ServerOptions(env)[name] # "theirs"
  /\ (Process!ServerOptions(env)["allowClientPublish"] = "no")
       = (Process!ModeOf(env) = "enforce")
BY DEF Process!ServerOptions, Process!OptionNames, Process!ReservedOptions, Process!OptionsOf

(* The process starts so.                                                    *)
LEMMA ProcessInvInit == ASSUME Process!Init PROVE ProcessInv
BY DEF Process!Init, ProcessInv, Process!TypeOK, Process!AuthNeedsKey, Alive, Process!Modes,
       Process!OptionNames, Process!ReservedOptions

(* Starting, stopping and every answer of the API keep it so.                *)
LEMMA ProcessInvStep ==
  ASSUME ProcessInv, [Process!Next]_processVars
  PROVE  ProcessInv'
<1> USE DEF ProcessInv
<1>1. ASSUME NEW with \in {"killed", "0", "1", "78"}, Process!Exit(with)
      PROVE  ProcessInv'
  BY <1>1 DEF Process!Exit, Process!TypeOK, Process!AuthNeedsKey, Process!Keyed,
     Process!Modes, Alive
<1>2. CASE Process!Create
  <2>1. /\ attached' = Process!ServerOptions(env)
        /\ runtime' = [mode |-> Process!ModeOf(env), origins |-> Process!EnvOrigins(env)]
        /\ phase' = "starting" /\ phase = "loading" /\ Process!Understood(env)
        /\ UNCHANGED <<env, status, open>>
    BY <1>2 DEF Process!Create
  <2>2. runtime'.mode = Process!ModeOf(env) /\ Process!EnvOrigins(env) \in {"*:*", "theirs"}
    BY <2>1 DEF Process!EnvOrigins
  <2>3. Process!TypeOK'
    BY <2>1, <2>2, ModeOfEnv, OptionsType DEF Process!TypeOK
  <2>4. Process!AuthNeedsKey'
    BY <2>1, <2>2, ModeOfEnv DEF Process!AuthNeedsKey, Process!Keyed, Process!Modes
  <2>5. Process!Understood(env)' /\ Process!ServerOptions(env)' = Process!ServerOptions(env)
    BY <2>1
  <2> QED
    BY <2>1, <2>2, <2>3, <2>4, <2>5, ModeOfEnv DEF Alive
<1>3. ASSUME NEW next \in Alive, Process!To(next), phase \in Alive,
             open' \subseteq {"public", "internal", "poller", "sockets", "scc"},
             next \in {"starting", "public", "internal"} =>
               phase \in {"starting", "public", "internal"}
      PROVE  ProcessInv'
  <2>1. phase' = next /\ UNCHANGED <<env, status, attached, runtime>>
    BY <1>3 DEF Process!To
  <2>2. Process!TypeOK'
    BY <1>3, <2>1 DEF Process!TypeOK, Alive
  <2>3. Process!AuthNeedsKey'
    BY <1>3, <2>1 DEF Process!AuthNeedsKey, Process!Keyed, Process!Modes
  <2>4. Process!Understood(env)' /\ Process!ServerOptions(env)' = Process!ServerOptions(env)
    BY <1>3, <2>1
  <2> QED
    BY <1>3, <2>1, <2>2, <2>3, <2>4 DEF Alive
<1>4. CASE Process!RejectEnv \/ Process!StartFails \/ Process!CloseListeners \/ Process!Force
  BY <1>1, <1>4 DEF Process!RejectEnv, Process!StartFails, Process!CloseListeners, Process!Force
<1>5. CASE Process!ListenPublic \/ Process!ListenInternal \/ Process!Attend
  <2>1. open \subseteq {"public", "internal", "poller", "sockets", "scc"}
    BY DEF Process!TypeOK
  <2>2. CASE Process!ListenPublic
    BY <1>3, <2>1, <2>2 DEF Process!ListenPublic, Alive
  <2>3. CASE Process!ListenInternal
    BY <1>3, <2>1, <2>3 DEF Process!ListenInternal, Alive
  <2>4. CASE Process!Attend
    BY <1>3, <2>1, <2>4 DEF Process!Attend, Alive
  <2> QED BY <1>5, <2>2, <2>3, <2>4
<1>6. CASE Process!Signal
  <2>1. CASE phase = "running" /\ Process!To("stopping") /\ UNCHANGED open
    BY <1>3, <2>1 DEF Alive, Process!TypeOK
  <2>2. CASE Process!Exit("killed")
    BY <1>1, <2>2
  <2> QED BY <1>6, <2>1, <2>2 DEF Process!Signal
<1>7. CASE Process!StopPoller \/ Process!CloseSockets
  <2>1. open \subseteq {"public", "internal", "poller", "sockets", "scc"}
    BY DEF Process!TypeOK
  <2>2. CASE Process!StopPoller
    BY <1>3, <2>1, <2>2 DEF Process!StopPoller, Alive
  <2>3. CASE Process!CloseSockets
    BY <1>3, <2>1, <2>3 DEF Process!CloseSockets, Alive
  <2> QED BY <1>7, <2>2, <2>3
<1>8. ASSUME NEW p \in Payloads, Process!Answer(p)
      PROVE  ProcessInv'
  <2>1. /\ phase \in {"running", "stopping"}
        /\ runtime' = IF Process!Readable(p) THEN Process!Applied(p) ELSE runtime
        /\ UNCHANGED <<env, phase, status, attached, open>>
    BY <1>8 DEF Process!Answer
  <2>2. Process!Understood(env)
    BY <2>1 DEF Alive
  <2>3. Process!TypeOK' /\ Process!AuthNeedsKey' /\ runtime'.mode \in Process!Modes
    <3>1. CASE Process!Readable(p)
      BY <2>1, <2>2, <3>1, AppliedMode
         DEF Process!TypeOK, Process!AuthNeedsKey, Process!Keyed, Process!Modes, Alive
    <3>2. CASE ~Process!Readable(p)
      BY <2>1, <3>2 DEF Process!TypeOK, Process!AuthNeedsKey, Process!Keyed, Alive
    <3> QED BY <3>1, <3>2
  <2>4. Process!Understood(env)' /\ Process!ServerOptions(env)' = Process!ServerOptions(env)
    BY <2>1, <2>2
  <2> QED BY <2>1, <2>2, <2>3, <2>4 DEF Alive
<1>9. CASE UNCHANGED processVars
  <2>1. UNCHANGED <<env, phase, status, attached, runtime, open>>
    BY <1>9 DEF processVars
  <2>2. /\ Process!TypeOK' /\ Process!AuthNeedsKey'
        /\ Process!Understood(env)' = Process!Understood(env)
        /\ Process!ServerOptions(env)' = Process!ServerOptions(env)
    BY <2>1 DEF Process!TypeOK, Process!AuthNeedsKey, Process!Keyed
  <2> QED BY <2>1, <2>2
<1> QED
  BY <1>2, <1>4, <1>5, <1>6, <1>7, <1>8, <1>9 DEF Process!Next

(* So the process keeps its options, its key and its ports (the three        *)
(* properties of server.js, config.js and runtime.js).                       *)
LEMMA ProcessKept ==
  ASSUME ProcessInv
  PROVE  /\ Process!TypeOK
         /\ Process!OptionsStayOurs /\ Process!AuthNeedsKey /\ Process!ListenersApart
<1>1. Process!OptionsStayOurs
  <2> SUFFICES ASSUME phase # "loading", status = "none"
               PROVE  /\ \A name \in Process!ReservedOptions : attached[name] # "theirs"
                      /\ (attached["allowClientPublish"] = "no")
                           = (Process!ModeOf(env) = "enforce")
    BY DEF Process!OptionsStayOurs
  <2>1. attached = Process!ServerOptions(env)
    BY DEF ProcessInv, Alive, Process!TypeOK
  <2> QED BY <2>1, OptionsType
<1>2. Process!ListenersApart
  <2>1. CASE "public" \in open
    <3>1. Process!PortsDiffer(env)
      BY <2>1 DEF ProcessInv, Process!Understood
    <3> QED BY <3>1 DEF Process!PortsDiffer, Process!ListenersApart
  <2>2. CASE "public" \notin open
    BY <2>2 DEF Process!ListenersApart
  <2> QED BY <2>1, <2>2
<1> QED BY <1>1, <1>2 DEF ProcessInv

-----------------------------------------------------------------------------
(* The rules: a token that authenticated is valid, and the last decision is  *)
(* what the rules say now.                                                   *)
RulesNowSay ==
  decision = IF accepted THEN Rules!LocalDecision(claims, channel, now)
                         ELSE Rules!AnonymousDecision(channel)

RulesInv ==
  /\ Rules!TypeOK
  /\ accepted => Rules!ValidClaims(claims)
  /\ decision # "none" => RulesNowSay

(* A name with two parts is the pair of them.                                *)
LEMMA NameOfTwo ==
  ASSUME NEW name \in Seq(STRING), NEW first, NEW second
  PROVE  name = <<first, second>> <=> Len(name) = 2 /\ name[1] = first /\ name[2] = second
<1>1. ASSUME Len(name) = 2, name[1] = first, name[2] = second
      PROVE  name = <<first, second>>
  <2>1. name \in Seq(STRING \cup {first, second})
        /\ <<first, second>> \in Seq(STRING \cup {first, second})
    OBVIOUS
  <2>2. Len(<<first, second>>) = 2 /\ <<first, second>>[1] = first /\ <<first, second>>[2] = second
    OBVIOUS
  <2> QED BY <1>1, <2>1, <2>2, SeqEqual
<1> QED BY <1>1

(* A name with three.                                                        *)
LEMMA NameOfThree ==
  ASSUME NEW name \in Seq(STRING), NEW first, NEW second, NEW third
  PROVE  name = <<first, second, third>> <=>
           Len(name) = 3 /\ name[1] = first /\ name[2] = second /\ name[3] = third
<1>1. ASSUME Len(name) = 3, name[1] = first, name[2] = second, name[3] = third
      PROVE  name = <<first, second, third>>
  <2>1. <<first, second, third>> \in Seq(STRING \cup {first, second, third})
    OBVIOUS
  <2>2. name \in Seq(STRING \cup {first, second, third})
    OBVIOUS
  <2>3. /\ Len(<<first, second, third>>) = 3 /\ <<first, second, third>>[1] = first
        /\ <<first, second, third>>[2] = second /\ <<first, second, third>>[3] = third
    OBVIOUS
  <2>4. \A i \in 1..Len(name) : name[i] = <<first, second, third>>[i]
    <3>1. \A i \in 1..3 : i = 1 \/ i = 2 \/ i = 3
      OBVIOUS
    <3> QED BY <1>1, <2>3, <3>1
  <2> QED BY <1>1, <2>1, <2>2, <2>3, <2>4, SeqEqual
<1> QED BY <1>1

(* The first two parts of a longer name.                                     *)
LEMMA FirstTwo ==
  ASSUME NEW name \in Seq(STRING), NEW first, NEW second, Len(name) > 2
  PROVE  SubSeq(name, 1, 2) = <<first, second>> <=> name[1] = first /\ name[2] = second
<1>1. \A i \in 1..2 : name[i] \in STRING
  OBVIOUS
<1>2. /\ SubSeq(name, 1, 2) \in Seq(STRING) /\ Len(SubSeq(name, 1, 2)) = 2
      /\ SubSeq(name, 1, 2)[1] = name[1] /\ SubSeq(name, 1, 2)[2] = name[2]
  <2>1. 1 \in Int /\ 2 \in Int /\ 1 \in 1..2 - 1 + 1 /\ 2 \in 1..2 - 1 + 1
    OBVIOUS
  <2> QED BY <1>1, <2>1, SubSeqProperties
<1> DEFINE two == SubSeq(name, 1, 2)
<1>3. two = <<first, second>> <=> Len(two) = 2 /\ two[1] = first /\ two[2] = second
  <2>1. two \in Seq(STRING)
    BY <1>2
  <2> HIDE DEF two
  <2> QED BY <2>1, NameOfTwo
<1> QED BY <1>2, <1>3

(* The self rules are the lines of the README on who may hold what.          *)
LEMMA SelfRulesAreDocumented ==
  ASSUME channel \in Seq(STRING)
  PROVE  Rules!SelfRules(claims, channel) <=>
           \/ claims.kind = "system"
           \/ claims.kind \in {"user", "api"} /\ Rules!Owned({"company"}, {claims.cid, claims.cpid})
           \/ claims.kind = "api" /\ Rules!Owned({"api"}, {claims.sub})
           \/ Rules!Owned({"user", "driver"}, claims.ids)
           \/ /\ claims.kind = "user" /\ claims.cid # ""
              /\ \E family \in {"install", "uninstall"} :
                   channel # <<family, claims.cid, "">>
                   /\ Len(channel) > 2 /\ SubSeq(channel, 1, 2) = <<family, claims.cid>>
<1>0. \A first, second :
        channel = <<first, second>> <=> Len(channel) = 2 /\ channel[1] = first /\ channel[2] = second
  BY NameOfTwo
<1>1. Rules!OwnCompany(claims, channel) <=>
        claims.kind \in {"user", "api"} /\ Rules!Owned({"company"}, {claims.cid, claims.cpid})
  BY <1>0 DEF Rules!OwnCompany, Rules!CompanyScopedKinds, Rules!Owned
<1>2. Rules!OwnApi(claims, channel) <=> claims.kind = "api" /\ Rules!Owned({"api"}, {claims.sub})
  BY <1>0 DEF Rules!OwnApi, Rules!Owned
<1>3. Rules!OwnChannel(claims, channel) <=> Rules!Owned({"user", "driver"}, claims.ids)
  <2>1. ASSUME NEW id
        PROVE  channel \in {<<"user", id>>, <<"driver", id>>} <=>
                 Len(channel) = 2 /\ channel[1] \in {"user", "driver"} /\ channel[2] = id
    <3>1. channel \in {<<"user", id>>, <<"driver", id>>} <=>
            channel = <<"user", id>> \/ channel = <<"driver", id>>
      BY Zenon
    <3> QED BY <1>0, <3>1, Zenon
  <2> QED BY <2>1, Zenon DEF Rules!OwnChannel, Rules!Owned
<1>4. ASSUME NEW family, NEW third, Len(channel) > 2
      PROVE  channel # <<family, claims.cid, third>> /\ SubSeq(channel, 1, 2) = <<family, claims.cid>>
             <=> /\ channel[1] = family /\ channel[2] = claims.cid
                 /\ Len(channel) > 3 \/ channel[3] # third
  <2>1. Len(channel) \in Nat
    OBVIOUS
  <2>2. channel = <<family, claims.cid, third>> <=>
          Len(channel) = 3 /\ channel[1] = family /\ channel[2] = claims.cid /\ channel[3] = third
    BY NameOfThree
  <2>3. SubSeq(channel, 1, 2) = <<family, claims.cid>> <=>
          channel[1] = family /\ channel[2] = claims.cid
    BY <1>4, FirstTwo
  <2>4. Len(channel) = 3 <=> ~(Len(channel) > 3)
    <3>1. \A n \in Nat : n > 2 => (n = 3 <=> ~(n > 3))
      OBVIOUS
    <3> QED BY <1>4, <2>1, <3>1, Zenon
  <2> QED BY <2>2, <2>3, <2>4, Zenon
<1>5. Rules!OwnInstall(claims, channel) <=>
        /\ claims.kind = "user" /\ claims.cid # ""
        /\ \E family \in {"install", "uninstall"} :
             channel # <<family, claims.cid, "">>
             /\ Len(channel) > 2 /\ SubSeq(channel, 1, 2) = <<family, claims.cid>>
  <2>1. ASSUME NEW family, Len(channel) > 2
        PROVE  channel # <<family, claims.cid, "">> /\ SubSeq(channel, 1, 2) = <<family, claims.cid>>
               <=> /\ channel[1] = family /\ channel[2] = claims.cid
                   /\ Len(channel) > 3 \/ channel[3] # ""
    BY <1>4, <2>1, Zenon
  <2> QED BY <2>1, Zenon DEF Rules!OwnInstall
<1> QED
  BY <1>1, <1>2, <1>3, <1>5 DEF Rules!SelfRules

(* The rules start so.                                                       *)
LEMMA RulesInvInit == ASSUME Rules!Init PROVE RulesInv
BY DEF Rules!Init, RulesInv, Rules!TypeOK

(* Every answer, and time, keep it so.                                       *)
LEMMA RulesInvStep ==
  ASSUME RulesInv, [Rules!Next]_<<now, rulesVars>>
  PROVE  RulesInv'
<1> USE DEF RulesInv
<1>1. CASE Rules!Authenticate
  BY <1>1 DEF Rules!Authenticate, Rules!TypeOK, Rules!ValidClaims
<1>2. ASSUME NEW c \in RuleChannels, Rules!Ask(c)
      PROVE  RulesInv'
  <2>1. /\ channel' = c /\ UNCHANGED <<now, claims, accepted>>
        /\ decision' = IF accepted THEN Rules!LocalDecision(claims, c, now)
                                   ELSE Rules!AnonymousDecision(c)
    BY <1>2 DEF Rules!Ask
  <2>2. RulesNowSay'
    BY <2>1 DEF RulesNowSay, Rules!LocalDecision, Rules!AnonymousDecision
  <2>3. Rules!TypeOK'
    BY <2>1 DEF Rules!TypeOK, Rules!LocalDecision, Rules!AnonymousDecision
  <2>4. (accepted => Rules!ValidClaims(claims))'
    BY <2>1
  <2> QED BY <2>2, <2>3, <2>4
<1>3. CASE Rules!Tick
  <2>1. now' = now + 1 /\ now < RulesNow /\ decision' = "none"
        /\ UNCHANGED <<claims, accepted, channel>>
    BY <1>3 DEF Rules!Tick
  <2>2. Rules!TypeOK'
    BY <2>1, RulesAssumptions DEF Rules!TypeOK, Rules!NumbersAssumption
  <2> QED BY <2>1, <2>2
<1>4. CASE UNCHANGED <<now, rulesVars>>
  <2>1. UNCHANGED <<now, claims, accepted, channel, decision>>
    BY <1>4 DEF rulesVars
  <2>2. Rules!TypeOK' /\ RulesNowSay' = RulesNowSay
    BY <2>1 DEF Rules!TypeOK, RulesNowSay
  <2> QED BY <2>1, <2>2
<1> QED BY <1>1, <1>2, <1>3, <1>4 DEF Rules!Next

(* So they allow what the README lists, and no token for too long.           *)
LEMMA RulesKept ==
  ASSUME RulesInv
  PROVE  Rules!TypeOK /\ Rules!AllowsAsDocumented /\ Rules!TokensAreShortLived
<1>1. /\ now \in Int /\ claims.iat \in Int /\ claims.exp \in Int /\ MaxLifetime \in Int
      /\ channel \in Seq(STRING)
  BY RulesAssumptions DEF RulesInv, Rules!TypeOK, Rules!NumbersAssumption, Rules!ChannelsAssumption
<1>2. Rules!TypeOK /\ (accepted => Rules!ValidClaims(claims))
  BY DEF RulesInv
<1>3. ASSUME accepted
      PROVE  /\ claims.exp # Rules!NotANumber /\ claims.exp - claims.iat <= MaxLifetime
             /\ Rules!HasExpired(claims, now) <=> ~(now < claims.exp)
  <2>1. /\ claims.exp # Rules!NotANumber
        /\ claims.exp - claims.iat <= MaxLifetime
    BY <1>2, <1>3 DEF Rules!ValidClaims
  <2>2. Rules!HasExpired(claims, now) <=> claims.exp <= now
    BY <2>1 DEF Rules!HasExpired
  <2> QED BY <1>1, <2>1, <2>2
<1>4. Rules!AllowsAsDocumented
  <2> SUFFICES ASSUME decision # "none"
               PROVE  decision = "allow" <=> Rules!Documented
    BY DEF Rules!AllowsAsDocumented
  <2>1. RulesNowSay
    BY DEF RulesInv
  <2>2. CASE accepted
    BY <1>1, <1>3, <2>1, <2>2, SelfRulesAreDocumented
       DEF RulesNowSay, Rules!LocalDecision, Rules!Documented
  <2>3. CASE ~accepted
    BY <2>1, <2>3 DEF RulesNowSay, Rules!AnonymousDecision, Rules!Documented
  <2> QED BY <2>2, <2>3 DEF RulesInv, Rules!TypeOK
<1>5. Rules!TokensAreShortLived
  <2> SUFFICES ASSUME accepted, now >= claims.iat + MaxLifetime, decision # "none"
               PROVE  decision = "deny"
    BY DEF Rules!TokensAreShortLived
  <2>1. decision = Rules!LocalDecision(claims, channel, now)
    BY DEF RulesInv, RulesNowSay
  <2>2. Rules!HasExpired(claims, now)
    BY <1>1, <1>3
  <2> QED BY <2>1, <2>2 DEF Rules!LocalDecision
<1> QED BY <1>2, <1>4, <1>5

-----------------------------------------------------------------------------
(* The denial log: no row counts more than was recorded, and as long as no   *)
(* more kinds of denials were recorded than there is room for, all of them.  *)
Row == [key : Denials!RowKeys, count : Nat \ {0}, lastAt : 0..DenialsNow]
Recorded == {key \in Denials!RowKeys : recorded[key] > 0}

RowsTyped ==
  /\ now \in 0..DenialsNow
  /\ rows \in Seq(Row) /\ Len(rows) <= MaxRows
  /\ recorded \in [Denials!RowKeys -> Nat]
  /\ \A i, j \in DOMAIN rows : rows[i].key = rows[j].key => i = j

CountsHonest ==
  /\ \A i \in DOMAIN rows : rows[i].count <= recorded[rows[i].key]
  /\ IsFiniteSet(Recorded)
  /\ Cardinality(Recorded) <= MaxRows =>
       \A key \in Recorded : \E i \in DOMAIN rows :
         rows[i].key = key /\ rows[i].count = recorded[key]

DenialsInv == RowsTyped /\ CountsHonest

(* A sequence without its element p keeps the others in order.               *)
LEMMA RemovedAt ==
  ASSUME NEW S, NEW s \in Seq(S), NEW p \in 1..Len(s)
  PROVE  /\ Denials!RemoveAt(s, p) \in Seq(S)
         /\ Len(Denials!RemoveAt(s, p)) = Len(s) - 1
         /\ \A i \in 1..(Len(s) - 1) :
              Denials!RemoveAt(s, p)[i] = IF i < p THEN s[i] ELSE s[i + 1]
<1> DEFINE before == SubSeq(s, 1, p - 1)
           after == SubSeq(s, p + 1, Len(s))
<1>1. /\ before \in Seq(S) /\ Len(before) = p - 1
      /\ \A i \in 1..(p - 1) : before[i] = s[i]
  <2>1. \A i \in 1..(p - 1) : s[i] \in S
    BY ElementOfSeq
  <2>2. 1 \in Int /\ p - 1 \in Int
    OBVIOUS
  <2> QED
    BY <2>1, <2>2, SubSeqProperties
<1>2. /\ after \in Seq(S) /\ Len(after) = Len(s) - p
      /\ \A i \in 1..(Len(s) - p) : after[i] = s[p + i]
  <2>1. \A i \in (p + 1)..Len(s) : s[i] \in S
    BY ElementOfSeq
  <2>2. p + 1 \in Int /\ Len(s) \in Int
    OBVIOUS
  <2> QED
    BY <2>1, <2>2, SubSeqProperties
<1>3. Denials!RemoveAt(s, p) = before \o after
  BY DEF Denials!RemoveAt
<1> HIDE DEF before, after
<1>4. /\ before \o after \in Seq(S)
      /\ Len(before \o after) = Len(before) + Len(after)
      /\ \A i \in 1..(Len(before) + Len(after)) :
           (before \o after)[i] = IF i <= Len(before) THEN before[i]
                                  ELSE after[i - Len(before)]
  BY <1>1, <1>2, ConcatProperties
<1> QED
  BY <1>1, <1>2, <1>3, <1>4

(* Of some natural numbers one is the least.                                 *)
LEMMA LeastNumber ==
  ASSUME NEW S \in SUBSET Nat, S # {}
  PROVE  \E m \in S : \A n \in S : m <= n
<1> DEFINE R == OpToRel(<, Nat)
<1>1. IsWellFoundedOn(R, Nat)
  BY NatLessThanWellFounded DEF OpToRel
<1>2. \A x, y \in Nat : <<y, x>> \in R <=> y < x
  BY DEF OpToRel
<1> HIDE DEF R
<1>3. PICK m \in S : \A n \in S : <<n, m>> \notin R
  BY <1>1, WFMin
<1>4. ASSUME NEW n \in S
      PROVE  m <= n
  <2>1. m \in Nat /\ n \in Nat
    OBVIOUS
  <2>2. ~(n < m)
    BY <1>2, <1>3, <2>1, Zenon
  <2> QED BY <2>1, <2>2
<1> QED
  BY <1>4

(* A row has a count.                                                        *)
LEMMA RowType ==
  ASSUME RowsTyped, NEW i \in DOMAIN rows
  PROVE  rows[i] \in Row /\ rows[i].key \in Denials!RowKeys /\ rows[i].count \in Nat /\ rows[i].count > 0
<1>1. rows[i] \in Row
  BY ElementOfSeq DEF RowsTyped
<1> QED
  BY <1>1 DEF Row

(* evict() gives up a row, and none has a lower count.                       *)
LEMMA VictimIsLowest ==
  ASSUME RowsTyped, Len(rows) > 0
  PROVE  /\ Denials!Victim(rows) \in DOMAIN rows
         /\ \A j \in DOMAIN rows : rows[Denials!Victim(rows)].count <= rows[j].count
<1> DEFINE counts == {rows[i].count : i \in DOMAIN rows}
           lowest == {i \in DOMAIN rows : \A j \in DOMAIN rows : rows[i].count <= rows[j].count}
<1>1. DOMAIN rows = 1..Len(rows) /\ Len(rows) \in Nat /\ 1 \in DOMAIN rows
  BY DEF RowsTyped
<1>2. \A i \in DOMAIN rows : rows[i].count \in Nat
  BY RowType
<1>3. counts \in SUBSET Nat /\ counts # {}
  BY <1>1, <1>2
<1>4. \E m \in counts : \A n \in counts : m <= n
  BY <1>3, LeastNumber
<1>5. lowest # {} /\ lowest \in SUBSET Nat
  BY <1>1, <1>4
<1>6. PICK first \in lowest : \A n \in lowest : first <= n
  BY <1>5, LeastNumber
<1>7. Denials!Victim(rows) \in lowest
  BY <1>6 DEF Denials!Victim, Denials!Min
<1> QED
  BY <1>7

(* A row that is given up leaves the others as they were.                    *)
LEMMA RoomForOne ==
  ASSUME RowsTyped
  PROVE  /\ Denials!Room \in Seq(Row) /\ Len(Denials!Room) < MaxRows
         /\ \A i, j \in DOMAIN Denials!Room :
              Denials!Room[i].key = Denials!Room[j].key => i = j
         /\ \A i \in DOMAIN Denials!Room : \E j \in DOMAIN rows : Denials!Room[i] = rows[j]
         /\ ~Denials!Full => Denials!Room = rows
         /\ \A i, j \in DOMAIN rows : rows[i].count > rows[j].count =>
              \E k \in DOMAIN Denials!Room : Denials!Room[k] = rows[i]
<1>1. Len(rows) \in Nat /\ DOMAIN rows = 1..Len(rows) /\ MaxRows \in Nat /\ MaxRows > 0
  BY DenialsAssumptions DEF RowsTyped, Denials!BoundsAssumption
<1>2. CASE ~Denials!Full
  BY <1>1, <1>2 DEF Denials!Room, Denials!Full, RowsTyped
<1>3. CASE Denials!Full
  <2> DEFINE v == Denials!Victim(rows)
             rest == Denials!RemoveAt(rows, v)
  <2>1. Len(rows) = MaxRows /\ Len(rows) > 0
    <3>1. Len(rows) <= MaxRows
      BY DEF RowsTyped
    <3>2. Len(rows) >= MaxRows
      BY <1>3 DEF Denials!Full
    <3>3. \A m, n \in Nat : n <= m /\ n >= m /\ m > 0 => n = m /\ n > 0
      OBVIOUS
    <3> QED BY <1>1, <3>1, <3>2, <3>3, Zenon
  <2>2. v \in 1..Len(rows) /\ \A j \in DOMAIN rows : rows[v].count <= rows[j].count
    BY <1>1, <2>1, VictimIsLowest
  <2>3. Denials!Room = rest
    BY <1>3 DEF Denials!Room
  <2> HIDE DEF v
  <2>4. /\ rest \in Seq(Row) /\ Len(rest) = Len(rows) - 1
        /\ \A i \in 1..(Len(rows) - 1) : rest[i] = IF i < v THEN rows[i] ELSE rows[i + 1]
    BY <2>2, RemovedAt DEF RowsTyped
  <2> HIDE DEF rest
  <2>5. DOMAIN rest = 1..(Len(rows) - 1)
    BY <2>4
  <2>6. \A i \in DOMAIN rest : \E j \in DOMAIN rows : rest[i] = rows[j]
    BY <1>1, <2>4, <2>5
  <2>7. \A i, j \in DOMAIN rest : rest[i].key = rest[j].key => i = j
    <3> DEFINE at(i) == IF i < v THEN i ELSE i + 1
    <3>1. \A i \in DOMAIN rest : at(i) \in DOMAIN rows /\ rest[i] = rows[at(i)]
      BY <1>1, <2>2, <2>4, <2>5
    <3>2. \A i, j \in DOMAIN rest : at(i) = at(j) => i = j
      BY <1>1, <2>2, <2>5
    <3> HIDE DEF at
    <3> QED
      BY <3>1, <3>2 DEF RowsTyped
  <2>8. ASSUME NEW i \in DOMAIN rows, NEW j \in DOMAIN rows, rows[i].count > rows[j].count
        PROVE  \E k \in DOMAIN rest : rest[k] = rows[i]
    <3>1. \A n \in DOMAIN rows : rows[n].count \in Nat
      BY RowType
    <3>2. i # v
      BY <1>1, <2>2, <2>8, <3>1
    <3>3. CASE i < v
      BY <1>1, <2>2, <2>4, <2>5, <3>3
    <3>4. CASE i > v
      <4>1. i - 1 \in DOMAIN rest /\ rest[i - 1] = rows[i]
        BY <1>1, <2>2, <2>4, <2>5, <3>4
      <4> QED BY <4>1
    <3> QED BY <1>1, <2>2, <3>2, <3>3, <3>4
  <2> QED
    BY <1>1, <1>3, <2>1, <2>3, <2>4, <2>6, <2>7, <2>8
<1> QED
  BY <1>2, <1>3

(* A denial of a kind, as it is recorded.                                    *)
OneMore(key) ==
  /\ recorded' \in [Denials!RowKeys -> Nat]
  /\ \A other \in Denials!RowKeys :
       recorded'[other] = IF other = key THEN recorded[other] + 1 ELSE recorded[other]

(* What was recorded then.                                                   *)
LEMMA MoreRecorded ==
  ASSUME DenialsInv, NEW key \in Denials!RowKeys, OneMore(key)
  PROVE  /\ Recorded' = Recorded \cup {key}
         /\ IsFiniteSet(Recorded') /\ Cardinality(Recorded) <= Cardinality(Recorded')
<1>1. recorded \in [Denials!RowKeys -> Nat] /\ IsFiniteSet(Recorded)
  BY DEF DenialsInv, RowsTyped, CountsHonest
<1>2. /\ recorded' \in [Denials!RowKeys -> Nat]
      /\ \A other \in Denials!RowKeys :
           recorded'[other] = IF other = key THEN recorded[other] + 1 ELSE recorded[other]
  BY DEF OneMore
<1>3. Recorded' = Recorded \cup {key}
  BY <1>1, <1>2 DEF Recorded
<1>4. IsFiniteSet(Recorded') /\ Cardinality(Recorded) <= Cardinality(Recorded')
  <2>1. IsFiniteSet(Recorded \cup {key})
    BY <1>1, FS_AddElement
  <2>2. Cardinality(Recorded) <= Cardinality(Recorded \cup {key})
    BY <2>1, FS_Subset
  <2> QED BY <1>3, <2>1, <2>2
<1> QED
  BY <1>2, <1>3, <1>4

(* A full log with one more kind to come has seen more kinds than it holds.  *)
LEMMA TooManyKinds ==
  ASSUME DenialsInv, Denials!Full, NEW key \in Denials!RowKeys,
         \A i \in DOMAIN rows : rows[i].key # key
  PROVE  ~(Cardinality(Recorded \cup {key}) <= MaxRows)
<1> DEFINE kind == [i \in 1..(Len(rows) + 1) |-> IF i <= Len(rows) THEN rows[i].key ELSE key]
<1>1. Len(rows) \in Nat /\ DOMAIN rows = 1..Len(rows) /\ MaxRows \in Nat
  BY DenialsAssumptions DEF DenialsInv, RowsTyped, Denials!BoundsAssumption
<1>2. \A i \in DOMAIN rows : rows[i].key \in Recorded
  <2> SUFFICES ASSUME NEW i \in DOMAIN rows
               PROVE  rows[i].key \in Recorded
    OBVIOUS
  <2>1. /\ rows[i].key \in Denials!RowKeys /\ rows[i].count \in Nat /\ rows[i].count > 0
        /\ rows[i].count <= recorded[rows[i].key] /\ recorded[rows[i].key] \in Nat
    BY RowType DEF DenialsInv, RowsTyped, CountsHonest
  <2> QED
    BY <2>1 DEF Recorded
<1>3. kind \in Injection(1..(Len(rows) + 1), Recorded \cup {key})
  <2>1. kind \in [1..(Len(rows) + 1) -> Recorded \cup {key}]
    BY <1>1, <1>2
  <2>2. ASSUME NEW i \in 1..(Len(rows) + 1), NEW j \in 1..(Len(rows) + 1), kind[i] = kind[j]
        PROVE  i = j
    BY <1>1, <2>2 DEF DenialsInv, RowsTyped
  <2> QED
    BY <2>1, <2>2 DEF Injection, IsInjective
<1>4. IsFiniteSet(Recorded \cup {key})
  BY FS_AddElement DEF DenialsInv, CountsHonest
<1> HIDE DEF kind
<1>5. /\ Cardinality(1..(Len(rows) + 1)) <= Cardinality(Recorded \cup {key})
      /\ Cardinality(Recorded \cup {key}) \in Nat
  BY <1>3, <1>4, FS_Injection, FS_CardinalityType
<1>6. Cardinality(1..(Len(rows) + 1)) = Len(rows) + 1
  BY <1>1, FS_Interval
<1>7. Len(rows) >= MaxRows
  BY DEF Denials!Full
<1>8. \A l, m, c \in Nat : l + 1 <= c /\ l >= m => ~(c <= m)
  OBVIOUS
<1> QED
  BY <1>1, <1>5, <1>6, <1>7, <1>8
(* The log starts so.                                                        *)
LEMMA DenialsInvInit == ASSUME Denials!Init PROVE DenialsInv
<1>1. now = 0 /\ rows = <<>> /\ recorded = [key \in Denials!RowKeys |-> 0]
  BY DEF Denials!Init
<1>2. RowsTyped
  BY <1>1, DenialsAssumptions DEF RowsTyped, Denials!BoundsAssumption
<1>3. Recorded = {}
  BY <1>1 DEF Recorded
<1>4. CountsHonest
  BY <1>1, <1>3, FS_EmptySet DEF CountsHonest
<1> QED
  BY <1>2, <1>4 DEF DenialsInv

(* A row that counts one more.                                               *)
CountedOnce(at) ==
  /\ rows' \in Seq(Row) /\ Len(rows') = Len(rows)
  /\ \A i \in DOMAIN rows :
       /\ rows'[i].key = rows[i].key
       /\ rows'[i].count = IF i = at THEN rows[i].count + 1 ELSE rows[i].count

(* A row of the kind is there, and counts one more.                          *)
LEMMA CountedAgain ==
  ASSUME DenialsInv, NEW key \in Denials!RowKeys, NEW at \in DOMAIN rows, rows[at].key = key,
         OneMore(key), CountedOnce(at), now' = now
  PROVE  DenialsInv' /\ \A i \in DOMAIN rows : i \in DOMAIN rows' /\ rows'[i].key = rows[i].key
<1>1. /\ Len(rows) \in Nat /\ DOMAIN rows = 1..Len(rows) /\ now \in 0..DenialsNow
      /\ \A i, j \in DOMAIN rows : rows[i].key = rows[j].key => i = j
  BY DEF DenialsInv, RowsTyped
<1>3. \A i \in DOMAIN rows :
        /\ rows'[i].key = rows[i].key
        /\ rows'[i].count = IF i = at THEN rows[i].count + 1 ELSE rows[i].count
  BY DEF CountedOnce
<1>4. rows' \in Seq(Row) /\ Len(rows') = Len(rows) /\ DOMAIN rows' = DOMAIN rows
  BY <1>1 DEF CountedOnce
<1>5. /\ recorded' \in [Denials!RowKeys -> Nat]
      /\ Recorded' = Recorded \cup {key} /\ IsFiniteSet(Recorded')
      /\ \A other \in Denials!RowKeys :
           recorded'[other] = IF other = key THEN recorded[other] + 1 ELSE recorded[other]
  BY MoreRecorded DEF OneMore
<1>6. RowsTyped'
  BY <1>1, <1>3, <1>4, <1>5 DEF RowsTyped, DenialsInv
<1>7. CountsHonest'
  <2>1. ASSUME NEW i \in DOMAIN rows
        PROVE  rows'[i].count <= recorded'[rows'[i].key]
    <3>1. /\ rows[i].key \in Denials!RowKeys /\ rows[i].count \in Nat
          /\ rows[i].count <= recorded[rows[i].key] /\ recorded[rows[i].key] \in Nat
      BY RowType DEF DenialsInv, RowsTyped, CountsHonest
    <3>2. rows[i].key = key <=> i = at
      BY DEF DenialsInv, RowsTyped
    <3> QED BY <1>3, <1>5, <3>1, <3>2
  <2>2. key \in Recorded
    <3>1. rows[at].count > 0 /\ rows[at].count \in Nat /\ rows[at].count <= recorded[key] /\ recorded[key] \in Nat
      BY RowType DEF DenialsInv, RowsTyped, CountsHonest
    <3> QED BY <3>1 DEF Recorded
  <2>3. Recorded' = Recorded
    BY <1>5, <2>2
  <2>4. ASSUME Cardinality(Recorded) <= MaxRows, NEW other \in Recorded
        PROVE  \E i \in DOMAIN rows : rows'[i].key = other /\ rows'[i].count = recorded'[other]
    <3>1. PICK i \in DOMAIN rows : rows[i].key = other /\ rows[i].count = recorded[other]
      BY <2>4 DEF DenialsInv, CountsHonest
    <3>2. i = at <=> other = key
      BY <3>1 DEF DenialsInv, RowsTyped
    <3>3. other \in Denials!RowKeys
      BY DEF Recorded
    <3> QED BY <1>3, <1>5, <3>1, <3>2, <3>3
  <2> QED
    BY <1>4, <1>5, <2>1, <2>3, <2>4 DEF CountsHonest
<1> QED
  BY <1>3, <1>4, <1>6, <1>7 DEF DenialsInv

(* A kind without a row gets one, if need be in place of another.            *)
LEMMA CountedFirst ==
  ASSUME DenialsInv, NEW key \in Denials!RowKeys, \A i \in DOMAIN rows : rows[i].key # key,
         NEW row \in Row, row.key = key, row.count = 1,
         OneMore(key), rows' = Append(Denials!Room, row), now' = now
  PROVE  /\ DenialsInv'
         /\ \A i, j \in DOMAIN rows : rows[i].count > rows[j].count =>
              \E k \in DOMAIN rows' : rows'[k].key = rows[i].key
<1> DEFINE room == Denials!Room
<1>1. /\ room \in Seq(Row) /\ Len(room) < MaxRows
      /\ \A i, j \in DOMAIN room : room[i].key = room[j].key => i = j
      /\ \A i \in DOMAIN room : \E j \in DOMAIN rows : room[i] = rows[j]
      /\ ~Denials!Full => room = rows
      /\ \A i, j \in DOMAIN rows : rows[i].count > rows[j].count =>
           \E k \in DOMAIN room : room[k] = rows[i]
  BY RoomForOne DEF DenialsInv
<1>2. row.key = key /\ row.count = 1
  OBVIOUS
<1>3. rows' = Append(room, row)
  OBVIOUS
<1> HIDE DEF room
<1>4. /\ rows' \in Seq(Row) /\ Len(rows') = Len(room) + 1
      /\ \A i \in 1..Len(room) : rows'[i] = room[i]
      /\ rows'[Len(room) + 1] = row
  BY <1>1, <1>2, <1>3, AppendProperties
<1>5. Len(room) \in Nat /\ DOMAIN room = 1..Len(room) /\ DOMAIN rows' = 1..(Len(room) + 1)
  BY <1>1, <1>4
<1>6. /\ recorded' \in [Denials!RowKeys -> Nat]
      /\ Recorded' = Recorded \cup {key} /\ IsFiniteSet(Recorded')
      /\ Cardinality(Recorded) <= Cardinality(Recorded')
      /\ \A other \in Denials!RowKeys :
           recorded'[other] = IF other = key THEN recorded[other] + 1 ELSE recorded[other]
  BY MoreRecorded DEF OneMore
<1>7. \A i \in DOMAIN room : room[i].key # key
  BY <1>1
<1>8. RowsTyped'
  <2>1. \A i, j \in DOMAIN rows' : rows'[i].key = rows'[j].key => i = j
    BY <1>1, <1>2, <1>4, <1>5, <1>7
  <2>2. Len(rows') <= MaxRows /\ now' \in 0..DenialsNow
    BY <1>1, <1>4, <1>5, DenialsAssumptions DEF Denials!BoundsAssumption, DenialsInv, RowsTyped
  <2> QED
    BY <1>4, <1>6, <2>1, <2>2 DEF RowsTyped
<1>9. CountsHonest'
  <2>1. ASSUME NEW i \in DOMAIN rows'
        PROVE  rows'[i].count <= recorded'[rows'[i].key]
    <3>1. CASE i = Len(room) + 1
      <4>1. recorded[key] \in Nat /\ recorded'[key] = recorded[key] + 1
        BY <1>6 DEF DenialsInv, RowsTyped
      <4> QED BY <1>2, <1>4, <3>1, <4>1
    <3>2. CASE i \in DOMAIN room
      <4>1. PICK j \in DOMAIN rows : room[i] = rows[j]
        BY <1>1, <3>2
      <4>2. /\ rows[j].key \in Denials!RowKeys /\ rows[j].key # key
            /\ rows[j].count <= recorded[rows[j].key]
        BY RowType DEF DenialsInv, CountsHonest
      <4> QED BY <1>4, <1>5, <1>6, <3>2, <4>1, <4>2
    <3> QED BY <1>5, <3>1, <3>2
  <2>2. ASSUME Cardinality(Recorded') <= MaxRows, NEW other \in Recorded'
        PROVE  \E i \in DOMAIN rows' : rows'[i].key = other /\ rows'[i].count = recorded'[other]
    <3>1. ~Denials!Full /\ room = rows
      BY <1>1, <1>6, <2>2, TooManyKinds
    <3>2. Cardinality(Recorded) <= MaxRows
      <4>1. Cardinality(Recorded) \in Nat /\ Cardinality(Recorded') \in Nat /\ MaxRows \in Nat
        BY <1>6, FS_CardinalityType, DenialsAssumptions
           DEF DenialsInv, CountsHonest, Denials!BoundsAssumption
      <4> QED BY <1>6, <2>2, <4>1
    <3>3. \A known \in Recorded : \E i \in DOMAIN rows :
            rows[i].key = known /\ rows[i].count = recorded[known]
      BY <3>2 DEF DenialsInv, CountsHonest
    <3>4. CASE other = key
      <4>1. key \notin Recorded
        BY <3>3
      <4>2. recorded[key] = 0
        BY <4>1 DEF Recorded, DenialsInv, RowsTyped
      <4>3. recorded'[key] = 1
        BY <1>6, <4>2
      <4>4. Len(room) + 1 \in DOMAIN rows'
        BY <1>5
      <4> QED BY <1>2, <1>4, <3>4, <4>3, <4>4
    <3>5. CASE other # key
      <4>1. other \in Recorded /\ other \in Denials!RowKeys
        BY <1>6, <2>2, <3>5 DEF Recorded
      <4>2. PICK i \in DOMAIN rows : rows[i].key = other /\ rows[i].count = recorded[other]
        BY <3>3, <4>1
      <4>3. i \in DOMAIN rows' /\ rows'[i] = rows[i]
        BY <1>4, <1>5, <3>1, <4>2
      <4> QED BY <1>6, <3>5, <4>1, <4>2, <4>3
    <3> QED BY <3>4, <3>5
  <2> QED
    BY <1>6, <2>1, <2>2 DEF CountsHonest
<1>10. ASSUME NEW i \in DOMAIN rows, NEW j \in DOMAIN rows, rows[i].count > rows[j].count
       PROVE  \E k \in DOMAIN rows' : rows'[k].key = rows[i].key
  <2>1. PICK k \in DOMAIN room : room[k] = rows[i]
    BY <1>1, <1>10
  <2> QED BY <1>4, <1>5, <2>1
<1> QED
  BY <1>8, <1>9, <1>10 DEF DenialsInv
(* record() counts the denial, in its row or in a new one.                   *)
LEMMA RecordKept ==
  ASSUME DenialsInv, NEW client \in Clients, NEW channelName \in DeniedChannels,
         NEW reason \in Reasons, Denials!Record(client, channelName, reason)
  PROVE  DenialsInv' /\ Denials!FrequentRowsStay
<1> DEFINE key == <<client, Denials!ChannelPrefix(channelName), reason>>
<1>1. key \in Denials!RowKeys
  <2>1. Denials!ChannelPrefix(channelName) \in Denials!RowPrefixes
    BY DEF Denials!ChannelPrefix, Denials!RowPrefixes
  <2> QED BY <2>1 DEF Denials!RowKeys
<1>2. /\ recorded' = [recorded EXCEPT ![key] = @ + 1] /\ now' = now
      /\ Denials!RowsOf(key) # {} =>
           rows' = [i \in DOMAIN rows |->
                     IF i \in Denials!RowsOf(key)
                       THEN [key |-> key, count |-> rows[i].count + 1, lastAt |-> now] ELSE rows[i]]
      /\ Denials!RowsOf(key) = {} =>
           rows' = Append(Denials!Room, [key |-> key, count |-> 1, lastAt |-> now])
  BY DEF Denials!Record, Denials!FirstCount
<1> HIDE DEF key
<1>3. OneMore(key)
  <2>1. recorded \in [Denials!RowKeys -> Nat]
    BY DEF DenialsInv, RowsTyped
  <2>2. recorded' = [recorded EXCEPT ![key] = @ + 1]
    BY <1>2
  <2> QED BY <1>1, <2>1, <2>2 DEF OneMore
<1>4. CASE Denials!RowsOf(key) # {}
  <2>1. PICK at \in DOMAIN rows : rows[at].key = key
    BY <1>4 DEF Denials!RowsOf
  <2>2. \A i \in DOMAIN rows : i \in Denials!RowsOf(key) <=> i = at
    BY <2>1 DEF Denials!RowsOf, DenialsInv, RowsTyped
  <2> DEFINE counted(i) == [key |-> key, count |-> rows[i].count + 1, lastAt |-> now]
  <2>3. \A i \in DOMAIN rows : rows'[i] = IF i = at THEN counted(i) ELSE rows[i]
    BY <1>2, <1>4, <2>2
  <2>4. ASSUME NEW i \in DOMAIN rows
        PROVE  /\ rows[i] \in Row /\ counted(i) \in Row
               /\ counted(i).key = key /\ counted(i).count = rows[i].count + 1
    <3>1. rows[i] \in Row /\ rows[i].count + 1 \in Nat \ {0} /\ now \in 0..DenialsNow
      BY RowType DEF DenialsInv, RowsTyped
    <3> QED BY <1>1, <3>1 DEF Row
  <2> HIDE DEF counted
  <2>5. Len(rows) \in Nat /\ DOMAIN rows = 1..Len(rows)
    BY DEF DenialsInv, RowsTyped
  <2>6. rows' = [i \in 1..Len(rows) |-> rows'[i]]
    BY <1>2, <1>4, <2>5
  <2>7. \A i \in 1..Len(rows) : rows'[i] \in Row
    BY <2>3, <2>4, <2>5
  <2>8. rows' \in Seq(Row) /\ Len(rows') = Len(rows)
    <3> DEFINE new == rows'
    <3>1. new \in [1..Len(rows) -> Row]
      BY <2>6, <2>7
    <3> HIDE DEF new
    <3>2. new \in Seq(Row) /\ Len(new) = Len(rows)
      BY <2>5, <3>1
    <3> QED BY <3>2 DEF new
  <2>9. CountedOnce(at)
    BY <2>1, <2>3, <2>4, <2>8 DEF CountedOnce
  <2>10. DenialsInv' /\ \A i \in DOMAIN rows : i \in DOMAIN rows' /\ rows'[i].key = rows[i].key
    BY <1>1, <1>2, <1>3, <2>1, <2>9, CountedAgain
  <2> QED
    BY <2>10 DEF Denials!FrequentRowsStay
<1>5. CASE Denials!RowsOf(key) = {}
  <2> DEFINE row == [key |-> key, count |-> 1, lastAt |-> now]
  <2>1. \A i \in DOMAIN rows : rows[i].key # key
    BY <1>5 DEF Denials!RowsOf
  <2>2. row \in Row /\ row.key = key /\ row.count = 1
    BY <1>1 DEF Row, DenialsInv, RowsTyped
  <2>3. rows' = Append(Denials!Room, row) /\ now' = now
    BY <1>2, <1>5
  <2> HIDE DEF row
  <2> QED
    BY <1>1, <1>3, <2>1, <2>2, <2>3, CountedFirst DEF Denials!FrequentRowsStay
<1> QED
  BY <1>4, <1>5

(* Every step does, and a row that is not the rarest stays.                  *)
LEMMA DenialsInvStep ==
  ASSUME DenialsInv, [Denials!Next]_<<now, denialVars>>
  PROVE  DenialsInv' /\ Denials!FrequentRowsStay
<1>1. CASE \E client \in Clients, channelName \in DeniedChannels, reason \in Reasons :
              Denials!Record(client, channelName, reason)
  BY <1>1, RecordKept
<1>2. ASSUME UNCHANGED <<rows, recorded>>, now' \in 0..DenialsNow
      PROVE  DenialsInv' /\ Denials!FrequentRowsStay
  <2>1. Recorded' = Recorded
    BY <1>2 DEF Recorded
  <2> QED
    BY <1>2, <2>1 DEF DenialsInv, RowsTyped, CountsHonest, Denials!FrequentRowsStay
<1>3. CASE Denials!Tick
  <2>1. now \in 0..DenialsNow /\ DenialsNow \in Nat
    BY DenialsAssumptions DEF DenialsInv, RowsTyped, Denials!BoundsAssumption
  <2> QED BY <1>2, <1>3, <2>1 DEF Denials!Tick
<1>4. CASE UNCHANGED <<now, denialVars>>
  BY <1>2, <1>4 DEF denialVars, DenialsInv, RowsTyped
<1>5. CASE Denials!ReadTop
  BY <1>2, <1>5 DEF Denials!ReadTop, Denials!vars, DenialsInv, RowsTyped
<1> QED
  BY <1>1, <1>3, <1>4, <1>5 DEF Denials!Next

(* So no count says more than happened (denials.js).                         *)
LEMMA DenialsKept ==
  ASSUME DenialsInv
  PROVE  Denials!TypeOK /\ Denials!CountsAreHonest
<1>1. Denials!TypeOK
  BY DEF DenialsInv, RowsTyped, Row, Denials!TypeOK
<1>2. ASSUME Cardinality(Recorded) <= MaxRows, NEW key \in Denials!RowKeys, recorded[key] > 0
      PROVE  \E i \in DOMAIN rows : rows[i] = [key |-> key, count |-> recorded[key],
                                              lastAt |-> rows[i].lastAt]
  <2>1. key \in Recorded
    BY <1>2 DEF Recorded
  <2>2. PICK i \in DOMAIN rows : rows[i].key = key /\ rows[i].count = recorded[key]
    BY <1>2, <2>1 DEF DenialsInv, CountsHonest
  <2>3. rows[i] \in Row
    BY RowType DEF DenialsInv
  <2> QED
    BY <2>2, <2>3 DEF Row
<1>3. Denials!CountsAreHonest
  <2>1. \A i \in DOMAIN rows : rows[i].count <= recorded[rows[i].key]
    BY DEF DenialsInv, CountsHonest
  <2> QED
    BY <1>2, <2>1 DEF Denials!CountsAreHonest, Recorded, Cardinality, Denials!Cardinality
<1> QED
  BY <1>1, <1>3

-----------------------------------------------------------------------------
(* The cache: of any size, for any keys, values and lifetimes, under any     *)
(* sequence of calls.                                                        *)
CacheBounds == Cache!MaxAssumption /\ Cache!TtlAssumption /\ Cache!ValuesAssumption

CacheEntry == [key : Keys, value : Values, expiresAt : 1..(CacheNow + MaxTtl)]

(* No two entries have the same key, as in a Map.                            *)
Distinct(s) == \A i, j \in DOMAIN s : s[i].key = s[j].key => i = j

CacheTyped ==
  /\ now \in 0..CacheNow
  /\ entries \in Seq(CacheEntry) /\ Len(entries) <= MaxEntries
  /\ result \in [key : Keys \cup {"none"}, value : Values \cup {Cache!Miss}]
  /\ lastSet \in [Keys -> [value : Values \cup {Cache!Miss}, expiresAt : 0..(CacheNow + MaxTtl)]]
  /\ since \in [Keys -> SUBSET Keys]
  /\ \A k \in Keys : IsFiniteSet(since[k])

(* An entry is what was set last for its key.                                *)
AsSet(s, last) ==
  \A i \in DOMAIN s :
    last[s[i].key].value = s[i].value /\ last[s[i].key].expiresAt = s[i].expiresAt

(* What comes later among the entries was used later.                        *)
InOrderOfUse(s, after) ==
  \A i, j \in DOMAIN s : i < j => s[j].key \in after[s[i].key]

(* A key with time left is gone only if enough others were used after it.    *)
GivenUp(s, last, after, time) ==
  \A k \in Keys :
    last[k].expiresAt > time /\ ~Cache!Has(s, k) => Cardinality(after[k]) >= MaxEntries

CacheInv ==
  /\ CacheTyped /\ Distinct(entries)
  /\ AsSet(entries, lastSet) /\ InOrderOfUse(entries, since)
  /\ GivenUp(entries, lastSet, since, now)
-----------------------------------------------------------------------------
(* The bounds are natural numbers.                                           *)
LEMMA CacheBoundTypes ==
  ASSUME CacheBounds
  PROVE  /\ MaxEntries \in Nat /\ MaxEntries > 0 /\ MaxTtl \in Nat /\ CacheNow \in Nat
         /\ Cache!Miss \notin Values
BY DEF CacheBounds, Cache!MaxAssumption, Cache!TtlAssumption, Cache!ValuesAssumption, Cache!Miss

(* The entry found for a key is an entry, and that key's.                    *)
LEMMA EntryOfKey ==
  ASSUME NEW s, NEW key, Cache!Has(s, key)
  PROVE  /\ Cache!Position(s, key) \in DOMAIN s
         /\ Cache!EntryOf(s, key) = s[Cache!Position(s, key)]
         /\ Cache!EntryOf(s, key).key = key
BY DEF Cache!Has, Cache!Position, Cache!EntryOf

(* Without a key the others keep their order and close ranks.                *)
LEMMA WithoutAKey ==
  ASSUME NEW S, NEW s \in Seq(S), NEW key, Cache!Has(s, key)
  PROVE  /\ Cache!Without(s, key) \in Seq(S)
         /\ Len(Cache!Without(s, key)) = Len(s) - 1
         /\ \A i \in 1..(Len(s) - 1) :
              Cache!Without(s, key)[i] =
                IF i < Cache!Position(s, key) THEN s[i] ELSE s[i + 1]
<1> DEFINE p == Cache!Position(s, key)
           before == SubSeq(s, 1, p - 1)
           after == SubSeq(s, p + 1, Len(s))
<1>1. p \in 1..Len(s)
  BY EntryOfKey
<1>2. Cache!Without(s, key) = before \o after
  BY DEF Cache!Without
<1> HIDE DEF p
<1>3. /\ before \in Seq(S) /\ Len(before) = p - 1
      /\ \A i \in 1..(p - 1) : before[i] = s[i]
  <2>1. \A i \in 1..(p - 1) : s[i] \in S
    BY <1>1, ElementOfSeq
  <2>2. 1 \in Int /\ p - 1 \in Int
    BY <1>1
  <2> QED
    BY <1>1, <2>1, <2>2, SubSeqProperties
<1>4. /\ after \in Seq(S) /\ Len(after) = Len(s) - p
      /\ \A i \in 1..(Len(s) - p) : after[i] = s[p + i]
  <2>1. \A i \in (p + 1)..Len(s) : s[i] \in S
    BY <1>1, ElementOfSeq
  <2>2. p + 1 \in Int /\ Len(s) \in Int
    BY <1>1
  <2> QED
    BY <1>1, <2>1, <2>2, SubSeqProperties
<1> HIDE DEF before, after
<1>5. /\ before \o after \in Seq(S)
      /\ Len(before \o after) = Len(before) + Len(after)
      /\ \A i \in 1..(Len(before) + Len(after)) :
           (before \o after)[i] = IF i <= Len(before) THEN before[i]
                                  ELSE after[i - Len(before)]
  BY <1>3, <1>4, ConcatProperties
<1> QED
  BY <1>1, <1>2, <1>3, <1>4, <1>5 DEF p

(* Of entries with keys of their own, those without a key are the others, in *)
(* their order.                                                              *)
LEMMA WithoutKeepsOthers ==
  ASSUME NEW S, NEW s \in Seq(S), Distinct(s), NEW key
  PROVE  LET rest == Cache!Without(s, key) IN
         /\ rest \in Seq(S) /\ Len(rest) <= Len(s)
         /\ \A i, j \in 1..Len(rest) : i < j =>
              \E m, n \in 1..Len(s) :
                m < n /\ rest[i] = s[m] /\ rest[j] = s[n]
         /\ \A i \in 1..Len(rest) :
              \E m \in 1..Len(s) : rest[i] = s[m] /\ rest[i].key # key
         /\ \A m \in 1..Len(s) : s[m].key # key =>
              \E i \in 1..Len(rest) : rest[i] = s[m]
<1> DEFINE rest == Cache!Without(s, key)
           p == Cache!Position(s, key)
<1>1. CASE ~Cache!Has(s, key)
  <2>1. rest = s
    BY <1>1 DEF Cache!Without
  <2>2. \A m \in 1..Len(s) : s[m].key # key
    BY <1>1 DEF Cache!Has
  <2> HIDE DEF rest
  <2>3. rest \in Seq(S) /\ Len(rest) <= Len(s)
    BY <2>1
  <2>4. \A i, j \in 1..Len(rest) : i < j =>
          \E m, n \in 1..Len(s) :
            m < n /\ rest[i] = s[m] /\ rest[j] = s[n]
    BY <2>1
  <2> QED
    BY <2>1, <2>2, <2>3, <2>4 DEF rest
<1>2. CASE Cache!Has(s, key)
  <2>1. /\ rest \in Seq(S) /\ Len(rest) = Len(s) - 1
        /\ \A i \in 1..(Len(s) - 1) :
             rest[i] = IF i < p THEN s[i] ELSE s[i + 1]
    BY <1>2, WithoutAKey
  <2>2. p \in 1..Len(s) /\ s[p].key = key
    BY <1>2, EntryOfKey
  <2>3. \A m \in 1..Len(s) : s[m].key = key => m = p
    BY <2>2 DEF Distinct
  <2> HIDE DEF rest, p
  <2> DEFINE from(i) == IF i < p THEN i ELSE i + 1
             to(m) == IF m < p THEN m ELSE m - 1
  <2>4. \A i \in 1..Len(rest) :
          from(i) \in 1..Len(s) /\ from(i) # p /\ rest[i] = s[from(i)]
    BY <2>1, <2>2
  <2>5. \A i, j \in 1..Len(rest) : i < j => from(i) < from(j)
    BY <2>1, <2>2
  <2>6. \A m \in 1..Len(s) : m # p => to(m) \in 1..Len(rest) /\ rest[to(m)] = s[m]
    BY <2>1, <2>2
  <2> HIDE DEF from, to
  <2>7. \A i, j \in 1..Len(rest) : i < j =>
          \E m, n \in 1..Len(s) :
            m < n /\ rest[i] = s[m] /\ rest[j] = s[n]
    BY <2>4, <2>5
  <2>8. \A i \in 1..Len(rest) :
          \E m \in 1..Len(s) : rest[i] = s[m] /\ rest[i].key # key
    BY <2>3, <2>4
  <2>9. \A m \in 1..Len(s) : s[m].key # key =>
          \E i \in 1..Len(rest) : rest[i] = s[m]
    BY <2>2, <2>6
  <2>10. Len(rest) <= Len(s)
    BY <2>1
  <2> QED
    BY <2>1, <2>7, <2>8, <2>9, <2>10 DEF rest
<1> QED
  BY <1>1, <1>2

(* Without a key the others are as they were set, and in their order of use, *)
(* whatever becomes of the key.                                              *)
LEMMA RestInOrder ==
  ASSUME NEW s \in Seq(CacheEntry), Distinct(s), NEW key, NEW last, NEW after, NEW last2,
         AsSet(s, last), InOrderOfUse(s, after),
         \A k \in Keys \ {key} : last2[k] = last[k]
  PROVE  LET rest == Cache!Without(s, key) IN
         /\ rest \in Seq(CacheEntry) /\ Len(rest) <= Len(s)
         /\ Distinct(rest) /\ ~Cache!Has(rest, key)
         /\ AsSet(rest, last2) /\ InOrderOfUse(rest, after)
         /\ \A k \in Keys \ {key} : Cache!Has(s, k) => Cache!Has(rest, k)
<1> DEFINE rest == Cache!Without(s, key)
<1>1. /\ rest \in Seq(CacheEntry) /\ Len(rest) <= Len(s)
      /\ \A i, j \in 1..Len(rest) : i < j =>
           \E m, n \in 1..Len(s) : m < n /\ rest[i] = s[m] /\ rest[j] = s[n]
      /\ \A i \in 1..Len(rest) :
           \E m \in 1..Len(s) : rest[i] = s[m] /\ rest[i].key # key
      /\ \A m \in 1..Len(s) : s[m].key # key => \E i \in 1..Len(rest) : rest[i] = s[m]
  BY WithoutKeepsOthers
<1> HIDE DEF rest
<1>2. DOMAIN rest = 1..Len(rest) /\ DOMAIN s = 1..Len(s)
  BY <1>1
<1>3. \A i \in 1..Len(s) : s[i] \in CacheEntry /\ s[i].key \in Keys
  <2>1. \A i \in 1..Len(s) : s[i] \in CacheEntry
    BY ElementOfSeq
  <2> QED
    BY <2>1 DEF CacheEntry
<1>4. Distinct(rest)
  <2>1. ASSUME NEW i \in 1..Len(rest), NEW j \in 1..Len(rest), i < j
        PROVE  rest[i].key # rest[j].key
    <3>1. PICK m \in 1..Len(s), n \in 1..Len(s) : m < n /\ rest[i] = s[m] /\ rest[j] = s[n]
      BY <1>1, <2>1
    <3> QED
      BY <1>2, <3>1 DEF Distinct
  <2>2. \A i, j \in 1..Len(rest) : i = j \/ i < j \/ j < i
    OBVIOUS
  <2>3. \A i, j \in 1..Len(rest) : rest[i].key = rest[j].key => i = j
    BY <2>1, <2>2
  <2> QED
    BY <1>2, <2>3 DEF Distinct
<1>5. ~Cache!Has(rest, key)
  BY <1>1, <1>2 DEF Cache!Has
<1>6. AsSet(rest, last2)
  <2> SUFFICES ASSUME NEW i \in 1..Len(rest)
               PROVE  /\ last2[rest[i].key].value = rest[i].value
                      /\ last2[rest[i].key].expiresAt = rest[i].expiresAt
    BY <1>2 DEF AsSet
  <2>1. PICK m \in 1..Len(s) : rest[i] = s[m] /\ rest[i].key # key
    BY <1>1
  <2> QED
    BY <1>2, <1>3, <2>1 DEF AsSet
<1>7. InOrderOfUse(rest, after)
  <2> SUFFICES ASSUME NEW i \in 1..Len(rest), NEW j \in 1..Len(rest), i < j
               PROVE  rest[j].key \in after[rest[i].key]
    BY <1>2 DEF InOrderOfUse
  <2>1. PICK m \in 1..Len(s), n \in 1..Len(s) : m < n /\ rest[i] = s[m] /\ rest[j] = s[n]
    BY <1>1
  <2> QED
    BY <1>2, <2>1 DEF InOrderOfUse
<1>8. ASSUME NEW k \in Keys \ {key}, Cache!Has(s, k)
      PROVE  Cache!Has(rest, k)
  <2>1. PICK m \in 1..Len(s) : s[m].key = k
    BY <1>2, <1>8 DEF Cache!Has
  <2>2. PICK i \in 1..Len(rest) : rest[i] = s[m]
    BY <1>1, <2>1
  <2> QED
    BY <1>2, <2>1, <2>2 DEF Cache!Has
<1> QED
  BY <1>1, <1>4, <1>5, <1>6, <1>7, <1>8 DEF rest

(* A key that is set or hit comes last, after every other key.               *)
LEMMA LastInOrder ==
  ASSUME NEW rest \in Seq(CacheEntry), Distinct(rest), NEW key \in Keys, ~Cache!Has(rest, key),
         NEW last, AsSet(rest, last), InOrderOfUse(rest, since),
         NEW e \in CacheEntry, e.key = key,
         last[key].value = e.value, last[key].expiresAt = e.expiresAt
  PROVE  LET all == Append(rest, e) IN
         /\ all \in Seq(CacheEntry) /\ Len(all) = Len(rest) + 1
         /\ Distinct(all) /\ AsSet(all, last) /\ InOrderOfUse(all, Cache!Touch(key))
         /\ Cache!Has(all, key) /\ \A k \in Keys : Cache!Has(rest, k) => Cache!Has(all, k)
<1> DEFINE all == Append(rest, e)
           n == Len(rest)
<1>1. /\ all \in Seq(CacheEntry) /\ Len(all) = n + 1 /\ n \in Nat
      /\ \A i \in 1..n : all[i] = rest[i]
      /\ all[n + 1] = e
  BY AppendProperties
<1>2. DOMAIN all = 1..(n + 1) /\ DOMAIN rest = 1..n
  BY <1>1
<1> HIDE DEF all, n
<1>3. \A i \in 1..n : rest[i].key \in Keys /\ rest[i].key # key
  <2>1. \A i \in 1..n : rest[i] \in CacheEntry
    BY <1>2, ElementOfSeq DEF n
  <2> QED
    BY <1>2, <2>1 DEF Cache!Has, CacheEntry
<1>4. Distinct(all)
  BY <1>1, <1>2, <1>3 DEF Distinct
<1>5. AsSet(all, last)
  BY <1>1, <1>2 DEF AsSet
<1>6. InOrderOfUse(all, Cache!Touch(key))
  <2> SUFFICES ASSUME NEW i \in 1..n, NEW j \in 1..(n + 1), i < j
               PROVE  all[j].key \in Cache!Touch(key)[all[i].key]
    BY <1>1, <1>2 DEF InOrderOfUse
  <2>1. /\ all[i] = rest[i] /\ rest[i].key \in Keys
        /\ Cache!Touch(key)[rest[i].key] = since[rest[i].key] \cup {key}
    BY <1>1, <1>3 DEF Cache!Touch
  <2>2. CASE j = n + 1
    BY <1>1, <2>1, <2>2
  <2>3. CASE j \in 1..n
    BY <1>1, <1>2, <2>1, <2>3 DEF InOrderOfUse
  <2> QED
    BY <1>1, <2>2, <2>3
<1>7. Cache!Has(all, key) /\ \A k \in Keys : Cache!Has(rest, k) => Cache!Has(all, k)
  BY <1>1, <1>2 DEF Cache!Has
<1> QED
  BY <1>1, <1>4, <1>5, <1>6, <1>7 DEF all, n

(* What is evicted is the first, when as many as the cache keeps came after. *)
LEMMA EvictedInOrder ==
  ASSUME CacheBounds, NEW all \in Seq(CacheEntry), Len(all) <= MaxEntries + 1, Distinct(all),
         NEW last, AsSet(all, last),
         NEW after, InOrderOfUse(all, after), \A k \in Keys : IsFiniteSet(after[k])
  PROVE  LET kept == Cache!Evict(all) IN
         /\ kept \in Seq(CacheEntry) /\ Len(kept) <= MaxEntries
         /\ Distinct(kept) /\ AsSet(kept, last) /\ InOrderOfUse(kept, after)
         /\ \A k \in Keys : Cache!Has(all, k) /\ ~Cache!Has(kept, k) => Cardinality(after[k]) >= MaxEntries
<1> DEFINE kept == Cache!Evict(all)
<1>1. CASE Len(all) <= MaxEntries
  <2>1. kept = all
    BY <1>1, CacheBoundTypes DEF Cache!Evict
  <2> QED
    BY <1>1, <2>1
<1>2. CASE Len(all) = MaxEntries + 1
  <2>1. kept = SubSeq(all, 2, Len(all))
    BY <1>2, CacheBoundTypes DEF Cache!Evict
  <2>2. \A i \in 1..Len(all) : all[i] \in CacheEntry
    BY ElementOfSeq
  <2>3. /\ kept \in Seq(CacheEntry) /\ Len(kept) = MaxEntries
        /\ \A i \in 1..MaxEntries : kept[i] = all[i + 1]
    BY <1>2, <2>1, <2>2, CacheBoundTypes, SubSeqProperties
  <2>4. DOMAIN kept = 1..MaxEntries /\ DOMAIN all = 1..(MaxEntries + 1)
    BY <1>2, <2>3
  <2> HIDE DEF kept
  <2>5. Distinct(kept) /\ AsSet(kept, last) /\ InOrderOfUse(kept, after)
    <3>1. \A i \in 1..MaxEntries : i + 1 \in 1..(MaxEntries + 1)
      BY CacheBoundTypes
    <3>2. Distinct(kept)
      <4> SUFFICES ASSUME NEW i \in 1..MaxEntries, NEW j \in 1..MaxEntries, kept[i].key = kept[j].key PROVE i = j
        BY <2>4 DEF Distinct
      <4>1. i + 1 \in DOMAIN all /\ j + 1 \in DOMAIN all /\ all[i + 1].key = all[j + 1].key
        BY <2>3, <2>4, <3>1
      <4>2. i + 1 = j + 1
        BY <4>1 DEF Distinct
      <4> QED BY <4>2, CacheBoundTypes
    <3>3. AsSet(kept, last)
      BY <2>3, <2>4, <3>1 DEF AsSet
    <3>4. InOrderOfUse(kept, after)
      <4> SUFFICES ASSUME NEW i \in 1..MaxEntries, NEW j \in 1..MaxEntries, i < j
                   PROVE  kept[j].key \in after[kept[i].key]
        BY <2>4 DEF InOrderOfUse
      <4>1. i + 1 < j + 1 /\ i + 1 \in DOMAIN all /\ j + 1 \in DOMAIN all
        BY <2>4, <3>1
      <4> QED
        BY <2>3, <4>1 DEF InOrderOfUse
    <3> QED
      BY <3>2, <3>3, <3>4
  <2>6. ASSUME NEW k \in Keys, Cache!Has(all, k), ~Cache!Has(kept, k)
        PROVE  Cardinality(after[k]) >= MaxEntries
    <3>1. all[1].key = k
      <4>1. PICK i \in 1..(MaxEntries + 1) : all[i].key = k
        BY <2>4, <2>6 DEF Cache!Has
      <4>2. CASE i > 1
        <5>1. i - 1 \in 1..MaxEntries /\ kept[i - 1] = all[i]
          BY <2>3, <4>2, CacheBoundTypes
        <5> QED
          BY <2>4, <2>6, <4>1, <5>1 DEF Cache!Has
      <4> QED
        BY <4>1, <4>2
    <3> DEFINE f == [i \in 1..MaxEntries |-> all[i + 1].key]
    <3>2. \A i \in 1..MaxEntries : f[i] \in after[k]
      BY <2>4, <3>1, CacheBoundTypes DEF InOrderOfUse
    <3>3. \A i, j \in 1..MaxEntries : f[i] = f[j] => i = j
      BY <2>4, CacheBoundTypes DEF Distinct
    <3>4. f \in Injection(1..MaxEntries, after[k])
      BY <3>2, <3>3 DEF Injection, IsInjective
    <3>5. Cardinality(1..MaxEntries) <= Cardinality(after[k])
      BY <3>4, FS_Injection
    <3>6. Cardinality(1..MaxEntries) = MaxEntries
      BY CacheBoundTypes, FS_Interval
    <3>7. Cardinality(after[k]) \in Nat
      BY FS_CardinalityType
    <3> QED
      BY <3>5, <3>6, <3>7, CacheBoundTypes
  <2> QED
    BY <2>3, <2>5, <2>6, CacheBoundTypes DEF kept
<1> QED
  BY <1>1, <1>2, CacheBoundTypes, LenProperties
-----------------------------------------------------------------------------
(* Using a key forgets what was used since its last use, and adds it to what *)
(* was used since the others'.                                               *)
LEMMA TouchGrows ==
  ASSUME CacheTyped, NEW key \in Keys
  PROVE  /\ Cache!Touch(key) \in [Keys -> SUBSET Keys]
         /\ \A k \in Keys : IsFiniteSet(Cache!Touch(key)[k])
         /\ \A k \in Keys \ {key} : Cardinality(Cache!Touch(key)[k]) >= Cardinality(since[k])
<1>1. Cache!Touch(key) \in [Keys -> SUBSET Keys]
  BY DEF Cache!Touch, CacheTyped
<1>2. ASSUME NEW k \in Keys
      PROVE  /\ IsFiniteSet(Cache!Touch(key)[k])
             /\ k # key => Cardinality(Cache!Touch(key)[k]) >= Cardinality(since[k])
  <2>1. IsFiniteSet(since[k]) /\ Cardinality(since[k]) \in Nat
    BY FS_CardinalityType DEF CacheTyped
  <2>2. CASE k = key
    BY <2>2, FS_EmptySet DEF Cache!Touch
  <2>3. CASE k # key
    <3>1. Cache!Touch(key)[k] = since[k] \cup {key}
      BY <2>3 DEF Cache!Touch
    <3>2. /\ IsFiniteSet(since[k] \cup {key})
          /\ Cardinality(since[k] \cup {key})
               = IF key \in since[k] THEN Cardinality(since[k]) ELSE Cardinality(since[k]) + 1
      BY <2>1, FS_AddElement, Zenon
    <3>3. /\ IsFiniteSet(Cache!Touch(key)[k])
          /\ Cardinality(Cache!Touch(key)[k])
               = IF key \in since[k] THEN Cardinality(since[k]) ELSE Cardinality(since[k]) + 1
      BY <3>1, <3>2, Zenon
    <3> QED
      BY <2>1, <3>3
  <2> QED
    BY <2>2, <2>3
<1> QED
  BY <1>1, <1>2

(* An entry goes: its key was replaced, deleted or is over.                  *)
LEMMA GoingInOrder ==
  ASSUME CacheBounds, CacheInv, NEW key \in Keys, entries' = Cache!Without(entries, key),
         UNCHANGED <<now, since>>,
         lastSet' \in [Keys -> [value : Values \cup {Cache!Miss}, expiresAt : 0..(CacheNow + MaxTtl)]],
         \A k \in Keys \ {key} : lastSet'[k] = lastSet[k],
         \/ lastSet'[key].expiresAt <= now
         \/ lastSet'[key] = lastSet[key] /\ ~Cache!Has(entries, key),
         result' \in [key : Keys \cup {"none"}, value : Values \cup {Cache!Miss}]
  PROVE  CacheInv'
<1>1. /\ entries \in Seq(CacheEntry) /\ Distinct(entries) /\ Len(entries) <= MaxEntries
      /\ AsSet(entries, lastSet) /\ InOrderOfUse(entries, since)
  BY DEF CacheInv, CacheTyped
<1>2. /\ entries' \in Seq(CacheEntry) /\ Len(entries') <= Len(entries)
      /\ Distinct(entries') /\ ~Cache!Has(entries', key)
      /\ AsSet(entries', lastSet') /\ InOrderOfUse(entries', since)
      /\ \A k \in Keys \ {key} : Cache!Has(entries, k) => Cache!Has(entries', k)
  BY <1>1, RestInOrder
<1>3. CacheTyped'
  BY <1>1, <1>2, CacheBoundTypes, LenProperties DEF CacheInv, CacheTyped, CacheEntry
<1>4. GivenUp(entries', lastSet', since', now')
  <2> SUFFICES ASSUME NEW k \in Keys, lastSet'[k].expiresAt > now, ~Cache!Has(entries', k)
               PROVE  Cardinality(since[k]) >= MaxEntries
    BY DEF GivenUp
  <2>1. CASE k = key
    <3>1. lastSet'[key].expiresAt \in Nat /\ now \in Nat
      BY CacheBoundTypes DEF CacheInv, CacheTyped
    <3>2. lastSet'[key] = lastSet[key] /\ ~Cache!Has(entries, key)
      BY <2>1, <3>1
    <3> QED
      BY <2>1, <3>2 DEF CacheInv, GivenUp
  <2>2. CASE k # key
    BY <1>2, <2>2 DEF CacheInv, GivenUp
  <2> QED
    BY <2>1, <2>2
<1> QED
  BY <1>2, <1>3, <1>4 DEF CacheInv, Distinct, AsSet, InOrderOfUse, GivenUp, Cache!Has

(* An entry comes in at the recent end, or moves there.                      *)
LEMMA ComingInOrder ==
  ASSUME CacheBounds, CacheInv, NEW key \in Keys, NEW e \in CacheEntry, e.key = key,
         entries' = Cache!Evict(Append(Cache!Without(entries, key), e)),
         since' = Cache!Touch(key), now' = now,
         lastSet' \in [Keys -> [value : Values \cup {Cache!Miss}, expiresAt : 0..(CacheNow + MaxTtl)]],
         \A k \in Keys \ {key} : lastSet'[k] = lastSet[k],
         lastSet'[key].value = e.value, lastSet'[key].expiresAt = e.expiresAt,
         result' \in [key : Keys \cup {"none"}, value : Values \cup {Cache!Miss}]
  PROVE  CacheInv'
<1> DEFINE rest == Cache!Without(entries, key)
           all == Append(rest, e)
<1>1. /\ entries \in Seq(CacheEntry) /\ Distinct(entries) /\ Len(entries) <= MaxEntries
      /\ AsSet(entries, lastSet) /\ InOrderOfUse(entries, since) /\ CacheTyped
  BY DEF CacheInv, CacheTyped
<1>2. /\ rest \in Seq(CacheEntry) /\ Len(rest) <= Len(entries)
      /\ Distinct(rest) /\ ~Cache!Has(rest, key)
      /\ AsSet(rest, lastSet') /\ InOrderOfUse(rest, since)
      /\ \A k \in Keys \ {key} : Cache!Has(entries, k) => Cache!Has(rest, k)
  BY <1>1, RestInOrder
<1> HIDE DEF rest
<1>3. /\ all \in Seq(CacheEntry) /\ Len(all) = Len(rest) + 1
      /\ Distinct(all) /\ AsSet(all, lastSet') /\ InOrderOfUse(all, Cache!Touch(key))
      /\ Cache!Has(all, key) /\ \A k \in Keys : Cache!Has(rest, k) => Cache!Has(all, k)
  BY <1>2, LastInOrder
<1> HIDE DEF all
<1>4. Len(all) <= MaxEntries + 1
  BY <1>1, <1>2, <1>3, CacheBoundTypes, LenProperties
<1>5. /\ Cache!Touch(key) \in [Keys -> SUBSET Keys]
      /\ \A k \in Keys : IsFiniteSet(Cache!Touch(key)[k])
      /\ \A k \in Keys \ {key} : Cardinality(Cache!Touch(key)[k]) >= Cardinality(since[k])
  BY <1>1, TouchGrows
<1>6. entries' = Cache!Evict(all)
  BY DEF all, rest
<1>7. /\ entries' \in Seq(CacheEntry) /\ Len(entries') <= MaxEntries
      /\ Distinct(entries') /\ AsSet(entries', lastSet') /\ InOrderOfUse(entries', since')
      /\ \A k \in Keys : Cache!Has(all, k) /\ ~Cache!Has(entries', k) => Cardinality(since'[k]) >= MaxEntries
  BY <1>3, <1>4, <1>5, <1>6, EvictedInOrder
<1>8. CacheTyped'
  BY <1>1, <1>5, <1>7 DEF CacheTyped, CacheEntry
<1>9. GivenUp(entries', lastSet', since', now')
  <2> SUFFICES ASSUME NEW k \in Keys, lastSet'[k].expiresAt > now, ~Cache!Has(entries', k)
               PROVE  Cardinality(since'[k]) >= MaxEntries
    BY DEF GivenUp
  <2>1. CASE Cache!Has(all, k)
    BY <1>7, <2>1
  <2>2. CASE ~Cache!Has(all, k)
    <3>1. k # key /\ ~Cache!Has(entries, k)
      BY <1>2, <1>3, <2>2
    <3>2. Cardinality(since[k]) >= MaxEntries
      BY <3>1 DEF CacheInv, GivenUp
    <3>3. Cardinality(since[k]) \in Nat /\ Cardinality(Cache!Touch(key)[k]) \in Nat
      BY <1>1, <1>5, FS_CardinalityType DEF CacheTyped
    <3> QED
      BY <1>5, <3>1, <3>2, <3>3, CacheBoundTypes
  <2> QED
    BY <2>1, <2>2
<1> QED
  BY <1>7, <1>8, <1>9 DEF CacheInv, Distinct, AsSet, InOrderOfUse, GivenUp, Cache!Has

-----------------------------------------------------------------------------
(* An empty cache has nothing out of order.                                  *)
LEMMA CacheInitInOrder == CacheBounds /\ Cache!Init => CacheInv
<1> SUFFICES ASSUME CacheBounds, Cache!Init PROVE CacheInv
  OBVIOUS
<1>1. entries \in Seq(CacheEntry) /\ Len(entries) = 0 /\ DOMAIN entries = {}
  BY EmptySeq DEF Cache!Init
<1>2. CacheTyped
  BY <1>1, CacheBoundTypes, FS_EmptySet DEF Cache!Init, CacheTyped, Cache!NoCall, Cache!NeverSet
<1>3. GivenUp(entries, lastSet, since, now)
  BY CacheBoundTypes DEF Cache!Init, GivenUp, Cache!NeverSet
<1> QED
  BY <1>1, <1>2, <1>3 DEF CacheInv, Distinct, AsSet, InOrderOfUse

(* set() replaces or adds an entry and evicts the first one of too many.     *)
LEMMA SetInOrder ==
  ASSUME CacheBounds, CacheInv, NEW key \in Keys, NEW value \in Values, NEW ttl \in 0..MaxTtl,
         Cache!CallSet(key, value, ttl)
  PROVE  CacheInv'
<1> DEFINE e == [key |-> key, value |-> value, expiresAt |-> now + ttl]
<1>1. /\ entries' = Cache!Set(entries, key, value, ttl, now) /\ UNCHANGED <<now, result>>
      /\ lastSet' = [lastSet EXCEPT ![key] = [value |-> value, expiresAt |-> now + ttl]]
      /\ since' = IF ttl > 0 THEN Cache!Touch(key) ELSE since
  BY DEF Cache!CallSet
<1>2. now \in 0..CacheNow /\ ttl \in Nat /\ now \in Nat
  BY CacheBoundTypes DEF CacheInv, CacheTyped
<1>3. [value |-> value, expiresAt |-> now + ttl]
        \in [value : Values \cup {Cache!Miss}, expiresAt : 0..(CacheNow + MaxTtl)]
  BY <1>2, CacheBoundTypes
<1>4. /\ lastSet' \in [Keys -> [value : Values \cup {Cache!Miss}, expiresAt : 0..(CacheNow + MaxTtl)]]
      /\ \A k \in Keys \ {key} : lastSet'[k] = lastSet[k]
      /\ lastSet'[key].value = value /\ lastSet'[key].expiresAt = now + ttl
  BY <1>1, <1>3 DEF CacheInv, CacheTyped
<1>5. result' \in [key : Keys \cup {"none"}, value : Values \cup {Cache!Miss}]
  BY <1>1 DEF CacheInv, CacheTyped
<1>6. CASE ttl > 0
  <2>1. e \in CacheEntry /\ e.key = key /\ e.value = value /\ e.expiresAt = now + ttl
    BY <1>2, <1>6, CacheBoundTypes DEF CacheEntry
  <2>2. entries' = Cache!Evict(Append(Cache!Without(entries, key), e)) /\ since' = Cache!Touch(key)
    BY <1>1, <1>6 DEF Cache!Set
  <2> HIDE DEF e
  <2> QED
    BY <1>1, <1>4, <1>5, <2>1, <2>2, ComingInOrder
<1>7. CASE ttl = 0
  <2>1. entries' = Cache!Without(entries, key) /\ since' = since /\ lastSet'[key].expiresAt <= now
    BY <1>1, <1>2, <1>4, <1>7 DEF Cache!Set
  <2> QED
    BY <1>1, <1>4, <1>5, <2>1, GoingInOrder
<1> QED
  BY <1>2, <1>6, <1>7

(* What get() finds is what was set last, and it has time left.              *)
LEMMA HitIsLastSet ==
  ASSUME CacheBounds, CacheInv, NEW key \in Keys, Cache!Hits(entries, key, now)
  PROVE  /\ Cache!EntryOf(entries, key) \in CacheEntry /\ Cache!EntryOf(entries, key).key = key
         /\ lastSet[key].value = Cache!EntryOf(entries, key).value
         /\ lastSet[key].expiresAt = Cache!EntryOf(entries, key).expiresAt
         /\ now < lastSet[key].expiresAt
<1>1. /\ Cache!Position(entries, key) \in DOMAIN entries
      /\ Cache!EntryOf(entries, key) = entries[Cache!Position(entries, key)]
      /\ Cache!EntryOf(entries, key).key = key
  BY EntryOfKey DEF Cache!Hits
<1>2. Cache!EntryOf(entries, key) \in CacheEntry
  BY <1>1, ElementOfSeq, LenProperties DEF CacheInv, CacheTyped
<1>3. /\ lastSet[key].value = Cache!EntryOf(entries, key).value
      /\ lastSet[key].expiresAt = Cache!EntryOf(entries, key).expiresAt
  BY <1>1 DEF CacheInv, AsSet
<1>4. Cache!EntryOf(entries, key).expiresAt > now
  BY DEF Cache!Hits, Cache!Fresh
<1>5. Cache!EntryOf(entries, key).expiresAt \in Nat /\ now \in Nat
  BY <1>2, CacheBoundTypes DEF CacheEntry, CacheInv, CacheTyped
<1> QED
  BY <1>1, <1>2, <1>3, <1>4, <1>5

(* get() moves its entry to the recent end, drops one that is over, or finds *)
(* none.                                                                     *)
LEMMA GetInOrder ==
  ASSUME CacheBounds, CacheInv, NEW key \in Keys, Cache!CallGet(key)
  PROVE  CacheInv'
<1> DEFINE e == Cache!EntryOf(entries, key)
<1>1. /\ entries' = Cache!Get(entries, key, now) /\ UNCHANGED <<now, lastSet>>
      /\ result' = [key |-> key, value |-> Cache!GetValue(entries, key, now)]
      /\ since' = IF Cache!Hits(entries, key, now) THEN Cache!Touch(key) ELSE since
  BY DEF Cache!CallGet
<1>2. /\ lastSet' \in [Keys -> [value : Values \cup {Cache!Miss}, expiresAt : 0..(CacheNow + MaxTtl)]]
      /\ \A k \in Keys : lastSet'[k] = lastSet[k]
      /\ now \in Nat /\ lastSet[key].expiresAt \in Nat
  BY <1>1, CacheBoundTypes DEF CacheInv, CacheTyped
<1>3. CASE Cache!Hits(entries, key, now)
  <2>1. e \in CacheEntry /\ e.key = key /\ lastSet[key].value = e.value /\ lastSet[key].expiresAt = e.expiresAt
    BY <1>3, HitIsLastSet
  <2>2. result' \in [key : Keys \cup {"none"}, value : Values \cup {Cache!Miss}]
    <3>1. Cache!GetValue(entries, key, now) = e.value /\ e.value \in Values
      BY <1>3, <2>1 DEF Cache!GetValue, CacheEntry
    <3> QED
      BY <1>1, <3>1
  <2>3. Cache!Evict(Append(Cache!Without(entries, key), e)) = Append(Cache!Without(entries, key), e)
    <3>1. Cache!Has(entries, key) /\ entries \in Seq(CacheEntry) /\ Len(entries) <= MaxEntries
      BY <1>3 DEF Cache!Hits, CacheInv, CacheTyped
    <3>2. /\ Cache!Without(entries, key) \in Seq(CacheEntry)
          /\ Len(Cache!Without(entries, key)) = Len(entries) - 1
      BY <3>1, WithoutAKey
    <3> HIDE DEF e
    <3>3. Len(Append(Cache!Without(entries, key), e)) = Len(entries)
      BY <2>1, <3>1, <3>2, AppendProperties
    <3> QED
      BY <3>1, <3>3, CacheBoundTypes, LenProperties DEF Cache!Evict
  <2>4. entries' = Cache!Evict(Append(Cache!Without(entries, key), e)) /\ since' = Cache!Touch(key)
    BY <1>1, <1>3, <2>3 DEF Cache!Get
  <2> HIDE DEF e
  <2> QED
    BY <1>1, <1>2, <2>1, <2>2, <2>4, ComingInOrder
<1>4. CASE ~Cache!Hits(entries, key, now)
  <2>1. entries' = Cache!Without(entries, key) /\ since' = since
    BY <1>1, <1>4 DEF Cache!Get
  <2>2. result' \in [key : Keys \cup {"none"}, value : Values \cup {Cache!Miss}]
    BY <1>1, <1>4 DEF Cache!GetValue
  <2>3. lastSet[key].expiresAt <= now \/ ~Cache!Has(entries, key)
    <3> SUFFICES ASSUME Cache!Has(entries, key) PROVE lastSet[key].expiresAt <= now
      OBVIOUS
    <3>1. Cache!Position(entries, key) \in DOMAIN entries /\ Cache!EntryOf(entries, key).key = key
      BY EntryOfKey
    <3>2. lastSet[key].expiresAt = Cache!EntryOf(entries, key).expiresAt
      BY <3>1 DEF Cache!EntryOf, CacheInv, AsSet
    <3> QED
      BY <1>2, <1>4, <3>2 DEF Cache!Hits, Cache!Fresh
  <2> QED
    BY <1>1, <1>2, <2>1, <2>2, <2>3, GoingInOrder
<1> QED
  BY <1>3, <1>4

(* Forgetting what was set keeps its type.                                   *)
LEMMA ForgetType ==
  ASSUME CacheBounds, CacheTyped, NEW keys
  PROVE  /\ Cache!Forget(keys) \in [Keys -> [value : Values \cup {Cache!Miss}, expiresAt : 0..(CacheNow + MaxTtl)]]
         /\ \A k \in Keys : Cache!Forget(keys)[k] = IF k \in keys THEN Cache!NeverSet ELSE lastSet[k]
         /\ Cache!NeverSet.expiresAt = 0
<1>1. Cache!NeverSet \in [value : Values \cup {Cache!Miss}, expiresAt : 0..(CacheNow + MaxTtl)]
  BY CacheBoundTypes DEF Cache!NeverSet
<1> QED
  BY <1>1 DEF Cache!Forget, CacheTyped, Cache!NeverSet

(* delete() forgets the key as well.                                         *)
LEMMA DeleteInOrder ==
  ASSUME CacheBounds, CacheInv, NEW key \in Keys, Cache!CallDelete(key)
  PROVE  CacheInv'
<1>1. /\ entries' = Cache!Without(entries, key) /\ UNCHANGED <<now, result, since>>
      /\ lastSet' = Cache!Forget({key})
  BY DEF Cache!CallDelete
<1>2. /\ lastSet' \in [Keys -> [value : Values \cup {Cache!Miss}, expiresAt : 0..(CacheNow + MaxTtl)]]
      /\ \A k \in Keys \ {key} : lastSet'[k] = lastSet[k]
      /\ lastSet'[key].expiresAt <= now
  BY <1>1, ForgetType, CacheBoundTypes DEF CacheInv, CacheTyped
<1>3. result' \in [key : Keys \cup {"none"}, value : Values \cup {Cache!Miss}]
  BY <1>1 DEF CacheInv, CacheTyped
<1> QED
  BY <1>1, <1>2, <1>3, GoingInOrder

(* clear() forgets everything.                                               *)
LEMMA ClearInOrder ==
  ASSUME CacheBounds, CacheInv, Cache!CallClear
  PROVE  CacheInv'
<1>1. /\ entries' = <<>> /\ UNCHANGED <<now, result, since>> /\ lastSet' = Cache!Forget(Keys)
  BY DEF Cache!CallClear
<1>2. entries' \in Seq(CacheEntry) /\ Len(entries') = 0 /\ DOMAIN entries' = {}
  BY <1>1, EmptySeq
<1>3. /\ lastSet' \in [Keys -> [value : Values \cup {Cache!Miss}, expiresAt : 0..(CacheNow + MaxTtl)]]
      /\ \A k \in Keys : lastSet'[k].expiresAt = 0
  BY <1>1, ForgetType DEF CacheInv
<1>4. CacheTyped'
  BY <1>1, <1>2, <1>3, CacheBoundTypes DEF CacheInv, CacheTyped, CacheEntry
<1>5. GivenUp(entries, lastSet, since, now)'
  BY <1>1, <1>3, CacheBoundTypes DEF GivenUp, CacheInv, CacheTyped
<1> QED
  BY <1>2, <1>4, <1>5 DEF CacheInv, Distinct, AsSet, InOrderOfUse

(* Time, and steps of nobody.                                                *)
LEMMA ClockInOrder ==
  ASSUME CacheBounds, CacheInv, now' \in 0..CacheNow, now <= now',
         UNCHANGED <<entries, lastSet, since>>,
         result' \in [key : Keys \cup {"none"}, value : Values \cup {Cache!Miss}]
  PROVE  CacheInv'
<1>1. CacheTyped'
  BY DEF CacheInv, CacheTyped, CacheEntry
<1>2. GivenUp(entries, lastSet, since, now)'
  <2>1. \A k \in Keys : lastSet[k].expiresAt \in Nat
    BY CacheBoundTypes DEF CacheInv, CacheTyped
  <2>2. now \in Nat /\ now' \in Nat
    BY CacheBoundTypes DEF CacheInv, CacheTyped
  <2>3. \A k \in Keys : lastSet[k].expiresAt > now' => lastSet[k].expiresAt > now
    BY <2>1, <2>2
  <2> QED
    BY <2>3 DEF GivenUp, CacheInv, Cache!Has
<1> QED
  BY <1>1, <1>2 DEF CacheInv, Distinct, AsSet, InOrderOfUse

(* Every call, and the clock, keeps the order.                               *)
LEMMA CacheStepInOrder == CacheBounds /\ CacheInv /\ [Cache!Next]_(Cache!vars) => CacheInv'
<1> SUFFICES ASSUME CacheBounds, CacheInv, [Cache!Next]_(Cache!vars) PROVE CacheInv'
  OBVIOUS
<1>1. ASSUME NEW key \in Keys, NEW value \in Values, NEW ttl \in 0..MaxTtl,
             Cache!CallSet(key, value, ttl)
      PROVE  CacheInv'
  BY <1>1, SetInOrder
<1>2. ASSUME NEW key \in Keys, Cache!CallGet(key) \/ Cache!CallDelete(key)
      PROVE  CacheInv'
  BY <1>2, GetInOrder, DeleteInOrder
<1>3. CASE Cache!CallClear
  BY <1>3, ClearInOrder
<1>4. CASE Cache!Tick
  <2>1. now' \in 0..CacheNow /\ now <= now'
    BY <1>4, CacheBoundTypes DEF Cache!Tick, CacheInv, CacheTyped
  <2>2. result' \in [key : Keys \cup {"none"}, value : Values \cup {Cache!Miss}]
    BY <1>4 DEF Cache!Tick, Cache!NoCall
  <2> QED
    BY <1>4, <2>1, <2>2, ClockInOrder DEF Cache!Tick
<1>5. CASE UNCHANGED Cache!vars
  <2>1. /\ UNCHANGED <<entries, lastSet, since>> /\ now' \in 0..CacheNow /\ now <= now'
        /\ result' \in [key : Keys \cup {"none"}, value : Values \cup {Cache!Miss}]
    BY <1>5, CacheBoundTypes DEF Cache!vars, CacheInv, CacheTyped
  <2> QED
    BY <2>1, ClockInOrder
<1> QED
  BY <1>1, <1>2, <1>3, <1>4, <1>5 DEF Cache!Next

-----------------------------------------------------------------------------
(* In order, the cache's state has its type, and no key has two entries.     *)
LEMMA InOrderIsTyped == ASSUME CacheInv PROVE Cache!TypeOK
BY DEF CacheInv, CacheTyped, Cache!TypeOK, CacheEntry, Distinct

(* get() returns what was set last for its key, while it has time left       *)
(* (cache.js, get and set).                                                  *)
LEMMA LastSetServed == ASSUME CacheBounds, CacheInv PROVE Cache!ServesLastSet
<1> SUFFICES ASSUME NEW key \in Keys, Cache!CallGet(key), result'.value # Cache!Miss
             PROVE  result'.value = lastSet[key].value /\ now < lastSet[key].expiresAt
  BY DEF Cache!ServesLastSet
<1>1. result'.value = Cache!GetValue(entries, key, now)
  BY DEF Cache!CallGet
<1>2. Cache!Hits(entries, key, now) /\ result'.value = Cache!EntryOf(entries, key).value
  BY <1>1 DEF Cache!GetValue
<1> QED
  BY <1>2, HitIsLastSet

(* The cache gives up an entry with time left only when MaxEntries others    *)
(* were used after it (cache.js, the loop of set).                           *)
LEMMA LeastRecentlyUsedGoes == ASSUME CacheBounds, CacheInv PROVE Cache!RecentKeysKept
<1>1. \A k \in Keys : Cardinality(since[k]) \in Nat
  BY FS_CardinalityType DEF CacheInv, CacheTyped
<1>2. \A T : Cache!Cardinality(T) = Cardinality(T)
  BY DEF Cache!Cardinality, Cardinality
<1> QED
  BY <1>1, <1>2, CacheBoundTypes DEF Cache!RecentKeysKept, CacheInv, CacheTyped, GivenUp

(* The bounds of the run are such.                                           *)
LEMMA CacheBounded == CacheBounds
BY CacheAssumptions DEF CacheBounds

-----------------------------------------------------------------------------
(* All parts together: whichever part a behaviour is of is in order.         *)
PartsInv ==
  \/ part = "publish" /\ IInv
  \/ part = "cache" /\ CacheInv
  \/ part = "rules" /\ RulesInv
  \/ part = "denials" /\ DenialsInv
  \/ part = "process" /\ ProcessInv

(* Each part starts in order.                                                *)
LEMMA PartsInvInit == PartsInit => PartsInv
<1>1. Cache!Init => CacheInv
  BY CacheBounded, CacheInitInOrder
<1> QED
  BY <1>1, InitInStep, RulesInvInit, DenialsInvInit, ProcessInvInit
     DEF PartsInit, PartsInv

(* A step of the whole is one of the part.                                   *)
LEMMA StepsOfParts ==
  ASSUME [PartsNext]_partsVars
  PROVE  /\ part' = part
         /\ part = "publish" => [Next]_vars
         /\ part = "cache" => [Cache!Next]_(Cache!vars)
         /\ part = "rules" => [Rules!Next]_<<now, rulesVars>>
         /\ part = "denials" => [Denials!Next]_<<now, denialVars>>
         /\ part = "process" => [Process!Next]_processVars
<1>1. CASE PartsNext
  BY <1>1 DEF PartsNext, Publishing, OfProcess
<1>2. CASE UNCHANGED partsVars
  BY <1>2 DEF partsVars, publishVars, cacheVars, vars, Cache!vars
<1> QED
  BY <1>1, <1>2

(* And keeps the part in order.                                              *)
LEMMA PartsInvStep ==
  ASSUME PartsInv, [PartsNext]_partsVars
  PROVE  PartsInv'
<1>1. CASE part = "publish" /\ IInv
  <2>1. part' = "publish" /\ IInv'
    BY <1>1, StepsOfParts, StepInStep
  <2> QED BY <2>1 DEF PartsInv
<1>2. CASE part = "cache" /\ CacheInv
  <2>1. part' = "cache" /\ CacheInv'
    BY <1>2, StepsOfParts, CacheBounded, CacheStepInOrder
  <2> QED BY <2>1 DEF PartsInv
<1>3. CASE part = "rules" /\ RulesInv
  <2>1. part' = "rules" /\ RulesInv'
    BY <1>3, StepsOfParts, RulesInvStep
  <2> QED BY <2>1 DEF PartsInv
<1>4. CASE part = "denials" /\ DenialsInv
  <2>1. part' = "denials" /\ DenialsInv'
    BY <1>4, StepsOfParts, DenialsInvStep
  <2> QED BY <2>1 DEF PartsInv
<1>5. CASE part = "process" /\ ProcessInv
  <2>1. part' = "process" /\ ProcessInv'
    BY <1>5, StepsOfParts, ProcessInvStep
  <2> QED BY <2>1 DEF PartsInv
<1> QED
  BY <1>1, <1>2, <1>3, <1>4, <1>5 DEF PartsInv

(* So every part is always in order.                                         *)
LEMMA PartsAlwaysInOrder == PartsSpec => []PartsInv
BY PartsInvInit, PartsInvStep, PTL DEF PartsSpec

(* What the order says of each part.                                         *)
LEMMA PartsInOrder ==
  ASSUME PartsInv
  PROVE  /\ part = "publish" =>
              TypeOK /\ AcceptedMeansDelivered /\ CountersMatchAnswers /\ PublishesVerifiedOnly
         /\ part = "cache" => Cache!TypeOK /\ Cache!ServesLastSet /\ Cache!RecentKeysKept
         /\ part = "rules" =>
              Rules!TypeOK /\ Rules!AllowsAsDocumented /\ Rules!TokensAreShortLived
         /\ part = "denials" => Denials!TypeOK /\ Denials!CountsAreHonest
         /\ part = "process" => /\ Process!TypeOK /\ Process!OptionsStayOurs
                                /\ Process!AuthNeedsKey /\ Process!ListenersApart
<1>1. CASE part = "publish" /\ IInv
  BY <1>1, InStepIsTyped, AcceptedIsDelivered, VerifiedIsPublished DEF IInv
<1>2. CASE part = "cache" /\ CacheInv
  BY <1>2, CacheBounded, InOrderIsTyped,
     LastSetServed, LeastRecentlyUsedGoes
<1>3. CASE part = "rules" /\ RulesInv
  BY <1>3, RulesKept
<1>4. CASE part = "denials" /\ DenialsInv
  BY <1>4, DenialsKept
<1>5. CASE part = "process" /\ ProcessInv
  BY <1>5, ProcessKept
<1> QED
  BY <1>1, <1>2, <1>3, <1>4, <1>5 DEF PartsInv

-----------------------------------------------------------------------------
(* Each part's state has its type: of the whole behaviour, whichever part it *)
(* is of, for any constants.                                                 *)
THEOREM PartsTypeCorrect == PartsSpec => []PartsTypeOK
<1>1. PartsInv => PartsTypeOK
  BY PartsInOrder DEF PartsTypeOK, PartsInv
<1> QED
  BY <1>1, PartsAlwaysInOrder, PTL

(* An answer of 202 means that every channel named got the message once, and *)
(* /stats counts what was answered (internal.js).                            *)
THEOREM AnswersTrue == PartsSpec => []AnswersAreTrue
<1>1. PartsInv => AnswersAreTrue
  BY PartsInOrder DEF AnswersAreTrue
<1> QED
  BY <1>1, PartsAlwaysInOrder, PTL

(* Only genuine and recent signatures publish (internal.js).                 *)
THEOREM OnlyVerifiedPublished == PartsSpec => []OnlyVerifiedIsPublished
<1>1. PartsInv => OnlyVerifiedIsPublished
  BY PartsInOrder DEF OnlyVerifiedIsPublished
<1> QED
  BY <1>1, PartsAlwaysInOrder, PTL

(* The rules allow what the README lists and no token for too long, and the  *)
(* process keeps its options, its key and its ports (rules.js, config.js).   *)
THEOREM DocumentedRules == PartsSpec => []RulesAsDocumented
<1>1. PartsInv => RulesAsDocumented
  BY PartsInOrder DEF RulesAsDocumented
<1> QED
  BY <1>1, PartsAlwaysInOrder, PTL

(* No row of the denial log counts what did not happen (denials.js).         *)
THEOREM HonestCounts == PartsSpec => []CountsAreHonest
<1>1. PartsInv => CountsAreHonest
  BY PartsInOrder DEF CountsAreHonest
<1> QED
  BY <1>1, PartsAlwaysInOrder, PTL

(* get() returns what was set last and has time left (cache.js).             *)
THEOREM LastSetIsServed == PartsSpec => ServesLastSet
<1>1. PartsInv => (part = "cache" => Cache!ServesLastSet)
  BY PartsInOrder
<1> QED
  BY <1>1, PartsAlwaysInOrder, PTL DEF ServesLastSet

(* What a full cache gives up was used least recently, and what a full       *)
(* denial log gives up is its rarest row (cache.js, denials.js).             *)
THEOREM EvictionSparesTheUsed == PartsSpec => EvictionSpares
<1>1. PartsInv => (part = "cache" => Cache!RecentKeysKept)
  BY PartsInOrder
<1>2. PartsInv /\ [PartsNext]_partsVars =>
        part' = part /\ (part = "denials" => Denials!FrequentRowsStay)
  <2>1. ASSUME PartsInv, [PartsNext]_partsVars, part = "denials"
        PROVE  Denials!FrequentRowsStay
    BY <2>1, StepsOfParts, DenialsInvStep DEF PartsInv
  <2> QED BY <2>1, StepsOfParts
<1>3. (part = "cache" => Cache!RecentKeysKept)' /\ part' = part =>
        (part = "cache" => Cache!RecentKeysKept')
  OBVIOUS
<1> QED
  BY <1>1, <1>2, <1>3, PartsAlwaysInOrder, PTL DEF PartsSpec, EvictionSpares
=============================================================================
