-------------------------- MODULE SocketAuthProofs --------------------------
(***************************************************************************)
(* Theorems about SocketAuth, for any sockets, channels and tokens.         *)
(*                                                                          *)
(* HeldByItsPrincipal is not inductive: it says nothing while events wait.  *)
(* What holds at every step is that the identities a socket went through    *)
(* since a channel was given to it are all still in sight: the identity the *)
(* policy recorded, followed by the events it has not consumed.             *)
(***************************************************************************)
EXTENDS SocketAuth, SequenceTheorems, TLAPS, TLC

(* Only an open socket holds channels.                                       *)
HeldOnlyWhenOpen ==
  \A s \in Sockets, c \in Channels :
    granted[s][c] # NotSubscribed => conn[s] = "open"

(* A credential is recorded as the reason of a subscription only when the    *)
(* authorizer allowed it.                                                    *)
GrantsAuthorized ==
  \A s \in Sockets, c \in Channels :
    granted[s][c] \in Credentials => <<granted[s][c], c>> \in Authorized

(* The last event emitted, or the identity recorded when none waits, is the  *)
(* identity the socket has.                                                  *)
Latest(s) ==
  IF events[s] = <<>> THEN identity[s] ELSE events[s][Len(events[s])]

EventsLeadToHolder == \A s \in Sockets : Holder(s) = Latest(s)

(* Who was given a channel that nothing will take away is still in sight.    *)
InSight(s, who) ==
  \/ who = identity[s]
  \/ \E i \in 1..Len(events[s]) : events[s][i] = who

GrantsInSight ==
  mode = "enforce" =>
    \A s \in Sockets, c \in Channels :
      (granted[s][c] \in Credentials /\ ~KickScheduled(s, c))
      => Who(granted[s][c]) = Anon \/ InSight(s, Who(granted[s][c]))

IInv ==
  /\ TypeOK
  /\ HeldOnlyWhenOpen
  /\ NoUncheckedInEnforce
  /\ GrantsAuthorized
  /\ EventsLeadToHolder
  /\ GrantsInSight
-----------------------------------------------------------------------------
(* A credential is none of the markers a subscription may carry.             *)
LEMMA CredentialsDistinct ==
  /\ NotSubscribed \notin Credentials
  /\ Unchecked \notin Credentials
  /\ NotSubscribed # Unchecked
BY GrantAssumption DEF Credentials, NotSubscribed, Unchecked

(* The identity of a token object, or of no token.                           *)
LEMMA HolderTypes ==
  /\ \A tok \in TokenObjects \cup {Anon} : Signed(tok) \in Credentials
  /\ \A cred \in Credentials : Who(cred) \in Identities
  /\ \A t \in SignedTokens, n \in 1..MaxTokens :
       Who(Signed([signed |-> t, serial |-> n])) = Owner[t]
  /\ Who(Signed(Anon)) = Anon
<1>1. \A tok \in TokenObjects \cup {Anon} : Signed(tok) \in Credentials
  BY DEF TokenObjects, Signed, Credentials
<1>2. \A cred \in Credentials : Who(cred) \in Identities
  BY OwnerAssumption DEF Who, Credentials, Identities
<1>3. \A t \in SignedTokens, n \in 1..MaxTokens :
        Who(Signed([signed |-> t, serial |-> n])) = Owner[t]
  BY AnonTokenAssumption, AnonAssumption DEF Who, Signed, TokenObjects
<1>4. Who(Signed(Anon)) = Anon
  BY DEF Who, Signed
<1> QED
  BY <1>1, <1>2, <1>3, <1>4
-----------------------------------------------------------------------------
(* Every variable keeps its type.                                            *)
LEMMA TypeInit == Init => TypeOK
BY MaxTokensAssumption
   DEF Init, TypeOK, Modes, Identities, NotSubscribed, Credentials

(* kickOutAll schedules lists of channels only.                              *)
LEMMA KickOutAllType ==
  ASSUME TypeOK, NEW s \in Sockets, KickOutAll(s) \/ kicks' = kicks
  PROVE  kicks' \in [Sockets -> SUBSET SUBSET Channels]
<1> DEFINE list == Subscriptions(s)
<1>1. list \in SUBSET Channels
  BY DEF Subscriptions
<1>2. kicks[s] \in SUBSET SUBSET Channels
  BY DEF TypeOK
<1> HIDE DEF list
<1>3. kicks[s] \cup {list} \in SUBSET SUBSET Channels
  BY <1>1, <1>2
<1>4. CASE kicks' = [kicks EXCEPT ![s] = @ \cup {list}]
  BY <1>3, <1>4 DEF TypeOK
<1>5. CASE kicks' = kicks
  BY <1>5 DEF TypeOK
<1> QED
  BY <1>4, <1>5 DEF KickOutAll, list

(* An event is queued behind those that wait.                                *)
LEMMA EventsType ==
  ASSUME TypeOK, NEW s \in Sockets, NEW who \in Identities,
         events' = [events EXCEPT ![s] = Append(@, who)]
  PROVE  events' \in [Sockets -> Seq(Identities)]
<1>1. events[s] \in Seq(Identities)
  BY DEF TypeOK
<1>2. Append(events[s], who) \in Seq(Identities)
  BY <1>1
<1> QED
  BY <1>2 DEF TypeOK

(* What a subscription can be recorded as.                                   *)
Grants == {NotSubscribed, Unchecked} \cup Credentials

(* A subscription that is given has its type.                                *)
LEMMA SubscribeType ==
  ASSUME TypeOK, NEW s \in Sockets, NEW c \in Channels, NEW g \in Grants,
         Subscribe(s, c, g) \/ granted' = granted
  PROVE  granted' \in [Sockets -> [Channels -> Grants]]
<1>1. granted \in [Sockets -> [Channels -> Grants]]
  BY DEF TypeOK, Grants
<1> HIDE DEF Grants
<1>2. [granted[s] EXCEPT ![c] = g] \in [Channels -> Grants]
  BY <1>1
<1>3. [granted EXCEPT ![s][c] = g] \in [Sockets -> [Channels -> Grants]]
  BY <1>1, <1>2
<1> QED
  BY <1>1, <1>3 DEF Subscribe

(* An action that fails is settled as a denial is.                           *)
LEMMA FailedIsDenied ==
  ASSUME NEW s \in Sockets, FailSubscribe(s)
  PROVE  SettleSubscribe(s, FALSE)
BY DEF FailSubscribe, SettleFailed, SettleSubscribe, Answers


(* Every variable keeps its type.                                            *)
LEMMA TypeStep == TypeOK /\ [Next]_vars => TypeOK'
<1> SUFFICES ASSUME TypeOK, [Next]_vars PROVE TypeOK'
  OBVIOUS
<1> USE DEF TypeOK
<1>1. ASSUME NEW s \in Sockets, Connect(s) PROVE TypeOK'
  BY <1>1 DEF Connect
<1>2. ASSUME NEW s \in Sockets, FinishHandshake(s) PROVE TypeOK'
  BY <1>2 DEF FinishHandshake
<1>3. ASSUME NEW s \in Sockets, Disconnect(s) PROVE TypeOK'
  BY <1>3 DEF Disconnect, NoSubscriptions
<1>4. ASSUME NEW s \in Sockets, NEW t \in SignedTokens,
             HandleAuthenticate(s, t)
      PROVE  TypeOK'
  <2>1. accepted[s] + 1 \in 1..MaxTokens
    BY <1>4, MaxTokensAssumption DEF HandleAuthenticate
  <2>2. authToken' \in [Sockets -> TokenObjects \cup {Anon}]
    BY <1>4, <2>1 DEF HandleAuthenticate, TokenObjects
  <2>3. accepted' \in [Sockets -> 0..MaxTokens]
    BY <1>4, <2>1, MaxTokensAssumption DEF HandleAuthenticate
  <2>4. Owner[t] \in Identities
    BY OwnerAssumption DEF Identities
  <2>5. events' \in [Sockets -> Seq(Identities)]
    BY <1>4, <2>4, EventsType DEF HandleAuthenticate
  <2> QED
    BY <1>4, <2>2, <2>3, <2>5 DEF HandleAuthenticate
<1>5. ASSUME NEW s \in Sockets, Deauthenticate(s) PROVE TypeOK'
  <2>1. events' \in [Sockets -> Seq(Identities)]
    BY <1>5, EventsType DEF Deauthenticate, Identities
  <2> QED
    BY <1>5, <2>1 DEF Deauthenticate
<1>6. ASSUME NEW s \in Sockets, ConsumeAuthentication(s) PROVE TypeOK'
  <2>1. Head(events[s]) \in Identities /\ Tail(events[s]) \in Seq(Identities)
    BY <1>6 DEF ConsumeAuthentication
  <2>2. kicks' \in [Sockets -> SUBSET SUBSET Channels]
    <3>1. KickOutAll(s) \/ kicks' = kicks
      BY <1>6 DEF ConsumeAuthentication
    <3> QED
      BY <3>1, KickOutAllType
  <2> QED
    BY <1>6, <2>1, <2>2 DEF ConsumeAuthentication
<1>7. ASSUME NEW s \in Sockets, ConsumeDeauthentication(s) PROVE TypeOK'
  <2>1. Tail(events[s]) \in Seq(Identities)
    BY <1>7 DEF ConsumeDeauthentication
  <2>2. kicks' \in [Sockets -> SUBSET SUBSET Channels]
    <3>1. KickOutAll(s) \/ kicks' = kicks
      BY <1>7 DEF ConsumeDeauthentication
    <3> QED
      BY <3>1, KickOutAllType
  <2> QED
    BY <1>7, <2>1, <2>2 DEF ConsumeDeauthentication, Identities
<1>8. ASSUME NEW s \in Sockets, NEW list \in SUBSET Channels,
             KickOut(s, list)
      PROVE  TypeOK'
  BY <1>8 DEF KickOut, KickedFrom
<1>9. ASSUME NEW s \in Sockets, NEW c \in Channels, HandleSubscribe(s, c)
      PROVE  TypeOK'
  <2>1. Subscribe(s, c, Unchecked) \/ granted' = granted
    BY <1>9 DEF HandleSubscribe
  <2>2. granted' \in [Sockets -> [Channels -> Grants]]
    BY <2>1, SubscribeType DEF Grants
  <2>3. [channel |-> c, token |-> authToken[s]] \in Requests
    BY DEF Requests
  <2>4. pending' \in [Sockets -> {Idle} \cup Requests]
    BY <1>9, <2>3 DEF HandleSubscribe
  <2> QED
    BY <1>9, <2>2, <2>4 DEF HandleSubscribe, Grants
<1>10. ASSUME NEW s \in Sockets, NEW allow \in BOOLEAN,
              SettleSubscribe(s, allow)
       PROVE  TypeOK'
  <2>1. pending[s] \in Requests
    BY <1>10 DEF SettleSubscribe
  <2>2. /\ pending[s].channel \in Channels
        /\ Signed(pending[s].token) \in Credentials
    BY <2>1, HolderTypes DEF Requests
  <2>3. \/ Subscribe(s, pending[s].channel, Signed(pending[s].token))
        \/ Subscribe(s, pending[s].channel, Unchecked)
        \/ granted' = granted
    BY <1>10 DEF SettleSubscribe
  <2>4. granted' \in [Sockets -> [Channels -> Grants]]
    BY <2>2, <2>3, SubscribeType DEF Grants
  <2> QED
    BY <1>10, <2>4 DEF SettleSubscribe, Grants
<1>11. ASSUME NEW s \in Sockets, NEW c \in Channels, Unsubscribe(s, c)
       PROVE  TypeOK'
  BY <1>11 DEF Unsubscribe
<1>12. ASSUME NEW next \in Modes, OnChange(next) PROVE TypeOK'
  BY <1>12 DEF OnChange, NoSubscriptions
<1>13. CASE UNCHANGED vars
  BY <1>13 DEF vars
<1> QED
  BY <1>1, <1>2, <1>3, <1>4, <1>5, <1>6, <1>7, <1>8, <1>9, <1>10, <1>11,
     <1>12, <1>13, FailedIsDenied DEF Next, SocketNext

(* Type correctness of the specification.                                    *)
THEOREM TypeCorrect == Spec => []TypeOK
<1>1. Init => TypeOK
  BY TypeInit
<1>2. TypeOK /\ [Next]_vars => TypeOK'
  BY TypeStep
<1> QED
  BY <1>1, <1>2, PTL DEF Spec
-----------------------------------------------------------------------------
(* Subscribing changes the one subscription it is for.                       *)
LEMMA SubscribeEffect ==
  ASSUME TypeOK, NEW r \in Sockets, NEW d \in Channels, NEW g,
         Subscribe(r, d, g),
         NEW s \in Sockets, NEW c \in Channels,
         granted'[s][c] # granted[s][c]
  PROVE  s = r /\ c = d /\ conn[s] = "open" /\ granted'[s][c] = g
<1>1. granted' = [granted EXCEPT ![r][d] = g] /\ conn[r] = "open"
  BY DEF Subscribe
<1>2. granted[r] \in [Channels -> Grants] /\ DOMAIN granted = Sockets
  BY DEF TypeOK, Grants
<1>3. s = r
  BY <1>1, <1>2
<1>4. granted'[r] = [granted[r] EXCEPT ![d] = g]
  BY <1>1, <1>2
<1> QED
  BY <1>1, <1>2, <1>3, <1>4

(* What an action does to one subscription: it keeps it, drops it, or gives  *)
(* it to an open socket, with an allow or in a looser mode.                  *)
LEMMA GrantedStep ==
  ASSUME TypeOK, [Next]_vars, NEW s \in Sockets, NEW c \in Channels,
         granted'[s][c] # granted[s][c]
  PROVE  \/ granted'[s][c] = NotSubscribed
         \/ /\ conn[s] = "open" /\ UNCHANGED <<conn, mode, authToken>>
            /\ UNCHANGED <<events, identity, kicks>>
            /\ \/ mode # "enforce" /\ granted'[s][c] = Unchecked
               \/ /\ granted'[s][c] = Signed(authToken[s])
                  /\ <<granted'[s][c], c>> \in Authorized
<1> USE DEF TypeOK
<1>1. ASSUME NEW r \in Sockets, Disconnect(r) PROVE granted'[s][c] = NotSubscribed
  BY <1>1 DEF Disconnect, NoSubscriptions
<1>2. ASSUME NEW r \in Sockets, NEW list \in SUBSET Channels, KickOut(r, list)
      PROVE  granted'[s][c] = NotSubscribed
  BY <1>2 DEF KickOut, KickedFrom
<1>3. ASSUME NEW r \in Sockets, NEW d \in Channels, HandleSubscribe(r, d)
      PROVE  /\ conn[s] = "open" /\ UNCHANGED <<conn, mode, authToken>>
             /\ UNCHANGED <<events, identity, kicks>>
             /\ mode # "enforce" /\ granted'[s][c] = Unchecked
  <2>1. mode = "off" /\ Subscribe(r, d, Unchecked)
    BY <1>3 DEF HandleSubscribe
  <2>2. conn[s] = "open" /\ granted'[s][c] = Unchecked
    BY <2>1, SubscribeEffect
  <2> QED
    BY <1>3, <2>1, <2>2 DEF HandleSubscribe
<1>4. ASSUME NEW r \in Sockets, NEW allow \in BOOLEAN, SettleSubscribe(r, allow)
      PROVE  /\ conn[s] = "open" /\ UNCHANGED <<conn, mode, authToken>>
             /\ UNCHANGED <<events, identity, kicks>>
             /\ \/ mode # "enforce" /\ granted'[s][c] = Unchecked
                \/ /\ granted'[s][c] = Signed(authToken[s])
                   /\ <<granted'[s][c], c>> \in Authorized
  <2>1. pending[r].channel \in Channels
    BY <1>4 DEF SettleSubscribe, Requests
  <2>2. CASE allow /\ DecisionStands(r)
    <3>1. Subscribe(r, pending[r].channel, Signed(pending[r].token))
      BY <1>4, <2>2 DEF SettleSubscribe
    <3>2. /\ s = r /\ c = pending[r].channel /\ conn[s] = "open"
          /\ granted'[s][c] = Signed(authToken[s])
      BY <2>1, <2>2, <3>1, SubscribeEffect DEF DecisionStands
    <3> QED
      BY <1>4, <2>2, <3>2 DEF SettleSubscribe, Answers, DecisionStands
  <2>3. CASE ~(allow /\ DecisionStands(r))
    <3>1. mode # "enforce" /\ Subscribe(r, pending[r].channel, Unchecked)
      BY <1>4, <2>3 DEF SettleSubscribe
    <3>2. conn[s] = "open" /\ granted'[s][c] = Unchecked
      BY <2>1, <3>1, SubscribeEffect
    <3> QED
      BY <1>4, <3>1, <3>2 DEF SettleSubscribe
  <2> QED
    BY <2>2, <2>3
<1>5. ASSUME NEW r \in Sockets, NEW d \in Channels, Unsubscribe(r, d)
      PROVE  granted'[s][c] = NotSubscribed
  BY <1>5 DEF Unsubscribe
<1>6. ASSUME NEW next \in Modes, OnChange(next) PROVE granted'[s][c] = NotSubscribed
  BY <1>6 DEF OnChange, NoSubscriptions
<1>7. ASSUME NEW r \in Sockets,
             \/ Connect(r) \/ FinishHandshake(r) \/ Deauthenticate(r)
             \/ \E t \in SignedTokens : HandleAuthenticate(r, t)
             \/ ConsumeAuthentication(r) \/ ConsumeDeauthentication(r)
      PROVE  granted' = granted
  BY <1>7 DEF Connect, FinishHandshake, Deauthenticate, HandleAuthenticate,
              ConsumeAuthentication, ConsumeDeauthentication
<1>8. UNCHANGED vars => granted' = granted
  BY DEF vars
<1> QED
  BY <1>1, <1>2, <1>3, <1>4, <1>5, <1>6, <1>7, <1>8, FailedIsDenied DEF Next, SocketNext

(* A socket that stops being open holds nothing, and so does every socket    *)
(* when the mode becomes enforce.                                            *)
LEMMA ClosingStep ==
  ASSUME TypeOK, [Next]_vars, NEW s \in Sockets, NEW c \in Channels
  PROVE  /\ conn[s] = "open" /\ conn'[s] # "open"
              => granted'[s][c] = NotSubscribed
         /\ mode # "enforce" /\ mode' = "enforce"
              => granted'[s][c] = NotSubscribed
<1> USE DEF TypeOK
<1>1. ASSUME NEW r \in Sockets,
             SocketNext(r), ~Disconnect(r)
      PROVE  mode' = mode /\ (conn[s] = "open" => conn'[s] = "open")
  BY <1>1 DEF SocketNext, Connect, FinishHandshake, HandleAuthenticate,
              Deauthenticate, ConsumeAuthentication, ConsumeDeauthentication,
              KickOut, HandleSubscribe, SettleSubscribe, FailSubscribe, Unsubscribe
<1>2. ASSUME NEW r \in Sockets, Disconnect(r)
      PROVE  /\ mode' = mode
             /\ conn'[s] # conn[s] => granted'[s][c] = NotSubscribed
  BY <1>2 DEF Disconnect, NoSubscriptions
<1>3. ASSUME NEW next \in Modes, OnChange(next)
      PROVE  /\ conn'[s] # conn[s] => granted'[s][c] = NotSubscribed
             /\ mode # "enforce" /\ mode' = "enforce"
                  => granted'[s][c] = NotSubscribed
  BY <1>3 DEF OnChange, DropsClients, NoSubscriptions
<1>4. UNCHANGED vars => UNCHANGED <<mode, conn>>
  BY DEF vars
<1> QED
  BY <1>1, <1>2, <1>3, <1>4 DEF Next

(* Whoever is given a channel is open, and whoever closes gives all back.    *)
LEMMA HeldOnlyWhenOpenStep ==
  ASSUME TypeOK, HeldOnlyWhenOpen, [Next]_vars
  PROVE  HeldOnlyWhenOpen'
<1> SUFFICES ASSUME NEW s \in Sockets, NEW c \in Channels,
                    granted'[s][c] # NotSubscribed
             PROVE  conn'[s] = "open"
  BY DEF HeldOnlyWhenOpen
<1>1. CASE granted'[s][c] # granted[s][c]
  BY <1>1, GrantedStep
<1>2. CASE granted'[s][c] = granted[s][c]
  BY <1>2, ClosingStep DEF HeldOnlyWhenOpen
<1> QED
  BY <1>1, <1>2

(* Entering enforce closes whoever holds something unchecked.                *)
LEMMA NoUncheckedStep ==
  ASSUME TypeOK, NoUncheckedInEnforce, [Next]_vars
  PROVE  NoUncheckedInEnforce'
<1> SUFFICES ASSUME mode' = "enforce", NEW s \in Sockets, NEW c \in Channels
             PROVE  granted'[s][c] # Unchecked
  BY DEF NoUncheckedInEnforce
<1>1. CASE mode # "enforce"
  BY <1>1, ClosingStep, CredentialsDistinct
<1>2. CASE mode = "enforce"
  <2>1. Signed(authToken[s]) \in Credentials
    BY HolderTypes DEF TypeOK
  <2> QED
    BY <1>2, <2>1, GrantedStep, CredentialsDistinct DEF NoUncheckedInEnforce
<1> QED
  BY <1>1, <1>2

(* A grant that names a credential follows an allow.                         *)
LEMMA GrantsAuthorizedStep ==
  ASSUME TypeOK, GrantsAuthorized, [Next]_vars
  PROVE  GrantsAuthorized'
<1> SUFFICES ASSUME NEW s \in Sockets, NEW c \in Channels,
                    granted'[s][c] \in Credentials
             PROVE  <<granted'[s][c], c>> \in Authorized
  BY DEF GrantsAuthorized, Credentials
<1> QED
  BY GrantedStep, CredentialsDistinct DEF GrantsAuthorized
-----------------------------------------------------------------------------
(* The last element of a sequence is that of its tail, or its head when the  *)
(* tail is empty.                                                            *)
LEMMA LastOfTail ==
  ASSUME NEW S, NEW q \in Seq(S), q # <<>>
  PROVE  q[Len(q)] = IF Tail(q) = <<>> THEN Head(q)
                                       ELSE Tail(q)[Len(Tail(q))]
<1>0. /\ Len(<<>>) = 0
      /\ \A seq \in Seq(S) : seq # <<>> => Len(seq) \in Nat \ {0}
  BY EmptySeq
<1>1. /\ Len(q) \in Nat /\ Len(q) > 0
      /\ Tail(q) \in Seq(S) /\ Len(Tail(q)) = Len(q) - 1
  BY <1>0
<1>2. CASE Len(q) = 1
  <2>1. Tail(q) = <<>>
    <3>1. Len(Tail(q)) \notin Nat \ {0}
      BY <1>1, <1>2
    <3> QED
      BY <1>0, <1>1, <3>1, Zenon
  <2> QED
    BY <1>2, <2>1
<1>3. CASE Len(q) > 1
  <2>1. Tail(q) # <<>>
    <3>1. Len(Tail(q)) # 0
      BY <1>1, <1>3
    <3> QED
      BY <1>0, <3>1, Zenon
  <2>2. Tail(q)[Len(q) - 1] = q[Len(q)]
    BY <1>1, <1>3
  <2> QED
    BY <1>1, <2>1, <2>2
<1> QED
  BY <1>1, <1>2, <1>3

(* The identity a socket takes is the last event emitted for it.             *)
LEMMA EventsLeadToHolderStep ==
  ASSUME TypeOK, EventsLeadToHolder, [Next]_vars
  PROVE  EventsLeadToHolder'
<1> SUFFICES ASSUME NEW s \in Sockets
             PROVE  Holder(s)' = Latest(s)'
  BY DEF EventsLeadToHolder
<1>0. Holder(s) = Latest(s) /\ events[s] \in Seq(Identities)
  BY DEF EventsLeadToHolder, TypeOK
<1>1. ASSUME UNCHANGED <<authToken, events, identity>>
      PROVE  Holder(s)' = Latest(s)'
  BY <1>0, <1>1 DEF Holder, Latest
<1>2. ASSUME NEW r \in Sockets, NEW t \in SignedTokens,
             HandleAuthenticate(r, t)
      PROVE  Holder(s)' = Latest(s)'
  <2>1. CASE r = s
    <3>1. accepted[s] + 1 \in 1..MaxTokens
      BY <1>2, <2>1, MaxTokensAssumption DEF HandleAuthenticate, TypeOK
    <3>2. authToken'[s] = [signed |-> t, serial |-> accepted[s] + 1]
      BY <1>2, <2>1 DEF HandleAuthenticate, TypeOK
    <3>3. Holder(s)' = Owner[t]
      BY <3>1, <3>2, HolderTypes DEF Holder
    <3>4. events'[s] = Append(events[s], Owner[t])
      BY <1>2, <2>1 DEF HandleAuthenticate, TypeOK
    <3>5. Owner[t] \in Identities
      BY OwnerAssumption DEF Identities
    <3>6. Latest(s)' = Owner[t]
      BY <1>0, <3>4, <3>5 DEF Latest
    <3> QED
      BY <3>3, <3>6
  <2>2. CASE r # s
    BY <1>0, <1>2, <2>2 DEF HandleAuthenticate, Holder, Latest, TypeOK
  <2> QED
    BY <2>1, <2>2
<1>3. ASSUME NEW r \in Sockets, Deauthenticate(r)
      PROVE  Holder(s)' = Latest(s)'
  <2>1. CASE r = s
    <3>1. Holder(s)' = Anon
      BY <1>3, <2>1, HolderTypes DEF Deauthenticate, Holder, TypeOK
    <3>2. events'[s] = Append(events[s], Anon)
      BY <1>3, <2>1 DEF Deauthenticate, TypeOK
    <3>3. Latest(s)' = Anon
      BY <1>0, <3>2 DEF Latest, Identities
    <3> QED
      BY <3>1, <3>3
  <2>2. CASE r # s
    BY <1>0, <1>3, <2>2 DEF Deauthenticate, Holder, Latest, TypeOK
  <2> QED
    BY <2>1, <2>2
<1>4. ASSUME NEW r \in Sockets, authToken' = authToken, events[r] # <<>>,
             events' = [events EXCEPT ![r] = Tail(@)],
             identity' = [identity EXCEPT ![r] = Head(events[r])]
      PROVE  Holder(s)' = Latest(s)'
  <2>1. Holder(s)' = Holder(s)
    BY <1>4 DEF Holder
  <2>2. CASE r = s
    <3>1. events'[s] = Tail(events[s]) /\ identity'[s] = Head(events[s])
      BY <1>4, <2>2 DEF TypeOK
    <3>2. Latest(s)' = events[s][Len(events[s])]
      BY <1>0, <1>4, <2>2, <3>1, LastOfTail DEF Latest
    <3>3. Latest(s) = events[s][Len(events[s])]
      BY <1>4, <2>2 DEF Latest
    <3> QED
      BY <1>0, <2>1, <3>2, <3>3
  <2>3. CASE r # s
    BY <1>0, <1>4, <2>1, <2>3 DEF Latest, TypeOK
  <2> QED
    BY <2>2, <2>3
<1>5. ASSUME NEW r \in Sockets, SocketNext(r)
      PROVE  Holder(s)' = Latest(s)'
  <2>1. CASE ConsumeAuthentication(r) \/ ConsumeDeauthentication(r)
    <3>1. /\ authToken' = authToken /\ events[r] # <<>>
          /\ events' = [events EXCEPT ![r] = Tail(@)]
          /\ identity' = [identity EXCEPT ![r] = Head(events[r])]
      BY <2>1 DEF ConsumeAuthentication, ConsumeDeauthentication
    <3> QED
      BY <1>4, <3>1
  <2>2. CASE UNCHANGED <<authToken, events, identity>>
    BY <1>1, <2>2
  <2>3. CASE Deauthenticate(r) \/ \E t \in SignedTokens : HandleAuthenticate(r, t)
    BY <1>2, <1>3, <2>3
  <2> QED
    BY <1>5, <2>1, <2>2, <2>3
       DEF SocketNext, Connect, FinishHandshake, Disconnect, KickOut,
           HandleSubscribe, SettleSubscribe, FailSubscribe, Unsubscribe
<1>6. ASSUME \/ \E next \in Modes : OnChange(next)
             \/ UNCHANGED vars
      PROVE  UNCHANGED <<authToken, events, identity>>
  BY <1>6 DEF OnChange, vars
<1> QED
  BY <1>1, <1>5, <1>6 DEF Next
-----------------------------------------------------------------------------
(* A scheduled kick-out stays scheduled until the channel is gone.           *)
LEMMA KickScheduledStep ==
  ASSUME TypeOK, [Next]_vars, NEW s \in Sockets, NEW c \in Channels,
         KickScheduled(s, c), granted'[s][c] # NotSubscribed
  PROVE  KickScheduled(s, c)'
<1> PICK list \in kicks[s] : c \in list
  BY DEF KickScheduled
<1> SUFFICES list \in kicks'[s]
  BY DEF KickScheduled
<1> USE DEF TypeOK
<1>1. ASSUME NEW r \in Sockets, KickOutAll(r) \/ kicks' = kicks
      PROVE  list \in kicks'[s]
  BY <1>1 DEF KickOutAll
<1>2. ASSUME NEW r \in Sockets, NEW out \in SUBSET Channels, KickOut(r, out)
      PROVE  list \in kicks'[s]
  <2>1. CASE r = s /\ out = list
    BY <1>2, <2>1 DEF KickOut, KickedFrom
  <2>2. CASE ~(r = s /\ out = list)
    BY <1>2, <2>2 DEF KickOut
  <2> QED
    BY <2>1, <2>2
<1>3. ASSUME NEW r \in Sockets, SocketNext(r),
             ~\E out \in SUBSET Channels : KickOut(r, out)
      PROVE  KickOutAll(r) \/ kicks' = kicks
  BY <1>3 DEF SocketNext, Connect, FinishHandshake, Disconnect,
              HandleAuthenticate, Deauthenticate, ConsumeAuthentication,
              ConsumeDeauthentication, HandleSubscribe, SettleSubscribe,
              FailSubscribe, Unsubscribe
<1>4. ASSUME \/ \E next \in Modes : OnChange(next)
             \/ UNCHANGED vars
      PROVE  kicks' = kicks
  BY <1>4 DEF OnChange, vars
<1> QED
  BY <1>1, <1>2, <1>3, <1>4 DEF Next

(* In enforce, consuming an event either leaves in sight who was given a     *)
(* channel, or schedules a kick-out of the channel.                          *)
LEMMA ConsumeStep ==
  ASSUME TypeOK, mode = "enforce", NEW r \in Sockets,
         ConsumeAuthentication(r) \/ ConsumeDeauthentication(r),
         NEW s \in Sockets, NEW c \in Channels,
         granted[s][c] # NotSubscribed,
         NEW who \in Principals, InSight(s, who)
  PROVE  InSight(s, who)' \/ KickScheduled(s, c)'
<1>1. /\ events[r] # <<>>
      /\ events' = [events EXCEPT ![r] = Tail(@)]
      /\ identity' = [identity EXCEPT ![r] = Head(events[r])]
  BY DEF ConsumeAuthentication, ConsumeDeauthentication
<1>2. CASE r # s
  BY <1>1, <1>2 DEF InSight, TypeOK
<1>3. CASE r = s
  <2>1. events[s] \in Seq(Identities)
    BY DEF TypeOK
  <2>2. events'[s] = Tail(events[s]) /\ identity'[s] = Head(events[s])
    BY <1>1, <1>3 DEF TypeOK
  <2>3. CASE who = identity[s] /\ Head(events[s]) # who
    <3>1. who # Anon
      BY AnonAssumption
    <3>2. KickOutAll(s)
      BY <1>3, <2>3, <3>1
         DEF ConsumeAuthentication, ConsumeDeauthentication, IdentityChanged
    <3>3. c \in Subscriptions(s)
      BY DEF Subscriptions
    <3>4. Subscriptions(s) \in kicks'[s]
      BY <3>2, <3>3 DEF KickOutAll, TypeOK
    <3> QED
      BY <3>3, <3>4 DEF KickScheduled
  <2>4. CASE who = Head(events[s])
    BY <2>2, <2>4 DEF InSight
  <2>5. CASE \E i \in 2..Len(events[s]) : events[s][i] = who
    <3> PICK i \in 2..Len(events[s]) : events[s][i] = who
      BY <2>5
    <3>1. i - 1 \in 1..Len(events'[s]) /\ events'[s][i - 1] = who
      BY <2>1, <2>2
    <3> QED
      BY <3>1 DEF InSight
  <2>6. ASSUME NEW i \in 1..Len(events[s]), events[s][i] = who
        PROVE  who = Head(events[s]) \/ i \in 2..Len(events[s])
    BY <2>1, <2>6
  <2> QED
    BY <2>3, <2>4, <2>5, <2>6 DEF InSight
<1> QED
  BY <1>2, <1>3

(* What is in sight stays so unless an event is consumed.                    *)
LEMMA SightStep ==
  ASSUME TypeOK, [Next]_vars, NEW s \in Sockets, NEW who, InSight(s, who),
         ~\E r \in Sockets : ConsumeAuthentication(r) \/ ConsumeDeauthentication(r)
  PROVE  InSight(s, who)'
<1>1. ASSUME UNCHANGED <<events, identity>>
      PROVE  InSight(s, who)'
  BY <1>1 DEF InSight
<1>2. ASSUME NEW r \in Sockets, NEW e \in Identities,
             events' = [events EXCEPT ![r] = Append(@, e)],
             identity' = identity
      PROVE  InSight(s, who)'
  <2>1. events[s] \in Seq(Identities)
    BY DEF TypeOK
  <2>2. events'[s] \in {events[s], Append(events[s], e)}
    BY <1>2 DEF TypeOK
  <2>3. /\ 1..Len(events[s]) \subseteq 1..Len(events'[s])
        /\ \A i \in 1..Len(events[s]) : events'[s][i] = events[s][i]
    BY <2>1, <2>2
  <2> QED
    BY <1>2, <2>3 DEF InSight
<1>3. ASSUME NEW r \in Sockets, SocketNext(r)
      PROVE  InSight(s, who)'
  <2>1. CASE Deauthenticate(r)
    BY <1>2, <2>1 DEF Deauthenticate, Identities
  <2>2. CASE \E t \in SignedTokens : HandleAuthenticate(r, t)
    <3> PICK t \in SignedTokens : HandleAuthenticate(r, t)
      BY <2>2
    <3>1. Owner[t] \in Identities
      BY OwnerAssumption DEF Identities
    <3> QED
      BY <1>2, <3>1 DEF HandleAuthenticate
  <2>3. CASE UNCHANGED <<events, identity>>
    BY <1>1, <2>3
  <2> QED
    BY <1>3, <2>1, <2>2, <2>3
       DEF SocketNext, Connect, FinishHandshake, Disconnect, KickOut,
           HandleSubscribe, SettleSubscribe, FailSubscribe, Unsubscribe
<1>4. ASSUME \/ \E next \in Modes : OnChange(next)
             \/ UNCHANGED vars
      PROVE  UNCHANGED <<events, identity>>
  BY <1>4 DEF OnChange, vars
<1> QED
  BY <1>1, <1>3, <1>4 DEF Next

(* An identity leaves sight only with its channels listed for a kick-out.    *)
LEMMA GrantsInSightStep ==
  ASSUME TypeOK, EventsLeadToHolder, GrantsInSight, [Next]_vars
  PROVE  GrantsInSight'
<1> SUFFICES ASSUME mode' = "enforce", NEW s \in Sockets, NEW c \in Channels,
                    granted'[s][c] \in Credentials, ~KickScheduled(s, c)',
                    NEW who, who = Who(granted'[s][c]), who # Anon
             PROVE  InSight(s, who)'
  BY DEF GrantsInSight
<1>1. granted'[s][c] # NotSubscribed /\ granted'[s][c] # Unchecked
  BY CredentialsDistinct
<1>2. mode = "enforce"
  BY <1>1, ClosingStep
<1>3. CASE granted'[s][c] # granted[s][c]
  <2>1. /\ granted'[s][c] = Signed(authToken[s])
        /\ UNCHANGED <<events, identity>>
    BY <1>1, <1>3, GrantedStep
  <2>2. who = Latest(s)
    BY <2>1 DEF EventsLeadToHolder, Holder
  <2>3. events[s] \in Seq(Identities)
    BY DEF TypeOK
  <2>4. InSight(s, who)
    BY <2>2, <2>3 DEF InSight, Latest
  <2> QED
    BY <2>1, <2>4 DEF InSight
<1>4. CASE granted'[s][c] = granted[s][c]
  <2>1. ~KickScheduled(s, c)
    BY <1>1, KickScheduledStep
  <2>2. InSight(s, who)
    BY <1>2, <1>4, <2>1 DEF GrantsInSight
  <2>3. who \in Principals
    BY HolderTypes DEF Identities
  <2>4. CASE \E r \in Sockets : ConsumeAuthentication(r) \/ ConsumeDeauthentication(r)
    BY <1>1, <1>2, <1>4, <2>2, <2>3, <2>4, ConsumeStep
  <2>5. CASE ~\E r \in Sockets : ConsumeAuthentication(r) \/ ConsumeDeauthentication(r)
    BY <2>2, <2>5, SightStep
  <2> QED
    BY <2>4, <2>5
<1> QED
  BY <1>3, <1>4
-----------------------------------------------------------------------------
(* All parts hold at first.                                                 *)
LEMMA InvInit == Init => IInv
<1> SUFFICES ASSUME Init PROVE IInv
  OBVIOUS
<1>1. TypeOK
  BY TypeInit
<1>2. \A s \in Sockets, c \in Channels : granted[s][c] = NotSubscribed
  BY DEF Init
<1>3. HeldOnlyWhenOpen /\ NoUncheckedInEnforce /\ GrantsAuthorized /\ GrantsInSight
  BY <1>2, CredentialsDistinct
     DEF HeldOnlyWhenOpen, NoUncheckedInEnforce, GrantsAuthorized, GrantsInSight
<1>4. EventsLeadToHolder
  BY HolderTypes DEF Init, EventsLeadToHolder, Holder, Latest
<1> QED
  BY <1>1, <1>3, <1>4 DEF IInv

(* Every step preserves each part, with the help of the others.              *)
LEMMA InvStep == IInv /\ [Next]_vars => IInv'
BY TypeStep, HeldOnlyWhenOpenStep, NoUncheckedStep, GrantsAuthorizedStep,
   EventsLeadToHolderStep, GrantsInSightStep DEF IInv

(* With no event waiting the identity recorded is the one the socket has, so *)
(* who is in sight is who the socket is.                                     *)
LEMMA InvImplies == IInv => NoUncheckedInEnforce /\ HeldByItsPrincipal
<1> SUFFICES ASSUME IInv, mode = "enforce",
                    NEW s \in Sockets, NEW c \in Channels,
                    granted[s][c] \in Credentials, events[s] = <<>>,
                    ~KickScheduled(s, c)
             PROVE  /\ <<granted[s][c], c>> \in Authorized
                    /\ Who(granted[s][c]) \in {Anon, Holder(s)}
  BY DEF IInv, HeldByItsPrincipal
<1>1. Holder(s) = identity[s]
  BY DEF IInv, EventsLeadToHolder, Latest
<1>2. Who(granted[s][c]) = Anon \/ InSight(s, Who(granted[s][c]))
  BY DEF IInv, GrantsInSight
<1>3. Len(events[s]) = 0
  OBVIOUS
<1> QED
  BY <1>1, <1>2, <1>3 DEF IInv, GrantsAuthorized, InSight

(* In enforce no socket ever holds a channel it was given without an allow,  *)
(* whatever the order of answers, mode changes and reconnections.            *)
THEOREM NothingUnchecked == Spec => []NoUncheckedInEnforce
BY InvInit, InvStep, InvImplies, PTL DEF Spec

(* In enforce, a channel that no event or kick-out is about to take away was *)
(* authorized, and for the principal the socket is.                          *)
THEOREM PrincipalsKeepTheirChannels == Spec => []HeldByItsPrincipal
BY InvInit, InvStep, InvImplies, PTL DEF Spec
-----------------------------------------------------------------------------
(* SocketAuth follows the rules of ChannelAccess: its initial states are     *)
(* initial there, and each of its steps is a step of the abstract module or  *)
(* leaves the abstract variables alone.                                      *)

(* The credential of each socket, as ChannelAccess knows it.                 *)
Cred == [s \in Sockets |-> Signed(authToken[s])]

(* Nobody is known and nothing is held at first.                             *)
LEMMA AccessInit == Init => Access!Init
BY HolderTypes DEF Init, Access!Init, Access!NoChannels, Signed, Modes

(* Losing any set of channels is a step of the abstract module.              *)
LEMMA DropIsRelease ==
  ASSUME NEW s \in Sockets, NEW list \in SUBSET Channels,
         granted' = [granted EXCEPT ![s] = KickedFrom(s, list)],
         UNCHANGED <<mode, authToken>>
  PROVE  Access!Next
<1>1. Access!Release(s)
  BY DEF Access!Release, KickedFrom
<1> QED
  BY <1>1 DEF Access!Next

(* A subscription is given to the credential held, or in a looser mode.      *)
LEMMA SubscribeIsAcquire ==
  ASSUME NEW s \in Sockets, NEW c \in Channels, NEW g, Subscribe(s, c, g),
         UNCHANGED <<mode, authToken>>,
         \/ g = Signed(authToken[s]) /\ <<g, c>> \in Authorized
         \/ g = Unchecked /\ mode # "enforce"
  PROVE  Access!Next \/ granted' = granted
<1>1. CASE granted' = [granted EXCEPT ![s][c] = g]
  <2>1. Access!Acquire(s, c)
    BY <1>1 DEF Access!Acquire
  <2> QED
    BY <2>1 DEF Access!Next
<1>2. CASE granted' = granted
  BY <1>2
<1> QED
  BY <1>1, <1>2 DEF Subscribe

(* A token that comes or goes changes the credential of its socket alone.    *)
LEMMA CredentialIsChanged ==
  ASSUME NEW s \in Sockets, NEW tok \in TokenObjects \cup {Anon},
         authToken \in [Sockets -> TokenObjects \cup {Anon}],
         authToken' = [authToken EXCEPT ![s] = tok],
         UNCHANGED <<mode, granted>>
  PROVE  Access!Next
<1>1. Cred' = [Cred EXCEPT ![s] = Signed(tok)]
  BY DEF Cred
<1>2. Signed(tok) \in Credentials
  BY HolderTypes
<1>3. Access!ChangeCredential(s)
  BY <1>1, <1>2 DEF Access!ChangeCredential, Cred
<1> QED
  BY <1>3 DEF Access!Next

(* Every step of the policy follows the rules.                               *)
LEMMA AccessStep ==
  ASSUME TypeOK, [Next]_vars
  PROVE  [Access!Next]_(Access!vars)
<1> USE DEF TypeOK
<1>1. ASSUME UNCHANGED <<mode, authToken, granted>>
      PROVE  UNCHANGED Access!vars
  BY <1>1 DEF Access!vars
<1>2. ASSUME NEW s \in Sockets, Disconnect(s) PROVE Access!Next
  <2>1. NoSubscriptions = KickedFrom(s, Channels)
    BY DEF NoSubscriptions, KickedFrom
  <2> QED
    BY <1>2, <2>1, DropIsRelease DEF Disconnect
<1>3. ASSUME NEW s \in Sockets, NEW list \in SUBSET Channels, KickOut(s, list)
      PROVE  Access!Next
  <2>1. granted' = [granted EXCEPT ![s] = KickedFrom(s, list)]
    BY <1>3 DEF KickOut
  <2>2. UNCHANGED <<mode, authToken>>
    BY <1>3 DEF KickOut
  <2> QED
    BY <2>1, <2>2, DropIsRelease
<1>4. ASSUME NEW s \in Sockets, NEW c \in Channels, Unsubscribe(s, c)
      PROVE  Access!Next
  <2>1. [granted[s] EXCEPT ![c] = NotSubscribed] = KickedFrom(s, {c})
    BY DEF KickedFrom
  <2>2. granted' = [granted EXCEPT ![s] = KickedFrom(s, {c})]
    BY <1>4, <2>1 DEF Unsubscribe
  <2>3. UNCHANGED <<mode, authToken>>
    BY <1>4 DEF Unsubscribe
  <2>4. {c} \in SUBSET Channels
    OBVIOUS
  <2> QED
    BY <2>2, <2>3, <2>4, DropIsRelease
<1>5. ASSUME NEW s \in Sockets, NEW t \in SignedTokens, HandleAuthenticate(s, t)
      PROVE  Access!Next
  <2>1. [signed |-> t, serial |-> accepted[s] + 1] \in TokenObjects
    BY <1>5, MaxTokensAssumption DEF HandleAuthenticate, TokenObjects
  <2> QED
    BY <1>5, <2>1, CredentialIsChanged DEF HandleAuthenticate
<1>6. ASSUME NEW s \in Sockets, Deauthenticate(s) PROVE Access!Next
  BY <1>6, CredentialIsChanged DEF Deauthenticate
<1>7. ASSUME NEW s \in Sockets, NEW c \in Channels, HandleSubscribe(s, c)
      PROVE  Access!Next \/ UNCHANGED <<mode, authToken, granted>>
  <2>1. CASE mode = "off"
    <3>1. Subscribe(s, c, Unchecked)
      BY <1>7, <2>1 DEF HandleSubscribe
    <3>2. UNCHANGED <<mode, authToken>>
      BY <1>7 DEF HandleSubscribe
    <3> QED
      BY <2>1, <3>1, <3>2, SubscribeIsAcquire
  <2>2. CASE mode # "off"
    BY <1>7, <2>2 DEF HandleSubscribe
  <2> QED
    BY <2>1, <2>2
<1>8. ASSUME NEW s \in Sockets, NEW allow \in BOOLEAN, SettleSubscribe(s, allow)
      PROVE  Access!Next \/ UNCHANGED <<mode, authToken, granted>>
  <2>1. pending[s].channel \in Channels /\ UNCHANGED <<mode, authToken>>
    BY <1>8 DEF SettleSubscribe, Requests
  <2>2. CASE allow /\ DecisionStands(s)
    <3>1. /\ Subscribe(s, pending[s].channel, Signed(authToken[s]))
          /\ <<Signed(authToken[s]), pending[s].channel>> \in Authorized
      BY <1>8, <2>2 DEF SettleSubscribe, Answers, DecisionStands
    <3> QED
      BY <2>1, <3>1, SubscribeIsAcquire
  <2>3. CASE ~(allow /\ DecisionStands(s)) /\ mode # "enforce"
    <3>1. Subscribe(s, pending[s].channel, Unchecked)
      BY <1>8, <2>3 DEF SettleSubscribe
    <3> QED
      BY <2>1, <2>3, <3>1, SubscribeIsAcquire
  <2>4. CASE ~(allow /\ DecisionStands(s)) /\ mode = "enforce"
    BY <1>8, <2>1, <2>4 DEF SettleSubscribe
  <2> QED
    BY <2>2, <2>3, <2>4
<1>9. ASSUME NEW next \in Modes, OnChange(next)
      PROVE  Access!Next \/ UNCHANGED Access!vars
  <2>1. UNCHANGED authToken
    BY <1>9 DEF OnChange
  <2>2. CASE DropsClients(next)
    <3>1. Access!Enforce
      BY <1>9, <2>1, <2>2
         DEF OnChange, DropsClients, Access!Enforce, Access!NoChannels,
             NoSubscriptions
    <3> QED
      BY <3>1 DEF Access!Next
  <2>3. CASE mode = "enforce"
    <3>1. Access!Relax
      BY <1>9, <2>1, <2>3 DEF OnChange, DropsClients, Access!Relax
    <3> QED
      BY <3>1 DEF Access!Next
  <2>4. CASE ~DropsClients(next) /\ mode # "enforce"
    BY <1>9, <2>1, <2>4 DEF OnChange, DropsClients, Access!vars
  <2> QED
    BY <2>2, <2>3, <2>4
<1>10. ASSUME NEW s \in Sockets, SocketNext(s)
       PROVE  Access!Next \/ UNCHANGED <<mode, authToken, granted>>
  <2>1. CASE \/ Connect(s) \/ FinishHandshake(s)
             \/ ConsumeAuthentication(s) \/ ConsumeDeauthentication(s)
    BY <2>1 DEF Connect, FinishHandshake, ConsumeAuthentication,
                ConsumeDeauthentication
  <2> QED
    BY <1>2, <1>3, <1>4, <1>5, <1>6, <1>7, <1>8, <1>10, <2>1, FailedIsDenied
       DEF SocketNext
<1>11. UNCHANGED vars => UNCHANGED <<mode, authToken, granted>>
  BY DEF vars
<1> QED
  BY <1>1, <1>9, <1>10, <1>11 DEF Next

(* The server follows the rules of ChannelAccess, for any sockets, channels  *)
(* and tokens.                                                               *)
THEOREM AccessRulesFollowed == Spec => FollowsAccessRules
<1>1. Init => Access!Init
  BY AccessInit
<1>2. TypeOK /\ [Next]_vars => [Access!Next]_(Access!vars)
  BY AccessStep
<1> QED
  BY <1>1, <1>2, TypeCorrect, PTL DEF Spec, FollowsAccessRules, Access!Safety

-----------------------------------------------------------------------------
(* The instance TLC checks first: alice holds two tokens, bob one, and the   *)
(* token forged fails validateClaims.                                        *)
CONSTANTS s1, c1, c2, alice1, alice2, bob1, forged, alice, bob

MCSignedTokens == {alice1, alice2, bob1, forged}
MCPrincipals == {alice, bob}
MCOwner == alice1 :> alice @@ alice2 :> alice @@ bob1 :> bob @@ forged :> bob
MCBadClaims == {forged}
(* Both principals may hold c1, an anonymous socket too (the install         *)
(* channel); only alice's first token may hold c2.                           *)
MCAuthorized ==
  {pair \in ({Anon, alice1, alice2, bob1} \X {c1}) \cup {<<alice1, c2>>} :
     pair[2] \in Channels}
=============================================================================
