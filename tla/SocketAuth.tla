----------------------------- MODULE SocketAuth -----------------------------
(***************************************************************************)
(* The subscription policy of the realtime server (socket/lib/middleware.js *)
(* and the runtime switch in socket/lib/app.js): which channels a websocket *)
(* holds while its token comes and goes, the mode changes under it, and the *)
(* answers to its subscriptions are awaited.                                *)
(*                                                                          *)
(* A socket is one SocketCluster connection object: it opens once, closes   *)
(* once and is never reused; a client that reconnects is another socket.    *)
(* The program is single threaded, so what one turn of the event loop does  *)
(* is one action.  Everything that is awaited, or delivered by an event     *)
(* stream, is an action of its own.                                         *)
(***************************************************************************)
EXTENDS Naturals, Sequences

CONSTANTS
  Sockets,       \* connection objects
  Channels,
  SignedTokens,  \* the signed tokens clients hold
  Principals,    \* what tells two identities apart: the pair (sub, cid)
  Owner,         \* the principal a signed token names
  BadClaims,     \* signed tokens that fail validateClaims
  Anon,          \* no token, and the identity of a socket without one
  Idle,          \* no action is being decided
  Authorized,    \* the <<token or Anon, channel>> the authorizer ever allows
  MaxTokens,     \* bound: tokens a socket accepts in its life
  MaxBacklog     \* bound: auth events of a socket not consumed yet

ASSUME OwnerAssumption == Owner \in [SignedTokens -> Principals]
ASSUME BadClaimsAssumption == BadClaims \subseteq SignedTokens
ASSUME AnonAssumption == Anon \notin SignedTokens /\ Anon \notin Principals
ASSUME AuthorizedAssumption ==
  Authorized \subseteq ((SignedTokens \cup {Anon}) \X Channels)
ASSUME GrantAssumption ==
  {"notSubscribed", "unchecked"} \cap (SignedTokens \cup {Anon}) = {}
ASSUME MaxTokensAssumption == MaxTokens \in Nat
ASSUME MaxBacklogAssumption == MaxBacklog \in Nat

VARIABLES
  mode,       \* policy.mode: "off", "log" or "enforce"
  conn,       \* conn[s]: "new", "handshake", "open" or "closed"
  authToken,  \* authToken[s]: the token object the socket holds, or Anon
  accepted,   \* accepted[s]: how many token objects the socket has accepted
  granted,    \* granted[s][c]: how s came to hold channel c, or NotSubscribed
  pending,    \* pending[s]: the SUBSCRIBE action being decided, or Idle
  events,     \* events[s]: authentication and deauthentication events not
              \* consumed yet; an event is the identity the socket took
  identity,   \* identity[s]: policy.identities, Anon where it has no entry
  kicks       \* kicks[s]: the channel lists of the scheduled kickOut calls

vars == <<mode, conn, authToken, accepted, granted, pending, events,
          identity, kicks>>

Modes == {"off", "log", "enforce"}
Identities == Principals \cup {Anon}
Credentials == SignedTokens \cup {Anon}

(* A token object: two objects decoded from one signed token are different. *)
TokenObjects == [signed : SignedTokens, serial : 1..MaxTokens]

NotSubscribed == "notSubscribed"
(* Held without an allow: granted in mode off, or against a would-deny.     *)
Unchecked == "unchecked"

(* A SUBSCRIBE action that waits for the authorizer, with the token captured *)
(* when it was asked.                                                        *)
Requests == [channel : Channels, token : TokenObjects \cup {Anon}]

ASSUME IdleAssumption == Idle \notin Requests
ASSUME AnonTokenAssumption == Anon \notin TokenObjects

Signed(tok) == IF tok = Anon THEN Anon ELSE tok.signed
Who(cred) == IF cred = Anon THEN Anon ELSE Owner[cred]
Holder(s) == Who(Signed(authToken[s]))
Subscriptions(s) == {c \in Channels : granted[s][c] # NotSubscribed}
KickScheduled(s, c) == \E list \in kicks[s] : c \in list

TypeOK ==
  /\ mode \in Modes
  /\ conn \in [Sockets -> {"new", "handshake", "open", "closed"}]
  /\ authToken \in [Sockets -> TokenObjects \cup {Anon}]
  /\ accepted \in [Sockets -> 0..MaxTokens]
  /\ granted \in [Sockets -> [Channels ->
                    {NotSubscribed, Unchecked} \cup Credentials]]
  /\ pending \in [Sockets -> {Idle} \cup Requests]
  /\ events \in [Sockets -> Seq(Identities)]
  /\ identity \in [Sockets -> Identities]
  /\ kicks \in [Sockets -> SUBSET SUBSET Channels]

Init ==
  /\ mode \in Modes
  /\ conn = [s \in Sockets |-> "new"]
  /\ authToken = [s \in Sockets |-> Anon]
  /\ accepted = [s \in Sockets |-> 0]
  /\ granted = [s \in Sockets |-> [c \in Channels |-> NotSubscribed]]
  /\ pending = [s \in Sockets |-> Idle]
  /\ events = [s \in Sockets |-> <<>>]
  /\ identity = [s \in Sockets |-> Anon]
  /\ kicks = [s \in Sockets |-> {}]
-----------------------------------------------------------------------------
(* Connections. *)

Connect(s) ==
  /\ conn[s] = "new"
  /\ conn' = [conn EXCEPT ![s] = "handshake"]
  /\ UNCHANGED <<mode, authToken, accepted, granted, pending, events,
                 identity, kicks>>

FinishHandshake(s) ==
  /\ conn[s] = "handshake"
  /\ conn' = [conn EXCEPT ![s] = "open"]
  /\ UNCHANGED <<mode, authToken, accepted, granted, pending, events,
                 identity, kicks>>

NoSubscriptions == [c \in Channels |-> NotSubscribed]

Disconnect(s) ==
  /\ conn[s] \in {"handshake", "open"}
  /\ conn' = [conn EXCEPT ![s] = "closed"]
  /\ granted' = [granted EXCEPT ![s] = NoSubscriptions]
  /\ UNCHANGED <<mode, authToken, accepted, pending, events, identity, kicks>>
-----------------------------------------------------------------------------
(* Tokens.  SocketCluster verifies the signature, asks the AUTHENTICATE      *)
(* middleware, and emits one event for the token it takes or drops.          *)

Live(s) == conn[s] \in {"handshake", "open"}

(* handleAuthenticate lets a token in whose claims are valid, in any mode.   *)
HandleAuthenticate(s, t) ==
  /\ Live(s)
  /\ t \notin BadClaims
  /\ accepted[s] < MaxTokens
  /\ Len(events[s]) < MaxBacklog
  /\ accepted' = [accepted EXCEPT ![s] = @ + 1]
  /\ authToken' = [authToken EXCEPT
                     ![s] = [signed |-> t, serial |-> accepted[s] + 1]]
  /\ events' = [events EXCEPT ![s] = Append(@, Owner[t])]
  /\ UNCHANGED <<mode, conn, granted, pending, identity, kicks>>

(* The socket loses its token: it expired and a packet or pong showed it,    *)
(* the client removed it, or a re-authentication was refused (isBadToken).   *)
Deauthenticate(s) ==
  /\ Live(s)
  /\ Len(events[s]) < MaxBacklog
  /\ authToken' = [authToken EXCEPT ![s] = Anon]
  /\ events' = [events EXCEPT ![s] = Append(@, Anon)]
  /\ UNCHANGED <<mode, conn, accepted, granted, pending, identity, kicks>>

(* kickOutAll reads the mode when the event is consumed, and the channels    *)
(* the socket holds then; kickOut itself runs in a later microtask.          *)
KickOutAll_InLogOnly(s) ==
  IF mode = "log" /\ Subscriptions(s) # {}
    THEN kicks' = [kicks EXCEPT ![s] = @ \cup {Subscriptions(s)}]
    ELSE kicks' = kicks

KickOutAll(s) ==
  IF mode = "enforce" /\ Subscriptions(s) # {}
    THEN kicks' = [kicks EXCEPT ![s] = @ \cup {Subscriptions(s)}]
    ELSE kicks' = kicks

(* An authentication as somebody else than the last identity recorded.       *)
IdentityChanged_Never(s, who) == FALSE
IdentityChanged(s, who) == identity[s] # Anon /\ identity[s] # who

ConsumeAuthentication(s) ==
  /\ events[s] # <<>> /\ Head(events[s]) # Anon
  /\ events' = [events EXCEPT ![s] = Tail(@)]
  /\ identity' = [identity EXCEPT ![s] = Head(events[s])]
  /\ IF IdentityChanged(s, Head(events[s]))
       THEN KickOutAll(s)
       ELSE kicks' = kicks
  /\ UNCHANGED <<mode, conn, authToken, accepted, granted, pending>>

ConsumeDeauthentication(s) ==
  /\ events[s] # <<>> /\ Head(events[s]) = Anon
  /\ events' = [events EXCEPT ![s] = Tail(@)]
  /\ identity' = [identity EXCEPT ![s] = Anon]
  /\ KickOutAll(s)
  /\ UNCHANGED <<mode, conn, authToken, accepted, granted, pending>>

KickedFrom_EntryDeleted(s, list) ==
  [c \in Channels \ list |-> granted[s][c]]

KickedFrom(s, list) ==
  [c \in Channels |-> IF c \in list THEN NotSubscribed ELSE granted[s][c]]

KickOut(s, list) ==
  /\ list \in kicks[s]
  /\ kicks' = [kicks EXCEPT ![s] = @ \ {list}]
  /\ granted' = [granted EXCEPT ![s] = KickedFrom(s, list)]
  /\ UNCHANGED <<mode, conn, authToken, accepted, pending, events, identity>>
-----------------------------------------------------------------------------
(* Subscriptions.  The inbound stream of a socket is consumed one action at  *)
(* a time, so a socket has at most one action being decided.                 *)

Subscribe(s, c, grant) ==
  granted' = IF conn[s] = "open"
               THEN [granted EXCEPT ![s][c] = grant]
               ELSE granted

(* handleSubscribe up to its await: off allows at once, the other modes ask  *)
(* the authorizer about the token the socket holds now.                      *)
HandleSubscribe(s, c) ==
  /\ conn[s] = "open"
  /\ pending[s] = Idle
  /\ IF mode = "off"
       THEN /\ Subscribe(s, c, Unchecked)
            /\ pending' = pending
       ELSE /\ pending' = [pending EXCEPT
                 ![s] = [channel |-> c, token |-> authToken[s]]]
            /\ granted' = granted
  /\ UNCHANGED <<mode, conn, authToken, accepted, events, identity, kicks>>

(* An allow counts only for the token object it was asked for.               *)
DecisionStands_TokenIgnored(s) == TRUE
DecisionStands(s) == authToken[s] = pending[s].token

(* The authorizer answers allow only for a pair it authorizes; a denial or a *)
(* timeout may come for any pair.                                            *)
Answers(s, allow) ==
  allow => <<Signed(pending[s].token), pending[s].channel>> \in Authorized

(* handleSubscribe after its await.  The mode is the one at the answer, not  *)
(* the one at the request.  A denial is logged and recorded first, which may *)
(* throw: see FailSubscribe.                                                 *)
SettleSubscribe(s, allow) ==
  /\ pending[s] # Idle
  /\ Answers(s, allow)
  /\ pending' = [pending EXCEPT ![s] = Idle]
  /\ IF allow /\ DecisionStands(s)
       THEN Subscribe(s, pending[s].channel, Signed(pending[s].token))
       ELSE IF mode = "enforce"
              THEN granted' = granted
              ELSE Subscribe(s, pending[s].channel, Unchecked)
  /\ UNCHANGED <<mode, conn, authToken, accepted, events, identity, kicks>>

(* What an action that failed comes to: the mode of the moment decides, in   *)
(* the catch, or in the finally where the catch threw before it settled.     *)
SettleFailed_FailsOpen(s) == Subscribe(s, pending[s].channel, Unchecked)

SettleFailed(s) ==
  IF mode = "enforce"
    THEN granted' = granted
    ELSE Subscribe(s, pending[s].channel, Unchecked)

(* handleSubscribe throws: the authorizer did, whatever the mode has become  *)
(* meanwhile, or the log or the record of a denial.                          *)
FailSubscribe(s) ==
  /\ pending[s] # Idle
  /\ pending' = [pending EXCEPT ![s] = Idle]
  /\ SettleFailed(s)
  /\ UNCHANGED <<mode, conn, authToken, accepted, events, identity, kicks>>

Unsubscribe(s, c) ==
  /\ conn[s] = "open"
  /\ pending[s] = Idle
  /\ granted[s][c] # NotSubscribed
  /\ granted' = [granted EXCEPT ![s][c] = NotSubscribed]
  /\ UNCHANGED <<mode, conn, authToken, accepted, pending, events, identity,
                 kicks>>
-----------------------------------------------------------------------------
(* A config poll changed the mode (runtime.onChange in app.js).  Entering    *)
(* enforce disconnects every client; a socket still in its handshake is not  *)
(* among the clients and stays.                                              *)
DropsClients_Never(next) == FALSE
DropsClients(next) == next = "enforce" /\ mode # "enforce"

OnChange(next) ==
  /\ next # mode
  /\ mode' = next
  /\ IF DropsClients(next)
       THEN /\ conn' = [s \in Sockets |->
                          IF conn[s] = "open" THEN "closed" ELSE conn[s]]
            /\ granted' = [s \in Sockets |-> NoSubscriptions]
       ELSE UNCHANGED <<conn, granted>>
  /\ UNCHANGED <<authToken, accepted, pending, events, identity, kicks>>
-----------------------------------------------------------------------------
SocketNext(s) ==
  \/ Connect(s)
  \/ FinishHandshake(s)
  \/ Disconnect(s)
  \/ \E t \in SignedTokens : HandleAuthenticate(s, t)
  \/ Deauthenticate(s)
  \/ ConsumeAuthentication(s)
  \/ ConsumeDeauthentication(s)
  \/ \E list \in SUBSET Channels : KickOut(s, list)
  \/ \E c \in Channels : HandleSubscribe(s, c)
  \/ \E allow \in BOOLEAN : SettleSubscribe(s, allow)
  \/ FailSubscribe(s)
  \/ \E c \in Channels : Unsubscribe(s, c)

Next ==
  \/ \E s \in Sockets : SocketNext(s)
  \/ \E next \in Modes : OnChange(next)

Spec == Init /\ [][Next]_vars

(* What the event loop owes: an event or a microtask that is queued runs.    *)
Fairness ==
  \A s \in Sockets :
    /\ WF_vars(ConsumeAuthentication(s) \/ ConsumeDeauthentication(s))
    /\ \A list \in SUBSET Channels : WF_vars(KickOut(s, list))

FairSpec == Spec /\ Fairness
-----------------------------------------------------------------------------
(* Properties. *)

(* While the mode is enforce, no open socket holds a channel it was given    *)
(* without an allow: not one from a looser mode, not one whose action was    *)
(* still being decided when the mode became enforce, and not one whose       *)
(* action failed by then.                                                    *)
NoUncheckedInEnforce ==
  mode = "enforce" =>
    \A s \in Sockets, c \in Channels : granted[s][c] # Unchecked

(* Once the auth events of a socket are consumed and no kick-out of the      *)
(* channel is scheduled, a channel held in enforce was authorized, and for   *)
(* the principal the socket has now (or while it was anonymous: kickOutAll   *)
(* is only called when somebody else authenticates or a token is lost).      *)
HeldByItsPrincipal ==
  mode = "enforce" =>
    \A s \in Sockets, c \in Channels :
      ( /\ granted[s][c] \in Credentials
        /\ events[s] = <<>>
        /\ ~KickScheduled(s, c) )
      => /\ <<granted[s][c], c>> \in Authorized
         /\ Who(granted[s][c]) \in {Anon, Holder(s)}

Access == INSTANCE ChannelAccess WITH
            enforcing <- mode = "enforce",
            cred <- [s \in Sockets |-> Signed(authToken[s])],
            held <- granted

(* The server follows the rules of ChannelAccess: in enforce a channel is    *)
(* given for the credential the socket has when the answer is applied, not   *)
(* the one it had when it asked, and only if that credential was allowed;    *)
(* in the looser modes a channel is given unchecked; and entering enforce    *)
(* takes every channel back.                                                 *)
FollowsAccessRules == Access!Safety

(* A channel given to a principal the socket no longer is always goes,       *)
(* unless the socket becomes that principal again or the mode leaves         *)
(* enforce: the kick-out always comes.                                       *)
RevokesStaleChannels == Access!Revoked
=============================================================================
