------------------------------ MODULE TokenUse ------------------------------
(***************************************************************************)
(* The use middleware.js makes of rules.js: a token is validated once, when *)
(* it authenticates, and then asked for channels while time passes.         *)
(***************************************************************************)
EXTENDS Integers, Sequences

CONSTANTS
  Tokens,          \* the claims of tokens with a good signature
  Channels,
  InvalidChannels,
  MaxLifetime,
  MaxNow           \* bound: when the clock stops

ChannelsAssumption ==
  InvalidChannels \subseteq Channels /\ Channels \subseteq Seq(STRING)
NumbersAssumption ==
  /\ MaxLifetime \in Nat /\ MaxNow \in Nat
  /\ \A claims \in Tokens : claims.iat \in Int /\ claims.exp \in Int

VARIABLES
  now,
  claims,    \* of the token in use
  accepted,  \* whether it authenticated
  channel,   \* the channel asked for last
  decision   \* and what the rules said

vars == <<now, claims, accepted, channel, decision>>

INSTANCE ChannelRules

TypeOK ==
  /\ now \in 0..MaxNow
  /\ claims \in Tokens
  /\ accepted \in BOOLEAN
  /\ channel \in Channels
  /\ decision \in {"none", "allow", "deny", "ask"}
  /\ decision = "ask" => IsValidChannel(channel)

Init ==
  /\ now \in 0..MaxNow
  /\ claims \in Tokens
  /\ accepted = FALSE
  /\ channel \in Channels
  /\ decision = "none"

Authenticate ==
  /\ ~accepted
  /\ accepted' = ValidClaims(claims)
  /\ decision' = "none"
  /\ UNCHANGED <<now, claims, channel>>

Ask(c) ==
  /\ channel' = c
  /\ decision' = IF accepted THEN LocalDecision(claims, c, now)
                             ELSE AnonymousDecision(c)
  /\ UNCHANGED <<now, claims, accepted>>

Tick ==
  /\ now < MaxNow
  /\ now' = now + 1
  /\ decision' = "none"
  /\ UNCHANGED <<claims, accepted, channel>>

Next == Authenticate \/ (\E c \in Channels : Ask(c)) \/ Tick

-----------------------------------------------------------------------------
(* Who may hold what, as socket/README.md lists it under "Subscribe".  An    *)
(* empty claim is no identity, and a channel with an empty id is nobody's.   *)
Owned(families, ids) ==
  Len(channel) = 2 /\ channel[1] \in families /\ channel[2] \in ids \ {""}

Documented ==
  /\ accepted /\ now < claims.exp /\ IsValidChannel(channel)
  /\ IF claims.scoped THEN channel \in claims.scp
     ELSE \/ claims.kind = "system"
          \/ claims.kind \in {"user", "api"} /\ Owned({"company"}, {claims.cid, claims.cpid})
          \/ claims.kind = "api" /\ Owned({"api"}, {claims.sub})
          \/ Owned({"user", "driver"}, claims.ids)
          \/ /\ claims.kind = "user" /\ claims.cid # ""
             /\ \E family \in {"install", "uninstall"} :
                  channel # <<family, claims.cid, "">>
                  /\ Len(channel) > 2 /\ SubSeq(channel, 1, 2) = <<family, claims.cid>>

(* The rules allow without asking the API exactly what the README lists.     *)
AllowsAsDocumented == decision # "none" => (decision = "allow" <=> Documented)

(* An accepted token works for MaxLifetime seconds from its issue at most,   *)
(* for the rules and for the questions they pass on to the API.              *)
TokensAreShortLived ==
  accepted /\ now >= claims.iat + MaxLifetime => decision \in {"none", "deny"}
=============================================================================
