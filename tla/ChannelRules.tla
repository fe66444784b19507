---------------------------- MODULE ChannelRules ----------------------------
(***************************************************************************)
(* The functions of socket/lib/rules.js.  A channel name is the sequence of *)
(* its parts between the dots; a claim that is missing or of another type   *)
(* is its empty value ("", {}, or NotANumber).                              *)
(***************************************************************************)
LOCAL INSTANCE Integers
LOCAL INSTANCE Sequences

CONSTANTS
  InvalidChannels,  \* names isValidChannel() refuses
  MaxLifetime       \* MAX_TOKEN_LIFETIME_SECONDS

Kinds == {"user", "api", "driver", "customer", "checkout", "system", "tracking"}
KindsWithoutCompany == {"system", "tracking", "checkout"}
CompanyScopedKinds == {"user", "api"}
InstallChannel == <<"fleetbase", "install">>
NotANumber == -1

(* validateClaims(): no reason to refuse the token.                          *)
ValidClaims_NoLifetime(claims) ==
  /\ claims.iss /\ claims.aud
  /\ claims.exp # NotANumber /\ claims.iat # NotANumber
  /\ claims.exp > claims.iat
  /\ claims.kind \in Kinds
  /\ claims.kind \in KindsWithoutCompany \/ claims.cid # ""
ValidClaims(claims) ==
  /\ claims.iss /\ claims.aud
  /\ claims.exp # NotANumber /\ claims.iat # NotANumber
  /\ claims.exp > claims.iat
  /\ claims.exp - claims.iat <= MaxLifetime
  /\ claims.kind \in Kinds
  /\ claims.kind \in KindsWithoutCompany \/ claims.cid # ""

IsValidChannel(channel) == channel \notin InvalidChannels

HasExpired(claims, now) == claims.exp = NotANumber \/ claims.exp <= now

(* The self rules: channels that carry an identity of the token.             *)
OwnCompany(claims, channel) ==
  /\ claims.kind \in CompanyScopedKinds
  /\ \E id \in {claims.cid, claims.cpid} \ {""} : channel = <<"company", id>>

OwnApi(claims, channel) ==
  claims.kind = "api" /\ claims.sub # "" /\ channel = <<"api", claims.sub>>

OwnChannel(claims, channel) ==
  \E id \in claims.ids \ {""} : channel \in {<<"user", id>>, <<"driver", id>>}

OwnInstall(claims, channel) ==
  /\ claims.kind = "user" /\ claims.cid # ""
  /\ Len(channel) > 2
  /\ channel[1] \in {"install", "uninstall"} /\ channel[2] = claims.cid
  /\ Len(channel) > 3 \/ channel[3] # ""

(* localDecision() for a token, and for a socket without one: a scope rules  *)
(* out the self rules, and "ask" leaves the decision to the API.             *)
SelfRules(claims, channel) ==
  \/ claims.kind = "system"
  \/ OwnCompany(claims, channel) \/ OwnApi(claims, channel)
  \/ OwnChannel(claims, channel) \/ OwnInstall(claims, channel)

LocalDecision_ScopeLast(claims, channel, now) ==
  IF ~IsValidChannel(channel) \/ HasExpired(claims, now) THEN "deny"
  ELSE IF SelfRules(claims, channel) THEN "allow"
  ELSE IF claims.scoped THEN IF channel \in claims.scp THEN "allow" ELSE "deny"
  ELSE "ask"
LocalDecision(claims, channel, now) ==
  IF ~IsValidChannel(channel) \/ HasExpired(claims, now) THEN "deny"
  ELSE IF claims.scoped THEN IF channel \in claims.scp THEN "allow" ELSE "deny"
  ELSE IF SelfRules(claims, channel) THEN "allow" ELSE "ask"

AnonymousDecision(channel) ==
  IF IsValidChannel(channel) /\ channel = InstallChannel THEN "ask" ELSE "deny"
=============================================================================
