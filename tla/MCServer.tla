------------------------------ MODULE MCServer ------------------------------
(* What the socket server knows of the API: the decisions its authorizer    *)
(* asks for and the configuration it polls.  A behaviour is of one of them.  *)
EXTENDS Authorizer, TLC

CONSTANTS
  Parts, x1, x2, tokenA, tokenB, jtiA, own, order,
  s1, everywhere, console,
  Sockets, Origins, NoOrigins, Envs, ApiConfigs,     \* of ConfigSync,
  Interval, PollTimeout, PollNow, PollChanges        \* with its own times

VARIABLES
  part, env, phase, configs, runtime, source, failing, requests, timers, policyMode,
  clientPublish, agOrigins, clients, applied, stableSince, enteredAs

authorizerVars == <<apiAllows, changedAt, changes, cache, inflight, calls>>
pollingVars == <<env, phase, configs, runtime, source, failing, requests, timers,
                 policyMode, clientPublish, agOrigins, clients, applied, stableSince, enteredAs>>
serverVars == <<part, now, authorizerVars, pollingVars>>

(* Two tokens of one user, the second without a jti.  By ChannelRules they   *)
(* hold the company channel own, the API decides on order, and an anonymous  *)
(* socket is denied both.                                                    *)
MCExp == tokenA :> 3 @@ tokenB :> 9

Rules == INSTANCE ChannelRules WITH InvalidChannels <- {}, MaxLifetime <- 3600

Claims(t) ==
  [iss |-> TRUE, aud |-> TRUE, iat |-> 0, exp |-> MCExp[t], kind |-> "user",
   cid |-> "acme", cpid |-> "", sub |-> "u1", ids |-> {"u1"},
   scoped |-> FALSE, scp |-> {}]
MCName == own :> <<"company", "acme">> @@ order :> <<"order", "o1">>
MCPairs == {tokenA, tokenB, Anon} \X {own, order}

Decision(t, c) ==
  IF t = Anon THEN Rules!AnonymousDecision(MCName[c])
              ELSE Rules!LocalDecision(Claims(t), MCName[c], 0)

MCTokens == {tokenA, tokenB}
MCJti == tokenA :> jtiA @@ tokenB :> NoJti
MCAllowedLocally == {pair \in MCPairs : Decision(pair[1], pair[2]) = "allow"}
MCDeniedLocally == {pair \in MCPairs : Decision(pair[1], pair[2]) = "deny"}
MCSymmetry == Permutations(Callers)

(* Servers without a key, without polling, and started off, in log and in    *)
(* enforce; the API's answers name a mode, leave it to the environment,      *)
(* switch auth off and replace the origins.                                  *)
Started(key, polls, switchedOn, requested) ==
  [key |-> key, polls |-> polls, switchedOn |-> switchedOn,
   requested |-> requested, origins |-> everywhere]
Settings(enabled, mode, origins) ==
  [enabled |-> enabled, mode |-> mode, origins |-> origins]

MCOrigins == {everywhere, console}
MCEnvs == {Started(TRUE, TRUE, FALSE, "log"), Started(TRUE, TRUE, TRUE, "null"),
         Started(TRUE, TRUE, TRUE, "log"), Started(FALSE, TRUE, TRUE, "enforce"),
         Started(TRUE, FALSE, TRUE, "log")}
MCApiConfigs == {Settings(TRUE, "enforce", NoOrigins), Settings(TRUE, "log", console),
               Settings(TRUE, "null", NoOrigins), Settings(FALSE, "enforce", console)}

Sync == INSTANCE ConfigSync WITH
  Timeout <- PollTimeout, MaxNow <- PollNow, MaxChanges <- PollChanges

ASSUME PollingAssumptions == Sync!TimeAssumption /\ Sync!EnvAssumption /\ Sync!ApiAssumption

-----------------------------------------------------------------------------
NoAuthorizer ==
  /\ apiAllows = "unused" /\ changedAt = "unused" /\ changes = "unused"
  /\ cache = "unused" /\ inflight = "unused" /\ calls = "unused"
NoPolling ==
  /\ env = "unused" /\ phase = "unused" /\ configs = "unused" /\ runtime = "unused"
  /\ source = "unused" /\ failing = "unused" /\ requests = "unused" /\ timers = "unused"
  /\ policyMode = "unused" /\ clientPublish = "unused" /\ agOrigins = "unused"
  /\ clients = "unused" /\ applied = "unused" /\ stableSince = "unused"
  /\ enteredAs = "unused"

ServerInit ==
  /\ part \in Parts
  /\ \/ part = "authorizer" /\ Init /\ NoPolling
     \/ part = "polling" /\ Sync!Init /\ NoAuthorizer

ServerNext ==
  /\ UNCHANGED part
  /\ \/ part = "authorizer" /\ Next /\ UNCHANGED pollingVars
     \/ part = "polling" /\ Sync!Next /\ UNCHANGED authorizerVars

ServerSpec == ServerInit /\ [][ServerNext]_serverVars

-----------------------------------------------------------------------------
(* Each part's state has its type. *)
ServerTypeOK == IF part = "authorizer" THEN TypeOK ELSE Sync!TypeOK

(* No caller waits past the timeout of the request it shares                 *)
(* (authorizer.js).                                                          *)
WaitersAreServed == part = "authorizer" => WaitersHaveTheirRequest

(* An answer is the API's own word for that token and channel, no older than *)
(* the lifetimes allow, and a failure is never remembered (authorizer.js).   *)
AnswersAreTheApis ==
  [][part = "authorizer" => AllowIsTheApis /\ CachedDenialIsTheApis]_serverVars

(* No answer allows a token that had expired when it was asked for           *)
(* (authorizer.js, rules.js).                                                *)
ExpiredTokensDenied == [][part = "authorizer" => AllowedBeforeExpiry]_serverVars

(* One configuration is in force, the last good one, and in every copy       *)
(* (runtime.js, app.js).                                                     *)
InForceEverywhere == part = "polling" => Sync!InForceEverywhere

(* Settings the API keeps answering are in force in time (config-poller.js). *)
AppliedInTime == part = "polling" => Sync!AppliedInTime

(* In enforce every open socket connected under enforce (app.js).            *)
EnforceStartsClean == part = "polling" => Sync!EnforceStartsClean

(* No answer replaces a newer one, and no poll is under way or due once the  *)
(* server is closed (config-poller.js).                                      *)
PollsStayInOrder ==
  [][part = "polling" => Sync!NeverGoesBack /\ Sync!NoPollAfterClose']_serverVars
=============================================================================
