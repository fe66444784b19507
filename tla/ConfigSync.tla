----------------------------- MODULE ConfigSync -----------------------------
(***************************************************************************)
(* socket/lib/runtime.js and socket/lib/config-poller.js with the listener  *)
(* app.js registers: the server polls the API's configuration and applies   *)
(* each good answer to the policy and to SocketCluster, until it stops.     *)
(*                                                                         *)
(* Timers and aborts fire at their time: the delays of a busy event loop    *)
(* are not part of the model.                                               *)
(***************************************************************************)
EXTENDS Naturals, Sequences, FiniteSets

CONSTANTS
  Sockets,
  Origins,      \* lists of allowed origins
  NoOrigins,    \* origins: null
  Envs,         \* the environments the server may start in
  ApiConfigs,   \* the configurations the API may answer
  Interval,     \* intervalMs, in ticks
  Timeout,      \* timeoutMs, in ticks
  MaxNow,       \* bound: when the clock stops
  MaxChanges    \* bound: how often the API's configuration changes

Modes == {"off", "log", "enforce"}
NoMode == "null"

TimeAssumption ==
  {Interval, Timeout} \subseteq Nat \ {0} /\ {MaxNow, MaxChanges} \subseteq Nat
EnvAssumption ==
  Envs \subseteq [key : BOOLEAN, polls : BOOLEAN, switchedOn : BOOLEAN,
                  requested : Modes \cup {NoMode}, origins : Origins]
ApiAssumption ==
  /\ NoOrigins \notin Origins
  /\ ApiConfigs \subseteq [enabled : BOOLEAN, mode : Modes \cup {NoMode},
                           origins : Origins \cup {NoOrigins}]

VARIABLES
  now,
  env,            \* the environment: key, polling, switch, mode, origins
  phase,          \* of createSocketServer's start() and stop()
  configs,        \* what the API would answer: each version until now
  runtime,        \* RuntimeConfig.state
  source,         \* RuntimeConfig.source
  failing,        \* RuntimeConfig.lastSyncError # null
  requests,       \* the polls under way
  timers,         \* when the next polls are due
  policyMode,     \* SocketAuthPolicy.mode
  clientPublish,  \* agServer.allowClientPublish
  agOrigins,      \* agServer.origins
  clients,        \* agServer.clients
  applied,        \* history: the version in force, 0 for the environment's
  stableSince,    \* history: the last API change or failed poll
  enteredAs       \* history: the mode each open socket connected under, or
                  \* "stale" when enforce was entered since

serverVars == <<runtime, source, failing, policyMode, clientPublish, agOrigins,
                clients, enteredAs, applied>>
vars == <<now, env, phase, configs, requests, timers, stableSince, serverVars>>

version == Len(configs)
api == configs[version]

(* resolveMode(): auth needs the switch and a key.                           *)
OrEnforce(mode) == IF mode = NoMode THEN "enforce" ELSE mode
EnvState(e) ==
  [enabled |-> e.switchedOn /\ e.key,
   mode |-> IF e.switchedOn /\ e.key THEN OrEnforce(e.requested) ELSE "off",
   origins |-> e.origins]

(* applyRemote(): what an answer of the API means for this server.           *)
Effective(e, remote) ==
  LET enabled == e.key /\ remote.enabled IN
  [enabled |-> enabled,
   mode |-> IF ~enabled THEN "off"
            ELSE IF remote.mode # NoMode THEN remote.mode
            ELSE OrEnforce(e.requested),
   origins |-> IF remote.origins = NoOrigins THEN e.origins ELSE remote.origins]

(* The poller exists when there is a key to sign with and the interval is    *)
(* not 0.                                                                    *)
Polls == env.key /\ env.polls

Request(sentAt) == [sentAt |-> sentAt, answered |-> FALSE, version |-> version]

TypeOK ==
  /\ now \in 0..MaxNow
  /\ env \in Envs
  /\ phase \in {"created", "running", "stopping", "closed"}
  /\ configs \in Seq(ApiConfigs) /\ version \in 1..(MaxChanges + 1)
  /\ runtime \in [enabled : BOOLEAN, mode : Modes, origins : Origins]
  /\ source \in {"env", "api"} /\ failing \in BOOLEAN
  /\ requests \subseteq [sentAt : 0..MaxNow, answered : BOOLEAN, version : 1..version]
  /\ timers \subseteq 0..(MaxNow + Interval)
  /\ Cardinality(requests) + Cardinality(timers) <= 1
  /\ policyMode \in Modes /\ clientPublish \in BOOLEAN /\ agOrigins \in Origins
  /\ clients \subseteq Sockets
  /\ enteredAs \in [clients -> Modes \cup {"stale"}]
  /\ applied \in 0..version /\ stableSince \in 0..MaxNow

Init ==
  /\ now = 0
  /\ env \in Envs
  /\ phase = "created"
  /\ \E config \in ApiConfigs : configs = <<config>>
  /\ runtime = EnvState(env)
  /\ source = "env" /\ failing = FALSE
  /\ requests = {} /\ timers = {}
  /\ policyMode = EnvState(env).mode
  /\ clientPublish = (EnvState(env).mode # "enforce")
  /\ agOrigins = env.origins
  /\ clients = {} /\ enteredAs = <<>>
  /\ applied = 0 /\ stableSince = 0
-----------------------------------------------------------------------------
(* tick(): a poll is sent.  The next is due only after it ends.              *)
TimersAfterSend_NextAlready == {now + Interval}
TimersAfterSend == {}

Send ==
  /\ requests' = requests \cup {Request(now)}
  /\ timers' = TimersAfterSend

(* start()                                                                   *)
Start ==
  /\ phase = "created"
  /\ phase' = "running"
  /\ stableSince' = now
  /\ IF Polls THEN Send ELSE UNCHANGED <<requests, timers>>
  /\ UNCHANGED <<now, env, configs, serverVars>>

PollAgain ==
  /\ \E due \in timers : due <= now
  /\ Send
  /\ UNCHANGED <<now, env, phase, configs, stableSince, serverVars>>

(* The API answers with its configuration of that moment.                    *)
ApiAnswers(r) ==
  /\ ~r.answered
  /\ requests' = (requests \ {r}) \cup
       {[r EXCEPT !.answered = TRUE, !.version = version]}
  /\ UNCHANGED <<now, env, phase, configs, timers, stableSince, serverVars>>

(* The end of a poll: the next one is due an interval later, unless stopped. *)
TimersAfterPoll_NotAgain == timers
TimersAfterPoll == IF phase = "running" THEN {now + Interval} ELSE timers

Finish(r) ==
  /\ requests' = requests \ {r}
  /\ timers' = TimersAfterPoll

(* The onChange listener: the policy, client publish and the origins follow  *)
(* the new state, and every socket is disconnected when enforce begins.      *)
MayPublish_NeverRestored(next) == clientPublish /\ next.mode # "enforce"
MayPublish(next) == next.mode # "enforce"

Disconnects_OnlyFromOff(next) ==
  next.mode = "enforce" /\ runtime.mode = "off"
Disconnects(next) == next.mode = "enforce" /\ runtime.mode # "enforce"

OnChange(next) ==
  /\ policyMode' = next.mode
  /\ clientPublish' = MayPublish(next)
  /\ agOrigins' = next.origins
  /\ clients' = IF Disconnects(next) THEN {} ELSE clients
  /\ enteredAs' = [s \in clients' |->
       IF next.mode = "enforce" /\ runtime.mode # "enforce" THEN "stale"
       ELSE enteredAs[s]]

ApplyRemote(r) ==
  LET next == Effective(env, configs[r.version]) IN
  /\ source' = "api" /\ failing' = FALSE
  /\ runtime' = next
  /\ IF next = runtime
       THEN UNCHANGED <<policyMode, clientPublish, agOrigins, clients, enteredAs>>
       ELSE OnChange(next)

PollSucceeds(r) ==
  /\ r.answered
  /\ ApplyRemote(r)
  /\ applied' = r.version
  /\ Finish(r)
  /\ UNCHANGED <<now, env, phase, configs, stableSince>>

(* Unreachable, an error status, a malformed answer, or the abort timer: the *)
(* configuration in force stays.                                             *)
RuntimeAfterFailure_BackToEnv == EnvState(env)
RuntimeAfterFailure == runtime

PollFails(r) ==
  /\ failing' = TRUE
  /\ runtime' = RuntimeAfterFailure
  /\ Finish(r)
  /\ stableSince' = now
  /\ UNCHANGED <<now, env, phase, configs, source, policyMode,
                 clientPublish, agOrigins, clients, enteredAs, applied>>
-----------------------------------------------------------------------------
(* stop(): the timer is cleared at once, and the server closes when the poll *)
(* under way has ended.                                                      *)
Stop ==
  /\ phase = "running"
  /\ phase' = "stopping"
  /\ timers' = {}
  /\ UNCHANGED <<now, env, configs, requests, stableSince, serverVars>>

PollerStopped_NotAwaited == TRUE
PollerStopped == requests = {}

Close ==
  /\ phase = "stopping"
  /\ PollerStopped
  /\ phase' = "closed"
  /\ clients' = {} /\ enteredAs' = <<>>
  /\ UNCHANGED <<now, env, configs, requests, timers, stableSince, runtime,
                 source, failing, policyMode, clientPublish, agOrigins, applied>>

(* A handshake that was let in, and the end of a connection.                 *)
Connect(s) ==
  /\ phase \in {"running", "stopping"} /\ s \notin clients
  /\ clients' = clients \cup {s}
  /\ enteredAs' = [c \in clients' |-> IF c = s THEN runtime.mode ELSE enteredAs[c]]
  /\ UNCHANGED <<now, env, phase, configs, requests, timers, stableSince,
                 runtime, source, failing, policyMode, clientPublish, agOrigins,
                 applied>>

Disconnect(s) ==
  /\ s \in clients
  /\ clients' = clients \ {s}
  /\ enteredAs' = [c \in clients' |-> enteredAs[c]]
  /\ UNCHANGED <<now, env, phase, configs, requests, timers, stableSince,
                 runtime, source, failing, policyMode, clientPublish, agOrigins,
                 applied>>

(* An admin saves other settings in the console.                             *)
ApiChanges ==
  /\ version <= MaxChanges
  /\ \E config \in ApiConfigs \ {api} : configs' = Append(configs, config)
  /\ stableSince' = now
  /\ UNCHANGED <<now, env, phase, requests, timers, serverVars>>

(* Time stops for a due poll and for a request that has to be aborted.       *)
Tick ==
  /\ now < MaxNow
  /\ \A due \in timers : now < due
  /\ \A r \in requests : now < r.sentAt + Timeout
  /\ now' = now + 1
  /\ UNCHANGED <<env, phase, configs, requests, timers, stableSince, serverVars>>
-----------------------------------------------------------------------------
Next ==
  \/ Start \/ PollAgain \/ Stop \/ Close \/ ApiChanges \/ Tick
  \/ \E r \in requests : ApiAnswers(r) \/ PollSucceeds(r) \/ PollFails(r)
  \/ \E s \in Sockets : Connect(s) \/ Disconnect(s)

Spec == Init /\ [][Next]_vars

-----------------------------------------------------------------------------
(* Properties. *)

(* The copies of the configuration agree whenever a turn of the event loop   *)
(* is over: the policy's mode, SocketCluster's client publish and origins    *)
(* follow the RuntimeConfig.  Without a key, when the policy has no          *)
(* authorizer, the mode they agree on is off, whatever the API says.         *)
CopiesAgree ==
  /\ ~env.key \/ ~runtime.enabled => runtime.mode = "off"
  /\ policyMode = runtime.mode
  /\ clientPublish = (runtime.mode # "enforce")
  /\ agOrigins = runtime.origins

(* An answer never undoes a newer one: polls do not overlap.                 *)
NeverGoesBack == applied' >= applied

(* What is in force is the last good answer, and the environment's settings  *)
(* until there is one.  Failed polls change nothing.                         *)
LastGoodStays ==
  runtime = IF source = "env" THEN EnvState(env)
                              ELSE Effective(env, configs[applied])

(* One configuration is in force, the last good one, and in every copy.      *)
InForceEverywhere == LastGoodStays /\ CopiesAgree

(* Settings that the API keeps answering are in force an interval and two    *)
(* request timeouts later.  (The README says "within one poll interval".)    *)
AppliedInTime ==
  phase = "running" /\ Polls /\ now > stableSince + Interval + 2 * Timeout
    => runtime = Effective(env, api)

(* In enforce every open socket connected under enforce: what it subscribed  *)
(* to was authorized.                                                        *)
EnforceStartsClean ==
  runtime.mode = "enforce" => \A s \in clients : enteredAs[s] = "enforce"

(* Once the server is closed no poll is under way and none is due.           *)
NoPollAfterClose == phase = "closed" => requests = {} /\ timers = {}
=============================================================================
