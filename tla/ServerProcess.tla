--------------------------- MODULE ServerProcess ---------------------------
(***************************************************************************)
(* The socket server as a process: socket/server.js, what it reads from its *)
(* environment (lib/config.js), what it assembles, starts and stops         *)
(* (lib/app.js), and the answers of the API it can read (lib/runtime.js).   *)
(* The policy, the poller and the listeners have modules of their own.      *)
(***************************************************************************)
EXTENDS Integers

CONSTANTS
  Envs,             \* the environments it is started in
  Payloads,         \* the bodies the API's configuration arrives in
  MinKey,           \* MIN_AUTH_KEY_LENGTH
  MaxPort,          \* the largest port
  MaxOriginsLength  \* MAX_ORIGINS_LENGTH

Modes == {"off", "log", "enforce"}
Blank == "blank"          \* of a variable: unset, empty or spaces
BlankNumber == -1
NotANumber == -2          \* text that is not digits
Absent == "absent"        \* of a field: null or undefined
Other == "other"          \* text that is none of the known ones

ReservedOptions ==
  {"authKey", "authPrivateKey", "authPublicKey", "authAlgorithm", "authVerifyAlgorithms",
   "authEngine", "allowClientPublish", "httpServer", "brokerEngine"}
OptionNames == ReservedOptions \cup {"origins", "socketChannelLimit"}

LimitsAssumption == {MinKey, MaxPort, MaxOriginsLength} \subseteq Nat \ {0}

VARIABLES
  env,       \* process.env
  phase,     \* how far main() and shutdown() are
  status,    \* the exit status
  attached,  \* the options SocketCluster was given
  runtime,   \* RuntimeConfig.state
  open       \* the listeners, the poller and the sockets that are open

vars == <<env, phase, status, attached, runtime, open>>

-----------------------------------------------------------------------------
(* Numbers: digits, or the variable is not understood. *)
NumberOf(raw, fallback) == IF raw = BlankNumber THEN fallback ELSE raw
PortUnderstood(raw) == raw = BlankNumber \/ raw \in 0..MaxPort
CountUnderstood(raw) == raw # NotANumber

DefaultPort == 1
DefaultInternalPort == 2
DefaultPoll == 1

Keyed(e) == e.key > 0

OptionsUnderstood(e) == e.options.text \in {Blank, "object"}
OptionsOf_KeepsReserved(e) == e.options.given
OptionsOf(e) == e.options.given \ ReservedOptions

(* http and https; the API's authorize URL by default. *)
UrlUnderstood(raw) == raw \notin {Other, "ftp"}
ConfigUrlOf(e) ==
  IF e.configUrl # Blank THEN e.configUrl
  ELSE IF e.authorizeUrl = "elsewhere" THEN Absent ELSE "derived"

PortsDiffer_AsGiven(e) == e.port > 0 => e.port # e.internalPort
PortsDiffer(e) ==
  LET port == NumberOf(e.port, DefaultPort) IN
  port # 0 => port # NumberOf(e.internalPort, DefaultInternalPort)

(* loadConfig(): every ConfigError it may throw. *)
Understood(e) ==
  /\ Keyed(e) => e.key >= MinKey
  /\ e.mode \in Modes \cup {Blank}
  /\ OptionsUnderstood(e)
  /\ UrlUnderstood(e.authorizeUrl) /\ UrlUnderstood(e.configUrl)
  /\ PortUnderstood(e.port) /\ PortUnderstood(e.internalPort)
  /\ PortsDiffer(e)
  /\ CountUnderstood(e.pollSeconds)

OrEnforce(mode) == IF mode \in {Blank, Absent} THEN "enforce" ELSE mode
ModeOf_IgnoresSwitch(e) == IF Keyed(e) THEN OrEnforce(e.mode) ELSE "off"
ModeOf(e) == IF e.switch /\ Keyed(e) THEN OrEnforce(e.mode) ELSE "off"

EnvOrigins(e) == IF "origins" \in OptionsOf(e) THEN "theirs" ELSE "*:*"

(* buildServerOptions(): what this process controls comes last. *)
ServerOptions(e) ==
  [name \in OptionNames |->
     CASE name = "authVerifyAlgorithms" -> "HS256"
       [] name = "allowClientPublish" -> IF ModeOf(e) # "enforce" THEN "yes" ELSE "no"
       [] name = "authKey" /\ Keyed(e) -> "configured"
       [] OTHER -> IF name \in OptionsOf(e) THEN "theirs" ELSE "default"]

HasPoller(e) == Keyed(e) /\ ConfigUrlOf(e) # Absent /\ NumberOf(e.pollSeconds, DefaultPoll) > 0

(* parseRemoteConfig() and applyRemote(). *)
Readable_AnyMode(p) ==
  p.object /\ p.enabled \in {"true", "false"} /\ p.origins <= MaxOriginsLength
Readable(p) ==
  /\ p.object
  /\ p.enabled \in {"true", "false"}
  /\ p.mode \in Modes \cup {Absent}
  /\ p.origins <= MaxOriginsLength      \* its length, 0 when absent or blank

Applied(p) ==
  LET enabled == Keyed(env) /\ p.enabled = "true" IN
  [mode |-> IF ~enabled THEN "off"
            ELSE IF p.mode # Absent THEN p.mode ELSE OrEnforce(env.mode),
   origins |-> IF p.origins = 0 THEN EnvOrigins(env) ELSE "api's"]

-----------------------------------------------------------------------------
TypeOK ==
  /\ env \in Envs
  /\ phase \in {"loading", "starting", "public", "internal", "running",
                "stopping", "poller-stopped", "sockets-closed", "exited"}
  /\ status \in {"none", "killed", "0", "1", "78"}
  /\ attached \in [OptionNames -> {"none", "HS256", "yes", "no", "configured", "theirs", "default"}]
  /\ runtime \in [mode : Modes \cup {"none"}, origins : {"none", "*:*", "theirs", "api's"}]
  /\ open \subseteq {"public", "internal", "poller", "sockets", "scc"}

Init ==
  /\ env \in Envs
  /\ phase = "loading" /\ status = "none"
  /\ attached = [name \in OptionNames |-> "none"]
  /\ runtime = [mode |-> "none", origins |-> "none"]
  /\ open = {}

Exit(with) ==
  /\ phase' = "exited" /\ status' = with
  /\ open' = {}
  /\ UNCHANGED <<env, attached, runtime>>

To(next) == phase' = next /\ UNCHANGED <<env, status, attached, runtime>>

(* main(): a ConfigError ends the process, or the server is assembled.       *)
RejectEnv == phase = "loading" /\ ~Understood(env) /\ Exit("78")
Create ==
  /\ phase = "loading" /\ Understood(env)
  /\ attached' = ServerOptions(env)
  /\ runtime' = [mode |-> ModeOf(env), origins |-> EnvOrigins(env)]
  /\ phase' = "starting"
  /\ UNCHANGED <<env, status, open>>

(* start(): the two listeners one after the other, then the rest.           *)
ListenPublic == phase = "starting" /\ open' = open \cup {"public", "sockets"} /\ To("public")
ListenInternal == phase = "public" /\ open' = open \cup {"internal"} /\ To("internal")
Attend ==
  /\ phase = "internal"
  /\ open' = open \cup (IF HasPoller(env) THEN {"poller"} ELSE {})
                  \cup (IF env.scc THEN {"scc"} ELSE {})
  /\ To("running")

(* A port is taken, or what SocketCluster or the SCC client was given fails. *)
StartFails ==
  /\ phase \in {"loading", "starting", "public", "internal"} /\ Understood(env)
  /\ phase = "loading" => OptionsOf(env) # {}
  /\ phase = "internal" => env.scc
  /\ Exit("1")

(* An answer of the API reaches the runtime configuration.                   *)
Answer(p) ==
  /\ phase \in {"running", "stopping"} /\ "poller" \in open
  /\ runtime' = IF Readable(p) THEN Applied(p) ELSE runtime
  /\ UNCHANGED <<env, phase, status, attached, open>>

(* Before the handlers are registered a signal ends the process as it is;    *)
(* after that the first begins a shutdown and the others do nothing.         *)
Signal ==
  /\ status = "none"
  /\ \/ phase \in {"loading", "starting", "public", "internal"} /\ Exit("killed")
     \/ phase = "running" /\ To("stopping") /\ UNCHANGED open

(* stop(): the poller, SocketCluster, both listeners.  A close that fails is *)
(* logged; each may also never end.                                          *)
StopPoller == phase = "stopping" /\ open' = open \ {"poller"} /\ To("poller-stopped")
CloseSockets == phase = "poller-stopped" /\ open' = open \ {"sockets"} /\ To("sockets-closed")
CloseListeners == phase = "sockets-closed" /\ Exit("0")

Stopping == phase \in {"stopping", "poller-stopped", "sockets-closed"}

(* The timer of ten seconds; unref() lets a process end before it that has   *)
(* nothing left to wait for.                                                 *)
Force_OnlyWhenStopped == phase = "sockets-closed" /\ Exit("0")
Force == Stopping /\ Exit("0")

Next ==
  \/ RejectEnv \/ Create \/ ListenPublic \/ ListenInternal \/ Attend \/ StartFails
  \/ \E p \in Payloads : Answer(p)
  \/ Signal \/ StopPoller \/ CloseSockets \/ CloseListeners \/ Force

-----------------------------------------------------------------------------
(* "a stray JSON blob cannot turn token verification or the client-publish   *)
(* lock off": what SocketCluster is given for an option the process controls *)
(* is never what SOCKETCLUSTER_OPTIONS says, key or no key (config.js).      *)
OptionsStayOurs ==
  phase # "loading" /\ status = "none" =>
    /\ \A name \in ReservedOptions : attached[name] # "theirs"
    /\ (attached["allowClientPublish"] = "no") = (ModeOf(env) = "enforce")

(* Auth is on only with a key, from the start only with the switch as well,  *)
(* and the runtime never holds a mode it does not know (config.js,           *)
(* runtime.js).                                                              *)
AuthNeedsKey ==
  /\ runtime.mode \in {"log", "enforce"} => Keyed(env)
  /\ runtime.mode \in {"log", "enforce"} /\ phase \in {"starting", "public", "internal"} =>
       env.switch
  /\ runtime.mode \in Modes \cup {"none"}

(* The two listeners are never given one port, whichever of them comes from  *)
(* a default (config.js).                                                    *)
ListenersApart ==
  "public" \in open => LET port == NumberOf(env.port, DefaultPort) IN
    port = 0 \/ port # NumberOf(env.internalPort, DefaultInternalPort)
=============================================================================
