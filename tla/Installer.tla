----------------------------- MODULE Installer -----------------------------
(***************************************************************************)
(* scripts/docker-install.sh: what a run asks, generates, keeps and writes, *)
(* and the stack it starts from that.  A run may be killed or fail at any   *)
(* step (set -e) and be repeated with other answers; between runs the       *)
(* operator edits .env, starts the stack, or clears what is in the way.     *)
(***************************************************************************)
EXTENDS Integers

CONSTANTS
  Hosts,       \* the hosts that may be answered
  LocalHosts,  \* those the script takes for this machine
  MaxRuns      \* bound: runs of the installer

Absent == "absent"
Torn == "torn"            \* a file that was being written
NoKey == 0                \* a key or password is the number of the run that
ShortKey == -1            \* generated it

HostsAssumption == LocalHosts \subseteq Hosts /\ "localhost" \in LocalHosts
RunsAssumption == MaxRuns \in Nat \ {0}

VARIABLES
  disk,    \* .env, the override, the console's files, api/.env
  docker,  \* the volume of the database, and what the containers were given
  run      \* the installer: its step, its answers, how many ran

vars == <<disk, docker, run>>

Answers == [host : Hosts, db : {"internal", "external"}]
NoAnswers == [host |-> Absent, db |-> Absent]
NoOverride == [answers |-> NoAnswers, secrets |-> NoKey, origins |-> Absent]
NoVolume == [root |-> -1, granted |-> FALSE]
Steps == <<"enabled", "key", "mode", "origin", "override", "json", "development", "production",
           "api-env", "up", "wait", "grant", "deploy", "again", "done">>
Running == {Steps[i] : i \in 1..14}
After(step) == Steps[(CHOOSE i \in 1..14 : Steps[i] = step) + 1]
Written == {Steps[i] : i \in 1..8}
InPlace == {"development", "production"}     \* not by way of a temporary file

-----------------------------------------------------------------------------
(* The socket key in .env stays if it is long enough; so do the switch, the  *)
(* mode and the publisher's origin.                                          *)
Usable(key) == key > 0
KeyFor_Fresh(old) == run.count
KeyFor(old) == IF Usable(old) THEN old ELSE run.count
Kept(old, default) == IF old = Absent THEN default ELSE old

IsLocalhost == run.answers.host \in LocalHosts
PublicName == IF IsLocalhost THEN "localhost" ELSE run.answers.host

OverrideOf == [answers |-> run.answers, secrets |-> run.count, origins |-> PublicName]

(* What each file is after its step: .env value by value, then the others.   *)
Content_PagesOnce(file) ==
  CASE file = "enabled" -> Kept(disk.enabled, "false")
    [] file = "key" -> KeyFor(disk.key)
    [] file = "mode" -> Kept(disk.mode, "log")
    [] file = "origin" -> Kept(disk.origin, PublicName)
    [] file = "override" -> OverrideOf
    [] file \in {"json", "development", "production"} ->
         IF disk[file] # Absent THEN disk[file] ELSE run.answers.host
Content(file) ==
  CASE file = "enabled" -> Kept(disk.enabled, "false")
    [] file = "key" -> KeyFor(disk.key)
    [] file = "mode" -> Kept(disk.mode, "log")
    [] file = "origin" -> Kept(disk.origin, PublicName)
    [] file = "override" -> OverrideOf
    [] file \in {"json", "development", "production"} -> run.answers.host

(* A database url: which database, and the password of which run.            *)
ComposeUrl == [db |-> "internal", password |-> NoKey]         \* root, without one
OverrideUrl ==
  IF disk.override = NoOverride THEN ComposeUrl
  ELSE [db |-> disk.override.answers.db, password |-> disk.override.secrets]

(* docker compose up: containers whose configuration changed start anew.  All *)
(* have the key and the switch from .env; the override speaks to application, *)
(* socket and database only, so queue and scheduler keep docker-compose.yml's *)
(* database.                                                                  *)
FromEnv == [key |-> disk.key, enabled |-> disk.enabled]
Given_WorkersWithoutKey ==
  [application |-> [env |-> FromEnv, origin |-> disk.origin, url |-> OverrideUrl,
                    host |-> disk.override.answers.host],
   workers |-> [env |-> [FromEnv EXCEPT !.key = NoKey], origin |-> disk.origin, url |-> ComposeUrl],
   socket |-> [env |-> FromEnv, mode |-> disk.mode, origins |-> disk.override.origins]]
Given ==
  [application |-> [env |-> FromEnv, origin |-> disk.origin, url |-> OverrideUrl,
                    host |-> disk.override.answers.host],
   workers |-> [env |-> FromEnv, origin |-> disk.origin, url |-> ComposeUrl],
   socket |-> [env |-> FromEnv, mode |-> disk.mode, origins |-> disk.override.origins]]

Bundled == disk.override.answers.db = "internal"

(* MySQL takes its passwords from the environment once, for an empty volume. *)
Initialised ==
  IF docker.volume # NoVolume THEN docker.volume
  ELSE [root |-> IF Bundled THEN disk.override.secrets ELSE NoKey, granted |-> FALSE]

ComposeUp ==
  /\ docker' = [volume |-> Initialised, given |-> Given]
  /\ disk' = [disk EXCEPT !.apiEnv = IF @ = Absent THEN "directory" ELSE @]

-----------------------------------------------------------------------------
Overrides == {NoOverride} \cup [answers : Answers, secrets : 1..MaxRuns, origins : Hosts]
Environments == [key : -1..MaxRuns, enabled : {Absent, "false", "true"}]
Urls == [db : {"internal", "external"}, password : 0..MaxRuns]
Environment ==
  [application : [env : Environments, origin : Hosts \cup {Absent}, url : Urls, host : Hosts \cup {Absent}],
   workers : [env : Environments, origin : Hosts \cup {Absent}, url : Urls],
   socket : [env : Environments, mode : {Absent, "log", "enforce"}, origins : Hosts \cup {Absent}]]

TypeOK ==
  /\ disk \in [
       enabled : {Absent, "false", "true"}, key : -1..MaxRuns, mode : {Absent, "log", "enforce"},
       origin : Hosts \cup {Absent}, override : Overrides, json : Hosts \cup {Absent},
       development : Hosts \cup {Absent, Torn}, production : Hosts \cup {Absent, Torn},
       apiEnv : {Absent, "file", "directory"}]
  /\ docker.volume \in {NoVolume} \cup [root : 0..MaxRuns, granted : BOOLEAN]
  /\ docker.given \in Environment
  /\ run \in [step : Running \cup {"off", "done"}, answers : Answers, count : 0..MaxRuns]

(* A checkout: .env may be there with a key of the operator's own.           *)
Init ==
  /\ \E key \in {NoKey, ShortKey} :
       disk = [enabled |-> Absent, key |-> key, mode |-> Absent, origin |-> Absent,
               override |-> NoOverride, json |-> Absent, development |-> Absent,
               production |-> Absent, apiEnv |-> Absent]
  /\ docker = [volume |-> NoVolume, given |-> Given]
  /\ run = [step |-> "off", count |-> 0,
            answers |-> [host |-> "localhost", db |-> "internal"]]

Idle == run.step \in {"off", "done"}
Go(step) == run' = [run EXCEPT !.step = step]

(* The wizard's questions; the passwords are generated with the answers.     *)
Begin(answers) ==
  /\ Idle /\ run.count < MaxRuns
  /\ run' = [step |-> "enabled", answers |-> answers, count |-> run.count + 1]
  /\ UNCHANGED <<disk, docker>>

WriteNext ==
  /\ run.step \in Written
  /\ disk' = [disk EXCEPT ![run.step] = Content(run.step)]
  /\ Go(After(run.step)) /\ UNCHANGED docker

EnsureApiEnv ==
  /\ run.step = "api-env"
  /\ \/ disk.apiEnv = "directory" /\ Go("off") /\ UNCHANGED disk
     \/ disk.apiEnv # "directory" /\ Go("up") /\ disk' = [disk EXCEPT !.apiEnv = "file"]
  /\ UNCHANGED docker

Start == run.step \in {"up", "again"} /\ ComposeUp /\ Go(After(run.step))

DatabaseReady == run.step = "wait" /\ Go("grant") /\ UNCHANGED <<disk, docker>>

(* As root, for the bundled database only.                                   *)
Grant ==
  /\ run.step = "grant"
  /\ \/ /\ run.answers.db = "external"
        /\ Go("deploy") /\ UNCHANGED docker
     \/ /\ run.answers.db = "internal" /\ docker.volume.root = run.count
        /\ Go("deploy") /\ docker' = [docker EXCEPT !.volume.granted = TRUE]
     \/ /\ run.answers.db = "internal" /\ docker.volume.root # run.count
        /\ Go("off") /\ UNCHANGED docker
  /\ UNCHANGED disk

Deploy == run.step = "deploy" /\ Go("again") /\ UNCHANGED <<disk, docker>>

(* Killed, timed out, or a command failed.                                   *)
Stop ==
  /\ run.step \in Running /\ Go("off")
  /\ \/ UNCHANGED disk
     \/ run.step \in InPlace /\ disk' = [disk EXCEPT ![run.step] = Torn]
  /\ UNCHANGED docker

-----------------------------------------------------------------------------
(* Between runs: the operator.                                               *)
SwitchOn(mode) ==
  /\ Idle /\ disk' = [disk EXCEPT !.enabled = "true", !.mode = mode]
  /\ Go("off") /\ UNCHANGED docker
UpByHand == Idle /\ ComposeUp /\ Go("off")
ClearApiEnv ==
  /\ Idle /\ disk.apiEnv = "directory"
  /\ disk' = [disk EXCEPT !.apiEnv = Absent]
  /\ Go("off") /\ UNCHANGED docker
ClearVolume ==
  /\ Idle /\ docker' = [docker EXCEPT !.volume = NoVolume]
  /\ Go("off") /\ UNCHANGED disk

Next ==
  \/ \E answers \in Answers : Begin(answers)
  \/ WriteNext \/ EnsureApiEnv \/ Start \/ DatabaseReady \/ Grant \/ Deploy \/ Stop
  \/ \E mode \in {"log", "enforce"} : SwitchOn(mode)
  \/ UpByHand \/ ClearApiEnv \/ ClearVolume

-----------------------------------------------------------------------------
(* A run that ended well left one installation, whatever earlier runs left   *)
(* half done.  The files are those of its answers; the key and the switch    *)
(* are "the same for socket, application, queue and scheduler"               *)
(* (docker-compose.yml); the socket admits the host that was answered, and   *)
(* the application reaches the database that was.  The queue and the         *)
(* scheduler do not: root without a password is refused by the bundled       *)
(* database, and the external one is never named to them.                    *)
Reaches(url) ==
  url.db = run.answers.db /\ (url.db = "internal" => docker.volume.root = url.password)
ContainersAgree ==
  /\ \A name \in DOMAIN docker.given : docker.given[name].env = FromEnv
  /\ docker.given.socket.mode = disk.mode /\ docker.given.socket.origins = PublicName
  /\ docker.given.application.host = run.answers.host
  /\ \A name \in {"application", "workers"} : docker.given[name].origin = disk.origin
  /\ Reaches(docker.given.application.url) /\ ~Reaches(docker.given.workers.url)
InstalledIsOne ==
  run.step = "done" =>
    /\ Usable(disk.key) /\ ContainersAgree
    /\ disk.override.answers = run.answers
    /\ \A file \in {"json", "development", "production"} : disk[file] = run.answers.host
    /\ disk.apiEnv = "file"
    /\ Bundled => docker.volume = [root |-> disk.override.secrets, granted |-> TRUE]

(* "kept across re-runs (changing it would invalidate every socket token     *)
(* already handed out)": the key, once there is one; and the run changes no  *)
(* switch or mode the operator chose (docker-install.sh).                    *)
ChoicesKept ==
  /\ Usable(disk.key) => disk'.key = disk.key
  /\ run.step \in Running =>
       /\ disk.enabled # Absent => disk'.enabled = disk.enabled
       /\ disk.mode # Absent => disk'.mode = disk.mode

(* "It has to be an origin SOCKET_ORIGINS allows".                           *)
PublisherIsAllowed == run.step = "done" => disk.origin = disk.override.origins
=============================================================================
