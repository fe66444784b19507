----------------------------- MODULE MCConsole -----------------------------
(* The console's screens, each on its own, the build that mounts its        *)
(* extensions, and the scripts that link its packages and install the       *)
(* stack: a behaviour picks one of them and stays with it.  The screens     *)
(* share ui, calls and db.                                                  *)
EXTENDS Naturals, Sequences

CONSTANTS
    Parts,                                                \* the screens to be checked
    MaxOps,                                               \* bound: what is asked for on most of them
    Orgs, First, Me, Others, NoOwner, MaxMoves,           \* of Organizations
    Channels, Own, MaxTests, TestModes, TestOps,          \* the test of SocketSettings
    MaxSaves, MaxAsks,                                    \* TwoFactorSettings
    Tabs, Ttl, MaxTime, MaxDeploys,                       \* RuntimeConfig
    Notices, Received,                                    \* Notifications
    Apps, Registered, Grants,                             \* OauthApps
    MaxTokens,                                            \* PlatformToken
    Rows, Attention, Ownerless, Incomplete, Hits,         \* OrganizationList
    Companies, Users, Opened, Owner,                      \* OrganizationDetails
    Windows, Hourly, Consumers, Tenants, Unlimited,       \* ApiConsumers
    Modules, NpmPackages, ComposerPackages,
    MaxCommands, MaxCrashes, Hoisting, MaxInstalls,       \* PackageLinker
    Hosts, LocalHosts, MaxRuns                            \* and Installer

VARIABLES
    part, ui, calls, db,
    files, todo, script, command, entered, crashes, original, lost, stray,   \* linker
    installed, waiting, running, fresh, scope, report, installs,             \* and its installs
    disk, docker, run,                                                       \* installer
    text, rewrites,                                                          \* workspace file
    root, plan, did, turns,                                                  \* dry runs
    packages, source, built, generating, watcher, changes,                   \* extensions
    query                                                                    \* report

screenVars == <<ui, calls, db>>
linkerVars == <<files, todo, script, command, entered, crashes, original, lost, stray>>
installVars == <<installed, waiting, running, fresh, scope, report, installs>>
installerVars == <<disk, docker, run>>
yamlVars == <<text, rewrites>>
dryVars == <<root, plan, did, turns>>
buildVars == <<packages, source, built, generating, watcher, changes>>
vars == <<part, screenVars, linkerVars, installVars, installerVars, yamlVars, dryVars, buildVars, query>>

Company == INSTANCE Organizations

Forms == INSTANCE SettingsForms WITH
    Screens <- {"backups", "rate-limits", "sms-guard", "filesystem", "queue", "channels", "mail", "services"}

\* The settings and the test channel have nothing in common but the screen.
Socket == INSTANCE SocketSettings WITH Modes <- {"log", "enforce"}, Channels <- {Own}, MaxTests <- 0

SocketTest == INSTANCE SocketSettings WITH Modes <- TestModes, MaxOps <- TestOps

TwoFactor == INSTANCE TwoFactorSettings WITH Pages <- {"organization", "system", "account"}

Oauth == INSTANCE OauthSettings WITH
    Providers <- {"google"}, Ids <- {"i", "j"}, Secrets <- {"s"}, Accepted <- {<<"i", "s">>}

Boot == INSTANCE RuntimeConfig

Bell == INSTANCE Notifications WITH Ids <- Notices

OauthApp == INSTANCE OauthApps

Token == INSTANCE PlatformToken WITH MaxOps <- MaxTokens

Listed == INSTANCE OrganizationList WITH Orgs <- Rows

MCOwner == [a |-> "u", b |-> "v"]
Details == INSTANCE OrganizationDetails WITH First <- Opened

Consumer == INSTANCE ApiConsumers WITH Companies <- Tenants

\* Ten columns and three joins are enough for every score and speed.
Report == INSTANCE ReportQuery WITH MaxColumns <- 10, MaxJoins <- 3, MaxConditions <- 3

\* An extension of the console found in two places, and one of the root.
Extensions == INSTANCE ExtensionsGenerator WITH
    Names <- {"a", "r"}, Roots <- {"r"}, Paths <- {<<"a", 1>>, <<"a", 2>>, <<"r", 1>>},
    Development <- TRUE, MaxChanges <- 2,
    installed <- packages, disk <- built, runs <- generating

Yaml == INSTANCE LinkerYaml WITH MaxLines <- 3, MaxRewrites <- 2

DryRun == INSTANCE LinkerCli WITH MaxTurns <- 3, MaxNames <- 2

Linker == INSTANCE PackageLinker

\* Two commands and none killed.
Install == INSTANCE PackageLinker WITH MaxCommands <- 2, MaxCrashes <- 0

Stack == INSTANCE Installer

ASSUME CompanyAssumption == Company!OthersAssumption
ASSUME DetailsAssumption == Details!FirstAssumption
ASSUME ListAssumption == Listed!OrgsAssumption
ASSUME InstallerAssumptions == Stack!HostsAssumption /\ Stack!RunsAssumption
ASSUME ExtensionsAssumption == Extensions!NamesAssumption
ASSUME LinkerAssumptions == Linker!PackagesAssumption /\ Linker!BoundsAssumption

Screens == {"organizations", "forms", "socket", "socket-test", "two-factor", "oauth", "boot",
            "bell", "oauth-apps", "token", "list", "details", "consumers"}

NoScreen == ui = "unused" /\ calls = "unused" /\ db = "unused"
NoLinker ==
    /\ files = "unused" /\ todo = "unused" /\ script = "unused" /\ command = "unused"
    /\ entered = "unused" /\ crashes = "unused" /\ original = "unused"
    /\ lost = "unused" /\ stray = "unused"
NoInstall ==
    /\ installed = "unused" /\ waiting = "unused" /\ running = "unused" /\ fresh = "unused"
    /\ scope = "unused" /\ report = "unused" /\ installs = "unused"
NoInstaller == disk = "unused" /\ docker = "unused" /\ run = "unused"
NoYaml == text = "unused" /\ rewrites = "unused"
NoDryRun == root = "unused" /\ plan = "unused" /\ did = "unused" /\ turns = "unused"
NoBuild ==
    /\ packages = "unused" /\ source = "unused" /\ built = "unused"
    /\ generating = "unused" /\ watcher = "unused" /\ changes = "unused"

Init ==
    /\ part \in Parts
    /\ part \notin Screens => NoScreen
    /\ part \notin {"linker", "install"} => NoLinker
    /\ part # "install" => NoInstall
    /\ part # "installer" => NoInstaller
    /\ part # "yaml" => NoYaml
    /\ part # "dry-run" => NoDryRun
    /\ part # "extensions" => NoBuild
    /\ part # "report" => query = "unused"
    /\ \/ part = "organizations" /\ Company!Init
       \/ part = "forms" /\ Forms!Init
       \/ part = "socket" /\ Socket!Init
       \/ part = "socket-test" /\ SocketTest!Init
       \/ part = "two-factor" /\ TwoFactor!Init
       \/ part = "oauth" /\ Oauth!Init
       \/ part = "boot" /\ Boot!Init
       \/ part = "bell" /\ Bell!Init
       \/ part = "oauth-apps" /\ OauthApp!Init
       \/ part = "token" /\ Token!Init
       \/ part = "list" /\ Listed!Init
       \/ part = "details" /\ Details!Init
       \/ part = "consumers" /\ Consumer!Init
       \/ part = "linker" /\ Linker!Init
       \/ part = "install" /\ Install!InstallInit
       \/ part = "installer" /\ Stack!Init
       \/ part = "yaml" /\ Yaml!Init
       \/ part = "dry-run" /\ DryRun!Init
       \/ part = "extensions" /\ Extensions!Init
       \/ part = "report" /\ Report!Init

NextOnScreen ==
    /\ \/ part = "organizations" /\ Company!Next
       \/ part = "forms" /\ Forms!Next
       \/ part = "socket" /\ Socket!Next
       \/ part = "socket-test" /\ SocketTest!Next
       \/ part = "two-factor" /\ TwoFactor!Next
       \/ part = "oauth" /\ Oauth!Next
       \/ part = "boot" /\ Boot!Next
       \/ part = "bell" /\ Bell!Next
       \/ part = "oauth-apps" /\ OauthApp!Next
       \/ part = "token" /\ Token!Next
       \/ part = "list" /\ Listed!Next
       \/ part = "details" /\ Details!Next
       \/ part = "consumers" /\ Consumer!Next
    /\ UNCHANGED <<linkerVars, installVars, installerVars, yamlVars, dryVars, buildVars, query>>

NextOfBuild ==
    /\ \/ part = "linker" /\ Linker!Next /\ UNCHANGED <<installVars, installerVars, yamlVars, dryVars, buildVars, query>>
       \/ part = "install" /\ Install!InstallNext /\ UNCHANGED <<installerVars, yamlVars, dryVars, buildVars, query>>
       \/ /\ UNCHANGED <<linkerVars, installVars>>
          /\ \/ part = "installer" /\ Stack!Next /\ UNCHANGED <<yamlVars, dryVars, buildVars, query>>
             \/ part = "yaml" /\ Yaml!Next /\ UNCHANGED <<installerVars, dryVars, buildVars, query>>
             \/ part = "dry-run" /\ DryRun!Next /\ UNCHANGED <<installerVars, yamlVars, buildVars, query>>
             \/ part = "extensions" /\ Extensions!Next /\ UNCHANGED <<installerVars, yamlVars, dryVars, query>>
             \/ part = "report" /\ Report!Next /\ UNCHANGED <<installerVars, yamlVars, dryVars, buildVars>>
    /\ UNCHANGED screenVars

Next == UNCHANGED part /\ (NextOnScreen \/ NextOfBuild)

Spec == Init /\ [][Next]_vars

-----------------------------------------------------------------------------
(* Each screen's state has its type. *)
TypeOK ==
    CASE part = "organizations" -> Company!TypeOK
      [] part = "forms" -> Forms!TypeOK
      [] part = "socket" -> Socket!TypeOK
      [] part = "socket-test" -> SocketTest!TypeOK
      [] part = "two-factor" -> TwoFactor!TypeOK
      [] part = "oauth" -> Oauth!TypeOK
      [] part = "linker" -> Linker!TypeOK
      [] part = "install" -> Install!InstallTypeOK
      [] part = "installer" -> Stack!TypeOK
      [] part = "boot" -> Boot!TypeOK
      [] part = "bell" -> Bell!TypeOK
      [] part = "oauth-apps" -> OauthApp!TypeOK
      [] part = "token" -> Token!TypeOK
      [] part = "list" -> Listed!TypeOK
      [] part = "details" -> Details!TypeOK
      [] part = "consumers" -> Consumer!TypeOK
      [] part = "dry-run" -> DryRun!TypeOK
      [] part = "extensions" -> Extensions!TypeOK
      [] part = "report" -> Report!TypeOK
      [] part = "yaml" -> TRUE

(* The socket settings listen to one test channel at most, and each route    *)
(* transition closes it.  After the page was left, the answer to a test that *)
(* was still under way may open one, until the next transition, and nothing  *)
(* else does (configure/socket.js).                                          *)
OneTestChannel ==
    /\ [](part = "socket-test" => SocketTest!OneOpen)
    /\ [][part = "socket-test" => SocketTest!LeavingCloses]_vars

(* Leaving an organization does not leave it without its owner, and the     *)
(* page's organization is the session's, or is about to be                  *)
(* (account/organizations.js, controllers/console.js).                      *)
OrganizationsHold == part = "organizations" => Company!OwnersStay /\ Company!PageIsTheSessions

(* The settings shown are those stored (SettingsForms' screens), and on the  *)
(* two-factor pages those the page will send (two-fa-settings.js).  Excepted *)
(* is the organization's page once the user's own settings were answered,    *)
(* which replace what will be sent but not what the form shows               *)
(* (settings/two-fa.js:163-170).                                             *)
ShownIsStored ==
    /\ part = "forms" => Forms!ShownIsStored
    /\ part = "two-factor" => TwoFactor!ShownIsSent

(* Saving changes what was edited and nothing else: an untouched form no    *)
(* setting, a blank box not the secret it stands for, an app's form no other *)
(* app (configure/oauth.js, configure/oauth-apps.js).  Enforcing, chosen or  *)
(* switched on, is confirmed (configure/socket.js).                          *)
OnlyEditsAreStored ==
    [][/\ part = "forms" => Forms!UntouchedStays'
       /\ part = "oauth" => Oauth!SecretsStay
       /\ part = "socket" => Socket!ChosenEnforceIsConfirmed
       /\ part = "oauth-apps" => OauthApp!UpdatesStayWithTheirApp']_vars

(* What a page shows or announces is so, whatever was answered late, lost or *)
(* changed meanwhile: the configuration it works with is recent, what it     *)
(* said was read, deleted or removed is, a secret it shows is the one that   *)
(* works, a list or a count is what was asked for, and who is said to be     *)
(* impersonated is (runtime-config.js, notifications.js, oauth-apps.js,      *)
(* platform-api-token.js, admin/organizations, api-consumers.js).            *)
PagesAreTruthful ==
    /\ part = "boot" => Boot!BootsWithRecent
    /\ part = "bell" => Bell!AnnouncedIsSo
    /\ part = "oauth-apps" => OauthApp!ShownSecretWorks
    /\ part = "token" => Token!ShownTokenWorks
    /\ part = "list" => Listed!ListShowsWhatMatches
    /\ part = "details" => Details!AnnouncedIsImpersonated /\ Details!RemovedAreGone
    /\ part = "consumers" => Consumer!NumbersAreOfTheWindow

(* What is computed from a list, a text or a tree is what is meant.  However *)
(* a report's conditions are nested, each of them counts once, and adding to *)
(* a query makes it look neither simpler nor faster (models/report.js).  The *)
(* linker, which reads and writes YAML by itself, changes nothing in it that *)
(* its command is not about, and a dry run tells what its command will do    *)
(* (package-linker.mjs).  What the build imports and mounts was generated,   *)
(* once, from the extensions found (fleetbase-extensions-generator).         *)
ComputedAsMeant ==
    [][/\ part = "report" => Report!EveryConditionCounts' /\ Report!MoreIsNoSimpler
       /\ part = "yaml" => Yaml!RewritesKeepMeaning /\ Yaml!LinkingTwiceIsOnce
       /\ part = "dry-run" => DryRun!DryRunsForetell' /\ DryRun!LinkedWereFound'
       /\ part = "extensions" => /\ Extensions!ImportsHaveTheirShims' /\ Extensions!MountedOnce'
                                 /\ Extensions!GeneratedWereFound']_vars

(* A package that is linked no more has its ranges and its pin back          *)
(* (package-linker.mjs).                                                     *)
OriginalsRestored == part = "linker" => Linker!OriginalsRestored

(* What the console takes from packages/ is in the workspace and recorded,  *)
(* a reset leaves no link behind, and an install that succeeded installed   *)
(* what is linked (package-linker.mjs).                                     *)
LinksResolve ==
    /\ part = "linker" => Linker!LinksResolve /\ Linker!ResetUnlinks
    /\ part = "install" => Install!InstalledAsLinked

(* A run of the installer that ended well left one installation: files of   *)
(* its answers, one key and switch for all containers, and an application   *)
(* (but no queue and no scheduler) that reaches its database.  None took    *)
(* away the socket key or changed a setting that was chosen                 *)
(* (docker-install.sh, docker-compose.yml).                                 *)
InstallsHold ==
    [][part = "installer" => Stack!InstalledIsOne' /\ Stack!ChoicesKept]_vars

(* "entersEnforce covers every way a save can start enforcing". *)
EnforcingIsConfirmed == [][part = "socket" => Socket!EnforcingIsConfirmed]_vars

(* A check's result "describes what is in the form". *)
ChecksDescribeTheForm == part = "oauth" => Oauth!ChecksDescribeTheForm

(* The publisher's origin "has to be an origin SOCKET_ORIGINS allows".      *)
PublisherIsAllowed == part = "installer" => Stack!PublisherIsAllowed

(* "The linker automatically moves public-hoist-pattern settings".           *)
HoistPatternsMove == part = "linker" => Linker!HoistPatternsMove
=============================================================================
