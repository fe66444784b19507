---------------------------- MODULE PackageLinker ----------------------------
(***************************************************************************)
(* scripts/package-linker.mjs: the commands that link local packages into   *)
(* the console's and the API's manifests.  A command reads the files,       *)
(* computes what they should hold and writes them one after the other; the  *)
(* file that remembers the originals comes last.  The process may be killed *)
(* between two writes.  What was linked is installed in a second part.      *)
(***************************************************************************)
EXTENDS Naturals, Sequences, FiniteSets, SequencesExt

CONSTANTS
  Modules,           \* the extensions under packages/
  NpmPackages,       \* packages with a package.json,
  ComposerPackages,  \* with a composer.json
  Hoisting,          \* whether .npmrc holds hoist patterns at first: one of these
  MaxCommands,       \* bound: commands entered
  MaxCrashes         \* bound: commands killed

Packages == NpmPackages \cup ComposerPackages
SharedNpm == NpmPackages \ Modules
SharedComposer == ComposerPackages \ Modules

PackagesAssumption ==
  /\ IsFiniteSet(Packages) /\ Modules \subseteq Packages /\ "no install" \notin Packages
  /\ SharedNpm \cap SharedComposer = {}
BoundsAssumption == MaxCommands \in Nat /\ MaxCrashes \in Nat /\ Hoisting \subseteq BOOLEAN

VARIABLES
  files,     \* what the files hold now
  todo,      \* the writes the running command has still to make
  script,    \* the parts of the command that have not begun
  command,   \* the last command entered
  entered,   \* how many commands were entered,
  crashes,   \* and how many killed
  original,  \* history: the files at first
  lost,      \* history: packages whose link was killed before it was recorded
  stray      \* history: packages unlinked that no link was recorded for

vars == <<files, todo, script, command, entered, crashes, original, lost, stray>>

Absent == "absent"
Original == "original"  \* what was there before the linker
Version == "version"    \* ^version, of the package's own manifest
Local == "local"        \* link:, workspace:*, or a path repository
NoEntry == [npm |-> Absent, override |-> Absent, composer |-> Absent,
            repository |-> Absent]

Ranges == {Absent, Original, Version, Local}
Entries == [npm : {Absent, Original, Version}, override : Ranges,
            composer : {Absent, Original, Version}, repository : Ranges]

Files ==
  [npmrc : BOOLEAN,  \* .npmrc holds public-hoist-pattern[] lines
   package : [dependencies : [NpmPackages -> Ranges],
              overrides : [SharedNpm -> {Absent, Original}]],
   composer : [require : [ComposerPackages -> {Absent, Original, Version}],
               repositories : [ComposerPackages -> {Absent, Original, Local}]],
   workspace : [packages : SUBSET NpmPackages,
                overrides : [SharedNpm -> {Absent, Original, Local}],
                hoist : BOOLEAN],
   links : [Packages -> Entries]]

FileNames == {"npmrc", "package", "composer", "workspace", "links"}

(* A part of a command; shared is empty but for enable.                      *)
Ops == {"enable", "disable", "enable-shared", "disable-shared"}
WrittenParts == [op : Ops, package : Packages, shared : SUBSET SharedNpm]

TypeOK ==
  /\ files \in Files /\ original \in Files
  /\ \A i \in DOMAIN todo : todo[i].file \in FileNames
  /\ script \in Seq(WrittenParts)
  /\ command \in {"none", "link", "reset", "killed", "failed"}
  /\ entered \in 0..MaxCommands /\ crashes \in 0..MaxCrashes
  /\ lost \subseteq Packages /\ stray \subseteq Packages

(* The manifests may name no package, the extensions or all of them, pin     *)
(* some in pnpm's overrides, or have path repositories added by hand.        *)
Init ==
  /\ \E named \in {{}, Modules, Packages}, pinned \in SUBSET SharedNpm,
        byHand \in {{}, ComposerPackages}, inYaml \in BOOLEAN, hoist \in Hoisting :
       LET mark(S, p) == IF p \in S THEN Original ELSE Absent IN
       files =
         [npmrc |-> hoist,
          package |->
            [dependencies |-> [p \in NpmPackages |-> mark(named, p)],
             overrides |-> [p \in SharedNpm |->
                              mark(IF inYaml THEN {} ELSE pinned, p)]],
          composer |->
            [require |-> [p \in ComposerPackages |-> mark(named, p)],
             repositories |-> [p \in ComposerPackages |-> mark(byHand, p)]],
          workspace |->
            [packages |-> {}, hoist |-> FALSE,
             overrides |-> [p \in SharedNpm |->
                              mark(IF inYaml THEN pinned ELSE {}, p)]],
          links |-> [p \in Packages |-> NoEntry]]
  /\ original = files
  /\ todo = <<>> /\ script = <<>>
  /\ command = "none" /\ entered = 0 /\ crashes = 0
  /\ lost = {} /\ stray = {}
-----------------------------------------------------------------------------
Tracked(p) == files.links[p] # NoEntry

(* migratePnpmSettingsFromNpmrc(): .npmrc is rewritten at once, the workspace *)
(* file with the settings when the command writes it.                        *)
Migrated == [files.workspace EXCEPT !.hoist = @ \/ files.npmrc]

(* originalNpmRange(), and the range of an API package.                      *)
NpmRange_AnyRange(p) ==
  IF files.package.dependencies[p] = Absent THEN Version
  ELSE files.package.dependencies[p]
NpmRange(p) ==
  IF files.package.dependencies[p] \in {Absent, Local} THEN Version
  ELSE files.package.dependencies[p]
ComposerRange(p) ==
  IF files.composer.require[p] = Absent THEN Version
  ELSE files.composer.require[p]

(* The pin that is in force for a shared package.                            *)
Pin(f, p) ==
  IF f.workspace.overrides[p] # Absent THEN f.workspace.overrides[p]
  ELSE f.package.overrides[p]

(* What is remembered of a package, unless it is remembered already.         *)
Found(p) ==
  [npm |-> IF p \in NpmPackages THEN NpmRange(p) ELSE Absent,
   override |-> IF p \in SharedNpm THEN Pin(files, p) ELSE Absent,
   composer |-> IF p \in ComposerPackages THEN ComposerRange(p) ELSE Absent,
   repository |-> IF p \in SharedComposer THEN files.composer.repositories[p]
                  ELSE Absent]
Entry_Again(p) == Found(p)
Entry(p) == IF Tracked(p) THEN files.links[p] ELSE Found(p)

Write(file, content) == <<[file |-> file, content |-> content]>>
WriteIf(condition, file, content) ==
  IF condition THEN Write(file, content) ELSE <<>>

Over(f, S, value) == [x \in DOMAIN f |-> IF x \in S THEN value ELSE f[x]]

LinkedPackage(S) ==
  [dependencies |-> Over(files.package.dependencies, S, Local),
   overrides |-> Over(files.package.overrides, S, Absent)]
LinkedComposer(p) ==
  [require |-> Over(files.composer.require, {p}, Entry(p).composer),
   repositories |-> Over(files.composer.repositories, {p}, Local)]
LinkedWorkspace(S) ==
  [Migrated EXCEPT !.packages = @ \cup S, !.overrides = Over(@, S, Local)]
Recorded(S) == [p \in Packages |-> IF p \in S THEN Entry(p) ELSE files.links[p]]

(* enableModule(), with the shared packages of the console named with it.    *)
EnableModule(m, shared) ==
  LET console == ({m} \cap NpmPackages) \cup shared IN
  Write("npmrc", FALSE)
  \o Write("package", LinkedPackage(console))
  \o WriteIf(m \in ComposerPackages, "composer", LinkedComposer(m))
  \o Write("workspace", LinkedWorkspace(console))
  \o Write("links", Recorded({m} \cup shared))

(* enableSharedPackage() and enableSharedBackendPackage()                    *)
EnableShared(p) ==
  IF p \in SharedNpm
    THEN Write("npmrc", FALSE)
         \o Write("package", LinkedPackage({p}))
         \o Write("workspace", LinkedWorkspace({p}))
         \o Write("links", Recorded({p}))
    ELSE Write("composer", LinkedComposer(p)) \o Write("links", Recorded({p}))

(* The range a disabled package gets back: the recorded one, or a guess.     *)
Back(now, recorded) ==
  IF now = Absent THEN Absent ELSE IF recorded = Absent THEN Version ELSE recorded

UnlinkedPackage(p) ==
  [files.package EXCEPT !.dependencies =
     Over(@, {p}, Back(@[p], files.links[p].npm))]
UnlinkedComposer(p) ==
  [require |-> Over(files.composer.require, {p},
                    Back(files.composer.require[p], files.links[p].composer)),
   repositories |-> Over(files.composer.repositories, {p},
                         IF files.composer.repositories[p] = Absent THEN Absent
                         ELSE files.links[p].repository)]
UnlinkedWorkspace(p) ==
  [files.workspace EXCEPT
     !.packages = @ \ {p},
     !.overrides = Over(@, {p}, IF p \in SharedNpm /\ @[p] # Absent
                                  THEN files.links[p].override ELSE Absent)]
Forgotten(p) == [files.links EXCEPT ![p] = NoEntry]

(* disableModule(), disableSharedPackage(), disableSharedBackendPackage()    *)
Disable_WorkspaceFirst(p) ==
  WriteIf(p \in NpmPackages, "workspace", UnlinkedWorkspace(p))
  \o WriteIf(p \in NpmPackages, "package", UnlinkedPackage(p))
  \o WriteIf(p \in ComposerPackages, "composer", UnlinkedComposer(p))
  \o Write("links", Forgotten(p))
Disable(p) ==
  WriteIf(p \in NpmPackages, "package", UnlinkedPackage(p))
  \o WriteIf(p \in ComposerPackages, "composer", UnlinkedComposer(p))
  \o WriteIf(p \in NpmPackages, "workspace", UnlinkedWorkspace(p))
  \o Write("links", Forgotten(p))
-----------------------------------------------------------------------------
Idle == todo = <<>> /\ script = <<>>

(* getResetTargets(): modules first, then the shared packages.               *)
IsLinked_Recorded(p) == Tracked(p)
IsLinked(p) ==
  \/ Tracked(p)
  \/ p \in NpmPackages /\ files.package.dependencies[p] = Local
  \/ p \in Modules \cap NpmPackages /\ p \in files.workspace.packages
  \/ p \in SharedNpm /\ Pin(files, p) = Local
  \/ p \in ComposerPackages /\ files.composer.repositories[p] # Absent

Part(op, p, shared) == [op |-> op, package |-> p, shared |-> shared]

ResetScript ==
  LET parts(op, S) == [i \in 1..Cardinality(S) |-> Part(op, SetToSeq(S)[i], {})]
      targets == {p \in Packages : IsLinked(p)} IN
  parts("disable", targets \cap Modules)
  \o parts("disable-shared", targets \ Modules)

Enter(kind, parts) ==
  /\ Idle
  /\ entered < MaxCommands
  /\ entered' = entered + 1
  /\ command' = kind
  /\ script' = parts
  /\ UNCHANGED <<files, todo, crashes, original, lost, stray>>

(* enable m --shared ...: a shared package of the API is linked after the    *)
(* other files were written.                                                 *)
EnterEnable(m, shared) ==
  LET api == SetToSeq(shared \cap SharedComposer) IN
  Enter("link", <<Part("enable", m, shared \cap SharedNpm)>>
          \o [i \in DOMAIN api |-> Part("enable-shared", api[i], {})])
EnterDisable(m) == Enter("link", <<Part("disable", m, {})>>)
EnterEnableShared(p) == Enter("link", <<Part("enable-shared", p, {})>>)
EnterDisableShared(p) == Enter("link", <<Part("disable-shared", p, {})>>)
EnterReset == Enter("reset", ResetScript)

(* enable m --shared with a name that is no shared package: the command      *)
(* throws once .npmrc was rewritten, before anything else is.  (It links     *)
(* nothing and is not counted among the commands.)                           *)
EnterUnknownShared ==
  /\ Idle
  /\ command' = "failed"
  /\ files' = [files EXCEPT !.npmrc = FALSE]
  /\ UNCHANGED <<todo, script, entered, crashes, original, lost, stray>>

Writes(part) ==
  CASE part.op = "enable" -> EnableModule(part.package, part.shared)
    [] part.op = "enable-shared" -> EnableShared(part.package)
    [] part.op \in {"disable", "disable-shared"} -> Disable(part.package)

Begin ==
  /\ todo = <<>> /\ script # <<>>
  /\ todo' = Writes(Head(script))
  /\ script' = Tail(script)
  /\ stray' = IF /\ Head(script).op \in {"disable", "disable-shared"}
                 /\ ~Tracked(Head(script).package)
                THEN stray \cup {Head(script).package} ELSE stray
  /\ UNCHANGED <<files, command, entered, crashes, original, lost>>

WriteFile ==
  /\ todo # <<>>
  /\ files' = [files EXCEPT ![Head(todo).file] = Head(todo).content]
  /\ todo' = Tail(todo)
  /\ UNCHANGED <<script, command, entered, crashes, original, lost, stray>>

(* The process is killed between two writes.                                 *)
Unrecorded ==
  {p \in Packages : /\ ~Tracked(p) /\ todo # <<>>
                    /\ Last(todo).content[p] # NoEntry}

Crash ==
  /\ ~Idle
  /\ crashes < MaxCrashes
  /\ crashes' = crashes + 1
  /\ command' = "killed"
  /\ todo' = <<>> /\ script' = <<>>
  /\ lost' = lost \cup Unrecorded
  /\ UNCHANGED <<files, entered, original, stray>>

Next ==
  \/ \E m \in Modules, shared \in SUBSET (SharedNpm \cup SharedComposer) :
       EnterEnable(m, shared)
  \/ \E m \in Modules : EnterDisable(m)
  \/ \E p \in SharedNpm \cup SharedComposer :
       EnterEnableShared(p) \/ EnterDisableShared(p)
  \/ EnterReset \/ EnterUnknownShared
  \/ Begin \/ WriteFile \/ Crash

-----------------------------------------------------------------------------
(* Properties. *)

(* What a disabled package gets back: what it had, and ^version where it had *)
(* nothing.                                                                  *)
Reversed(now, before) == now = before \/ (before = Absent /\ now = Version)

(* Whatever the order of the commands, a package that is linked no more has  *)
(* its ranges, its pin and its repository back.  It is not so for a package  *)
(* whose link was killed before it was recorded, and for one that was        *)
(* unlinked without being recorded; a module's own path repository goes.     *)
OriginalsRestored ==
  Idle => \A p \in Packages \ (lost \cup stray) : ~Tracked(p) =>
    /\ p \in NpmPackages =>
         Reversed(files.package.dependencies[p], original.package.dependencies[p])
    /\ p \in SharedNpm => Pin(files, p) = Pin(original, p)
    /\ p \in ComposerPackages =>
         Reversed(files.composer.require[p], original.composer.require[p])
    /\ p \in SharedComposer =>
         files.composer.repositories[p] = original.composer.repositories[p]

(* A package the console takes from packages/ is in the workspace, recorded, *)
(* and not pinned to anything else, even after a command was killed.  (Once: *)
(* two kills may leave a package that was about to be unlinked, and is       *)
(* recorded still, linked in package.json and not in the workspace.)         *)
LinksResolve ==
  Idle /\ crashes <= 1 => \A p \in NpmPackages \ lost : files.package.dependencies[p] = Local =>
    /\ Tracked(p) /\ p \in files.workspace.packages
    /\ p \in SharedNpm => Pin(files, p) = Local

(* A reset that was not killed leaves no link behind, also where an earlier  *)
(* command was killed.                                                       *)
ResetUnlinks ==
  Idle /\ command = "reset" =>
    /\ files.workspace.packages = {}
    /\ \A p \in Packages : ~Tracked(p)
    /\ \A p \in NpmPackages : files.package.dependencies[p] # Local
    /\ \A p \in SharedNpm \ lost : Pin(files, p) # Local
    /\ \A p \in Modules \cap ComposerPackages :
         files.composer.repositories[p] = Absent

(* scripts/README.md: the linker moves the public-hoist-pattern settings     *)
(* from .npmrc to the workspace file.                                        *)
HoistPatternsMove ==
  Idle /\ original.npmrc => files.npmrc \/ files.workspace.hoist

-----------------------------------------------------------------------------
(* Installing.  A command given --install, or install by itself, runs pnpm   *)
(* and then composer; doctor says whether what is linked is also installed.  *)
CONSTANT MaxInstalls   \* bound: installs begun

VARIABLES
  installed,  \* where console/node_modules and api/vendor take a package from
  waiting,    \* the packages to be installed after the command, or NoInstall
  running,    \* "pnpm", "composer" or "none"
  fresh,      \* history: the packages composer was asked for by the install
              \* that succeeded last, NoInstall when files changed since
  scope,      \* history: whether that install was of "named" packages or "linked"
  report,     \* what doctor printed last: the packages it warned about
  installs

installVars == <<installed, waiting, running, fresh, scope, report, installs>>
NoInstall == {"no install"}

InstallTypeOK ==
  /\ TypeOK
  /\ installed \in [npm : [NpmPackages -> {Original, Local}],
                    composer : [ComposerPackages -> {Original, Local}]]
  /\ waiting \subseteq Packages \cup NoInstall
  /\ running \in {"none", "pnpm", "composer"}
  /\ fresh \subseteq Packages \cup NoInstall /\ scope \in {"named", "linked"}
  /\ report \subseteq Packages \cup {"ok"} /\ installs \in 0..MaxInstalls

(* A checkout that was installed from the registry; the manifests name every *)
(* package and pin none.                                                     *)
InstallInit ==
  /\ Init
  /\ \A p \in NpmPackages : files.package.dependencies[p] = Original
  /\ \A p \in SharedNpm : Pin(files, p) = Absent
  /\ installed = [npm |-> [p \in NpmPackages |-> Original],
                  composer |-> [p \in ComposerPackages |-> Original]]
  /\ waiting = NoInstall /\ running = "none"
  /\ fresh = NoInstall /\ scope = "named" /\ report = {} /\ installs = 0

-----------------------------------------------------------------------------
Free == Idle /\ running = "none" /\ waiting = NoInstall

(* getInstallModules(): the packages named, or those linked; only modules    *)
(* and shared packages of the API matter to composer.                        *)
InstallModules_Recorded(names) ==
  IF names # {} THEN names ELSE {p \in Modules \cup SharedComposer : Tracked(p)}
InstallModules(names) ==
  IF names # {} THEN names ELSE {p \in Modules \cup SharedComposer : IsLinked(p)}

Backends(S) == S \cap ComposerPackages

(* runCli(): enable, enable-shared and reset take --install.                 *)
With(entering, packages) ==
  /\ Free /\ entering
  /\ \/ waiting' = NoInstall
     \/ installs < MaxInstalls /\ waiting' = packages
  /\ fresh' = NoInstall /\ scope' = "named"
  /\ UNCHANGED <<installed, running, report, installs>>

LinkEnable(m, shared) == With(EnterEnable(m, shared), {m})
LinkEnableShared(p) == With(EnterEnableShared(p), {p})
LinkReset == With(EnterReset, {p \in Packages : IsLinked(p)})
Unlink(entering) ==
  /\ Free /\ entering /\ fresh' = NoInstall
  /\ UNCHANGED <<installed, waiting, running, scope, report, installs>>

LinkStep == (Begin \/ WriteFile) /\ UNCHANGED installVars

EnterInstall(names) ==
  /\ Free /\ installs < MaxInstalls
  /\ waiting' = InstallModules(names)
  /\ scope' = IF names = {} THEN "linked" ELSE "named"
  /\ UNCHANGED <<vars, installed, running, fresh, report, installs>>

(* runInstall(): pnpm in console/, then composer in api/ for the backends;   *)
(* the first that fails ends the process.                                    *)
StartPnpm ==
  /\ Idle /\ running = "none" /\ waiting # NoInstall
  /\ running' = "pnpm" /\ installs' = installs + 1
  /\ UNCHANGED <<vars, installed, waiting, fresh, scope, report>>

LocalIf(S, P) == [p \in P |-> IF p \in S THEN Local ELSE Original]

PnpmSucceeds ==
  /\ running = "pnpm"
  /\ installed' = [installed EXCEPT !.npm = LocalIf({p \in NpmPackages : files.package.dependencies[p] = Local}, NpmPackages)]
  /\ IF Backends(waiting) # {}
       THEN running' = "composer" /\ UNCHANGED <<waiting, fresh>>
       ELSE running' = "none" /\ waiting' = NoInstall /\ fresh' = {}
  /\ UNCHANGED <<vars, scope, report, installs>>

(* --with-dependencies: an extension's API requires the shared ones.         *)
WithDependencies(S) == S \cup (IF S \cap Modules # {} THEN SharedComposer ELSE {})

ComposerSucceeds ==
  LET updated == WithDependencies(Backends(waiting)) IN
  /\ running = "composer"
  /\ installed' = [installed EXCEPT !.composer =
       [p \in ComposerPackages |->
          IF p \notin updated THEN @[p]
          ELSE IF files.composer.repositories[p] = Absent THEN Original ELSE Local]]
  /\ running' = "none" /\ waiting' = NoInstall /\ fresh' = updated
  /\ UNCHANGED <<vars, scope, report, installs>>

Fails ==
  /\ running # "none"
  /\ running' = "none" /\ waiting' = NoInstall
  /\ fresh' = NoInstall
  /\ UNCHANGED <<vars, installed, scope, report, installs>>

(* printDoctor(): shared packages of the console that are configured but not *)
(* installed from packages/, shared ones of the API without their repository.*)
Warnings ==
  {p \in SharedNpm : /\ Pin(files, p) = Local \/ files.package.dependencies[p] = Local
                     /\ installed.npm[p] # Local}
  \cup {p \in SharedComposer : Tracked(p) /\ files.composer.repositories[p] = Absent}

Doctor ==
  /\ Free
  /\ report' = IF Warnings = {} THEN {"ok"} ELSE Warnings
  /\ UNCHANGED <<vars, installed, waiting, running, fresh, scope, installs>>

InstallNext ==
  \/ \E m \in Modules, shared \in SUBSET (SharedNpm \cup SharedComposer) : LinkEnable(m, shared)
  \/ \E m \in Modules : Unlink(EnterDisable(m))
  \/ \E p \in SharedNpm \cup SharedComposer :
       LinkEnableShared(p) \/ Unlink(EnterDisableShared(p))
  \/ LinkReset \/ LinkStep
  \/ \E names \in SUBSET (Modules \cup SharedComposer) : EnterInstall(names)
  \/ StartPnpm \/ PnpmSucceeds \/ ComposerSucceeds \/ Fails \/ Doctor

-----------------------------------------------------------------------------
(* After an install that succeeded the console runs what its manifest links, *)
(* no more and no less, and doctor finds nothing; the API runs every linked  *)
(* package from packages/ if none was named.  A package that is linked no    *)
(* longer stays there until an install names it (runInstall, printDoctor).   *)
InstalledAsLinked ==
  fresh # NoInstall /\ Free =>
    /\ \A p \in NpmPackages : (installed.npm[p] = Local) = (files.package.dependencies[p] = Local)
    /\ Warnings = {}
    /\ \A p \in fresh : (installed.composer[p] = Local) = (files.composer.repositories[p] # Absent)
    /\ scope = "linked" =>
         \A p \in ComposerPackages : IsLinked(p) => installed.composer[p] = Local
=============================================================================
