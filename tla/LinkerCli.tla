------------------------------ MODULE LinkerCli ------------------------------
(***************************************************************************)
(* scripts/package-linker.mjs as it is called: what is found under          *)
(* packages/, which package a name stands for, what a command does to the   *)
(* names it was given one after the other, and its dry run, which does the  *)
(* same to a copy of the manifests and prints the files that would change.  *)
(* What linking writes into a file is PackageLinker's subject; here a file  *)
(* holds the packages it links.                                             *)
(***************************************************************************)
EXTENDS Naturals, SequencesExt

CONSTANTS MaxTurns, MaxNames

VARIABLES
    root,   \* the checkout: its manifests and packages/
    plan,   \* a dry run whose command is run next: what it said
    did,    \* and what that command then did
    turns

vars == <<root, plan, did, turns>>

Slugs == {"fleetops", "pallet", "ember-ui", "core-api", "notes"}
Files == {"console/package.json", "console/pnpm-workspace.yaml", "console/.npmrc", "api/composer.json", "links"}
NoCall == [command |-> "none", names |-> <<>>, shared |-> <<>>]
Outcome(call, changed, failed) == [call |-> call, changed |-> changed, failed |-> failed]
Nothing == Outcome(NoCall, {}, FALSE)

(* packages/: an extension is told by a keyword or by its extension.json; a  *)
(* directory without a manifest is no package.                               *)
Directory(npm, composer, keyword, extension) ==
    [npm |-> npm, composer |-> composer, keyword |-> keyword, extension |-> extension]
Directories ==
    [fleetops |-> Directory(TRUE, TRUE, TRUE, TRUE), pallet |-> Directory(FALSE, TRUE, FALSE, TRUE),
     notes |-> Directory(FALSE, FALSE, FALSE, TRUE),
     ember_ui |-> Directory(TRUE, FALSE, FALSE, FALSE), core_api |-> Directory(FALSE, TRUE, FALSE, FALSE)]
DirectoryOf(s) ==
    CASE s = "ember-ui" -> Directories.ember_ui [] s = "core-api" -> Directories.core_api
      [] OTHER -> Directories[s]

(* The manifests link nothing; .npmrc may be missing or hold patterns that   *)
(* are moved to the workspace file.                                          *)
Init ==
    /\ \E npmrc \in {"missing", "patterns", "clean"} :
           root = [dirs |-> [s \in Slugs |-> DirectoryOf(s)],
                   manifests |-> [package |-> {}, workspace |-> {}, settings |-> FALSE, patterns |-> FALSE,
                                  npmrc |-> npmrc, composer |-> {}, links |-> {}, record |-> FALSE]]
    /\ plan = Nothing /\ did = Nothing
    /\ turns = 0

-----------------------------------------------------------------------------
(* What is found in a tree. *)
DiscoverPackages(tree) == {s \in DOMAIN tree.dirs : tree.dirs[s].npm \/ tree.dirs[s].composer}

DiscoverModules(tree) ==
    {s \in DiscoverPackages(tree) : tree.dirs[s].keyword \/ tree.dirs[s].extension}

DiscoverSharedDependencies(tree) == DiscoverPackages(tree) \cap {"ember-ui"}
DiscoverSharedBackendDependencies(tree) == DiscoverPackages(tree) \cap {"core-api"}

(* A name is a slug or one of its packages' names, in any case for a module  *)
(* and with its scope or not for a shared one.                               *)
Name(slug, form) == [slug |-> slug, form |-> form]
Forms == {"slug", "package", "capitals"}

Unknown == "unknown"
FindModule(tree, name) == IF name.slug \in DiscoverModules(tree) THEN name.slug ELSE Unknown
Normalize(shared, name) == IF name.slug \in shared /\ name.form # "capitals" THEN name.slug ELSE Unknown
NormalizeShared(tree, name) == Normalize(DiscoverSharedDependencies(tree), name)
NormalizeSharedBackend(tree, name) == Normalize(DiscoverSharedBackendDependencies(tree), name)
AnyShared(tree, name) ==
    IF NormalizeSharedBackend(tree, name) # Unknown THEN NormalizeSharedBackend(tree, name)
    ELSE NormalizeShared(tree, name)

-----------------------------------------------------------------------------
(* What a command does to a tree; a state is [tree, failed].           *)
EnsureWorkspaceDevelopmentSettings(m) ==
    [m EXCEPT !.settings = TRUE, !.npmrc = "clean", !.patterns = @ \/ m.npmrc = "patterns"]

Linking(tree, s) ==
    LET d == tree.dirs[s]
        m == IF s = "core-api" THEN tree.manifests ELSE EnsureWorkspaceDevelopmentSettings(tree.manifests)
        console == IF d.npm THEN {s} ELSE {}
    IN [tree EXCEPT !.manifests =
           [m EXCEPT !.package = @ \cup console, !.workspace = @ \cup console,
                     !.composer = IF d.composer THEN @ \cup {s} ELSE @, !.links = @ \cup {s}, !.record = TRUE]]

Unlinking(tree, s) ==
    [tree EXCEPT !.manifests =
        [@ EXCEPT !.package = @ \ {s}, !.workspace = @ \ {s}, !.composer = @ \ {s},
                  !.links = @ \ {s}, !.record = TRUE]]

Fail(state) == [state EXCEPT !.failed = TRUE]

(* Each name in turn; a name that is not found ends the command, and leaves  *)
(* what the names before it did.                                             *)
EnableEach(state, s) ==
    IF s = Unknown \/ state.failed THEN Fail(state) ELSE [state EXCEPT !.tree = Linking(@, s)]
DisableEach(state, s) ==
    IF s = Unknown \/ state.failed THEN Fail(state) ELSE [state EXCEPT !.tree = Unlinking(@, s)]

(* enable m --shared ...: all the shared names are looked up once .npmrc was *)
(* rewritten and before anything else is.                                    *)
EnableModule(state, name, shared) ==
    LET found == {AnyShared(state.tree, shared[i]) : i \in DOMAIN shared} IN
    IF state.failed THEN state
    ELSE IF FindModule(state.tree, name) = Unknown THEN Fail(state)
    ELSE IF Unknown \in found
         THEN Fail([state EXCEPT !.tree.manifests.npmrc = "clean"])
         ELSE [state EXCEPT !.tree = FoldLeft(Linking, Linking(@, FindModule(@, name)), SetToSeq(found))]

(* The record of the links goes when it is empty. *)
ResetLinks(state) ==
    LET m == state.tree.manifests
        linked == m.package \cup m.workspace \cup m.composer \cup m.links
    IN [state EXCEPT !.tree = [FoldLeft(Unlinking, @, SetToSeq(linked)) EXCEPT !.manifests.record = FALSE]]

Execute(tree, call) ==
    LET start == [tree |-> tree, failed |-> FALSE] IN
    CASE call.command = "reset" -> ResetLinks(start)
      [] call.command = "enable" ->
           FoldLeft(LAMBDA state, name : EnableModule(state, name, call.shared), start, call.names)
      [] call.command = "disable" ->
           FoldLeft(LAMBDA state, name : DisableEach(state, FindModule(state.tree, name)), start, call.names)
      [] call.command = "enable-shared" ->
           FoldLeft(LAMBDA state, name : EnableEach(state, AnyShared(state.tree, name)), start, call.names)
      [] call.command = "disable-shared" ->
           FoldLeft(LAMBDA state, name : DisableEach(state, AnyShared(state.tree, name)), start, call.names)

-----------------------------------------------------------------------------
(* The dry run. *)

\* Mutant: extension.json is not copied.
CreateDryRunRoot_NoExtension(tree) ==
    [tree EXCEPT !.dirs = [s \in DiscoverPackages(tree) |-> [tree.dirs[s] EXCEPT !.extension = FALSE]]]

(* The manifests, and of each package its manifests. *)
CreateDryRunRoot(tree) == [tree EXCEPT !.dirs = [s \in DiscoverPackages(tree) |-> tree.dirs[s]]]

Changed(before, after) ==
    {f \in Files :
        CASE f = "console/package.json" -> before.package # after.package
          [] f = "console/pnpm-workspace.yaml" ->
               \E part \in {"workspace", "settings", "patterns"} : before[part] # after[part]
          [] f = "console/.npmrc" -> before.npmrc # after.npmrc
          [] f = "api/composer.json" -> before.composer # after.composer
          [] f = "links" -> before.links # after.links \/ before.record # after.record}

\* Mutant: a dry run works on the checkout.
TargetRoot_Checkout(dry) == [copy |-> FALSE, tree |-> root]

TargetRoot(dry) == [copy |-> dry, tree |-> IF dry THEN CreateDryRunRoot(root) ELSE root]

(* A command without the names it needs throws. *)
Entered ==
    [command : {"enable", "disable", "enable-shared", "disable-shared"},
     names : {<<>>}, shared : {<<>>}]

WithNames ==
    LET names == UNION {[1..n -> {Name("fleetops", "slug"), Name("pallet", "capitals"), Name("core-api", "package"),
                                  Name("ember-ui", "slug"), Name("ember-ui", "capitals"), Name("notes", "slug")}] : n \in 1..MaxNames}
    IN [command : {"enable"}, names : names, shared : {<<>>, <<Name("ember-ui", "slug")>>, <<Name("notes", "slug")>>}]
       \cup [command : {"disable", "enable-shared", "disable-shared"}, names : names, shared : {<<>>}]
       \cup [command : {"reset"}, names : {<<>>}, shared : {<<>>}]

Call == turns < MaxTurns /\ turns' = turns + 1

WithoutNames(call) ==
    /\ plan = Nothing /\ Call
    /\ UNCHANGED <<root, plan, did>>

(* What is written to the copy is not written to the checkout. *)
Done(call, dry) ==
    LET target == TargetRoot(dry)
        result == Execute(target.tree, call)
        outcome == Outcome(call, IF dry /\ result.failed THEN {} ELSE Changed(root.manifests, result.tree.manifests),
                           result.failed)
    IN
    /\ Call
    /\ root' = IF target.copy THEN root ELSE result.tree
    /\ IF dry THEN plan' = outcome /\ did' = Nothing
       ELSE /\ did' = IF plan = Nothing THEN Nothing ELSE outcome
            /\ UNCHANGED plan

(* Another command after a dry run does what it does without it, and so does *)
(* one after both.                                                           *)
DryRun(call) == plan = Nothing /\ Done(call, TRUE)
Run(call) == did = Nothing /\ plan.call \in {NoCall, call} /\ Done(call, FALSE)

Next ==
    \/ \E call \in Entered : WithoutNames(call)
    \/ \E call \in WithNames : DryRun(call) \/ Run(call)

-----------------------------------------------------------------------------
TypeOK ==
    /\ plan.changed \cup did.changed \subseteq Files
    /\ turns \in 0..MaxTurns

(* Whatever a command was given, it links only what was found under packages/*)
(* (discoverPackages).                                                       *)
LinkedWereFound ==
    LET m == root.manifests IN m.package \cup m.workspace \cup m.composer \cup m.links \subseteq DiscoverPackages(root)

(* A command that was run dry before does what the dry run said: it changes  *)
(* the files that were named and no other, and fails if the dry run did;     *)
(* so the dry run itself changed nothing (createDryRunRoot, printDryRunDiff).*)
DryRunsForetell ==
    did # Nothing =>
        did.failed = plan.failed /\ (~did.failed => did.changed = plan.changed)
=============================================================================
