------------------------- MODULE ExtensionsGenerator -------------------------
(***************************************************************************)
(* The build's in-repo addon that finds the installed extensions and writes *)
(* what loads them (lib/fleetbase-extensions-generator): a shim of each     *)
(* one's extension.js and their loaders under app/extensions, app/router.js *)
(* and public/extensions.json.  A run removes the old directory, waits for  *)
(* the list of packages and then writes everything; in development a change *)
(* of a watched extension.js starts another, whatever is still under way.   *)
(***************************************************************************)
EXTENDS Naturals, FiniteSets, SequencesExt

CONSTANTS
    Names,          \* the extensions' packages
    Roots,          \* those mounted at the root, not under the console
    Paths,          \* pairs of a name and a place in node_modules
    Development,    \* EMBER_ENV is not production
    MaxChanges      \* how often something is changed, installed or removed

VARIABLES
    installed,  \* the paths in node_modules
    source,     \* each extension's extension.js: 0 where there is none, or its version
    disk,       \* what was generated
    runs,       \* generateExtensionFiles under way, each with the paths it found
    watcher,    \* the extensions watched, the changes to be handled
    changes

vars == <<installed, source, disk, runs, watcher, changes>>

NamesAssumption == Roots \subseteq Names /\ Paths \subseteq Names \X Nat

None == "none"
Base == [console |-> <<"home", "notifications">>, root |-> <<"auth", "console", "catch">>]
NoFiles == [dir |-> FALSE, shims |-> <<>>, imports |-> <<>>, router |-> Base, manifest |-> {}, failed |-> FALSE]

Init ==
    /\ installed \in SUBSET Paths
    /\ source \in [Names -> {0, 1}]
    /\ disk = NoFiles
    /\ runs = {[id |-> 0, listed |-> FALSE, found |-> <<>>]}
    /\ watcher = [state |-> IF Development THEN "listing" ELSE "off", files |-> {}, events |-> 0,
                  noticed |-> [n \in Names |-> 0]]
    /\ changes = 0

-----------------------------------------------------------------------------
(* Mutant: a name is listed for each of its paths. *)
Extensions_Twice(found) == [i \in DOMAIN found |-> found[i][1]]

(* getExtensions: the packages at the paths found, each name once. *)
Extensions(found) ==
    FoldLeft(LAMBDA seen, path : IF Contains(seen, path[1]) THEN seen ELSE Append(seen, path[1]), <<>>, found)

HasFile(name) == source[name] > 0

(* generateExtensionShims: what each extension.js says by now. *)
Shims(extensions) == [n \in {x \in ToSet(extensions) : HasFile(x)} |-> source[n]]

(* Mutant: what has its shim already is not imported again. *)
Imports_OnlyNew(extensions) == SelectSeq(extensions, LAMBDA n : HasFile(n) /\ n \notin DOMAIN disk.shims)

(* generateExtensionLoaders: one import for each shim. *)
Imports(extensions) == SelectSeq(extensions, HasFile)

(* Mutant: the mount goes to the end, behind the route that catches all. *)
MountAtRoot_Last(routes, name) == Append(routes, name)

MountAtRoot(routes, name) ==
    IF Contains(routes, name) THEN routes
    ELSE LET catch == SelectInSeq(routes, LAMBDA r : r = "catch")
         IN IF catch = 0 THEN Append(routes, name) ELSE InsertAt(routes, catch, name)

MountInConsole(routes, name) == IF Contains(routes, name) THEN routes ELSE Append(routes, name)

(* generateRouter: the routes of router.map.js with the extensions mounted. *)
Router(extensions) ==
    [console |-> FoldLeft(MountInConsole, Base.console, SelectSeq(extensions, LAMBDA n : n \notin Roots)),
     root |-> FoldLeft(MountAtRoot, Base.root, SelectSeq(extensions, LAMBDA n : n \in Roots))]

(* generateExtensionsManifest *)
Manifest(extensions) == ToSet(extensions)

-----------------------------------------------------------------------------
(* included and the watcher's handler: the old directory goes first. *)
Begin ==
    /\ \E id \in 0 .. 2 :
           /\ \A r \in runs : r.id # id
           /\ runs' = runs \cup {[id |-> id, listed |-> FALSE, found |-> <<>>]}
    /\ disk' = [disk EXCEPT !.dir = FALSE, !.shims = <<>>, !.imports = <<>>]

(* The directories are read; the order is the file system's. *)
List(r) ==
    /\ ~r.listed
    /\ \E found \in SetToSeqs(installed) : runs' = (runs \ {r}) \cup {[r EXCEPT !.listed = TRUE, !.found = found]}
    /\ UNCHANGED <<installed, source, disk, watcher, changes>>

(* A package.json that was found and is gone rejects the run. *)
Generate(r) ==
    /\ r.listed /\ ToSet(r.found) \subseteq installed
    /\ LET extensions == Extensions(r.found)
       IN disk' = [dir |-> TRUE, shims |-> Shims(extensions) @@ disk.shims, imports |-> Imports(extensions),
                   router |-> Router(extensions), manifest |-> Manifest(extensions), failed |-> FALSE]
    /\ runs' = runs \ {r}
    /\ UNCHANGED <<installed, source, watcher, changes>>

Rejected(r) ==
    /\ r.listed /\ ~ToSet(r.found) \subseteq installed
    /\ runs' = runs \ {r}
    /\ disk' = [disk EXCEPT !.failed = TRUE]
    /\ UNCHANGED <<installed, source, watcher, changes>>

(* watchExtensionFiles: the files there are by then, if there are any. *)
Watch ==
    /\ watcher.state = "listing"
    /\ LET files == {path[1] : path \in {p \in installed : HasFile(p[1])}}
       IN watcher' = [watcher EXCEPT !.files = files, !.state = IF files = {} THEN "off" ELSE "on"]
    /\ UNCHANGED <<installed, source, disk, runs, changes>>

Changed ==
    /\ watcher.events > 0
    /\ Begin
    /\ watcher' = [watcher EXCEPT !.events = @ - 1]
    /\ UNCHANGED <<installed, source, changes>>

-----------------------------------------------------------------------------
(* A developer edits an extension, installs or removes one. *)
Edit(name) ==
    /\ changes < MaxChanges
    /\ changes' = changes + 1
    /\ HasFile(name) /\ \E path \in installed : path[1] = name
    /\ source' = [source EXCEPT ![name] = @ + 1]
    /\ watcher' = IF name \in watcher.files
                  THEN [watcher EXCEPT !.events = @ + 1, !.noticed[name] = source'[name]] ELSE watcher
    /\ UNCHANGED <<installed, disk, runs>>

InstallOrRemove(path) ==
    /\ changes < MaxChanges
    /\ changes' = changes + 1
    /\ installed' = IF path \in installed THEN installed \ {path} ELSE installed \cup {path}
    /\ UNCHANGED <<source, disk, runs, watcher>>

Next ==
    \/ \E r \in runs : List(r) \/ Generate(r) \/ Rejected(r)
    \/ Watch \/ Changed
    \/ \E n \in Names : Edit(n)
    \/ \E p \in Paths : InstallOrRemove(p)

-----------------------------------------------------------------------------
TypeOK ==
    /\ installed \subseteq Paths
    /\ watcher.files \subseteq Names /\ watcher.state \in {"listing", "on", "off"}

Quiet == runs = {} /\ watcher.events = 0 /\ ~disk.failed

(* Once nothing is under way the loaders import every extension that the     *)
(* manifest names and that has an extension.js, each once, and the shim of   *)
(* each is there and no older than its last change the watcher saw, however  *)
(* the runs of several changes overlapped.                                   *)
ImportsHaveTheirShims ==
    Quiet =>
        /\ disk.dir /\ IsInjective(disk.imports)
        /\ \A n \in disk.manifest : HasFile(n) => n \in ToSet(disk.imports)
        /\ \A n \in ToSet(disk.imports) :
               n \in DOMAIN disk.shims /\ disk.shims[n] >= watcher.noticed[n]

(* What is imported and what the manifest names are extensions that a run    *)
(* found (getExtensions), and what is imported the manifest names.           *)
GeneratedWereFound ==
    disk.manifest \subseteq {path[1] : path \in Paths} /\ ToSet(disk.imports) \subseteq disk.manifest

(* What the manifest names is mounted once, where it is to be, and before    *)
(* the route that catches every address (generateRouter).                    *)
MountedOnce ==
    /\ \A n \in disk.manifest :
           LET routes == IF n \in Roots THEN disk.router.root ELSE disk.router.console
           IN Cardinality({i \in DOMAIN routes : routes[i] = n}) = 1
    /\ Last(disk.router.root) = "catch"
=============================================================================
