---------------------------- MODULE RuntimeConfig ----------------------------
(***************************************************************************)
(* The console's boot (utils/runtime-config.js, initializers/               *)
(* load-runtime-config.js): a page waits for its runtime configuration,     *)
(* takes it from the browser's storage if a page of the same version put it *)
(* there within the hour, or fetches it and stores it for the next.  Tabs   *)
(* share the storage; a write to it may fail, and a fetch may be answered   *)
(* from the browser's own cache.                                            *)
(***************************************************************************)
EXTENDS Naturals, SequencesExt

CONSTANTS
    Tabs,
    Ttl,            \* CACHE_TTL, in ticks of the clock
    MaxTime, MaxDeploys

VARIABLES
    ui,     \* each tab's page
    calls,  \* fetches under way
    db      \* the server, the browser's storage and the clock

vars == <<ui, calls, db>>

None == "none"

(* What fleetbase.config.json may hold, its keys in order; EXTENSIONS may be *)
(* something that is no list.                                                *)
Mapped == {"API_HOST", "EXTENSIONS"}
Files == {[keys |-> <<"OTHER", "API_HOST">>, list |-> TRUE],
          [keys |-> <<"EXTENSIONS", "API_HOST">>, list |-> TRUE], [keys |-> <<"EXTENSIONS", "API_HOST">>, list |-> FALSE]}
NoFile == [keys |-> <<>>, list |-> FALSE]

\* torn: the version could not be written with it.
NoCache == [file |-> NoFile, at |-> 0, by |-> 0, torn |-> FALSE]
Closed == [state |-> "closed", version |-> 0, from |-> None, cache |-> NoCache, booted |-> 0, set |-> {}]

Init ==
    /\ ui = [t \in Tabs |-> Closed]
    /\ calls = {}
    /\ \E file \in Files \cup {NoFile}, mode \in {"production", "development", "disabled"} :
           db = [file |-> file, deployed |-> 1, mode |-> mode, now |-> 0,
                 config |-> NoCache, version |-> 0, last |-> NoFile]

-----------------------------------------------------------------------------
(* coerceValue throws for EXTENSIONS that are no list. *)
Sound(file) == Contains(file.keys, "EXTENSIONS") => file.list

(* applyRuntimeConfig: keys that are not allowed are ignored, those before   *)
(* the one that throws are set.                                              *)
Applied(file) ==
    IF Sound(file) THEN Mapped \cap ToSet(file.keys)
    ELSE Mapped \cap ToSet(SubSeq(file.keys, 1, SelectInSeq(file.keys, LAMBDA k : k = "EXTENSIONS") - 1))

(* Mutant: the age is not compared. *)
CachedConfig_AnyAge(version) == db.config # NoCache /\ db.version = version

(* getCachedConfig: is there one that may be used? *)
CachedConfig(version) ==
    /\ db.config # NoCache /\ db.version # 0
    /\ db.version = version
    /\ db.now - db.config.at <= Ttl

Boot(t, from, cache) ==
    ui' = [ui EXCEPT ![t] = [state |-> "ready", version |-> db.deployed, from |-> from, cache |-> cache,
                             booted |-> db.now, set |-> Applied(cache.file)]]

(* A page is opened: readiness is deferred. *)
Open(t) ==
    /\ ui[t].state = "closed"
    /\ UNCHANGED db
    /\ LET cached == db.mode = "production" /\ CachedConfig(db.deployed) IN
       \/ db.mode = "disabled" /\ Boot(t, "build", NoCache) /\ UNCHANGED calls
       \/ cached /\ Boot(t, "storage", db.config) /\ UNCHANGED calls
       \/ /\ db.mode # "disabled" /\ ~cached
          /\ ui' = [ui EXCEPT ![t] = [Closed EXCEPT !.state = "loading", !.version = db.deployed]]
          /\ calls' = calls \cup {[tab |-> t, handled |-> FALSE, file |-> NoFile]}

(* The server answers, or the browser with what it fetched last. *)
Handle(c) ==
    /\ ~c.handled
    /\ \E file \in {db.file, db.last} :
           /\ calls' = (calls \ {c}) \cup {[c EXCEPT !.handled = TRUE, !.file = file]}
           /\ db' = [db EXCEPT !.last = file]
    /\ UNCHANGED ui

(* Mutant: what cannot be applied is stored all the same. *)
Stores_Any(file) == TRUE

(* The configuration is applied before it is stored, and throws if it cannot. *)
Stores(file) == Sound(file)

(* setCachedConfig: two writes, each of which may find the storage full. *)
SetCachedConfig(cache) ==
    \/ UNCHANGED db
    \/ db' = [db EXCEPT !.config = cache, !.version = cache.by]
    \/ db' = [db EXCEPT !.config = [cache EXCEPT !.torn = TRUE]]

(* Mutant: the page waits for another answer. *)
AfterFailure_Waits(t) == UNCHANGED ui

(* The page goes on with what the build says. *)
AfterFailure(t) ==
    ui' = [ui EXCEPT ![t].state = "ready", ![t].from = "build"]

Arrive(c) ==
    /\ c.handled
    /\ calls' = calls \ {c}
    /\ LET t == c.tab
           cache == [file |-> c.file, at |-> db.now, by |-> ui[t].version, torn |-> FALSE]
       IN \/ AfterFailure(t) /\ UNCHANGED db
          \/ /\ c.file # NoFile
             /\ ui' = [ui EXCEPT ![t].state = "ready", ![t].from = "server", ![t].set = Applied(c.file)]
             /\ IF Stores(c.file) THEN SetCachedConfig(cache) ELSE UNCHANGED db

Close(t) ==
    /\ ui[t].state # "closed"
    /\ ui' = [ui EXCEPT ![t] = Closed]
    /\ calls' = {c \in calls : c.tab # t}
    /\ UNCHANGED db

(* An administrator deploys another version and changes the file. *)
Deploy ==
    /\ db.deployed < MaxDeploys
    /\ \E file \in Files : db' = [db EXCEPT !.deployed = @ + 1, !.file = file]
    /\ UNCHANGED <<ui, calls>>

Tick == db.now < MaxTime /\ db' = [db EXCEPT !.now = @ + 1] /\ UNCHANGED <<ui, calls>>

Next ==
    \/ \E t \in Tabs : Open(t) \/ Close(t)
    \/ \E c \in calls : Handle(c) \/ Arrive(c)
    \/ Deploy \/ Tick

-----------------------------------------------------------------------------
TypeOK ==
    /\ \A t \in Tabs : ui[t].state \in {"closed", "loading", "ready"} /\ ui[t].set \subseteq Mapped
    /\ \A c \in calls : c.tab \in Tabs
    /\ db.now \in 0 .. MaxTime /\ db.deployed \in 1 .. MaxDeploys

(* A page never waits without a fetch.  One that took its configuration from *)
(* the storage took one fetched within the hour, one that can be applied     *)
(* whole, and one a page of its own version fetched unless the version could *)
(* not be written with it (loadRuntimeConfig, getCachedConfig).              *)
BootsWithRecent ==
    \A t \in Tabs :
        /\ ui[t].state = "loading" => \E c \in calls : c.tab = t
        /\ ui[t].from = "storage" =>
               /\ ui[t].booted - ui[t].cache.at <= Ttl
               /\ ui[t].cache.by = ui[t].version \/ ui[t].cache.torn
               /\ ui[t].set = Mapped \cap ToSet(ui[t].cache.file.keys)
=============================================================================
