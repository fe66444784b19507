----------------------------- MODULE ApiConsumers -----------------------------
(***************************************************************************)
(* The administrator's page of the API's consumers (components/admin/       *)
(* api-consumers.js): who sends requests and who is throttled, over a       *)
(* window of time and sorted one way or the other.  Each choice loads anew, *)
(* and a load that is under way is given up (restartable); clearing a       *)
(* consumer's limit is a request of its own, and several may be under way.  *)
(***************************************************************************)
EXTENDS Naturals, FiniteSets

CONSTANTS
    Windows,        \* minutes
    Hourly,         \* the windows that are counted by the hour
    Consumers,      \* who calls the API
    Companies,      \* those of them that belong to an organization
    Unlimited,      \* and those without a limit
    MaxOps          \* how often a choice is made or a limit is cleared

VARIABLES
    ui,     \* the choices, the answer that is shown, was the last load a failure
    calls,  \* loads and resets under way
    db      \* the consumers' throttled requests in each window

vars == <<ui, calls, db>>

Sorts == {"hits", "throttled"}
NoData == [window |-> 0, sort |-> "none", granularity |-> "minute", consumers |-> {}]

Call(op, page, consumer) ==
    [op |-> op, window |-> page.window, sort |-> page.sort, consumer |-> consumer,
     handled |-> FALSE, ok |-> FALSE, answer |-> NoData]

(* Mutant: the load that was under way goes on. *)
Load_Both(page) == calls \cup {Call("load", page, "none")}

(* load is restartable: what was under way no longer answers. *)
Load(page) == {c \in calls : c.op # "load"} \cup {Call("load", page, "none")}

Init ==
    /\ db \in [Windows -> SUBSET Consumers]
    /\ ui = [window |-> 15, sort |-> "hits", data |-> NoData, failed |-> FALSE, at |-> "page", ops |-> 0]
    /\ calls = {Call("load", ui, "none")}

-----------------------------------------------------------------------------
(* A row of the table. *)
Row(consumer, data) ==
    [organization |-> consumer \in Companies, isUnlimited |-> consumer \in Unlimited,
     isThrottled |-> consumer \in data.consumers]

IsMinuteGranularity == ui.data.granularity = "minute"

Choose(page) ==
    /\ ui.at = "page" /\ ui.ops < MaxOps
    /\ ui' = [page EXCEPT !.ops = @ + 1]
    /\ calls' = Load(page)
    /\ UNCHANGED db

SetWindow(option) == Choose([ui EXCEPT !.window = option])
SetSort(sort) == Choose([ui EXCEPT !.sort = sort])

(* The rows are there once something was loaded. *)
ResetConsumer(consumer) ==
    /\ ui.at = "page" /\ ui.data # NoData /\ ui.ops < MaxOps
    /\ ui' = [ui EXCEPT !.ops = @ + 1]
    /\ calls' = calls \cup {Call("reset", ui, consumer)}
    /\ UNCHANGED db

(* Another page: its component's tasks are given up. *)
OpenOrganization(consumer) ==
    /\ ui.at = "page" /\ ui.data # NoData
    /\ Row(consumer, ui.data).organization
    /\ ui' = [ui EXCEPT !.at = "organization"]
    /\ calls' = {}
    /\ UNCHANGED db

-----------------------------------------------------------------------------
(* The API answers a load, clears a limit, or fails.  What it has counted   *)
(* stays counted.                                                           *)
Answer(c) ==
    [window |-> c.window, sort |-> c.sort, granularity |-> IF c.window \in Hourly THEN "hour" ELSE "minute",
     consumers |-> db[c.window]]

Handle(c) ==
    /\ ~c.handled
    /\ \E ok \in BOOLEAN :
           calls' = (calls \ {c}) \cup {[c EXCEPT !.handled = TRUE, !.ok = ok,
                                                  !.answer = IF c.op = "load" THEN Answer(c) ELSE NoData]}
    /\ UNCHANGED <<ui, db>>

Loaded(c) ==
    /\ c.op = "load" /\ c.handled
    /\ calls' = calls \ {c}
    /\ ui' = [ui EXCEPT !.failed = ~c.ok, !.data = IF c.ok THEN c.answer ELSE @]
    /\ UNCHANGED db

Cleared(c) ==
    /\ c.op = "reset" /\ c.handled
    /\ calls' = calls \ {c}
    /\ UNCHANGED <<ui, db>>

Next ==
    \/ \E w \in Windows : SetWindow(w)
    \/ \E s \in Sorts : SetSort(s)
    \/ \E consumer \in Consumers : ResetConsumer(consumer) \/ OpenOrganization(consumer)
    \/ \E c \in calls : Handle(c) \/ Loaded(c) \/ Cleared(c)

-----------------------------------------------------------------------------
TypeOK ==
    /\ ui.window \in Windows /\ ui.sort \in Sorts
    /\ Cardinality({c \in calls : c.op = "load"}) <= 1

(* The heading names the window that was chosen, the numbers are those of   *)
(* the answer: unless a load is under way or the last one failed, they are  *)
(* of one window, counted in its unit, and in the chosen order, however     *)
(* many choices were made before and in whatever order the API answered.    *)
NumbersAreOfTheWindow ==
    ui.at = "page" /\ ~ui.failed /\ (\A c \in calls : c.op # "load") =>
        /\ ui.data.window = ui.window /\ ui.data.sort = ui.sort
        /\ IsMinuteGranularity <=> ui.window \notin Hourly
=============================================================================
