--------------------------- MODULE OrganizationList ---------------------------
(***************************************************************************)
(* The administrators' list of organizations (controllers/console/admin/    *)
(* organizations/index.js): the search, the filters, the saved views, the   *)
(* order and the page are query parameters, and each change of one loads    *)
(* the list anew.  A row that is checked is a record, which the store keeps *)
(* when the list is another.                                                *)
(***************************************************************************)
EXTENDS Naturals, FiniteSets

CONSTANTS
    Orgs,
    Attention,      \* those that need attention,
    Ownerless,      \* have no owner,
    Incomplete,     \* did not complete their onboarding,
    Hits            \* and those the search finds

OrgsAssumption ==
    /\ Orgs \subseteq Nat
    /\ Orgs # {} => \E last \in Orgs : \A o \in Orgs : o <= last

VARIABLES ui, calls, db

vars == <<ui, calls, db>>

Views == {"needs_attention", "missing_owner", "incomplete_onboarding", "inactive_status"}
NoParams == [query |-> FALSE, name |-> FALSE, view |-> {}, sort |-> "up", page |-> 1]

(* What the API answers, a row a page: the controller's parameters and no    *)
(* other decide.                                                             *)
OfView(v) ==
    CASE v = "needs_attention" -> Attention [] v = "missing_owner" -> Ownerless
      [] v = "incomplete_onboarding" -> Incomplete [] v = "inactive_status" -> Attention \cap Ownerless

Matching(params) ==
    {o \in Orgs : /\ params.query => o \in Hits
                  /\ params.name => o % 2 = 1
                  /\ \A v \in params.view : o \in OfView(v)}

Row(params) ==
    {o \in Matching(params) :
        Cardinality({x \in Matching(params) : IF params.sort = "up" THEN x <= o ELSE x >= o}) = params.page}

(* moved, history: a filter of a column was set since a page was chosen;     *)
(* that is the filters service's affair.  exported, history: what was        *)
(* exported of the list that is shown.                                       *)
Init ==
    /\ ui = [params |-> NoParams, rows |-> {}, exported |-> {}, moved |-> FALSE, failed |-> FALSE, left |-> FALSE]
    /\ calls = {[op |-> "query", params |-> NoParams]}
    /\ db = [checked |-> {}]

-----------------------------------------------------------------------------
IsFiltered(params) == params.query \/ params.name \/ params.view # {}

(* refreshModel: a load takes the place of the one under way, and a change   *)
(* to what it was loads nothing.                                             *)
Loading(params) == IF params = ui.params THEN calls ELSE {[op |-> "query", params |-> params]}

Set(params, moved) ==
    /\ ~ui.left
    /\ ui' = [ui EXCEPT !.params = params, !.moved = moved]
    /\ calls' = Loading(params)
    /\ UNCHANGED db

\* Mutant: the page stays.
Search_StaysOnPage(params, found) == [params EXCEPT !.query = found]

Search(params, found) == [params EXCEPT !.query = found, !.page = 1]

SortOrganizations(params) == [params EXCEPT !.sort = IF @ = "up" THEN "down" ELSE "up", !.page = 1]

ClearSavedView(params) == [params EXCEPT !.view = {}, !.page = 1]

\* Mutant: it is added to the view there is.
ApplySavedView_Adds(params, v) == [params EXCEPT !.view = @ \cup {v}, !.page = 1]

ApplySavedView(params, v) == [ClearSavedView(params) EXCEPT !.view = {v}]

ClearFilters(params) == [ClearSavedView(params) EXCEPT !.name = FALSE, !.query = FALSE]

DoSearch == \E found \in BOOLEAN : Set(Search(ui.params, found), FALSE)
DoSort == Set(SortOrganizations(ui.params), FALSE)
DoClearView == Set(ClearSavedView(ui.params), FALSE)
DoApplyView == \E v \in Views : Set(ApplySavedView(ui.params, v), FALSE)
DoClearFilters == IsFiltered(ui.params) /\ Set(ClearFilters(ui.params), FALSE)

(* A page the table offers: those of what it shows now. *)
GoToPage(n) ==
    /\ calls = {} /\ n \in 1..Cardinality(Matching(ui.params))
    /\ Set([ui.params EXCEPT !.page = n], ui.moved)

FilterByName(on) == Set([ui.params EXCEPT !.name = on], TRUE)

Answered(c) ==
    /\ calls' = calls \ {c}
    /\ \/ ui' = [ui EXCEPT !.rows = Row(c.params), !.failed = FALSE, !.exported = {}]
       \/ ui' = [ui EXCEPT !.failed = TRUE]
    /\ UNCHANGED db

Check(o) ==
    /\ ~ui.left /\ o \in ui.rows
    /\ db' = [checked |-> IF o \in db.checked THEN db.checked \ {o} ELSE db.checked \cup {o}]
    /\ UNCHANGED <<ui, calls>>

\* Mutant: all that were ever checked are exported.
SelectedOrganizations_All == db.checked

SelectedOrganizations == db.checked \cap ui.rows

(* With none selected the export is of all. *)
ExportOrganization ==
    /\ ~ui.left
    /\ ui' = [ui EXCEPT !.exported = IF SelectedOrganizations = {} THEN Orgs ELSE SelectedOrganizations]
    /\ UNCHANGED <<calls, db>>

(* To an organization and back: the controller keeps its parameters and the *)
(* store its records.                                                       *)
GoToCompany ==
    /\ ~ui.left /\ ui.rows # {}
    /\ ui' = [ui EXCEPT !.left = TRUE, !.exported = {}]
    /\ calls' = {}
    /\ UNCHANGED db

Return ==
    /\ ui.left
    /\ ui' = [ui EXCEPT !.left = FALSE]
    /\ calls' = {[op |-> "query", params |-> ui.params]}
    /\ UNCHANGED db

Next ==
    \/ DoSearch \/ DoSort \/ DoClearView \/ DoApplyView \/ DoClearFilters
    \/ \E n \in 1..Cardinality(Orgs) : GoToPage(n)
    \/ \E on \in BOOLEAN : FilterByName(on)
    \/ \E c \in calls : Answered(c)
    \/ \E o \in Orgs : Check(o)
    \/ ExportOrganization \/ GoToCompany \/ Return

-----------------------------------------------------------------------------
TypeOK ==
    /\ ui.params \in [query : BOOLEAN, name : BOOLEAN, view : SUBSET Views, sort : {"up", "down"},
                      page : 1..Cardinality(Orgs)]
    /\ ui.rows \cup ui.exported \cup db.checked \subseteq Orgs
    /\ \A c \in calls : c.op = "query"

(* Once the list is loaded it shows what its parameters ask for; no search,  *)
(* order or view leaves it on a page past its end, and a view is never       *)
(* narrowed by the view before it.  What is exported of a selection is in    *)
(* the list, whatever was checked before in another (index.js:82).           *)
ListShowsWhatMatches ==
    calls = {} /\ ~ui.failed /\ ~ui.left =>
        /\ ui.rows = Row(ui.params)
        /\ ~ui.moved /\ Matching(ui.params) # {} => ui.rows # {}
        /\ Cardinality(ui.params.view) <= 1
        /\ ui.exported # Orgs => ui.exported \subseteq ui.rows
=============================================================================
