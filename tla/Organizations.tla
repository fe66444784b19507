---------------------------- MODULE Organizations ----------------------------
(***************************************************************************)
(* A user's organizations: the account page (account/organizations.js) and  *)
(* the console's own menu (controllers/console.js).  The page decides what  *)
(* leaving an organization means - leave, hand it over, delete it - from    *)
(* the owner and the number of members it has loaded.                       *)
(***************************************************************************)
EXTENDS Naturals, FiniteSets

CONSTANTS
    Orgs, First,    \* the organizations; the one the session starts in
    Me, Others,     \* the user of this console and other people
    NoOwner,
    MaxOps,         \* how many dialogs the user confirms
    MaxMoves        \* how many times somebody else joins or leaves

OthersAssumption == IsFiniteSet(Others)

VARIABLES
    ui,     \* the organizations as loaded, the dialog, the session shown
    calls,  \* requests under way and their outcome
    db      \* members and owners of the organizations, and my session's

vars == <<ui, calls, db>>

Members(o) == db.members[o]
Mine == {o \in Orgs : Me \in Members(o)}

(* What loading the organizations returns. *)
LoadOrganizations(d) ==
    [o \in {o \in Orgs : Me \in d.members[o]} |->
        [owner |-> d.owner[o], count |-> Cardinality(d.members[o])]]

NoDialog == [action |-> "none", org |-> NoOwner, isOwner |-> FALSE, others |-> FALSE,
             deleted |-> FALSE, newOwner |-> NoOwner]

Init ==
    /\ \E members \in [Orgs -> SUBSET (Others \cup {Me})], owner \in [Orgs -> Others \cup {Me}] :
           /\ \A o \in Orgs : owner[o] \in members[o]
           /\ Me \in members[First]
           /\ db = [members |-> members, owner |-> owner, company |-> First, moves |-> 0]
    /\ ui = [model |-> LoadOrganizations(db), company |-> First, dialog |-> NoDialog,
             reload |-> FALSE, lost |-> FALSE, ops |-> 0]
    /\ calls = {}

-----------------------------------------------------------------------------
(* The dialogs; one is shown at a time, until its request has come back.    *)
MayAct == ui.dialog = NoDialog /\ calls = {} /\ ui.ops < MaxOps

Open(dialog) == ui' = [ui EXCEPT !.dialog = dialog] /\ UNCHANGED <<calls, db>>

IsOwner(o) == ui.model[o].owner = Me

(* Mutant: an organization of two has no other members. *)
HasOtherMembers_OfTwo(o) == ui.model[o].count > 2

HasOtherMembers(o) == ui.model[o].count > 1

LeaveOrganization(o) ==
    /\ MayAct /\ o \in DOMAIN ui.model
    /\ Cardinality(DOMAIN ui.model) # 1
    /\ Open([action |-> "leave", org |-> o, isOwner |-> IsOwner(o), others |-> HasOtherMembers(o),
             deleted |-> IsOwner(o) /\ ui.model[o].count = 1, newOwner |-> NoOwner])

(* One of the members the dialog has loaded, who enables its button. *)
SelectNewOwner(user) ==
    /\ ui.dialog.action = "leave" /\ ui.dialog.others /\ ui.dialog.isOwner /\ calls = {}
    /\ user \in Members(ui.dialog.org)
    /\ Open([ui.dialog EXCEPT !.newOwner = user])

SwitchOrganization(o) ==
    /\ MayAct /\ o \in DOMAIN ui.model /\ o # ui.company
    /\ Open([NoDialog EXCEPT !.action = "switch", !.org = o])

DeleteOrganization(o) ==
    /\ MayAct /\ o \in DOMAIN ui.model /\ IsOwner(o)
    /\ Cardinality(DOMAIN ui.model) # 1
    /\ Open([NoDialog EXCEPT !.action = "delete", !.org = o])

EditOrganization(o) ==
    /\ MayAct /\ o \in DOMAIN ui.model /\ IsOwner(o)
    /\ Open([NoDialog EXCEPT !.action = "edit", !.org = o])

(* The console's dialog joins by an organization's id, or creates one; the  *)
(* account page's creates one.                                              *)
CreateOrJoinOrg(o) ==
    /\ MayAct
    /\ \/ Open([NoDialog EXCEPT !.action = "join", !.org = o])
       \/ Members(o) = {} /\ Open([NoDialog EXCEPT !.action = "create-and-reload", !.org = o])

CreateOrganization(o) ==
    MayAct /\ Members(o) = {} /\ Open([NoDialog EXCEPT !.action = "create", !.org = o])

Decline == ui.dialog # NoDialog /\ calls = {} /\ Open(NoDialog)

-----------------------------------------------------------------------------
(* Confirming leave: hand over and leave, delete, or leave. *)
LeaveOp(dialog) ==
    CASE dialog.isOwner /\ dialog.others -> "transfer"
      [] dialog.isOwner /\ ~dialog.others /\ dialog.deleted -> "delete"
      [] OTHER -> "leave"

Confirm ==
    /\ ui.dialog # NoDialog /\ calls = {}
    /\ ui.dialog.isOwner /\ ui.dialog.others => ui.dialog.newOwner # NoOwner
    /\ calls' = {[op |-> IF ui.dialog.action = "leave" THEN LeaveOp(ui.dialog) ELSE ui.dialog.action,
                  org |-> ui.dialog.org, to |-> ui.dialog.newOwner, handled |-> FALSE, ok |-> FALSE,
                  fresh |-> ui.model = LoadOrganizations(db)]}
    /\ ui' = [ui EXCEPT !.ops = @ + 1]
    /\ UNCHANGED db

(* What the API does with a request. *)
Leaves(o) == [db EXCEPT !.members[o] = @ \ {Me}]
Handled(c) ==
    CASE c.op = "leave" -> Leaves(c.org)
      [] c.op = "transfer" -> [Leaves(c.org) EXCEPT !.owner[c.org] = c.to]
      [] c.op = "delete" -> [db EXCEPT !.members[c.org] = {}, !.owner[c.org] = NoOwner]
      [] c.op = "join" -> [db EXCEPT !.members[c.org] = @ \cup {Me}, !.company = c.org]
      [] c.op = "switch" -> [db EXCEPT !.company = c.org]
      [] c.op \in {"create", "create-and-reload"} ->
           [db EXCEPT !.members[c.org] = {Me}, !.owner[c.org] = Me]
      [] OTHER -> db

Allowed(c) ==
    /\ c.op \in {"leave", "transfer", "delete", "switch", "edit"} => Me \in Members(c.org)
    /\ c.op \in {"transfer", "delete", "edit"} => db.owner[c.org] = Me
    /\ c.op = "transfer" => c.to \in Members(c.org)
    /\ c.op = "join" => Members(c.org) # {}
    /\ c.op \in {"create", "create-and-reload"} => Members(c.org) = {}

Handle(c) ==
    /\ ~c.handled
    /\ \E ok, done \in BOOLEAN :
           /\ ok => done
           /\ done => Allowed(c)
           /\ db' = IF done THEN Handled(c) ELSE db
           /\ calls' = {[c EXCEPT !.handled = TRUE, !.ok = ok]}
           /\ ui' = [ui EXCEPT !.lost = @ \/ (done /\ ~ok)]

Reloads == {"switch", "join", "create-and-reload"}

(* router.refresh() loads the organizations again; the answer kept from     *)
(* before may be used unless it was flushed, which leaving, deleting and    *)
(* editing do not do.                                                       *)
Refreshed(s, flushed) ==
    {[s EXCEPT !.model = LoadOrganizations(db)]} \cup (IF flushed THEN {} ELSE {s})

(* Mutant: the page is refreshed, not loaded again, after a switch. *)
AfterConfirm_Refreshed(s, c) == IF c.ok THEN Refreshed(s, TRUE) ELSE {s}

(* The page is loaded again, or its route refreshed; after a failure only   *)
(* leaving refreshes it.                                                    *)
AfterConfirm(s, c) ==
    CASE c.ok /\ c.op \in Reloads -> {[s EXCEPT !.reload = TRUE]}
      [] ui.dialog.action = "leave" \/ (c.ok /\ c.op \notin Reloads) -> Refreshed(s, c.op = "create")
      [] OTHER -> {s}

Confirmed(c) ==
    /\ c.handled
    /\ calls' = {}
    /\ ui' \in AfterConfirm([ui EXCEPT !.dialog = NoDialog], c)
    /\ UNCHANGED db

(* The timer, 900 ms after; or the user loads the page at any time. *)
Reload ==
    /\ ui' = [ui EXCEPT !.model = LoadOrganizations(db), !.company = db.company, !.dialog = NoDialog,
                        !.reload = FALSE, !.lost = FALSE]
    /\ \/ calls = {} /\ UNCHANGED <<calls, db>>
       \/ \E c \in calls : c.handled /\ calls' = {} /\ UNCHANGED db

(* Somebody else joins an organization, or leaves one they do not own. *)
SomebodyMoves ==
    \E o \in Orgs, user \in Others :
        /\ db.moves < MaxMoves /\ Members(o) # {} /\ db.owner[o] # user
        /\ db' = [db EXCEPT !.members[o] = IF user \in @ THEN @ \ {user} ELSE @ \cup {user},
                            !.moves = @ + 1]
        /\ UNCHANGED <<ui, calls>>

Next ==
    \/ \E o \in Orgs : LeaveOrganization(o) \/ SwitchOrganization(o) \/ DeleteOrganization(o)
                         \/ EditOrganization(o) \/ CreateOrJoinOrg(o) \/ CreateOrganization(o)
    \/ \E user \in Others : SelectNewOwner(user)
    \/ Decline \/ Confirm \/ Reload \/ SomebodyMoves
    \/ \E c \in calls : Handle(c) \/ Confirmed(c)

-----------------------------------------------------------------------------
TypeOK ==
    /\ DOMAIN ui.model \subseteq Orgs
    /\ ui.dialog.newOwner \in Others \cup {NoOwner}
    /\ Cardinality(calls) <= 1

(* Leaving never takes the owner away from an organization that goes on, as *)
(* long as nobody else changed it since it was loaded: the API would do as  *)
(* it is told (owners are kept apart from members).                         *)
OwnersStay ==
    \A c \in calls :
        c.fresh /\ c.op = "leave" => db.owner[c.org] # Me

(* The session's organization is the one on the page, unless the page is    *)
(* about to be loaded again or an answer is still out, or was lost.         *)
PageIsTheSessions ==
    ui.company = db.company \/ ui.reload \/ calls # {} \/ ui.lost
=============================================================================
