-------------------------- MODULE OrganizationDetails --------------------------
(***************************************************************************)
(* The administrators' page of one organization and its users (controllers/ *)
(* console/admin/organizations/details.js, details/users.js): users are     *)
(* verified, activated, deactivated and removed, ownership is transferred,  *)
(* and the owner or a user is impersonated.  The controllers outlive the    *)
(* page: when another organization is opened while a request is under way,  *)
(* or while a dialog is open, what they read afterwards is of that one.     *)
(***************************************************************************)
EXTENDS Naturals, FiniteSets

CONSTANTS
    Companies, Users,
    First, Owner,       \* the organization on the page at first; who owns which
    MaxOps

FirstAssumption == First \in Companies

VARIABLES
    ui,     \* the organization on the page, the rows, the dialog, what was said
    calls,  \* requests, and the refreshes under way
    db      \* members and owners by organization; the session

vars == <<ui, calls, db>>

None == "none"
Closed == [op |-> None, user |-> None]

Call(op, user, of) ==
    [op |-> op, user |-> user, of |-> of, handled |-> FALSE, ok |-> FALSE,
     rows |-> {}, owner |-> None]

(* said, named: who is said to be impersonated, and by which button.         *)
(* removed, history: those whose removal from the page's organization was    *)
(* announced.  moved: the page showed another owner.  stale: the page could  *)
(* not be loaded.                                                            *)
Init ==
    /\ db = [members |-> [c \in Companies |-> Users], owner |-> Owner, session |-> "admin"]
    /\ ui = [at |-> First, owner |-> Owner[First], rows |-> Users, dialog |-> Closed,
             said |-> None, named |-> None, removed |-> {}, moved |-> FALSE, stale |-> FALSE, ops |-> 0]
    /\ calls = {}

(* router.refresh and a transition take the place of the load under way.     *)
Loads == {c \in calls : c.op = "load"}
Load(others, to) == (others \ Loads) \cup {Call("load", None, to)}

Send(op, user, of) ==
    /\ ui.ops < MaxOps
    /\ calls' = calls \cup {Call(op, user, of)}

-----------------------------------------------------------------------------
(* Another organization's page, by its address or the browser's way back;    *)
(* the dialog, which is no part of the page, stays.                          *)
Open(c) ==
    /\ ui.at \notin {c, None} /\ ui.ops < MaxOps
    /\ calls' = Load(calls, c)
    /\ ui' = [ui EXCEPT !.ops = @ + 1]
    /\ UNCHANGED db

(* verifyUser, activateUser *)
RunUserLifecycleAction(user) ==
    /\ ui.at # None /\ user \in ui.rows /\ ui.dialog = Closed
    /\ Send("update", user, ui.at)
    /\ ui' = [ui EXCEPT !.ops = @ + 1]
    /\ UNCHANGED db

(* deactivateUser, an update as well, removeUser, transferOwnership *)
ConfirmUserLifecycleAction(op, user) ==
    /\ ui.at # None /\ user \in ui.rows /\ ui.dialog = Closed
    /\ ui' = [ui EXCEPT !.dialog = [op |-> op, user |-> user]]
    /\ UNCHANGED <<calls, db>>

Dismiss ==
    /\ ui.dialog # Closed
    /\ ui' = [ui EXCEPT !.dialog = Closed]
    /\ UNCHANGED <<calls, db>>

(* The organization is read when the dialog is confirmed. *)
Confirm ==
    /\ ui.dialog # Closed /\ ui.at # None
    /\ Send(ui.dialog.op, ui.dialog.user, ui.at)
    /\ ui' = [ui EXCEPT !.dialog = Closed, !.ops = @ + 1]
    /\ UNCHANGED db

(* impersonateOwner is a task of its own; a user's row may be used again. *)
ImpersonateUser(user) ==
    /\ ui.at # None /\ user \in ui.rows /\ ui.dialog = Closed
    /\ Send("impersonate", user, ui.at)
    /\ ui' = [ui EXCEPT !.ops = @ + 1]
    /\ UNCHANGED db

ImpersonateOwner ==
    /\ ui.at # None /\ ui.dialog = Closed
    /\ Send("impersonate-owner", ui.owner, ui.at)
    /\ ui' = [ui EXCEPT !.ops = @ + 1]
    /\ UNCHANGED db

-----------------------------------------------------------------------------
(* The API; what else it changes of a user is left out. *)
Effect(c) ==
    CASE c.op = "remove" -> [db EXCEPT !.members[c.of] = @ \ {c.user}]
      [] c.op = "transfer" -> [db EXCEPT !.owner[c.of] = c.user]
      [] OTHER -> db

Handle(c) ==
    /\ ~c.handled
    /\ \E done, ok \in BOOLEAN :
           /\ ok => done
           /\ db' = IF done THEN Effect(c) ELSE db
           /\ calls' = (calls \ {c}) \cup
                  {[c EXCEPT !.handled = TRUE, !.ok = ok, !.rows = db'.members[c.of], !.owner = db'.owner[c.of]]}
    /\ UNCHANGED ui

Failed(c) ==
    /\ c.handled /\ ~c.ok
    /\ calls' = calls \ {c}
    /\ ui' = [ui EXCEPT !.stale = @ \/ c.op = "load"]
    /\ UNCHANGED db

Loaded(c) ==
    /\ c.handled /\ c.ok /\ c.op = "load"
    /\ calls' = calls \ {c}
    /\ ui' = [ui EXCEPT !.at = c.of, !.rows = c.rows, !.owner = c.owner, !.stale = FALSE,
                        !.moved = @ \/ c.owner # ui.owner, !.removed = IF c.of = ui.at THEN @ ELSE {}]
    /\ UNCHANGED db

\* Mutant: the list is refreshed when the request is sent, and not after it.
RefreshAfter_Not(c) == calls \ {c}

RefreshAfter(c) == Load(calls \ {c}, ui.at)

LifecycleDone(c) ==
    /\ c.handled /\ c.ok /\ c.op \in {"update", "remove", "transfer"}
    /\ calls' = IF ui.at = None THEN calls \ {c} ELSE RefreshAfter(c)
    /\ ui' = [ui EXCEPT !.removed = IF c.op = "remove" /\ c.of = ui.at THEN @ \cup {c.user} ELSE @]
    /\ UNCHANGED db

\* Mutant: a user's name is read from the page, as the owner's.
Impersonated_OfThePage(c) == ui.owner

(* ownerEmail is read once the console was entered. *)
Impersonated(c) == IF c.op = "impersonate-owner" THEN ui.owner ELSE c.user

(* The console, the new session, the notice and, 600ms later, a reload; a    *)
(* transition that is given up leaves everything as it is.                   *)
Impersonating(c) ==
    /\ c.handled /\ c.ok /\ c.op \in {"impersonate", "impersonate-owner"}
    /\ \/ calls' = calls \ {c} /\ UNCHANGED <<ui, db>>
       \/ /\ db' = [db EXCEPT !.session = c.user]
          /\ ui' = [ui EXCEPT !.at = None, !.said = Impersonated(c), !.named = c.op, !.dialog = Closed]
          /\ calls' = (calls \ {c}) \ Loads

Reload ==
    /\ ui.said # None
    /\ ui' = [ui EXCEPT !.said = None, !.named = None, !.at = None]
    /\ calls' = {}
    /\ UNCHANGED db

Next ==
    \/ \E c \in Companies : Open(c)
    \/ \E u \in Users : \/ RunUserLifecycleAction(u) \/ ImpersonateUser(u)
                        \/ \E op \in {"update", "remove", "transfer"} : ConfirmUserLifecycleAction(op, u)
    \/ ImpersonateOwner \/ Dismiss \/ Confirm \/ Reload
    \/ \E c \in calls : Handle(c) \/ Failed(c) \/ Loaded(c) \/ LifecycleDone(c) \/ Impersonating(c)

-----------------------------------------------------------------------------
TypeOK ==
    /\ ui.at \in Companies \cup {None} /\ ui.dialog.user \in Users \cup {None}
    /\ \A c \in Companies : db.members[c] \subseteq Users
    /\ db.session \in Users \cup {"admin"}

(* Whoever the console says is impersonated is who the session is of, also   *)
(* when several were asked for; only an owner's name may be another's, when  *)
(* the page showed another owner meanwhile (details.js:236).                 *)
AnnouncedIsImpersonated ==
    ui.said # None /\ ~(ui.named = "impersonate-owner" /\ ui.moved) => ui.said = db.session

(* A user whose removal was announced is no longer listed once the page is   *)
(* quiet, whatever was loaded in between.                                    *)
RemovedAreGone ==
    calls = {} /\ ui.at # None /\ ~ui.stale => ui.removed \cap ui.rows = {}
=============================================================================
