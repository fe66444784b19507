----------------------------- MODULE PlatformToken -----------------------------
(***************************************************************************)
(* The platform's API token in the settings (components/configure/          *)
(* platform-api-token.js): there is one, it is shown once, when it is       *)
(* generated or rotated, and what it replaces works no longer.              *)
(***************************************************************************)
EXTENDS Naturals, FiniteSets

CONSTANT MaxOps     \* bound: tokens issued and revoked from here, and from elsewhere

VARIABLES
    ui,     \* the page
    calls,  \* requests under way
    db      \* the API's token

vars == <<ui, calls, db>>

None == 0

Call(op) == [op |-> op, handled |-> FALSE, ok |-> FALSE, token |-> None, cancelled |-> FALSE]

NewPage(ops) ==
    [configured |-> FALSE, token |-> None, copied |-> None, dialog |-> "closed", unsure |-> FALSE,
     ops |-> ops]

(* unsure, history: the token was changed from elsewhere, or by a request   *)
(* whose answer was lost or came too late for the page.                     *)
Init ==
    /\ ui = NewPage(0)
    /\ calls = {Call("load")}
    /\ db \in {[token |-> None, issued |-> 0], [token |-> 1, issued |-> 1]}

Running(op) == \E c \in calls : c.op = op /\ ~c.cancelled
Shown == ~Running("load")

-----------------------------------------------------------------------------
Send(op) ==
    /\ ui.ops < MaxOps
    /\ calls' = calls \cup {Call(op)}

(* Not configured, or the status could not be loaded. *)
GenerateToken ==
    /\ Shown /\ ~ui.configured /\ ui.dialog = "closed"
    /\ ~Running("rotate")
    /\ Send("rotate")
    /\ ui' = [ui EXCEPT !.ops = @ + 1]
    /\ UNCHANGED db

\* Mutant: a button waits for its own request only.
Busy_Own(op) == Running(op)

Busy(op) == Running("rotate") \/ Running("revoke")

(* The dialogs of confirmRotateToken and confirmRevokeToken; a dialog stays  *)
(* open while its request is under way, and when it failed.                  *)
Ask(op) ==
    /\ Shown /\ ui.configured /\ ui.dialog = "closed"
    /\ ~Busy(op)
    /\ ui' = [ui EXCEPT !.dialog = op]
    /\ UNCHANGED <<calls, db>>

Dismiss ==
    /\ ui.dialog # "closed"
    /\ ui' = [ui EXCEPT !.dialog = "closed"]
    /\ UNCHANGED <<calls, db>>

Confirm ==
    /\ ui.dialog # "closed" /\ ~Running(ui.dialog)
    /\ Send(ui.dialog)
    /\ ui' = [ui EXCEPT !.ops = @ + 1]
    /\ UNCHANGED db

CopyToken ==
    /\ Shown /\ ui.token # None
    /\ ui' = [ui EXCEPT !.copied = ui.token]
    /\ UNCHANGED <<calls, db>>

(* The page is opened anew: its tasks are cancelled, not its requests. *)
Reopen ==
    /\ ui.token # None \/ Running("rotate")
    /\ ui' = [NewPage(ui.ops) EXCEPT !.unsure = ui.unsure]
    /\ calls' = {[c EXCEPT !.cancelled = TRUE] : c \in calls} \cup {Call("load")}
    /\ UNCHANGED db

-----------------------------------------------------------------------------
(* The API. *)
Elsewhere ==
    /\ ui.ops < MaxOps
    /\ db' = [token |-> db.issued + 1, issued |-> db.issued + 1]
    /\ ui' = [ui EXCEPT !.unsure = TRUE, !.ops = @ + 1]
    /\ UNCHANGED calls

Handle(c) ==
    /\ ~c.handled
    /\ \E done, ok \in BOOLEAN :
           LET n == db.issued + 1 IN
           /\ ok => done
           /\ db' = CASE done /\ c.op = "rotate" -> [token |-> n, issued |-> n]
                      [] done /\ c.op = "revoke" -> [db EXCEPT !.token = None]
                      [] OTHER -> db
           /\ calls' = (calls \ {c}) \cup {[c EXCEPT !.handled = TRUE, !.ok = ok, !.token = db'.token]}
           /\ ui' = [ui EXCEPT !.unsure = @ \/ (c.op # "load" /\ done /\ (~ok \/ c.cancelled))]

Arrive(c) ==
    /\ c.handled /\ ~c.cancelled
    /\ calls' = calls \ {c}
    /\ UNCHANGED db

(* A status that fails to load leaves the page not configured. *)
StatusLoaded(c) ==
    /\ c.op = "load" /\ Arrive(c)
    /\ ui' = IF c.ok THEN [ui EXCEPT !.configured = c.token # None] ELSE ui

Ignored(c) ==
    /\ c.handled /\ c.cancelled
    /\ calls' = calls \ {c}
    /\ UNCHANGED <<ui, db>>

TokenRotated(c) ==
    /\ c.op = "rotate" /\ Arrive(c)
    /\ ui' = IF c.ok THEN [ui EXCEPT !.configured = TRUE, !.token = c.token, !.dialog = "closed"] ELSE ui

\* Mutant: the token stays.
TokenAfterRevoke_Stays(token) == token

TokenAfterRevoke(token) == None

TokenRevoked(c) ==
    /\ c.op = "revoke" /\ Arrive(c)
    /\ ui' = IF c.ok
             THEN [ui EXCEPT !.configured = c.token # None, !.token = TokenAfterRevoke(@), !.dialog = "closed"]
             ELSE ui

Next ==
    \/ GenerateToken \/ Ask("rotate") \/ Ask("revoke") \/ Dismiss \/ Confirm \/ CopyToken \/ Reopen
    \/ Elsewhere
    \/ \E c \in calls : Handle(c) \/ StatusLoaded(c) \/ TokenRotated(c) \/ TokenRevoked(c) \/ Ignored(c)

-----------------------------------------------------------------------------
TypeOK ==
    /\ ui.dialog \in {"closed", "rotate", "revoke"}
    /\ ui.token \in 0..db.issued /\ db.token \in 0..db.issued
    /\ \A c \in calls : c.op \in {"load", "rotate", "revoke"}

(* Once nothing is under way, a token that is shown is the one that works,   *)
(* and the page says whether there is one, unless an answer was lost or the  *)
(* token was changed elsewhere: no order of the page's requests leaves it    *)
(* with a token that was replaced or revoked.                                *)
ShownTokenWorks ==
    calls = {} /\ ~ui.unsure => (ui.token # None => ui.token = db.token /\ ui.configured)
=============================================================================
