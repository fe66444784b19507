------------------------------ MODULE OauthApps ------------------------------
(***************************************************************************)
(* Admin > Configure > OAuth apps (components/configure/oauth-apps.js): the *)
(* apps that may sign people in through this installation, the form that    *)
(* registers or edits one, its secret, shown once when it is issued, and    *)
(* the access people have granted it.  Nothing cancels a request: a logo's  *)
(* upload and a save are answered into whichever form is open by then.      *)
(***************************************************************************)
EXTENDS Naturals

CONSTANTS
    Apps,           \* all the apps there will be
    Registered,     \* those registered when the page opens
    Grants,         \* the accesses people may have granted
    MaxOps          \* how many requests are sent

VARIABLES
    ui,     \* the apps listed, the form, the secret, the grants and the dialog
    calls,  \* requests under way
    db      \* what the API has stored

vars == <<ui, calls, db>>

None == "none"
Blank == ""
Names == {Blank, "name"}

NoForm == [of |-> None, open |-> FALSE, name |-> Blank, scope |-> "off", logo |-> Blank]
NoSecret == [app |-> None, secret |-> 0, rotated |-> FALSE]
NoAnswer == [apps |-> <<>>, secrets |-> <<>>]
NoDialog == [kind |-> None, app |-> None, off |-> FALSE, busy |-> FALSE]

Registration == [name |-> "name", scope |-> "off", logo |-> Blank, on |-> TRUE]

Call(op, app, sent) ==
    [op |-> op, app |-> app, sent |-> sent, handled |-> FALSE, ok |-> FALSE, answer |-> NoAnswer, grants |-> {}]

Running(op) == \E c \in calls : c.op = op

Init ==
    /\ db = [apps |-> [a \in Registered |-> Registration], secrets |-> [a \in Registered |-> 1],
             grants |-> [a \in Registered |-> Grants], lost |-> {}]
    /\ ui = [apps |-> <<>>, form |-> NoForm, editing |-> None, revealed |-> NoSecret, grantsFor |-> None,
             grants |-> {}, uploading |-> FALSE, dialog |-> NoDialog, ops |-> 0]
    /\ calls = {Call("load", None, NoForm)}

-----------------------------------------------------------------------------
(* A dialog that is open covers the page. *)
Free == ui.dialog = NoDialog

Act(new) == Free /\ ui' = new /\ UNCHANGED <<calls, db>>

StartCreate ==
    /\ ~ui.form.open
    /\ Act([ui EXCEPT !.editing = None, !.revealed = NoSecret, !.form = [NoForm EXCEPT !.open = TRUE]])

(* The form of an app, filled with what the list says of it. *)
FormOf(app) ==
    [of |-> app, open |-> TRUE, name |-> ui.apps[app].name, scope |-> ui.apps[app].scope, logo |-> ui.apps[app].logo]

(* Mutant: the app that is edited stays while its form was not saved. *)
StartEdit_KeepsEditing(app) ==
    Act([ui EXCEPT !.editing = IF @ = None THEN app ELSE @, !.revealed = NoSecret, !.form = FormOf(app)])

StartEdit(app) ==
    Act([ui EXCEPT !.editing = app, !.revealed = NoSecret, !.form = FormOf(app)])

CancelForm == ui.form.open /\ Act([ui EXCEPT !.form = NoForm, !.editing = None])

SetField(name) == ui.form.open /\ ui.form.name # name /\ Act([ui EXCEPT !.form.name = name])

(* A form that an upload made has no scopes, and the action throws. *)
ToggleScope ==
    /\ ui.form.open /\ ui.form.scope # "missing"
    /\ Act([ui EXCEPT !.form.scope = IF @ = "on" THEN "off" ELSE "on"])

RemoveLogo == ui.form.open /\ ui.form.logo # Blank /\ Act([ui EXCEPT !.form.logo = Blank])

HideGrants == ui.grantsFor # None /\ Act([ui EXCEPT !.grantsFor = None, !.grants = {}])

DismissSecret == ui.revealed # NoSecret /\ Act([ui EXCEPT !.revealed = NoSecret])

-----------------------------------------------------------------------------
Send(op, app, sent, new) ==
    /\ ui.ops < MaxOps
    /\ calls' = calls \cup {Call(op, app, sent)}
    /\ ui' = [new EXCEPT !.ops = @ + 1]
    /\ UNCHANGED db

UploadLogo ==
    Free /\ ui.form.open /\ ~ui.uploading /\ Send("upload", None, NoForm, [ui EXCEPT !.uploading = TRUE])

(* The button is disabled while a logo is uploaded. *)
Save ==
    /\ Free /\ ui.form.open /\ ~ui.uploading /\ ~Running("update") /\ ~Running("create")
    /\ Send(IF ui.editing = None THEN "create" ELSE "update", ui.editing, ui.form, ui)

ShowGrants(app) ==
    /\ Free /\ ui.grantsFor # app
    /\ Send("grants", app, NoForm, [ui EXCEPT !.grantsFor = app, !.grants = {}])

RevokeGrant(g) == Free /\ g \in ui.grants /\ ~Running("revoke") /\ Send("revoke", g, NoForm, ui)

(* confirmRotate and confirmToggle: whether the dialog turns off is what the *)
(* list said when it was opened.                                             *)
OpenDialog(kind, app) ==
    Act([ui EXCEPT !.dialog = [kind |-> kind, app |-> app, off |-> kind = "toggle" /\ ui.apps[app].on, busy |-> FALSE]])

Decline ==
    /\ ~Free /\ ~ui.dialog.busy
    /\ ui' = [ui EXCEPT !.dialog = NoDialog]
    /\ UNCHANGED <<calls, db>>

(* Mutant: the dialog goes before the answer is there. *)
ConfirmDialog_Closes ==
    /\ ~Free /\ ~ui.dialog.busy
    /\ Send(ui.dialog.kind, ui.dialog.app, [NoForm EXCEPT !.open = ui.dialog.off], [ui EXCEPT !.dialog = NoDialog])

ConfirmDialog ==
    /\ ~Free /\ ~ui.dialog.busy
    /\ Send(ui.dialog.kind, ui.dialog.app, [NoForm EXCEPT !.open = ui.dialog.off], [ui EXCEPT !.dialog.busy = TRUE])

-----------------------------------------------------------------------------
Put(f, x, v) == [y \in DOMAIN f \cup {x} |-> IF y = x THEN v ELSE f[y]]

(* The API: an app has a name, and a request for one that is gone fails. *)
Stored(c, new) ==
    CASE c.op = "create" ->
           [db EXCEPT !.apps = Put(@, new, [name |-> c.sent.name, scope |-> c.sent.scope, logo |-> c.sent.logo, on |-> TRUE]),
                      !.secrets = Put(@, new, 1), !.grants = Put(@, new, {})]
      [] c.op = "update" ->
           [db EXCEPT !.apps[c.app].name = c.sent.name, !.apps[c.app].scope = c.sent.scope, !.apps[c.app].logo = c.sent.logo]
      [] c.op = "rotate" -> [db EXCEPT !.secrets[c.app] = @ + 1]
      [] c.op = "toggle" ->
           [db EXCEPT !.apps[c.app].on = ~c.sent.open, !.grants[c.app] = IF c.sent.open THEN {} ELSE @]
      [] c.op = "revoke" -> [db EXCEPT !.grants = [a \in DOMAIN @ |-> @[a] \ {c.app}]]
      [] OTHER -> db

Handle(c) ==
    /\ ~c.handled
    /\ \E done, ok \in BOOLEAN, new \in Apps :
           /\ ok => done
           /\ c.op = "create" => new \notin DOMAIN db.apps
           /\ c.op # "create" => new = CHOOSE a \in Apps : TRUE
           /\ c.op \in {"create", "update"} /\ (c.sent.name = Blank \/ c.sent.scope = "missing") => ~done
           /\ LET next == IF done THEN Stored(c, new) ELSE db
                  \* what the page was not told of a secret that changed
                  missed == IF c.op = "rotate" /\ done /\ ~ok THEN {c.app} ELSE {}
                  answer == IF c.op \in {"load", "rotate"}
                            THEN [apps |-> next.apps, secrets |-> next.secrets] ELSE NoAnswer
              IN /\ db' = [next EXCEPT !.lost = @ \cup missed]
                 /\ calls' = (calls \ {c}) \cup
                        {[c EXCEPT !.handled = TRUE, !.ok = ok, !.answer = answer, !.sent = [NoForm EXCEPT !.of = c.sent.of],
                                   !.app = IF c.op = "create" THEN new ELSE @,
                                   !.grants = IF c.op = "grants" THEN next.grants[c.app] ELSE {}]}
    /\ UNCHANGED ui

(* load is asked for again by a save and by a switch, whose dialog waits. *)
Reload(c, new) ==
    /\ ui' = new
    /\ calls' = (calls \ {c}) \cup {Call("load", c.op, NoForm)}

Arrive(c) ==
    /\ c.handled
    /\ UNCHANGED db
    /\ LET closed == [ui EXCEPT !.form = NoForm, !.editing = None] IN
       \/ /\ ~c.ok
          /\ ui' = CASE c.op = "upload" -> [ui EXCEPT !.uploading = FALSE]
                     [] c.op \in {"rotate", "toggle"} \/ (c.op = "load" /\ c.app = "toggle") -> [ui EXCEPT !.dialog = NoDialog]
                     [] OTHER -> ui
          /\ calls' = calls \ {c}
       \/ /\ c.ok /\ c.op = "update"
          /\ Reload(c, closed)
       \/ /\ c.ok /\ c.op = "create"
          /\ Reload(c, [closed EXCEPT !.revealed = [app |-> c.app, secret |-> 1, rotated |-> FALSE]])
       \/ /\ c.ok /\ c.op = "toggle"
          /\ Reload(c, ui)
       \/ /\ c.ok /\ c.op \in {"load", "upload", "rotate", "grants", "revoke"}
          /\ calls' = calls \ {c}
          /\ ui' = CASE c.op = "load" ->
                          [ui EXCEPT !.apps = c.answer.apps, !.dialog = IF c.app = "toggle" THEN NoDialog ELSE @]
                     [] c.op = "upload" ->
                          [ui EXCEPT !.uploading = FALSE,
                                     !.form = [ui.form EXCEPT !.logo = "logo", !.open = TRUE,
                                                   !.scope = IF ui.form.open THEN ui.form.scope ELSE "missing"]]
                     [] c.op = "rotate" ->
                          [ui EXCEPT !.dialog = NoDialog,
                                     !.revealed = [app |-> c.app, secret |-> c.answer.secrets[c.app], rotated |-> TRUE]]
                     [] c.op = "grants" -> [ui EXCEPT !.grants = c.grants]
                     [] c.op = "revoke" -> [ui EXCEPT !.grants = @ \ {c.app}]

Next ==
    \/ StartCreate \/ CancelForm \/ ToggleScope \/ RemoveLogo \/ HideGrants \/ DismissSecret
    \/ UploadLogo \/ Save \/ Decline \/ ConfirmDialog
    \/ \E name \in Names : SetField(name)
    \/ \E app \in DOMAIN ui.apps :
           StartEdit(app) \/ ShowGrants(app) \/ OpenDialog("rotate", app) \/ OpenDialog("toggle", app)
    \/ \E g \in ui.grants : RevokeGrant(g)
    \/ \E c \in calls : Handle(c) \/ Arrive(c)

-----------------------------------------------------------------------------
TypeOK ==
    /\ DOMAIN ui.apps \subseteq Apps /\ DOMAIN db.apps \subseteq Apps
    /\ ui.form.name \in Names /\ ui.form.scope \in {"on", "off", "missing"}
    /\ ui.editing \in Apps \cup {None} /\ ui.grants \subseteq Grants
    /\ \A c \in calls : c.op \in {"load", "upload", "create", "update", "rotate", "toggle", "grants", "revoke"}

(* What is sent for an app is the form that was opened for it, whichever     *)
(* forms were opened, cancelled or made by an upload's answer before, and    *)
(* whatever was answered meanwhile (startEdit, save, uploadLogo).            *)
UpdatesStayWithTheirApp ==
    \A c \in calls : c.op = "update" => c.sent.of = c.app

(* A secret shown after a rotation is the one that works, unless the answer  *)
(* of a later rotation was lost or is still to come (confirmRotate).         *)
ShownSecretWorks ==
    LET shown == ui.revealed
    IN shown.rotated /\ shown.app \notin db.lost =>
           \/ shown.secret = db.secrets[shown.app]
           \/ \E c \in calls : c.op = "rotate" /\ c.app = shown.app
=============================================================================
