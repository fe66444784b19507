------------------------- MODULE TwoFactorSettings -------------------------
(***************************************************************************)
(* The three pages on which two-factor authentication is set up: the        *)
(* organization's (settings/two-fa.js), the system's (admin/two-fa-settings)*)
(* and the user's own (account/auth.js, with the authenticator app's        *)
(* dialog).  A page holds the settings it will send; the form inside it     *)
(* (components/two-fa-settings.js) copies them when it is built, and        *)
(* reports every change.                                                    *)
(***************************************************************************)
EXTENDS Naturals, FiniteSets

CONSTANTS
    Pages,      \* the pages to be opened
    MaxSaves,   \* how often the page is saved
    MaxAsks     \* how many requests the dialog sends

VARIABLES
    ui,     \* the page, its settings, the form, the authenticator and its dialog
    calls,  \* requests: what was sent, whether handled, the answer
    db      \* the settings and the authenticator the API holds

vars == <<ui, calls, db>>

Settings(enabled, enforced, method) == [enabled |-> enabled, enforced |-> enforced, method |-> method]
Unset == Settings(FALSE, FALSE, "none")
NoForm == Settings(FALSE, FALSE, "no form")
NoDialog == [mode |-> "none", step |-> "none", changed |-> FALSE, select |-> FALSE]

(* The authenticator app is offered only where a user sets up their own. *)
GetTwoFaMethods(page) == {"sms", "email"} \cup (IF page = "account" THEN {"app"} ELSE {})

(* The tasks a page performs when it is entered, and those its form waits for. *)
LoadOrganization == {"loadSystem", "loadCompany", "loadUser"}
LoadSystem == {"loadSystem"}
LoadAccount == {"loadSystem", "loadUser", "loadAuthenticator"}
Loads(page) ==
    CASE page = "organization" -> LoadOrganization
      [] page = "system" -> LoadSystem
      [] page = "account" -> LoadAccount
Awaits(page) ==
    CASE page = "organization" -> {"loadCompany"}
      [] page = "system" -> {"loadSystem"}
      [] page = "account" -> {"loadUser", "loadAuthenticator"}

(* The form is built from the settings as they are then. *)
Form(page, s) ==
    [s EXCEPT !.method = IF @ \in GetTwoFaMethods(page) THEN @ ELSE "email"]

-----------------------------------------------------------------------------
Call(op, sent) == [op |-> op, sent |-> sent, handled |-> FALSE, ok |-> FALSE, answer |-> Unset]
Running(ops) == \E c \in calls : c.op \in ops

Init ==
    \E page \in Pages :
        /\ ui = [page |-> page, settings |-> Unset, form |-> NoForm, authenticator |-> FALSE,
                 system |-> FALSE, dialog |-> NoDialog, saves |-> 0, asks |-> 0]
        /\ calls = {[op |-> op, sent |-> Unset, handled |-> FALSE, ok |-> FALSE, answer |-> Unset] : op \in Loads(page)}
        /\ \E user, company \in {Settings(FALSE, FALSE, "email"), Settings(TRUE, FALSE, "sms")},
              app \in BOOLEAN :
               db = [user |-> IF app THEN Settings(TRUE, FALSE, "app") ELSE user,
                     company |-> [company EXCEPT !.enforced = @ \/ company.enabled],
                     system |-> Settings(TRUE, FALSE, "email"), authenticator |-> app]

(* What the API does: a confirmed code makes the app the user's method, and *)
(* removing the app that is their method turns two-factor off.              *)
Done(c) ==
    CASE c.op = "saveCompany" -> [db EXCEPT !.company = c.sent]
      [] c.op = "saveSystem" -> [db EXCEPT !.system = c.sent]
      [] c.op = "saveUser" -> [db EXCEPT !.user = c.sent]
      [] c.op = "confirm" -> [db EXCEPT !.authenticator = TRUE, !.user = Settings(TRUE, FALSE, "app")]
      [] c.op = "disable" ->
           [db EXCEPT !.authenticator = FALSE,
                      !.user = IF @.method = "app" THEN Settings(FALSE, FALSE, "email") ELSE @]
      [] OTHER -> db

Says(c, after) ==
    CASE c.op = "loadCompany" -> after.company
      [] c.op = "loadSystem" -> after.system
      [] c.op = "loadAuthenticator" -> Settings(after.authenticator, FALSE, "none")
      [] OTHER -> after.user

Handle(c) ==
    /\ ~c.handled
    /\ \E ok, done \in BOOLEAN :
           LET after == IF done THEN Done(c) ELSE db
           IN /\ ok => done
              /\ db' = after
              /\ calls' = (calls \ {c}) \cup
                              {[c EXCEPT !.handled = TRUE, !.ok = ok, !.answer = Says(c, after)]}
    /\ UNCHANGED ui

(* The form appears when its loads are idle, whether they failed or not; on *)
(* the account page only if two-factor is enabled in the system.            *)
Shown(next, left) ==
    IF /\ next.form = NoForm /\ (next.page = "account" => next.system)
       /\ \A c \in left : c.op \notin Awaits(next.page)
    THEN [next EXCEPT !.form = Form(next.page, next.settings)]
    ELSE next

(* Each load writes its part of the page. *)
LoadCompanyTwoFaSettings(c) == c.op = "loadCompany" /\ ui' = Shown([ui EXCEPT !.settings = c.answer], calls')
LoadUserTwoFaSettings(c) == c.op = "loadUser" /\ ui' = Shown([ui EXCEPT !.settings = c.answer], calls')
LoadSystemTwoFaConfig(c) ==
    /\ c.op = "loadSystem"
    /\ ui' = Shown([ui EXCEPT !.system = c.answer.enabled,
                              !.settings = IF ui.page = "system" THEN c.answer ELSE @], calls')
LoadAuthenticator(c) ==
    c.op = "loadAuthenticator" /\ ui' = Shown([ui EXCEPT !.authenticator = c.answer.enabled], calls')

Loaded(c) ==
    /\ c.handled
    /\ calls' = calls \ {c}
    /\ \/ c.ok /\ (\/ LoadCompanyTwoFaSettings(c) \/ LoadUserTwoFaSettings(c)
                   \/ LoadSystemTwoFaConfig(c) \/ LoadAuthenticator(c))
       \/ ~c.ok /\ c.op \in Loads(ui.page) /\ ui' = Shown(ui, calls')
    /\ UNCHANGED db

-----------------------------------------------------------------------------
(* The form keeps every change, and reports it to the page.                *)
MayEdit == ui.form # NoForm /\ ui.dialog = NoDialog

(* Mutant: switching off keeps the method in the form alone. *)
OnTwoFaToggled_MethodKept ==
    /\ MayEdit
    /\ ui' = [ui EXCEPT !.form.enabled = ~@, !.settings.enabled = ~ui.form.enabled,
                        !.settings.method = IF ui.form.enabled THEN "none" ELSE "sms"]
    /\ UNCHANGED <<calls, db>>

(* The method that is recommended and set up, or the one there was. *)
OnTwoFaToggled ==
    /\ MayEdit
    /\ LET recommended == IF ui.page = "account" /\ ui.authenticator THEN "app" ELSE "email"
           kept == ui.form.method # "none" /\ recommended # "app"
           method == IF ui.form.enabled THEN "none" ELSE IF kept THEN ui.form.method ELSE recommended
       IN ui' = [ui EXCEPT !.form.enabled = ~@, !.form.method = method,
                           !.settings.enabled = ~ui.form.enabled, !.settings.method = method]
    /\ UNCHANGED <<calls, db>>

OnTwoFaEnforcedToggled ==
    /\ MayEdit /\ ui.form.enabled /\ ui.page # "account"
    /\ ui' = [ui EXCEPT !.form.enforced = ~@, !.settings.enforced = ~ui.form.enforced]
    /\ UNCHANGED <<calls, db>>

(* A method that is not set up yet is set up first. *)
OnTwoFaSelected(method) ==
    /\ MayEdit /\ ui.form.enabled /\ ui.page # "organization"
    /\ method \in GetTwoFaMethods(ui.page)
    /\ ui' = IF method = "app" /\ ~ui.authenticator
             THEN [ui EXCEPT !.dialog = [NoDialog EXCEPT !.mode = "setup", !.step = "password", !.select = TRUE]]
             ELSE [ui EXCEPT !.form.method = method, !.settings.method = method]
    /\ UNCHANGED <<calls, db>>

SaveOp(page) ==
    CASE page = "organization" -> "saveCompany" [] page = "system" -> "saveSystem"
      [] page = "account" -> "saveUser"

(* The buttons of the organization and of the system are not disabled while *)
(* a save is under way, and the organization's not while it loads.          *)
SaveSettings ==
    /\ ui.dialog = NoDialog /\ ui.saves < MaxSaves
    /\ ui.page = "account" => ui.form # NoForm /\ ~Running({"saveUser"})
    /\ calls' = calls \cup {Call(SaveOp(ui.page), ui.settings)}
    /\ ui' = [ui EXCEPT !.saves = @ + 1]
    /\ UNCHANGED db

Saved(c) ==
    /\ c.handled /\ c.op \in {"saveCompany", "saveSystem", "saveUser"}
    /\ calls' = calls \ {c}
    /\ UNCHANGED <<ui, db>>

-----------------------------------------------------------------------------
(* The authenticator app's dialog.                                         *)
ManageAuthenticator(mode) ==
    /\ MayEdit /\ ui.page = "account"
    /\ mode \in IF ui.authenticator THEN {"recovery-codes", "disable"} ELSE {"setup"}
    /\ ui' = [ui EXCEPT !.dialog = [NoDialog EXCEPT !.mode = mode, !.step = "password"]]
    /\ UNCHANGED <<calls, db>>

(* What the dialog asks for next: the password's check, then the code's. *)
Asks == IF ui.dialog.step = "scan" THEN "confirm" ELSE ui.dialog.mode
AskedOps == {"setup", "confirm", "disable", "recovery-codes"}

DialogNext ==
    /\ ui.dialog.step \in {"password", "scan"} /\ ~Running(AskedOps) /\ ui.asks < MaxAsks
    /\ calls' = calls \cup {Call(Asks, Unset)}
    /\ ui' = [ui EXCEPT !.asks = @ + 1]
    /\ UNCHANGED db

(* Mutant: the form is not built anew after a change from the panel. *)
Closed_NotRedrawn(next) ==
    LET shut == [next EXCEPT !.dialog = NoDialog]
    IN IF next.dialog.changed /\ next.dialog.select
       THEN [shut EXCEPT !.form.method = "app", !.settings.method = "app"]
       ELSE shut

(* Closing tells whoever opened the dialog whether anything changed. *)
Closed(next) ==
    LET shut == [next EXCEPT !.dialog = NoDialog]
    IN IF ~next.dialog.changed THEN shut
       ELSE IF next.dialog.select
       THEN [shut EXCEPT !.form.method = "app", !.settings.method = "app"]
       ELSE [shut EXCEPT !.form = Form(ui.page, next.settings)]

(* The page takes the status and the settings from the answer. *)
DialogAnswered(c) ==
    /\ c.handled /\ c.op \in AskedOps
    /\ calls' = calls \ {c}
    /\ LET changed == [ui EXCEPT !.authenticator = c.op # "disable", !.dialog.changed = TRUE,
                                 !.settings = IF c.op = "recovery-codes" THEN @ ELSE c.answer]
       IN \/ ~c.ok /\ UNCHANGED ui
          \/ c.ok /\ c.op = "setup" /\ ui' = [ui EXCEPT !.dialog.step = "scan"]
          \/ c.ok /\ c.op = "disable" /\ ui' = Closed(changed)
          \/ /\ c.ok /\ c.op \in {"confirm", "recovery-codes"}
             /\ ui' = [changed EXCEPT !.dialog.step = "recovery-codes"]
    /\ UNCHANGED db

(* Declined, or the codes are saved. *)
CloseDialog ==
    /\ ui.dialog # NoDialog /\ ~Running(AskedOps)
    /\ ui' = Closed(ui)
    /\ UNCHANGED <<calls, db>>

Next ==
    \/ \E c \in calls : Handle(c) \/ Loaded(c) \/ Saved(c) \/ DialogAnswered(c)
    \/ OnTwoFaToggled \/ OnTwoFaEnforcedToggled
    \/ \E method \in {"sms", "email", "app"} : OnTwoFaSelected(method)
    \/ SaveSettings \/ DialogNext \/ CloseDialog
    \/ \E mode \in {"setup", "recovery-codes", "disable"} : ManageAuthenticator(mode)

-----------------------------------------------------------------------------
TypeOK ==
    /\ ui.page \in Pages
    /\ ui.settings.method \in GetTwoFaMethods(ui.page) \cup {"none", "app"}
    /\ ui.dialog # NoDialog => ui.page = "account" /\ ui.form # NoForm
    /\ db.user.method = "app" => db.user.enabled

(* The organization's page loads the user's own settings too, and into the  *)
(* same field (settings/two-fa.js:163-170): their answer replaces what will *)
(* be sent for the organization, and the form goes on showing the other.    *)
OwnReplaceCompanys == ui.page = "organization" /\ ~Running({"loadUser"})

(* What the form shows is what the page will send, after every change made  *)
(* in the form, in the dialog, or by the dialog through either.  Of the     *)
(* organization's page that is so only until the user's own settings have   *)
(* been answered; afterwards it is not.                                     *)
ShownIsSent ==
    ~OwnReplaceCompanys /\ ui.form # NoForm /\ ui.dialog = NoDialog =>
        /\ ui.form.enabled = ui.settings.enabled /\ ui.form.enforced = ui.settings.enforced
        /\ ui.settings.enabled => ui.form.method = ui.settings.method
=============================================================================
