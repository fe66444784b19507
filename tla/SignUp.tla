-------------------------------- MODULE SignUp --------------------------------
(***************************************************************************)
(* Signing up: the form (components/onboarding/form.js), which begins with  *)
(* a password or with an identity that a provider confirmed, and the step   *)
(* after it, where the e-mail is verified by a code (components/onboarding/ *)
(* verify-email.js, services/onboarding-verification.js).  The intent that  *)
(* the API issued for a confirmed identity is kept by services/oauth.js     *)
(* until an account was made with it; the API takes it once.                *)
(***************************************************************************)
EXTENDS Naturals, Sequences, FiniteSets

CONSTANTS
    Intents,        \* the identities confirmed, each issued once
    Vouched,        \* those whose e-mail the provider verified
    MaxSubmits, MaxResends

IntentsAssumption == Vouched \subseteq Intents /\ {"none", "password"} \cap Intents = {}

VARIABLES
    ui,     \* the page, the form, and the services, which outlive both
    calls,  \* requests under way
    db      \* what the API keeps, and the session in the browser's storage

vars == <<ui, calls, db>>

NoOne == "none"
Password == "password"
NoForm == [intent |-> NoOne, email |-> "blank", verified |-> FALSE, leftover |-> FALSE]

\* step is the session the verifying component took, session that of its service.
Init ==
    /\ ui = [page |-> "login", form |-> NoForm, registration |-> NoOne, known |-> {},
             step |-> 0, session |-> 0, ready |-> FALSE, waiting |-> FALSE,
             timers |-> 0, modal |-> FALSE, submits |-> 0, resends |-> 0]
    /\ calls = {}
    /\ db = [issued |-> {}, spent |-> {}, accounts |-> <<>>, persisted |-> 0]

Running(op) == \E c \in calls : c.op = op /\ ~c.cancelled
Call(op, intent, email) ==
    [op |-> op, intent |-> intent, email |-> email, handled |-> FALSE, ok |-> FALSE, id |-> 0, skip |-> FALSE,
     cancelled |-> FALSE]

(* A component that goes takes its tasks with it; the API is not told. *)
Cancelled(S) == {[c EXCEPT !.cancelled = @ \/ c.op # "resend"] : c \in S}

-----------------------------------------------------------------------------
(* The provider confirmed an identity that has no account: the callback     *)
(* page keeps the intent and goes on to the form (oauth-callback.js:143).   *)
SetRegistration(i) ==
    /\ ui.page = "provider"
    /\ i \notin db.issued
    /\ db' = [db EXCEPT !.issued = @ \cup {i}]
    /\ ui' = [ui EXCEPT !.registration = i, !.page = "callback"]
    /\ UNCHANGED calls

(* The constructor: what the provider told is filled in. *)
NewForm ==
    LET i == ui.registration IN
    IF i = NoOne THEN NoForm
    ELSE [NoForm EXCEPT !.intent = i, !.email = "provider", !.verified = i \in Vouched]

OpenForm ==
    /\ ui.page \in {"login", "callback", "verify"}
    /\ ui' = [ui EXCEPT !.page = "form", !.form = NewForm, !.step = 0]
    /\ calls' = Cancelled(calls)
    /\ UNCHANGED db

\* Mutant: no e-mail is locked.
IsEmailLocked_Never(form) == FALSE

IsEmailLocked(form) == form.intent # NoOne /\ form.verified /\ form.email # "blank"

Edit(email) ==
    /\ ui.page = "form" /\ ~IsEmailLocked(ui.form)
    /\ ui' = [ui EXCEPT !.form.email = email]
    /\ UNCHANGED <<calls, db>>

(* startAuthorization navigates: the page, its services and whatever was    *)
(* under way are gone once the browser left.                                *)
Reload(page) ==
    /\ ui' = [ui EXCEPT !.page = page, !.form = NoForm, !.registration = NoOne, !.known = {},
                        !.step = 0, !.session = 0, !.ready = FALSE,
                        !.waiting = FALSE, !.timers = 0, !.modal = FALSE]
    /\ calls' = {}
    /\ UNCHANGED db

ContinueWithProvider == ui.page = "form" /\ ui.form.intent = NoOne /\ Reload("provider")
Resume == ui.page = "verify" /\ Reload("verify")
Leave ==
    /\ ui.page = "form"
    /\ ui' = [ui EXCEPT !.page = "login"]
    /\ calls' = Cancelled(calls)
    /\ UNCHANGED db

(* The button is disabled unless all is filled in, and while it loads. *)
Onboard ==
    /\ ui.page = "form" /\ ui.submits < MaxSubmits
    /\ ui.form.email # "blank"
    /\ ~Running("create")
    /\ calls' = calls \cup {Call("create", IF ui.form.intent = NoOne THEN Password ELSE ui.form.intent, ui.form.email)}
    /\ ui' = [ui EXCEPT !.submits = @ + 1]
    /\ UNCHANGED db

-----------------------------------------------------------------------------
(* The API: an intent is spent once; an e-mail the provider vouched for     *)
(* needs no code.  Any request may fail, and its answer be lost.            *)
HandleCreate(c) ==
    /\ c.op = "create" /\ ~c.handled
    /\ \/ /\ c.intent # Password => c.intent \notin db.spent
          /\ db' = [db EXCEPT !.spent = @ \cup ({c.intent} \ {Password}),
                              !.accounts = Append(@, [intent |-> c.intent, email |-> c.email])]
          /\ \E ok \in BOOLEAN :
                 calls' = (calls \ {c}) \cup
                     {[c EXCEPT !.handled = TRUE, !.ok = ok, !.id = Len(db.accounts) + 1,
                                !.skip = c.intent \in Vouched /\ c.email = "provider"]}
       \/ /\ calls' = (calls \ {c}) \cup {[c EXCEPT !.handled = TRUE]}
          /\ UNCHANGED db
    /\ UNCHANGED ui

\* Mutant: it is kept.
ClearRegistration_Kept == ui.registration

ClearRegistration == NoOne

(* An account was made: the form moves on, but for a transition that was    *)
(* given up, which leaves it where it is.                                   *)
OnboardAnswered(c) ==
    LET cleared == [ui EXCEPT !.registration = ClearRegistration,
                              !.known = @ \cup ({c.intent} \ {Password})]
    IN
    /\ c.op = "create" /\ c.handled
    /\ calls' = calls \ {c}
    /\ \/ (c.cancelled \/ ~c.ok) /\ UNCHANGED <<ui, db>>
       \/ /\ ~c.cancelled /\ c.ok
          /\ db' = [db EXCEPT !.persisted = c.id]
          /\ \/ ui' = [cleared EXCEPT !.page = IF c.skip THEN "console" ELSE "verify", !.step = 0]
             \/ ui' = [cleared EXCEPT !.form.leftover = TRUE]

-----------------------------------------------------------------------------
\* Mutant: a session that is set is not set again.
SetSession_Once(now, session) == IF now = 0 THEN session ELSE now

SetSession(now, session) == session

(* The step begins: its session is the one remembered, and a timer, which   *)
(* nobody cancels, is set.                                                  *)
Initialize ==
    /\ ui.page = "verify" /\ ui.step = 0 /\ db.persisted # 0
    /\ ui' = [ui EXCEPT !.step = db.persisted, !.session = SetSession(@, db.persisted), !.timers = @ + 1]
    /\ UNCHANGED <<calls, db>>

TimerFires ==
    /\ ui.timers > 0
    /\ ui' = [ui EXCEPT !.timers = @ - 1, !.waiting = TRUE]
    /\ UNCHANGED <<calls, db>>

DidntReceiveCode ==
    /\ ui.page = "verify"
    /\ ui' = [ui EXCEPT !.waiting = TRUE]
    /\ UNCHANGED <<calls, db>>

(* Whether the code looks complete. *)
ValidateInput(complete) ==
    /\ ui.page = "verify"
    /\ ui' = [ui EXCEPT !.ready = complete]
    /\ UNCHANGED <<calls, db>>

(* By e-mail or by SMS; the dialog loads while it sends. *)
ResendCode ==
    /\ ui.page = "verify" /\ ui.waiting /\ ~ui.modal
    /\ ui' = [ui EXCEPT !.modal = TRUE]
    /\ UNCHANGED <<calls, db>>

CancelResend == ui.modal /\ ui' = [ui EXCEPT !.modal = FALSE] /\ UNCHANGED <<calls, db>>

ConfirmResend ==
    /\ ui.modal /\ ~Running("resend")
    /\ ui.resends < MaxResends
    /\ calls' = calls \cup {Call("resend", NoOne, "blank")}
    /\ ui' = [ui EXCEPT !.resends = @ + 1]
    /\ UNCHANGED db

ResendAnswered(c) ==
    /\ c.op = "resend"
    /\ calls' = calls \ {c}
    /\ \E ok \in BOOLEAN : ui' = [ui EXCEPT !.modal = @ /\ ~ok]
    /\ UNCHANGED db

Verify ==
    /\ ui.page = "verify" /\ ui.step # 0 /\ ui.ready /\ ~Running("verify")
    /\ calls' = calls \cup {Call("verify", NoOne, "blank")}
    /\ UNCHANGED <<ui, db>>

(* With a token to the console, without to the login page. *)
VerifyAnswered(c) ==
    /\ c.op = "verify"
    /\ calls' = calls \ {c}
    /\ \/ UNCHANGED ui
       \/ ~c.cancelled /\ \E page \in {"console", "login"} : ui' = [ui EXCEPT !.page = page, !.step = 0]
    /\ UNCHANGED db

Next ==
    \/ \E i \in Intents : SetRegistration(i)
    \/ OpenForm \/ ContinueWithProvider \/ Leave \/ Onboard
    \/ \E email \in {"blank", "own"} : Edit(email)
    \/ Initialize \/ TimerFires \/ DidntReceiveCode \/ ResendCode \/ CancelResend \/ ConfirmResend
    \/ Verify \/ Resume
    \/ \E complete \in BOOLEAN : ValidateInput(complete)
    \/ \E c \in calls : \/ HandleCreate(c) \/ OnboardAnswered(c)
                        \/ ResendAnswered(c) \/ VerifyAnswered(c)

-----------------------------------------------------------------------------
TypeOK ==
    /\ ui.page \in {"login", "provider", "callback", "form", "verify", "console"}
    /\ ui.form.intent \in Intents \cup {NoOne} /\ ui.form.email \in {"blank", "provider", "own"}
    /\ ui.known \subseteq db.spent /\ db.spent \subseteq db.issued
    /\ ui.step <= Len(db.accounts) /\ ui.session <= Len(db.accounts)

(* A form that is opened holds no intent which the page knows was spent: it  *)
(* would ask for no password and could never be sent.  Only the form that    *)
(* spent it may still be there (form.js:168).                                *)
SpentIntentsAreGone ==
    ui.page = "form" /\ ui.form.intent \in ui.known => ui.form.leftover

(* An account made with an identity whose e-mail its provider verified has   *)
(* that e-mail, and so needs no code (form.js:114).                          *)
VouchedEmailsStay ==
    \A i \in DOMAIN db.accounts :
        db.accounts[i].intent \in Vouched => db.accounts[i].email = "provider"

(* A code that is sent again is for the sign-up that the page verifies, and  *)
(* not for an earlier one of the same browser (onboarding-verification.js).  *)
ResendsAreForThePage ==
    ui.page = "verify" /\ ui.step # 0 => ui.session = ui.step
=============================================================================
