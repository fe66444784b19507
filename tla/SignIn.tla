------------------------------- MODULE SignIn -------------------------------
(***************************************************************************)
(* How a person signs in to the console: by password, with an emailed       *)
(* verification, with a second factor, or through an OAuth provider.  The   *)
(* model is of one browser tab: the page shown, the address bar, the data   *)
(* the session store keeps across page loads, the fields of the login and   *)
(* two-factor controllers (which Ember creates once and keeps), and the     *)
(* requests in flight.  The API answers each request when it likes, as it   *)
(* likes within what its token allows; a two-factor token, a client token   *)
(* and a verification session are represented by the account they are for.  *)
(***************************************************************************)
EXTENDS Naturals, FiniteSets

CONSTANTS
    Accounts,       \* the people who may sign in
    None,           \* no account, no token
    MaxHandshakes   \* how often a provider sends the browser back

SignInAssumption == None \notin Accounts /\ MaxHandshakes \in Nat

VARIABLES
    page,           \* the route shown
    url,            \* the address bar: a token in the query, a fragment
    store,          \* session.store: what survives a page load
    session,        \* the account that is signed in, or None
    form,           \* the login controller
    twoFa,          \* the two-factor controller
    email,          \* the verification controller's email
    entering,       \* the token of a transition to auth.two-fa that begins
    calls,          \* the requests that have not been answered
    handed,         \* the handoff codes the API has issued
    redeemed        \* how often each was sent back to the API

signInVars == <<page, url, store, session, form, twoFa, email, entering, calls, handed, redeemed>>

Pages == {"login", "two-fa", "verification", "forgot-password", "provider",
          "provider-link", "callback", "link-callback", "exchanging", "onboard", "error", "to-console", "console", "consent", "app"}
Somebody == Accounts \cup {None}

EmptyStore == [identity |-> None, email |-> None, session |-> None]
EmptyForm == [identity |-> None, loading |-> FALSE]
EmptyTwoFa == [identity |-> None, clientToken |-> None]

Call(to, who) == [to |-> to, who |-> who, identity |-> who, clientToken |-> None]

(* The bounds on concurrency, which are the model's: the code asks for a new *)
(* code each time the person does (resendCode is a plain async action), here *)
(* one such request at a time may be underway beside one other.              *)
MayCall == \A c \in calls : c.to = "two-fa/resend"
MayResend == calls = {}

(* A transition waits for its route's beforeModel; the person waits with it. *)
Entering == {"two-fa/validate", "auth/validate-verification-session"}
MayLeave == entering = None /\ \A c \in calls : c.to \notin Entering

(* A full page load forgets what is in memory, goes unheard of requests and *)
(* takes the session from the store.                                        *)
PageLoad ==
    /\ session' = store.session
    /\ form' = EmptyForm
    /\ twoFa' = EmptyTwoFa
    /\ email' = None
    /\ entering' = None
    /\ calls' = {}

SignInInit ==
    /\ page = "login"
    /\ url = [token |-> None, fragment |-> 0]
    /\ store = EmptyStore
    /\ session = None
    /\ form = EmptyForm
    /\ twoFa = EmptyTwoFa
    /\ email = None
    /\ entering = None
    /\ calls = {}
    /\ handed = 0
    /\ redeemed = [c \in 1..MaxHandshakes |-> 0]

-----------------------------------------------------------------------------
(* The login form.                                                         *)

(* reset('success') and reset('error'): either clears the password, without *)
(* which the identity that an error leaves is no use.                       *)
ResetForm == EmptyForm

TypeCredentials(a) ==
    /\ MayLeave
    /\ page = "login" /\ ~form.loading
    /\ form' = [form EXCEPT !.identity = a]
    /\ UNCHANGED <<page, url, store, session, twoFa, email, entering, calls, handed, redeemed>>

(* The button and the fields are disabled while isLoading. *)
Login ==
    /\ MayCall /\ MayLeave
    /\ page = "login" /\ ~form.loading
    /\ form.identity # None
    /\ form' = [form EXCEPT !.loading = TRUE]
    /\ calls' = calls \cup {Call("auth/login", form.identity)}
    /\ UNCHANGED <<page, url, store, session, twoFa, email, entering, handed, redeemed>>

Settled(c) == calls' = calls \ {c}
Replaced(c, d) == calls' = (calls \ {c}) \cup {d}

SendUserForPasswordReset(c) ==
    /\ Settled(c)
    /\ page' = "forgot-password"
    /\ form' = ResetForm
    /\ UNCHANGED <<url, store, session, twoFa, email, entering, handed, redeemed>>

SendUserForEmailVerification(c) ==
    /\ Replaced(c, Call("auth/create-verification-session", c.who))
    /\ UNCHANGED <<page, url, store, session, form, twoFa, email, entering, handed, redeemed>>

Failure(c) ==
    /\ Settled(c)
    /\ form' = ResetForm
    /\ UNCHANGED <<page, url, store, session, twoFa, email, entering, handed, redeemed>>

HandleLoginError(c) ==
    \/ SendUserForEmailVerification(c)
    \/ SendUserForPasswordReset(c)
    \/ Failure(c)

(* The password is right and the account has a second factor. *)
LoginChallenged(c) ==
    /\ Settled(c)
    /\ store' = [EmptyStore EXCEPT !.identity = c.who]
    /\ entering' = c.who
    /\ UNCHANGED <<page, url, session, form, twoFa, email, handed, redeemed>>

LoginAnswered ==
    \E c \in calls :
        /\ c.to = "auth/login"
        /\ \/ LoginChallenged(c)
           \/ /\ Replaced(c, Call("authenticate", c.who))
              /\ UNCHANGED <<page, url, store, session, form, twoFa, email, entering, handed, redeemed>>
           \/ HandleLoginError(c)

(* session.authenticate keeps the session in the store, and only that. *)
SignedIn(a) ==
    /\ session' = a
    /\ store' = [EmptyStore EXCEPT !.session = a]
    /\ page' = "to-console"

Authenticated ==
    \E c \in calls :
        /\ c.to = "authenticate"
        /\ \/ /\ SignedIn(c.who)
              /\ Settled(c)
              /\ form' = ResetForm
              /\ UNCHANGED <<url, twoFa, email, entering, handed, redeemed>>
           \/ HandleLoginError(c)

(* Only the success is handled: nobody catches a failure. *)
VerificationCreated ==
    \E c \in calls :
        /\ c.to = "auth/create-verification-session"
        /\ \/ /\ store' = [EmptyStore EXCEPT !.email = c.who]
              /\ Replaced(c, Call("auth/validate-verification-session", c.who))
              /\ UNCHANGED <<page, url, session, form, twoFa, email, entering, handed, redeemed>>
           \/ /\ Settled(c)
              /\ UNCHANGED <<page, url, store, session, form, twoFa, email, entering, handed, redeemed>>

TransitionToOnboard ==
    /\ MayLeave
    /\ page = "login" /\ ~form.loading
    /\ page' = "onboard"
    /\ UNCHANGED <<url, store, session, form, twoFa, email, entering, calls, handed, redeemed>>

(* A link that is not disabled while a sign-in is under way. *)
ForgotPassword ==
    /\ MayLeave
    /\ page = "login"
    /\ page' = "forgot-password"
    /\ UNCHANGED <<url, store, session, form, twoFa, email, entering, calls, handed, redeemed>>

BackToLogin ==
    /\ MayLeave
    /\ page \in {"forgot-password", "verification", "error"}
    /\ page' = "login"
    /\ UNCHANGED <<url, store, session, form, twoFa, email, entering, calls, handed, redeemed>>

-----------------------------------------------------------------------------
(* Verification of an email address.                                       *)

(* The answer to the route's beforeModel, then its setupController.  A       *)
(* transition that is redirected or fails never comes to its reset('error'). *)
EnterVerification ==
    \E c \in calls :
        /\ c.to = "auth/validate-verification-session"
        /\ Settled(c)
        /\ \/ /\ c.identity = c.who
              /\ page' = "verification"
              /\ url' = [url EXCEPT !.token = c.who]
              /\ email' = store.email
              /\ form' = ResetForm
           \/ /\ page' \in {"login", "error"}
              /\ UNCHANGED <<url, email, form>>
        /\ UNCHANGED <<store, session, twoFa, entering, handed, redeemed>>

VerifyEmail ==
    /\ MayCall
    /\ page = "verification"
    /\ calls' = calls \cup {[Call("auth/verify-email", url.token) EXCEPT !.identity = email]}
    /\ UNCHANGED <<page, url, store, session, form, twoFa, email, entering, handed, redeemed>>

EmailVerified ==
    \E c \in calls :
        /\ c.to = "auth/verify-email"
        /\ Settled(c)
        /\ \/ c.identity = c.who /\ SignedIn(c.who)
           \/ page' = "login" /\ UNCHANGED <<session, store>>
           \/ UNCHANGED <<page, session, store>>
        /\ UNCHANGED <<url, form, twoFa, email, entering, handed, redeemed>>

-----------------------------------------------------------------------------
(* The second factor.                                                      *)

(* beforeModel: without an identity in the store the API is not asked. *)
TwoFaBeforeModel ==
    /\ entering # None
    /\ entering' = None
    /\ IF store.identity = None
       THEN /\ page' = "login"
            /\ form' = ResetForm
            /\ UNCHANGED calls
       ELSE /\ calls' = calls \cup {[Call("two-fa/validate", entering) EXCEPT !.identity = store.identity]}
            /\ UNCHANGED <<page, form>>
    /\ UNCHANGED <<url, store, session, twoFa, email, handed, redeemed>>

(* Mutant: a controller that still has an identity keeps it. *)
SetupTwoFa_IdentityKept(identity, clientToken) ==
    [identity |-> IF twoFa.identity = None THEN identity ELSE twoFa.identity,
     clientToken |-> clientToken]

(* Mutant: the restored record is taken for the identity. *)
SetupTwoFa_WholeRecord(identity, clientToken) ==
    [identity |-> store, clientToken |-> clientToken]

(* setupController: both fields, from what was just persisted. *)
SetupTwoFa(identity, clientToken) ==
    [identity |-> identity, clientToken |-> clientToken]

(* The API finds the token to be of that identity, or expired, or bad. *)
TwoFaValidated ==
    \E c \in calls :
        /\ c.to = "two-fa/validate"
        /\ Settled(c)
        /\ \/ /\ c.who = c.identity
              /\ store' = [EmptyStore EXCEPT !.identity = c.identity]
              /\ page' = "two-fa"
              /\ url' = [url EXCEPT !.token = c.who]
              /\ twoFa' = SetupTwoFa(c.identity, c.who)
              /\ form' = ResetForm
           \/ /\ page' = "login"
              /\ form' = ResetForm
              /\ UNCHANGED <<url, store, twoFa>>
        /\ UNCHANGED <<session, email, entering, handed, redeemed>>

VerifyCode ==
    /\ MayCall
    /\ page = "two-fa" /\ twoFa.clientToken # None
    /\ calls' = calls \cup {[to |-> "two-fa/verify", who |-> url.token,
                             identity |-> twoFa.identity, clientToken |-> twoFa.clientToken]}
    /\ UNCHANGED <<page, url, store, session, form, twoFa, email, entering, handed, redeemed>>

(* Right; too many attempts; expired or wrong. *)
CodeVerified ==
    \E c \in calls :
        /\ c.to = "two-fa/verify"
        /\ \/ /\ c.who = c.identity /\ c.who = c.clientToken
              /\ Replaced(c, Call("authenticate-2fa", c.identity))
              /\ UNCHANGED page
           \/ Settled(c) /\ page' = "login"
           \/ Settled(c) /\ UNCHANGED page
        /\ UNCHANGED <<url, store, session, form, twoFa, email, entering, handed, redeemed>>

TwoFaAuthenticated ==
    \E c \in calls :
        /\ c.to = "authenticate-2fa"
        /\ Settled(c)
        /\ SignedIn(c.who) \/ UNCHANGED <<page, session, store>>
        /\ UNCHANGED <<url, form, twoFa, email, entering, handed, redeemed>>

ResendCode ==
    /\ MayResend
    /\ page = "two-fa"
    /\ calls' = calls \cup {[Call("two-fa/resend", url.token) EXCEPT !.identity = twoFa.identity]}
    /\ UNCHANGED <<page, url, store, session, form, twoFa, email, entering, handed, redeemed>>

(* The answer is used whatever page and session there is by then. *)
CodeResent ==
    \E c \in calls :
        /\ c.to = "two-fa/resend"
        /\ Settled(c)
        /\ \/ /\ c.who = c.identity
              /\ twoFa' = [twoFa EXCEPT !.clientToken = c.who]
              /\ store' = [EmptyStore EXCEPT !.identity = c.identity]
           \/ UNCHANGED <<twoFa, store>>
        /\ UNCHANGED <<page, url, session, form, email, entering, handed, redeemed>>

CancelTwoFactor ==
    /\ MayCall
    /\ page = "two-fa"
    /\ calls' = calls \cup {Call("two-fa/invalidate", url.token)}
    /\ UNCHANGED <<page, url, store, session, form, twoFa, email, entering, handed, redeemed>>

TwoFactorCancelled ==
    \E c \in calls :
        /\ c.to = "two-fa/invalidate"
        /\ Settled(c)
        /\ page' \in {page, "login"}
        /\ UNCHANGED <<url, store, session, form, twoFa, email, entering, handed, redeemed>>

(* The browser's back button, to the two-factor page of an earlier token. *)
ReturnToTwoFa ==
    /\ page = "login" /\ url.token # None /\ MayLeave /\ ~form.loading
    /\ entering' = url.token
    /\ UNCHANGED <<page, url, store, session, form, twoFa, email, calls, handed, redeemed>>

-----------------------------------------------------------------------------
(* Signing in through a provider.                                          *)

ContinueWithProvider ==
    /\ MayLeave
    /\ page = "login" /\ ~form.loading
    /\ handed < MaxHandshakes
    /\ page' = "provider"
    /\ url' = [url EXCEPT !.token = None]
    /\ PageLoad
    /\ UNCHANGED <<store, handed, redeemed>>

(* The account page: a provider is to be linked to the account signed in     *)
(* (startLink), and the browser leaves for it.                               *)
StartLink ==
    /\ MayLeave
    /\ page = "console"
    /\ handed < MaxHandshakes
    /\ page' = "provider-link"
    /\ url' = [url EXCEPT !.token = None]
    /\ PageLoad
    /\ UNCHANGED <<store, handed, redeemed>>

(* With a handoff code in the fragment, or with an error; for a link the     *)
(* fragment says that too (intent).                                          *)
ProviderReturns ==
    /\ page \in {"provider", "provider-link"}
    /\ page' = IF page = "provider" THEN "callback" ELSE "link-callback"
    /\ \/ url' = [url EXCEPT !.fragment = handed + 1] /\ handed' = handed + 1
       \/ UNCHANGED <<url, handed>>
    /\ UNCHANGED <<store, session, form, twoFa, email, entering, calls, redeemed>>

(* Mutant: the fragment stays in the address bar. *)
ReadFragment_Kept == url

(* readFragment, which clears it. *)
ReadFragment == [url EXCEPT !.fragment = 0]

(* Redeems the code in the fragment, or without one goes where a failure does. *)
Redeem(endpoint, failed) ==
    /\ url' = ReadFragment
    /\ IF url.fragment = 0
       THEN page' = failed /\ UNCHANGED <<calls, redeemed>>
       ELSE /\ calls' = calls \cup {Call(endpoint, None)}
            /\ redeemed' = [redeemed EXCEPT ![url.fragment] = @ + 1]
            /\ page' = "exchanging"
    /\ UNCHANGED <<store, session, form, twoFa, email, entering, handed>>

(* start(): a sign-in; or finishLink(), which ends on the account page. *)
StartExchange ==
    \/ page = "callback" /\ Redeem("auth/oauth/exchange", "login")
    \/ page = "link-callback" /\ Redeem("auth/oauth/link/complete", "to-console")

(* handle(): a challenge, a registration, a token, or fail. *)
Challenged == entering' \in Accounts /\ UNCHANGED <<page, session, store>>
RegistrationRequired == page' = "onboard" /\ UNCHANGED <<entering, session, store>>
TokenIssued == (\E a \in Accounts : SignedIn(a)) /\ UNCHANGED entering

(* Mutant: an outcome that is none of these is passed over. *)
Fail_Silent == UNCHANGED <<page, entering, session, store>>

Fail == page' = "login" /\ UNCHANGED <<entering, session, store>>

(* finishLink(): linked or not, back to the account page. *)
LinkCompleted == page' = "to-console" /\ UNCHANGED <<entering, session, store>>

ExchangeAnswered ==
    \E c \in calls :
        /\ Settled(c)
        /\ \/ /\ c.to = "auth/oauth/exchange"
              /\ Challenged \/ RegistrationRequired \/ TokenIssued \/ Fail
           \/ /\ c.to = "auth/oauth/link/complete"
              /\ LinkCompleted
        /\ UNCHANGED <<url, form, twoFa, email, handed, redeemed>>

-----------------------------------------------------------------------------
(* The browser.                                                            *)

(* session.invalidate empties the store and loads the login page anew. *)
SignedOut ==
    /\ session' = None
    /\ store' = EmptyStore
    /\ page' = "login"
    /\ form' = EmptyForm
    /\ twoFa' = EmptyTwoFa
    /\ email' = None
    /\ entering' = None
    /\ calls' = {}

(* A reload keeps the address bar and the store; the routes start again. *)
Reload ==
    /\ page \in {"login", "two-fa", "verification", "exchanging"}
    /\ session' = store.session
    /\ form' = EmptyForm
    /\ twoFa' = EmptyTwoFa
    /\ email' = None
    /\ page' = CASE page = "exchanging" -> "callback"
                 [] page = "login" /\ store.session # None -> "to-console"
                 [] OTHER -> "login"
    /\ entering' = IF page = "two-fa" THEN url.token ELSE None
    /\ calls' = IF page = "verification" /\ store.email # None
                THEN {[Call("auth/validate-verification-session", url.token) EXCEPT !.identity = store.email]}
                ELSE {}
    /\ UNCHANGED <<url, store, handed, redeemed>>

SignOut ==
    /\ page = "console"
    /\ SignedOut
    /\ UNCHANGED <<url, handed, redeemed>>

ApiAnswers ==
    \/ LoginAnswered \/ Authenticated \/ VerificationCreated \/ EnterVerification
    \/ EmailVerified \/ TwoFaValidated \/ CodeVerified \/ TwoFaAuthenticated
    \/ CodeResent \/ TwoFactorCancelled \/ ExchangeAnswered

PersonActs ==
    \/ \E a \in Accounts : TypeCredentials(a)
    \/ Login \/ TransitionToOnboard \/ ForgotPassword \/ BackToLogin \/ VerifyEmail
    \/ VerifyCode \/ ResendCode \/ CancelTwoFactor \/ ReturnToTwoFa
    \/ ContinueWithProvider \/ StartLink \/ Reload \/ SignOut

RouterActs == TwoFaBeforeModel \/ StartExchange \/ ProviderReturns

SignInNext == ApiAnswers \/ PersonActs \/ RouterActs
=============================================================================
