------------------------------ MODULE MCEntry ------------------------------
(* The ways into the console: signing in (two people, an app's request),    *)
(* signing up (with or without a provider), the installation, the           *)
(* onboarding's steps and what it remembers.  A behaviour is one of these;  *)
(* it leaves the variables of the others alone.                             *)
EXTENDS Consent

CONSTANTS
    Parts,                                                      \* the ways to be checked
    Timers, NoTimer, MaxListens,                                \* of Installation,
    Steps, Entry, NextOf, NoStep, Guarded, Fixed, Runs, MaxReloads,     \* Onboarding,
    Keys, Values, Sensitive,                                    \* OnboardingContext
    Intents, Vouched, MaxSubmits, MaxResends                    \* and SignUp

VARIABLES part, ui, db
entryVars == <<part, ui, db, vars>>

\* The order of the onboarding's steps.
MCNextOf == [a |-> "b", b |-> "c", c |-> "d", d |-> "none"]

Installing == INSTANCE Installation
Flow == INSTANCE Onboarding
Context == INSTANCE OnboardingContext
Registering == INSTANCE SignUp

ASSUME SignInAssumptions == SignInAssumption /\ ConsentAssumption
ASSUME OtherAssumptions ==
    /\ Installing!TimersAssumption /\ Flow!StepsAssumption
    /\ Context!KeysAssumption /\ Registering!IntentsAssumption

\* The variables of Consent but for calls, which the other parts use too.
othersVars == <<page, url, store, session, form, twoFa, email, entering, handed, redeemed, consentVars>>
NoSignIn ==
    /\ page = "unused" /\ url = "unused" /\ store = "unused" /\ session = "unused"
    /\ form = "unused" /\ twoFa = "unused" /\ email = "unused" /\ entering = "unused"
    /\ handed = "unused" /\ redeemed = "unused"
    /\ saved = "unused" /\ consent = "unused" /\ visits = "unused"

EntryInit ==
    /\ part \in Parts
    /\ \/ part = "sign-in" /\ Init /\ ui = "unused" /\ db = "unused"
       \/ part = "install" /\ Installing!Init /\ NoSignIn
       \/ part = "onboard" /\ Flow!Init /\ NoSignIn
       \/ part = "context" /\ Context!Init /\ NoSignIn
       \/ part = "sign-up" /\ Registering!Init /\ NoSignIn

SigningIn(action) == part = "sign-in" /\ action /\ UNCHANGED <<part, ui, db>>
Going(i) == part = "onboard" /\ Flow!Continue(i) /\ UNCHANGED <<part, othersVars>>

EntryNext ==
    \/ SigningIn(Next)
    \/ /\ UNCHANGED <<part, othersVars>>
       /\ \/ part = "install" /\ Installing!Next
          \/ part = "onboard" /\ Flow!Next
          \/ part = "context" /\ Context!Next
          \/ part = "sign-up" /\ Registering!Next

(* Requests are answered or fail, routes are entered once they were asked   *)
(* for, and the hooks and transitions of the onboarding return.             *)
EntrySpec ==
    /\ EntryInit /\ [][EntryNext]_entryVars
    /\ WF_entryVars(SigningIn(ExchangeAnswered /\ UNCHANGED consentVars))
    /\ WF_entryVars(SigningIn(StartExchange /\ UNCHANGED consentVars))
    /\ WF_entryVars(SigningIn(TwoFaBeforeModel /\ UNCHANGED consentVars))
    /\ WF_entryVars(SigningIn(TwoFaValidated /\ UNCHANGED consentVars))
    /\ WF_entryVars(SigningIn(EnterConsole))
    /\ \A i \in Runs : WF_entryVars(Going(i))

-----------------------------------------------------------------------------
SignInTypeOK ==
    /\ page \in Pages
    /\ session \in Somebody
    /\ store \in [identity : Somebody, email : Somebody, session : Somebody]
    /\ form \in [identity : Somebody, loading : BOOLEAN]
    /\ twoFa \in [identity : Somebody, clientToken : Somebody]
    /\ email \in Somebody /\ entering \in Somebody
    /\ \A c \in calls : c.who \in Somebody /\ c.identity \in Somebody
    /\ url \in [token : Somebody, fragment : 0..MaxHandshakes]
    /\ handed \in 0..MaxHandshakes
    /\ redeemed \in [1..MaxHandshakes -> Nat]
    /\ saved = None \/ saved.params \in Requests
    /\ consent.params \in Requests \cup {None}
    /\ consent.asking \subseteq {"load", "approve", "deny"}

(* Every part of the state has its type, and a request still unanswered is  *)
(* one the code sends.                                                      *)
TypeOK ==
    CASE part = "sign-in" -> SignInTypeOK
      [] part = "install" -> Installing!TypeOK
      [] part = "onboard" -> Flow!TypeOK
      [] part = "context" -> Context!TypeOK
      [] part = "sign-up" -> Registering!TypeOK

(* A page that asks for a second factor or for a verification code asks for *)
(* that of the account its token in the address bar is for, and never of    *)
(* somebody else: the controllers and the store outlive an abandoned        *)
(* sign-in, and routes/auth/two-fa.js and routes/auth/verification.js must  *)
(* not take the identity from them.  (No email at all is possible: an       *)
(* answer to an earlier resend may overwrite the store meanwhile.)  A code  *)
(* that is sent again is for the sign-up that the page verifies             *)
(* (services/onboarding-verification.js).                                   *)
PagesKnowWhoTheyAreFor ==
    /\ page = "two-fa" => twoFa.identity = url.token
    /\ page = "verification" => email \in {url.token, None}
    /\ part = "sign-up" => Registering!ResendsAreForThePage

(* A handoff code is sent to the API at most once, however often the        *)
(* callback page is reloaded (routes/auth/oauth-callback.js: clearing the   *)
(* fragment first means a reload cannot replay the code).                   *)
CodesRedeemedOnce == part = "sign-in" => \A c \in 1..MaxHandshakes : redeemed[c] <= 1

(* The request of an app that is undecided: the consent page's, or the one   *)
(* that is kept while its person signs in.                                   *)
Asked ==
    IF page = "consent" /\ ~consent.invalidating
    THEN IF consent.error THEN None ELSE consent.params
    ELSE Pending

(* How a request ends: the browser leaves for the app, which is told of the  *)
(* decision or of an error; the error is shown here; what was kept grows     *)
(* stale; or an app sends the person anew.                                   *)
RequestEnds ==
    \/ page' = "app"
    \/ page' = "consent" /\ consent'.error
    \/ SavedGrowsStale
    \/ AppAsks

(* Not left behind: the console opens when nothing waits, and what is in the *)
(* address bar is not kept as well.                                          *)
InOnePlace ==
    part = "sign-in" =>
        /\ page = "console" => Pending = None
        /\ page = "consent" /\ ~consent.invalidating => saved = None

Kept == part = "sign-in" /\ Asked # None => Asked' = Asked \/ RequestEnds

(* An app's request stays that very request, whichever way its person signs  *)
(* in, signs out or in again as somebody else, until it ends in one of the   *)
(* ways above: no sign-in, reload or switch of accounts drops it.  And it is *)
(* in one place only: the console does not open while one is kept, and none  *)
(* is left behind once it is in the address bar, where it would bounce the   *)
(* person back to the consent page whenever they open the console            *)
(* (routes/oauth/authorize.js:39, services/oauth-authorization.js).          *)
RequestIsKept ==
    /\ []InOnePlace
    /\ [][Kept]_entryVars

(* The callback page never spins for ever: once the exchange is answered,   *)
(* whatever the answer, the person is elsewhere.                            *)
ExchangeEnds == page = "exchanging" ~> page # "exchanging"

(* One loop waits for the end of the installation (installation.js).        *)
ListensOnce == part = "install" => Installing!ListensOnce

(* The onboarding's history holds each step once and localStorage holds     *)
(* that history (onboarding-orchestrator.js); a value that was deleted from *)
(* its context is not read or restored (onboarding-context.js); an identity *)
(* that was spent is not asked with again, and an account keeps the e-mail  *)
(* its provider verified (components/onboarding/form.js).                   *)
OnboardingRemembers ==
    /\ part = "onboard" => Flow!HistoryIsKept
    /\ part = "context" => Context!DeletedStaysDeleted
    /\ part = "sign-up" => Registering!SpentIntentsAreGone /\ Registering!VouchedEmailsStay

(* Every call of the onboarding's orchestrator ends: skipping the steps its *)
(* guards reject does not go round in circles.                              *)
CallsEnd ==
    \A i \in Runs :
        (part = "onboard" /\ calls[i].at # "done") ~> (part = "onboard" => calls[i].at = "done")

(* oauth-callback.js:136 says the second factor is not waived for a         *)
(* provider sign-in: whoever is challenged then must get as far as the API  *)
(* looking at the challenge, and not be turned away without it.             *)
ChallengedAreAsked ==
    [][page = "exchanging" /\ entering # None /\ entering' = None => page' # "login"]_entryVars
=============================================================================
