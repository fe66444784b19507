------------------------------ MODULE Consent ------------------------------
(***************************************************************************)
(* The consent page for an app's "Continue with Fleetbase" request, and how *)
(* the request outlives the sign-in: it is kept in localStorage while the   *)
(* person signs in by any of the ways of SignIn (some of which leave the    *)
(* console altogether), and the console route brings the person back to it. *)
(* A kept request is stale after thirty minutes.                            *)
(***************************************************************************)
EXTENDS SignIn

CONSTANTS
    Requests,       \* the authorization requests apps send
    Organizations,  \* the organizations a person may share
    MaxVisits       \* how often an app sends the person to the consent page

ConsentAssumption == None \notin Requests \cup [params : Requests, fresh : BOOLEAN]

VARIABLES
    saved,          \* localStorage: [params, fresh], or None
    consent,        \* the authorize controller
    visits          \* how often an app has asked

consentVars == <<saved, consent, visits>>
vars == <<signInVars, consentVars>>

EmptyConsent == [params |-> None, details |-> None, chosen |-> None,
                 error |-> FALSE, asking |-> {}, invalidating |-> FALSE]

Details(needed, own) == [needed |-> needed, organizations |-> own]

Init ==
    /\ SignInInit
    /\ saved = None
    /\ consent = EmptyConsent
    /\ visits = 0

Save(p) == saved' = [params |-> p, fresh |-> TRUE]
Clear == saved' = None

(* pending(): what is not stale. *)
Pending == IF saved # None /\ saved.fresh THEN saved.params ELSE None

SavedGrowsStale ==
    /\ saved # None /\ saved.fresh
    /\ saved' = [saved EXCEPT !.fresh = FALSE]
    /\ UNCHANGED <<signInVars, consent, visits>>

(* leaveTo: to the app or its error page. *)
LeaveTo ==
    /\ Clear
    /\ page' = "app"
    /\ consent' = EmptyConsent
    /\ PageLoad

-----------------------------------------------------------------------------
(* Mutant: the request is kept although it is in the address bar. *)
EnterAuthorize_Kept(p) ==
    /\ IF store.session = None
       THEN Save(p) /\ page' = "login" /\ consent' = EmptyConsent
       ELSE /\ UNCHANGED saved
            /\ page' = "consent"
            /\ consent' = [EmptyConsent EXCEPT !.params = p, !.asking = {"load"}]
    /\ PageLoad

(* OauthAuthorizeRoute.model and setupController, after a full page load.   *)
EnterAuthorize(p) ==
    /\ IF store.session = None
       THEN Save(p) /\ page' = "login" /\ consent' = EmptyConsent
       ELSE /\ Clear
            /\ page' = "consent"
            /\ consent' = [EmptyConsent EXCEPT !.params = p, !.asking = {"load"}]
    /\ PageLoad

(* resume(): clears the request, then loads the consent page with it. *)
Resume ==
    IF Pending = None
    THEN Clear /\ page' = "console" /\ UNCHANGED <<session, consent, form, twoFa, email, entering, calls>>
    ELSE EnterAuthorize(Pending)

(* The API sends the browser to the consent page, from wherever it is. *)
AppAsks ==
    /\ page \in {"login", "onboard", "console", "app"}
    /\ visits < MaxVisits /\ MayLeave
    /\ visits' = visits + 1
    /\ \E p \in Requests : EnterAuthorize(p)
    /\ UNCHANGED <<url, store, handed, redeemed>>

SamePage == UNCHANGED <<session, consent, form, twoFa, email, entering, calls>>

(* ConsoleRoute: beforeModel requires a session; a hook may send the person *)
(* elsewhere, to finish onboarding; otherwise afterModel resumes.           *)
EnterConsole ==
    /\ page = "to-console"
    /\ \/ /\ session = None
          /\ page' = "login"
          /\ SamePage /\ UNCHANGED saved
       \/ /\ session # None
          /\ page' = "onboard"
          /\ SamePage /\ UNCHANGED saved
       \/ /\ session # None
          /\ Resume
    /\ UNCHANGED <<url, store, handed, redeemed, visits>>

(* Sign-up finishes on the console route, signed in. *)
SignUpEnds ==
    /\ page = "onboard"
    /\ \E a \in Accounts : SignedIn(a)
    /\ UNCHANGED <<url, form, twoFa, email, entering, calls, handed, redeemed, consentVars>>

-----------------------------------------------------------------------------
(* handleError: back to the app if it can be told, or shown here. *)
HandleError(task) ==
    \/ LeaveTo
    \/ /\ Clear
       /\ consent' = [consent EXCEPT !.details = None, !.error = TRUE, !.asking = @ \ {task}]
       /\ UNCHANGED <<page, session, form, twoFa, email, entering, calls>>

(* Mutant: the request is not kept for the sign-in to come. *)
Reauthenticate_NotKept(task) ==
    /\ consent' = [consent EXCEPT !.invalidating = TRUE, !.asking = @ \ {task}]
    /\ UNCHANGED <<saved, page, session, form, twoFa, email, entering, calls>>

Reauthenticate(task) ==
    /\ Save(consent.params)
    /\ consent' = [consent EXCEPT !.invalidating = TRUE, !.asking = @ \ {task}]
    /\ UNCHANGED <<page, session, form, twoFa, email, entering, calls>>

CanShare(o) == o \in consent.details.organizations

CanApprove ==
    /\ consent.details # None
    /\ consent.asking \cap {"approve", "deny"} = {}
    /\ consent.details.needed => CanShare(consent.chosen)

ConsentUnchanged == UNCHANGED <<url, store, handed, redeemed, visits>>

(* The first organization that can be shared is selected. *)
Loaded ==
    /\ page = "consent" /\ "load" \in consent.asking
    /\ \/ \E own \in SUBSET Organizations, needed, skip \in BOOLEAN :
            /\ consent' = [consent EXCEPT
                   !.details = Details(needed, own),
                   !.chosen = IF own = {} THEN None ELSE CHOOSE o \in own : TRUE,
                   !.asking = IF skip THEN {"approve"} ELSE {}]
            /\ UNCHANGED <<saved, page, session, form, twoFa, email, entering, calls>>
       \/ Reauthenticate("load")
       \/ HandleError("load")
    /\ ConsentUnchanged

SelectOrganization ==
    /\ page = "consent" /\ consent.details # None /\ ~consent.invalidating
    /\ \E o \in consent.details.organizations : consent' = [consent EXCEPT !.chosen = o]
    /\ UNCHANGED <<signInVars, saved, visits>>

Approve ==
    /\ page = "consent" /\ CanApprove /\ ~consent.invalidating
    /\ consent' = [consent EXCEPT !.asking = @ \cup {"approve"}]
    /\ UNCHANGED <<signInVars, saved, visits>>

(* The button of deny shows that it runs; it is not disabled by approve. *)
Deny ==
    /\ page = "consent" /\ consent.details # None /\ ~consent.invalidating
    /\ consent' = [consent EXCEPT !.asking = @ \cup {"deny"}]
    /\ UNCHANGED <<signInVars, saved, visits>>

Approved ==
    /\ page = "consent" /\ "approve" \in consent.asking
    /\ LeaveTo \/ Reauthenticate("approve") \/ HandleError("approve")
    /\ ConsentUnchanged

Denied ==
    /\ page = "consent" /\ "deny" \in consent.asking
    /\ LeaveTo \/ HandleError("deny")
    /\ ConsentUnchanged

SwitchAccount ==
    /\ page = "consent" /\ consent.params # None /\ ~consent.invalidating
    /\ Reauthenticate("switch")
    /\ ConsentUnchanged 

(* invalidateWithLoader: the session ends and the application reloads. *)
SessionInvalidated ==
    /\ page = "consent" /\ consent.invalidating
    /\ SignedOut
    /\ consent' = EmptyConsent
    /\ UNCHANGED <<url, handed, redeemed, saved, visits>>

GoToConsole ==
    /\ page = "app"
    /\ page' = "to-console"
    /\ PageLoad
    /\ consent' = EmptyConsent
    /\ UNCHANGED <<url, store, handed, redeemed, saved, visits>>

ConsentNext ==
    \/ SavedGrowsStale \/ AppAsks \/ EnterConsole \/ SignUpEnds
    \/ Loaded \/ SelectOrganization \/ Approve \/ Deny \/ Approved \/ Denied
    \/ SwitchAccount \/ SessionInvalidated \/ GoToConsole

Next == (SignInNext /\ UNCHANGED consentVars) \/ ConsentNext

(* Requests are answered or fail; routes are entered once they were asked   *)
(* for; a provider sends the browser back.                                  *)
Spec == Init /\ [][Next]_vars /\ WF_vars(ExchangeAnswered /\ UNCHANGED consentVars)
                              /\ WF_vars(StartExchange /\ UNCHANGED consentVars)
                              /\ WF_vars(TwoFaBeforeModel /\ UNCHANGED consentVars)
                              /\ WF_vars(TwoFaValidated /\ UNCHANGED consentVars)
                              /\ WF_vars(EnterConsole)
=============================================================================
