---------------------------- MODULE Installation ----------------------------
(***************************************************************************)
(* The console before it is installed: services/installation.js and the     *)
(* routes that ask it (auth/login, install and the application's error      *)
(* action).  While the install page is shown the service listens on a       *)
(* socket channel for the end of the installation; the socket library may   *)
(* not be there yet, and then it tries again on a timer, whose id may be 0. *)
(***************************************************************************)
EXTENDS Naturals, FiniteSets

CONSTANTS
    Timers,     \* the ids later() gives, 0 among them
    NoTimer,
    MaxListens  \* how many times a listener may be started

TimersAssumption == NoTimer \notin Timers /\ MaxListens \in Nat

VARIABLES
    ui,     \* the route, the service's fields, the loops that listen
    calls,  \* requests to onboard/should-onboard that are not answered
    db      \* what the API knows: is it installed, is somebody to onboard

vars == <<ui, calls, db>>

Routes == {"login", "install", "onboard", "failed"}

Init ==
    /\ ui = [route |-> "login", status |-> "unknown", shouldOnboard |-> FALSE,
             channel |-> FALSE, retry |-> NoTimer, loops |-> 0, due |-> {}, started |-> 0,
             library |-> FALSE, subscribed |-> FALSE]
    /\ calls = {"check"}
    /\ db = [configured |-> FALSE, onboard |-> TRUE]

Configured == [ui EXCEPT !.status = "configured", !.shouldOnboard = db.onboard]
NotConfigured == [ui EXCEPT !.status = "not-configured", !.shouldOnboard = FALSE]

-----------------------------------------------------------------------------
(* Listening.                                                              *)

(* Mutant: a timer counts as pending when its id is not 0. *)
Pending_Truthy(s) == s.channel \/ s.retry \notin {NoTimer, 0}

(* Something is subscribed, or about to be. *)
Pending(s) == s.channel \/ s.retry # NoTimer

ScheduleListenRetry(s) ==
    \E t \in Timers \ s.due : ui' = [s EXCEPT !.retry = t, !.due = @ \cup {t}]

(* Up to its first await: the library is missing, or the channel is had. *)
ListenForInstallComplete(s) ==
    IF Pending(s) \/ s.started = MaxListens THEN ui' = s
    ELSE IF ~s.library THEN ScheduleListenRetry(s)
    ELSE ui' = [s EXCEPT !.channel = TRUE, !.loops = @ + 1, !.started = @ + 1]

RetryFires ==
    \E t \in ui.due :
        /\ ListenForInstallComplete([ui EXCEPT !.due = @ \ {t}, !.retry = NoTimer])
        /\ UNCHANGED <<calls, db>>

(* Mutant: the retry is left to fire when its id is 0. *)
Cancelled_Truthy(due) == IF ui.retry = 0 THEN due ELSE due \ {ui.retry}

(* cancel(this.listenRetry) *)
Cancelled(due) == due \ {ui.retry}

(* Closing the channel ends the loop over it. *)
StopListening(s) ==
    [s EXCEPT !.due = Cancelled(@), !.retry = NoTimer,
              !.channel = FALSE, !.loops = IF ui.channel /\ @ > 0 THEN @ - 1 ELSE @, !.subscribed = FALSE]

(* The subscription is acknowledged, or fails for good: the loop ends, and  *)
(* the channel stays set.                                                   *)
SubscriptionSettles ==
    /\ ui.loops > 0 /\ ~ui.subscribed
    /\ \/ ui' = [ui EXCEPT !.subscribed = TRUE]
       \/ ui' = [ui EXCEPT !.loops = @ - 1, !.channel = TRUE]
    /\ UNCHANGED <<calls, db>>

LibraryLoads ==
    /\ ~ui.library
    /\ ui' = [ui EXCEPT !.library = TRUE]
    /\ UNCHANGED <<calls, db>>

(* handleInstallCompleteEvent reloads the page; routes start again. *)
InstallCompleted ==
    /\ ui.subscribed /\ db.configured
    /\ ui' = [ui EXCEPT !.status = "unknown", !.shouldOnboard = FALSE, !.channel = FALSE,
                        !.retry = NoTimer, !.loops = 0, !.due = {}, !.subscribed = FALSE]
    /\ calls' = {"redirect"}
    /\ UNCHANGED db

-----------------------------------------------------------------------------
(* The routes.                                                             *)

Leave(s, route) ==
    [(IF ui.route = "install" /\ route # "install" THEN StopListening(s) ELSE s)
        EXCEPT !.route = route]

(* InstallRoute.beforeModel runs on every entry. *)
TransitionToInstall ==
    /\ ui' = NotConfigured
    /\ calls' = IF ui.route = "install" THEN {} ELSE {"redirect"}

(* The login route: checkOnboarding, then install, onboard or the form. *)
Checked ==
    /\ "check" \in calls
    /\ \/ /\ db.configured
          /\ ui' = Leave(Configured, IF db.onboard THEN "onboard" ELSE "login")
          /\ calls' = calls \ {"check"}
       \/ ~db.configured /\ TransitionToInstall
       \/ ui' = Leave(ui, "failed") /\ calls' = calls \ {"check"}
    /\ UNCHANGED db

(* The install route: redirectIfConfiguredFromInstall; its setupController  *)
(* listens.                                                                 *)
Redirected ==
    /\ "redirect" \in calls
    /\ \/ /\ db.configured
          /\ ui' = Leave(Configured, IF db.onboard THEN "onboard" ELSE "login")
          /\ calls' = IF db.onboard THEN {} ELSE {"check"}
       \/ /\ ~db.configured
          /\ ListenForInstallComplete([NotConfigured EXCEPT !.route = "install"])
          /\ calls' = calls \ {"redirect"}
       \/ ui' = Leave(ui, "failed") /\ calls' = calls \ {"redirect"}
    /\ UNCHANGED db

(* The person opens the login or the install page. *)
Visit ==
    /\ calls = {} /\ ui.started < MaxListens
    /\ \E c \in {"check", "redirect"} : calls' = {c}
    /\ UNCHANGED <<ui, db>>

(* The installation ends; an administrator is created. *)
Installed ==
    /\ ~db.configured
    /\ db' = [db EXCEPT !.configured = TRUE]
    /\ UNCHANGED <<ui, calls>>

AdministratorCreated ==
    /\ db.configured /\ db.onboard
    /\ db' = [db EXCEPT !.onboard = FALSE]
    /\ UNCHANGED <<ui, calls>>

Next ==
    \/ RetryFires \/ SubscriptionSettles \/ LibraryLoads \/ InstallCompleted
    \/ Checked \/ Redirected \/ Visit \/ Installed \/ AdministratorCreated

-----------------------------------------------------------------------------
TypeOK ==
    /\ ui.route \in Routes
    /\ ui.status \in {"unknown", "configured", "not-configured"}
    /\ ui.retry \in Timers \cup {NoTimer}
    /\ ui.due \subseteq Timers
    /\ ui.loops \in 0..MaxListens
    /\ calls \subseteq {"check", "redirect"}

(* One loop at most waits for the end of the installation, one retry at     *)
(* most is due and the service knows of it, and neither outlives the page.  *)
ListensOnce ==
    /\ ui.loops <= 1
    /\ ui.due \subseteq {ui.retry}
    /\ ui.route # "install" => ui.loops = 0 /\ ui.due = {}
=============================================================================
