--------------------------- MODULE SocketSettings ---------------------------
(***************************************************************************)
(* Admin > Configure > Socket (components/configure/socket.js): the switch, *)
(* the mode and the other settings of socket authentication, each either    *)
(* set here or left to the environment, and the channel on which the        *)
(* administrator tests the connection.  Saving what may start enforcing has *)
(* to be confirmed first.                                                   *)
(***************************************************************************)
EXTENDS Naturals, FiniteSets

CONSTANTS
    Modes,      \* the modes of socket authentication that are tried
    Channels,   \* the test channels; the user's own is the first subscribed
    Own,        \* the user's own test channel
    MaxOps,     \* how many loads and saves are asked for
    MaxTests    \* how many tests of the connection

VARIABLES
    ui,     \* what the answer said, the form, the dialog, the test channel
    calls,  \* requests under way: what was sent, whether handled, the answer
    db      \* what the API has stored and its environment

vars == <<ui, calls, db>>

Null == "null"
Or(value, default) == IF value = Null THEN default ELSE value

(* The settings in force: what is stored, then the environment; a mode that *)
(* neither names is up to the socket server, which then enforces.           *)
Effective(stored, env) == [f \in {"enabled", "mode"} |-> Or(stored[f], env[f])]
Enforces(stored, env) ==
    LET settings == Effective(stored, env)
    IN settings.enabled = "true" /\ Or(settings.mode, "enforce") = "enforce"

SettingsSets(switch) == [enabled : switch, mode : Modes \cup {Null}]

-----------------------------------------------------------------------------
(* An answer to load or to save becomes the settings shown and the form.    *)
Apply(answer) ==
    [ui EXCEPT !.settings = answer.settings, !.shown = answer.stored,
               !.inherits = {f \in {"enabled", "mode"} : answer.stored[f] = Null},
               !.enabled = answer.settings.enabled, !.mode = Or(answer.settings.mode, "log")]

(* Null for a field that is left to the environment. *)
Payload ==
    [enabled |-> IF "enabled" \in ui.inherits THEN Null ELSE ui.enabled,
     mode |-> IF "mode" \in ui.inherits THEN Null ELSE ui.mode]

(* Mutant: already on in log mode counts as enforcing. *)
EntersEnforce_AlreadyOn(payload) ==
    payload.enabled # "false" /\ payload.mode # "log" /\ ui.settings.enabled # "true"

(* Whether saving this may start enforcing, as the component decides it. *)
EntersEnforce(payload) ==
    /\ payload.enabled # "false"
    /\ IF payload.mode = "enforce"
       THEN ~(ui.settings.enabled = "true" /\ ui.settings.mode = "enforce")
       ELSE payload.mode = Null /\ payload.enabled = "true" /\ ui.settings.enabled # "true"

-----------------------------------------------------------------------------
Running(op) == \E c \in calls : c.op = op
IsBusy == Running("load") \/ Running("save")

(* The form is shown from the first answer on, and the dialog covers it. *)
MayEdit == ui.on /\ ui.ready /\ ~ui.dialog

Nothing == [enabled |-> Null, mode |-> Null]
NoAnswer == [settings |-> Nothing, stored |-> Nothing]

Call(op, sent, confirmed, shown) ==
    [op |-> op, sent |-> sent, confirmed |-> confirmed, shown |-> shown,
     handled |-> FALSE, ok |-> FALSE, answer |-> NoAnswer]

NewPage ==
    [settings |-> Nothing, shown |-> Nothing, inherits |-> {}, enabled |-> "false",
     mode |-> "log", ready |-> FALSE, dialog |-> FALSE, ops |-> 0, tests |-> 0, on |-> TRUE,
     channel |-> Own, open |-> {Own}, isLoading |-> FALSE]

(* The component is built: it loads, and it listens to the user's own test  *)
(* channel.                                                                 *)
Init ==
    /\ \E env \in SettingsSets({"true", "false"}), stored \in SettingsSets({"true", "false", Null}) :
           db = [stored |-> stored, env |-> env]
    /\ ui = NewPage
    /\ calls = {Call("load", Nothing, FALSE, Nothing)}

(* Performing saveSettings. *)
Perform(payload, confirmed) ==
    /\ calls' = calls \cup {Call("save", payload, confirmed, ui.shown)}
    /\ ui' = [ui EXCEPT !.ops = @ + 1, !.dialog = FALSE]
    /\ UNCHANGED db

(* Save: at once, or after the dialog, whose payload is that of the click. *)
Save ==
    /\ MayEdit /\ ~IsBusy /\ ui.ops < MaxOps
    /\ IF EntersEnforce(Payload)
       THEN ui' = [ui EXCEPT !.dialog = TRUE] /\ UNCHANGED <<calls, db>>
       ELSE Perform(Payload, FALSE)

Confirm == ui.dialog /\ Perform(Payload, TRUE)

Decline ==
    /\ ui.dialog
    /\ ui' = [ui EXCEPT !.dialog = FALSE]
    /\ UNCHANGED <<calls, db>>

(* Refresh is offered while a save is under way too. *)
Refresh ==
    /\ MayEdit /\ ~Running("load") /\ ui.ops < MaxOps
    /\ calls' = calls \cup {Call("load", Nothing, FALSE, Nothing)}
    /\ ui' = [ui EXCEPT !.ops = @ + 1]
    /\ UNCHANGED db

(* The API answers, or fails before or after it has stored what was sent. *)
Handle(c) ==
    /\ ~c.handled /\ c.op # "test"
    /\ \E ok, done \in BOOLEAN :
           LET stored == IF done /\ c.op = "save" THEN c.sent ELSE db.stored
           IN /\ ok => done
              /\ db' = [db EXCEPT !.stored = stored]
              /\ calls' = (calls \ {c}) \cup
                   {[Call(c.op, Nothing, FALSE, Nothing) EXCEPT
                              !.handled = TRUE, !.ok = ok,
                              !.answer = IF ok THEN [settings |-> Effective(stored, db.env), stored |-> stored]
                                         ELSE NoAnswer]}
    /\ UNCHANGED ui

(* apply(response), or saveFailed and serverError, which only announce; a   *)
(* page that was left shows neither.                                        *)
Arrive(c) ==
    /\ c.handled
    /\ calls' = calls \ {c}
    /\ ui' = IF c.ok /\ ui.on THEN [Apply(c.answer) EXCEPT !.ready = TRUE] ELSE ui
    /\ UNCHANGED db

ToggleInherit(field) ==
    /\ MayEdit
    /\ ui' = [ui EXCEPT !.inherits = (@ \cup {field}) \ (@ \cap {field})]
    /\ UNCHANGED <<calls, db>>

ToggleEnabled(enabled) ==
    /\ MayEdit /\ ~IsBusy /\ "enabled" \notin ui.inherits
    /\ ui' = [ui EXCEPT !.enabled = enabled]
    /\ UNCHANGED <<calls, db>>

SetMode(mode) ==
    /\ MayEdit /\ "mode" \notin ui.inherits
    /\ ui' = [ui EXCEPT !.mode = mode]
    /\ UNCHANGED <<calls, db>>

-----------------------------------------------------------------------------
(* The test channel.                                                       *)

(* Mutant: the channel listened to so far is not closed. *)
SubscribeToTestChannel_KeptOpen(channel) ==
    [ui EXCEPT !.open = @ \cup {channel}, !.channel = channel, !.isLoading = FALSE]

SubscribeToTestChannel(channel) ==
    [ui EXCEPT !.open = (@ \ {ui.channel}) \cup {channel}, !.channel = channel, !.isLoading = FALSE]

TestSocketConnection ==
    /\ ui.on /\ ~ui.isLoading /\ ui.tests < MaxTests
    /\ ui' = [ui EXCEPT !.isLoading = TRUE, !.tests = @ + 1]
    /\ calls' = calls \cup {Call("test", Nothing, FALSE, Nothing)}
    /\ UNCHANGED db

(* The answer names the channel the event was published to, and may come    *)
(* when the screen has been left.                                           *)
TestAnswered(c) ==
    /\ c.op = "test"
    /\ calls' = calls \ {c}
    /\ \/ ui' = [ui EXCEPT !.isLoading = FALSE]
       \/ \E channel \in Channels \ {ui.channel} : ui' = SubscribeToTestChannel(channel)
    /\ UNCHANGED db

(* Mutant: the channel outlives the page. *)
RouteWillChange_StaysOpen ==
    /\ ui.on \/ ui.open # {}
    /\ ~ui.dialog
    /\ ui' = [NewPage EXCEPT !.open = ui.open, !.channel = ui.channel, !.on = FALSE]
    /\ UNCHANGED <<calls, db>>

(* routeWillChange, on every transition from the first visit on; the form   *)
(* goes with the page.                                                      *)
RouteWillChange ==
    /\ ui.on \/ ui.open # {}
    /\ ~ui.dialog
    /\ ui' = [NewPage EXCEPT !.open = ui.open \ {ui.channel}, !.channel = ui.channel, !.on = FALSE]
    /\ UNCHANGED <<calls, db>>

Next ==
    \/ Save \/ Confirm \/ Decline \/ Refresh
    \/ \E c \in calls : Handle(c) \/ Arrive(c) \/ TestAnswered(c)
    \/ \E field \in {"enabled", "mode"} : ToggleInherit(field)
    \/ \E enabled \in {"true", "false"} : ToggleEnabled(enabled)
    \/ \E mode \in Modes : SetMode(mode)
    \/ TestSocketConnection \/ RouteWillChange

-----------------------------------------------------------------------------
TypeOK ==
    /\ ui.inherits \subseteq {"enabled", "mode"} /\ ui.channel \in Channels /\ ui.open \subseteq Channels
    /\ ui.mode \in Modes \cup {"log"} /\ ui.enabled \in {"true", "false"}
    /\ \A c \in calls : c.sent \in SettingsSets({"true", "false", Null})

(* A step that handles a save of what is stored and shown makes the socket  *)
(* server enforce.                                                          *)
StartsEnforcing(c) ==
    /\ c.op = "save" /\ c.shown = db.stored /\ db'.stored # db.stored
    /\ ~Enforces(db.stored, db.env) /\ Enforces(db'.stored, db'.env)

(* With authentication switched on here, no save starts to enforce unless   *)
(* it was confirmed: "entersEnforce covers every way a save can start       *)
(* enforcing", as the title of the component's test says.                   *)
EnforcingIsConfirmed ==
    \A c \in calls : StartsEnforcing(c) /\ c.sent.enabled = "true" => c.confirmed

(* Of the ways there are, those the component covers: the mode chosen, or   *)
(* authentication switched on, on a screen that shows what is stored.       *)
ChosenEnforceIsConfirmed ==
    \A c \in calls :
        /\ StartsEnforcing(c)
        /\ \/ c.sent.mode = "enforce"
           \/ c.sent.enabled = "true" /\ Effective(db.stored, db.env).enabled = "false"
        => c.confirmed

(* One test channel at a time is open, the one shown.                       *)
OneOpen == ui.open \subseteq {ui.channel}

(* A transition leaves none open.  Once the screen was left, a test answered *)
(* late may open one, which lasts until the next transition; nothing else    *)
(* does.                                                                     *)
LeavingCloses ==
    /\ RouteWillChange => ui'.open = {}
    /\ ~ui'.on => ui'.open \subseteq ui.open \/ \E c \in calls : TestAnswered(c)
=============================================================================
