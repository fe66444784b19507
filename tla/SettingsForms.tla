---------------------------- MODULE SettingsForms ----------------------------
(***************************************************************************)
(* The administrator's settings screens: a component reads the settings     *)
(* when it is shown, the person edits the form, and save or reset sends it. *)
(* Each screen has its own conversions between the API's settings and the   *)
(* form's fields, its own tasks, and its own idea of when it is busy.       *)
(* Settings and forms are functions from fields to strings; fields that are *)
(* converted alike are one field here ("limit" is every limit of a screen). *)
(***************************************************************************)
EXTENDS Naturals

CONSTANTS
    Screens,    \* the screens to be opened
    MaxOps      \* how many requests are sent

VARIABLES
    ui,         \* the screen, its form, and: was it loaded, and edited since
    calls,      \* requests: what was sent, whether handled, the answer
    db          \* the settings the API holds, and what a reset goes back to

vars == <<ui, calls, db>>

Null == "null"
Or(value, default) == IF value = Null THEN default ELSE value      \* value ?? default
BlankToNull(value) == IF value = "" THEN Null ELSE value
BackupsFields == {"enabled", "day", "disk", "bucket", "path", "retention", "minSize", "emails"}
RateLimitsFields == {"enabled", "attempts", "unlimited", "max", "note"}
SmsGuardFields ==
    {"enabled", "mode", "limit", "days", "pause", "emails", "unlimited", "max", "countries"}
ServicesFields == {"driver", "secret", "option", "routing"}
MailFields == {"driver", "secret", "option"}

Fields(screen) ==
    CASE screen = "backups" -> BackupsFields
      [] screen = "rate-limits" -> RateLimitsFields
      [] screen = "sms-guard" -> SmsGuardFields
      [] screen = "services" -> ServicesFields
      [] OTHER -> MailFields

-----------------------------------------------------------------------------
(* From settings to form and back.                                         *)

BackupsApply(s) ==
    [enabled |-> Or(s.enabled, "false"), day |-> Or(s.day, "0"), disk |-> Or(s.disk, ""),
     bucket |-> Or(s.bucket, ""), path |-> Or(s.path, ""), retention |-> Or(s.retention, ""),
     minSize |-> Or(s.minSize, "0"), emails |-> Or(s.emails, "")]

(* A bucket is sent for an S3 disk only. *)
BackupsPayload(f) ==
    [f EXCEPT !.bucket = IF f.disk = "s3" THEN BlankToNull(@) ELSE Null,
              !.retention = BlankToNull(@), !.minSize = IF @ = "" THEN "0" ELSE @]

RateLimitsApply(s) ==
    [s EXCEPT !.enabled = Or(@, "true"), !.attempts = Or(@, "120"),
              !.unlimited = Or(@, "false"), !.note = Or(@, "")]

(* Mutant: a limit of an organization is sent as it stands in its input. *)
RateLimitsPayload_Raw(f) == [f EXCEPT !.attempts = IF @ = "" THEN "0" ELSE @, !.max = BlankToNull(@), !.note = ""]

(* Number("") is 0; an unlimited organization has no limit of its own. *)
RateLimitsPayload(f) ==
    [f EXCEPT !.attempts = IF @ = "" THEN "0" ELSE @,
              !.max = IF f.unlimited = "true" THEN Null ELSE BlankToNull(@)]

SmsGuardApply(s) ==
    [s EXCEPT !.enabled = Or(@, "true"), !.mode = Or(@, "enforce"), !.days = Or(@, "0"),
              !.pause = Or(@, "60"), !.emails = Or(@, ""),
              !.unlimited = Or(@, "false"), !.countries = Or(@, "")]

SmsGuardPayload(f) ==
    [f EXCEPT !.limit = BlankToNull(@), !.days = Or(BlankToNull(@), "0"),
              !.pause = Or(BlankToNull(@), "60"),
              !.max = IF f.unlimited = "true" THEN Null ELSE BlankToNull(@)]

(* normalizeSmsConfig: a provider by default, and no routing rules. *)
ServicesApply(s) == [s EXCEPT !.driver = Or(@, "twilio"), !.routing = Or(@, "{}")]

(* smsConfigForSave builds what is sent from the provider and its settings. *)
ServicesPayload(f) == [f EXCEPT !.routing = Null]

(* The configure screens take what the answer has for a field they know,    *)
(* and send the fields as they are.                                         *)
Apply(screen, s) ==
    CASE screen = "backups" -> BackupsApply(s)
      [] screen = "rate-limits" -> RateLimitsApply(s)
      [] screen = "sms-guard" -> SmsGuardApply(s)
      [] screen = "services" -> ServicesApply(s)
      [] OTHER -> s

Payload(screen, f) ==
    CASE screen = "backups" -> BackupsPayload(f)
      [] screen = "rate-limits" -> RateLimitsPayload(f)
      [] screen = "sms-guard" -> SmsGuardPayload(f)
      [] screen = "services" -> ServicesPayload(f)
      [] OTHER -> f

-----------------------------------------------------------------------------
(* The screens: the fields' first values, the tasks, the tasks whose answer *)
(* is applied, those that keep save and reset disabled.                     *)
Screen(tasks, applied, busy) == [tasks |-> tasks, applied |-> applied, busy |-> busy]

Backups == Screen({"load", "save", "reset"}, {"load", "save", "reset"}, {"load", "save", "reset"})
RateLimits == Screen({"load", "save", "reset"}, {"load", "save", "reset"}, {"load", "save", "reset"})
(* Mutant: saving does not keep the buttons disabled. *)
SmsGuard_SaveNotBusy ==
    Screen({"load", "save", "reset"}, {"load", "save", "reset"}, {"load", "reset"})
SmsGuard == Screen({"load", "save", "reset"}, {"load", "save", "reset"}, {"load", "save", "reset"})
Filesystem == Screen({"load", "save", "test"}, {"load"}, {"load", "save", "test"})
Queue == Screen({"load", "save", "test"}, {"load"}, {"load", "save", "test"})
NotificationChannels == Screen({"load", "save", "test"}, {"load"}, {"load", "save", "test"})
Mail == Screen({"load", "save", "test"}, {"load"}, {"save"})
Services == Screen({"load", "save", "test"}, {"load"}, {"save"})

Of(screen) ==
    CASE screen = "backups" -> Backups
      [] screen = "rate-limits" -> RateLimits
      [] screen = "sms-guard" -> SmsGuard
      [] screen = "filesystem" -> Filesystem
      [] screen = "queue" -> Queue
      [] screen = "channels" -> NotificationChannels
      [] screen = "mail" -> Mail
      [] screen = "services" -> Services
-----------------------------------------------------------------------------
(* What the API may hold.                                                  *)
Stored(screen) ==
    CASE screen = "backups" ->
           [enabled : {"true"}, day : {Null, "3"}, disk : {"local", "s3"}, bucket : {Null, "b"}, path : {"p"},
            retention : {Null, "7"}, minSize : {Null, "9"}, emails : {Null}]
      [] screen = "rate-limits" ->
           [enabled : {Null, "false"}, attempts : {"9"}, unlimited : {"true", "false"}, max : {Null, "3"},
            note : {Null, "n"}]
      [] screen = "sms-guard" ->
           [enabled : {"true"}, mode : {"monitor"}, limit : {Null, "5"}, days : {Null, "7"}, pause : {Null, "30"},
            emails : {"e"}, unlimited : {"true", "false"}, max : {Null, "4"}, countries : {Null}]
      [] OTHER -> [Fields(screen) -> {Null, "v"}]

(* The screens on which nothing is sent before the settings are loaded. *)
WaitsForLoad(screen) == "load" \in Of(screen).busy

Call(op, sent) == [op |-> op, sent |-> sent, handled |-> FALSE, ok |-> FALSE, answer |-> sent,
                   untouched |-> ui.settled /\ (WaitsForLoad(ui.screen) \/ ui.ops = 0)]

(* The screen is shown: its fields are blank, and load is performed. *)
Init ==
    \E screen \in Screens : \E stored \in Stored(screen) :
        /\ db = [settings |-> stored, defaults |-> CHOOSE defaults \in Stored(screen) : TRUE]
        /\ ui = [screen |-> screen, form |-> [f \in Fields(screen) |-> ""], settled |-> FALSE, ops |-> 0]
        /\ calls = {[op |-> "load", sent |-> [f \in Fields(screen) |-> ""], untouched |-> FALSE,
                     handled |-> FALSE, ok |-> FALSE, answer |-> [f \in Fields(screen) |-> ""]]}

IsBusy(op) == \E c \in calls : c.op = op \/ c.op \in Of(ui.screen).busy

Send(op) ==
    /\ op \in Of(ui.screen).tasks \ {"load"} /\ ~IsBusy(op) /\ ui.ops < MaxOps
    /\ calls' = calls \cup {Call(op, Payload(ui.screen, ui.form))}
    /\ ui' = [ui EXCEPT !.ops = @ + 1]
    /\ UNCHANGED db

(* The API handles a request, or fails before it or after it. *)
Handled(c) ==
    CASE c.op = "save" -> c.sent [] c.op = "reset" -> db.defaults [] OTHER -> db.settings

Handle(c) ==
    /\ ~c.handled
    /\ \E ok, done \in BOOLEAN :
           /\ ok => done
           /\ db' = IF done THEN [db EXCEPT !.settings = Handled(c)] ELSE db
           /\ calls' = (calls \ {c}) \cup {[c EXCEPT !.handled = TRUE, !.ok = ok, !.untouched = FALSE,
                                              !.answer = IF ok THEN Handled(c) ELSE @]}
    /\ UNCHANGED ui

(* The answer arrives: it is applied, or it is only announced. *)
Arrive(c) ==
    /\ c.handled
    /\ calls' = calls \ {c}
    /\ ui' = CASE c.op = "test" -> ui
               [] ~c.ok /\ c.op # "test" -> [ui EXCEPT !.settled = @ /\ c.op = "load"]
               [] c.ok /\ c.op \in Of(ui.screen).applied ->
                    [ui EXCEPT !.form = Apply(ui.screen, c.answer), !.settled = TRUE]
               [] OTHER -> [ui EXCEPT !.settled = Payload(ui.screen, ui.form) = c.sent]
    /\ UNCHANGED db

(* The person clears a field, or fills it; selects and checkboxes are not   *)
(* disabled while the screen is busy.                                       *)
Edit ==
    /\ ui.settled
    /\ \E f \in Fields(ui.screen), value \in {"", "5"} :
           ui' = [ui EXCEPT !.form[f] = value, !.settled = FALSE]
    /\ UNCHANGED <<calls, db>>

Next ==
    \/ \E op \in {"save", "reset", "test"} : Send(op)
    \/ \E c \in calls : Handle(c) \/ Arrive(c)
    \/ Edit

-----------------------------------------------------------------------------
TypeOK ==
    /\ DOMAIN ui.form = Fields(ui.screen) /\ DOMAIN db.settings = Fields(ui.screen)
    /\ \A c \in calls : c.op \in Of(ui.screen).tasks

(* When every answer has come, the last one was a success and nothing was   *)
(* edited since, the form shows what the API holds: no answer is applied    *)
(* after that of a later request.  (On the screens that wait for their load *)
(* to end; on the others a save may overtake it.)                           *)
ShownIsStored ==
    ui.settled /\ calls = {} /\ WaitsForLoad(ui.screen) =>
        Payload(ui.screen, Apply(ui.screen, db.settings)) = Payload(ui.screen, ui.form)

(* What a screen does not send, or sends as null: a bucket off S3, the limit *)
(* of an unlimited organization, and the rules by which messages are routed  *)
(* to providers, which smsConfigForSave leaves out.                          *)
NotSent(screen, s) ==
    (IF screen = "backups" /\ s.disk # "s3" THEN {"bucket"} ELSE {})
    \cup (IF screen \in {"rate-limits", "sms-guard"} /\ s.unlimited = "true" THEN {"max"} ELSE {})
    \cup (IF screen = "services" THEN {"routing"} ELSE {})

(* Saving a form as it was loaded changes no setting that has a value, for  *)
(* every conversion of null, blank and zero on the way to the form and  *)
(* back.                                                                    *)
UntouchedStays ==
    \A c \in calls : c.op = "save" /\ c.untouched /\ ~c.handled =>
        \A f \in Fields(ui.screen) \ NotSent(ui.screen, db.settings) :
            db.settings[f] # Null => c.sent[f] = db.settings[f]
=============================================================================
