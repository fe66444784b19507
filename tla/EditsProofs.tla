---------------------------- MODULE EditsProofs ----------------------------
(***************************************************************************)
(* Theorems about what the console's settings store, for any instance of    *)
(* its parts.  A screen's own page is not enough to show what its saves      *)
(* change: what a request carries was taken from the page when it was sent,  *)
(* so the invariants speak of the requests under way as well.                *)
(***************************************************************************)
EXTENDS ConsoleProofs

-----------------------------------------------------------------------------
(* What is stored by the settings screens.  No setting that is stored is     *)
(* blank where the form's blank means null or zero; a save of a form that    *)
(* was not edited sends what is stored, there and back through the form.     *)
NoBlanks(screen, s) ==
  /\ DOMAIN s = Forms!Fields(screen)
  /\ screen = "backups" => s.bucket # "" /\ s.retention # "" /\ s.minSize # ""
  /\ screen = "rate-limits" => s.attempts # "" /\ s.max # ""
  /\ screen = "sms-guard" => s.limit # "" /\ s.days # "" /\ s.pause # "" /\ s.max # ""

EditsTyped ==
  /\ ui.ops \in Nat
  /\ DOMAIN ui.form = Forms!Fields(ui.screen)
  /\ NoBlanks(ui.screen, db.settings) /\ NoBlanks(ui.screen, db.defaults)
  /\ \A c \in calls :
       /\ DOMAIN c.sent = Forms!Fields(ui.screen) /\ DOMAIN c.answer = Forms!Fields(ui.screen)
       /\ c.op \in {"save", "reset"} => c.handled \/ NoBlanks(ui.screen, c.sent)

(* Where a save may overtake the load. *)
FirstSave ==
  /\ \A c, d \in calls : c.op = "save" => d.op # "save" \/ c = d
  /\ ui.ops = 0 => \A c \in calls : c.op = "load" /\ (c.handled /\ c.ok => c.answer = db.settings)
  /\ ui.ops = 0 /\ ui.settled => Matches

SentAsLoaded ==
  \A c \in calls : c.op = "save" /\ c.untouched /\ ~c.handled =>
     c.sent = Forms!Payload(ui.screen, Forms!Apply(ui.screen, db.settings))

EditsInv == EditsTyped /\ (~Forms!WaitsForLoad(ui.screen) => FirstSave) /\ SentAsLoaded

LEMMA FieldNames ==
  /\ Forms!Null = "null"
  /\ Forms!Fields("backups") = {"enabled", "day", "disk", "bucket", "path", "retention", "minSize", "emails"}
  /\ Forms!Fields("rate-limits") = {"enabled", "attempts", "unlimited", "max", "note"}
  /\ Forms!Fields("sms-guard") =
       {"enabled", "mode", "limit", "days", "pause", "emails", "unlimited", "max", "countries"}
  /\ Forms!Fields("services") = {"driver", "secret", "option", "routing"}
BY DEF Forms!Null, Forms!Fields, Forms!BackupsFields, Forms!RateLimitsFields, Forms!SmsGuardFields, Forms!ServicesFields

(* What is sent has no blank where blank means null or zero.                 *)
LEMMA PayloadHasNoBlanks ==
  ASSUME NEW screen \in FormsScreens, NEW f, DOMAIN f = Forms!Fields(screen)
  PROVE  NoBlanks(screen, Forms!Payload(screen, f))
<1>1. CASE screen = "backups"
  BY <1>1, FieldNames DEF NoBlanks, Forms!Payload, Forms!BackupsPayload, Forms!BlankToNull
<1>2. CASE screen = "rate-limits"
  BY <1>2, FieldNames DEF NoBlanks, Forms!Payload, Forms!RateLimitsPayload, Forms!BlankToNull
<1>3. CASE screen = "sms-guard"
  BY <1>3, FieldNames DEF NoBlanks, Forms!Payload, Forms!SmsGuardPayload, Forms!BlankToNull, Forms!Or
<1>4. CASE screen = "services"
  BY <1>4, FieldNames DEF NoBlanks, Forms!Payload, Forms!ServicesPayload
<1>5. CASE screen \in {"filesystem", "queue", "channels", "mail"}
  BY <1>5 DEF NoBlanks, Forms!Payload
<1> QED BY <1>1, <1>2, <1>3, <1>4, <1>5 DEF FormsScreens

LEMMA AppliedHasFields ==
  ASSUME NEW screen \in FormsScreens, NEW s, DOMAIN s = Forms!Fields(screen)
  PROVE  DOMAIN Forms!Apply(screen, s) = Forms!Fields(screen)
<1>1. CASE screen = "backups"
  BY <1>1, FieldNames DEF Forms!Apply, Forms!BackupsApply
<1>2. CASE screen = "rate-limits"
  BY <1>2 DEF Forms!Apply, Forms!RateLimitsApply
<1>3. CASE screen = "sms-guard"
  BY <1>3 DEF Forms!Apply, Forms!SmsGuardApply
<1>4. CASE screen = "services"
  BY <1>4 DEF Forms!Apply, Forms!ServicesApply
<1>5. CASE screen \in {"filesystem", "queue", "channels", "mail"}
  BY <1>5 DEF Forms!Apply
<1> QED BY <1>1, <1>2, <1>3, <1>4, <1>5 DEF FormsScreens

(* To the form and back: a setting with a value that is sent is unchanged.   *)
LEMMA ThereAndBack ==
  ASSUME NEW screen \in FormsScreens, NEW s, NoBlanks(screen, s),
         NEW field \in Forms!Fields(screen) \ Forms!NotSent(screen, s), s[field] # Forms!Null
  PROVE  Forms!Payload(screen, Forms!Apply(screen, s))[field] = s[field]
<1> DEFINE form == Forms!Apply(screen, s)
           sent == Forms!Payload(screen, form)
<1>1. CASE screen = "backups"
  <2>1. /\ form.disk = (IF s.disk = "null" THEN "" ELSE s.disk)
        /\ form.bucket = (IF s.bucket = "null" THEN "" ELSE s.bucket)
        /\ form.retention = (IF s.retention = "null" THEN "" ELSE s.retention)
        /\ form.minSize = (IF s.minSize = "null" THEN "0" ELSE s.minSize)
        /\ \A f \in {"enabled", "day", "path", "emails"} : s[f] # "null" => form[f] = s[f]
        /\ DOMAIN form = Forms!Fields("backups")
    <3> DEFINE or(value, default) == IF value = "null" THEN default ELSE value
    <3>1. form = [enabled |-> or(s.enabled, "false"), day |-> or(s.day, "0"), disk |-> or(s.disk, ""),
                  bucket |-> or(s.bucket, ""), path |-> or(s.path, ""), retention |-> or(s.retention, ""),
                  minSize |-> or(s.minSize, "0"), emails |-> or(s.emails, "")]
      BY <1>1, FieldNames DEF Forms!Apply, Forms!BackupsApply, Forms!Or
    <3> HIDE DEF form
    <3>2. /\ s.enabled # "null" => form.enabled = s.enabled
          /\ s.day # "null" => form.day = s.day
          /\ s.path # "null" => form.path = s.path
          /\ s.emails # "null" => form.emails = s.emails
      BY <3>1
    <3>3. DOMAIN form = Forms!Fields("backups")
      BY <3>1, FieldNames
    <3>4. /\ form.disk = or(s.disk, "") /\ form.bucket = or(s.bucket, "")
          /\ form.retention = or(s.retention, "") /\ form.minSize = or(s.minSize, "0")
      BY <3>1
    <3>5. \A f \in {"enabled", "day", "path", "emails"} : s[f] # "null" => form[f] = s[f]
      BY <3>2
    <3> QED BY <3>3, <3>4, <3>5
  <2> HIDE DEF form
  <2>2. /\ sent.bucket = IF form.disk = "s3" THEN (IF form.bucket = "" THEN "null" ELSE form.bucket) ELSE "null"
        /\ sent.retention = IF form.retention = "" THEN "null" ELSE form.retention
        /\ sent.minSize = IF form.minSize = "" THEN "0" ELSE form.minSize
        /\ \A f \in {"enabled", "day", "disk", "path", "emails"} : sent[f] = form[f]
    BY <1>1, <2>1, FieldNames DEF Forms!Payload, Forms!BackupsPayload, Forms!BlankToNull
  <2> HIDE DEF sent
  <2>3. field = "bucket" => s.disk = "s3"
    BY <1>1 DEF Forms!NotSent
  <2>4. s[field] # "null" /\ s.bucket # "" /\ s.retention # "" /\ s.minSize # ""
    BY <1>1, FieldNames DEF NoBlanks
  <2>5. ASSUME field \in {"enabled", "day", "path", "emails"} PROVE sent[field] = s[field]
    BY <2>1, <2>2, <2>4, <2>5
  <2>6. ASSUME field = "disk" PROVE sent[field] = s[field]
    BY <2>1, <2>2, <2>4, <2>6
  <2>7. ASSUME field = "bucket" PROVE sent[field] = s[field]
    BY <2>1, <2>2, <2>3, <2>4, <2>7
  <2>8. ASSUME field = "retention" PROVE sent[field] = s[field]
    BY <2>1, <2>2, <2>4, <2>8
  <2>9. ASSUME field = "minSize" PROVE sent[field] = s[field]
    BY <2>1, <2>2, <2>4, <2>9
  <2>10. field \in {"enabled", "day", "disk", "bucket", "path", "retention", "minSize", "emails"}
    BY <1>1, FieldNames
  <2>11. sent[field] = s[field]
    BY <2>5, <2>6, <2>7, <2>8, <2>9, <2>10
  <2> QED BY <2>11 DEF sent, form
<1>2. CASE screen = "rate-limits"
  <2>1. /\ form.attempts = (IF s.attempts = "null" THEN "120" ELSE s.attempts)
        /\ form.unlimited = (IF s.unlimited = "null" THEN "false" ELSE s.unlimited)
        /\ form.max = s.max
        /\ \A f \in {"enabled", "note"} : s[f] # "null" => form[f] = s[f]
        /\ DOMAIN form = Forms!Fields("rate-limits")
    BY <1>2, FieldNames DEF Forms!Apply, Forms!RateLimitsApply, Forms!Or, NoBlanks
  <2> HIDE DEF form
  <2>2. /\ sent.attempts = IF form.attempts = "" THEN "0" ELSE form.attempts
        /\ sent.max = IF form.unlimited = "true" THEN "null" ELSE (IF form.max = "" THEN "null" ELSE form.max)
        /\ \A f \in {"enabled", "unlimited", "note"} : sent[f] = form[f]
    BY <1>2, <2>1, FieldNames DEF Forms!Payload, Forms!RateLimitsPayload, Forms!BlankToNull
  <2> HIDE DEF sent
  <2>3. field = "max" => s.unlimited # "true"
    BY <1>2 DEF Forms!NotSent
  <2>4. sent[field] = s[field]
    BY <1>2, <2>1, <2>2, <2>3, FieldNames DEF NoBlanks
  <2> QED BY <2>4 DEF sent, form
<1>3. CASE screen = "sms-guard"
  <2>1. /\ form.unlimited = (IF s.unlimited = "null" THEN "false" ELSE s.unlimited)
        /\ form.max = s.max /\ form.limit = s.limit
        /\ \A f \in {"enabled", "mode", "days", "pause", "emails", "countries"} : s[f] # "null" => form[f] = s[f]
        /\ DOMAIN form = Forms!Fields("sms-guard")
    BY <1>3, FieldNames DEF Forms!Apply, Forms!SmsGuardApply, Forms!Or, NoBlanks
  <2> HIDE DEF form
  <2>2. /\ sent.limit = IF form.limit = "" THEN "null" ELSE form.limit
        /\ \A f \in {"days", "pause"} : form[f] \notin {"", "null"} => sent[f] = form[f]
        /\ sent.max = IF form.unlimited = "true" THEN "null" ELSE (IF form.max = "" THEN "null" ELSE form.max)
        /\ \A f \in {"enabled", "mode", "emails", "unlimited", "countries"} : sent[f] = form[f]
    BY <1>3, <2>1, FieldNames DEF Forms!Payload, Forms!SmsGuardPayload, Forms!BlankToNull, Forms!Or
  <2> HIDE DEF sent
  <2>3. field = "max" => s.unlimited # "true"
    BY <1>3 DEF Forms!NotSent
  <2>4. sent[field] = s[field]
    BY <1>3, <2>1, <2>2, <2>3, FieldNames DEF NoBlanks
  <2> QED BY <2>4 DEF sent, form
<1>4. CASE screen = "services"
  <2>1. field # "routing"
    BY <1>4 DEF Forms!NotSent
  <2>2. form[field] = s[field] /\ field \in DOMAIN form
    BY <1>4, <2>1, FieldNames DEF Forms!Apply, Forms!ServicesApply, Forms!Or, NoBlanks
  <2> HIDE DEF form
  <2>3. sent[field] = form[field]
    BY <1>4, <2>1, <2>2 DEF Forms!Payload, Forms!ServicesPayload
  <2> QED BY <2>2, <2>3 DEF form
<1>5. CASE screen \in {"filesystem", "queue", "channels", "mail"}
  BY <1>5 DEF Forms!Apply, Forms!Payload
<1> QED BY <1>1, <1>2, <1>3, <1>4, <1>5 DEF FormsScreens

(* What is stored when the page opens.                                       *)
LEMMA StoredHasNoBlanks ==
  ASSUME NEW screen \in FormsScreens, NEW s \in Forms!Stored(screen) PROVE NoBlanks(screen, s)
<1>1. CASE screen = "backups"
  BY <1>1, FieldNames DEF Forms!Stored, NoBlanks
<1>2. CASE screen = "rate-limits"
  BY <1>2, FieldNames DEF Forms!Stored, NoBlanks
<1>3. CASE screen = "sms-guard"
  BY <1>3, FieldNames DEF Forms!Stored, NoBlanks
<1>4. CASE screen \in {"services", "filesystem", "queue", "channels", "mail"}
  BY <1>4 DEF Forms!Stored, NoBlanks
<1> QED BY <1>1, <1>2, <1>3, <1>4 DEF FormsScreens

LEMMA SomethingIsStored == ASSUME NEW screen \in FormsScreens PROVE \E s : s \in Forms!Stored(screen)
<1>1. CASE screen = "backups"
  <2>1. [enabled |-> "true", day |-> "3", disk |-> "s3", bucket |-> "b", path |-> "p", retention |-> "7",
         minSize |-> "9", emails |-> Forms!Null] \in Forms!Stored("backups")
    BY DEF Forms!Stored
  <2> QED BY <1>1, <2>1
<1>2. CASE screen = "rate-limits"
  <2>1. [enabled |-> "false", attempts |-> "9", unlimited |-> "true", max |-> "3", note |-> "n"]
          \in Forms!Stored("rate-limits")
    BY DEF Forms!Stored
  <2> QED BY <1>2, <2>1
<1>3. CASE screen = "sms-guard"
  <2>1. [enabled |-> "true", mode |-> "monitor", limit |-> "5", days |-> "7", pause |-> "30", emails |-> "e",
         unlimited |-> "true", max |-> "4", countries |-> Forms!Null] \in Forms!Stored("sms-guard")
    BY DEF Forms!Stored
  <2> QED BY <1>3, <2>1
<1>4. CASE screen \in {"services", "filesystem", "queue", "channels", "mail"}
  <2>1. [f \in Forms!Fields(screen) |-> "v"] \in [Forms!Fields(screen) -> {Forms!Null, "v"}]
    OBVIOUS
  <2>2. Forms!Stored(screen) = [Forms!Fields(screen) -> {Forms!Null, "v"}]
    BY <1>4 DEF Forms!Stored
  <2> QED BY <2>1, <2>2
<1> QED BY <1>1, <1>2, <1>3, <1>4 DEF FormsScreens

FormsEdited == FormsInv /\ EditsInv

LEMMA SaveIsApplied ==
  /\ \A screen \in FormsScreens : ~Forms!WaitsForLoad(screen) =>
       Forms!Of(screen).busy = {"save"} /\ Forms!Of(screen).tasks = {"load", "save", "test"}
  /\ \A screen \in FormsScreens : "test" \notin Forms!Of(screen).applied
BY DEF FormsScreens, Forms!WaitsForLoad, Forms!Of, Forms!Screen, Forms!Backups, Forms!RateLimits, Forms!SmsGuard,
       Forms!Filesystem, Forms!Queue, Forms!NotificationChannels, Forms!Mail, Forms!Services

LEMMA EditsSent ==
  ASSUME FormsEdited, NEW op \in {"save", "reset", "test"}, Forms!Send(op) PROVE EditsInv'
<1> DEFINE payload == Forms!Payload(ui.screen, ui.form)
           call == Forms!Call(op, payload)
<1>1. /\ op \in Forms!Of(ui.screen).tasks /\ ~Forms!IsBusy(op)
      /\ calls' = calls \cup {call} /\ ui' = [ui EXCEPT !.ops = @ + 1] /\ db' = db
  BY DEF Forms!Send
<1>2. /\ ui'.screen = ui.screen /\ ui'.form = ui.form /\ ui'.settled = ui.settled /\ ui'.ops = ui.ops + 1
  BY <1>1 DEF FormsEdited, FormsInv, FormsTyped
<1>3. /\ call.op = op /\ ~call.handled /\ call.sent = payload /\ call.answer = payload
      /\ call.untouched => ui.settled /\ (Forms!WaitsForLoad(ui.screen) \/ ui.ops = 0)
  BY DEF Forms!Call
<1>4. NoBlanks(ui.screen, payload)
  BY PayloadHasNoBlanks DEF FormsEdited, FormsInv, FormsTyped, EditsInv, EditsTyped
<1> HIDE DEF payload, call
<1>5. EditsTyped'
  <2>1. DOMAIN payload = Forms!Fields(ui.screen)
    BY <1>4 DEF NoBlanks
  <2> QED BY <2>1, <1>1, <1>2, <1>3, <1>4 DEF FormsEdited, EditsInv, EditsTyped
<1>6. ASSUME ~Forms!WaitsForLoad(ui.screen) PROVE FirstSave'
  <2>1. \A c \in calls : c.op # "save"
    BY <1>1, <1>6, SaveIsApplied DEF Forms!IsBusy, FormsEdited, FormsInv, FormsTyped
  <2>2. ui'.ops # 0
    BY <1>2 DEF FormsEdited, EditsInv, EditsTyped
  <2> QED BY <1>1, <2>1, <2>2 DEF FirstSave
<1>7. op = "save" /\ call.untouched => payload = Forms!Payload(ui.screen, Forms!Apply(ui.screen, db.settings))
  <2> SUFFICES ASSUME op = "save", call.untouched PROVE Matches
    BY DEF Matches, payload
  <2>1. CASE Forms!WaitsForLoad(ui.screen)
    <3>1. calls = {}
      BY <1>1, <2>1, WaitingIsBusy DEF FormsEdited, FormsInv, FormsTyped, Forms!IsBusy
    <3> QED BY <3>1, <2>1, <1>3 DEF FormsEdited, FormsInv, OneAtATime
  <2>2. CASE ~Forms!WaitsForLoad(ui.screen)
    BY <2>2, <1>3 DEF FormsEdited, EditsInv, FirstSave
  <2> QED BY <2>1, <2>2
<1>8. SentAsLoaded'
  BY <1>1, <1>2, <1>3, <1>7 DEF FormsEdited, EditsInv, SentAsLoaded
<1> QED BY <1>2, <1>5, <1>6, <1>8 DEF EditsInv

LEMMA EditsHandled == ASSUME FormsEdited, NEW c \in calls, Forms!Handle(c) PROVE EditsInv'
<1>1. PICK ok \in BOOLEAN, done \in BOOLEAN :
        /\ ~c.handled /\ (ok => done) /\ ui' = ui
        /\ db' = IF done THEN [db EXCEPT !.settings = Forms!Handled(c)] ELSE db
        /\ calls' = (calls \ {c}) \cup
             {[c EXCEPT !.handled = TRUE, !.ok = ok, !.untouched = FALSE,
                        !.answer = IF ok THEN Forms!Handled(c) ELSE @]}
  BY DEF Forms!Handle
<1> DEFINE answered == [c EXCEPT !.handled = TRUE, !.ok = ok, !.untouched = FALSE,
                                 !.answer = IF ok THEN Forms!Handled(c) ELSE @]
<1>2. calls' = (calls \ {c}) \cup {answered}
  BY <1>1
<1>3. /\ answered.op = c.op /\ answered.sent = c.sent /\ answered.untouched = FALSE /\ answered.handled = TRUE
      /\ answered.ok = ok /\ answered.answer = IF ok THEN Forms!Handled(c) ELSE c.answer
  BY DEF FormsEdited, FormsInv, FormsTyped
<1> HIDE DEF answered
<1>4. /\ db'.settings = IF done THEN Forms!Handled(c) ELSE db.settings
      /\ db'.defaults = db.defaults
  BY <1>1 DEF FormsEdited, FormsInv, FormsTyped
<1>5. /\ NoBlanks(ui.screen, Forms!Handled(c))
      /\ c.op \notin {"save", "reset"} => Forms!Handled(c) = db.settings
  BY <1>1 DEF Forms!Handled, FormsEdited, EditsInv, EditsTyped
<1>6. EditsTyped'
  <2>1. DOMAIN Forms!Handled(c) = Forms!Fields(ui.screen)
    BY <1>5 DEF NoBlanks
  <2>2. c.op \in {"save", "reset"} => NoBlanks(ui.screen, c.sent)
    BY <1>1 DEF FormsEdited, EditsInv, EditsTyped
  <2> QED BY <2>1, <2>2, <1>1, <1>2, <1>3, <1>4, <1>5 DEF FormsEdited, EditsInv, EditsTyped
<1>7. ASSUME ~Forms!WaitsForLoad(ui.screen) PROVE FirstSave'
  <2>1. FirstSave
    BY <1>7 DEF FormsEdited, EditsInv
  <2>2. \A d, e \in calls' : d.op = "save" => e.op # "save" \/ d = e
    BY <2>1, <1>2, <1>3 DEF FirstSave
  <2>3. ASSUME ui.ops = 0 PROVE db'.settings = db.settings /\ (ok => answered.answer = db.settings)
    BY <2>1, <2>3, <1>3, <1>4, <1>5 DEF FirstSave
  <2>4. ui.ops = 0 => \A d \in calls' : d.op = "load" /\ (d.handled /\ d.ok => d.answer = db'.settings)
    BY <2>1, <2>3, <1>2, <1>3 DEF FirstSave
  <2>5. ui.ops = 0 /\ ui.settled => Matches'
    BY <2>1, <2>3, <1>1 DEF FirstSave, Matches
  <2> QED BY <2>2, <2>4, <2>5, <1>1 DEF FirstSave
<1>8. ASSUME NEW d \in calls', d.op = "save", d.untouched, ~d.handled
      PROVE  d.sent = Forms!Payload(ui.screen, Forms!Apply(ui.screen, db'.settings))
  <2>1. d \in calls /\ d # c
    BY <1>2, <1>3, <1>8
  <2>2. ~Forms!WaitsForLoad(ui.screen)
    BY <2>1 DEF FormsEdited, FormsInv, OneAtATime
  <2>3. c.op \notin {"save", "reset"}
    BY <2>1, <2>2, <1>8, SaveIsApplied DEF FormsEdited, FormsInv, FormsTyped, EditsInv, FirstSave
  <2>4. db'.settings = db.settings
    BY <2>3, <1>4, <1>5
  <2> QED BY <2>1, <2>4, <1>8 DEF FormsEdited, EditsInv, SentAsLoaded
<1>9. SentAsLoaded'
  BY <1>1, <1>8 DEF SentAsLoaded
<1> QED BY <1>1, <1>6, <1>7, <1>9 DEF EditsInv

LEMMA EditsArrived == ASSUME FormsEdited, NEW c \in calls, Forms!Arrive(c) PROVE EditsInv'
<1>1. c.handled /\ calls' = calls \ {c} /\ db' = db
  BY DEF Forms!Arrive
<1>2. \/ ui' = ui
      \/ c.op # "test" /\ ~c.ok /\ ui' = [ui EXCEPT !.settled = @ /\ c.op = "load"]
      \/ c.ok /\ ui' = [ui EXCEPT !.form = Forms!Apply(ui.screen, c.answer), !.settled = TRUE]
      \/ c.op # "load" /\ ui' = [ui EXCEPT !.settled = Forms!Payload(ui.screen, ui.form) = c.sent]
  <2>0. "load" \in Forms!Of(ui.screen).applied /\ "test" \notin Forms!Of(ui.screen).applied
    BY DEF FormsEdited, FormsInv, FormsTyped, FormsScreens, Forms!Of, Forms!Screen, Forms!Backups, Forms!RateLimits,
      Forms!SmsGuard, Forms!Filesystem, Forms!Queue, Forms!NotificationChannels, Forms!Mail, Forms!Services
  <2>1. CASE c.op = "test"
    BY <2>0, <2>1 DEF Forms!Arrive
  <2>2. CASE c.op # "test" /\ ~c.ok
    BY <2>2 DEF Forms!Arrive
  <2>3. CASE c.op # "test" /\ c.ok /\ c.op \in Forms!Of(ui.screen).applied
    BY <2>3 DEF Forms!Arrive
  <2>4. CASE c.op # "test" /\ c.ok /\ c.op \notin Forms!Of(ui.screen).applied
    BY <2>0, <2>4 DEF Forms!Arrive
  <2> QED BY <2>1, <2>2, <2>3, <2>4
<1>3. /\ ui'.screen = ui.screen /\ ui'.ops = ui.ops
      /\ \/ ui'.form = ui.form
         \/ c.ok /\ ui'.form = Forms!Apply(ui.screen, c.answer)
  BY <1>2 DEF FormsEdited, FormsInv, FormsTyped
<1>4. DOMAIN ui'.form = Forms!Fields(ui.screen)
  BY <1>3, AppliedHasFields DEF FormsEdited, FormsInv, FormsTyped, EditsInv, EditsTyped
<1>5. EditsTyped'
  BY <1>1, <1>3, <1>4 DEF FormsEdited, EditsInv, EditsTyped
<1>6. ASSUME ~Forms!WaitsForLoad(ui.screen) PROVE FirstSave'
  <2>1. FirstSave
    BY <1>6 DEF FormsEdited, EditsInv
  <2>2. ASSUME ui.ops = 0, ui'.settled PROVE Matches'
    <3>1. c.op = "load" /\ (c.ok => c.answer = db.settings)
      BY <2>1, <2>2, <1>1 DEF FirstSave
    <3>2. CASE ui' = ui
      BY <3>2, <2>1, <2>2, <1>1 DEF FirstSave, Matches
    <3>3. CASE ui' = [ui EXCEPT !.settled = @ /\ c.op = "load"]
      <4>1. ui.settled /\ ui'.form = ui.form
        BY <3>3, <2>2 DEF FormsEdited, FormsInv, FormsTyped
      <4> QED BY <4>1, <2>1, <2>2, <1>1, <1>3 DEF FirstSave, Matches
    <3>4. CASE c.ok /\ ui' = [ui EXCEPT !.form = Forms!Apply(ui.screen, c.answer), !.settled = TRUE]
      <4>1. ui'.form = Forms!Apply(ui.screen, db.settings)
        BY <3>1, <3>4 DEF FormsEdited, FormsInv, FormsTyped
      <4> QED BY <4>1, <1>1, <1>3 DEF Matches
    <3> QED BY <3>1, <3>2, <3>3, <3>4, <1>2
  <2> QED BY <2>1, <2>2, <1>1, <1>3 DEF FirstSave
<1>7. SentAsLoaded'
  BY <1>1, <1>3 DEF FormsEdited, EditsInv, SentAsLoaded
<1> QED BY <1>3, <1>5, <1>6, <1>7 DEF EditsInv

LEMMA EditsEdited == ASSUME FormsEdited, Forms!Edit PROVE EditsInv'
<1>1. PICK f \in Forms!Fields(ui.screen), value \in {"", "5"} :
        ui' = [ui EXCEPT !.form[f] = value, !.settled = FALSE] /\ calls' = calls /\ db' = db
  BY DEF Forms!Edit
<1>2. /\ ui'.screen = ui.screen /\ ui'.settled = FALSE /\ ui'.ops = ui.ops
      /\ DOMAIN ui'.form = DOMAIN ui.form
  BY <1>1 DEF FormsEdited, FormsInv, FormsTyped
<1> QED BY <1>1, <1>2 DEF FormsEdited, EditsInv, EditsTyped, FirstSave, SentAsLoaded

LEMMA EditsInit == Forms!Init => EditsInv
<1> SUFFICES ASSUME Forms!Init PROVE EditsInv
  OBVIOUS
<1>0. PICK screen \in FormsScreens : \E stored \in Forms!Stored(screen) :
        /\ db = [settings |-> stored, defaults |-> CHOOSE defaults \in Forms!Stored(screen) : TRUE]
        /\ ui = [screen |-> screen, form |-> [f \in Forms!Fields(screen) |-> ""], settled |-> FALSE, ops |-> 0]
        /\ calls = {[op |-> "load", sent |-> [f \in Forms!Fields(screen) |-> ""], untouched |-> FALSE,
                     handled |-> FALSE, ok |-> FALSE, answer |-> [f \in Forms!Fields(screen) |-> ""]]}
  BY DEF Forms!Init, FormsScreens
<1>1. PICK stored \in Forms!Stored(screen) :
        /\ db = [settings |-> stored, defaults |-> CHOOSE defaults \in Forms!Stored(screen) : TRUE]
        /\ ui = [screen |-> screen, form |-> [f \in Forms!Fields(screen) |-> ""], settled |-> FALSE, ops |-> 0]
        /\ calls = {[op |-> "load", sent |-> [f \in Forms!Fields(screen) |-> ""], untouched |-> FALSE,
                     handled |-> FALSE, ok |-> FALSE, answer |-> [f \in Forms!Fields(screen) |-> ""]]}
  BY <1>0
<1>2. (CHOOSE defaults \in Forms!Stored(screen) : TRUE) \in Forms!Stored(screen)
  BY SomethingIsStored
<1>3. /\ ui.screen = screen /\ DOMAIN ui.form = Forms!Fields(screen) /\ ui.settled = FALSE /\ ui.ops = 0
      /\ db.settings = stored /\ db.defaults \in Forms!Stored(screen)
  BY <1>1, <1>2
<1>4. ASSUME NEW c \in calls
      PROVE  /\ c.op = "load" /\ c.untouched = FALSE /\ ~c.handled
             /\ DOMAIN c.sent = Forms!Fields(screen) /\ DOMAIN c.answer = Forms!Fields(screen)
  <2> DEFINE blank == [f \in Forms!Fields(screen) |-> ""]
  <2>1. DOMAIN blank = Forms!Fields(screen)
    OBVIOUS
  <2>2. calls = {[op |-> "load", sent |-> blank, untouched |-> FALSE, handled |-> FALSE, ok |-> FALSE,
                  answer |-> blank]}
    BY <1>1
  <2> HIDE DEF blank
  <2> QED BY <2>1, <2>2
<1>5. EditsTyped
  <2>1. NoBlanks(screen, stored) /\ NoBlanks(screen, db.defaults)
    BY <1>3, StoredHasNoBlanks
  <2>2. ui.ops \in Nat
    BY <1>3
  <2> QED BY <2>1, <2>2, <1>3, <1>4 DEF EditsTyped
<1> QED BY <1>3, <1>4, <1>5 DEF EditsInv, FirstSave, SentAsLoaded

LEMMA EditsAreSaved == FormsEdited => Forms!UntouchedStays
<1> SUFFICES ASSUME FormsEdited, NEW c \in calls, c.op = "save", c.untouched, ~c.handled,
                    NEW f \in Forms!Fields(ui.screen) \ Forms!NotSent(ui.screen, db.settings),
                    db.settings[f] # Forms!Null
             PROVE  c.sent[f] = db.settings[f]
  BY DEF Forms!UntouchedStays
<1> QED BY ThereAndBack DEF FormsEdited, FormsInv, FormsTyped, EditsInv, EditsTyped, SentAsLoaded

-----------------------------------------------------------------------------
(* The OAuth settings: what the form holds and what the API answers.         *)
OauthTyped ==
  /\ DOMAIN ui = {"providers", "general", "values", "testResults", "ops"}
  /\ ui.providers \subseteq {"google"}
  /\ ui.values \in [{"google"} -> Oauth!Values]
  /\ DOMAIN db = {"general", "values"} /\ db.values \in [{"google"} -> Oauth!Values]
  /\ \A c \in calls :
       /\ DOMAIN c = {"op", "provider", "sent", "handled", "ok", "answer", "verified", "of"}
       /\ c.op \in {"load", "save", "test"}
       /\ c.answer.values \in [{"google"} -> Oauth!Values]
       /\ \A p \in {"google"} \cap DOMAIN c.sent.values : c.sent.values[p] \in Oauth!Values

OauthForm(values) == values \in [{"google"} -> Oauth!Values]

LEMMA OauthDefaults ==
  /\ DOMAIN Oauth!Defaults = {"general", "values"}
  /\ OauthForm(Oauth!Defaults.values)
<1>1. (CHOOSE i \in {"i", "j"} : TRUE) \in {"i", "j"}
  OBVIOUS
<1> QED BY <1>1 DEF Oauth!Defaults, OauthForm, Oauth!Values, Oauth!Blank

(* The answer to a load or a save fills the form, without its secrets.       *)
LEMMA OauthApplied ==
  ASSUME OauthTyped, NEW answer, OauthForm(answer.values)
  PROVE  /\ DOMAIN Oauth!ApplyConfig(answer) = DOMAIN ui
         /\ Oauth!ApplyConfig(answer).providers = {"google"}
         /\ OauthForm(Oauth!ApplyConfig(answer).values)
<1>1. OauthForm([p \in {"google"} |-> [answer.values[p] EXCEPT !.secret = Oauth!Blank]])
  BY DEF OauthForm, Oauth!Values, Oauth!Blank
<1> DEFINE values == [p \in {"google"} |-> [answer.values[p] EXCEPT !.secret = Oauth!Blank]]
<1>2. Oauth!ApplyConfig(answer) = [ui EXCEPT !.providers = {"google"}, !.general = answer.general, !.values = values]
  BY DEF Oauth!ApplyConfig
<1> HIDE DEF values
<1>3. \A general : LET new == [ui EXCEPT !.providers = {"google"}, !.general = general, !.values = values]
                   IN DOMAIN new = DOMAIN ui /\ new.providers = {"google"} /\ new.values = values
  BY DEF OauthTyped
<1> QED BY <1>1, <1>2, <1>3 DEF values

LEMMA OauthUpdateKeeps ==
  ASSUME OauthTyped, NEW p \in {"google"}, NEW field \in {"id", "secret", "enabled"}, NEW value,
         field = "id" => value \in {"i", "j"}, field = "secret" => value \in {"s", Oauth!Blank},
         field = "enabled" => value \in BOOLEAN, Oauth!UpdateField(p, field, value)
  PROVE  OauthTyped'
<1>1. [ui.values[p] EXCEPT ![field] = value] \in Oauth!Values
  <2>1. ui.values[p] \in [id : {"i", "j"}, secret : {"s"} \cup {Oauth!Blank}, enabled : BOOLEAN]
    BY DEF OauthTyped, Oauth!Values
  <2>2. CASE field = "id"
    BY <2>1, <2>2 DEF Oauth!Values
  <2>3. CASE field = "secret"
    BY <2>1, <2>3 DEF Oauth!Values
  <2>4. CASE field = "enabled"
    BY <2>1, <2>4 DEF Oauth!Values
  <2> QED BY <2>2, <2>3, <2>4
<1> DEFINE new == [ui.values EXCEPT ![p] = [ui.values[p] EXCEPT ![field] = value]]
<1>2. new \in [{"google"} -> Oauth!Values]
  BY <1>1 DEF OauthTyped
<1>3. PICK results : ui' = [ui EXCEPT !.values = new, !.testResults = results]
  BY DEF Oauth!UpdateField, OauthTyped
<1>4. calls' = calls /\ db' = db
  BY DEF Oauth!UpdateField
<1> HIDE DEF new
<1> QED BY <1>2, <1>3, <1>4 DEF OauthTyped

LEMMA OauthSent ==
  ASSUME OauthTyped, NEW op \in {"save", "test"}, NEW provider, Oauth!Send(op, provider)
  PROVE  OauthTyped'
<1> DEFINE call == Oauth!Call(op, provider, Oauth!Serialize)
<1>1. /\ DOMAIN call = {"op", "provider", "sent", "handled", "ok", "answer", "verified", "of"}
      /\ call.op = op /\ call.sent = Oauth!Serialize /\ call.answer = Oauth!Defaults
  BY DEF Oauth!Call
<1>2. /\ DOMAIN Oauth!Serialize.values = ui.providers
      /\ \A p \in ui.providers : Oauth!Serialize.values[p] = ui.values[p]
  BY DEF Oauth!Serialize
<1>3. calls' = calls \cup {call} /\ ui' = [ui EXCEPT !.ops = @ + 1] /\ db' = db
  BY DEF Oauth!Send
<1> HIDE DEF call
<1>4. /\ DOMAIN ui' = DOMAIN ui /\ ui'.providers = ui.providers /\ ui'.values = ui.values
  BY <1>3 DEF OauthTyped
<1>5. \A p \in {"google"} \cap DOMAIN call.sent.values : call.sent.values[p] \in Oauth!Values
  BY <1>1, <1>2 DEF OauthTyped
<1> QED BY <1>1, <1>3, <1>4, <1>5, OauthDefaults DEF OauthTyped, OauthForm

(* A secret that is left blank is kept.                                      *)
LEMMA OauthStored ==
  ASSUME OauthTyped, NEW c \in calls
  PROVE  /\ DOMAIN Oauth!Stored(c.sent) = {"general", "values"}
         /\ OauthForm(Oauth!Stored(c.sent).values)
         /\ \A p \in {"google"} : \/ Oauth!Stored(c.sent).values[p].secret = db.values[p].secret
                                  \/ Oauth!Stored(c.sent).values[p].secret \in {"s"}
<1>1. ASSUME NEW sent \in Oauth!Values, NEW stored \in Oauth!Values
      PROVE  /\ Oauth!Kept(sent, stored) \in Oauth!Values
             /\ Oauth!Kept(sent, stored).secret \in {stored.secret, "s"}
  BY DEF Oauth!Kept, Oauth!Values, Oauth!Blank
<1> DEFINE new(p) == IF p \in DOMAIN c.sent.values THEN Oauth!Kept(c.sent.values[p], db.values[p]) ELSE db.values[p]
<1>2. ASSUME NEW p \in {"google"}
      PROVE  new(p) \in Oauth!Values /\ new(p).secret \in {db.values[p].secret, "s"}
  <2>1. db.values[p] \in Oauth!Values
    BY DEF OauthTyped
  <2>2. p \in DOMAIN c.sent.values => c.sent.values[p] \in Oauth!Values
    BY DEF OauthTyped
  <2> QED BY <2>1, <2>2, <1>1
<1>3. Oauth!Stored(c.sent) = [general |-> c.sent.general, values |-> [p \in {"google"} |-> new(p)]]
  BY DEF Oauth!Stored
<1> HIDE DEF new
<1> QED BY <1>2, <1>3 DEF OauthForm

LEMMA OauthHandled ==
  ASSUME OauthTyped, NEW c \in calls, Oauth!Handle(c)
  PROVE  OauthTyped' /\ Oauth!SecretsStay
<1>1. PICK ok \in BOOLEAN, done \in BOOLEAN :
        /\ db' = IF done /\ c.op = "save" THEN Oauth!Stored(c.sent) ELSE db
        /\ calls' = (calls \ {c}) \cup
             {[c EXCEPT !.handled = TRUE, !.sent = Oauth!Defaults, !.ok = ok,
                        !.verified = c.of \in {<<"i", "s">>}, !.answer = IF ok THEN db' ELSE Oauth!Defaults]}
  BY DEF Oauth!Handle
<1>2. /\ DOMAIN db' = {"general", "values"} /\ OauthForm(db'.values)
      /\ \A p \in {"google"} : db'.values[p].secret = db.values[p].secret \/ db'.values[p].secret \in {"s"}
  BY <1>1, OauthStored DEF OauthTyped, OauthForm
<1> DEFINE reply == IF ok THEN db' ELSE Oauth!Defaults
           answered == [c EXCEPT !.handled = TRUE, !.sent = Oauth!Defaults, !.ok = ok,
                                 !.verified = c.of \in {<<"i", "s">>}, !.answer = reply]
<1>3. calls' = (calls \ {c}) \cup {answered} /\ ui' = ui
  BY <1>1 DEF Oauth!Handle
<1>4. OauthForm(reply.values)
  BY <1>2, OauthDefaults
<1> HIDE DEF reply
<1>5. DOMAIN answered = DOMAIN c /\ answered.op = c.op /\ answered.sent = Oauth!Defaults /\ answered.answer = reply
  BY DEF OauthTyped
<1> HIDE DEF answered
<1>6. OauthTyped'
  BY <1>2, <1>3, <1>4, <1>5, OauthDefaults DEF OauthTyped, OauthForm
<1>7. Oauth!SecretsStay
  BY <1>2 DEF Oauth!SecretsStay
<1> QED BY <1>6, <1>7

LEMMA OauthArrived == ASSUME OauthTyped, NEW c \in calls, Oauth!Arrive(c) PROVE OauthTyped'
<1>1. calls' = calls \ {c} /\ db' = db
  BY DEF Oauth!Arrive
<1>2. OauthForm(c.answer.values)
  BY DEF OauthTyped, OauthForm
<1>3. /\ DOMAIN ui' = DOMAIN ui /\ ui'.providers \subseteq {"google"} /\ OauthForm(ui'.values)
  <2>1. CASE ~c.ok
    <3>1. ui' = ui
      BY <2>1 DEF Oauth!Arrive
    <3> QED BY <3>1 DEF OauthTyped, OauthForm
  <2>2. CASE c.ok /\ c.op = "load"
    BY <2>2, <1>2, OauthApplied DEF Oauth!Arrive
  <2>3. CASE c.ok /\ c.op = "save"
    <3> DEFINE applied == Oauth!ApplyConfig(c.answer)
    <3>1. PICK results : ui' = [applied EXCEPT !.testResults = results]
      BY <2>3 DEF Oauth!Arrive
    <3>2. DOMAIN applied = DOMAIN ui /\ applied.providers = {"google"} /\ OauthForm(applied.values)
      BY <1>2, OauthApplied
    <3> HIDE DEF applied
    <3> QED BY <3>1, <3>2
  <2>4. CASE c.ok /\ c.op = "test"
    <3>1. PICK results : ui' = [ui EXCEPT !.testResults = results]
      BY <2>4 DEF Oauth!Arrive, OauthTyped
    <3> QED BY <3>1 DEF OauthTyped, OauthForm
  <2> QED BY <2>1, <2>2, <2>3, <2>4 DEF OauthTyped
<1> QED BY <1>1, <1>3 DEF OauthTyped, OauthForm

LEMMA OauthStep == ASSUME OauthTyped, Oauth!Next PROVE OauthTyped' /\ Oauth!SecretsStay
<1>1. db' = db => Oauth!SecretsStay
  BY DEF Oauth!SecretsStay
<1>2. ASSUME NEW p \in {"google"}, NEW id \in {"i", "j"}, Oauth!UpdateField(p, "id", id)
      PROVE  OauthTyped' /\ Oauth!SecretsStay
  BY <1>1, <1>2, OauthUpdateKeeps DEF Oauth!UpdateField
<1>3. ASSUME NEW p \in {"google"}, NEW secret \in {"s"} \cup {Oauth!Blank}, Oauth!UpdateField(p, "secret", secret)
      PROVE  OauthTyped' /\ Oauth!SecretsStay
  BY <1>1, <1>3, OauthUpdateKeeps DEF Oauth!UpdateField
<1>4. ASSUME NEW p \in {"google"}, Oauth!ToggleProvider(p) PROVE OauthTyped' /\ Oauth!SecretsStay
  BY <1>1, <1>4, OauthUpdateKeeps DEF Oauth!UpdateField, Oauth!ToggleProvider
<1>5. ASSUME Oauth!ToggleGeneral PROVE OauthTyped' /\ Oauth!SecretsStay
  BY <1>1, <1>5 DEF Oauth!ToggleGeneral, OauthTyped
<1>6. ASSUME NEW op \in {"save", "test"}, NEW provider, Oauth!Send(op, provider) PROVE OauthTyped' /\ Oauth!SecretsStay
  BY <1>1, <1>6, OauthSent DEF Oauth!Send
<1>7. ASSUME NEW c \in calls, Oauth!Arrive(c) PROVE OauthTyped' /\ Oauth!SecretsStay
  BY <1>1, <1>7, OauthArrived DEF Oauth!Arrive
<1>8. Oauth!Save \/ (\E p \in {"google"} : Oauth!Test(p)) => \E op \in {"save", "test"} : \E provider : Oauth!Send(op, provider)
  BY DEF Oauth!Save, Oauth!Test
<1> QED BY <1>2, <1>3, <1>4, <1>5, <1>6, <1>7, <1>8, OauthHandled DEF Oauth!Next

LEMMA OauthInit == Oauth!Init => OauthTyped
<1> SUFFICES ASSUME Oauth!Init PROVE OauthTyped
  OBVIOUS
<1> DEFINE call == Oauth!Call("load", Oauth!Nobody, Oauth!Defaults)
<1>1. /\ DOMAIN call = {"op", "provider", "sent", "handled", "ok", "answer", "verified", "of"}
      /\ call.op = "load" /\ call.sent = Oauth!Defaults /\ call.answer = Oauth!Defaults
  BY DEF Oauth!Call
<1>2. calls = {call}
  BY DEF Oauth!Init
<1> HIDE DEF call
<1>3. db \in [general : BOOLEAN, values : [{"google"} -> Oauth!Values]]
  BY DEF Oauth!Init
<1>4. /\ DOMAIN ui = {"providers", "general", "values", "testResults", "ops"}
      /\ ui.providers = {} /\ ui.values = Oauth!Defaults.values
  BY DEF Oauth!Init
<1> QED BY <1>1, <1>2, <1>3, <1>4, OauthDefaults DEF OauthTyped, OauthForm

-----------------------------------------------------------------------------
(* The OAuth apps: the form that is open is of the app that is edited.       *)
AppsPage == {"apps", "form", "editing", "revealed", "grantsFor", "grants", "uploading", "dialog", "ops"}
DialogAsks(dialog) == DOMAIN dialog = {"kind", "app", "off", "busy"} /\ dialog.kind # "update"
FormOfItsApp ==
  /\ DOMAIN ui = AppsPage
  /\ DOMAIN ui.form = {"of", "open", "name", "scope", "logo"}
  /\ ui.form.of = ui.editing
  /\ DialogAsks(ui.dialog)
  /\ \A c \in calls :
       /\ DOMAIN c = {"op", "app", "sent", "handled", "ok", "answer", "grants"}
       /\ c.op = "update" => c.sent.of = c.app

LEMMA FormOfItsAppHandled ==
  ASSUME FormOfItsApp, NEW c \in calls, OauthApp!Handle(c)
  PROVE  FormOfItsApp'
<1>1. PICK done \in BOOLEAN, ok \in BOOLEAN, new \in Apps :
        /\ ok => done
        /\ c.op = "create" => new \notin DOMAIN db.apps
        /\ c.op # "create" => new = CHOOSE a \in Apps : TRUE
        /\ c.op \in {"create", "update"} /\ (c.sent.name = OauthApp!Blank \/ c.sent.scope = "missing") => ~done
        /\ LET next == IF done THEN OauthApp!Stored(c, new) ELSE db
               missed == IF c.op = "rotate" /\ done /\ ~ok THEN {c.app} ELSE {}
               answer == IF c.op \in {"load", "rotate"}
                         THEN [apps |-> next.apps, secrets |-> next.secrets] ELSE OauthApp!NoAnswer
           IN /\ db' = [next EXCEPT !.lost = @ \cup missed]
              /\ calls' = (calls \ {c}) \cup
                   {[c EXCEPT !.handled = TRUE, !.ok = ok, !.answer = answer,
                              !.sent = [OauthApp!NoForm EXCEPT !.of = c.sent.of],
                              !.app = IF c.op = "create" THEN new ELSE @,
                              !.grants = IF c.op = "grants" THEN next.grants[c.app] ELSE {}]}
  BY DEF OauthApp!Handle
<1> DEFINE next == IF done THEN OauthApp!Stored(c, new) ELSE db
           answer == IF c.op \in {"load", "rotate"}
                     THEN [apps |-> next.apps, secrets |-> next.secrets] ELSE OauthApp!NoAnswer
           answered == [c EXCEPT !.handled = TRUE, !.ok = ok, !.answer = answer,
                                 !.sent = [OauthApp!NoForm EXCEPT !.of = c.sent.of],
                                 !.app = IF c.op = "create" THEN new ELSE @,
                                 !.grants = IF c.op = "grants" THEN next.grants[c.app] ELSE {}]
<1>2. calls' = (calls \ {c}) \cup {answered} /\ ui' = ui
  BY <1>1 DEF OauthApp!Handle
<1>3. [OauthApp!NoForm EXCEPT !.of = c.sent.of].of = c.sent.of
  BY DEF OauthApp!NoForm
<1>4. /\ DOMAIN answered = DOMAIN c /\ answered.op = c.op /\ answered.sent.of = c.sent.of
      /\ c.op # "create" => answered.app = c.app
  BY <1>3 DEF FormOfItsApp
<1> HIDE DEF answered
<1> QED BY <1>2, <1>4 DEF FormOfItsApp

(* Every form is opened for the app that is edited, and sent for it.         *)
LEMMA FormOfItsAppStep == ASSUME FormOfItsApp, OauthApp!Next PROVE FormOfItsApp'
<1> USE DEF FormOfItsApp, AppsPage
<1>1. ASSUME NEW f \in {OauthApp!NoForm, [OauthApp!NoForm EXCEPT !.open = TRUE]}
      PROVE  DOMAIN f = {"of", "open", "name", "scope", "logo"} /\ f.of = OauthApp!None
  BY DEF OauthApp!NoForm
<1>2. ASSUME OauthApp!StartCreate \/ OauthApp!CancelForm PROVE FormOfItsApp'
  BY <1>2, <1>1 DEF OauthApp!StartCreate, OauthApp!CancelForm, OauthApp!Act
<1>3. ASSUME NEW app, OauthApp!StartEdit(app) PROVE FormOfItsApp'
  BY <1>3 DEF OauthApp!StartEdit, OauthApp!Act, OauthApp!FormOf
<1>4. ASSUME NEW new, DOMAIN new = DOMAIN ui, new.editing = ui.editing, DialogAsks(new.dialog),
             DOMAIN new.form = DOMAIN ui.form, new.form.of = ui.form.of, OauthApp!Act(new)
      PROVE  FormOfItsApp'
  BY <1>4 DEF OauthApp!Act
<1>41. ASSUME NEW name, OauthApp!SetField(name) PROVE FormOfItsApp'
  <2>1. OauthApp!Act([ui EXCEPT !.form.name = name])
    BY <1>41 DEF OauthApp!SetField
  <2> QED BY <2>1, <1>4
<1>42. ASSUME OauthApp!ToggleScope PROVE FormOfItsApp'
  <2>1. OauthApp!Act([ui EXCEPT !.form.scope = IF @ = "on" THEN "off" ELSE "on"])
    BY <1>42 DEF OauthApp!ToggleScope
  <2> QED BY <2>1, <1>4
<1>43. ASSUME OauthApp!RemoveLogo PROVE FormOfItsApp'
  <2>1. OauthApp!Act([ui EXCEPT !.form.logo = OauthApp!Blank])
    BY <1>43 DEF OauthApp!RemoveLogo
  <2> QED BY <2>1, <1>4
<1>44. ASSUME OauthApp!HideGrants \/ OauthApp!DismissSecret PROVE FormOfItsApp'
  BY <1>44 DEF OauthApp!HideGrants, OauthApp!DismissSecret, OauthApp!Act
<1>5. ASSUME OauthApp!Decline PROVE FormOfItsApp'
  BY <1>5 DEF OauthApp!Decline, OauthApp!NoDialog, OauthApp!None, DialogAsks
<1>51. ASSUME NEW kind \in {"rotate", "toggle"}, NEW app, OauthApp!OpenDialog(kind, app) PROVE FormOfItsApp'
  <2> DEFINE dialog == [kind |-> kind, app |-> app, off |-> kind = "toggle" /\ ui.apps[app].on, busy |-> FALSE]
  <2>1. OauthApp!Act([ui EXCEPT !.dialog = dialog])
    BY <1>51 DEF OauthApp!OpenDialog
  <2>2. DialogAsks(dialog)
    BY DEF DialogAsks
  <2> HIDE DEF dialog
  <2> QED BY <2>1, <2>2, <1>4
<1>6. ASSUME NEW op, NEW app, NEW sent, NEW new, OauthApp!Send(op, app, sent, new),
             DOMAIN new = DOMAIN ui, new.form = ui.form, new.editing = ui.editing, DialogAsks(new.dialog),
             op = "update" => sent.of = app
      PROVE  FormOfItsApp'
  <2>1. /\ DOMAIN OauthApp!Call(op, app, sent) = {"op", "app", "sent", "handled", "ok", "answer", "grants"}
        /\ OauthApp!Call(op, app, sent).op = op /\ OauthApp!Call(op, app, sent).app = app
        /\ OauthApp!Call(op, app, sent).sent = sent
    BY DEF OauthApp!Call
  <2>2. calls' = calls \cup {OauthApp!Call(op, app, sent)} /\ ui' = [new EXCEPT !.ops = @ + 1]
    BY <1>6 DEF OauthApp!Send
  <2>3. DOMAIN ui' = DOMAIN ui /\ ui'.form = ui.form /\ ui'.editing = ui.editing /\ ui'.dialog = new.dialog
    BY <2>2, <1>6
  <2> QED BY <1>6, <2>1, <2>2, <2>3
<1>7. ASSUME OauthApp!UploadLogo PROVE FormOfItsApp'
  <2>1. OauthApp!Send("upload", OauthApp!None, OauthApp!NoForm, [ui EXCEPT !.uploading = TRUE])
    BY <1>7 DEF OauthApp!UploadLogo
  <2> QED BY <1>6, <2>1
<1>8. ASSUME OauthApp!Save PROVE FormOfItsApp'
  <2>1. OauthApp!Send(IF ui.editing = OauthApp!None THEN "create" ELSE "update", ui.editing, ui.form, ui)
    BY <1>8 DEF OauthApp!Save
  <2> QED BY <1>6, <2>1
<1>9. ASSUME NEW app, OauthApp!ShowGrants(app) PROVE FormOfItsApp'
  <2> DEFINE new == [ui EXCEPT !.grantsFor = app, !.grants = {}]
  <2>1. OauthApp!Send("grants", app, OauthApp!NoForm, new)
    BY <1>9 DEF OauthApp!ShowGrants
  <2>2. DOMAIN new = DOMAIN ui /\ new.form = ui.form /\ new.editing = ui.editing /\ new.dialog = ui.dialog
    OBVIOUS
  <2> HIDE DEF new
  <2> QED BY <1>6, <2>1, <2>2
<1>10. ASSUME NEW g, OauthApp!RevokeGrant(g) PROVE FormOfItsApp'
  <2>1. OauthApp!Send("revoke", g, OauthApp!NoForm, ui)
    BY <1>10 DEF OauthApp!RevokeGrant
  <2> QED BY <1>6, <2>1
<1>11. ASSUME OauthApp!ConfirmDialog PROVE FormOfItsApp'
  <2>1. PICK op, app, sent : op = ui.dialog.kind /\ OauthApp!Send(op, app, sent, [ui EXCEPT !.dialog.busy = TRUE])
    BY <1>11 DEF OauthApp!ConfirmDialog
  <2>2. ui.dialog.kind # "update" /\ DialogAsks([ui EXCEPT !.dialog.busy = TRUE].dialog)
    BY DEF DialogAsks
  <2> QED BY <1>6, <2>1, <2>2
<1>12. ASSUME NEW c \in calls, OauthApp!Handle(c) PROVE FormOfItsApp'
  BY <1>12, FormOfItsAppHandled
<1>13. ASSUME NEW c \in calls, OauthApp!Arrive(c) PROVE FormOfItsApp'
  <2>0. DialogAsks(OauthApp!NoDialog)
    BY DEF DialogAsks, OauthApp!NoDialog, OauthApp!None
  <2>1. CASE ~c.ok
    <3>1. /\ calls' = calls \ {c}
          /\ \/ ui' = ui
             \/ ui' = [ui EXCEPT !.uploading = FALSE]
             \/ ui' = [ui EXCEPT !.dialog = OauthApp!NoDialog]
      BY <2>1, <1>13 DEF OauthApp!Arrive
    <3>2. /\ DOMAIN ui' = DOMAIN ui /\ ui'.form = ui.form /\ ui'.editing = ui.editing
          /\ DialogAsks(ui'.dialog)
      BY <3>1, <2>0
    <3> QED BY <3>1, <3>2
  <2>2. CASE c.ok /\ c.op \in {"update", "create", "toggle"}
    <3>1. calls' = (calls \ {c}) \cup {OauthApp!Call("load", c.op, OauthApp!NoForm)}
      BY <2>2, <1>13 DEF OauthApp!Arrive, OauthApp!Reload
    <3>2. /\ DOMAIN OauthApp!Call("load", c.op, OauthApp!NoForm) = DOMAIN c
          /\ OauthApp!Call("load", c.op, OauthApp!NoForm).op = "load"
      BY DEF OauthApp!Call
    <3>3. \/ ui' = ui
          \/ ui' = [ui EXCEPT !.form = OauthApp!NoForm, !.editing = OauthApp!None]
          \/ \E revealed : ui' = [[ui EXCEPT !.form = OauthApp!NoForm, !.editing = OauthApp!None]
                                    EXCEPT !.revealed = revealed]
      BY <2>2, <1>13 DEF OauthApp!Arrive, OauthApp!Reload
    <3>4. /\ DOMAIN ui' = DOMAIN ui /\ ui'.dialog = ui.dialog
          /\ \/ ui'.form = ui.form /\ ui'.editing = ui.editing
             \/ ui'.form = OauthApp!NoForm /\ ui'.editing = OauthApp!None
      BY <3>3
    <3>5. DOMAIN ui'.form = {"of", "open", "name", "scope", "logo"} /\ ui'.form.of = ui'.editing
      BY <3>4, <1>1
    <3> QED BY <3>1, <3>2, <3>4, <3>5
  <2>3. CASE c.ok /\ c.op \in {"load", "upload", "rotate", "grants", "revoke"}
    <3>1. calls' = calls \ {c}
      BY <2>3, <1>13 DEF OauthApp!Arrive
    <3> DEFINE form == [ui.form EXCEPT !.logo = "logo", !.open = TRUE,
                                       !.scope = IF ui.form.open THEN ui.form.scope ELSE "missing"]
    <3>2. CASE c.op = "upload"
      <4>1. ui' = [ui EXCEPT !.uploading = FALSE, !.form = form]
        BY <2>3, <3>2, <1>13 DEF OauthApp!Arrive
      <4>2. DOMAIN form = DOMAIN ui.form /\ form.of = ui.form.of
        OBVIOUS
      <4> HIDE DEF form
      <4> QED BY <4>1, <4>2, <3>1
    <3>3. CASE c.op # "upload"
      <4>1. \/ \E apps : \/ ui' = [ui EXCEPT !.apps = apps, !.dialog = OauthApp!NoDialog]
                         \/ ui' = [ui EXCEPT !.apps = apps, !.dialog = @]
            \/ \E revealed : ui' = [ui EXCEPT !.dialog = OauthApp!NoDialog, !.revealed = revealed]
            \/ \E grants : ui' = [ui EXCEPT !.grants = grants]
        BY <2>3, <3>3, <1>13 DEF OauthApp!Arrive
      <4>2. /\ DOMAIN ui' = DOMAIN ui /\ ui'.form = ui.form /\ ui'.editing = ui.editing
            /\ DialogAsks(ui'.dialog)
        BY <4>1, <2>0
      <4> QED BY <4>2, <3>1
    <3> QED BY <3>2, <3>3
  <2> QED BY <2>1, <2>2, <2>3, <1>13 DEF OauthApp!Arrive
<1> QED
  BY <1>2, <1>3, <1>41, <1>42, <1>43, <1>44, <1>5, <1>51, <1>7, <1>8, <1>9, <1>10, <1>11, <1>12, <1>13 DEF OauthApp!Next

LEMMA FormOfItsAppInit == OauthApp!Init => FormOfItsApp
BY DEF OauthApp!Init, OauthApp!Call, OauthApp!NoForm, OauthApp!NoDialog, OauthApp!None, FormOfItsApp, AppsPage, DialogAsks

-----------------------------------------------------------------------------
(* The socket settings: the page shows settings and what is stored of one    *)
(* answer, saves come one at a time, and one that was not confirmed would    *)
(* not start to enforce what was shown.                                      *)
Stored3 == Socket!SettingsSets({"true", "false", Socket!Null})
SocketTyped ==
  /\ DOMAIN ui = DOMAIN Socket!NewPage
  /\ ui.enabled \in {"true", "false"} /\ ui.mode \in {"log", "enforce"}
  /\ ui.tests = 0
  /\ DOMAIN db = {"stored", "env"} /\ db.stored \in Stored3 /\ db.env \in Socket!SettingsSets({"true", "false"})
  /\ \A c \in calls :
       /\ DOMAIN c = {"op", "sent", "confirmed", "shown", "handled", "ok", "answer"}
       /\ c.op \in {"load", "save"} /\ c.sent \in Stored3
MayEnforce(payload, settings) ==
  /\ payload.enabled # "false"
  /\ IF payload.mode = "enforce"
     THEN ~(settings.enabled = "true" /\ settings.mode = "enforce")
     ELSE payload.mode = Socket!Null /\ payload.enabled = "true" /\ settings.enabled # "true"
SocketInv ==
  /\ SocketTyped
  /\ ui.dialog => calls = {}
  /\ ui.ready => ui.settings = Socket!Effective(ui.shown, db.env)
  /\ \A c, d \in calls : c.op = "save" /\ d.op = "save" => c = d
  /\ \A c \in calls :
       /\ c.handled => c.sent = Socket!Nothing
       /\ c.handled /\ c.ok => /\ c.answer.stored \in Stored3
                               /\ c.answer.settings = Socket!Effective(c.answer.stored, db.env)
       /\ c.op = "save" /\ ~c.handled /\ ~c.confirmed => ~MayEnforce(c.sent, Socket!Effective(c.shown, db.env))

LEMMA SocketConstants ==
  /\ Socket!Null = "null" /\ Socket!Nothing \in Stored3
  /\ Socket!Nothing = [enabled |-> "null", mode |-> "null"]
  /\ Stored3 = [enabled : {"true", "false", "null"}, mode : {"log", "enforce", "null"}]
  /\ \A s, env : Socket!Effective(s, env).enabled = IF s.enabled = "null" THEN env.enabled ELSE s.enabled
  /\ \A s, env : Socket!Effective(s, env).mode = IF s.mode = "null" THEN env.mode ELSE s.mode
BY DEF Socket!Null, Socket!Nothing, Stored3, Socket!SettingsSets, Socket!Effective, Socket!Or

LEMMA SocketPage ==
  /\ DOMAIN Socket!NewPage = {"settings", "shown", "inherits", "enabled", "mode", "ready", "dialog", "ops", "tests",
                              "on", "channel", "open", "isLoading"}
  /\ Socket!NewPage.enabled = "false" /\ Socket!NewPage.mode = "log" /\ Socket!NewPage.tests = 0
  /\ Socket!NewPage.dialog = FALSE /\ Socket!NewPage.ready = FALSE
BY DEF Socket!NewPage

(* What a form sends is a setting, or left to the environment.               *)
LEMMA SocketPayload == ASSUME SocketTyped PROVE Socket!Payload \in Stored3
BY SocketConstants DEF SocketTyped, Socket!Payload

(* A save that is not confirmed does not enforce what did not.               *)
LEMMA SaveEnforcesNot ==
  ASSUME NEW env \in Socket!SettingsSets({"true", "false"}), NEW stored \in Stored3, NEW sent \in Stored3,
         ~MayEnforce(sent, Socket!Effective(stored, env)),
         ~Socket!Enforces(stored, env), Socket!Enforces(sent, env)
  PROVE  ~ \/ sent.mode = "enforce"
           \/ sent.enabled = "true" /\ Socket!Effective(stored, env).enabled = "false"
<1>1. /\ env.enabled \in {"true", "false", "null"} /\ env.mode \in {"log", "enforce", "null"}
      /\ stored.enabled \in {"true", "false", "null"} /\ stored.mode \in {"log", "enforce", "null"}
      /\ sent.enabled \in {"true", "false", "null"} /\ sent.mode \in {"log", "enforce", "null"}
  BY SocketConstants DEF Socket!SettingsSets
<1> DEFINE enforces(s) == LET e == Socket!Effective(s, env)
                          IN e.enabled = "true" /\ (e.mode = "null" \/ e.mode = "enforce")
<1>2. \A s : Socket!Enforces(s, env) <=> enforces(s)
  BY SocketConstants DEF Socket!Enforces, Socket!Or
<1>3. ~enforces(stored) /\ enforces(sent)
  BY <1>2
<1> QED BY <1>1, <1>3, SocketConstants DEF MayEnforce

LEMMA SocketPerform ==
  ASSUME SocketInv, NEW confirmed \in BOOLEAN, calls = {},
         ~confirmed => ~Socket!EntersEnforce(Socket!Payload) /\ ui.ready,
         Socket!Perform(Socket!Payload, confirmed)
  PROVE  SocketInv'
<1> DEFINE call == Socket!Call("save", Socket!Payload, confirmed, ui.shown)
<1>1. /\ DOMAIN call = {"op", "sent", "confirmed", "shown", "handled", "ok", "answer"}
      /\ call.op = "save" /\ call.sent = Socket!Payload /\ call.confirmed = confirmed /\ call.shown = ui.shown
      /\ ~call.handled
  BY DEF Socket!Call
<1>2. calls' = {call} /\ db' = db
  BY DEF Socket!Perform
<1> HIDE DEF call
<1>3. /\ DOMAIN ui' = DOMAIN ui /\ ui'.dialog = FALSE
      /\ \A f \in DOMAIN ui \ {"ops", "dialog"} : ui'[f] = ui[f]
  <2>1. ui' = [ui EXCEPT !.ops = @ + 1, !.dialog = FALSE]
    BY DEF Socket!Perform
  <2>2. "ops" \in DOMAIN ui /\ "dialog" \in DOMAIN ui
    BY SocketPage DEF SocketInv, SocketTyped
  <2> QED BY <2>1, <2>2
<1>4. SocketTyped'
  BY <1>1, <1>2, <1>3, SocketPage, SocketPayload DEF SocketInv, SocketTyped
<1>5. ui'.ready => ui'.settings = Socket!Effective(ui'.shown, db'.env)
  BY <1>2, <1>3, SocketPage DEF SocketInv, SocketTyped
<1>6. ~confirmed => ~MayEnforce(Socket!Payload, Socket!Effective(ui.shown, db.env))
  BY DEF SocketInv, MayEnforce, Socket!EntersEnforce
<1> QED BY <1>1, <1>2, <1>3, <1>4, <1>5, <1>6 DEF SocketInv

(* Steps of the page alone.                                                  *)
LEMMA SocketEdits ==
  ASSUME SocketInv, calls' = calls, db' = db, DOMAIN ui' = DOMAIN ui,
         ui'.enabled \in {"true", "false"}, ui'.mode \in {"log", "enforce"}, ui'.tests = ui.tests,
         ui'.dialog => calls = {},
         ui'.ready => ui.ready /\ ui'.settings = ui.settings /\ ui'.shown = ui.shown
  PROVE  SocketInv'
BY DEF SocketInv, SocketTyped

LEMMA SocketHandled ==
  ASSUME SocketInv, NEW c \in calls, Socket!Handle(c)
  PROVE  SocketInv' /\ Socket!ChosenEnforceIsConfirmed
<1>1. PICK ok \in BOOLEAN, done \in BOOLEAN :
        LET stored == IF done /\ c.op = "save" THEN c.sent ELSE db.stored
        IN /\ ok => done
           /\ db' = [db EXCEPT !.stored = stored]
           /\ calls' = (calls \ {c}) \cup
                {[Socket!Call(c.op, Socket!Nothing, FALSE, Socket!Nothing) EXCEPT
                           !.handled = TRUE, !.ok = ok,
                           !.answer = IF ok THEN [settings |-> Socket!Effective(stored, db.env), stored |-> stored]
                                      ELSE Socket!NoAnswer]}
  BY DEF Socket!Handle
<1> DEFINE stored == IF done /\ c.op = "save" THEN c.sent ELSE db.stored
           reply == IF ok THEN [settings |-> Socket!Effective(stored, db.env), stored |-> stored]
                    ELSE Socket!NoAnswer
           answered == [Socket!Call(c.op, Socket!Nothing, FALSE, Socket!Nothing) EXCEPT
                          !.handled = TRUE, !.ok = ok, !.answer = reply]
<1>2. db' = [db EXCEPT !.stored = stored] /\ calls' = (calls \ {c}) \cup {answered} /\ ui' = ui /\ ~c.handled
  BY <1>1 DEF Socket!Handle
<1>3. stored \in Stored3
  BY DEF SocketInv, SocketTyped
<1>4. ok => reply.stored = stored /\ reply.settings = Socket!Effective(stored, db.env)
  OBVIOUS
<1>5. /\ DOMAIN answered = {"op", "sent", "confirmed", "shown", "handled", "ok", "answer"}
      /\ answered.op = c.op /\ answered.sent = Socket!Nothing /\ answered.handled /\ answered.ok = ok
      /\ answered.answer = reply
  BY DEF Socket!Call
<1>6. db'.stored = stored /\ db'.env = db.env /\ DOMAIN db' = DOMAIN db
  BY <1>2 DEF SocketInv, SocketTyped
<1>7. stored = db.stored \/ (c.op = "save" /\ stored = c.sent)
  OBVIOUS
<1> HIDE DEF answered, reply, stored
<1>8. SocketTyped'
  BY <1>2, <1>3, <1>5, <1>6, SocketConstants DEF SocketInv, SocketTyped
<1>9. SocketInv'
  BY <1>2, <1>3, <1>4, <1>5, <1>6, <1>8 DEF SocketInv
<1>10. ASSUME NEW d \in calls, Socket!StartsEnforcing(d),
              \/ d.sent.mode = "enforce"
              \/ d.sent.enabled = "true" /\ Socket!Effective(db.stored, db.env).enabled = "false"
       PROVE  d.confirmed
  <2>1. c.op = "save" /\ stored = c.sent
    BY <1>6, <1>7, <1>10 DEF Socket!StartsEnforcing
  <2>2. d = c
    BY <2>1, <1>10 DEF Socket!StartsEnforcing, SocketInv
  <2>3. /\ c.shown = db.stored /\ ~Socket!Enforces(db.stored, db.env) /\ Socket!Enforces(c.sent, db.env)
    BY <1>6, <1>10, <2>1, <2>2 DEF Socket!StartsEnforcing
  <2>4. MayEnforce(c.sent, Socket!Effective(db.stored, db.env))
    BY <1>10, <2>2, <2>3, SaveEnforcesNot DEF SocketInv, SocketTyped
  <2> QED BY <1>2, <2>1, <2>2, <2>3, <2>4 DEF SocketInv
<1> QED BY <1>9, <1>10 DEF Socket!ChosenEnforceIsConfirmed

LEMMA SocketArrived == ASSUME SocketInv, NEW c \in calls, Socket!Arrive(c) PROVE SocketInv'
<1>1. c.handled /\ calls' = calls \ {c} /\ db' = db
  BY DEF Socket!Arrive
<1>2. CASE ui' = ui
  BY <1>1, <1>2 DEF SocketInv, SocketTyped
<1>3. CASE c.ok /\ ui' = [Socket!Apply(c.answer) EXCEPT !.ready = TRUE]
  <2>1. c.answer.stored \in Stored3 /\ c.answer.settings = Socket!Effective(c.answer.stored, db.env)
    BY <1>1, <1>3 DEF SocketInv
  <2>2. /\ DOMAIN ui' = DOMAIN ui /\ ui'.settings = c.answer.settings /\ ui'.shown = c.answer.stored
        /\ ui'.enabled = c.answer.settings.enabled /\ ui'.mode = Socket!Or(c.answer.settings.mode, "log")
        /\ ui'.dialog = ui.dialog /\ ui'.tests = ui.tests
    BY <1>3, SocketPage DEF Socket!Apply, SocketInv, SocketTyped
  <2>3. ui'.enabled \in {"true", "false"} /\ ui'.mode \in {"log", "enforce"}
    BY <2>1, <2>2, SocketConstants DEF SocketInv, SocketTyped, Socket!SettingsSets, Socket!Or
  <2> QED BY <1>1, <2>1, <2>2, <2>3 DEF SocketInv, SocketTyped
<1> QED BY <1>2, <1>3 DEF Socket!Arrive

LEMMA SocketStep == ASSUME SocketInv, Socket!Next PROVE SocketInv' /\ Socket!ChosenEnforceIsConfirmed
<1>0. db' = db => Socket!ChosenEnforceIsConfirmed
  BY DEF Socket!ChosenEnforceIsConfirmed, Socket!StartsEnforcing
<1>a. Socket!IsBusy <=> calls # {}
  BY DEF Socket!IsBusy, Socket!Running, SocketInv, SocketTyped
<1>b. DOMAIN ui = DOMAIN Socket!NewPage
  BY DEF SocketInv, SocketTyped
<1>1. ASSUME Socket!Save PROVE SocketInv' /\ db' = db
  <2>1. calls = {} /\ ui.ready
    BY <1>1, <1>a DEF Socket!Save, Socket!MayEdit
  <2>2. CASE Socket!EntersEnforce(Socket!Payload)
    <3>1. ui' = [ui EXCEPT !.dialog = TRUE] /\ calls' = calls /\ db' = db
      BY <1>1, <2>2 DEF Socket!Save
    <3> QED BY <3>1, <2>1, SocketEdits, SocketPage DEF SocketInv, SocketTyped
  <2>3. CASE ~Socket!EntersEnforce(Socket!Payload)
    <3>1. Socket!Perform(Socket!Payload, FALSE)
      BY <1>1, <2>3 DEF Socket!Save
    <3> QED BY <3>1, <2>1, <2>3, SocketPerform DEF Socket!Perform
  <2> QED BY <2>2, <2>3
<1>2. ASSUME Socket!Confirm PROVE SocketInv' /\ db' = db
  <2>1. calls = {} /\ Socket!Perform(Socket!Payload, TRUE)
    BY <1>2 DEF Socket!Confirm, SocketInv
  <2> QED BY <2>1, SocketPerform DEF Socket!Perform
<1>3. ASSUME Socket!Decline PROVE SocketInv' /\ db' = db
  <2>1. ui' = [ui EXCEPT !.dialog = FALSE] /\ calls' = calls /\ db' = db
    BY <1>3 DEF Socket!Decline
  <2> QED BY <2>1, SocketEdits, SocketPage DEF SocketInv, SocketTyped
<1>4. ASSUME Socket!Refresh PROVE SocketInv' /\ db' = db
  <2> DEFINE call == Socket!Call("load", Socket!Nothing, FALSE, Socket!Nothing)
  <2>1. /\ calls' = calls \cup {call} /\ ui' = [ui EXCEPT !.ops = @ + 1] /\ db' = db /\ ~ui.dialog
    BY <1>4 DEF Socket!Refresh, Socket!MayEdit
  <2>2. /\ DOMAIN call = {"op", "sent", "confirmed", "shown", "handled", "ok", "answer"}
        /\ call.op = "load" /\ call.sent = Socket!Nothing /\ ~call.handled
    BY DEF Socket!Call
  <2> HIDE DEF call
  <2>3. DOMAIN ui' = DOMAIN ui /\ \A f \in DOMAIN ui \ {"ops"} : ui'[f] = ui[f]
    BY <2>1 DEF SocketInv, SocketTyped
  <2>4. SocketTyped'
    BY <2>1, <2>2, <2>3, SocketConstants, SocketPage DEF SocketInv, SocketTyped
  <2> QED BY <2>1, <2>2, <2>3, <2>4, <1>b, SocketPage DEF SocketInv
<1>5. ASSUME NEW field, Socket!ToggleInherit(field) PROVE SocketInv' /\ db' = db
  <2>1. PICK inherits : ui' = [ui EXCEPT !.inherits = inherits] /\ calls' = calls /\ db' = db
    BY <1>5 DEF Socket!ToggleInherit
  <2> QED BY <2>1, SocketEdits, SocketPage DEF SocketInv, SocketTyped
<1>6. ASSUME NEW enabled \in {"true", "false"}, Socket!ToggleEnabled(enabled) PROVE SocketInv' /\ db' = db
  <2>1. ui' = [ui EXCEPT !.enabled = enabled] /\ calls' = calls /\ db' = db
    BY <1>6 DEF Socket!ToggleEnabled
  <2> QED BY <2>1, SocketEdits, SocketPage DEF SocketInv, SocketTyped
<1>7. ASSUME NEW mode \in {"log", "enforce"}, Socket!SetMode(mode) PROVE SocketInv' /\ db' = db
  <2>1. ui' = [ui EXCEPT !.mode = mode] /\ calls' = calls /\ db' = db
    BY <1>7 DEF Socket!SetMode
  <2> QED BY <2>1, SocketEdits, SocketPage DEF SocketInv, SocketTyped
<1>8. ASSUME Socket!RouteWillChange PROVE SocketInv' /\ db' = db
  <2>1. /\ DOMAIN ui' = DOMAIN Socket!NewPage /\ ui'.enabled = "false" /\ ui'.mode = "log" /\ ui'.tests = 0
        /\ ui'.dialog = FALSE /\ ui'.ready = FALSE /\ calls' = calls /\ db' = db
    BY <1>8, SocketPage DEF Socket!RouteWillChange
  <2> QED BY <2>1, SocketEdits DEF SocketInv, SocketTyped
<1>9. ~Socket!TestSocketConnection /\ \A c \in calls : ~Socket!TestAnswered(c)
  BY DEF Socket!TestSocketConnection, Socket!TestAnswered, SocketInv, SocketTyped
<1>10. ASSUME NEW c \in calls, Socket!Arrive(c) PROVE SocketInv' /\ db' = db
  BY <1>10, SocketArrived DEF Socket!Arrive
<1> QED BY <1>0, <1>1, <1>2, <1>3, <1>4, <1>5, <1>6, <1>7, <1>8, <1>9, <1>10, SocketHandled DEF Socket!Next

LEMMA SocketInit == Socket!Init => SocketInv
<1> SUFFICES ASSUME Socket!Init PROVE SocketInv
  OBVIOUS
<1> DEFINE call == Socket!Call("load", Socket!Nothing, FALSE, Socket!Nothing)
<1>1. /\ DOMAIN call = {"op", "sent", "confirmed", "shown", "handled", "ok", "answer"}
      /\ call.op = "load" /\ call.sent = Socket!Nothing /\ ~call.handled
  BY DEF Socket!Call
<1>2. calls = {call} /\ ui = Socket!NewPage
  BY DEF Socket!Init
<1> HIDE DEF call
<1>3. /\ DOMAIN db = {"stored", "env"} /\ db.stored \in Stored3 /\ db.env \in Socket!SettingsSets({"true", "false"})
  BY DEF Socket!Init, Stored3
<1> QED BY <1>1, <1>2, <1>3, SocketPage, SocketConstants DEF SocketInv, SocketTyped

-----------------------------------------------------------------------------
EditsIInv ==
  /\ part = "forms" => FormsEdited
  /\ part = "oauth" => OauthTyped
  /\ part = "oauth-apps" => FormOfItsApp
  /\ part = "socket" => SocketInv

LEMMA EditsIInvInit == Init => EditsIInv
BY FormsInit, EditsInit, OauthInit, FormOfItsAppInit, SocketInit DEF Init, EditsIInv, FormsEdited

LEMMA FormsEditedStep == ASSUME FormsEdited, Forms!Next PROVE FormsEdited'
BY FormsHandleKeeps, FormsArriveKeeps, FormsEditKeeps, SendKeeps, EditsSent, EditsHandled, EditsArrived, EditsEdited
DEF Forms!Next, FormsEdited

LEMMA EditsStand ==
  ASSUME UNCHANGED screenVars
  PROVE  /\ FormsEdited => FormsEdited'
         /\ OauthTyped => OauthTyped'
         /\ FormOfItsApp => FormOfItsApp'
         /\ SocketInv => SocketInv'
<1>1. FormsEdited => FormsEdited'
  BY DEF screenVars, FormsEdited, FormsInv, FormsTyped, OneAtATime, Matches, EditsInv, EditsTyped, FirstSave, SentAsLoaded
<1>2. OauthTyped => OauthTyped'
  BY DEF screenVars, OauthTyped
<1>3. FormOfItsApp => FormOfItsApp'
  BY DEF screenVars, FormOfItsApp
<1>4. SocketInv => SocketInv'
  BY DEF screenVars, SocketInv, SocketTyped
<1> QED BY <1>1, <1>2, <1>3, <1>4

LEMMA EditsIInvStep == EditsIInv /\ [Next]_vars => EditsIInv'
<1> SUFFICES ASSUME EditsIInv, [Next]_vars PROVE EditsIInv'
  OBVIOUS
<1>1. /\ part' = part
      /\ part = "forms" => Forms!Next \/ UNCHANGED screenVars
      /\ part = "oauth" => Oauth!Next \/ UNCHANGED screenVars
      /\ part = "oauth-apps" => OauthApp!Next \/ UNCHANGED screenVars
      /\ part = "socket" => Socket!Next \/ UNCHANGED screenVars
  BY DEF Next, NextOnScreen, NextOfBuild, vars
<1> QED BY <1>1, EditsStand, FormsEditedStep, OauthStep, FormOfItsAppStep, SocketStep DEF EditsIInv

(* Saving changes what was edited and nothing else, whatever loads, saves    *)
(* and uploads overlap, fail or are answered late: a form that was not       *)
(* edited changes no setting it sends, a blank box does not take the place   *)
(* of a secret, an app's form is saved for no other app, and no save starts  *)
(* enforcing by what was chosen or switched on without being confirmed       *)
(* (SettingsForms' screens, configure/oauth.js, configure/oauth-apps.js,     *)
(* configure/socket.js).                                                     *)
THEOREM EditsAloneAreStored == Spec => OnlyEditsAreStored
<1> DEFINE Stored == /\ part = "forms" => Forms!UntouchedStays'
                     /\ part = "oauth" => Oauth!SecretsStay
                     /\ part = "socket" => Socket!ChosenEnforceIsConfirmed
                     /\ part = "oauth-apps" => OauthApp!UpdatesStayWithTheirApp'
<1>1. Init => EditsIInv
  BY EditsIInvInit
<1>2. EditsIInv /\ [Next]_vars => EditsIInv'
  BY EditsIInvStep
<1>3. EditsIInv /\ EditsIInv' /\ [Next]_vars => [Stored]_vars
  <2> SUFFICES ASSUME EditsIInv, EditsIInv', Next PROVE Stored
    OBVIOUS
  <2>1. /\ part' = part
        /\ part = "oauth" => Oauth!Next
        /\ part = "socket" => Socket!Next
    BY DEF Next, NextOnScreen, NextOfBuild
  <2>2. FormsEdited' => Forms!UntouchedStays'
    BY EditsAreSaved, PTL
  <2>3. FormOfItsApp' => OauthApp!UpdatesStayWithTheirApp'
    BY DEF FormOfItsApp, OauthApp!UpdatesStayWithTheirApp
  <2> QED BY <2>1, <2>2, <2>3, OauthStep, SocketStep DEF EditsIInv
<1> QED BY <1>1, <1>2, <1>3, PTL DEF Spec, OnlyEditsAreStored
=============================================================================
