---------------------------- MODULE OauthSettings ----------------------------
(***************************************************************************)
(* Admin > Configure > OAuth (components/configure/oauth.js): the switches  *)
(* of sign-in with a provider, each provider's credentials and whether it   *)
(* is offered.  A secret is never sent to the browser: its box holds what   *)
(* was typed, and a blank one keeps the stored secret.  A provider can be   *)
(* switched on once it has accepted the credentials in a check.             *)
(***************************************************************************)
EXTENDS Naturals

CONSTANTS
    Providers,
    Ids, Secrets,
    Accepted,   \* the pairs of an id and a secret that providers accept
    MaxOps      \* how many requests are sent

VARIABLES
    ui,     \* the form, and the check results with what they are about
    calls,  \* requests under way: what was sent, whether handled, the answer
    db      \* what the API has stored

vars == <<ui, calls, db>>

Blank == ""
Values == [id : Ids, secret : Secrets \cup {Blank}, enabled : BOOLEAN]
NoResult == [verified |-> FALSE, of |-> <<>>]

(* The values sent as they are read with what is stored. *)
Kept(sent, stored) == [sent EXCEPT !.secret = IF @ = Blank THEN stored.secret ELSE @]
Credentials(sent, stored) == LET v == Kept(sent, stored) IN <<v.id, v.secret>>

(* applyConfig: the form of an answer, its secrets blank. *)
ApplyConfig(answer) ==
    [ui EXCEPT !.providers = Providers, !.general = answer.general,
               !.values = [p \in Providers |-> [answer.values[p] EXCEPT !.secret = Blank]]]

-----------------------------------------------------------------------------
Running(op) == \E c \in calls : c.op = op
Nobody == "nobody"
Defaults ==
    [general |-> TRUE,
     values |-> [p \in Providers |-> [id |-> CHOOSE i \in Ids : TRUE, secret |-> Blank, enabled |-> FALSE]]]

Call(op, provider, sent) ==
    [op |-> op, provider |-> provider, sent |-> sent, handled |-> FALSE, ok |-> FALSE, answer |-> Defaults,
     verified |-> FALSE, of |-> IF op = "test" THEN Credentials(sent.values[provider], db.values[provider]) ELSE <<>>]

Init ==
    /\ db \in [general : BOOLEAN, values : [Providers -> Values]]
    /\ \A p \in Providers : db.values[p].enabled =>
           Credentials(db.values[p], db.values[p]) \in Accepted
    /\ ui = [providers |-> {}, general |-> TRUE, values |-> Defaults.values,
             testResults |-> [p \in Providers |-> NoResult], ops |-> 0]
    /\ calls = {Call("load", Nobody, Defaults)}

UpdateField(p, field, value) ==
    /\ p \in ui.providers /\ ui.values[p][field] # value
    /\ ui' = [ui EXCEPT !.values[p][field] = value,
                        !.testResults[p] = IF field # "enabled" THEN NoResult ELSE @]
    /\ UNCHANGED <<calls, db>>

CanToggleProvider(p) == ui.values[p].enabled \/ ui.testResults[p].verified

ToggleProvider(p) == CanToggleProvider(p) /\ UpdateField(p, "enabled", ~ui.values[p].enabled)

(* enabled, allowRegistration and autoLink, of which one stands for all. *)
ToggleGeneral ==
    /\ ui' = [ui EXCEPT !.general = ~@]
    /\ UNCHANGED <<calls, db>>

(* Mutant: a blank secret is sent, marked as one to be stored. *)
Serialize_BlanksSent ==
    [general |-> ui.general,
     values |-> [p \in ui.providers |-> [ui.values[p] EXCEPT !.secret = IF @ = Blank THEN "blank" ELSE @]]]

(* What is sent: a blank secret is left out. *)
Serialize == [general |-> ui.general, values |-> [p \in ui.providers |-> ui.values[p]]]

Send(op, provider) ==
    /\ ui.ops < MaxOps
    /\ calls' = calls \cup {Call(op, provider, Serialize)}
    /\ ui' = [ui EXCEPT !.ops = @ + 1]
    /\ UNCHANGED db

(* The button is shown, and may be pressed, while load is running too. *)
Save == ~Running("save") /\ Send("save", Nobody)

Test(p) == p \in ui.providers /\ ~Running("test") /\ Send("test", p)

(* The API: it keeps what a save leaves out, and refuses one that switches  *)
(* on a provider which does not accept its credentials.                     *)
Stored(sent) ==
    [general |-> sent.general,
     values |-> [p \in Providers |->
         IF p \in DOMAIN sent.values THEN Kept(sent.values[p], db.values[p]) ELSE db.values[p]]]

Refused(sent) ==
    \E p \in DOMAIN sent.values :
        /\ sent.values[p].enabled /\ ~db.values[p].enabled
        /\ Credentials(sent.values[p], db.values[p]) \notin Accepted

Handle(c) ==
    /\ ~c.handled
    /\ \E ok, done \in BOOLEAN :
           /\ ok => done
           /\ done /\ c.op = "save" => ~Refused(c.sent)
           /\ db' = IF done /\ c.op = "save" THEN Stored(c.sent) ELSE db
           /\ calls' = (calls \ {c}) \cup
                  {[c EXCEPT !.handled = TRUE, !.sent = Defaults, !.ok = ok, !.verified = c.of \in Accepted,
                             !.answer = IF ok THEN db' ELSE Defaults]}
    /\ UNCHANGED ui

(* The answers; serverError only announces. *)
Arrive(c) ==
    /\ c.handled
    /\ calls' = calls \ {c}
    /\ ui' = IF ~c.ok THEN ui ELSE
             CASE c.op = "load" -> ApplyConfig(c.answer)
               [] c.op = "save" -> [ApplyConfig(c.answer) EXCEPT !.testResults = [p \in Providers |-> NoResult]]
               [] c.op = "test" ->
                    [ui EXCEPT !.testResults[c.provider] = [verified |-> c.verified, of |-> c.of]]
    /\ UNCHANGED db

Next ==
    \/ \E p \in Providers :
           \/ \E id \in Ids : UpdateField(p, "id", id)
           \/ \E secret \in Secrets \cup {Blank} : UpdateField(p, "secret", secret)
           \/ ToggleProvider(p) \/ Test(p)
    \/ ToggleGeneral \/ Save
    \/ \E c \in calls : Handle(c) \/ Arrive(c)

-----------------------------------------------------------------------------
TypeOK ==
    /\ ui.values \in [Providers -> Values]
    /\ \A p \in Providers : db.values[p].id \in Ids
    /\ \A c \in calls : c.op \in {"load", "save", "test"}

(* A secret that is stored is replaced by one that was typed, never by the  *)
(* blank of its box, whatever is saved, checked or answered.                *)
SecretsStay ==
    \A p \in Providers :
        db'.values[p].secret # db.values[p].secret => db'.values[p].secret \in Secrets

(* A check's result is about the credentials in the form: "Cleared when     *)
(* that provider's credentials are edited, because it no longer describes   *)
(* what is in the form", as the comment on testResults says.                *)
ChecksDescribeTheForm ==
    \A p \in Providers :
        ui.testResults[p] # NoResult => ui.testResults[p].of = Credentials(ui.values[p], db.values[p])
=============================================================================
