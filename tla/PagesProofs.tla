----------------------------- MODULE PagesProofs -----------------------------
(***************************************************************************)
(* What MCConsole's pages show or announce is so: theorems for any number   *)
(* of tabs, notices, apps, tokens, organizations, companies and consumers.  *)
(***************************************************************************)
EXTENDS MCConsole, FiniteSetTheorems, SequenceTheorems, WellFoundedInduction, TLAPS

-----------------------------------------------------------------------------
(* The API's consumers.  A load asks for what is chosen, and once none is    *)
(* under way what is shown is the answer to the choice, unless it failed.    *)
OfTheChoice(data) ==
  /\ data.window = ui.window /\ data.sort = ui.sort
  /\ data.granularity = "minute" <=> ui.window \notin Hourly

ConsumersInv ==
  /\ DOMAIN ui = {"window", "sort", "data", "failed", "at", "ops"}
  /\ \A c \in calls :
       /\ DOMAIN c = {"op", "window", "sort", "consumer", "handled", "ok", "answer"}
       /\ c.op = "load" => /\ c.window = ui.window /\ c.sort = ui.sort
                           /\ c.handled => OfTheChoice(c.answer)
       /\ ~c.handled => ~c.ok
  /\ ui.at = "page" /\ ~ui.failed /\ (\A c \in calls : c.op # "load") => OfTheChoice(ui.data)

LEMMA ConsumersInit == Consumer!Init => ConsumersInv
BY DEF Consumer!Init, Consumer!Call, ConsumersInv

LEMMA ConsumersChooseKeeps ==
  ASSUME ConsumersInv, NEW page, DOMAIN page = DOMAIN ui, Consumer!Choose(page) PROVE ConsumersInv'
<1>1. ui' = [page EXCEPT !.ops = @ + 1] /\ calls' = Consumer!Load(page)
  BY DEF Consumer!Choose
<1>2. DOMAIN ui' = DOMAIN ui /\ ui'.window = page.window /\ ui'.sort = page.sort
  BY <1>1 DEF ConsumersInv
<1> DEFINE load == Consumer!Call("load", page, "none")
<1>3. /\ DOMAIN load = {"op", "window", "sort", "consumer", "handled", "ok", "answer"}
      /\ load.op = "load" /\ load.window = page.window /\ load.sort = page.sort /\ ~load.handled /\ ~load.ok
  BY DEF Consumer!Call
<1>4. calls' = {c \in calls : c.op # "load"} \cup {load}
  BY <1>1 DEF Consumer!Load
<1> HIDE DEF load
<1> QED BY <1>2, <1>3, <1>4 DEF ConsumersInv

LEMMA ConsumersHandleKeeps == ASSUME ConsumersInv, NEW c \in calls, Consumer!Handle(c) PROVE ConsumersInv'
<1> DEFINE says == IF c.op = "load" THEN Consumer!Answer(c) ELSE Consumer!NoData
<1>1. PICK ok \in BOOLEAN :
        calls' = (calls \ {c}) \cup {[c EXCEPT !.handled = TRUE, !.ok = ok, !.answer = says]}
  BY DEF Consumer!Handle
<1>2. ui' = ui /\ ~c.handled
  BY DEF Consumer!Handle
<1>3. c.op = "load" => OfTheChoice(says)
  <2> SUFFICES ASSUME c.op = "load" PROVE OfTheChoice(Consumer!Answer(c))
    OBVIOUS
  <2>1. c.window = ui.window /\ c.sort = ui.sort
    BY DEF ConsumersInv
  <2> QED BY <2>1 DEF OfTheChoice, Consumer!Answer
<1> HIDE DEF says
<1> DEFINE answered == [c EXCEPT !.handled = TRUE, !.ok = ok, !.answer = says]
<1>4. /\ DOMAIN answered = DOMAIN c /\ answered.op = c.op /\ answered.window = c.window /\ answered.sort = c.sort
      /\ answered.handled = TRUE /\ answered.answer = says
  BY DEF ConsumersInv
<1>5. calls' = (calls \ {c}) \cup {answered}
  BY <1>1
<1> HIDE DEF answered
<1> QED BY <1>2, <1>3, <1>4, <1>5 DEF ConsumersInv, OfTheChoice

LEMMA ConsumersStep == ASSUME ConsumersInv, Consumer!Next PROVE ConsumersInv'
<1>1. ASSUME NEW w \in Windows, Consumer!SetWindow(w) PROVE ConsumersInv'
  <2>1. DOMAIN [ui EXCEPT !.window = w] = DOMAIN ui
    OBVIOUS
  <2> QED BY <1>1, <2>1, ConsumersChooseKeeps DEF Consumer!SetWindow
<1>2. ASSUME NEW s \in Consumer!Sorts, Consumer!SetSort(s) PROVE ConsumersInv'
  <2>1. DOMAIN [ui EXCEPT !.sort = s] = DOMAIN ui
    OBVIOUS
  <2> QED BY <1>2, <2>1, ConsumersChooseKeeps DEF Consumer!SetSort
<1>3. ASSUME NEW consumer, Consumer!ResetConsumer(consumer) PROVE ConsumersInv'
  <2> DEFINE reset == Consumer!Call("reset", ui, consumer)
  <2>1. /\ DOMAIN reset = {"op", "window", "sort", "consumer", "handled", "ok", "answer"}
        /\ reset.op = "reset" /\ ~reset.handled /\ ~reset.ok
    BY DEF Consumer!Call
  <2>2. calls' = calls \cup {reset} /\ ui' = [ui EXCEPT !.ops = @ + 1]
    BY <1>3 DEF Consumer!ResetConsumer
  <2>3. /\ DOMAIN ui' = DOMAIN ui /\ ui'.window = ui.window /\ ui'.sort = ui.sort /\ ui'.at = ui.at
        /\ ui'.failed = ui.failed /\ ui'.data = ui.data
    BY <2>2 DEF ConsumersInv
  <2> HIDE DEF reset
  <2> QED BY <2>1, <2>2, <2>3 DEF ConsumersInv, OfTheChoice
<1>4. ASSUME NEW consumer, Consumer!OpenOrganization(consumer) PROVE ConsumersInv'
  BY <1>4 DEF Consumer!OpenOrganization, ConsumersInv
<1>5. ASSUME NEW c \in calls, Consumer!Loaded(c) PROVE ConsumersInv'
  <2>1. /\ c.op = "load" /\ c.handled /\ calls' = calls \ {c}
        /\ ui' = [ui EXCEPT !.failed = ~c.ok, !.data = IF c.ok THEN c.answer ELSE @]
    BY <1>5 DEF Consumer!Loaded
  <2>2. /\ DOMAIN ui' = DOMAIN ui /\ ui'.window = ui.window /\ ui'.sort = ui.sort
        /\ ~ui'.failed => ui'.data = c.answer
    BY <2>1 DEF ConsumersInv
  <2> QED BY <2>1, <2>2 DEF ConsumersInv, OfTheChoice
<1>6. ASSUME NEW c \in calls, Consumer!Cleared(c) PROVE ConsumersInv'
  BY <1>6 DEF Consumer!Cleared, ConsumersInv, OfTheChoice
<1> QED BY <1>1, <1>2, <1>3, <1>4, <1>5, <1>6, ConsumersHandleKeeps DEF Consumer!Next

-----------------------------------------------------------------------------
(* The platform's token.  The page has one request of its own under way at   *)
(* most; unless it is unsure, an answer that is still to be shown and the    *)
(* token that is shown while there is none are the API's.                    *)
TokenPage == DOMAIN ui = {"configured", "token", "copied", "dialog", "unsure", "ops"}
TokenRequest == {"op", "handled", "ok", "token", "cancelled"}
Unshown(c) == c.op \in {"rotate", "revoke"} /\ ~c.cancelled /\ c.handled /\ c.ok

TokenRequests ==
  /\ \A c \in calls : DOMAIN c = TokenRequest /\ c.op \in {"load", "rotate", "revoke"}
  /\ \A c, d \in calls : ~c.cancelled /\ ~d.cancelled => c = d
  /\ \A c \in calls : ~c.cancelled =>
       /\ c.op = "load" => ui.token = 0 /\ ui.dialog = "closed"
       /\ c.op = "revoke" => ui.configured
       /\ ui.dialog # "closed" => c.op = ui.dialog
  /\ ui.dialog \in {"closed", "rotate", "revoke"}
  /\ ui.dialog # "closed" => ui.configured

TokensAgree ==
  /\ ui.token # 0 => ui.configured
  /\ ~ui.unsure => /\ \A c \in calls : Unshown(c) => c.token = db.token
                   /\ ui.token # 0 /\ (\A c \in calls : ~Unshown(c)) => ui.token = db.token

TokenInv == TokenPage /\ TokenRequests /\ TokensAgree

LEMMA TokenInit == Token!Init => TokenInv
BY DEF Token!Init, Token!NewPage, Token!Call, Token!None, TokenInv, TokenPage, TokenRequests, TokenRequest,
  TokensAgree, Unshown

(* A request is sent when no other of the page is under way.                 *)
LEMMA TokenSendKeeps ==
  ASSUME TokenInv, NEW op \in {"rotate", "revoke"}, Token!Send(op), db' = db, DOMAIN ui' = DOMAIN ui,
         \A c \in calls : c.cancelled,
         ui'.configured = ui.configured, ui'.token = ui.token, ui'.dialog = ui.dialog, ui'.unsure = ui.unsure,
         op = "revoke" => ui.configured, ui.dialog # "closed" => op = ui.dialog
  PROVE  TokenInv'
<1> DEFINE request == Token!Call(op)
<1>1. /\ DOMAIN request = TokenRequest /\ request.op = op /\ ~request.handled /\ ~request.cancelled
  BY DEF Token!Call, TokenRequest
<1>2. calls' = calls \cup {request}
  BY DEF Token!Send
<1> HIDE DEF request
<1>3. TokenPage' /\ TokenRequests'
  BY <1>1, <1>2 DEF TokenInv, TokenPage, TokenRequests
<1>4. TokensAgree'
  BY <1>1, <1>2 DEF TokenInv, TokensAgree, Unshown
<1> QED BY <1>3, <1>4 DEF TokenInv

LEMMA TokenHandleKeeps == ASSUME TokenInv, NEW c \in calls, Token!Handle(c) PROVE TokenInv'
<1>1. PICK done \in BOOLEAN, ok \in BOOLEAN :
        /\ ok => done
        /\ db' = CASE done /\ c.op = "rotate" -> [token |-> db.issued + 1, issued |-> db.issued + 1]
                   [] done /\ c.op = "revoke" -> [db EXCEPT !.token = Token!None]
                   [] OTHER -> db
        /\ calls' = (calls \ {c}) \cup {[c EXCEPT !.handled = TRUE, !.ok = ok, !.token = db'.token]}
        /\ ui' = [ui EXCEPT !.unsure = @ \/ (c.op # "load" /\ done /\ (~ok \/ c.cancelled))]
  BY DEF Token!Handle
<1> DEFINE answered == [c EXCEPT !.handled = TRUE, !.ok = ok, !.token = db'.token]
           unsure == ui.unsure \/ (c.op # "load" /\ done /\ (~ok \/ c.cancelled))
<1>2. /\ DOMAIN answered = TokenRequest /\ answered.op = c.op /\ answered.cancelled = c.cancelled
      /\ answered.handled = TRUE /\ answered.ok = ok /\ answered.token = db'.token
  BY DEF TokenInv, TokenRequests, TokenRequest
<1>3. calls' = (calls \ {c}) \cup {answered} /\ ~c.handled
  BY <1>1 DEF Token!Handle
<1>4. /\ DOMAIN ui' = DOMAIN ui /\ ui'.configured = ui.configured /\ ui'.token = ui.token
      /\ ui'.dialog = ui.dialog /\ ui'.unsure = unsure
  BY <1>1 DEF TokenInv, TokenPage
<1> HIDE DEF answered
<1>5. TokenPage' /\ TokenRequests'
  BY <1>2, <1>3, <1>4 DEF TokenInv, TokenPage, TokenRequests
<1>6. ~unsure => db' = db \/ (ok /\ ~c.cancelled /\ c.op \in {"rotate", "revoke"})
  BY <1>1 DEF TokenInv, TokenRequests
<1>7. ~unsure => ~ui.unsure
  OBVIOUS
<1> HIDE DEF unsure
<1>8. TokensAgree'
  <2>1. ui'.token # 0 => ui'.configured
    BY <1>4 DEF TokenInv, TokensAgree
  <2> SUFFICES ASSUME ~unsure
               PROVE  /\ \A d \in calls' : Unshown(d) => d.token = db'.token
                      /\ ui.token # 0 /\ (\A d \in calls' : ~Unshown(d)) => ui.token = db'.token
    BY <2>1, <1>4 DEF TokensAgree
  <2>2. CASE db' = db
    <3>1. \A d \in calls : Unshown(d) => d.token = db.token
      BY <1>7 DEF TokenInv, TokensAgree
    <3>2. ~Unshown(c)
      BY <1>3 DEF Unshown
    <3> QED BY <2>2, <3>1, <3>2, <1>2, <1>3, <1>7 DEF TokenInv, TokensAgree
  <2>3. CASE ok /\ ~c.cancelled /\ c.op \in {"rotate", "revoke"}
    <3>1. Unshown(answered) /\ answered \in calls'
      BY <2>3, <1>2, <1>3 DEF Unshown
    <3>2. \A d \in calls' : Unshown(d) => d = answered
      BY <2>3, <1>2, <1>3 DEF Unshown, TokenInv, TokenRequests
    <3> QED BY <3>1, <3>2, <1>2
  <2> QED BY <2>2, <2>3, <1>6
<1> QED BY <1>5, <1>8 DEF TokenInv

(* An answer is shown, and none is left.                                     *)
LEMMA TokenArriveKeeps ==
  ASSUME TokenInv, NEW c \in calls, Token!Arrive(c), DOMAIN ui' = DOMAIN ui, ui'.unsure = ui.unsure,
         ui'.dialog \in {ui.dialog, "closed"},
         ui'.token # 0 => ui'.configured,
         ui'.dialog # "closed" => ui'.configured,
         \/ ui'.token = 0
         \/ ui'.token = ui.token /\ ~c.ok
         \/ ui'.token = c.token /\ Unshown(c)
  PROVE  TokenInv'
<1>1. c.handled /\ ~c.cancelled /\ calls' = calls \ {c} /\ db' = db
  BY DEF Token!Arrive
<1>2. \A d \in calls' : d.cancelled
  BY <1>1 DEF TokenInv, TokenRequests
<1>3. TokenPage' /\ TokenRequests'
  BY <1>1, <1>2 DEF TokenInv, TokenPage, TokenRequests
<1>4. \A d \in calls' : ~Unshown(d)
  BY <1>2 DEF Unshown
<1>5. ~c.ok => \A d \in calls : ~Unshown(d)
  BY <1>1, <1>4 DEF Unshown
<1>6. TokensAgree'
  BY <1>1, <1>4, <1>5 DEF TokenInv, TokensAgree
<1> QED BY <1>3, <1>6 DEF TokenInv

LEMMA TokenStep == ASSUME TokenInv, Token!Next PROVE TokenInv'
<1> USE DEF TokenPage
<1>0. TokenPage /\ \A c \in calls : c.op \in {"load", "rotate", "revoke"}
  BY DEF TokenInv, TokenRequests
<1>1. CASE Token!GenerateToken
  <2>1. \A c \in calls : c.cancelled
    BY <1>1, <1>0 DEF Token!GenerateToken, Token!Shown, Token!Running, TokenInv, TokenRequests
  <2> QED BY <1>0, <1>1, <2>1, TokenSendKeeps DEF Token!GenerateToken
<1>2. ASSUME NEW op \in {"rotate", "revoke"}, Token!Ask(op) PROVE TokenInv'
  <2>1. \A c \in calls : c.cancelled
    BY <1>0, <1>2 DEF Token!Ask, Token!Shown, Token!Running, Token!Busy
  <2>2. /\ ui.configured /\ ui' = [ui EXCEPT !.dialog = op] /\ calls' = calls /\ db' = db
    BY <1>2 DEF Token!Ask
  <2> QED BY <1>0, <2>1, <2>2 DEF TokenInv, TokenRequests, TokensAgree, Unshown
<1>3. CASE Token!Dismiss
  BY <1>0, <1>3 DEF Token!Dismiss, TokenInv, TokenRequests, TokensAgree, Unshown
<1>4. CASE Token!Confirm
  <2>1. ui.dialog \in {"rotate", "revoke"} /\ ui.configured
    BY <1>4 DEF Token!Confirm, TokenInv, TokenRequests
  <2>2. \A c \in calls : c.cancelled
    BY <1>4, <2>1 DEF Token!Confirm, Token!Running, TokenInv, TokenRequests
  <2> QED BY <1>0, <1>4, <2>1, <2>2, TokenSendKeeps DEF Token!Confirm
<1>5. CASE Token!CopyToken
  <2>1. /\ DOMAIN ui' = DOMAIN ui /\ ui'.configured = ui.configured /\ ui'.token = ui.token
        /\ ui'.dialog = ui.dialog /\ ui'.unsure = ui.unsure /\ calls' = calls /\ db' = db
    BY <1>0, <1>5 DEF Token!CopyToken
  <2> QED BY <2>1 DEF TokenInv, TokenRequests, TokensAgree, Unshown
<1>6. CASE Token!Reopen
  <2> DEFINE load == Token!Call("load")
  <2>1. /\ DOMAIN ui' = DOMAIN ui /\ ui'.configured = FALSE /\ ui'.token = 0
        /\ ui'.dialog = "closed"
    BY <1>0, <1>6 DEF Token!Reopen, Token!NewPage, Token!None
  <2>2. DOMAIN load = TokenRequest /\ load.op = "load" /\ ~load.handled
    BY DEF Token!Call, TokenRequest
  <2>3. calls' = {[c EXCEPT !.cancelled = TRUE] : c \in calls} \cup {load}
    BY <1>6 DEF Token!Reopen
  <2> HIDE DEF load
  <2>4. ASSUME NEW d \in calls', d # load
        PROVE  DOMAIN d = TokenRequest /\ d.op \in {"load", "rotate", "revoke"} /\ d.cancelled
    <3>1. PICK c \in calls : d = [c EXCEPT !.cancelled = TRUE]
      BY <2>3, <2>4
    <3> QED BY <3>1 DEF TokenInv, TokenRequests, TokenRequest
  <2>5. TokenPage' /\ TokenRequests'
    BY <1>0, <2>1, <2>2, <2>4 DEF TokenRequests
  <2>6. \A d \in calls' : ~Unshown(d)
    BY <2>2, <2>4 DEF Unshown
  <2> QED BY <2>1, <2>5, <2>6 DEF TokenInv, TokensAgree
<1>7. CASE Token!Elsewhere
  <2>1. /\ DOMAIN ui' = DOMAIN ui /\ ui'.configured = ui.configured /\ ui'.token = ui.token
        /\ ui'.dialog = ui.dialog /\ ui'.unsure = TRUE /\ calls' = calls
    BY <1>0, <1>7 DEF Token!Elsewhere
  <2> QED BY <2>1 DEF TokenInv, TokenRequests, TokensAgree
<1>8. ASSUME NEW c \in calls, Token!StatusLoaded(c) PROVE TokenInv'
  <2>1. c.op = "load" /\ Token!Arrive(c) /\ ~c.cancelled
    BY <1>8 DEF Token!StatusLoaded, Token!Arrive
  <2>2. ui.token = 0 /\ ui.dialog = "closed"
    BY <2>1 DEF TokenInv, TokenRequests
  <2>3. DOMAIN ui' = DOMAIN ui /\ ui'.token = 0 /\ ui'.dialog = "closed" /\ ui'.unsure = ui.unsure
    BY <1>0, <1>8, <2>2 DEF Token!StatusLoaded
  <2> QED BY <2>1, <2>3, TokenArriveKeeps
<1>9. ASSUME NEW c \in calls, Token!TokenRotated(c) PROVE TokenInv'
  <2>1. /\ c.op = "rotate" /\ Token!Arrive(c) /\ c.handled /\ ~c.cancelled
        /\ ui' = IF c.ok THEN [ui EXCEPT !.configured = TRUE, !.token = c.token, !.dialog = "closed"] ELSE ui
    BY <1>9 DEF Token!TokenRotated, Token!Arrive
  <2>2. CASE c.ok
    BY <1>0, <2>1, <2>2, TokenArriveKeeps DEF Unshown
  <2>3. CASE ~c.ok
    BY <1>0, <2>1, <2>3, TokenArriveKeeps DEF TokenInv, TokensAgree, TokenRequests
  <2> QED BY <2>2, <2>3
<1>10. ASSUME NEW c \in calls, Token!TokenRevoked(c) PROVE TokenInv'
  <2>1. /\ c.op = "revoke" /\ Token!Arrive(c) /\ c.handled /\ ~c.cancelled
        /\ ui' = IF c.ok
                 THEN [ui EXCEPT !.configured = c.token # 0, !.token = 0, !.dialog = "closed"]
                 ELSE ui
    BY <1>10 DEF Token!TokenRevoked, Token!Arrive, Token!TokenAfterRevoke, Token!None
  <2>2. CASE c.ok
    BY <1>0, <2>1, <2>2, TokenArriveKeeps
  <2>3. CASE ~c.ok
    BY <1>0, <2>1, <2>3, TokenArriveKeeps DEF TokenInv, TokensAgree, TokenRequests
  <2> QED BY <2>2, <2>3
<1>11. ASSUME NEW c \in calls, Token!Ignored(c) PROVE TokenInv'
  <2>1. c.cancelled /\ calls' = calls \ {c} /\ ui' = ui /\ db' = db
    BY <1>11 DEF Token!Ignored
  <2>2. ~Unshown(c)
    BY <2>1 DEF Unshown
  <2> QED BY <2>1, <2>2 DEF TokenInv, TokenRequests, TokensAgree
<1> QED BY <1>1, <1>2, <1>3, <1>4, <1>5, <1>6, <1>7, <1>8, <1>9, <1>10, <1>11, TokenHandleKeeps DEF Token!Next

(* The details of an organization.  What a page and its loads list is of     *)
(* those who are members still.                                              *)
DetailsPage ==
  DOMAIN ui = {"at", "owner", "rows", "dialog", "said", "named", "removed", "moved", "stale", "ops"}
DetailsRequest == {"op", "user", "of", "handled", "ok", "rows", "owner"}

DetailsTyped ==
  /\ DetailsPage /\ ui.at \in Companies \cup {"none"} /\ ui.moved \in BOOLEAN /\ ui.stale \in BOOLEAN
  /\ ui.dialog.op \in {"none", "update", "remove", "transfer"}
  /\ DOMAIN db = {"members", "owner", "session"} /\ DOMAIN db.members = Companies
  /\ \A c \in calls : DOMAIN c = DetailsRequest /\ c.of \in Companies

RemovedTakenOut ==
  /\ ui.at # "none" => ui.removed \cap db.members[ui.at] = {}
  /\ \A c \in calls : c.op = "remove" /\ c.handled /\ c.ok => c.user \notin db.members[c.of]
  /\ ui.at # "none" =>
        \A c \in calls : c.op = "load" /\ c.handled /\ c.of = ui.at => ui.removed \cap c.rows = {}
  /\ ui.at # "none" /\ ~ui.stale /\ (\A c \in calls : c.op # "load") => ui.removed \cap ui.rows = {}

NamesAreTheSessions ==
  /\ Details!AnnouncedIsImpersonated
  /\ \A c \in calls : c.op = "impersonate-owner" /\ ~ui.moved => c.user = ui.owner

DetailsInv == DetailsTyped /\ RemovedTakenOut /\ NamesAreTheSessions

LEMMA DetailsInit == Details!Init => DetailsInv
<1> SUFFICES ASSUME Details!Init PROVE DetailsInv
  OBVIOUS
<1>1. DetailsTyped
  BY DetailsAssumption
  DEF Details!FirstAssumption, Details!Init, Details!None, Details!Closed, DetailsTyped, DetailsPage
<1>2. RemovedTakenOut
  BY DEF Details!Init, RemovedTakenOut
<1>3. NamesAreTheSessions
  BY DEF Details!Init, Details!None, NamesAreTheSessions, Details!AnnouncedIsImpersonated
<1> QED BY <1>1, <1>2, <1>3 DEF DetailsInv

(* A request for the organization on the page.                               *)
LEMMA DetailsSendKeeps ==
  ASSUME DetailsInv, NEW op, NEW user, Details!Send(op, user, ui.at), ui.at # "none", db' = db,
         op # "load", op = "impersonate-owner" => user = ui.owner, ui'.dialog \in {ui.dialog, Details!Closed},
         DOMAIN ui' = DOMAIN ui, ui'.at = ui.at, ui'.owner = ui.owner, ui'.rows = ui.rows, ui'.said = ui.said,
         ui'.named = ui.named, ui'.removed = ui.removed, ui'.moved = ui.moved, ui'.stale = ui.stale
  PROVE  DetailsInv'
<1> USE DEF DetailsInv
<1> DEFINE request == Details!Call(op, user, ui.at)
<1>1. /\ DOMAIN request = DetailsRequest /\ request.op = op /\ request.user = user /\ request.of = ui.at
      /\ ~request.handled
  BY DEF Details!Call, DetailsRequest
<1>2. calls' = calls \cup {request}
  BY DEF Details!Send
<1> HIDE DEF request
<1>3. DetailsTyped'
  BY <1>1, <1>2 DEF DetailsTyped, DetailsPage, Details!Closed, Details!None
<1>4. RemovedTakenOut'
  BY <1>1, <1>2 DEF RemovedTakenOut
<1>5. NamesAreTheSessions'
  BY <1>1, <1>2 DEF NamesAreTheSessions, Details!AnnouncedIsImpersonated
<1> QED BY <1>3, <1>4, <1>5

LEMMA DetailsHandleKeeps == ASSUME DetailsInv, NEW c \in calls, Details!Handle(c) PROVE DetailsInv'
<1> USE DEF DetailsInv
<1>1. PICK done \in BOOLEAN, ok \in BOOLEAN :
        /\ ok => done
        /\ db' = IF done THEN Details!Effect(c) ELSE db
        /\ calls' = (calls \ {c}) \cup
             {[c EXCEPT !.handled = TRUE, !.ok = ok, !.rows = db'.members[c.of], !.owner = db'.owner[c.of]]}
  BY DEF Details!Handle
<1> DEFINE answered ==
      [c EXCEPT !.handled = TRUE, !.ok = ok, !.rows = db'.members[c.of], !.owner = db'.owner[c.of]]
<1>2. /\ DOMAIN answered = DetailsRequest /\ answered.op = c.op /\ answered.user = c.user
      /\ answered.of = c.of /\ answered.ok = ok /\ answered.rows = db'.members[c.of] /\ c.of \in Companies
  BY DEF DetailsTyped, DetailsRequest
<1>3. calls' = (calls \ {c}) \cup {answered} /\ ui' = ui
  BY <1>1 DEF Details!Handle
<1> HIDE DEF answered
<1>4. /\ DOMAIN db' = DOMAIN db /\ db'.session = db.session /\ DOMAIN db'.members = Companies
      /\ \A o \in Companies : db'.members[o] \subseteq db.members[o]
      /\ c.op = "remove" /\ ok => c.user \notin db'.members[c.of]
  <2>1. CASE done /\ c.op = "remove"
    <3>1. db' = [db EXCEPT !.members[c.of] = @ \ {c.user}]
      BY <1>1, <2>1 DEF Details!Effect
    <3> QED BY <3>1, <1>2 DEF DetailsTyped
  <2>2. CASE done /\ c.op = "transfer"
    <3>1. db' = [db EXCEPT !.owner[c.of] = c.user]
      BY <1>1, <2>2 DEF Details!Effect
    <3> QED BY <3>1, <2>2 DEF DetailsTyped
  <2>3. CASE ~done \/ c.op \notin {"remove", "transfer"}
    <3>1. db' = db
      BY <1>1, <2>3 DEF Details!Effect
    <3> QED BY <3>1, <2>3, <1>1 DEF DetailsTyped
  <2> QED BY <2>1, <2>2, <2>3
<1>5. DetailsTyped'
  BY <1>2, <1>3, <1>4 DEF DetailsTyped, DetailsPage
<1>6. RemovedTakenOut'
  BY <1>2, <1>3, <1>4 DEF RemovedTakenOut, DetailsTyped
<1>7. NamesAreTheSessions'
  BY <1>2, <1>3, <1>4 DEF NamesAreTheSessions, Details!AnnouncedIsImpersonated
<1> QED BY <1>5, <1>6, <1>7

(* A load takes the place of the one there was.                              *)
LEMMA DetailsReloads ==
  ASSUME DetailsInv, NEW others, others \subseteq calls, NEW to \in Companies,
         calls' = Details!Load(others, to), db' = db, ui.at # "none",
         DOMAIN ui' = DOMAIN ui, ui'.at = ui.at, ui'.owner = ui.owner, ui'.said = ui.said,
         ui'.named = ui.named, ui'.moved = ui.moved, ui'.stale = ui.stale, ui'.dialog = ui.dialog,
         ui'.removed \cap db.members[ui.at] = {}
  PROVE  DetailsInv'
<1> USE DEF DetailsInv
<1> DEFINE request == Details!Call("load", Details!None, to)
<1>1. /\ DOMAIN request = DetailsRequest /\ request.op = "load" /\ request.of = to /\ ~request.handled
  BY DEF Details!Call, DetailsRequest
<1>2. /\ request \in calls'
      /\ \A c \in calls' : c = request \/ (c \in calls /\ c.op # "load")
  BY DEF Details!Load, Details!Loads
<1> HIDE DEF request
<1>3. DetailsTyped'
  BY <1>1, <1>2 DEF DetailsTyped, DetailsPage
<1>4. RemovedTakenOut'
  BY <1>1, <1>2 DEF RemovedTakenOut
<1>5. NamesAreTheSessions'
  BY <1>1, <1>2 DEF NamesAreTheSessions, Details!AnnouncedIsImpersonated
<1> QED BY <1>3, <1>4, <1>5

LEMMA DetailsLoadedKeeps == ASSUME DetailsInv, NEW c \in calls, Details!Loaded(c) PROVE DetailsInv'
<1> USE DEF DetailsInv
<1>1. /\ c.handled /\ c.op = "load" /\ calls' = calls \ {c} /\ db' = db /\ c.of \in Companies
      /\ ui' = [ui EXCEPT !.at = c.of, !.rows = c.rows, !.owner = c.owner, !.stale = FALSE,
                          !.moved = @ \/ c.owner # ui.owner, !.removed = IF c.of = ui.at THEN @ ELSE {}]
  BY DEF Details!Loaded, DetailsTyped
<1>2. /\ DOMAIN ui' = DOMAIN ui /\ ui'.at = c.of /\ ui'.rows = c.rows /\ ui'.owner = c.owner
      /\ ui'.moved = (ui.moved \/ c.owner # ui.owner) /\ ui'.stale = FALSE
      /\ ui'.removed = IF c.of = ui.at THEN ui.removed ELSE {}
      /\ ui'.said = ui.said /\ ui'.named = ui.named
  BY <1>1 DEF DetailsTyped, DetailsPage
<1>3. DetailsTyped'
  BY <1>1, <1>2 DEF DetailsTyped, DetailsPage
<1>4. RemovedTakenOut'
  BY <1>1, <1>2 DEF RemovedTakenOut
<1>5. NamesAreTheSessions'
  BY <1>1, <1>2 DEF NamesAreTheSessions, Details!AnnouncedIsImpersonated
<1> QED BY <1>3, <1>4, <1>5

LEMMA DetailsImpersonatingKeeps ==
  ASSUME DetailsInv, NEW c \in calls, Details!Impersonating(c) PROVE DetailsInv'
<1> USE DEF DetailsInv
<1>1. CASE calls' = calls \ {c} /\ ui' = ui /\ db' = db
  <2>1. c.op # "load"
    BY DEF Details!Impersonating
  <2> QED BY <1>1, <2>1 DEF DetailsTyped, DetailsPage, RemovedTakenOut, NamesAreTheSessions,
             Details!AnnouncedIsImpersonated
<1>2. CASE /\ db' = [db EXCEPT !.session = c.user]
           /\ ui' = [ui EXCEPT !.at = Details!None, !.said = Details!Impersonated(c), !.named = c.op,
                               !.dialog = Details!Closed]
           /\ calls' = (calls \ {c}) \ Details!Loads
  <2>1. /\ DOMAIN ui' = DOMAIN ui /\ ui'.at = "none" /\ ui'.owner = ui.owner /\ ui'.moved = ui.moved
        /\ ui'.said = Details!Impersonated(c) /\ ui'.named = c.op /\ ui'.stale = ui.stale
        /\ ui'.dialog.op = "none"
    BY <1>2 DEF DetailsTyped, DetailsPage, Details!None, Details!Closed
  <2>2. /\ DOMAIN db' = DOMAIN db /\ db'.session = c.user /\ db'.members = db.members
    BY <1>2 DEF DetailsTyped
  <2>3. calls' \subseteq calls /\ \A d \in calls' : d.op # "load"
    BY <1>2 DEF Details!Loads
  <2>4. DetailsTyped'
    BY <2>1, <2>2, <2>3 DEF DetailsTyped, DetailsPage
  <2>5. RemovedTakenOut'
    BY <2>1, <2>2, <2>3 DEF RemovedTakenOut
  <2>6. NamesAreTheSessions'
    BY <2>1, <2>2, <2>3 DEF NamesAreTheSessions, Details!AnnouncedIsImpersonated, Details!Impersonated
  <2> QED BY <2>4, <2>5, <2>6
<1> QED BY <1>1, <1>2 DEF Details!Impersonating

LEMMA DetailsStep == ASSUME DetailsInv, Details!Next PROVE DetailsInv'
<1> USE DEF DetailsPage, Details!None
<1>0. DetailsPage /\ ui.at \in Companies \cup {"none"}
  BY DEF DetailsInv, DetailsTyped
<1>1. ASSUME NEW o \in Companies, Details!Open(o) PROVE DetailsInv'
  <2>1. ui' = [ui EXCEPT !.ops = @ + 1] /\ calls' = Details!Load(calls, o) /\ db' = db /\ ui.at # "none"
    BY <1>1 DEF Details!Open
  <2>2. ui.removed \cap db.members[ui.at] = {}
    BY <2>1 DEF DetailsInv, RemovedTakenOut
  <2> QED BY <1>0, <2>1, <2>2, DetailsReloads
<1>2. ASSUME NEW u, Details!RunUserLifecycleAction(u) PROVE DetailsInv'
  <2>1. /\ ui.at # "none" /\ Details!Send("update", u, ui.at) /\ ui' = [ui EXCEPT !.ops = @ + 1] /\ db' = db
    BY <1>2 DEF Details!RunUserLifecycleAction
  <2> QED BY <1>0, <2>1, DetailsSendKeeps
<1>3. ASSUME NEW u, NEW op \in {"update", "remove", "transfer"}, Details!ConfirmUserLifecycleAction(op, u)
      PROVE  DetailsInv'
  <2>1. ui' = [ui EXCEPT !.dialog = [op |-> op, user |-> u]] /\ calls' = calls /\ db' = db
    BY <1>3 DEF Details!ConfirmUserLifecycleAction
  <2> QED BY <1>0, <2>1 DEF DetailsInv, DetailsTyped, RemovedTakenOut, NamesAreTheSessions,
             Details!AnnouncedIsImpersonated
<1>4. CASE Details!Dismiss
  <2>1. ui' = [ui EXCEPT !.dialog = Details!Closed] /\ calls' = calls /\ db' = db
    BY <1>4 DEF Details!Dismiss
  <2> QED BY <1>0, <2>1 DEF DetailsInv, DetailsTyped, RemovedTakenOut, NamesAreTheSessions,
             Details!AnnouncedIsImpersonated, Details!Closed
<1>5. CASE Details!Confirm
  <2>1. /\ ui.at # "none" /\ Details!Send(ui.dialog.op, ui.dialog.user, ui.at) /\ db' = db
        /\ ui' = [ui EXCEPT !.dialog = Details!Closed, !.ops = @ + 1]
    BY <1>5 DEF Details!Confirm
  <2>2. ui.dialog.op \notin {"load", "impersonate-owner"}
    BY <1>5 DEF Details!Confirm, DetailsInv, DetailsTyped
  <2> QED BY <1>0, <2>1, <2>2, DetailsSendKeeps
<1>6. ASSUME NEW u, Details!ImpersonateUser(u) PROVE DetailsInv'
  <2>1. /\ ui.at # "none" /\ Details!Send("impersonate", u, ui.at) /\ ui' = [ui EXCEPT !.ops = @ + 1]
        /\ db' = db
    BY <1>6 DEF Details!ImpersonateUser
  <2> QED BY <1>0, <2>1, DetailsSendKeeps
<1>7. CASE Details!ImpersonateOwner
  <2>1. /\ ui.at # "none" /\ Details!Send("impersonate-owner", ui.owner, ui.at)
        /\ ui' = [ui EXCEPT !.ops = @ + 1] /\ db' = db
    BY <1>7 DEF Details!ImpersonateOwner
  <2> QED BY <1>0, <2>1, DetailsSendKeeps
<1>8. CASE Details!Reload
  <2>1. ui' = [ui EXCEPT !.said = Details!None, !.named = Details!None, !.at = Details!None] /\ calls' = {}
        /\ db' = db
    BY <1>8 DEF Details!Reload
  <2> QED BY <1>0, <2>1 DEF DetailsInv, DetailsTyped, RemovedTakenOut, NamesAreTheSessions,
             Details!AnnouncedIsImpersonated
<1>9. ASSUME NEW c \in calls, Details!Failed(c) PROVE DetailsInv'
  <2>1. calls' = calls \ {c} /\ ui' = [ui EXCEPT !.stale = @ \/ c.op = "load"] /\ db' = db
    BY <1>9 DEF Details!Failed
  <2>2. /\ DOMAIN ui' = DOMAIN ui /\ ui'.stale = (ui.stale \/ c.op = "load") /\ ui'.at = ui.at
        /\ ui'.rows = ui.rows /\ ui'.removed = ui.removed /\ ui'.said = ui.said /\ ui'.named = ui.named
        /\ ui'.moved = ui.moved /\ ui'.owner = ui.owner
    BY <1>0, <2>1
  <2> QED BY <2>1, <2>2 DEF DetailsInv, DetailsTyped, RemovedTakenOut, NamesAreTheSessions,
             Details!AnnouncedIsImpersonated
<1>10. ASSUME NEW c \in calls, Details!LifecycleDone(c) PROVE DetailsInv'
  <2>1. /\ c.handled /\ c.ok /\ c.op # "load" /\ db' = db
        /\ calls' = IF ui.at = "none" THEN calls \ {c} ELSE Details!Load(calls \ {c}, ui.at)
        /\ ui' = [ui EXCEPT !.removed = IF c.op = "remove" /\ c.of = ui.at THEN @ \cup {c.user} ELSE @]
    BY <1>10 DEF Details!LifecycleDone, Details!RefreshAfter
  <2> DEFINE removed == IF c.op = "remove" /\ c.of = ui.at THEN ui.removed \cup {c.user} ELSE ui.removed
  <2>2. /\ DOMAIN ui' = DOMAIN ui /\ ui'.removed = removed /\ ui'.at = ui.at
        /\ ui'.rows = ui.rows /\ ui'.stale = ui.stale /\ ui'.said = ui.said /\ ui'.named = ui.named
        /\ ui'.moved = ui.moved /\ ui'.owner = ui.owner /\ ui'.dialog = ui.dialog
    BY <1>0, <2>1
  <2>3. CASE ui.at # "none"
    <3>1. removed \cap db.members[ui.at] = {}
      BY <2>1, <2>3 DEF DetailsInv, RemovedTakenOut
    <3> HIDE DEF removed
    <3> QED BY <1>0, <2>1, <2>2, <2>3, <3>1, DetailsReloads
  <2>4. CASE ui.at = "none"
    BY <2>1, <2>2, <2>4 DEF DetailsInv, DetailsTyped, RemovedTakenOut, NamesAreTheSessions,
       Details!AnnouncedIsImpersonated
  <2> QED BY <2>3, <2>4
<1> QED BY <1>1, <1>2, <1>3, <1>4, <1>5, <1>6, <1>7, <1>8, <1>9, <1>10, DetailsHandleKeeps, DetailsLoadedKeeps,
           DetailsImpersonatingKeeps
    DEF Details!Next

-----------------------------------------------------------------------------
(* The notifications.  The page and the requests know of those only that     *)
(* were sent; what an answered request read or deleted is, and the selection *)
(* is what a deletion asked for, save for what was picked meanwhile.         *)
BellTyped ==
  /\ DOMAIN ui = {"list", "unread", "selected", "meanwhile", "deleted", "read", "ops"}
  /\ DOMAIN db = {"exist", "unread", "sent"}
  /\ \A c \in calls : DOMAIN c = {"op", "ids", "handled", "ok", "exist", "unread"}

OnlySent ==
  /\ ui.list \subseteq db.sent /\ ui.selected \subseteq db.sent /\ ui.unread \subseteq db.sent
  /\ ui.read \subseteq db.sent /\ ui.deleted \subseteq db.sent
  /\ db.exist \subseteq db.sent /\ db.unread \subseteq db.sent
  /\ \A c \in calls : c.ids \subseteq db.sent /\ c.exist \subseteq db.sent /\ c.unread \subseteq db.sent

AnsweredIsSo ==
  \A c \in calls :
    /\ c.op \in {"read", "mark"} /\ c.handled /\ c.ok => c.ids \cap db.unread = {}
    /\ c.op = "delete" /\ c.handled /\ c.ok => c.ids \cap db.exist = {}
    /\ c.op = "delete" => ui.selected \subseteq c.ids \cup ui.meanwhile

BellInv == BellTyped /\ OnlySent /\ AnsweredIsSo /\ Bell!AnnouncedIsSo

LEMMA BellInit == Bell!Init => BellInv
<1> SUFFICES ASSUME Bell!Init PROVE BellInv
  OBVIOUS
<1>1. /\ DOMAIN db = {"exist", "unread", "sent"} /\ db.exist = Received /\ db.sent = Received
      /\ db.unread \subseteq Received /\ calls = {}
      /\ ui = [list |-> Received, unread |-> db.unread, selected |-> {}, meanwhile |-> {},
               deleted |-> {}, read |-> {}, ops |-> 0]
  BY DEF Bell!Init
<1> QED BY <1>1 DEF BellInv, BellTyped, OnlySent, AnsweredIsSo, Bell!AnnouncedIsSo

(* A request about what is on the page, and a refresh in the place of        *)
(* another.                                                                  *)
LEMMA BellSendKeeps ==
  ASSUME BellInv, NEW op \in {"delete", "read", "mark"}, NEW ids, Bell!Send(op, ids), ids \subseteq db.sent,
         op = "delete" => ids = ui.selected
  PROVE  BellInv'
<1> DEFINE request == Bell!Call(op, ids)
<1>1. /\ DOMAIN request = {"op", "ids", "handled", "ok", "exist", "unread"} /\ request.op = op
      /\ request.ids = ids /\ ~request.handled /\ request.exist = {} /\ request.unread = {}
  BY DEF Bell!Call
<1>2. calls' = calls \cup {request} /\ ui' = [ui EXCEPT !.ops = @ + 1] /\ db' = db
  BY DEF Bell!Send
<1>3. /\ DOMAIN ui' = DOMAIN ui /\ ui'.list = ui.list /\ ui'.unread = ui.unread /\ ui'.selected = ui.selected
      /\ ui'.meanwhile = ui.meanwhile /\ ui'.deleted = ui.deleted /\ ui'.read = ui.read
  BY <1>2 DEF BellInv, BellTyped
<1> HIDE DEF request
<1>4. BellTyped'
  BY <1>1, <1>2, <1>3 DEF BellInv, BellTyped
<1>5. OnlySent'
  BY <1>1, <1>2, <1>3 DEF BellInv, OnlySent
<1>6. AnsweredIsSo' /\ Bell!AnnouncedIsSo'
  BY <1>1, <1>2, <1>3 DEF BellInv, AnsweredIsSo, Bell!AnnouncedIsSo
<1> QED BY <1>4, <1>5, <1>6 DEF BellInv

LEMMA BellRefreshed ==
  ASSUME NEW others, others \subseteq calls, BellTyped
  PROVE  \A c \in Bell!Refresh(others) :
           /\ DOMAIN c = {"op", "ids", "handled", "ok", "exist", "unread"}
           /\ c \in calls \/ (c.op = "refresh" /\ c.ids = {} /\ c.exist = {} /\ c.unread = {})
BY DEF Bell!Refresh, Bell!Call, BellTyped

LEMMA BellReceiveKeeps == ASSUME BellInv, NEW n, Bell!Receive(n) PROVE BellInv'
<1>1. /\ n \notin db.sent /\ calls' = Bell!Refresh(calls) /\ ui' = ui
      /\ db' = [exist |-> db.exist \cup {n}, unread |-> db.unread \cup {n}, sent |-> db.sent \cup {n}]
  BY DEF Bell!Receive
<1>2. /\ DOMAIN db' = {"exist", "unread", "sent"} /\ db'.exist = db.exist \cup {n}
      /\ db'.unread = db.unread \cup {n} /\ db'.sent = db.sent \cup {n}
  BY <1>1
<1>3. \A c \in calls' : /\ DOMAIN c = {"op", "ids", "handled", "ok", "exist", "unread"}
                        /\ c \in calls \/ (c.op = "refresh" /\ c.ids = {} /\ c.exist = {} /\ c.unread = {})
  BY <1>1, BellRefreshed DEF BellInv
<1>4. BellTyped'
  BY <1>1, <1>2, <1>3 DEF BellInv, BellTyped
<1>5. OnlySent'
  BY <1>1, <1>2, <1>3 DEF BellInv, OnlySent
<1>6. AnsweredIsSo'
  <2> SUFFICES ASSUME NEW c \in calls', c.op # "refresh"
               PROVE  /\ c.op \in {"read", "mark"} /\ c.handled /\ c.ok => c.ids \cap db'.unread = {}
                      /\ c.op = "delete" /\ c.handled /\ c.ok => c.ids \cap db'.exist = {}
                      /\ c.op = "delete" => ui.selected \subseteq c.ids \cup ui.meanwhile
    BY <1>1 DEF AnsweredIsSo
  <2>1. c \in calls /\ n \notin c.ids
    BY <1>1, <1>3 DEF BellInv, OnlySent
  <2> QED BY <1>2, <2>1 DEF BellInv, AnsweredIsSo
<1>7. Bell!AnnouncedIsSo'
  BY <1>1, <1>2 DEF BellInv, OnlySent, Bell!AnnouncedIsSo
<1> QED BY <1>4, <1>5, <1>6, <1>7 DEF BellInv

LEMMA BellHandleKeeps == ASSUME BellInv, NEW c \in calls, Bell!Handle(c) PROVE BellInv'
<1>1. PICK done \in BOOLEAN, ok \in BOOLEAN :
        /\ ok => done
        /\ db' = CASE done /\ c.op = "delete" -> [db EXCEPT !.exist = @ \ c.ids, !.unread = @ \ c.ids]
                   [] done /\ c.op \in {"read", "mark"} -> [db EXCEPT !.unread = @ \ c.ids]
                   [] OTHER -> db
        /\ calls' = (calls \ {c}) \cup
             {[c EXCEPT !.handled = TRUE, !.ok = ok,
                        !.exist = IF c.op = "refresh" THEN db'.exist ELSE {},
                        !.unread = IF c.op = "refresh" THEN db'.unread ELSE {}]}
  BY DEF Bell!Handle
<1> DEFINE exist == IF c.op = "refresh" THEN db'.exist ELSE {}
           unread == IF c.op = "refresh" THEN db'.unread ELSE {}
           answered == [c EXCEPT !.handled = TRUE, !.ok = ok, !.exist = exist, !.unread = unread]
<1>2. /\ DOMAIN db' = DOMAIN db /\ db'.sent = db.sent
      /\ db'.exist \subseteq db.exist /\ db'.unread \subseteq db.unread
      /\ c.op \in {"read", "mark"} /\ ok => db'.unread = db.unread \ c.ids
      /\ c.op = "delete" /\ ok => db'.exist = db.exist \ c.ids
  <2>1. CASE done /\ c.op = "delete"
    <3>1. db' = [db EXCEPT !.exist = @ \ c.ids, !.unread = @ \ c.ids]
      BY <1>1, <2>1
    <3> QED BY <2>1, <3>1 DEF BellInv, BellTyped
  <2>2. CASE done /\ c.op \in {"read", "mark"}
    <3>1. db' = [db EXCEPT !.unread = @ \ c.ids]
      BY <1>1, <2>2
    <3> QED BY <2>2, <3>1 DEF BellInv, BellTyped
  <2>3. CASE ~(done /\ c.op \in {"delete", "read", "mark"})
    BY <1>1, <2>3
  <2> QED BY <2>1, <2>2, <2>3
<1>3. exist \subseteq db.sent /\ unread \subseteq db.sent
  BY <1>2 DEF BellInv, OnlySent
<1>4. calls' = (calls \ {c}) \cup {answered} /\ ui' = ui
  BY <1>1 DEF Bell!Handle
<1> HIDE DEF exist, unread
<1>5. /\ DOMAIN answered = DOMAIN c /\ answered.op = c.op /\ answered.ids = c.ids /\ answered.ok = ok
      /\ answered.exist = exist /\ answered.unread = unread
  BY DEF BellInv, BellTyped
<1> HIDE DEF answered
<1>6. BellTyped'
  BY <1>2, <1>4, <1>5 DEF BellInv, BellTyped
<1>7. OnlySent'
  BY <1>2, <1>3, <1>4, <1>5 DEF BellInv, OnlySent
<1>8. AnsweredIsSo'
  BY <1>2, <1>4, <1>5 DEF BellInv, AnsweredIsSo
<1>9. Bell!AnnouncedIsSo'
  BY <1>2, <1>4 DEF BellInv, Bell!AnnouncedIsSo
<1> QED BY <1>6, <1>7, <1>8, <1>9 DEF BellInv

LEMMA BellArriveKeeps == ASSUME BellInv, NEW c \in calls, Bell!Arrive(c) PROVE BellInv'
<1>1. c.handled /\ db' = db
  BY DEF Bell!Arrive
<1>2. /\ \A d \in calls' : /\ DOMAIN d = {"op", "ids", "handled", "ok", "exist", "unread"}
                           /\ d \in calls \/ (d.op = "refresh" /\ d.ids = {} /\ d.exist = {} /\ d.unread = {})
  BY BellRefreshed DEF Bell!Arrive, BellInv, BellTyped
<1>3. /\ DOMAIN ui' = DOMAIN ui
      /\ ui'.list \subseteq db.sent /\ ui'.unread \subseteq db.sent /\ ui'.selected \subseteq ui.selected
      /\ ui'.meanwhile = ui.meanwhile
      /\ \A n \in ui'.read : n \in ui.read \/ (c.ok /\ c.op \in {"read", "mark"} /\ n \in c.ids)
      /\ \A n \in ui'.deleted : n \in ui.deleted \/ (c.ok /\ c.op = "delete" /\ n \in ui.selected)
  <2> USE DEF BellInv, BellTyped, OnlySent
  <2>1. CASE ui' = ui
    BY <2>1
  <2>2. CASE ui' = [ui EXCEPT !.list = c.exist, !.unread = c.unread]
    BY <2>2
  <2>3. CASE c.ok /\ c.op = "delete" /\ ui' = [ui EXCEPT !.deleted = @ \cup ui.selected, !.selected = {}]
    BY <2>3
  <2>4. CASE c.ok /\ c.op = "read" /\ ui' = [ui EXCEPT !.read = @ \cup c.ids, !.selected = {}]
    BY <2>4
  <2>5. CASE c.ok /\ c.op = "mark" /\ ui' = [ui EXCEPT !.read = @ \cup c.ids, !.unread = @ \ c.ids]
    BY <2>5
  <2> QED BY <2>1, <2>2, <2>3, <2>4, <2>5 DEF Bell!Arrive, Bell!Announces, Bell!AnnouncedAsRead
<1>4. BellTyped'
  BY <1>1, <1>2, <1>3 DEF BellInv, BellTyped
<1>5. OnlySent'
  BY <1>1, <1>2, <1>3 DEF BellInv, OnlySent
<1>6. AnsweredIsSo'
  BY <1>1, <1>2, <1>3 DEF BellInv, AnsweredIsSo
<1>7. Bell!AnnouncedIsSo'
  BY <1>1, <1>3 DEF BellInv, AnsweredIsSo, Bell!AnnouncedIsSo
<1> QED BY <1>4, <1>5, <1>6, <1>7 DEF BellInv

(* What is picked while a deletion is under way is remembered.               *)
LEMMA BellPickKeeps ==
  ASSUME BellInv, NEW selected, NEW meanwhile, calls' = calls, db' = db,
         ui' = [ui EXCEPT !.selected = selected, !.meanwhile = meanwhile],
         selected \subseteq db.sent, ui.meanwhile \subseteq meanwhile,
         Bell!Deleting => selected \subseteq ui.selected \cup meanwhile
  PROVE  BellInv'
<1>1. /\ DOMAIN ui' = DOMAIN ui /\ ui'.list = ui.list /\ ui'.unread = ui.unread /\ ui'.selected = selected
      /\ ui'.meanwhile = meanwhile /\ ui'.deleted = ui.deleted /\ ui'.read = ui.read
  BY DEF BellInv, BellTyped
<1>2. BellTyped' /\ OnlySent'
  BY <1>1 DEF BellInv, BellTyped, OnlySent
<1>3. AnsweredIsSo'
  <2>1. \A c \in calls : c.op = "delete" => selected \subseteq c.ids \cup meanwhile
    BY DEF BellInv, AnsweredIsSo, Bell!Deleting
  <2> QED BY <1>1, <2>1 DEF BellInv, AnsweredIsSo
<1>4. Bell!AnnouncedIsSo'
  BY <1>1 DEF BellInv, Bell!AnnouncedIsSo
<1> QED BY <1>2, <1>3, <1>4 DEF BellInv

LEMMA BellStep == ASSUME BellInv, Bell!Next PROVE BellInv'
<1>1. ASSUME NEW n, Bell!SelectNotification(n) PROVE BellInv'
  <2> DEFINE selected == IF n \in ui.selected THEN ui.selected \ {n} ELSE ui.selected \cup {n}
             meanwhile == IF Bell!Deleting THEN ui.meanwhile \cup {n} ELSE ui.meanwhile
  <2>1. /\ n \in ui.list /\ calls' = calls /\ db' = db
        /\ ui' = [ui EXCEPT !.selected = selected, !.meanwhile = meanwhile]
    BY <1>1 DEF Bell!SelectNotification, BellInv, BellTyped
  <2>2. selected \subseteq db.sent /\ ui.meanwhile \subseteq meanwhile
    BY <2>1 DEF BellInv, OnlySent
  <2>3. Bell!Deleting => selected \subseteq ui.selected \cup meanwhile
    OBVIOUS
  <2> HIDE DEF selected, meanwhile
  <2> QED BY <2>1, <2>2, <2>3, BellPickKeeps
<1>2. CASE Bell!SelectAll
  <2> DEFINE all == Bell!Cardinality(ui.selected) = Bell!Cardinality(ui.list)
             selected == IF all THEN {} ELSE ui.list
             meanwhile == IF Bell!Deleting /\ ~all THEN ui.meanwhile \cup ui.list ELSE ui.meanwhile
  <2>1. /\ calls' = calls /\ db' = db
        /\ ui' = [ui EXCEPT !.selected = selected, !.meanwhile = meanwhile]
    BY <1>2 DEF Bell!SelectAll, BellInv, BellTyped
  <2>2. selected \subseteq db.sent /\ ui.meanwhile \subseteq meanwhile
    BY DEF BellInv, OnlySent
  <2>3. Bell!Deleting => selected \subseteq ui.selected \cup meanwhile
    OBVIOUS
  <2> HIDE DEF selected, meanwhile
  <2> QED BY <2>1, <2>2, <2>3, BellPickKeeps
<1>3. CASE Bell!Delete
  <2>1. ui.selected \subseteq db.sent
    BY DEF BellInv, OnlySent
  <2> QED BY <1>3, <2>1, BellSendKeeps DEF Bell!Delete
<1>4. CASE Bell!Read
  <2>1. ui.selected \cap ui.unread \subseteq db.sent
    BY DEF BellInv, OnlySent
  <2> QED BY <1>4, <2>1, BellSendKeeps DEF Bell!Read
<1>5. ASSUME NEW n, Bell!MarkNotificationAsRead(n) PROVE BellInv'
  <2>1. {n} \subseteq db.sent
    BY <1>5 DEF BellInv, OnlySent, Bell!MarkNotificationAsRead
  <2> QED BY <1>5, <2>1, BellSendKeeps DEF Bell!MarkNotificationAsRead
<1> QED BY <1>1, <1>2, <1>3, <1>4, <1>5, BellReceiveKeeps, BellHandleKeeps, BellArriveKeeps DEF Bell!Next

-----------------------------------------------------------------------------
(* The boot.                                                                 *)
BootInv ==
  /\ DOMAIN ui = Tabs
  /\ \A t \in Tabs : DOMAIN ui[t] = {"state", "version", "from", "cache", "booted", "set"}
  /\ \A c \in calls : DOMAIN c = {"tab", "handled", "file"} /\ c.tab \in Tabs
  /\ DOMAIN db = {"file", "deployed", "mode", "now", "config", "version", "last"}
  /\ db.config # Boot!NoCache => /\ Boot!Sound(db.config.file)
                                 /\ db.config.by = db.version \/ db.config.torn
  /\ Boot!BootsWithRecent

LEMMA BootInit == Boot!Init => BootInv
<1> SUFFICES ASSUME Boot!Init PROVE BootInv
  OBVIOUS
<1>1. /\ DOMAIN db = {"file", "deployed", "mode", "now", "config", "version", "last"} /\ db.config = Boot!NoCache
      /\ ui = [t \in Tabs |-> Boot!Closed] /\ calls = {}
  BY DEF Boot!Init
<1>2. /\ DOMAIN Boot!Closed = {"state", "version", "from", "cache", "booted", "set"}
      /\ Boot!Closed.state = "closed" /\ Boot!Closed.from = "none"
  BY DEF Boot!Closed, Boot!None
<1> HIDE DEF Boot!Closed
<1> QED BY <1>1, <1>2 DEF BootInv, Boot!BootsWithRecent

(* A tab whose page is another: what waits has its fetch, and what was taken *)
(* of the storage was recent.                                                *)
BootsWell(page, fetches) ==
  /\ DOMAIN page = {"state", "version", "from", "cache", "booted", "set"}
  /\ page.state = "loading" => fetches
  /\ page.from = "storage" =>
       /\ page.booted - page.cache.at <= Ttl
       /\ page.cache.by = page.version \/ page.cache.torn
       /\ page.set = Boot!Mapped \cap Boot!ToSet(page.cache.file.keys)

LEMMA BootTabKeeps ==
  ASSUME BootInv, NEW t \in Tabs, NEW page, ui' = [ui EXCEPT ![t] = page],
         BootsWell(page, \E c \in calls' : c.tab = t),
         \A c \in calls : c.tab # t => c \in calls',
         \A c \in calls' : DOMAIN c = {"tab", "handled", "file"} /\ c.tab \in Tabs,
         DOMAIN db' = DOMAIN db,
         db'.config # Boot!NoCache => /\ Boot!Sound(db'.config.file)
                                      /\ db'.config.by = db'.version \/ db'.config.torn
  PROVE  BootInv'
<1>1. DOMAIN ui' = Tabs /\ ui'[t] = page /\ \A x \in Tabs : x # t => ui'[x] = ui[x]
  BY DEF BootInv
<1>2. Boot!BootsWithRecent'
  <2> SUFFICES ASSUME NEW x \in Tabs
               PROVE  /\ ui'[x].state = "loading" => \E c \in calls' : c.tab = x
                      /\ ui'[x].from = "storage" =>
                           /\ ui'[x].booted - ui'[x].cache.at <= Ttl
                           /\ ui'[x].cache.by = ui'[x].version \/ ui'[x].cache.torn
                           /\ ui'[x].set = Boot!Mapped \cap Boot!ToSet(ui'[x].cache.file.keys)
    BY DEF Boot!BootsWithRecent
  <2>1. CASE x = t
    BY <1>1, <2>1 DEF BootsWell
  <2>2. CASE x # t
    BY <1>1, <2>2 DEF BootInv, Boot!BootsWithRecent
  <2> QED BY <2>1, <2>2
<1> QED BY <1>1, <1>2 DEF BootInv, BootsWell

LEMMA BootOpenKeeps == ASSUME BootInv, NEW t \in Tabs, Boot!Open(t) PROVE BootInv'
<1> DEFINE cached == db.mode = "production" /\ Boot!CachedConfig(db.deployed)
<1>1. db' = db
  BY DEF Boot!Open
<1>2. ASSUME NEW from, NEW cache, Boot!Boot(t, from, cache), calls' = calls,
             from \in {"build", "storage"},
             from = "storage" => cache = db.config /\ Boot!CachedConfig(db.deployed)
      PROVE  BootInv'
  <2> DEFINE page == [state |-> "ready", version |-> db.deployed, from |-> from, cache |-> cache,
                      booted |-> db.now, set |-> Boot!Applied(cache.file)]
  <2>1. ui' = [ui EXCEPT ![t] = page]
    BY <1>2 DEF Boot!Boot
  <2>2. /\ DOMAIN page = {"state", "version", "from", "cache", "booted", "set"}
        /\ page.state = "ready" /\ page.version = db.deployed /\ page.from = from /\ page.cache = cache
        /\ page.booted = db.now /\ page.set = Boot!Applied(cache.file)
    OBVIOUS
  <2> HIDE DEF page
  <2>3. from = "storage" =>
          /\ db.now - cache.at <= Ttl
          /\ cache.by = db.deployed \/ cache.torn
          /\ Boot!Applied(cache.file) = Boot!Mapped \cap Boot!ToSet(cache.file.keys)
    <3> SUFFICES ASSUME cache = db.config, Boot!CachedConfig(db.deployed)
                 PROVE  /\ db.now - cache.at <= Ttl
                        /\ cache.by = db.deployed \/ cache.torn
                        /\ Boot!Applied(cache.file) = Boot!Mapped \cap Boot!ToSet(cache.file.keys)
      BY <1>2
    <3>1. /\ db.config # Boot!NoCache /\ db.version = db.deployed /\ db.now - db.config.at <= Ttl
      BY DEF Boot!CachedConfig
    <3>2. Boot!Sound(db.config.file) /\ (db.config.by = db.version \/ db.config.torn)
      BY <3>1 DEF BootInv
    <3> QED BY <3>1, <3>2 DEF Boot!Applied
  <2>4. BootsWell(page, \E c \in calls' : c.tab = t)
    BY <1>2, <2>2, <2>3 DEF BootsWell
  <2> QED BY <1>1, <1>2, <2>1, <2>4, BootTabKeeps DEF BootInv
<1>3. CASE db.mode = "disabled" /\ Boot!Boot(t, "build", Boot!NoCache) /\ calls' = calls
  BY <1>2, <1>3
<1>4. CASE cached /\ Boot!Boot(t, "storage", db.config) /\ calls' = calls
  BY <1>2, <1>4
<1>5. CASE /\ ui' = [ui EXCEPT ![t] = [Boot!Closed EXCEPT !.state = "loading", !.version = db.deployed]]
           /\ calls' = calls \cup {[tab |-> t, handled |-> FALSE, file |-> Boot!NoFile]}
  <2> DEFINE page == [Boot!Closed EXCEPT !.state = "loading", !.version = db.deployed]
             fetch == [tab |-> t, handled |-> FALSE, file |-> Boot!NoFile]
  <2>1. DOMAIN page = {"state", "version", "from", "cache", "booted", "set"} /\ page.from = "none"
    BY DEF Boot!Closed, Boot!None
  <2>2. fetch.tab = t /\ fetch \in calls' /\ DOMAIN fetch = {"tab", "handled", "file"}
        /\ calls' = calls \cup {fetch} /\ ui' = [ui EXCEPT ![t] = page]
    BY <1>5
  <2> HIDE DEF page, fetch
  <2>3. BootsWell(page, \E c \in calls' : c.tab = t)
    BY <2>1, <2>2 DEF BootsWell
  <2> QED BY <1>1, <2>2, <2>3, BootTabKeeps DEF BootInv
<1> QED BY <1>3, <1>4, <1>5 DEF Boot!Open

LEMMA BootHandleKeeps == ASSUME BootInv, NEW c \in calls, Boot!Handle(c) PROVE BootInv'
<1>1. PICK file \in {db.file, db.last} :
        /\ calls' = (calls \ {c}) \cup {[c EXCEPT !.handled = TRUE, !.file = file]}
        /\ db' = [db EXCEPT !.last = file]
  BY DEF Boot!Handle
<1> DEFINE answered == [c EXCEPT !.handled = TRUE, !.file = file]
<1>2. calls' = (calls \ {c}) \cup {answered} /\ ui' = ui
  BY <1>1 DEF Boot!Handle
<1>3. answered.tab = c.tab /\ DOMAIN answered = {"tab", "handled", "file"}
  BY DEF BootInv
<1> HIDE DEF answered
<1>4. DOMAIN db' = DOMAIN db /\ db'.config = db.config /\ db'.version = db.version
  BY <1>1 DEF BootInv
<1>5. Boot!BootsWithRecent'
  BY <1>2, <1>3 DEF BootInv, Boot!BootsWithRecent
<1> QED BY <1>2, <1>3, <1>4, <1>5 DEF BootInv

LEMMA BootArriveKeeps == ASSUME BootInv, NEW c \in calls, Boot!Arrive(c) PROVE BootInv'
<1> DEFINE t == c.tab
           cache == [file |-> c.file, at |-> db.now, by |-> ui[t].version, torn |-> FALSE]
<1>1. calls' = calls \ {c}
  BY DEF Boot!Arrive
<1>2. /\ DOMAIN db' = DOMAIN db
      /\ db'.config # Boot!NoCache => /\ Boot!Sound(db'.config.file)
                                      /\ db'.config.by = db'.version \/ db'.config.torn
  <2>1. CASE db' = db
    BY <2>1 DEF BootInv
  <2>2. CASE Boot!Stores(c.file) /\ db' = [db EXCEPT !.config = cache, !.version = cache.by]
    <3>1. DOMAIN db' = DOMAIN db /\ db'.config = cache /\ db'.version = cache.by
      BY <2>2 DEF BootInv
    <3> QED BY <2>2, <3>1 DEF Boot!Stores
  <2>3. CASE Boot!Stores(c.file) /\ db' = [db EXCEPT !.config = [cache EXCEPT !.torn = TRUE]]
    <3>1. DOMAIN db' = DOMAIN db /\ db'.config = [cache EXCEPT !.torn = TRUE]
      BY <2>3 DEF BootInv
    <3> QED BY <2>3, <3>1 DEF Boot!Stores
  <2> QED BY <2>1, <2>2, <2>3 DEF Boot!Arrive, Boot!SetCachedConfig
<1>3. ASSUME NEW page, ui' = [ui EXCEPT ![t] = page], t \in Tabs,
             DOMAIN page = DOMAIN ui[t], page.state = "ready", page.from \in {"build", "server"}
      PROVE  BootInv'
  <2>1. BootsWell(page, \E d \in calls' : d.tab = t)
    BY <1>3 DEF BootsWell, BootInv
  <2> HIDE DEF t
  <2>2. \A d \in calls : d.tab # t => d \in calls'
    BY <1>1 DEF t
  <2> QED BY <1>1, <1>2, <1>3, <2>1, <2>2, BootTabKeeps DEF BootInv
<1>4. t \in Tabs
  BY DEF BootInv
<1>5. CASE Boot!AfterFailure(t)
  <2> DEFINE page == [ui[t] EXCEPT !.state = "ready", !.from = "build"]
  <2>1. ui' = [ui EXCEPT ![t] = page]
    BY <1>4, <1>5 DEF Boot!AfterFailure, BootInv
  <2>2. DOMAIN page = DOMAIN ui[t] /\ page.state = "ready" /\ page.from = "build"
    BY <1>4, <1>5 DEF BootInv
  <2> HIDE DEF page
  <2> QED BY <1>3, <1>4, <1>5, <2>1, <2>2
<1>6. CASE ui' = [ui EXCEPT ![t].state = "ready", ![t].from = "server", ![t].set = Boot!Applied(c.file)]
  <2> DEFINE page == [ui[t] EXCEPT !.state = "ready", !.from = "server", !.set = Boot!Applied(c.file)]
  <2>1. ui' = [ui EXCEPT ![t] = page]
    BY <1>4, <1>6 DEF BootInv
  <2>2. DOMAIN page = DOMAIN ui[t] /\ page.state = "ready" /\ page.from = "server"
    BY <1>4, <1>6 DEF BootInv
  <2> HIDE DEF page
  <2> QED BY <1>3, <1>4, <1>6, <2>1, <2>2
<1> QED BY <1>5, <1>6 DEF Boot!Arrive

LEMMA BootStep == ASSUME BootInv, Boot!Next PROVE BootInv'
<1>1. ASSUME NEW t \in Tabs, Boot!Close(t) PROVE BootInv'
  <2>1. ui' = [ui EXCEPT ![t] = Boot!Closed] /\ calls' = {c \in calls : c.tab # t} /\ db' = db
    BY <1>1 DEF Boot!Close
  <2>2. BootsWell(Boot!Closed, \E c \in calls' : c.tab = t)
    BY DEF BootsWell, Boot!Closed, Boot!None
  <2> QED BY <2>1, <2>2, BootTabKeeps DEF BootInv
<1>2. CASE Boot!Deploy
  <2>1. PICK file \in Boot!Files : db' = [db EXCEPT !.deployed = @ + 1, !.file = file]
    BY <1>2 DEF Boot!Deploy
  <2>2. DOMAIN db' = DOMAIN db /\ db'.config = db.config /\ db'.version = db.version /\ ui' = ui /\ calls' = calls
    BY <1>2, <2>1 DEF BootInv, Boot!Deploy
  <2> QED BY <2>2 DEF BootInv, Boot!BootsWithRecent
<1>3. CASE Boot!Tick
  <2>1. DOMAIN db' = DOMAIN db /\ db'.config = db.config /\ db'.version = db.version /\ ui' = ui /\ calls' = calls
    BY <1>3 DEF BootInv, Boot!Tick
  <2> QED BY <2>1 DEF BootInv, Boot!BootsWithRecent
<1> QED BY <1>1, <1>2, <1>3, BootOpenKeeps, BootHandleKeeps, BootArriveKeeps DEF Boot!Next

-----------------------------------------------------------------------------
(* The OAuth apps.  One dialog's request is under way at most.               *)
OfDialog(c) == c.op \in {"rotate", "toggle"} \/ (c.op = "load" /\ c.app = "toggle")

AppsTyped ==
  /\ DOMAIN ui = {"apps", "form", "editing", "revealed", "grantsFor", "grants", "uploading", "dialog", "ops"}
  /\ DOMAIN ui.dialog = {"kind", "app", "off", "busy"} /\ DOMAIN ui.revealed = {"app", "secret", "rotated"}
  /\ DOMAIN db = {"apps", "secrets", "grants", "lost"}
  /\ \A c \in calls : DOMAIN c = {"op", "app", "sent", "handled", "ok", "answer", "grants"}

AppsKnown ==
  /\ DOMAIN db.secrets = DOMAIN db.apps /\ DOMAIN ui.apps \subseteq DOMAIN db.apps
  /\ ui.dialog # OauthApp!NoDialog => ui.dialog.kind \in {"rotate", "toggle"} /\ ui.dialog.app \in DOMAIN db.apps
  /\ ui.revealed.rotated => ui.revealed.app \in DOMAIN db.apps
  /\ \A c \in calls : c.op = "rotate" => c.app \in DOMAIN db.apps
  /\ \A c \in calls : c.op = "load" /\ c.handled => DOMAIN c.answer.apps \subseteq DOMAIN db.apps

OneDialog ==
  /\ \A c \in calls : OfDialog(c) => ui.dialog # OauthApp!NoDialog /\ ui.dialog.busy
  /\ \A c, d \in calls : OfDialog(c) /\ OfDialog(d) => c = d

Rotated(c) == c.op = "rotate" /\ c.handled /\ c.ok

SecretsKnown ==
  /\ \A c \in calls : Rotated(c) /\ c.app \notin db.lost => c.answer.secrets[c.app] = db.secrets[c.app]
  /\ ui.revealed.rotated /\ ui.revealed.app \notin db.lost =>
        \/ ui.revealed.secret = db.secrets[ui.revealed.app]
        \/ \E c \in calls : Rotated(c) /\ c.app = ui.revealed.app

AppsInv == AppsTyped /\ AppsKnown /\ OneDialog /\ SecretsKnown

AppsPage == {"apps", "form", "editing", "revealed", "grantsFor", "grants", "uploading", "dialog", "ops"}
AppsRequest == {"op", "app", "sent", "handled", "ok", "answer", "grants"}

LEMMA AppsBlanks ==
  /\ DOMAIN OauthApp!NoDialog = {"kind", "app", "off", "busy"} /\ DOMAIN OauthApp!NoSecret = {"app", "secret", "rotated"}
  /\ ~OauthApp!NoSecret.rotated
BY DEF OauthApp!NoDialog, OauthApp!NoSecret

LEMMA AppsInit == OauthApp!Init => AppsInv
<1> SUFFICES ASSUME OauthApp!Init PROVE AppsInv
  OBVIOUS
<1> DEFINE load == OauthApp!Call("load", OauthApp!None, OauthApp!NoForm)
<1>1. DOMAIN load = AppsRequest /\ load.op = "load" /\ load.app = "none" /\ ~load.handled
  BY DEF OauthApp!Call, OauthApp!None, AppsRequest
<1>2. calls = {load}
  BY DEF OauthApp!Init
<1> HIDE DEF load
<1>3. /\ DOMAIN ui = AppsPage /\ ui.apps = <<>> /\ ui.dialog = OauthApp!NoDialog /\ ui.revealed = OauthApp!NoSecret
      /\ DOMAIN db = {"apps", "secrets", "grants", "lost"} /\ DOMAIN db.apps = DOMAIN db.secrets
  BY DEF OauthApp!Init, AppsPage
<1>4. DOMAIN ui.apps = {}
  BY <1>3
<1>5. AppsTyped
  BY <1>1, <1>2, <1>3, AppsBlanks DEF AppsTyped, AppsPage, AppsRequest
<1>6. AppsKnown
  BY <1>1, <1>2, <1>3, <1>4, AppsBlanks DEF AppsKnown
<1>7. OneDialog /\ SecretsKnown
  BY <1>1, <1>2, <1>3, AppsBlanks DEF OneDialog, SecretsKnown, OfDialog, Rotated
<1> QED BY <1>5, <1>6, <1>7 DEF AppsInv

(* What the page does on its own, in its form and its dialogs.               *)
LEMMA AppsActKeeps ==
  ASSUME AppsInv, calls' = calls, db' = db, DOMAIN ui' = DOMAIN ui, ui'.apps = ui.apps,
         ui'.revealed \in {ui.revealed, OauthApp!NoSecret},
         DOMAIN ui'.dialog = {"kind", "app", "off", "busy"},
         ui'.dialog # OauthApp!NoDialog => ui'.dialog.kind \in {"rotate", "toggle"} /\ ui'.dialog.app \in DOMAIN db.apps,
         ui'.dialog = ui.dialog \/ \A c \in calls : ~OfDialog(c)
  PROVE  AppsInv'
<1> USE DEF AppsInv
<1>1. AppsTyped' /\ AppsKnown'
  BY AppsBlanks DEF AppsTyped, AppsKnown
<1>2. OneDialog'
  BY DEF OneDialog, OfDialog
<1>3. SecretsKnown'
  BY AppsBlanks DEF SecretsKnown, Rotated
<1> QED BY <1>1, <1>2, <1>3

LEMMA AppsSendKeeps ==
  ASSUME AppsInv, NEW op, NEW app, NEW sent, NEW new, OauthApp!Send(op, app, sent, new), op # "load",
         DOMAIN new = DOMAIN ui, new.apps = ui.apps, new.revealed = ui.revealed,
         op \notin {"rotate", "toggle"} => new.dialog = ui.dialog,
         op \in {"rotate", "toggle"} =>
           /\ \A c \in calls : ~OfDialog(c)
           /\ DOMAIN new.dialog = {"kind", "app", "off", "busy"}
           /\ new.dialog # OauthApp!NoDialog /\ new.dialog.busy /\ new.dialog.kind \in {"rotate", "toggle"}
           /\ new.dialog.app = app /\ app \in DOMAIN db.apps
  PROVE  AppsInv'
<1> USE DEF AppsInv
<1> DEFINE request == OauthApp!Call(op, app, sent)
<1>1. DOMAIN request = AppsRequest /\ request.op = op /\ request.app = app /\ ~request.handled
  BY DEF OauthApp!Call, AppsRequest
<1>2. calls' = calls \cup {request} /\ ui' = [new EXCEPT !.ops = @ + 1] /\ db' = db
  BY DEF OauthApp!Send
<1> HIDE DEF request
<1>3. /\ DOMAIN ui' = DOMAIN ui /\ ui'.apps = ui.apps /\ ui'.revealed = ui.revealed /\ ui'.dialog = new.dialog
  BY <1>2 DEF AppsTyped
<1>4. AppsTyped'
  BY <1>1, <1>2, <1>3 DEF AppsTyped, AppsRequest
<1>5. AppsKnown'
  BY <1>1, <1>2, <1>3 DEF AppsKnown
<1>6. OneDialog'
  BY <1>1, <1>2, <1>3 DEF OneDialog, OfDialog
<1>7. SecretsKnown'
  BY <1>1, <1>2, <1>3 DEF SecretsKnown, Rotated
<1> QED BY <1>4, <1>5, <1>6, <1>7

(* What the API stores changes the secret of the app that is rotated.        *)
LEMMA StoredSecrets ==
  ASSUME AppsInv, NEW c \in calls, NEW new, c.op = "create" => new \notin DOMAIN db.apps
  PROVE  LET next == OauthApp!Stored(c, new) IN
         /\ DOMAIN next = DOMAIN db /\ next.lost = db.lost
         /\ DOMAIN next.secrets = DOMAIN next.apps /\ DOMAIN db.apps \subseteq DOMAIN next.apps
         /\ \A a \in DOMAIN db.apps : next.secrets[a] = db.secrets[a] \/ (c.op = "rotate" /\ a = c.app)
<1> USE DEF AppsInv, AppsTyped, AppsKnown
<1>1. CASE c.op = "create"
  <2> DEFINE app == [name |-> c.sent.name, scope |-> c.sent.scope, logo |-> c.sent.logo, on |-> TRUE]
  <2>1. OauthApp!Stored(c, new) =
          [db EXCEPT !.apps = OauthApp!Put(db.apps, new, app), !.secrets = OauthApp!Put(db.secrets, new, 1),
                     !.grants = OauthApp!Put(db.grants, new, {})]
    BY <1>1 DEF OauthApp!Stored
  <2> HIDE DEF app
  <2>2. /\ DOMAIN OauthApp!Put(db.apps, new, app) = DOMAIN db.apps \cup {new}
        /\ DOMAIN OauthApp!Put(db.secrets, new, 1) = DOMAIN db.apps \cup {new}
        /\ \A a \in DOMAIN db.apps : OauthApp!Put(db.secrets, new, 1)[a] = db.secrets[a]
    BY <1>1 DEF OauthApp!Put
  <2>3. /\ OauthApp!Stored(c, new).secrets = OauthApp!Put(db.secrets, new, 1)
        /\ OauthApp!Stored(c, new).apps = OauthApp!Put(db.apps, new, app)
        /\ OauthApp!Stored(c, new).lost = db.lost /\ DOMAIN OauthApp!Stored(c, new) = DOMAIN db
    BY <2>1
  <2> QED BY <2>2, <2>3
<1>2. CASE c.op = "update"
  <2> DEFINE apps == [db.apps EXCEPT ![c.app].name = c.sent.name, ![c.app].scope = c.sent.scope,
                                     ![c.app].logo = c.sent.logo]
  <2>1. OauthApp!Stored(c, new) = [db EXCEPT !.apps[c.app].name = c.sent.name, !.apps[c.app].scope = c.sent.scope,
                                             !.apps[c.app].logo = c.sent.logo]
    BY <1>2 DEF OauthApp!Stored
  <2>2. OauthApp!Stored(c, new) = [db EXCEPT !.apps = apps]
    BY <2>1
  <2>3. DOMAIN apps = DOMAIN db.apps
    OBVIOUS
  <2> HIDE DEF apps
  <2> QED BY <2>2, <2>3
<1>3. CASE c.op = "rotate"
  <2> DEFINE secrets == [db.secrets EXCEPT ![c.app] = @ + 1]
  <2>1. OauthApp!Stored(c, new) = [db EXCEPT !.secrets = secrets]
    BY <1>3 DEF OauthApp!Stored
  <2>2. DOMAIN secrets = DOMAIN db.secrets /\ \A a \in DOMAIN db.secrets : a # c.app => secrets[a] = db.secrets[a]
    OBVIOUS
  <2> HIDE DEF secrets
  <2> QED BY <1>3, <2>1, <2>2
<1>4. CASE c.op = "toggle"
  <2> DEFINE apps == [db.apps EXCEPT ![c.app].on = ~c.sent.open]
             grants == [db.grants EXCEPT ![c.app] = IF c.sent.open THEN {} ELSE @]
  <2>1. OauthApp!Stored(c, new) =
          [db EXCEPT !.apps[c.app].on = ~c.sent.open, !.grants[c.app] = IF c.sent.open THEN {} ELSE @]
    BY <1>4 DEF OauthApp!Stored
  <2>2. OauthApp!Stored(c, new) = [db EXCEPT !.apps = apps, !.grants = grants]
    BY <2>1
  <2>3. DOMAIN apps = DOMAIN db.apps
    OBVIOUS
  <2> HIDE DEF apps, grants
  <2> QED BY <2>2, <2>3
<1>5. CASE c.op = "revoke"
  <2> DEFINE grants == [a \in DOMAIN db.grants |-> db.grants[a] \ {c.app}]
  <2>1. OauthApp!Stored(c, new) = [db EXCEPT !.grants = grants]
    BY <1>5 DEF OauthApp!Stored
  <2> HIDE DEF grants
  <2> QED BY <2>1
<1>6. CASE c.op \notin {"create", "update", "rotate", "toggle", "revoke"}
  BY <1>6 DEF OauthApp!Stored
<1> QED BY <1>1, <1>2, <1>3, <1>4, <1>5, <1>6

LEMMA AppsHandleKeeps == ASSUME AppsInv, NEW c \in calls, OauthApp!Handle(c) PROVE AppsInv'
<1> USE DEF AppsInv
<1>1. PICK done \in BOOLEAN, ok \in BOOLEAN, new \in Apps :
        /\ ok => done
        /\ c.op = "create" => new \notin DOMAIN db.apps
        /\ c.op # "create" => new = CHOOSE a \in Apps : TRUE
        /\ c.op \in {"create", "update"} /\ (c.sent.name = OauthApp!Blank \/ c.sent.scope = "missing") => ~done
        /\ LET next == IF done THEN OauthApp!Stored(c, new) ELSE db
               missed == IF c.op = "rotate" /\ done /\ ~ok THEN {c.app} ELSE {}
               answer == IF c.op \in {"load", "rotate"}
                         THEN [apps |-> next.apps, secrets |-> next.secrets] ELSE OauthApp!NoAnswer
           IN /\ db' = [next EXCEPT !.lost = @ \cup missed]
              /\ calls' = (calls \ {c}) \cup
                   {[c EXCEPT !.handled = TRUE, !.ok = ok, !.answer = answer,
                              !.sent = [OauthApp!NoForm EXCEPT !.of = c.sent.of],
                              !.app = IF c.op = "create" THEN new ELSE @,
                              !.grants = IF c.op = "grants" THEN next.grants[c.app] ELSE {}]}
  BY DEF OauthApp!Handle
<1> DEFINE next == IF done THEN OauthApp!Stored(c, new) ELSE db
           missed == IF c.op = "rotate" /\ done /\ ~ok THEN {c.app} ELSE {}
           answer == IF c.op \in {"load", "rotate"}
                     THEN [apps |-> next.apps, secrets |-> next.secrets] ELSE OauthApp!NoAnswer
           answered == [c EXCEPT !.handled = TRUE, !.ok = ok, !.answer = answer,
                                 !.sent = [OauthApp!NoForm EXCEPT !.of = c.sent.of],
                                 !.app = IF c.op = "create" THEN new ELSE @,
                                 !.grants = IF c.op = "grants" THEN next.grants[c.app] ELSE {}]
<1>2. db' = [next EXCEPT !.lost = @ \cup missed] /\ calls' = (calls \ {c}) \cup {answered}
  BY <1>1
<1>3. ui' = ui /\ ~c.handled
  BY DEF OauthApp!Handle
<1>4. /\ DOMAIN next = DOMAIN db /\ next.lost = db.lost
      /\ DOMAIN next.secrets = DOMAIN next.apps /\ DOMAIN db.apps \subseteq DOMAIN next.apps
      /\ \A a \in DOMAIN db.apps :
           next.secrets[a] = db.secrets[a] \/ (c.op = "rotate" /\ done /\ a = c.app)
  BY <1>1, StoredSecrets DEF AppsKnown
<1>5. c.op \in {"load", "rotate"} => answer.apps = next.apps /\ answer.secrets = next.secrets
  OBVIOUS
<1>6. /\ DOMAIN answered = AppsRequest /\ answered.op = c.op /\ (c.op # "create" => answered.app = c.app)
      /\ answered.handled = TRUE /\ answered.ok = ok /\ answered.answer = answer
  BY DEF AppsTyped, AppsRequest
<1> HIDE DEF next, answer, answered
<1>7. /\ DOMAIN db' = DOMAIN db /\ db'.lost = db.lost \cup missed
      /\ db'.apps = next.apps /\ db'.secrets = next.secrets
  BY <1>2, <1>4 DEF AppsTyped
<1>8. AppsTyped'
  BY <1>2, <1>3, <1>6, <1>7 DEF AppsTyped, AppsRequest
<1>9. AppsKnown'
  BY <1>2, <1>3, <1>4, <1>5, <1>6, <1>7 DEF AppsKnown
<1>10. OneDialog'
  BY <1>2, <1>3, <1>6 DEF OneDialog, OfDialog
<1>11. \A d \in calls' : Rotated(d) /\ d.app \notin db'.lost => d.answer.secrets[d.app] = db'.secrets[d.app]
  <2> SUFFICES ASSUME NEW d \in calls', Rotated(d), d.app \notin db'.lost, d # answered
               PROVE  d.answer.secrets[d.app] = db'.secrets[d.app]
    BY <1>5, <1>6, <1>7 DEF Rotated
  <2>1. d \in calls /\ d # c /\ d.op = "rotate"
    BY <1>2 DEF Rotated
  <2>2. c.op # "rotate"
    BY <2>1 DEF OneDialog, OfDialog
  <2>3. d.app \in DOMAIN db.apps /\ d.app \notin db.lost
    BY <2>1, <1>7 DEF AppsKnown
  <2> QED BY <2>1, <2>2, <2>3, <1>4, <1>7 DEF SecretsKnown
<1>12. ui.revealed.rotated /\ ui.revealed.app \notin db'.lost =>
         \/ ui.revealed.secret = db'.secrets[ui.revealed.app]
         \/ \E d \in calls' : Rotated(d) /\ d.app = ui.revealed.app
  <2> SUFFICES ASSUME ui.revealed.rotated, ui.revealed.app \notin db'.lost
               PROVE  \/ ui.revealed.secret = db'.secrets[ui.revealed.app]
                      \/ \E d \in calls' : Rotated(d) /\ d.app = ui.revealed.app
    OBVIOUS
  <2>1. ui.revealed.app \in DOMAIN db.apps /\ ui.revealed.app \notin db.lost
    BY <1>7 DEF AppsKnown
  <2>2. CASE c.op = "rotate" /\ done /\ ui.revealed.app = c.app
    <3>1. ok
      BY <2>2, <1>7
    <3> QED BY <2>2, <3>1, <1>2, <1>6 DEF Rotated
  <2>3. CASE ~(c.op = "rotate" /\ done /\ ui.revealed.app = c.app)
    <3>1. db'.secrets[ui.revealed.app] = db.secrets[ui.revealed.app]
      BY <2>1, <2>3, <1>4, <1>7
    <3>2. \A d \in calls : Rotated(d) => d \in calls'
      BY <1>2, <1>3 DEF Rotated
    <3> QED BY <2>1, <3>1, <3>2 DEF SecretsKnown
  <2> QED BY <2>2, <2>3
<1> QED BY <1>3, <1>8, <1>9, <1>10, <1>11, <1>12 DEF SecretsKnown

(* An answer that arrived.                                                   *)
LEMMA AppsArrived ==
  ASSUME AppsInv, NEW c \in calls, c.handled, db' = db, calls' = calls \ {c},
         DOMAIN ui' = DOMAIN ui, DOMAIN ui'.apps \subseteq DOMAIN db.apps,
         ui'.dialog = ui.dialog \/ (ui'.dialog = OauthApp!NoDialog /\ OfDialog(c)),
         DOMAIN ui'.revealed = {"app", "secret", "rotated"},
         \/ ui'.revealed = ui.revealed /\ ~Rotated(c)
         \/ ~ui'.revealed.rotated
         \/ Rotated(c) /\ ui'.revealed.app = c.app /\ ui'.revealed.secret = c.answer.secrets[c.app]
  PROVE  AppsInv'
<1> USE DEF AppsInv
<1>1. AppsTyped'
  BY AppsBlanks DEF AppsTyped, AppsRequest
<1>2. AppsKnown'
  BY DEF AppsKnown, Rotated
<1>3. OneDialog'
  BY DEF OneDialog, OfDialog
<1>4. SecretsKnown'
  BY DEF SecretsKnown, Rotated
<1> QED BY <1>1, <1>2, <1>3, <1>4

(* An answer after which the apps are loaded again.                          *)
LEMMA AppsReloads ==
  ASSUME AppsInv, NEW c \in calls, c.handled, db' = db, NEW load, calls' = (calls \ {c}) \cup {load},
         DOMAIN load = AppsRequest, load.op = "load", ~load.handled, OfDialog(load) => OfDialog(c), ~Rotated(c),
         DOMAIN ui' = DOMAIN ui, ui'.apps = ui.apps, ui'.dialog = ui.dialog,
         DOMAIN ui'.revealed = {"app", "secret", "rotated"},
         ui'.revealed = ui.revealed \/ ~ui'.revealed.rotated
  PROVE  AppsInv'
<1> USE DEF AppsInv
<1>1. AppsTyped'
  BY DEF AppsTyped, AppsRequest
<1>2. AppsKnown'
  BY DEF AppsKnown
<1>3. OneDialog'
  BY DEF OneDialog, OfDialog
<1>4. SecretsKnown'
  BY DEF SecretsKnown, Rotated
<1> QED BY <1>1, <1>2, <1>3, <1>4

LEMMA AppsArriveKeeps == ASSUME AppsInv, NEW c \in calls, OauthApp!Arrive(c) PROVE AppsInv'
<1> USE DEF AppsInv
<1> DEFINE load == OauthApp!Call("load", c.op, OauthApp!NoForm)
           closed == [ui EXCEPT !.form = OauthApp!NoForm, !.editing = OauthApp!None]
<1>1. c.handled /\ db' = db
  BY DEF OauthApp!Arrive
<1>2. DOMAIN load = AppsRequest /\ load.op = "load" /\ load.app = c.op /\ ~load.handled
  BY DEF OauthApp!Call, AppsRequest
<1>3. /\ DOMAIN closed = DOMAIN ui /\ closed.apps = ui.apps /\ closed.dialog = ui.dialog
      /\ closed.revealed = ui.revealed
  BY DEF AppsTyped
<1>4. /\ DOMAIN ui.apps \subseteq DOMAIN db.apps /\ DOMAIN ui.revealed = {"app", "secret", "rotated"}
      /\ DOMAIN ui = AppsPage
  BY DEF AppsKnown, AppsTyped, AppsPage
<1>5. CASE ~c.ok
  <2>0. ~Rotated(c) /\ calls' = calls \ {c}
    BY <1>5 DEF Rotated, OauthApp!Arrive
  <2>1. CASE c.op = "upload"
    <3>1. ui' = [ui EXCEPT !.uploading = FALSE]
      BY <1>5, <2>1 DEF OauthApp!Arrive
    <3>2. /\ DOMAIN ui' = DOMAIN ui /\ ui'.apps = ui.apps /\ ui'.dialog = ui.dialog /\ ui'.revealed = ui.revealed
      BY <3>1, <1>4 DEF AppsPage
    <3> QED BY <1>1, <1>4, <2>0, <3>2, AppsArrived
  <2>2. CASE OfDialog(c)
    <3>1. ui' = [ui EXCEPT !.dialog = OauthApp!NoDialog]
      BY <1>5, <2>2 DEF OauthApp!Arrive, OfDialog
    <3>2. /\ DOMAIN ui' = DOMAIN ui /\ ui'.apps = ui.apps /\ ui'.dialog = OauthApp!NoDialog
          /\ ui'.revealed = ui.revealed
      BY <3>1, <1>4 DEF AppsPage
    <3> QED BY <1>1, <1>4, <2>0, <2>2, <3>2, AppsArrived
  <2>3. CASE c.op # "upload" /\ ~OfDialog(c)
    <3>1. ui' = ui
      BY <1>5, <2>3 DEF OauthApp!Arrive, OfDialog
    <3> QED BY <1>1, <1>4, <2>0, <3>1, AppsArrived
  <2> QED BY <2>1, <2>2, <2>3
<1>6. CASE c.ok /\ c.op = "update"
  <2>1. ui' = closed /\ calls' = (calls \ {c}) \cup {load}
    BY <1>6 DEF OauthApp!Arrive, OauthApp!Reload
  <2> HIDE DEF load, closed
  <2>2. ~Rotated(c) /\ ~OfDialog(load)
    BY <1>2, <1>6 DEF Rotated, OfDialog
  <2> QED BY <1>1, <1>2, <1>3, <1>4, <2>1, <2>2, AppsReloads
<1>7. CASE c.ok /\ c.op = "create"
  <2> DEFINE secret == [app |-> c.app, secret |-> 1, rotated |-> FALSE]
  <2>1. ui' = [closed EXCEPT !.revealed = secret] /\ calls' = (calls \ {c}) \cup {load}
    BY <1>7 DEF OauthApp!Arrive, OauthApp!Reload
  <2> HIDE DEF load, closed
  <2>2. ~OfDialog(load) /\ ~Rotated(c)
    BY <1>2, <1>7 DEF OfDialog, Rotated
  <2>3. /\ DOMAIN ui' = DOMAIN ui /\ ui'.apps = ui.apps /\ ui'.dialog = ui.dialog
        /\ ui'.revealed = secret
    BY <2>1, <1>3, <1>4 DEF AppsPage
  <2>4. DOMAIN secret = {"app", "secret", "rotated"} /\ ~secret.rotated
    OBVIOUS
  <2> HIDE DEF secret
  <2> QED BY <1>1, <1>2, <1>4, <2>1, <2>2, <2>3, <2>4, AppsReloads
<1>8. CASE c.ok /\ c.op = "toggle"
  <2>1. ui' = ui /\ calls' = (calls \ {c}) \cup {load}
    BY <1>8 DEF OauthApp!Arrive, OauthApp!Reload
  <2> HIDE DEF load, closed
  <2>2. OfDialog(c) /\ ~Rotated(c)
    BY <1>8 DEF OfDialog, Rotated
  <2> QED BY <1>1, <1>2, <1>4, <2>1, <2>2, AppsReloads
<1>9. CASE c.ok /\ c.op \in {"load", "upload", "rotate", "grants", "revoke"}
  <2> HIDE DEF load, closed
  <2>0. calls' = calls \ {c}
    BY <1>9 DEF OauthApp!Arrive
  <2>1. CASE c.op = "load"
    <3>1. ui' = [ui EXCEPT !.apps = c.answer.apps, !.dialog = IF c.app = "toggle" THEN OauthApp!NoDialog ELSE @]
      BY <1>9, <2>1 DEF OauthApp!Arrive
    <3>2. /\ DOMAIN ui' = DOMAIN ui /\ ui'.apps = c.answer.apps /\ ui'.revealed = ui.revealed
          /\ ui'.dialog = IF c.app = "toggle" THEN OauthApp!NoDialog ELSE ui.dialog
      BY <3>1, <1>4 DEF AppsPage
    <3>3. DOMAIN c.answer.apps \subseteq DOMAIN db.apps
      BY <1>1, <2>1 DEF AppsKnown
    <3>4. ~Rotated(c) /\ (c.app = "toggle" => OfDialog(c))
      BY <2>1 DEF Rotated, OfDialog
    <3> QED BY <1>1, <1>4, <2>0, <3>2, <3>3, <3>4, AppsArrived
  <2>2. CASE c.op = "rotate"
    <3> DEFINE secret == [app |-> c.app, secret |-> c.answer.secrets[c.app], rotated |-> TRUE]
    <3>1. ui' = [ui EXCEPT !.dialog = OauthApp!NoDialog, !.revealed = secret]
      BY <1>9, <2>2 DEF OauthApp!Arrive
    <3>2. /\ DOMAIN ui' = DOMAIN ui /\ ui'.apps = ui.apps /\ ui'.dialog = OauthApp!NoDialog
          /\ ui'.revealed = secret
      BY <3>1, <1>4 DEF AppsPage
    <3>3. /\ DOMAIN secret = {"app", "secret", "rotated"} /\ secret.app = c.app
          /\ secret.secret = c.answer.secrets[c.app]
      OBVIOUS
    <3>4. Rotated(c) /\ OfDialog(c)
      BY <1>1, <1>9, <2>2 DEF Rotated, OfDialog
    <3> HIDE DEF secret
    <3> QED BY <1>1, <1>4, <2>0, <3>2, <3>3, <3>4, AppsArrived
  <2>3. CASE c.op \in {"upload", "grants", "revoke"}
    <3>1. /\ DOMAIN ui' = DOMAIN ui /\ ui'.apps = ui.apps /\ ui'.dialog = ui.dialog
          /\ ui'.revealed = ui.revealed
      <4>1. CASE c.op = "upload"
        <5> DEFINE form == [ui.form EXCEPT !.logo = "logo", !.open = TRUE,
                                           !.scope = IF ui.form.open THEN ui.form.scope ELSE "missing"]
        <5>1. ui' = [ui EXCEPT !.uploading = FALSE, !.form = form]
          BY <1>9, <4>1, <1>4 DEF OauthApp!Arrive, AppsPage
        <5> HIDE DEF form
        <5> QED BY <5>1, <1>4 DEF AppsPage
      <4>2. CASE c.op = "grants"
        <5>1. ui' = [ui EXCEPT !.grants = c.grants]
          BY <1>9, <4>2 DEF OauthApp!Arrive
        <5> QED BY <5>1, <1>4 DEF AppsPage
      <4>3. CASE c.op = "revoke"
        <5>1. ui' = [ui EXCEPT !.grants = @ \ {c.app}]
          BY <1>9, <4>3 DEF OauthApp!Arrive
        <5> QED BY <5>1, <1>4 DEF AppsPage
      <4> QED BY <2>3, <4>1, <4>2, <4>3
    <3>2. ~Rotated(c)
      BY <2>3 DEF Rotated
    <3> QED BY <1>1, <1>4, <2>0, <3>1, <3>2, AppsArrived
  <2> QED BY <1>9, <2>1, <2>2, <2>3
<1> QED BY <1>5, <1>6, <1>7, <1>8, <1>9 DEF OauthApp!Arrive

LEMMA AppsStep == ASSUME AppsInv, OauthApp!Next PROVE AppsInv'
<1> USE DEF AppsPage
<1>0. /\ DOMAIN ui = AppsPage /\ DOMAIN ui.dialog = {"kind", "app", "off", "busy"}
      /\ ui.dialog # OauthApp!NoDialog => ui.dialog.kind \in {"rotate", "toggle"} /\ ui.dialog.app \in DOMAIN db.apps
  BY DEF AppsInv, AppsTyped, AppsKnown
<1>1. ASSUME NEW new, OauthApp!Act(new), DOMAIN new = DOMAIN ui, new.apps = ui.apps, new.dialog = ui.dialog,
             new.revealed \in {ui.revealed, OauthApp!NoSecret}
      PROVE  AppsInv'
  BY <1>0, <1>1, AppsActKeeps DEF OauthApp!Act
<1>2. CASE OauthApp!StartCreate
  BY <1>0, <1>1, <1>2 DEF OauthApp!StartCreate
<1>3. ASSUME NEW app, OauthApp!StartEdit(app) PROVE AppsInv'
  BY <1>0, <1>1, <1>3 DEF OauthApp!StartEdit
<1>4. CASE OauthApp!CancelForm
  BY <1>0, <1>1, <1>4 DEF OauthApp!CancelForm
<1>5. ASSUME NEW name, OauthApp!SetField(name) PROVE AppsInv'
  <2> DEFINE form == [ui.form EXCEPT !.name = name]
  <2>1. OauthApp!Act([ui EXCEPT !.form = form])
    BY <1>5, <1>0 DEF OauthApp!SetField
  <2> HIDE DEF form
  <2> QED BY <1>0, <1>1, <2>1
<1>6. CASE OauthApp!ToggleScope
  <2> DEFINE form == [ui.form EXCEPT !.scope = IF @ = "on" THEN "off" ELSE "on"]
  <2>1. OauthApp!Act([ui EXCEPT !.form = form])
    BY <1>6, <1>0 DEF OauthApp!ToggleScope
  <2> HIDE DEF form
  <2> QED BY <1>0, <1>1, <2>1
<1>7. CASE OauthApp!RemoveLogo
  <2> DEFINE form == [ui.form EXCEPT !.logo = OauthApp!Blank]
  <2>1. OauthApp!Act([ui EXCEPT !.form = form])
    BY <1>7, <1>0 DEF OauthApp!RemoveLogo
  <2> HIDE DEF form
  <2> QED BY <1>0, <1>1, <2>1
<1>8. CASE OauthApp!HideGrants
  BY <1>0, <1>1, <1>8 DEF OauthApp!HideGrants
<1>9. CASE OauthApp!DismissSecret
  BY <1>0, <1>1, <1>9 DEF OauthApp!DismissSecret
<1>10. CASE OauthApp!UploadLogo
  BY <1>0, <1>10, AppsSendKeeps DEF OauthApp!UploadLogo
<1>11. CASE OauthApp!Save
  <2> DEFINE op == IF ui.editing = OauthApp!None THEN "create" ELSE "update"
  <2>1. OauthApp!Send(op, ui.editing, ui.form, ui) /\ op \in {"create", "update"}
    BY <1>11 DEF OauthApp!Save
  <2> HIDE DEF op
  <2> QED BY <2>1, AppsSendKeeps
<1>12. ASSUME NEW app, OauthApp!ShowGrants(app) PROVE AppsInv'
  <2> DEFINE new == [ui EXCEPT !.grantsFor = app, !.grants = {}]
  <2>1. OauthApp!Send("grants", app, OauthApp!NoForm, new)
    BY <1>12 DEF OauthApp!ShowGrants
  <2>2. DOMAIN new = DOMAIN ui /\ new.apps = ui.apps /\ new.revealed = ui.revealed /\ new.dialog = ui.dialog
    BY <1>0
  <2> HIDE DEF new
  <2> QED BY <2>1, <2>2, AppsSendKeeps
<1>13. ASSUME NEW g, OauthApp!RevokeGrant(g) PROVE AppsInv'
  BY <1>13, AppsSendKeeps DEF OauthApp!RevokeGrant
<1>14. ASSUME NEW kind \in {"rotate", "toggle"}, NEW app \in DOMAIN ui.apps, OauthApp!OpenDialog(kind, app)
       PROVE  AppsInv'
  <2> DEFINE dialog == [kind |-> kind, app |-> app, off |-> kind = "toggle" /\ ui.apps[app].on, busy |-> FALSE]
  <2>1. /\ ui.dialog = OauthApp!NoDialog /\ ui' = [ui EXCEPT !.dialog = dialog] /\ calls' = calls /\ db' = db
    BY <1>14 DEF OauthApp!OpenDialog, OauthApp!Act, OauthApp!Free
  <2>2. DOMAIN dialog = {"kind", "app", "off", "busy"} /\ dialog.kind = kind /\ dialog.app = app
    OBVIOUS
  <2> HIDE DEF dialog
  <2>3. app \in DOMAIN db.apps /\ \A c \in calls : ~OfDialog(c)
    BY <2>1 DEF AppsInv, AppsKnown, OneDialog
  <2> QED BY <1>0, <2>1, <2>2, <2>3, AppsActKeeps
<1>15. CASE OauthApp!Decline
  <2>1. ~ui.dialog.busy /\ ui' = [ui EXCEPT !.dialog = OauthApp!NoDialog] /\ calls' = calls /\ db' = db
    BY <1>15 DEF OauthApp!Decline
  <2>2. \A c \in calls : ~OfDialog(c)
    BY <2>1 DEF AppsInv, OneDialog
  <2> QED BY <1>0, <2>1, <2>2, AppsActKeeps, AppsBlanks
<1>16. CASE OauthApp!ConfirmDialog
  <2> DEFINE dialog == [ui.dialog EXCEPT !.busy = TRUE]
             new == [ui EXCEPT !.dialog = dialog]
             sent == [OauthApp!NoForm EXCEPT !.open = ui.dialog.off]
  <2>1. /\ ~ui.dialog.busy /\ ui.dialog # OauthApp!NoDialog
        /\ OauthApp!Send(ui.dialog.kind, ui.dialog.app, sent, [ui EXCEPT !.dialog.busy = TRUE])
    BY <1>16 DEF OauthApp!ConfirmDialog, OauthApp!Free
  <2>2. [ui EXCEPT !.dialog.busy = TRUE] = new
    BY <1>0
  <2>3. /\ DOMAIN dialog = DOMAIN ui.dialog /\ dialog.busy = TRUE /\ dialog.kind = ui.dialog.kind
        /\ dialog.app = ui.dialog.app
    BY <1>0
  <2> HIDE DEF dialog
  <2>4. /\ DOMAIN new = DOMAIN ui /\ new.apps = ui.apps /\ new.revealed = ui.revealed /\ new.dialog = dialog
    BY <1>0
  <2> HIDE DEF new, sent
  <2>5. \A c \in calls : ~OfDialog(c)
    BY <2>1 DEF AppsInv, OneDialog
  <2>6. dialog # OauthApp!NoDialog
    BY <2>3 DEF OauthApp!NoDialog
  <2> QED BY <1>0, <2>1, <2>2, <2>3, <2>4, <2>5, <2>6, AppsSendKeeps
<1> QED BY <1>2, <1>3, <1>4, <1>5, <1>6, <1>7, <1>8, <1>9, <1>10, <1>11, <1>12, <1>13, <1>14, <1>15, <1>16,
           AppsHandleKeeps, AppsArriveKeeps
    DEF OauthApp!Next

-----------------------------------------------------------------------------
(* A set of numbers has a least one, and if it is bounded a greatest.        *)
LEMMA LeastOf == ASSUME NEW T \in SUBSET Nat, T # {} PROVE \E x \in T : \A y \in T : x <= y
<1>1. PICK x \in T : \A y \in T : ~(<<y, x>> \in OpToRel(<, Nat))
  BY NatLessThanWellFounded, WFMin
<1>2. ASSUME NEW y \in T PROVE x <= y
  <2> DEFINE pair == <<y, x>>
  <2>1. pair \in Nat \X Nat /\ pair[1] = y /\ pair[2] = x /\ pair \notin OpToRel(<, Nat)
    BY <1>1
  <2> HIDE DEF pair
  <2>2. ~(y < x)
    BY <2>1 DEF OpToRel
  <2> QED BY <2>2
<1> QED BY <1>1, <1>2

LEMMA GreatestOf == ASSUME NEW n \in Nat, NEW T \in SUBSET (0..n), T # {} PROVE \E x \in T : \A y \in T : y <= x
<1> DEFINE Rest == {n - y : y \in T}
<1>1. Rest \in SUBSET Nat
  <2>1. \A y \in T : n - y \in Nat
    OBVIOUS
  <2> QED BY <2>1
<1>0. Rest # {}
  <2>1. PICK y \in T : TRUE
    OBVIOUS
  <2>2. n - y \in Rest
    BY <2>1
  <2> QED BY <2>2
<1>2. PICK x \in Rest : \A y \in Rest : x <= y
  BY <1>0, <1>1, LeastOf
<1>3. PICK z \in T : x = n - z
  BY <1>2
<1>4. ASSUME NEW y \in T PROVE y <= z
  <2>1. n - z <= n - y
    BY <1>2, <1>3
  <2> QED BY <2>1
<1> QED BY <1>4

(* However they are ordered, one of them is the n-th.                        *)
Orders(before, S) ==
  /\ \A x \in S : <<x, x>> \in before
  /\ \A x, y \in S : <<x, y>> \in before /\ <<y, x>> \in before => x = y
  /\ \A x, y, z \in S : <<x, y>> \in before /\ <<y, z>> \in before => <<x, z>> \in before
  /\ \A T \in SUBSET S : T # {} =>
       /\ \E x \in T : \A y \in T : <<x, y>> \in before
       /\ \E x \in T : \A y \in T : <<y, x>> \in before

Upto(before, S, o) == {x \in S : <<x, o>> \in before}

LEMMA NthOf ==
  ASSUME NEW S, IsFiniteSet(S), NEW before, Orders(before, S)
  PROVE  \A n \in 1..Cardinality(S) : \E o \in S : Cardinality(Upto(before, S, o)) = n
<1> TAKE n \in 1..Cardinality(S)
<1> DEFINE far == {o \in S : Cardinality(Upto(before, S, o)) >= n}
<1> USE DEF Upto
<1>0. Cardinality(S) \in Nat
  BY FS_CardinalityType
<1>1. \A o \in S : Upto(before, S, o) \in SUBSET S /\ IsFiniteSet(Upto(before, S, o)) /\ Cardinality(Upto(before, S, o)) \in Nat
  BY FS_Subset, FS_CardinalityType
<1>2. \A o \in S : \A x : x \in Upto(before, S, o) <=> x \in S /\ <<x, o>> \in before
  OBVIOUS
<1>3. far \in SUBSET S /\ \A o \in S : o \in far <=> Cardinality(Upto(before, S, o)) >= n
  OBVIOUS
<1>4. S # {}
  BY <1>0, FS_EmptySet
<1>5. PICK last \in S : \A y \in S : <<y, last>> \in before
  BY <1>4 DEF Orders
<1> HIDE DEF far
<1>6. far # {}
  <2>1. Upto(before, S, last) = S
    BY <1>5
  <2> QED BY <2>1, <1>0, <1>3
<1>7. PICK o \in far : \A y \in far : <<o, y>> \in before
  BY <1>3, <1>6 DEF Orders
<1> HIDE DEF Upto
<1>8. ASSUME Cardinality(Upto(before, S, o)) # n PROVE FALSE
  <2> DEFINE earlier == Upto(before, S, o) \ {o}
  <2>0. o \in S /\ Cardinality(Upto(before, S, o)) \in Nat /\ n \in Nat /\ Cardinality(Upto(before, S, o)) >= n
    BY <1>0, <1>1, <1>3, <1>7
  <2>1. Cardinality(Upto(before, S, o)) > n /\ o \in Upto(before, S, o) /\ o \in S
    <3>1. o \in Upto(before, S, o)
      BY <1>2, <2>0 DEF Orders
    <3>2. Cardinality(Upto(before, S, o)) > n
      BY <1>8, <2>0
    <3> QED BY <2>0, <3>1, <3>2
  <2>2. IsFiniteSet(earlier) /\ Cardinality(earlier) = Cardinality(Upto(before, S, o)) - 1
    BY <1>1, <2>1, FS_RemoveElement
  <2>3. earlier \in SUBSET S /\ \A y : y \in earlier <=> y \in S /\ <<y, o>> \in before /\ y # o
    BY <1>1, <1>2, <2>1
  <2> HIDE DEF earlier
  <2>4. earlier # {} /\ Cardinality(earlier) >= n
    BY <1>0, <1>1, <2>1, <2>2, FS_EmptySet
  <2>5. PICK m \in earlier : \A y \in earlier : <<y, m>> \in before
    BY <2>3, <2>4 DEF Orders
  <2>6. ASSUME NEW y \in Upto(before, S, m) PROVE y \in earlier
    <3>1. y \in S /\ <<y, m>> \in before /\ m \in S /\ <<m, o>> \in before /\ m # o
      BY <1>2, <2>3, <2>5, <2>6
    <3>2. <<y, o>> \in before /\ y # o
      BY <2>1, <3>1 DEF Orders
    <3> QED BY <2>3, <3>1, <3>2
  <2>7. Upto(before, S, m) = earlier
    BY <1>2, <2>3, <2>5, <2>6
  <2>8. m \in far
    BY <1>3, <2>3, <2>4, <2>5, <2>7
  <2> QED BY <1>7, <2>1, <2>3, <2>5, <2>8 DEF Orders
<1>9. o \in S /\ Cardinality(Upto(before, S, o)) = n
  BY <1>3, <1>7, <1>8
<1> QED BY <1>9

(* In a list of numbers each page has its row, in either order.              *)
Bounded(S) == \E k \in Nat : S \subseteq 0..k

LEMMA BoundedFinite == ASSUME NEW S, Bounded(S) PROVE IsFiniteSet(S)
<1>1. PICK k \in Nat : S \subseteq 0..k
  BY DEF Bounded
<1>2. IsFiniteSet(0..k)
  BY FS_Interval
<1> QED BY <1>1, <1>2, FS_Subset

Ordered(S, up) == {p \in S \X S : IF up THEN p[1] <= p[2] ELSE p[1] >= p[2]}

LEMMA OrderedOrders == ASSUME NEW S, Bounded(S), NEW up \in BOOLEAN PROVE Orders(Ordered(S, up), S)
<1>0. PICK k \in Nat : S \subseteq 0..k
  BY DEF Bounded
<1> DEFINE before == Ordered(S, up)
<1>1. S \in SUBSET Int
  BY <1>0
<1>2. \A x, y \in S : <<x, y>> \in before <=> IF up THEN x <= y ELSE x >= y
  BY DEF Ordered
<1> HIDE DEF before
<1>3. /\ \A x \in S : <<x, x>> \in before
      /\ \A x, y \in S : <<x, y>> \in before /\ <<y, x>> \in before => x = y
      /\ \A x, y, z \in S : <<x, y>> \in before /\ <<y, z>> \in before => <<x, z>> \in before
  BY <1>1, <1>2
<1>4. ASSUME NEW T \in SUBSET S, T # {}
      PROVE  /\ \E x \in T : \A y \in T : <<x, y>> \in before
             /\ \E x \in T : \A y \in T : <<y, x>> \in before
  <2>1. T \in SUBSET Nat /\ T \in SUBSET (0..k)
    BY <1>0
  <2>2. PICK least \in T : \A y \in T : least <= y
    BY <1>4, <2>1, LeastOf
  <2>3. PICK most \in T : \A y \in T : y <= most
    BY <1>4, <2>1, GreatestOf
  <2>4. \A x, y \in T : <<x, y>> \in before <=> IF up THEN x <= y ELSE x >= y
    BY <1>2
  <2>5. \A x, y \in T : x <= y <=> y >= x
    BY <1>1
  <2> QED BY <2>2, <2>3, <2>4, <2>5
<1>5. Orders(before, S)
  BY <1>3, <1>4 DEF Orders
<1> QED BY <1>5 DEF before

LEMMA PageHasRow ==
  ASSUME NEW S, Bounded(S), NEW up \in BOOLEAN, NEW n \in 1..Cardinality(S)
  PROVE  \E o \in S : Cardinality(Upto(Ordered(S, up), S, o)) = n
BY BoundedFinite, OrderedOrders, NthOf

-----------------------------------------------------------------------------
(* The list of organizations.                                                *)
ListInv ==
  /\ DOMAIN ui = {"params", "rows", "exported", "moved", "failed", "left"}
  /\ DOMAIN ui.params = {"query", "name", "view", "sort", "page"}
  /\ \A c \in calls : c.params = ui.params
  /\ ui.left => calls = {}
  /\ calls = {} /\ ~ui.failed /\ ~ui.left => ui.rows = Listed!Row(ui.params)
  /\ ui.exported # Rows => ui.exported \subseteq ui.rows
  /\ ui.params.view = {} \/ \E v \in Listed!Views : ui.params.view = {v}
  /\ ui.params.sort \in {"up", "down"}
  /\ ~ui.moved => ui.params.page = 1 \/ ui.params.page \in 1 .. Listed!Cardinality(Listed!Matching(ui.params))

ListPage == {"params", "rows", "exported", "moved", "failed", "left"}
ListFilters == {"query", "name", "view", "sort", "page"}

LEMMA ListBounded == ASSUME NEW params PROVE Bounded(Listed!Matching(params))
<1>1. PICK n \in Nat : Rows \subseteq 0..n
  <2>1. CASE Rows = {}
    BY <2>1
  <2>2. CASE Rows # {}
    <3>1. PICK last \in Rows : \A o \in Rows : o <= last
      BY <2>2, ListAssumption DEF Listed!OrgsAssumption
    <3>2. Rows \subseteq 0..last /\ last \in Nat
      BY <3>1, ListAssumption DEF Listed!OrgsAssumption
    <3> QED BY <3>2
  <2> QED BY <2>1, <2>2
<1>2. Listed!Matching(params) \subseteq Rows
  BY DEF Listed!Matching
<1> QED BY <1>1, <1>2 DEF Bounded

(* What matches depends on no page, and a page in range has a row.           *)
LEMMA ListRow ==
  ASSUME NEW params, params.sort \in {"up", "down"}, Listed!Matching(params) # {},
         params.page = 1 \/ params.page \in 1 .. Listed!Cardinality(Listed!Matching(params))
  PROVE  Listed!Row(params) # {}
<1> DEFINE S == Listed!Matching(params)
           up == params.sort = "up"
<1>1. Bounded(S) /\ IsFiniteSet(S)
  BY ListBounded, BoundedFinite
<1>2. \A T : Listed!Cardinality(T) = Cardinality(T)
  BY DEF Listed!Cardinality, Cardinality
<1>3. Cardinality(S) \in Nat /\ Cardinality(S) >= 1
  BY <1>1, FS_CardinalityType, FS_EmptySet
<1>4. params.page \in 1 .. Cardinality(S)
  BY <1>2, <1>3
<1> HIDE DEF S
<1>5. up \in BOOLEAN
  OBVIOUS
<1> HIDE DEF up
<1>6. PICK o \in S : Cardinality(Upto(Ordered(S, up), S, o)) = params.page
  BY <1>1, <1>4, <1>5, PageHasRow
<1>7. Upto(Ordered(S, up), S, o) = {x \in S : IF up THEN x <= o ELSE x >= o}
  BY DEF Upto, Ordered
<1> QED BY <1>2, <1>6, <1>7 DEF S, up, Listed!Row

LEMMA ListInit == Listed!Init => ListInv
<1> SUFFICES ASSUME Listed!Init PROVE ListInv
  OBVIOUS
<1> DEFINE params == Listed!NoParams
<1>1. /\ DOMAIN params = ListFilters /\ params.view = {} /\ params.sort = "up" /\ params.page = 1
  BY DEF Listed!NoParams, ListFilters
<1> HIDE DEF params
<1>2. /\ ui = [params |-> params, rows |-> {}, exported |-> {}, moved |-> FALSE, failed |-> FALSE, left |-> FALSE]
      /\ calls = {[op |-> "query", params |-> params]}
  BY DEF Listed!Init, params
<1>3. \A c \in calls : c.params = params
  BY <1>2
<1>4. /\ DOMAIN ui = ListPage /\ ui.params = params /\ ui.exported = {}
      /\ ~ui.left /\ ~ui.failed /\ calls # {}
  BY <1>2 DEF ListPage
<1> QED BY <1>1, <1>3, <1>4 DEF ListInv, ListFilters, ListPage

(* Every change of the filters keeps the list's promise.                     *)
LEMMA ListSetKeeps ==
  ASSUME ListInv, NEW params, NEW moved, Listed!Set(params, moved),
         DOMAIN params = ListFilters, params.sort \in {"up", "down"},
         params.view = {} \/ \E v \in Listed!Views : params.view = {v},
         ~moved => params.page = 1 \/ params.page \in 1 .. Listed!Cardinality(Listed!Matching(params))
  PROVE  ListInv'
<1>1. /\ ui' = [ui EXCEPT !.params = params, !.moved = moved] /\ calls' = Listed!Loading(params)
      /\ ~ui.left
  BY DEF Listed!Set
<1>2. DOMAIN ui = ListPage
  BY DEF ListInv, ListPage
<1>3. /\ DOMAIN ui' = DOMAIN ui /\ ui'.params = params /\ ui'.moved = moved /\ ui'.rows = ui.rows
      /\ ui'.exported = ui.exported /\ ui'.failed = ui.failed /\ ui'.left = ui.left
  BY <1>1, <1>2 DEF ListPage
<1>4. CASE params = ui.params
  <2>1. calls' = calls
    BY <1>1, <1>4 DEF Listed!Loading
  <2> QED BY <1>1, <1>3, <1>4, <2>1 DEF ListInv, ListFilters
<1>5. CASE params # ui.params
  <2> DEFINE load == [op |-> "query", params |-> params]
  <2>1. calls' = {load}
    BY <1>1, <1>5 DEF Listed!Loading
  <2>2. load.params = params
    OBVIOUS
  <2> HIDE DEF load
  <2> QED BY <1>1, <1>3, <2>1, <2>2 DEF ListInv, ListFilters
<1> QED BY <1>4, <1>5

LEMMA ListStep == ASSUME ListInv, Listed!Next PROVE ListInv'
<1> DEFINE params == ui.params
<1>0. /\ DOMAIN ui = ListPage /\ DOMAIN params = ListFilters /\ params.sort \in {"up", "down"}
      /\ params.view = {} \/ \E v \in Listed!Views : params.view = {v}
      /\ ~ui.moved => params.page = 1 \/ params.page \in 1 .. Listed!Cardinality(Listed!Matching(params))
  BY DEF ListInv, ListPage, ListFilters
<1> USE DEF ListPage, ListFilters
<1>1. CASE Listed!DoSearch
  <2>1. PICK found \in BOOLEAN : Listed!Set(Listed!Search(ui.params, found), FALSE)
    BY <1>1 DEF Listed!DoSearch
  <2> DEFINE new == Listed!Search(ui.params, found)
  <2>2. DOMAIN new = DOMAIN params /\ new.sort = params.sort /\ new.view = params.view /\ new.page = 1
    BY <1>0 DEF Listed!Search
  <2> HIDE DEF new
  <2> QED BY <1>0, <2>1, <2>2, ListSetKeeps DEF new
<1>2. CASE Listed!DoSort
  <2> DEFINE new == Listed!SortOrganizations(ui.params)
  <2>1. Listed!Set(new, FALSE)
    BY <1>2 DEF Listed!DoSort
  <2>2. DOMAIN new = DOMAIN params /\ new.sort \in {"up", "down"} /\ new.view = params.view /\ new.page = 1
    BY <1>0 DEF Listed!SortOrganizations
  <2> HIDE DEF new
  <2> QED BY <1>0, <2>1, <2>2, ListSetKeeps
<1>3. CASE Listed!DoClearView
  <2> DEFINE new == Listed!ClearSavedView(ui.params)
  <2>1. Listed!Set(new, FALSE)
    BY <1>3 DEF Listed!DoClearView
  <2>2. DOMAIN new = DOMAIN params /\ new.sort = params.sort /\ new.view = {} /\ new.page = 1
    BY <1>0 DEF Listed!ClearSavedView
  <2> HIDE DEF new
  <2> QED BY <1>0, <2>1, <2>2, ListSetKeeps
<1>4. CASE Listed!DoApplyView
  <2>1. PICK v \in Listed!Views : Listed!Set(Listed!ApplySavedView(ui.params, v), FALSE)
    BY <1>4 DEF Listed!DoApplyView
  <2> DEFINE clear == Listed!ClearSavedView(ui.params)
             new == [clear EXCEPT !.view = {v}]
  <2>2. Listed!Set(new, FALSE)
    BY <2>1 DEF Listed!ApplySavedView
  <2>3. DOMAIN clear = DOMAIN params /\ clear.sort = params.sort /\ clear.page = 1
    BY <1>0 DEF Listed!ClearSavedView
  <2> HIDE DEF clear
  <2>4. DOMAIN new = DOMAIN params /\ new.sort = params.sort /\ new.view = {v} /\ new.page = 1
    BY <1>0, <2>3
  <2> HIDE DEF new
  <2> QED BY <1>0, <2>2, <2>4, ListSetKeeps
<1>5. CASE Listed!DoClearFilters
  <2> DEFINE clear == Listed!ClearSavedView(ui.params)
             new == [clear EXCEPT !.name = FALSE, !.query = FALSE]
  <2>2. Listed!Set(new, FALSE)
    BY <1>5 DEF Listed!DoClearFilters, Listed!ClearFilters
  <2>3. DOMAIN clear = DOMAIN params /\ clear.sort = params.sort /\ clear.page = 1 /\ clear.view = {}
    BY <1>0 DEF Listed!ClearSavedView
  <2> HIDE DEF clear
  <2>4. DOMAIN new = DOMAIN params /\ new.sort = params.sort /\ new.view = {} /\ new.page = 1
    BY <1>0, <2>3
  <2> HIDE DEF new
  <2> QED BY <1>0, <2>2, <2>4, ListSetKeeps
<1>6. ASSUME NEW n, Listed!GoToPage(n) PROVE ListInv'
  <2> DEFINE new == [ui.params EXCEPT !.page = n]
  <2>1. Listed!Set(new, ui.moved) /\ n \in 1 .. Listed!Cardinality(Listed!Matching(params))
    BY <1>6 DEF Listed!GoToPage
  <2>2. /\ DOMAIN new = DOMAIN params /\ new.sort = params.sort /\ new.view = params.view /\ new.page = n
        /\ new.query = params.query /\ new.name = params.name
    BY <1>0
  <2> HIDE DEF new
  <2>3. Listed!Matching(new) = Listed!Matching(params)
    BY <2>2 DEF Listed!Matching
  <2> QED BY <1>0, <2>1, <2>2, <2>3, ListSetKeeps
<1>7. ASSUME NEW on, Listed!FilterByName(on) PROVE ListInv'
  <2> DEFINE new == [ui.params EXCEPT !.name = on]
  <2>1. Listed!Set(new, TRUE)
    BY <1>7 DEF Listed!FilterByName
  <2>2. DOMAIN new = DOMAIN params /\ new.sort = params.sort /\ new.view = params.view
    BY <1>0
  <2> HIDE DEF new
  <2> QED BY <1>0, <2>1, <2>2, ListSetKeeps
<1>8. ASSUME NEW c \in calls, Listed!Answered(c) PROVE ListInv'
  <2>1. c.params = ui.params /\ ~ui.left /\ calls' = calls \ {c}
    BY <1>8 DEF ListInv, Listed!Answered
  <2>2. CASE ui' = [ui EXCEPT !.rows = Listed!Row(c.params), !.failed = FALSE, !.exported = {}]
    <3>1. /\ DOMAIN ui' = DOMAIN ui /\ ui'.params = ui.params /\ ui'.moved = ui.moved
          /\ ui'.rows = Listed!Row(ui.params) /\ ui'.exported = {} /\ ui'.left = ui.left
      BY <1>0, <2>1, <2>2
    <3> QED BY <2>1, <3>1 DEF ListInv
  <2>3. CASE ui' = [ui EXCEPT !.failed = TRUE]
    <3>1. /\ DOMAIN ui' = DOMAIN ui /\ ui'.params = ui.params /\ ui'.moved = ui.moved
          /\ ui'.rows = ui.rows /\ ui'.exported = ui.exported /\ ui'.left = ui.left /\ ui'.failed
      BY <1>0, <2>3
    <3> QED BY <2>1, <3>1 DEF ListInv
  <2> QED BY <1>8, <2>2, <2>3 DEF Listed!Answered
<1>9. ASSUME NEW o, Listed!Check(o) PROVE ListInv'
  BY <1>9 DEF ListInv, Listed!Check
<1>10. CASE Listed!ExportOrganization
  <2> DEFINE chosen == IF Listed!SelectedOrganizations = {} THEN Rows ELSE Listed!SelectedOrganizations
  <2>1. ui' = [ui EXCEPT !.exported = chosen] /\ calls' = calls /\ ~ui.left
    BY <1>10 DEF Listed!ExportOrganization
  <2>2. chosen # Rows => chosen \subseteq ui.rows
    BY DEF Listed!SelectedOrganizations
  <2> HIDE DEF chosen
  <2>3. /\ DOMAIN ui' = DOMAIN ui /\ ui'.params = ui.params /\ ui'.moved = ui.moved
        /\ ui'.rows = ui.rows /\ ui'.exported = chosen /\ ui'.left = ui.left /\ ui'.failed = ui.failed
    BY <1>0, <2>1
  <2> QED BY <2>1, <2>2, <2>3 DEF ListInv
<1>11. CASE Listed!GoToCompany
  <2>1. ui' = [ui EXCEPT !.left = TRUE, !.exported = {}] /\ calls' = {}
    BY <1>11 DEF Listed!GoToCompany
  <2>2. /\ DOMAIN ui' = DOMAIN ui /\ ui'.params = ui.params /\ ui'.moved = ui.moved
        /\ ui'.rows = ui.rows /\ ui'.exported = {} /\ ui'.left /\ ui'.failed = ui.failed
    BY <1>0, <2>1
  <2> QED BY <2>1, <2>2 DEF ListInv
<1>12. CASE Listed!Return
  <2> DEFINE load == [op |-> "query", params |-> ui.params]
  <2>1. ui' = [ui EXCEPT !.left = FALSE] /\ calls' = {load}
    BY <1>12 DEF Listed!Return
  <2>2. load.params = ui.params
    OBVIOUS
  <2> HIDE DEF load
  <2>3. /\ DOMAIN ui' = DOMAIN ui /\ ui'.params = ui.params /\ ui'.moved = ui.moved
        /\ ui'.rows = ui.rows /\ ui'.exported = ui.exported /\ ~ui'.left /\ ui'.failed = ui.failed
    BY <1>0, <2>1
  <2> QED BY <2>1, <2>2, <2>3 DEF ListInv
<1> HIDE DEF params
<1> QED BY <1>1, <1>2, <1>3, <1>4, <1>5, <1>6, <1>7, <1>8, <1>9, <1>10, <1>11, <1>12 DEF Listed!Next

LEMMA ListHolds == ASSUME ListInv PROVE Listed!ListShowsWhatMatches
<1>1. Listed!Cardinality(ui.params.view) <= 1
  <2>1. \A T : Listed!Cardinality(T) = Cardinality(T)
    BY DEF Listed!Cardinality, Cardinality
  <2>2. CASE ui.params.view = {}
    BY <2>1, <2>2, FS_EmptySet
  <2>3. CASE \E v \in Listed!Views : ui.params.view = {v}
    <3>1. PICK v : ui.params.view = {v}
      BY <2>3
    <3>2. Cardinality({v}) = 1
      BY FS_Singleton
    <3> QED BY <2>1, <3>1, <3>2
  <2> QED BY <2>2, <2>3 DEF ListInv
<1>2. ~ui.moved /\ Listed!Matching(ui.params) # {} => Listed!Row(ui.params) # {}
  BY ListRow DEF ListInv
<1> QED BY <1>1, <1>2 DEF ListInv, Listed!ListShowsWhatMatches

PagesIInv ==
  /\ part = "boot" => BootInv
  /\ part = "bell" => BellInv
  /\ part = "oauth-apps" => AppsInv
  /\ part = "token" => TokenInv
  /\ part = "list" => ListInv
  /\ part = "details" => DetailsInv
  /\ part = "consumers" => ConsumersInv


LEMMA PagesStand ==
  ASSUME UNCHANGED screenVars
  PROVE  /\ BootInv => BootInv'
         /\ BellInv => BellInv'
         /\ AppsInv => AppsInv'
         /\ TokenInv => TokenInv'
         /\ ListInv => ListInv'
         /\ DetailsInv => DetailsInv'
         /\ ConsumersInv => ConsumersInv'
<1> USE DEF screenVars
<1>1. BootInv => BootInv'
  BY DEF BootInv, Boot!BootsWithRecent
<1>2. BellInv => BellInv'
  BY DEF BellInv, BellTyped, OnlySent, AnsweredIsSo, Bell!AnnouncedIsSo
<1>3. AppsInv => AppsInv'
  BY DEF AppsInv, AppsTyped, AppsKnown, OneDialog, OfDialog, SecretsKnown, Rotated
<1>4. TokenInv => TokenInv'
  BY DEF TokenInv, TokenPage, TokenRequests, TokensAgree
<1>5. ListInv => ListInv'
  BY DEF ListInv
<1>6. DetailsInv => DetailsInv'
  BY DEF DetailsInv, DetailsTyped, DetailsPage, RemovedTakenOut, NamesAreTheSessions,
    Details!AnnouncedIsImpersonated
<1>7. ConsumersInv => ConsumersInv'
  BY DEF ConsumersInv, OfTheChoice
<1> QED BY <1>1, <1>2, <1>3, <1>4, <1>5, <1>6, <1>7

(* What a page shows or announces is so, whatever was answered late, lost or *)
(* changed meanwhile, for any number of tabs, notices, apps, tokens,         *)
(* organizations, companies and consumers (runtime-config.js,                *)
(* notifications.js, oauth-apps.js, platform-api-token.js,                   *)
(* admin/organizations, api-consumers.js).                                   *)
THEOREM PagesAlwaysTruthful == Spec => []PagesAreTruthful
<1>1. Init => PagesIInv
  BY BootInit, BellInit, AppsInit, TokenInit, ListInit, DetailsInit, ConsumersInit DEF Init, PagesIInv
<1>2. PagesIInv /\ [Next]_vars => PagesIInv'
  <2> SUFFICES ASSUME PagesIInv, [Next]_vars PROVE PagesIInv'
    OBVIOUS
  <2>1. part' = part
    BY DEF Next, vars
  <2>2. CASE UNCHANGED screenVars
    BY <2>1, <2>2, PagesStand DEF PagesIInv
  <2>3. CASE NextOnScreen
    <3>1. ASSUME part = "boot" PROVE BootInv'
      BY <2>3, <3>1, BootStep DEF PagesIInv, NextOnScreen
    <3>2. ASSUME part = "bell" PROVE BellInv'
      BY <2>3, <3>2, BellStep DEF PagesIInv, NextOnScreen
    <3>3. ASSUME part = "oauth-apps" PROVE AppsInv'
      BY <2>3, <3>3, AppsStep DEF PagesIInv, NextOnScreen
    <3>4. ASSUME part = "token" PROVE TokenInv'
      BY <2>3, <3>4, TokenStep DEF PagesIInv, NextOnScreen
    <3>5. ASSUME part = "list" PROVE ListInv'
      BY <2>3, <3>5, ListStep DEF PagesIInv, NextOnScreen
    <3>6. ASSUME part = "details" PROVE DetailsInv'
      BY <2>3, <3>6, DetailsStep DEF PagesIInv, NextOnScreen
    <3>7. ASSUME part = "consumers" PROVE ConsumersInv'
      BY <2>3, <3>7, ConsumersStep DEF PagesIInv, NextOnScreen
    <3> QED BY <2>1, <3>1, <3>2, <3>3, <3>4, <3>5, <3>6, <3>7 DEF PagesIInv
  <2> QED BY <2>2, <2>3 DEF Next, NextOfBuild, vars
<1>3. PagesIInv => PagesAreTruthful
  <2> SUFFICES ASSUME PagesIInv PROVE PagesAreTruthful
    OBVIOUS
  <2>1. ASSUME part = "oauth-apps" PROVE OauthApp!ShownSecretWorks
    BY <2>1 DEF PagesIInv, AppsInv, SecretsKnown, Rotated, OauthApp!ShownSecretWorks
  <2>2. ASSUME part = "token" PROVE Token!ShownTokenWorks
    BY <2>2 DEF PagesIInv, TokenInv, TokensAgree, Token!ShownTokenWorks, Token!None
  <2>3. ASSUME part = "details" PROVE Details!AnnouncedIsImpersonated /\ Details!RemovedAreGone
    BY <2>3 DEF PagesIInv, DetailsInv, NamesAreTheSessions, RemovedTakenOut, Details!RemovedAreGone,
      Details!None
  <2>4. ASSUME part = "consumers" PROVE Consumer!NumbersAreOfTheWindow
    BY <2>4 DEF PagesIInv, ConsumersInv, OfTheChoice, Consumer!NumbersAreOfTheWindow,
      Consumer!IsMinuteGranularity
  <2> QED BY <2>1, <2>2, <2>3, <2>4, ListHolds DEF PagesIInv, BootInv, BellInv, PagesAreTruthful
<1> QED BY <1>1, <1>2, <1>3, PTL DEF Spec
=============================================================================
