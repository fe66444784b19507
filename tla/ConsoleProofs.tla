---------------------------- MODULE ConsoleProofs ----------------------------
(***************************************************************************)
(* Theorems about the console's screens and scripts, whatever they are      *)
(* opened on and however much is asked for on them.                         *)
(***************************************************************************)
EXTENDS MCConsole, FiniteSetTheorems, SequenceTheorems, WellFoundedInduction, TLAPS

-----------------------------------------------------------------------------
(* The socket's test channel.  A page always has the fields of a new one.    *)
TestPage == DOMAIN ui = DOMAIN SocketTest!NewPage

TestIInv == part = "socket-test" => TestPage /\ SocketTest!OneOpen

LEMMA TestFields ==
  DOMAIN SocketTest!NewPage =
    {"settings", "shown", "inherits", "enabled", "mode", "ready", "dialog", "ops", "tests", "on",
     "channel", "open", "isLoading"}
BY DEF SocketTest!NewPage

LEMMA TestStep ==
  ASSUME TestPage, SocketTest!OneOpen, SocketTest!Next
  PROVE  TestPage' /\ SocketTest!OneOpen'
<1> USE TestFields DEF TestPage, SocketTest!OneOpen
<1>1. CASE SocketTest!Save
  BY <1>1 DEF SocketTest!Save, SocketTest!Perform
<1>2. CASE SocketTest!Confirm
  BY <1>2 DEF SocketTest!Confirm, SocketTest!Perform
<1>3. CASE SocketTest!Decline
  BY <1>3 DEF SocketTest!Decline
<1>4. CASE SocketTest!Refresh
  BY <1>4 DEF SocketTest!Refresh
<1>5. ASSUME NEW c \in calls, SocketTest!Handle(c) PROVE TestPage' /\ SocketTest!OneOpen'
  BY <1>5 DEF SocketTest!Handle
<1>6. ASSUME NEW c \in calls, SocketTest!Arrive(c) PROVE TestPage' /\ SocketTest!OneOpen'
  BY <1>6 DEF SocketTest!Arrive, SocketTest!Apply
<1>7. ASSUME NEW c \in calls, SocketTest!TestAnswered(c) PROVE TestPage' /\ SocketTest!OneOpen'
  BY <1>7 DEF SocketTest!TestAnswered, SocketTest!SubscribeToTestChannel
<1>8. ASSUME NEW field, SocketTest!ToggleInherit(field) PROVE TestPage' /\ SocketTest!OneOpen'
  BY <1>8 DEF SocketTest!ToggleInherit
<1>9. ASSUME NEW enabled, SocketTest!ToggleEnabled(enabled) PROVE TestPage' /\ SocketTest!OneOpen'
  BY <1>9 DEF SocketTest!ToggleEnabled
<1>10. ASSUME NEW mode, SocketTest!SetMode(mode) PROVE TestPage' /\ SocketTest!OneOpen'
  BY <1>10 DEF SocketTest!SetMode
<1>11. CASE SocketTest!TestSocketConnection
  BY <1>11 DEF SocketTest!TestSocketConnection
<1>12. CASE SocketTest!RouteWillChange
  BY <1>12 DEF SocketTest!RouteWillChange, SocketTest!NewPage
<1> QED
  BY <1>1, <1>2, <1>3, <1>4, <1>5, <1>6, <1>7, <1>8, <1>9, <1>10, <1>11, <1>12 DEF SocketTest!Next

(* The channel that is left open by a transition is none.                    *)
LEMMA TestCloses ==
  ASSUME TestPage, SocketTest!OneOpen, SocketTest!Next
  PROVE  SocketTest!LeavingCloses
<1> USE TestFields DEF TestPage
<1>1. ASSUME SocketTest!RouteWillChange PROVE ui'.open = {}
  BY <1>1 DEF SocketTest!RouteWillChange, SocketTest!NewPage, SocketTest!OneOpen
<1>2. CASE \E c \in calls : SocketTest!TestAnswered(c)
  BY <1>1, <1>2 DEF SocketTest!LeavingCloses
<1>3. CASE SocketTest!RouteWillChange
  BY <1>1, <1>3 DEF SocketTest!LeavingCloses
<1> DEFINE Same == ui'.open = ui.open
<1>4. CASE SocketTest!Save \/ SocketTest!Confirm \/ SocketTest!Decline \/ SocketTest!Refresh
  <2>1. Same
    BY <1>4 DEF SocketTest!Save, SocketTest!Confirm, SocketTest!Decline, SocketTest!Refresh,
                SocketTest!Perform
  <2> QED BY <1>1, <2>1 DEF SocketTest!LeavingCloses
<1>5. ASSUME NEW c \in calls, SocketTest!Handle(c) \/ SocketTest!Arrive(c)
      PROVE  SocketTest!LeavingCloses
  <2>1. Same
    BY <1>5 DEF SocketTest!Handle, SocketTest!Arrive, SocketTest!Apply
  <2> QED BY <1>1, <2>1 DEF SocketTest!LeavingCloses
<1>6. ASSUME NEW v, SocketTest!ToggleInherit(v) \/ SocketTest!ToggleEnabled(v) \/ SocketTest!SetMode(v)
      PROVE  SocketTest!LeavingCloses
  <2>1. Same
    BY <1>6 DEF SocketTest!ToggleInherit, SocketTest!ToggleEnabled, SocketTest!SetMode
  <2> QED BY <1>1, <2>1 DEF SocketTest!LeavingCloses
<1>7. CASE SocketTest!TestSocketConnection
  <2>1. Same
    BY <1>7 DEF SocketTest!TestSocketConnection
  <2> QED BY <1>1, <2>1 DEF SocketTest!LeavingCloses
<1> QED BY <1>2, <1>3, <1>4, <1>5, <1>6, <1>7 DEF SocketTest!Next

(* The socket settings listen to one test channel at most, the one shown,   *)
(* whatever is answered, edited or saved.  Every route transition closes    *)
(* it; after the page was left only the late answer to a test opens one,    *)
(* until the next transition (configure/socket.js).                         *)
THEOREM OneTestChannelAlways == Spec => OneTestChannel
<1>1. Init => TestIInv
  BY DEF Init, TestIInv, TestPage, SocketTest!Init, SocketTest!OneOpen, SocketTest!NewPage
<1>2. TestIInv /\ [Next]_vars => TestIInv'
  <2> SUFFICES ASSUME TestIInv, [Next]_vars, part' = "socket-test" PROVE TestIInv'
    BY DEF TestIInv
  <2>1. part = "socket-test" /\ (SocketTest!Next \/ UNCHANGED screenVars)
    BY DEF Next, NextOnScreen, NextOfBuild, vars
  <2>2. CASE SocketTest!Next
    BY <2>1, <2>2, TestStep DEF TestIInv
  <2>3. CASE UNCHANGED screenVars
    BY <2>1, <2>3 DEF screenVars, TestIInv, TestPage, SocketTest!OneOpen
  <2> QED BY <2>1, <2>2, <2>3
<1>3. TestIInv => (part = "socket-test" => SocketTest!OneOpen)
  BY DEF TestIInv
<1>4. TestIInv /\ [Next]_vars => [part = "socket-test" => SocketTest!LeavingCloses]_vars
  <2> SUFFICES ASSUME TestIInv, Next, part = "socket-test" PROVE SocketTest!LeavingCloses
    OBVIOUS
  <2>1. SocketTest!Next
    BY DEF Next, NextOnScreen, NextOfBuild
  <2> QED BY <2>1, TestCloses DEF TestIInv
<1> QED BY <1>1, <1>2, <1>3, <1>4, PTL DEF Spec, OneTestChannel
-----------------------------------------------------------------------------
(* A user's organizations.  A dialog to leave one says what the page has     *)
(* loaded of it.                                                             *)
DialogAsLoaded ==
  ui.dialog.action = "leave" =>
    LET o == ui.dialog.org IN
    /\ o \in DOMAIN ui.model
    /\ ui.dialog.isOwner = (ui.model[o].owner = Me)
    /\ ui.dialog.others = (ui.model[o].count > 1)
    /\ ui.dialog.deleted = (ui.model[o].owner = Me /\ ui.model[o].count = 1)

CompanyTyped ==
  /\ DOMAIN db = {"members", "owner", "company", "moves"}
  /\ db.members \in [Orgs -> SUBSET (Others \cup {Me})]
  /\ DOMAIN ui = {"model", "company", "dialog", "reload", "lost", "ops"}
  /\ DOMAIN ui.model \subseteq Orgs
  /\ \A o \in DOMAIN ui.model : ui.model[o].count \in Nat \ {0}
  /\ DOMAIN ui.dialog = DOMAIN Company!NoDialog
  /\ ui.dialog.newOwner \in Others \cup {NoOwner}

(* There is one request at most; it is the one the dialog sends.             *)
OneCall ==
  /\ \A c, d \in calls : c = d
  /\ \A c \in calls : DOMAIN c = {"op", "org", "to", "handled", "ok", "fresh"}
  /\ \A c \in calls : ui.dialog.action = "leave" => c.op \notin Company!Reloads

(* PageIsTheSessions, and what an answer will do about it.                   *)
InStep ==
  \/ ui.company = db.company \/ ui.reload \/ ui.lost
  \/ \E c \in calls : c.handled /\ c.ok /\ c.op \in Company!Reloads

CompanyInv ==
  /\ CompanyTyped /\ DialogAsLoaded /\ OneCall /\ InStep
  /\ Company!OwnersStay

CompanyIInv == part = "organizations" => CompanyInv

LEMMA CompanyCardinality == \A S : Company!Cardinality(S) = Cardinality(S)
BY DEF Company!Cardinality, Cardinality

(* The organizations as loaded have members, of whom one is the user.        *)
LEMMA LoadedModel ==
  ASSUME NEW d, d.members \in [Orgs -> SUBSET (Others \cup {Me})]
  PROVE  /\ DOMAIN Company!LoadOrganizations(d) \subseteq Orgs
         /\ \A o \in DOMAIN Company!LoadOrganizations(d) :
              /\ Company!LoadOrganizations(d)[o].count \in Nat \ {0}
              /\ Company!LoadOrganizations(d)[o].owner = d.owner[o]
<1>1. DOMAIN Company!LoadOrganizations(d) = {o \in Orgs : Me \in d.members[o]}
  BY DEF Company!LoadOrganizations
<1> SUFFICES ASSUME NEW o \in Orgs, Me \in d.members[o]
             PROVE  /\ Company!LoadOrganizations(d)[o].count \in Nat \ {0}
                    /\ Company!LoadOrganizations(d)[o].owner = d.owner[o]
  BY <1>1
<1>2. Company!LoadOrganizations(d)[o] = [owner |-> d.owner[o], count |-> Cardinality(d.members[o])]
  BY CompanyCardinality DEF Company!LoadOrganizations
<1>3. IsFiniteSet(Others \cup {Me})
  <2>1. IsFiniteSet(Others)
    BY CompanyAssumption DEF Company!OthersAssumption, Company!IsFiniteSet, IsFiniteSet
  <2> QED BY <2>1, FS_Singleton, FS_Union
<1>4. IsFiniteSet(d.members[o])
  BY <1>3, FS_Subset
<1>5. Cardinality(d.members[o]) \in Nat /\ Cardinality(d.members[o]) # 0
  BY <1>4, FS_CardinalityType, FS_EmptySet
<1> QED BY <1>2, <1>5

(* Nothing is under way and the page keeps what it has loaded: a dialog that *)
(* is opened says what was loaded.                                           *)
LEMMA OpenKeeps ==
  ASSUME CompanyInv, NEW dialog, Company!Open(dialog),
         DOMAIN dialog = DOMAIN Company!NoDialog, dialog.newOwner \in Others \cup {NoOwner},
         calls = {},
         dialog.action = "leave" =>
           /\ dialog.org \in DOMAIN ui.model
           /\ dialog.isOwner = (ui.model[dialog.org].owner = Me)
           /\ dialog.others = (ui.model[dialog.org].count > 1)
           /\ dialog.deleted = (ui.model[dialog.org].owner = Me /\ ui.model[dialog.org].count = 1)
  PROVE  CompanyInv'
<1>1. ui' = [ui EXCEPT !.dialog = dialog] /\ calls' = calls /\ db' = db
  BY DEF Company!Open
<1>2. /\ DOMAIN ui' = DOMAIN ui /\ ui'.dialog = dialog /\ ui'.model = ui.model
      /\ ui'.company = ui.company /\ ui'.reload = ui.reload /\ ui'.lost = ui.lost
  BY <1>1 DEF CompanyInv, CompanyTyped
<1>3. CompanyTyped'
  BY <1>1, <1>2 DEF CompanyInv, CompanyTyped, Company!NoDialog
<1>4. DialogAsLoaded'
  BY <1>2 DEF DialogAsLoaded
<1>5. OneCall' /\ InStep' /\ Company!OwnersStay'
  BY <1>1, <1>2 DEF CompanyInv, OneCall, InStep, Company!OwnersStay
<1> QED BY <1>3, <1>4, <1>5 DEF CompanyInv

LEMMA DialogsOpen ==
  ASSUME CompanyInv, NEW o \in Orgs,
         \/ Company!LeaveOrganization(o) \/ Company!SwitchOrganization(o) \/ Company!DeleteOrganization(o)
         \/ Company!EditOrganization(o) \/ Company!CreateOrJoinOrg(o) \/ Company!CreateOrganization(o)
  PROVE  CompanyInv'
<1> DEFINE other(action) == [Company!NoDialog EXCEPT !.action = action, !.org = o]
           leave == [action |-> "leave", org |-> o, isOwner |-> Company!IsOwner(o),
                     others |-> Company!HasOtherMembers(o),
                     deleted |-> Company!IsOwner(o) /\ ui.model[o].count = 1, newOwner |-> NoOwner]
<1>1. calls = {}
  BY DEF Company!LeaveOrganization, Company!SwitchOrganization, Company!DeleteOrganization,
         Company!EditOrganization, Company!CreateOrJoinOrg, Company!CreateOrganization, Company!MayAct
<1>2. CASE Company!LeaveOrganization(o)
  <2>1. Company!Open(leave) /\ o \in DOMAIN ui.model
    BY <1>2 DEF Company!LeaveOrganization
  <2>2. DOMAIN leave = DOMAIN Company!NoDialog /\ leave.newOwner = NoOwner
    BY DEF Company!NoDialog
  <2>3. /\ leave.org = o
        /\ leave.isOwner = (ui.model[o].owner = Me)
        /\ leave.others = (ui.model[o].count > 1)
        /\ leave.deleted = (ui.model[o].owner = Me /\ ui.model[o].count = 1)
    BY DEF Company!IsOwner, Company!HasOtherMembers
  <2> HIDE DEF leave
  <2> QED BY <1>1, <2>1, <2>2, <2>3, OpenKeeps
<1>3. ASSUME NEW action, action # "leave", Company!Open(other(action)) PROVE CompanyInv'
  <2>1. DOMAIN other(action) = DOMAIN Company!NoDialog /\ other(action).newOwner = NoOwner
        /\ other(action).action = action
    BY DEF Company!NoDialog
  <2> DEFINE opened == other(action)
  <2>2. Company!Open(opened) /\ DOMAIN opened = DOMAIN Company!NoDialog /\ opened.newOwner = NoOwner
        /\ opened.action # "leave"
    BY <1>3, <2>1
  <2> HIDE DEF opened
  <2> QED BY <1>1, <2>2, OpenKeeps
<1>4. CASE Company!SwitchOrganization(o)  BY <1>3, <1>4 DEF Company!SwitchOrganization
<1>5. CASE Company!DeleteOrganization(o)  BY <1>3, <1>5 DEF Company!DeleteOrganization
<1>6. CASE Company!EditOrganization(o)  BY <1>3, <1>6 DEF Company!EditOrganization
<1>7. CASE Company!CreateOrJoinOrg(o)  BY <1>3, <1>7 DEF Company!CreateOrJoinOrg
<1>8. CASE Company!CreateOrganization(o)  BY <1>3, <1>8 DEF Company!CreateOrganization
<1> QED BY <1>2, <1>4, <1>5, <1>6, <1>7, <1>8

LEMMA SelectNewOwnerKeeps ==
  ASSUME CompanyInv, NEW user \in Others, Company!SelectNewOwner(user) PROVE CompanyInv'
<1> DEFINE dialog == [ui.dialog EXCEPT !.newOwner = user]
<1>1. Company!Open(dialog) /\ calls = {}
  BY DEF Company!SelectNewOwner
<1>2. /\ DOMAIN dialog = DOMAIN Company!NoDialog /\ dialog.newOwner = user
      /\ dialog.action = ui.dialog.action /\ dialog.org = ui.dialog.org
      /\ dialog.isOwner = ui.dialog.isOwner /\ dialog.others = ui.dialog.others
      /\ dialog.deleted = ui.dialog.deleted
  BY DEF CompanyInv, CompanyTyped, Company!NoDialog
<1> HIDE DEF dialog
<1> QED BY <1>1, <1>2, OpenKeeps DEF CompanyInv, DialogAsLoaded

LEMMA DeclineKeeps == ASSUME CompanyInv, Company!Decline PROVE CompanyInv'
<1>1. Company!Open(Company!NoDialog) /\ calls = {}
  BY DEF Company!Decline
<1>2. Company!NoDialog.newOwner = NoOwner /\ Company!NoDialog.action # "leave"
  BY DEF Company!NoDialog
<1> QED BY <1>1, <1>2, OpenKeeps

(* What is sent to leave an organization is of one that somebody else owns,  *)
(* as far as the page knows.                                                 *)
LEMMA ConfirmKeeps == ASSUME CompanyInv, Company!Confirm PROVE CompanyInv'
<1> DEFINE sent == [op |-> IF ui.dialog.action = "leave" THEN Company!LeaveOp(ui.dialog) ELSE ui.dialog.action,
                    org |-> ui.dialog.org, to |-> ui.dialog.newOwner, handled |-> FALSE, ok |-> FALSE,
                    fresh |-> ui.model = Company!LoadOrganizations(db)]
<1>1. /\ calls = {} /\ calls' = {sent} /\ db' = db
      /\ ui' = [ui EXCEPT !.ops = ui.ops + 1]
  BY DEF Company!Confirm
<1>2. /\ DOMAIN ui' = DOMAIN ui /\ ui'.dialog = ui.dialog /\ ui'.model = ui.model
      /\ ui'.company = ui.company /\ ui'.reload = ui.reload /\ ui'.lost = ui.lost
  BY <1>1 DEF CompanyInv, CompanyTyped
<1>3. CompanyTyped' /\ DialogAsLoaded'
  BY <1>1, <1>2 DEF CompanyInv, CompanyTyped, DialogAsLoaded, Company!NoDialog
<1>4. ui.dialog.action = "leave" => sent.op \in {"transfer", "delete", "leave"}
  BY DEF Company!LeaveOp
<1>5. OneCall'
  <2>1. DOMAIN sent = {"op", "org", "to", "handled", "ok", "fresh"}
    OBVIOUS
  <2> HIDE DEF sent
  <2> QED BY <1>1, <1>2, <1>4, <2>1 DEF OneCall, Company!Reloads
<1>6. InStep'
  BY <1>1, <1>2 DEF CompanyInv, InStep
<1>7. sent.fresh /\ sent.op = "leave" => db.owner[sent.org] # Me
  <2> SUFFICES ASSUME ui.model = Company!LoadOrganizations(db), sent.op = "leave"
               PROVE  db.owner[ui.dialog.org] # Me
    OBVIOUS
  <2>1. ui.dialog.action = "leave" /\ Company!LeaveOp(ui.dialog) = "leave"
    OBVIOUS
  <2>2. ~(ui.dialog.isOwner /\ ui.dialog.others) /\ ~(ui.dialog.isOwner /\ ~ui.dialog.others /\ ui.dialog.deleted)
    BY <2>1 DEF Company!LeaveOp
  <2>3. /\ ui.dialog.org \in DOMAIN ui.model
        /\ ui.model[ui.dialog.org].owner = db.owner[ui.dialog.org]
        /\ ui.model[ui.dialog.org].count \in Nat \ {0}
    BY <2>1, LoadedModel DEF CompanyInv, DialogAsLoaded, CompanyTyped
  <2>4. /\ ui.dialog.isOwner = (ui.model[ui.dialog.org].owner = Me)
        /\ ui.dialog.others = (ui.model[ui.dialog.org].count > 1)
        /\ ui.dialog.deleted =
             (ui.model[ui.dialog.org].owner = Me /\ ui.model[ui.dialog.org].count = 1)
    BY <2>1 DEF CompanyInv, DialogAsLoaded
  <2>5. ui.model[ui.dialog.org].count > 1 \/ ui.model[ui.dialog.org].count = 1
    BY <2>3
  <2>6. ui.model[ui.dialog.org].owner # Me
    BY <2>2, <2>4, <2>5, Zenon
  <2> QED BY <2>3, <2>6
<1>8. Company!OwnersStay'
  <2> HIDE DEF sent
  <2> QED BY <1>1, <1>7 DEF Company!OwnersStay
<1> QED BY <1>3, <1>5, <1>6, <1>8 DEF CompanyInv

LEMMA HandledMembers ==
  ASSUME CompanyInv, NEW c \in calls
  PROVE  /\ DOMAIN Company!Handled(c) = {"members", "owner", "company", "moves"}
         /\ Company!Handled(c).members \in [Orgs -> SUBSET (Others \cup {Me})]
         /\ c.op = "leave" => Company!Handled(c).owner = db.owner
         /\ c.op \notin Company!Reloads => Company!Handled(c).company = db.company
<1> USE DEF CompanyInv, CompanyTyped
<1>1. CASE c.op = "leave"
  BY <1>1 DEF Company!Handled, Company!Leaves, Company!Reloads
<1>2. CASE c.op = "transfer"
  BY <1>2 DEF Company!Handled, Company!Leaves, Company!Reloads
<1>3. CASE c.op = "delete"
  BY <1>3 DEF Company!Handled, Company!Reloads
<1>4. CASE c.op = "join"
  BY <1>4 DEF Company!Handled, Company!Reloads
<1>5. CASE c.op = "switch"
  BY <1>5 DEF Company!Handled, Company!Reloads
<1>6. CASE c.op \in {"create", "create-and-reload"}
  BY <1>6 DEF Company!Handled, Company!Reloads
<1>7. CASE c.op \notin {"leave", "transfer", "delete", "join", "switch", "create", "create-and-reload"}
  BY <1>7 DEF Company!Handled, Company!Reloads
<1> QED BY <1>1, <1>2, <1>3, <1>4, <1>5, <1>6, <1>7

LEMMA HandleKeeps == ASSUME CompanyInv, NEW c \in calls, Company!Handle(c) PROVE CompanyInv'
<1>1. PICK ok \in BOOLEAN, done \in BOOLEAN :
        /\ ok => done
        /\ db' = IF done THEN Company!Handled(c) ELSE db
        /\ calls' = {[c EXCEPT !.handled = TRUE, !.ok = ok]}
        /\ ui' = [ui EXCEPT !.lost = @ \/ (done /\ ~ok)]
  BY DEF Company!Handle
<1>2. /\ DOMAIN ui' = DOMAIN ui /\ ui'.dialog = ui.dialog /\ ui'.model = ui.model
      /\ ui'.company = ui.company /\ ui'.reload = ui.reload /\ ui'.lost = (ui.lost \/ (done /\ ~ok))
  BY <1>1 DEF CompanyInv, CompanyTyped
<1> DEFINE answered == [c EXCEPT !.handled = TRUE, !.ok = ok]
<1>3. /\ DOMAIN answered = DOMAIN c /\ answered.op = c.op /\ answered.org = c.org /\ answered.fresh = c.fresh
      /\ answered.handled = TRUE /\ answered.ok = ok
  BY DEF CompanyInv, OneCall
<1>4. calls' = {answered}
  BY <1>1
<1> HIDE DEF answered
<1>5. CompanyTyped' /\ DialogAsLoaded'
  BY <1>1, <1>2, HandledMembers DEF CompanyInv, CompanyTyped, DialogAsLoaded, Company!NoDialog
<1>6. OneCall'
  BY <1>2, <1>3, <1>4 DEF CompanyInv, OneCall
<1>7. InStep'
  <2>1. CASE ui.company = db.company \/ ui.reload \/ ui.lost
    BY <2>1, <1>1, <1>2, <1>3, <1>4, HandledMembers DEF InStep
  <2>2. CASE \E d \in calls : d.handled /\ d.ok /\ d.op \in Company!Reloads
    BY <2>2 DEF CompanyInv, OneCall, Company!Handle
  <2> QED BY <2>1, <2>2 DEF CompanyInv, InStep
<1>8. Company!OwnersStay'
  BY <1>1, <1>3, <1>4, HandledMembers DEF CompanyInv, Company!OwnersStay
<1> QED BY <1>5, <1>6, <1>7, <1>8 DEF CompanyInv

(* The page is loaded again, or shows the organizations it had or has now.   *)
LEMMA AfterConfirmShows ==
  ASSUME CompanyInv, NEW c \in calls, NEW s, NEW page \in Company!AfterConfirm(s, c),
         DOMAIN s = DOMAIN ui
  PROVE  /\ c.ok /\ c.op \in Company!Reloads => page.reload
         /\ DOMAIN page = DOMAIN s /\ page.dialog = s.dialog /\ page.company = s.company
         /\ page.lost = s.lost /\ (page.reload \/ page.reload = s.reload)
         /\ page.model \in {s.model, Company!LoadOrganizations(db)}
<1> DEFINE again == [s EXCEPT !.reload = TRUE]
           anew == [s EXCEPT !.model = Company!LoadOrganizations(db)]
<1>1. DOMAIN s = {"model", "company", "dialog", "reload", "lost", "ops"}
  BY DEF CompanyInv, CompanyTyped
<1>2. CASE c.ok /\ c.op \in Company!Reloads
  <2>1. ui.dialog.action # "leave"
    BY <1>2 DEF CompanyInv, OneCall
  <2>2. page = again
    BY <1>2, <2>1 DEF Company!AfterConfirm
  <2> QED BY <2>2, <1>1
<1>3. CASE ~(c.ok /\ c.op \in Company!Reloads)
  <2>1. page \in {anew, s}
    BY <1>3 DEF Company!AfterConfirm, Company!Refreshed
  <2> QED BY <2>1, <1>1, <1>3
<1> QED BY <1>2, <1>3

LEMMA ConfirmedKeeps == ASSUME CompanyInv, NEW c \in calls, Company!Confirmed(c) PROVE CompanyInv'
<1> DEFINE shut == [ui EXCEPT !.dialog = Company!NoDialog]
<1>1. calls' = {} /\ ui' \in Company!AfterConfirm(shut, c) /\ db' = db /\ c.handled
  BY DEF Company!Confirmed
<1>2. /\ DOMAIN shut = DOMAIN ui /\ shut.dialog = Company!NoDialog /\ shut.company = ui.company
      /\ shut.reload = ui.reload /\ shut.lost = ui.lost /\ shut.model = ui.model
  BY DEF CompanyInv, CompanyTyped
<1> HIDE DEF shut
<1>3. /\ c.ok /\ c.op \in Company!Reloads => ui'.reload
      /\ DOMAIN ui' = DOMAIN ui /\ ui'.dialog = Company!NoDialog /\ ui'.company = ui.company
      /\ ui'.lost = ui.lost /\ (ui'.reload \/ ui'.reload = ui.reload)
      /\ ui'.model \in {ui.model, Company!LoadOrganizations(db)}
  BY <1>1, <1>2, AfterConfirmShows
<1>4. CompanyTyped'
  BY <1>1, <1>3, LoadedModel DEF CompanyInv, CompanyTyped, Company!NoDialog
<1>5. DialogAsLoaded' /\ OneCall' /\ Company!OwnersStay'
  BY <1>1, <1>3 DEF DialogAsLoaded, OneCall, Company!OwnersStay, Company!NoDialog
<1>6. InStep'
  BY <1>1, <1>3 DEF CompanyInv, InStep, OneCall
<1> QED BY <1>4, <1>5, <1>6 DEF CompanyInv

LEMMA ReloadKeeps == ASSUME CompanyInv, Company!Reload PROVE CompanyInv'
<1>1. /\ ui' = [ui EXCEPT !.model = Company!LoadOrganizations(db), !.company = db.company,
                          !.dialog = Company!NoDialog, !.reload = FALSE, !.lost = FALSE]
      /\ calls' = {} /\ db' = db
  BY DEF Company!Reload
<1>2. /\ DOMAIN ui' = DOMAIN ui /\ ui'.dialog = Company!NoDialog /\ ui'.company = db.company
      /\ ui'.model = Company!LoadOrganizations(db)
  BY <1>1 DEF CompanyInv, CompanyTyped
<1>3. CompanyTyped'
  BY <1>1, <1>2, LoadedModel DEF CompanyInv, CompanyTyped, Company!NoDialog
<1>4. DialogAsLoaded' /\ OneCall' /\ InStep' /\ Company!OwnersStay'
  BY <1>1, <1>2 DEF DialogAsLoaded, OneCall, InStep, Company!OwnersStay, Company!NoDialog
<1> QED BY <1>3, <1>4 DEF CompanyInv

LEMMA SomebodyMovesKeeps == ASSUME CompanyInv, Company!SomebodyMoves PROVE CompanyInv'
<1>1. PICK o \in Orgs, user \in Others :
        /\ db' = [db EXCEPT !.members[o] = IF user \in @ THEN @ \ {user} ELSE @ \cup {user},
                            !.moves = @ + 1]
        /\ ui' = ui /\ calls' = calls
  BY DEF Company!SomebodyMoves
<1>2. /\ DOMAIN db' = DOMAIN db /\ db'.owner = db.owner /\ db'.company = db.company
      /\ db'.members \in [Orgs -> SUBSET (Others \cup {Me})]
  BY <1>1 DEF CompanyInv, CompanyTyped
<1> QED
  BY <1>1, <1>2 DEF CompanyInv, CompanyTyped, DialogAsLoaded, OneCall, InStep, Company!OwnersStay, Company!NoDialog

LEMMA CompanyInit == Company!Init => CompanyInv
<1> SUFFICES ASSUME Company!Init PROVE CompanyInv
  OBVIOUS
<1>1. PICK members \in [Orgs -> SUBSET (Others \cup {Me})], owner \in [Orgs -> Others \cup {Me}] :
        db = [members |-> members, owner |-> owner, company |-> First, moves |-> 0]
  BY DEF Company!Init
<1>2. /\ ui = [model |-> Company!LoadOrganizations(db), company |-> First, dialog |-> Company!NoDialog,
               reload |-> FALSE, lost |-> FALSE, ops |-> 0]
      /\ calls = {}
  BY DEF Company!Init
<1>3. /\ DOMAIN db = {"members", "owner", "company", "moves"}
      /\ db.members \in [Orgs -> SUBSET (Others \cup {Me})] /\ db.company = First
  BY <1>1
<1>4. \A o \in DOMAIN Company!LoadOrganizations(db) :
        o \in Orgs /\ Company!LoadOrganizations(db)[o].count \in Nat \ {0}
  BY <1>3, LoadedModel
<1>5. CompanyTyped
  BY <1>2, <1>3, <1>4 DEF CompanyTyped, Company!NoDialog
<1> QED
  BY <1>2, <1>3, <1>5
  DEF CompanyInv, DialogAsLoaded, OneCall, InStep, Company!OwnersStay, Company!NoDialog

(* A user who leaves an organization is not its owner, as long as nothing    *)
(* changed since the page loaded it, and the organization on the page is the *)
(* session's unless the page is about to be loaded again                     *)
(* (account/organizations.js, controllers/console.js).                       *)
THEOREM OrganizationsAlwaysHold == Spec => []OrganizationsHold
<1>1. Init => CompanyIInv
  BY CompanyInit DEF Init, CompanyIInv
<1>2. CompanyIInv /\ [Next]_vars => CompanyIInv'
  <2> SUFFICES ASSUME CompanyIInv, [Next]_vars, part' = "organizations" PROVE CompanyInv'
    BY DEF CompanyIInv
  <2>1. part = "organizations" /\ CompanyInv /\ (Company!Next \/ UNCHANGED screenVars)
    BY DEF CompanyIInv, Next, NextOnScreen, NextOfBuild, vars
  <2>2. CASE Company!Next
    BY <2>1, <2>2, DialogsOpen, SelectNewOwnerKeeps, DeclineKeeps, ConfirmKeeps, HandleKeeps,
       ConfirmedKeeps, ReloadKeeps, SomebodyMovesKeeps
    DEF Company!Next
  <2>3. CASE UNCHANGED screenVars
    BY <2>1, <2>3
    DEF screenVars, CompanyInv, CompanyTyped, DialogAsLoaded, OneCall, InStep, Company!OwnersStay
  <2> QED BY <2>1, <2>2, <2>3
<1>3. CompanyIInv => OrganizationsHold
  BY DEF CompanyIInv, CompanyInv, InStep, OrganizationsHold, Company!PageIsTheSessions
<1> QED BY <1>1, <1>2, <1>3, PTL DEF Spec
-----------------------------------------------------------------------------
(* The settings screens.  On those that wait for their settings one request  *)
(* is under way at most, and an answer that will be applied is of what is    *)
(* stored.                                                                   *)
Matches ==
  Forms!Payload(ui.screen, Forms!Apply(ui.screen, db.settings)) = Forms!Payload(ui.screen, ui.form)

FormsScreens == {"backups", "rate-limits", "sms-guard", "filesystem", "queue", "channels", "mail", "services"}

FormsTyped ==
  /\ ui.screen \in FormsScreens
  /\ DOMAIN ui = {"screen", "form", "settled", "ops"}
  /\ ui.settled \in BOOLEAN
  /\ DOMAIN db = {"settings", "defaults"}
  /\ \A c \in calls :
       /\ DOMAIN c = {"op", "sent", "handled", "ok", "answer", "untouched"}
       /\ c.op \in Forms!Of(ui.screen).tasks

OneAtATime ==
  /\ \A c, d \in calls : c = d
  /\ \A c \in calls :
       /\ c.op = "load" => ~ui.settled
       /\ c.handled /\ c.ok => c.answer = db.settings
       /\ c.handled /\ c.ok /\ c.op = "save" => c.sent = db.settings
  /\ ui.settled /\ (\A c \in calls : c.op = "test") => Matches

FormsInv ==
  /\ FormsTyped
  /\ Forms!WaitsForLoad(ui.screen) => OneAtATime

(* A screen that waits for its settings has no other task that does not.     *)
LEMMA WaitingIsBusy ==
  ASSUME NEW screen \in FormsScreens,
         Forms!WaitsForLoad(screen)
  PROVE  Forms!Of(screen).busy = Forms!Of(screen).tasks
BY DEF FormsScreens, Forms!WaitsForLoad, Forms!Of, Forms!Screen, Forms!Backups, Forms!RateLimits, Forms!SmsGuard,
       Forms!Filesystem, Forms!Queue, Forms!NotificationChannels, Forms!Mail, Forms!Services

(* A save that is not applied is of a screen that sends what it shows.       *)
LEMMA NotAppliedIsAsSent ==
  ASSUME NEW screen \in FormsScreens,
         Forms!WaitsForLoad(screen), "save" \notin Forms!Of(screen).applied, NEW s
  PROVE  Forms!Payload(screen, Forms!Apply(screen, s)) = s
BY DEF FormsScreens, Forms!WaitsForLoad, Forms!Of, Forms!Screen, Forms!Backups, Forms!RateLimits, Forms!SmsGuard,
       Forms!Filesystem, Forms!Queue, Forms!NotificationChannels, Forms!Mail, Forms!Services,
       Forms!Payload, Forms!Apply

LEMMA SendKeeps ==
  ASSUME FormsInv, NEW op \in {"save", "reset", "test"}, Forms!Send(op) PROVE FormsInv'
<1> DEFINE sent == Forms!Call(op, Forms!Payload(ui.screen, ui.form))
<1>1. /\ op \in Forms!Of(ui.screen).tasks /\ ~Forms!IsBusy(op)
      /\ calls' = calls \cup {sent} /\ ui' = [ui EXCEPT !.ops = @ + 1] /\ db' = db
  BY DEF Forms!Send
<1>2. /\ DOMAIN ui' = DOMAIN ui /\ ui'.screen = ui.screen /\ ui'.form = ui.form /\ ui'.settled = ui.settled
  BY <1>1 DEF FormsInv, FormsTyped
<1>3. /\ DOMAIN sent = {"op", "sent", "handled", "ok", "answer", "untouched"}
      /\ sent.op = op /\ ~sent.handled
  BY DEF Forms!Call
<1> HIDE DEF sent
<1>4. FormsTyped'
  BY <1>1, <1>2, <1>3 DEF FormsInv, FormsTyped
<1>5. ASSUME Forms!WaitsForLoad(ui.screen) PROVE OneAtATime'
  <2>1. calls = {}
    BY <1>1, <1>5, WaitingIsBusy DEF FormsInv, FormsTyped, Forms!IsBusy
  <2>2. Matches' = Matches
    BY <1>1, <1>2 DEF Matches
  <2> QED BY <2>1, <2>2, <1>1, <1>2, <1>3, <1>5 DEF FormsInv, OneAtATime
<1> QED BY <1>2, <1>4, <1>5 DEF FormsInv

LEMMA FormsHandleKeeps == ASSUME FormsInv, NEW c \in calls, Forms!Handle(c) PROVE FormsInv'
<1>1. PICK ok \in BOOLEAN, done \in BOOLEAN :
        /\ ~c.handled /\ (ok => done) /\ ui' = ui
        /\ db' = IF done THEN [db EXCEPT !.settings = Forms!Handled(c)] ELSE db
        /\ calls' = (calls \ {c}) \cup
             {[c EXCEPT !.handled = TRUE, !.ok = ok, !.untouched = FALSE,
                        !.answer = IF ok THEN Forms!Handled(c) ELSE @]}
  BY DEF Forms!Handle
<1> DEFINE answered == [c EXCEPT !.handled = TRUE, !.ok = ok, !.untouched = FALSE,
                                 !.answer = IF ok THEN Forms!Handled(c) ELSE @]
<1>2. calls' = (calls \ {c}) \cup {answered}
  BY <1>1
<1>3. /\ DOMAIN answered = DOMAIN c /\ answered.op = c.op /\ answered.sent = c.sent
      /\ answered.handled = TRUE /\ answered.ok = ok /\ (ok => answered.answer = Forms!Handled(c))
  BY DEF FormsInv, FormsTyped
<1> HIDE DEF answered
<1>4. DOMAIN db' = DOMAIN db /\ (done => db'.settings = Forms!Handled(c)) /\ (~done => db' = db)
  BY <1>1 DEF FormsInv, FormsTyped
<1>5. FormsTyped'
  BY <1>1, <1>2, <1>3, <1>4 DEF FormsInv, FormsTyped
<1>6. ASSUME Forms!WaitsForLoad(ui.screen) PROVE OneAtATime'
  <2>1. calls' = {answered} /\ \A d \in calls : d = c
    BY <1>2, <1>6 DEF FormsInv, OneAtATime
  <2>2. c.op = "save" => Forms!Handled(c) = c.sent
    BY DEF Forms!Handled
  <2>3. ui.settled /\ c.op = "test" => Matches'
    <3> SUFFICES ASSUME ui.settled, c.op = "test" PROVE Matches'
      OBVIOUS
    <3>1. Forms!Handled(c) = db.settings
      BY DEF Forms!Handled
    <3>2. db'.settings = db.settings /\ Matches
      BY <2>1, <3>1, <1>4, <1>6 DEF FormsInv, OneAtATime
    <3> QED BY <3>2, <1>1 DEF Matches
  <2>4. c.op = "load" => ~ui.settled
    BY <1>6 DEF FormsInv, OneAtATime
  <2> QED BY <2>1, <2>2, <2>3, <2>4, <1>1, <1>3, <1>4 DEF OneAtATime
<1> QED BY <1>1, <1>5, <1>6 DEF FormsInv

LEMMA FormsArriveKeeps == ASSUME FormsInv, NEW c \in calls, Forms!Arrive(c) PROVE FormsInv'
<1> DEFINE failed == [ui EXCEPT !.settled = @ /\ c.op = "load"]
           applied == [ui EXCEPT !.form = Forms!Apply(ui.screen, c.answer), !.settled = TRUE]
           kept == [ui EXCEPT !.settled = Forms!Payload(ui.screen, ui.form) = c.sent]
<1>1. c.handled /\ calls' = calls \ {c} /\ db' = db
  BY DEF Forms!Arrive
<1>2. \/ c.op = "test" /\ ui' = ui
      \/ c.op # "test" /\ ~c.ok /\ ui' = failed
      \/ c.op # "test" /\ c.ok /\ c.op \in Forms!Of(ui.screen).applied /\ ui' = applied
      \/ c.op # "test" /\ c.ok /\ c.op \notin Forms!Of(ui.screen).applied /\ ui' = kept
  <2>1. CASE c.op = "test"
    <3>1. "test" \notin Forms!Of(ui.screen).applied
      BY DEF FormsInv, FormsTyped, FormsScreens, Forms!Of, Forms!Screen, Forms!Backups, Forms!RateLimits,
        Forms!SmsGuard, Forms!Filesystem, Forms!Queue, Forms!NotificationChannels, Forms!Mail, Forms!Services
    <3>2. ui' = ui
      BY <2>1, <3>1 DEF Forms!Arrive
    <3> QED BY <2>1, <3>2
  <2>2. CASE c.op # "test" /\ ~c.ok
    <3>1. ui' = failed
      BY <2>2 DEF Forms!Arrive
    <3> QED BY <2>2, <3>1
  <2>3. CASE c.op # "test" /\ c.ok /\ c.op \in Forms!Of(ui.screen).applied
    <3>1. ui' = applied
      BY <2>3 DEF Forms!Arrive
    <3> QED BY <2>3, <3>1
  <2>4. CASE c.op # "test" /\ c.ok /\ c.op \notin Forms!Of(ui.screen).applied
    <3>1. ui' = kept
      BY <2>4 DEF Forms!Arrive
    <3> QED BY <2>4, <3>1
  <2> QED BY <2>1, <2>2, <2>3, <2>4
<1>3. /\ DOMAIN failed = DOMAIN ui /\ failed.screen = ui.screen /\ failed.settled = (ui.settled /\ c.op = "load")
      /\ DOMAIN applied = DOMAIN ui /\ applied.screen = ui.screen /\ applied.settled = TRUE
      /\ applied.form = Forms!Apply(ui.screen, c.answer)
      /\ DOMAIN kept = DOMAIN ui /\ kept.screen = ui.screen /\ kept.form = ui.form
      /\ kept.settled = (Forms!Payload(ui.screen, ui.form) = c.sent)
  BY DEF FormsInv, FormsTyped
<1> HIDE DEF failed, applied, kept
<1>4. ui'.screen = ui.screen /\ ui'.settled \in BOOLEAN /\ DOMAIN ui' = DOMAIN ui
  BY <1>2, <1>3 DEF FormsInv, FormsTyped
<1>5. FormsTyped'
  BY <1>1, <1>4 DEF FormsInv, FormsTyped
<1>6. ASSUME Forms!WaitsForLoad(ui.screen) PROVE OneAtATime'
  <2>1. calls' = {}
    BY <1>1, <1>6 DEF FormsInv, OneAtATime
  <2>2. ui'.settled => Matches'
    <3>1. CASE c.op = "test" /\ ui' = ui
      BY <3>1, <1>1, <1>6 DEF FormsInv, OneAtATime, Matches
    <3>2. CASE ui' = failed /\ c.op # "test"
      BY <3>2, <1>3, <1>6 DEF FormsInv, OneAtATime
    <3>3. CASE c.ok /\ ui' = applied
      BY <3>3, <1>1, <1>3, <1>6 DEF FormsInv, OneAtATime, Matches
    <3>4. CASE c.op # "test" /\ c.ok /\ c.op \notin Forms!Of(ui.screen).applied /\ ui' = kept
      <4>1. c.op = "save" /\ "save" \notin Forms!Of(ui.screen).applied
        BY <3>4, <1>6 DEF FormsInv, FormsTyped, FormsScreens, Forms!WaitsForLoad, Forms!Of, Forms!Screen,
             Forms!Backups, Forms!RateLimits, Forms!SmsGuard, Forms!Filesystem, Forms!Queue,
             Forms!NotificationChannels, Forms!Mail, Forms!Services
      <4>2. c.sent = db.settings
        BY <4>1, <3>4, <1>1, <1>6 DEF FormsInv, OneAtATime
      <4>3. Forms!Payload(ui.screen, Forms!Apply(ui.screen, db.settings)) = db.settings
        BY <4>1, <1>6, NotAppliedIsAsSent DEF FormsInv, FormsTyped
      <4> QED BY <4>2, <4>3, <3>4, <1>1, <1>3 DEF Matches
    <3> QED BY <1>2, <3>1, <3>2, <3>3, <3>4
  <2> QED BY <2>1, <2>2 DEF OneAtATime
<1> QED BY <1>4, <1>5, <1>6 DEF FormsInv

LEMMA FormsEditKeeps == ASSUME FormsInv, Forms!Edit PROVE FormsInv'
<1>1. PICK f \in Forms!Fields(ui.screen), value \in {"", "5"} :
        ui' = [ui EXCEPT !.form[f] = value, !.settled = FALSE] /\ calls' = calls /\ db' = db
  BY DEF Forms!Edit
<1>2. DOMAIN ui' = DOMAIN ui /\ ui'.screen = ui.screen /\ ui'.settled = FALSE
  BY <1>1 DEF FormsInv, FormsTyped
<1>3. FormsTyped'
  BY <1>1, <1>2 DEF FormsInv, FormsTyped
<1>4. OneAtATime => OneAtATime'
  BY <1>1, <1>2 DEF OneAtATime
<1> QED BY <1>2, <1>3, <1>4 DEF FormsInv

LEMMA FormsInit == Forms!Init => FormsInv
<1> SUFFICES ASSUME Forms!Init PROVE FormsInv
  OBVIOUS
<1>1. PICK screen \in FormsScreens :
        /\ \E stored \in Forms!Stored(screen) :
             db = [settings |-> stored, defaults |-> CHOOSE defaults \in Forms!Stored(screen) : TRUE]
        /\ ui = [screen |-> screen, form |-> [f \in Forms!Fields(screen) |-> ""], settled |-> FALSE, ops |-> 0]
        /\ calls = {[op |-> "load", sent |-> [f \in Forms!Fields(screen) |-> ""], untouched |-> FALSE,
                     handled |-> FALSE, ok |-> FALSE, answer |-> [f \in Forms!Fields(screen) |-> ""]]}
  BY DEF Forms!Init, FormsScreens
<1>2. "load" \in Forms!Of(screen).tasks
  BY <1>1 DEF FormsScreens, Forms!Of, Forms!Screen, Forms!Backups, Forms!RateLimits, Forms!SmsGuard,
       Forms!Filesystem, Forms!Queue, Forms!NotificationChannels, Forms!Mail, Forms!Services
<1> DEFINE blank == [f \in Forms!Fields(screen) |-> ""]
           load == [op |-> "load", sent |-> blank, untouched |-> FALSE, handled |-> FALSE, ok |-> FALSE,
                    answer |-> blank]
<1>3. /\ DOMAIN load = {"op", "sent", "handled", "ok", "answer", "untouched"}
      /\ load.op = "load" /\ ~load.handled
  OBVIOUS
<1>4. calls = {load}
  BY <1>1
<1> HIDE DEF load
<1>5. /\ ui.screen = screen /\ DOMAIN ui = {"screen", "form", "settled", "ops"} /\ ui.settled = FALSE
      /\ DOMAIN db = {"settings", "defaults"}
  BY <1>1
<1> QED BY <1>2, <1>3, <1>4, <1>5 DEF FormsInv, FormsTyped, OneAtATime

-----------------------------------------------------------------------------
(* The two-factor settings.                                                  *)
Setting == [enabled : BOOLEAN, enforced : BOOLEAN, method : {"sms", "email", "app", "none"}]
UserSetting ==
  {s \in Setting : ~s.enforced /\ (s.enabled => s.method # "none") /\ (s.method = "app" => s.enabled)}
SystemSetting == {s \in Setting : s.method # "app" /\ (s.enabled => s.method # "none")}
OwnApp == TwoFactor!Settings(TRUE, FALSE, "app")

TwoFactorOps ==
  TwoFactor!Loads(ui.page) \cup {TwoFactor!SaveOp(ui.page)}
    \cup (IF ui.page = "account" THEN TwoFactor!AskedOps ELSE {})

TwoFactorDialog ==
  {d \in [mode : {"none", "setup", "recovery-codes", "disable"}, step : {"none", "password", "scan", "recovery-codes"},
          changed : BOOLEAN, select : BOOLEAN] :
     (d.step # "none" => d.mode # "none") /\ (d.step = "scan" => d.mode = "setup")}
TwoFactorPage ==
  [page : {"organization", "system", "account"}, settings : Setting,
   form : Setting \cup {TwoFactor!NoForm}, authenticator : BOOLEAN, system : BOOLEAN,
   dialog : TwoFactorDialog, saves : Nat, asks : Nat]

TwoFactorTyped ==
  /\ ui \in TwoFactorPage
  /\ db \in [user : UserSetting, company : Setting, system : SystemSetting, authenticator : BOOLEAN]
  /\ calls \subseteq [op : TwoFactorOps, sent : Setting, handled : BOOLEAN, ok : BOOLEAN, answer : Setting]
  /\ ui.page = "account" => ui.settings \in UserSetting /\ (ui.form # TwoFactor!NoForm => ~ui.form.enforced)
  /\ ui.page = "system" => ui.settings \in SystemSetting
  /\ ui.form # TwoFactor!NoForm => ui.form.method \in TwoFactor!GetTwoFaMethods(ui.page) \cup {"none"}
  /\ ui.dialog # TwoFactor!NoDialog => ui.page = "account" /\ ui.form # TwoFactor!NoForm

(* What a request carries there and back. *)
CallsSound ==
  \A c \in calls :
    /\ c.op = "saveUser" => c.sent \in UserSetting
    /\ c.op = "saveSystem" => c.sent \in SystemSetting
    /\ c.op \in {"loadUser", "disable", "confirm", "setup", "recovery-codes"} => c.answer \in UserSetting
    /\ c.op = "loadSystem" => c.answer \in SystemSetting
    /\ c.op = "confirm" /\ c.handled /\ c.ok => c.answer = OwnApp

(* The form is there when its loads are not, the dialog asks for one thing   *)
(* at a time, and what it changed reaches the form when it closes.           *)
Agree ==
  /\ ui.form.enabled = ui.settings.enabled /\ ui.form.enforced = ui.settings.enforced
  /\ ui.settings.enabled => ui.form.method = ui.settings.method

AskingMode(op) == IF op = "confirm" THEN "setup" ELSE op

(* The page's settings are those its form was built from.                    *)
Current == ui.page = "organization" => TwoFactor!Running({"loadUser"})

FormFollows ==
  /\ ui.form # TwoFactor!NoForm => \A c \in calls : c.op \notin TwoFactor!Awaits(ui.page)
  /\ Current /\ ui.form # TwoFactor!NoForm /\ ~ui.dialog.changed => Agree
  /\ ui.dialog.select => ui.dialog.mode = "setup" /\ ui.form.enabled
  /\ ui.dialog.select /\ ui.dialog.changed => ui.settings = OwnApp
  /\ \A c \in calls : c.op \in TwoFactor!AskedOps => ui.dialog.mode = AskingMode(c.op)
  /\ \A c, d \in calls : c.op \in TwoFactor!AskedOps /\ d.op \in TwoFactor!AskedOps => c = d

(* Until the user's own settings are answered, those of the organization     *)
(* name no method its form does not have.                                    *)
OrganizationSound ==
  /\ \A c, d \in calls : c.op = "loadUser" /\ d.op = "loadUser" => c = d
  /\ ui.page = "organization" /\ Current =>
       /\ ui.settings \in SystemSetting /\ db.company \in SystemSetting
       /\ \A c \in calls : /\ c.op = "saveCompany" => c.sent \in SystemSetting
                           /\ c.op = "loadCompany" => c.answer \in SystemSetting

TwoFactorInv == TwoFactorTyped /\ CallsSound /\ FormFollows /\ OrganizationSound

SettingsIInv ==
  /\ part = "forms" => FormsInv
  /\ part = "two-factor" => TwoFactorInv

(* The form is drawn of the settings there are, unless it is there already.  *)
LEMMA ShownForm ==
  ASSUME NEW next \in TwoFactorPage, NEW left
  PROVE  LET after == TwoFactor!Shown(next, left)
             form == TwoFactor!Form(next.page, next.settings) IN
         /\ after \in TwoFactorPage
         /\ after.page = next.page /\ after.settings = next.settings /\ after.dialog = next.dialog
         /\ \/ after.form = next.form
            \/ /\ next.form = TwoFactor!NoForm /\ after.form = form
               /\ \A c \in left : c.op \notin TwoFactor!Awaits(next.page)
         /\ form \in Setting /\ form # TwoFactor!NoForm
         /\ form.method \in TwoFactor!GetTwoFaMethods(next.page)
         /\ form.enabled = next.settings.enabled /\ form.enforced = next.settings.enforced
         /\ next.settings.method \in TwoFactor!GetTwoFaMethods(next.page) => form.method = next.settings.method
<1> DEFINE drawn == TwoFactor!Form(next.page, next.settings)
<1>1. /\ drawn \in Setting /\ drawn.method \in TwoFactor!GetTwoFaMethods(next.page)
      /\ drawn.enabled = next.settings.enabled /\ drawn.enforced = next.settings.enforced
      /\ next.settings.method \in TwoFactor!GetTwoFaMethods(next.page) => drawn.method = next.settings.method
  <2>1. TwoFactor!GetTwoFaMethods(next.page) \subseteq {"sms", "email", "app"}
    BY DEF TwoFactor!GetTwoFaMethods
  <2>2. "email" \in TwoFactor!GetTwoFaMethods(next.page)
    BY DEF TwoFactor!GetTwoFaMethods
  <2> QED BY <2>1, <2>2 DEF TwoFactor!Form, Setting, TwoFactorPage
<1>2. drawn # TwoFactor!NoForm
  <2>1. drawn.method # "no form"
    BY <1>1 DEF TwoFactor!GetTwoFaMethods
  <2>2. TwoFactor!NoForm.method = "no form"
    BY DEF TwoFactor!NoForm, TwoFactor!Settings
  <2> QED BY <2>1, <2>2
<1>3. \/ TwoFactor!Shown(next, left) = next
      \/ /\ TwoFactor!Shown(next, left) = [next EXCEPT !.form = drawn]
         /\ next.form = TwoFactor!NoForm /\ \A c \in left : c.op \notin TwoFactor!Awaits(next.page)
  BY DEF TwoFactor!Shown
<1> HIDE DEF drawn
<1>4. [next EXCEPT !.form = drawn] \in TwoFactorPage /\ [next EXCEPT !.form = drawn].form = drawn
      /\ [next EXCEPT !.form = drawn].page = next.page /\ [next EXCEPT !.form = drawn].settings = next.settings
      /\ [next EXCEPT !.form = drawn].dialog = next.dialog
  BY <1>1 DEF TwoFactorPage
<1> QED BY <1>1, <1>2, <1>3, <1>4 DEF drawn

LEMMA TwoFactorHandleKeeps ==
  ASSUME TwoFactorInv, NEW c \in calls, TwoFactor!Handle(c) PROVE TwoFactorInv'
<1> USE DEF TwoFactorInv
<1>1. PICK ok \in BOOLEAN, done \in BOOLEAN :
        /\ ~c.handled /\ (ok => done) /\ ui' = ui
        /\ db' = IF done THEN TwoFactor!Done(c) ELSE db
        /\ calls' = (calls \ {c}) \cup
             {[c EXCEPT !.handled = TRUE, !.ok = ok,
                        !.answer = TwoFactor!Says(c, IF done THEN TwoFactor!Done(c) ELSE db)]}
  BY DEF TwoFactor!Handle
<1> DEFINE after == IF done THEN TwoFactor!Done(c) ELSE db
           says == TwoFactor!Says(c, after)
           answered == [c EXCEPT !.handled = TRUE, !.ok = ok, !.answer = says]
<1>2. /\ db' = after /\ calls' = (calls \ {c}) \cup {answered}
  BY <1>1
<1>3. /\ c \in [op : TwoFactorOps, sent : Setting, handled : BOOLEAN, ok : BOOLEAN, answer : Setting]
      /\ db \in [user : UserSetting, company : Setting, system : SystemSetting, authenticator : BOOLEAN]
      /\ c.op = "saveUser" => c.sent \in UserSetting
      /\ c.op = "saveSystem" => c.sent \in SystemSetting
  BY DEF TwoFactorTyped, CallsSound
<1>4. TwoFactor!Done(c) \in [user : UserSetting, company : Setting, system : SystemSetting, authenticator : BOOLEAN]
  <2>1. OwnApp \in UserSetting /\ TwoFactor!Settings(FALSE, FALSE, "email") \in UserSetting
    BY DEF OwnApp, UserSetting, Setting, TwoFactor!Settings
  <2>2. CASE c.op \in {"saveCompany", "saveSystem", "saveUser"}
    BY <1>3, <2>2 DEF TwoFactor!Done
  <2>3. CASE c.op = "confirm"
    <3>1. TwoFactor!Done(c) = [db EXCEPT !.authenticator = TRUE, !.user = OwnApp]
      BY <2>3 DEF TwoFactor!Done, OwnApp
    <3> QED BY <3>1, <1>3, <2>1
  <2>4. CASE c.op = "disable"
    <3> DEFINE user == IF db.user.method = "app" THEN TwoFactor!Settings(FALSE, FALSE, "email") ELSE db.user
    <3>1. TwoFactor!Done(c) = [db EXCEPT !.authenticator = FALSE, !.user = user]
      BY <2>4, <1>3 DEF TwoFactor!Done
    <3>2. user \in UserSetting
      BY <1>3, <2>1
    <3> HIDE DEF user
    <3> QED BY <3>1, <3>2, <1>3
  <2>5. CASE c.op \notin {"saveCompany", "saveSystem", "saveUser", "confirm", "disable"}
    BY <1>3, <2>5 DEF TwoFactor!Done
  <2> QED BY <2>2, <2>3, <2>4, <2>5
<1>5. after \in [user : UserSetting, company : Setting, system : SystemSetting, authenticator : BOOLEAN]
  BY <1>3, <1>4
<1>6. /\ says \in Setting
      /\ c.op \in {"loadUser", "disable", "confirm", "setup", "recovery-codes"} => says = after.user
      /\ c.op = "loadSystem" => says = after.system
  <2> HIDE DEF after
  <2>1. c.op \notin {"loadCompany", "loadSystem", "loadAuthenticator"} => says = after.user
    BY DEF TwoFactor!Says
  <2>2. c.op = "loadCompany" => says = after.company
    BY DEF TwoFactor!Says
  <2>3. c.op = "loadSystem" => says = after.system
    BY DEF TwoFactor!Says
  <2>4. c.op = "loadAuthenticator" => says = TwoFactor!Settings(after.authenticator, FALSE, "none")
    BY DEF TwoFactor!Says
  <2>5. TwoFactor!Settings(after.authenticator, FALSE, "none") \in Setting
    BY <1>5 DEF TwoFactor!Settings, Setting
  <2> HIDE DEF says
  <2> QED BY <1>5, <2>1, <2>2, <2>3, <2>4, <2>5 DEF UserSetting, SystemSetting
<1>7. c.op = "confirm" /\ ok => says = OwnApp
  <2> SUFFICES ASSUME c.op = "confirm", ok PROVE TwoFactor!Done(c).user = OwnApp
    BY <1>1, <1>6
  <2> QED BY <1>3 DEF TwoFactor!Done, OwnApp
<1> HIDE DEF says, after
<1>8. /\ answered \in [op : TwoFactorOps, sent : Setting, handled : BOOLEAN, ok : BOOLEAN, answer : Setting]
      /\ answered.op = c.op /\ answered.sent = c.sent /\ answered.handled = TRUE
      /\ answered.ok = ok /\ answered.answer = says
  BY <1>3, <1>6
<1> HIDE DEF answered
<1>9. TwoFactorOps' = TwoFactorOps
  BY <1>1 DEF TwoFactorOps
<1>10. TwoFactorTyped'
  BY <1>1, <1>2, <1>5, <1>8, <1>9 DEF TwoFactorTyped
<1>11. CallsSound'
  BY <1>2, <1>3, <1>5, <1>6, <1>7, <1>8 DEF CallsSound
<1>0. Current' = Current
  <2>1. \A d \in calls' : \E e \in calls : e.op = d.op
    BY <1>2, <1>8
  <2>2. \A d \in calls : \E e \in calls' : e.op = d.op
    BY <1>2, <1>8
  <2> QED BY <1>1, <2>1, <2>2 DEF Current, TwoFactor!Running
<1>12. FormFollows'
  <2>1. Agree' = Agree
    BY <1>1 DEF Agree
  <2>2. \A d \in calls' : \E e \in calls : e.op = d.op /\ (d = answered => e = c) /\ (d # answered => e = d)
    BY <1>2, <1>8
  <2>3. \A d, e \in calls' : d.op \in TwoFactor!AskedOps /\ e.op \in TwoFactor!AskedOps => d = e
    BY <1>2, <1>8 DEF FormFollows
  <2> QED BY <1>0, <1>1, <2>1, <2>2, <2>3 DEF FormFollows
<1>13. OrganizationSound'
  <2>1. \A d, e \in calls' : d.op = "loadUser" /\ e.op = "loadUser" => d = e
    BY <1>2, <1>8 DEF OrganizationSound
  <2>2. CASE ui.page = "organization" /\ Current
    <3>1. /\ ui.settings \in SystemSetting /\ db.company \in SystemSetting
          /\ \A d \in calls : /\ d.op = "saveCompany" => d.sent \in SystemSetting
                              /\ d.op = "loadCompany" => d.answer \in SystemSetting
      BY <2>2 DEF OrganizationSound
    <3>2. after.company \in SystemSetting
      <4>1. after.company = db.company \/ (c.op = "saveCompany" /\ after.company = c.sent)
        BY <1>3 DEF after, TwoFactor!Done
      <4> QED BY <3>1, <4>1
    <3>3. c.op = "loadCompany" => says = after.company
      BY DEF says, TwoFactor!Says
    <3> QED BY <1>1, <1>2, <1>8, <2>1, <3>1, <3>2, <3>3 DEF OrganizationSound
  <2>3. CASE ~(ui.page = "organization" /\ Current)
    BY <1>0, <1>1, <2>1, <2>3 DEF OrganizationSound
  <2> QED BY <2>2, <2>3
<1> QED BY <1>10, <1>11, <1>12, <1>13

(* A load that is over writes its part of the page, and the form is drawn    *)
(* when no load it waits for is left.                                        *)
LEMMA LoadedPage ==
  ASSUME TwoFactorInv, NEW c \in calls, NEW next \in TwoFactorPage,
         c.op \in TwoFactor!Loads(ui.page), ui' = TwoFactor!Shown(next, calls'),
         calls' = calls \ {c}, db' = db,
         next.page = ui.page, next.form = ui.form, next.dialog = ui.dialog,
         next.page = "account" => next.settings \in UserSetting,
         next.page = "system" => next.settings \in SystemSetting,
         next.page = "organization" /\ (\E d \in calls' : d.op = "loadUser") =>
            next.settings \in SystemSetting,
         ui.form # TwoFactor!NoForm =>
            \/ next.settings = ui.settings
            \/ ui.page = "organization" /\ \A d \in calls' : d.op # "loadUser"
  PROVE  TwoFactorInv'
<1> USE DEF TwoFactorInv
<1> DEFINE form == TwoFactor!Form(next.page, next.settings)
<1>1. /\ ui' \in TwoFactorPage
      /\ ui'.page = ui.page /\ ui'.settings = next.settings /\ ui'.dialog = ui.dialog
      /\ \/ ui'.form = ui.form
         \/ /\ ui.form = TwoFactor!NoForm /\ ui'.form = form
            /\ \A d \in calls' : d.op \notin TwoFactor!Awaits(ui.page)
      /\ form # TwoFactor!NoForm
      /\ form.method \in TwoFactor!GetTwoFaMethods(ui.page)
      /\ form.enabled = next.settings.enabled /\ form.enforced = next.settings.enforced
      /\ next.settings.method \in TwoFactor!GetTwoFaMethods(next.page) => form.method = next.settings.method
  BY ShownForm
<1> HIDE DEF form
<1>2. TwoFactorOps' = TwoFactorOps
  BY <1>1 DEF TwoFactorOps
<1>3. TwoFactorTyped'
  BY <1>1, <1>2 DEF TwoFactorTyped, UserSetting
<1>4. CallsSound'
  BY DEF CallsSound
<1>0. /\ Current' => Current
      /\ Current' /\ ui.page = "organization" => \E d \in calls' : d.op = "loadUser"
  BY <1>1 DEF Current, TwoFactor!Running
<1>5. FormFollows'
  <2>1. CASE ui'.form = ui.form
    <3>1. ui.form # TwoFactor!NoForm /\ Current' => Agree' = Agree
      BY <2>1, <1>0, <1>1 DEF Agree
    <3>2. ui.dialog.select => ui.page = "account" /\ ui.form # TwoFactor!NoForm
      BY DEF TwoFactorTyped, TwoFactor!NoDialog
    <3> QED BY <2>1, <3>1, <3>2, <1>0, <1>1 DEF FormFollows
  <2>2. CASE ui'.form = form /\ ui.form = TwoFactor!NoForm
               /\ \A d \in calls' : d.op \notin TwoFactor!Awaits(ui.page)
    <3>1. ui.dialog = TwoFactor!NoDialog
      BY <2>2 DEF TwoFactorTyped
    <3>2. ~ui.dialog.select /\ ~ui.dialog.changed
      BY <3>1 DEF TwoFactor!NoDialog
    <3>3. Current' => Agree'
      <4> SUFFICES ASSUME Current', next.settings.enabled
                   PROVE  next.settings.method \in TwoFactor!GetTwoFaMethods(next.page)
        BY <1>1, <2>2 DEF Agree
      <4>1. next.page # "account" => next.settings \in SystemSetting
        BY <1>0 DEF TwoFactorPage
      <4> QED BY <4>1 DEF TwoFactor!GetTwoFaMethods, UserSetting, SystemSetting, Setting, TwoFactorPage
    <3> QED BY <1>1, <2>2, <3>2, <3>3 DEF FormFollows
  <2> QED BY <1>1, <2>1, <2>2
<1>6. OrganizationSound'
  BY <1>0, <1>1 DEF OrganizationSound
<1> QED BY <1>3, <1>4, <1>5, <1>6

LEMMA LoadedKeeps == ASSUME TwoFactorInv, NEW c \in calls, TwoFactor!Loaded(c) PROVE TwoFactorInv'
<1> USE DEF TwoFactorInv
<1>1. c.handled /\ calls' = calls \ {c} /\ db' = db /\ ui \in TwoFactorPage
      /\ ui.page \in {"organization", "system", "account"}
  BY DEF TwoFactor!Loaded, TwoFactorTyped, TwoFactorPage
<1>2. /\ c.op \in TwoFactorOps /\ c.answer \in Setting
      /\ c.op = "loadUser" => c.answer \in UserSetting
      /\ c.op = "loadSystem" => c.answer \in SystemSetting
  BY DEF TwoFactorTyped, CallsSound
<1>3. /\ ui.page = "account" => ui.settings \in UserSetting
      /\ ui.page = "system" => ui.settings \in SystemSetting
      /\ ui.form # TwoFactor!NoForm => c.op \notin TwoFactor!Awaits(ui.page)
      /\ ui.page = "organization" /\ (\E d \in calls' : d.op = "loadUser") =>
            ui.settings \in SystemSetting /\ c.op # "loadUser" /\ (c.op = "loadCompany" => c.answer \in SystemSetting)
  BY <1>1 DEF TwoFactorTyped, FormFollows, OrganizationSound, Current, TwoFactor!Running
<1>4. c.op \in {"loadCompany", "loadUser", "loadSystem", "loadAuthenticator"} => c.op \in TwoFactor!Loads(ui.page)
  BY <1>1, <1>2 DEF TwoFactorOps, TwoFactor!Loads, TwoFactor!SaveOp, TwoFactor!AskedOps,
    TwoFactor!LoadOrganization, TwoFactor!LoadSystem, TwoFactor!LoadAccount
<1>5. CASE TwoFactor!LoadCompanyTwoFaSettings(c) \/ TwoFactor!LoadUserTwoFaSettings(c)
  <2> DEFINE next == [ui EXCEPT !.settings = c.answer]
  <2>1. /\ next \in TwoFactorPage /\ next.page = ui.page /\ next.form = ui.form /\ next.dialog = ui.dialog
        /\ next.settings = c.answer
    BY <1>1, <1>2 DEF TwoFactorPage
  <2>2. c.op \in {"loadCompany", "loadUser"} /\ ui' = TwoFactor!Shown(next, calls')
    BY <1>5 DEF TwoFactor!LoadCompanyTwoFaSettings, TwoFactor!LoadUserTwoFaSettings
  <2>3. /\ ui.page # "system" /\ (ui.page = "account" => c.op = "loadUser")
        /\ ui.page # "organization" => ui.form = TwoFactor!NoForm
        /\ c.op = "loadCompany" => ui.form = TwoFactor!NoForm
    BY <2>2, <1>1, <1>3, <1>4
    DEF TwoFactor!Loads, TwoFactor!Awaits, TwoFactor!LoadOrganization, TwoFactor!LoadSystem, TwoFactor!LoadAccount
  <2> HIDE DEF next
  <2> QED BY <1>1, <1>2, <1>3, <1>4, <2>1, <2>2, <2>3, LoadedPage
<1>6. CASE TwoFactor!LoadSystemTwoFaConfig(c)
  <2> DEFINE next == [ui EXCEPT !.system = c.answer.enabled,
                                !.settings = IF ui.page = "system" THEN c.answer ELSE @]
  <2>1. /\ next \in TwoFactorPage /\ next.page = ui.page /\ next.form = ui.form /\ next.dialog = ui.dialog
        /\ next.settings = IF ui.page = "system" THEN c.answer ELSE ui.settings
    BY <1>1, <1>2 DEF TwoFactorPage, Setting
  <2>2. c.op = "loadSystem" /\ ui' = TwoFactor!Shown(next, calls')
    BY <1>6 DEF TwoFactor!LoadSystemTwoFaConfig
  <2>3. ui.page = "system" => ui.form = TwoFactor!NoForm
    BY <2>2, <1>3 DEF TwoFactor!Awaits
  <2> HIDE DEF next
  <2> QED BY <1>1, <1>2, <1>3, <1>4, <2>1, <2>2, <2>3, LoadedPage
<1>7. CASE TwoFactor!LoadAuthenticator(c)
  <2> DEFINE next == [ui EXCEPT !.authenticator = c.answer.enabled]
  <2>1. /\ next \in TwoFactorPage /\ next.page = ui.page /\ next.form = ui.form /\ next.dialog = ui.dialog
        /\ next.settings = ui.settings
    BY <1>1, <1>2 DEF TwoFactorPage, Setting
  <2>2. c.op = "loadAuthenticator" /\ ui' = TwoFactor!Shown(next, calls')
    BY <1>7 DEF TwoFactor!LoadAuthenticator
  <2> HIDE DEF next
  <2> QED BY <1>1, <1>3, <1>4, <2>1, <2>2, LoadedPage
<1>8. CASE ~c.ok /\ c.op \in TwoFactor!Loads(ui.page) /\ ui' = TwoFactor!Shown(ui, calls')
  BY <1>1, <1>3, <1>8, LoadedPage
<1> QED BY <1>5, <1>6, <1>7, <1>8 DEF TwoFactor!Loaded

(* A change in the form that is reported to the page.                        *)
LEMMA EditedPage ==
  ASSUME TwoFactorInv, ui' \in TwoFactorPage, calls' = calls, db' = db,
         ui.form # TwoFactor!NoForm, ui'.form # TwoFactor!NoForm,
         ui'.page = ui.page,
         ui'.form.method \in TwoFactor!GetTwoFaMethods(ui.page) \cup {"none"},
         ui.page = "account" => ui'.settings \in UserSetting /\ ~ui'.form.enforced,
         ui.page = "system" => ui'.settings \in SystemSetting,
         ui'.dialog # TwoFactor!NoDialog => ui.page = "account",
         ui.page = "organization" /\ Current => ui'.settings \in SystemSetting,
         Current /\ ~ui'.dialog.changed => Agree',
         ui'.dialog.select => ui'.dialog.mode = "setup" /\ ui'.form.enabled /\ ~ui'.dialog.changed,
         \A c \in calls : c.op \notin TwoFactor!AskedOps \/ ui'.dialog.mode = ui.dialog.mode
  PROVE  TwoFactorInv'
<1> USE DEF TwoFactorInv
<1>1. TwoFactorOps' = TwoFactorOps
  BY DEF TwoFactorOps
<1>2. TwoFactorTyped'
  BY <1>1 DEF TwoFactorTyped
<1>3. CallsSound'
  BY DEF CallsSound
<1>0. Current' = Current
  BY DEF Current, TwoFactor!Running
<1>4. FormFollows'
  BY <1>0 DEF FormFollows
<1>5. OrganizationSound'
  BY <1>0 DEF OrganizationSound
<1> QED BY <1>2, <1>3, <1>4, <1>5

LEMMA OnTwoFaToggledKeeps == ASSUME TwoFactorInv, TwoFactor!OnTwoFaToggled PROVE TwoFactorInv'
<1> USE DEF TwoFactorInv
<1> DEFINE recommended == IF ui.page = "account" /\ ui.authenticator THEN "app" ELSE "email"
           kept == ui.form.method # "none" /\ recommended # "app"
           method == IF ui.form.enabled THEN "none" ELSE IF kept THEN ui.form.method ELSE recommended
<1>1. /\ ui.form # TwoFactor!NoForm /\ ui.dialog = TwoFactor!NoDialog
      /\ ui' = [ui EXCEPT !.form.enabled = ~@, !.form.method = method,
                          !.settings.enabled = ~ui.form.enabled, !.settings.method = method]
      /\ calls' = calls /\ db' = db
  BY DEF TwoFactor!OnTwoFaToggled, TwoFactor!MayEdit
<1>2. ui.form \in Setting /\ ui.settings \in Setting /\ ui \in TwoFactorPage
      /\ ui.form.method \in TwoFactor!GetTwoFaMethods(ui.page) \cup {"none"}
      /\ ui.page \in {"organization", "system", "account"}
  BY <1>1 DEF TwoFactorTyped, TwoFactorPage
<1>3. /\ method \in TwoFactor!GetTwoFaMethods(ui.page) \cup {"none"}
      /\ ~ui.form.enabled => method # "none"
  <2>1. CASE ui.form.enabled
    BY <2>1, <1>2 DEF TwoFactor!GetTwoFaMethods, Setting
  <2>2. CASE ~ui.form.enabled /\ ui.page = "account" /\ ui.authenticator
    BY <2>2, <1>2 DEF TwoFactor!GetTwoFaMethods, Setting
  <2>3. CASE ~ui.form.enabled /\ ~(ui.page = "account" /\ ui.authenticator)
    BY <2>3, <1>2 DEF TwoFactor!GetTwoFaMethods, Setting
  <2> QED BY <2>1, <2>2, <2>3
<1>4. method \in {"sms", "email", "app", "none"}
  BY <1>3 DEF TwoFactor!GetTwoFaMethods
<1>5. ui.form.enabled => method = "none"
  OBVIOUS
<1> HIDE DEF method
<1> DEFINE form == [ui.form EXCEPT !.enabled = ~@, !.method = method]
           settings == [ui.settings EXCEPT !.enabled = ~ui.form.enabled, !.method = method]
<1>6. /\ form \in Setting /\ form.enabled = ~ui.form.enabled /\ form.method = method
      /\ form.enforced = ui.form.enforced
      /\ settings \in Setting /\ settings.enabled = ~ui.form.enabled /\ settings.method = method
      /\ settings.enforced = ui.settings.enforced
  BY <1>2, <1>4 DEF Setting
<1>7. ui'.form = form /\ ui'.settings = settings /\ ui'.page = ui.page /\ ui'.dialog = ui.dialog
      /\ ui' = [ui EXCEPT !.form = form, !.settings = settings]
  BY <1>1, <1>2 DEF TwoFactorPage
<1>8. ui' \in TwoFactorPage
  BY <1>2, <1>6, <1>7 DEF TwoFactorPage
<1>9. form # TwoFactor!NoForm
  <2>1. TwoFactor!NoForm.method = "no form"
    BY DEF TwoFactor!NoForm, TwoFactor!Settings
  <2> QED BY <2>1, <1>4, <1>6
<1> HIDE DEF form, settings
<1>10. ~ui.dialog.changed /\ ~ui.dialog.select
  BY <1>1 DEF TwoFactor!NoDialog
<1>11. Current => Agree'
  BY <1>1, <1>6, <1>7, <1>10 DEF FormFollows, Agree
<1>12. ui.page = "account" => settings \in UserSetting /\ ~form.enforced
  BY <1>1, <1>3, <1>5, <1>6 DEF TwoFactorTyped, UserSetting
<1>13. ui.page # "account" => settings \in SystemSetting
  BY <1>1, <1>2, <1>3, <1>6 DEF SystemSetting, TwoFactor!GetTwoFaMethods
<1> QED BY <1>1, <1>3, <1>6, <1>7, <1>8, <1>9, <1>10, <1>11, <1>12, <1>13, EditedPage

LEMMA OnTwoFaEnforcedToggledKeeps ==
  ASSUME TwoFactorInv, TwoFactor!OnTwoFaEnforcedToggled PROVE TwoFactorInv'
<1> USE DEF TwoFactorInv
<1>1. /\ ui.form # TwoFactor!NoForm /\ ui.dialog = TwoFactor!NoDialog /\ ui.page # "account"
      /\ ui' = [ui EXCEPT !.form.enforced = ~@, !.settings.enforced = ~ui.form.enforced]
      /\ calls' = calls /\ db' = db
  BY DEF TwoFactor!OnTwoFaEnforcedToggled, TwoFactor!MayEdit
<1>2. ui.form \in Setting /\ ui.settings \in Setting /\ ui \in TwoFactorPage
      /\ ui.form.method \in TwoFactor!GetTwoFaMethods(ui.page) \cup {"none"}
  BY <1>1 DEF TwoFactorTyped, TwoFactorPage
<1> DEFINE form == [ui.form EXCEPT !.enforced = ~@]
           settings == [ui.settings EXCEPT !.enforced = ~ui.form.enforced]
<1>3. /\ form \in Setting /\ form.enabled = ui.form.enabled /\ form.method = ui.form.method
      /\ form.enforced = ~ui.form.enforced
      /\ settings \in Setting /\ settings.enabled = ui.settings.enabled
      /\ settings.method = ui.settings.method /\ settings.enforced = ~ui.form.enforced
  BY <1>2 DEF Setting
<1>4. ui'.form = form /\ ui'.settings = settings /\ ui'.page = ui.page /\ ui'.dialog = ui.dialog
      /\ ui' = [ui EXCEPT !.form = form, !.settings = settings]
  BY <1>1, <1>2 DEF TwoFactorPage
<1>5. ui' \in TwoFactorPage
  BY <1>2, <1>3, <1>4 DEF TwoFactorPage
<1>6. form # TwoFactor!NoForm
  <2>1. TwoFactor!NoForm.method = "no form"
    BY DEF TwoFactor!NoForm, TwoFactor!Settings
  <2> QED BY <2>1, <1>3 DEF Setting
<1> HIDE DEF form, settings
<1>7. ~ui.dialog.changed /\ ~ui.dialog.select
  BY <1>1 DEF TwoFactor!NoDialog
<1>8. Current => Agree'
  BY <1>1, <1>3, <1>4, <1>7 DEF FormFollows, Agree
<1>9. ui.settings \in SystemSetting => settings \in SystemSetting
  BY <1>3 DEF SystemSetting
<1>10. /\ ui.page = "system" => settings \in SystemSetting
       /\ ui.page = "organization" /\ Current => settings \in SystemSetting
  BY <1>9 DEF TwoFactorTyped, OrganizationSound
<1> QED BY <1>1, <1>2, <1>3, <1>4, <1>5, <1>6, <1>7, <1>8, <1>10, EditedPage

(* A dialog opens over a form that is there, and has changed nothing yet.    *)
LEMMA DialogOpens ==
  ASSUME TwoFactorInv, NEW dialog \in TwoFactorDialog,
         ui' = [ui EXCEPT !.dialog = dialog], calls' = calls, db' = db,
         ui.form # TwoFactor!NoForm, ui.dialog = TwoFactor!NoDialog, ui.page = "account",
         ~dialog.changed, dialog.select => dialog.mode = "setup" /\ ui.form.enabled
  PROVE  TwoFactorInv'
<1> USE DEF TwoFactorInv
<1>1. ui \in TwoFactorPage /\ ui.page = "account" /\ ~ui.dialog.changed /\ ui.dialog.mode = "none"
  BY DEF TwoFactorTyped, TwoFactor!NoDialog
<1>2. /\ ui'.form = ui.form /\ ui'.settings = ui.settings /\ ui'.page = ui.page /\ ui'.dialog = dialog
      /\ ui' \in TwoFactorPage
  BY <1>1 DEF TwoFactorPage
<1>3. Agree /\ Agree' = Agree
  BY <1>1, <1>2 DEF FormFollows, Agree, Current
<1>4. \A c \in calls : c.op \notin TwoFactor!AskedOps
  BY <1>1 DEF FormFollows, AskingMode, TwoFactor!AskedOps
<1>5. /\ ui.settings \in UserSetting /\ ~ui.form.enforced
      /\ ui.form.method \in TwoFactor!GetTwoFaMethods(ui.page) \cup {"none"}
  BY DEF TwoFactorTyped
<1> QED BY <1>1, <1>2, <1>3, <1>4, <1>5, EditedPage

LEMMA OnTwoFaSelectedKeeps ==
  ASSUME TwoFactorInv, NEW method \in {"sms", "email", "app"}, TwoFactor!OnTwoFaSelected(method)
  PROVE  TwoFactorInv'
<1> USE DEF TwoFactorInv
<1>1. /\ ui.form # TwoFactor!NoForm /\ ui.dialog = TwoFactor!NoDialog /\ ui.form.enabled
      /\ ui.page # "organization" /\ method \in TwoFactor!GetTwoFaMethods(ui.page)
      /\ calls' = calls /\ db' = db
  BY DEF TwoFactor!OnTwoFaSelected, TwoFactor!MayEdit
<1>2. ui.form \in Setting /\ ui.settings \in Setting /\ ui \in TwoFactorPage
      /\ ui.page \in {"system", "account"}
  BY <1>1 DEF TwoFactorTyped, TwoFactorPage
<1>3. CASE method = "app" /\ ~ui.authenticator
  <2> DEFINE dialog == [TwoFactor!NoDialog EXCEPT !.mode = "setup", !.step = "password", !.select = TRUE]
  <2>1. ui' = [ui EXCEPT !.dialog = dialog]
    BY <1>3 DEF TwoFactor!OnTwoFaSelected
  <2>2. dialog \in TwoFactorDialog /\ ~dialog.changed /\ dialog.mode = "setup"
    BY DEF TwoFactorDialog, TwoFactor!NoDialog
  <2>3. ui.page = "account"
    BY <1>1, <1>3 DEF TwoFactor!GetTwoFaMethods
  <2> HIDE DEF dialog
  <2> QED BY <1>1, <2>1, <2>2, <2>3, DialogOpens
<1>4. CASE ~(method = "app" /\ ~ui.authenticator)
  <2> DEFINE form == [ui.form EXCEPT !.method = method]
             settings == [ui.settings EXCEPT !.method = method]
  <2>1. ui' = [ui EXCEPT !.form.method = method, !.settings.method = method]
    BY <1>4 DEF TwoFactor!OnTwoFaSelected
  <2>2. /\ form \in Setting /\ form.enabled = ui.form.enabled /\ form.method = method
        /\ form.enforced = ui.form.enforced
        /\ settings \in Setting /\ settings.enabled = ui.settings.enabled /\ settings.method = method
        /\ settings.enforced = ui.settings.enforced
    BY <1>2 DEF Setting
  <2>3. /\ ui'.form = form /\ ui'.settings = settings /\ ui'.page = ui.page /\ ui'.dialog = ui.dialog
        /\ ui' \in TwoFactorPage
    BY <1>2, <2>1, <2>2 DEF TwoFactorPage
  <2>4. form # TwoFactor!NoForm
    <3>1. TwoFactor!NoForm.method = "no form"
      BY DEF TwoFactor!NoForm, TwoFactor!Settings
    <3> QED BY <3>1, <2>2
  <2> HIDE DEF form, settings
  <2>5. ~ui.dialog.changed /\ ~ui.dialog.select
    BY <1>1 DEF TwoFactor!NoDialog
  <2>6. Agree /\ ui.settings.enabled
    BY <1>1, <1>2, <2>5 DEF FormFollows, Agree, Current
  <2>7. Agree'
    BY <2>2, <2>3, <2>6 DEF Agree
  <2>8. ui.page = "account" => settings \in UserSetting /\ ~form.enforced
    BY <1>1, <2>2, <2>6 DEF TwoFactorTyped, UserSetting
  <2>9. ui.page = "system" => settings \in SystemSetting
    BY <1>1, <2>2, <2>6 DEF TwoFactorTyped, SystemSetting, TwoFactor!GetTwoFaMethods
  <2> QED BY <1>1, <2>2, <2>3, <2>4, <2>5, <2>7, <2>8, <2>9, EditedPage
<1> QED BY <1>3, <1>4

LEMMA ManageAuthenticatorKeeps ==
  ASSUME TwoFactorInv, NEW mode \in {"setup", "recovery-codes", "disable"},
         TwoFactor!ManageAuthenticator(mode)
  PROVE  TwoFactorInv'
<1> DEFINE dialog == [TwoFactor!NoDialog EXCEPT !.mode = mode, !.step = "password"]
<1>1. /\ ui' = [ui EXCEPT !.dialog = dialog] /\ calls' = calls /\ db' = db
      /\ ui.form # TwoFactor!NoForm /\ ui.dialog = TwoFactor!NoDialog /\ ui.page = "account"
  BY DEF TwoFactor!ManageAuthenticator, TwoFactor!MayEdit
<1>2. dialog \in TwoFactorDialog /\ ~dialog.changed /\ ~dialog.select
  BY DEF TwoFactorDialog, TwoFactor!NoDialog
<1> HIDE DEF dialog
<1> QED BY <1>1, <1>2, DialogOpens

(* A request that is sent, by the page or by its dialog.                     *)
LEMMA RequestSent ==
  ASSUME TwoFactorInv, NEW op \in TwoFactorOps, NEW sent \in Setting,
         op \notin TwoFactor!Loads(ui.page), db' = db,
         calls' = calls \cup {TwoFactor!Call(op, sent)},
         ui' \in TwoFactorPage, ui'.page = ui.page, ui'.settings = ui.settings,
         ui'.form = ui.form, ui'.dialog = ui.dialog,
         op = "saveUser" => sent \in UserSetting, op = "saveSystem" => sent \in SystemSetting,
         op = "saveCompany" /\ Current => sent \in SystemSetting,
         op \in TwoFactor!AskedOps => ui.dialog.mode = AskingMode(op),
         op \in TwoFactor!AskedOps => \A c \in calls : c.op \notin TwoFactor!AskedOps
  PROVE  TwoFactorInv'
<1> USE DEF TwoFactorInv
<1> DEFINE request == TwoFactor!Call(op, sent)
<1>1. TwoFactor!Unset \in UserSetting /\ TwoFactor!Unset \in SystemSetting /\ TwoFactor!Unset \in Setting
  BY DEF TwoFactor!Unset, TwoFactor!Settings, UserSetting, SystemSetting, Setting
<1>2. /\ request \in [op : TwoFactorOps, sent : Setting, handled : BOOLEAN, ok : BOOLEAN, answer : Setting]
      /\ request.op = op /\ request.sent = sent /\ ~request.handled /\ request.answer = TwoFactor!Unset
  BY <1>1 DEF TwoFactor!Call
<1>3. calls' = calls \cup {request}
  OBVIOUS
<1> HIDE DEF request
<1>4. TwoFactorOps' = TwoFactorOps
  BY DEF TwoFactorOps
<1>5. TwoFactorTyped'
  BY <1>2, <1>3, <1>4 DEF TwoFactorTyped
<1>6. CallsSound'
  BY <1>1, <1>2, <1>3 DEF CallsSound
<1>0. op # "loadUser" /\ op # "loadCompany" /\ Current' = Current
  <2>1. op # "loadUser" /\ op # "loadCompany"
    BY DEF TwoFactorOps, TwoFactor!SaveOp, TwoFactor!AskedOps, TwoFactorPage
  <2> QED BY <1>2, <1>3, <2>1 DEF Current, TwoFactor!Running
<1>7. FormFollows'
  <2>1. op \notin TwoFactor!Awaits(ui.page)
    BY DEF TwoFactor!Loads, TwoFactor!Awaits, TwoFactor!LoadOrganization, TwoFactor!LoadSystem,
      TwoFactor!LoadAccount, TwoFactorPage
  <2>2. Agree' = Agree
    BY DEF Agree
  <2> QED BY <1>0, <1>2, <1>3, <2>1, <2>2 DEF FormFollows
<1>8. OrganizationSound'
  BY <1>0, <1>2, <1>3 DEF OrganizationSound
<1> QED BY <1>5, <1>6, <1>7, <1>8

LEMMA SaveSettingsKeeps == ASSUME TwoFactorInv, TwoFactor!SaveSettings PROVE TwoFactorInv'
<1> USE DEF TwoFactorInv
<1> DEFINE op == TwoFactor!SaveOp(ui.page)
<1>1. /\ calls' = calls \cup {TwoFactor!Call(op, ui.settings)}
      /\ ui' = [ui EXCEPT !.saves = @ + 1] /\ db' = db
  BY DEF TwoFactor!SaveSettings
<1>2. /\ ui \in TwoFactorPage /\ ui.settings \in Setting
      /\ ui.page \in {"organization", "system", "account"} /\ ui.saves \in Nat
      /\ ui.page = "account" => ui.settings \in UserSetting
      /\ ui.page = "system" => ui.settings \in SystemSetting
      /\ ui.page = "organization" /\ Current => ui.settings \in SystemSetting
  BY DEF TwoFactorTyped, TwoFactorPage, OrganizationSound
<1>3. /\ op \in TwoFactorOps /\ op \notin TwoFactor!Loads(ui.page) /\ op \notin TwoFactor!AskedOps
      /\ op = "saveUser" => ui.page = "account"
      /\ op = "saveSystem" => ui.page = "system"
      /\ op = "saveCompany" => ui.page = "organization"
  BY <1>2 DEF TwoFactorOps, TwoFactor!SaveOp, TwoFactor!Loads, TwoFactor!AskedOps,
    TwoFactor!LoadOrganization, TwoFactor!LoadSystem, TwoFactor!LoadAccount
<1>4. /\ ui' \in TwoFactorPage /\ ui'.page = ui.page /\ ui'.settings = ui.settings
      /\ ui'.form = ui.form /\ ui'.dialog = ui.dialog
  BY <1>1, <1>2 DEF TwoFactorPage
<1> HIDE DEF op
<1> QED BY <1>1, <1>2, <1>3, <1>4, RequestSent

LEMMA DialogNextKeeps == ASSUME TwoFactorInv, TwoFactor!DialogNext PROVE TwoFactorInv'
<1> USE DEF TwoFactorInv
<1> DEFINE op == TwoFactor!Asks
<1>1. /\ calls' = calls \cup {TwoFactor!Call(op, TwoFactor!Unset)}
      /\ ui' = [ui EXCEPT !.asks = @ + 1] /\ db' = db
      /\ \A c \in calls : c.op \notin TwoFactor!AskedOps
      /\ ui.dialog.step \in {"password", "scan"}
  BY DEF TwoFactor!DialogNext, TwoFactor!Running
<1>2. ui \in TwoFactorPage /\ ui.asks \in Nat
  BY DEF TwoFactorTyped, TwoFactorPage
<1>3. ui.dialog # TwoFactor!NoDialog /\ ui.page = "account"
  BY <1>1 DEF TwoFactor!NoDialog, TwoFactorTyped
<1>4. op \in TwoFactor!AskedOps /\ ui.dialog.mode = AskingMode(op)
  BY <1>1, <1>2 DEF AskingMode, TwoFactor!Asks, TwoFactor!AskedOps, TwoFactorPage, TwoFactorDialog
<1>5. op \in TwoFactorOps /\ op \notin TwoFactor!Loads(ui.page) /\ op \notin {"saveUser", "saveSystem", "saveCompany"}
  BY <1>3, <1>4 DEF TwoFactorOps, TwoFactor!Loads, TwoFactor!AskedOps, TwoFactor!LoadAccount
<1>6. TwoFactor!Unset \in Setting
  BY DEF TwoFactor!Unset, TwoFactor!Settings, Setting
<1>7. /\ ui' \in TwoFactorPage /\ ui'.page = ui.page /\ ui'.settings = ui.settings
      /\ ui'.form = ui.form /\ ui'.dialog = ui.dialog
  BY <1>1, <1>2 DEF TwoFactorPage
<1> HIDE DEF op
<1> QED BY <1>1, <1>4, <1>5, <1>6, <1>7, RequestSent

LEMMA SavedKeeps == ASSUME TwoFactorInv, NEW c \in calls, TwoFactor!Saved(c) PROVE TwoFactorInv'
<1> USE DEF TwoFactorInv
<1>1. calls' = calls \ {c} /\ ui' = ui /\ db' = db
  BY DEF TwoFactor!Saved
<1>2. TwoFactorTyped'
  BY <1>1 DEF TwoFactorTyped, TwoFactorOps
<1>3. CallsSound'
  BY <1>1 DEF CallsSound
<1>0. Current' => Current
  BY <1>1 DEF Current, TwoFactor!Running
<1>4. FormFollows'
  BY <1>0, <1>1 DEF FormFollows, Agree
<1>5. OrganizationSound'
  BY <1>0, <1>1 DEF OrganizationSound
<1> QED BY <1>2, <1>3, <1>4, <1>5

(* The dialog is shut: what it changed reaches the form, if it did.          *)
LEMMA DialogShuts ==
  ASSUME TwoFactorInv, NEW next \in TwoFactorPage, ui' = TwoFactor!Closed(next), db' = db,
         calls' \subseteq calls, \A c \in calls' : c.op \notin TwoFactor!AskedOps,
         ui.page = "account", ui.form # TwoFactor!NoForm,
         next.page = ui.page, next.form = ui.form, next.settings \in UserSetting,
         ~next.dialog.changed => Agree /\ next.settings = ui.settings,
         next.dialog.select => ui.form.enabled,
         next.dialog.select /\ next.dialog.changed => next.settings = OwnApp
  PROVE  TwoFactorInv'
<1> USE DEF TwoFactorInv
<1> DEFINE shut == [next EXCEPT !.dialog = TwoFactor!NoDialog]
           drawn == TwoFactor!Form(next.page, next.settings)
<1>1. TwoFactor!NoDialog \in TwoFactorDialog /\ ~TwoFactor!NoDialog.changed /\ ~TwoFactor!NoDialog.select
  BY DEF TwoFactor!NoDialog, TwoFactorDialog
<1>2. /\ shut \in TwoFactorPage /\ shut.page = ui.page /\ shut.form = ui.form
      /\ shut.settings = next.settings /\ shut.dialog = TwoFactor!NoDialog
  BY <1>1 DEF TwoFactorPage
<1>3. /\ drawn \in Setting /\ drawn # TwoFactor!NoForm
      /\ drawn.method \in TwoFactor!GetTwoFaMethods(next.page)
      /\ drawn.enabled = next.settings.enabled /\ drawn.enforced = next.settings.enforced
      /\ next.settings.method \in TwoFactor!GetTwoFaMethods(next.page) => drawn.method = next.settings.method
  BY ShownForm
<1>4. ui.form \in Setting /\ ui.settings \in Setting /\ ~ui.form.enforced
      /\ ui.form.method \in TwoFactor!GetTwoFaMethods(ui.page) \cup {"none"}
      /\ "app" \in TwoFactor!GetTwoFaMethods(ui.page)
  BY DEF TwoFactorTyped, TwoFactorPage, TwoFactor!GetTwoFaMethods
<1>5. /\ ui' \in TwoFactorPage /\ ui'.page = ui.page /\ ui'.dialog = TwoFactor!NoDialog
      /\ ui'.settings \in UserSetting /\ ~ui'.form.enforced /\ ui'.form # TwoFactor!NoForm
      /\ ui'.form.method \in TwoFactor!GetTwoFaMethods(ui.page) \cup {"none"}
      /\ Agree'
  <2>1. CASE ~next.dialog.changed
    <3>1. ui' = shut
      BY <2>1 DEF TwoFactor!Closed
    <3> HIDE DEF shut
    <3> QED BY <2>1, <3>1, <1>2, <1>4 DEF Agree
  <2>2. CASE next.dialog.changed /\ next.dialog.select
    <3> DEFINE form == [ui.form EXCEPT !.method = "app"]
    <3>1. ui' = [shut EXCEPT !.form.method = "app", !.settings.method = "app"]
      BY <2>2 DEF TwoFactor!Closed
    <3>2. form \in Setting /\ form.enabled /\ ~form.enforced /\ form.method = "app"
      BY <2>2, <1>4 DEF Setting
    <3>3. OwnApp \in Setting /\ OwnApp \in UserSetting /\ OwnApp.enabled /\ ~OwnApp.enforced /\ OwnApp.method = "app"
          /\ [OwnApp EXCEPT !.method = "app"] = OwnApp
      BY DEF OwnApp, TwoFactor!Settings, Setting, UserSetting
    <3>4. shut.form = ui.form /\ shut.settings = OwnApp
      BY <2>2, <1>2
    <3> HIDE DEF shut
    <3>5. ui' = [shut EXCEPT !.form = form, !.settings = OwnApp]
      BY <3>1, <3>3, <3>4, <1>2 DEF TwoFactorPage
    <3>6. form # TwoFactor!NoForm
      <4>1. TwoFactor!NoForm.method = "no form"
        BY DEF TwoFactor!NoForm, TwoFactor!Settings
      <4> QED BY <4>1, <3>2
    <3> HIDE DEF form
    <3>7. /\ ui'.form = form /\ ui'.settings = OwnApp /\ ui'.page = shut.page /\ ui'.dialog = shut.dialog
          /\ ui' \in TwoFactorPage
      BY <3>2, <3>3, <3>5, <1>2 DEF TwoFactorPage
    <3>8. Agree'
      BY <3>2, <3>3, <3>7 DEF Agree, Setting
    <3> QED BY <3>2, <3>3, <3>6, <3>7, <3>8, <1>2, <1>4
  <2>3. CASE next.dialog.changed /\ ~next.dialog.select
    <3>1. ui' = [shut EXCEPT !.form = drawn]
      BY <2>3 DEF TwoFactor!Closed
    <3> HIDE DEF shut, drawn
    <3>2. /\ ui'.form = drawn /\ ui'.settings = shut.settings /\ ui'.page = shut.page
          /\ ui'.dialog = shut.dialog /\ ui' \in TwoFactorPage
      BY <3>1, <1>2, <1>3 DEF TwoFactorPage
    <3>3. next.settings.enabled => next.settings.method \in TwoFactor!GetTwoFaMethods(next.page)
      BY DEF UserSetting, Setting, TwoFactor!GetTwoFaMethods
    <3>4. ~next.settings.enforced
      BY DEF UserSetting
    <3> QED BY <3>2, <3>3, <3>4, <1>2, <1>3 DEF Agree
  <2> QED BY <2>1, <2>2, <2>3
<1> HIDE DEF shut, drawn
<1>6. TwoFactorOps' = TwoFactorOps
  BY <1>5 DEF TwoFactorOps
<1>7. TwoFactorTyped'
  BY <1>5, <1>6 DEF TwoFactorTyped
<1>8. CallsSound'
  BY DEF CallsSound
<1>9. FormFollows'
  BY <1>1, <1>5 DEF FormFollows
<1>10. OrganizationSound'
  BY <1>5 DEF OrganizationSound
<1> QED BY <1>7, <1>8, <1>9, <1>10

LEMMA CloseDialogKeeps == ASSUME TwoFactorInv, TwoFactor!CloseDialog PROVE TwoFactorInv'
<1> USE DEF TwoFactorInv
<1>1. /\ ui.dialog # TwoFactor!NoDialog /\ ui' = TwoFactor!Closed(ui) /\ calls' = calls /\ db' = db
      /\ \A c \in calls : c.op \notin TwoFactor!AskedOps
  BY DEF TwoFactor!CloseDialog, TwoFactor!Running
<1>2. ui \in TwoFactorPage /\ ui.page = "account" /\ ui.form # TwoFactor!NoForm /\ ui.settings \in UserSetting
  BY <1>1 DEF TwoFactorTyped
<1>3. /\ ~ui.dialog.changed => Agree
      /\ ui.dialog.select => ui.form.enabled
      /\ ui.dialog.select /\ ui.dialog.changed => ui.settings = OwnApp
  BY <1>2 DEF FormFollows, Current
<1> QED BY <1>1, <1>2, <1>3, DialogShuts

LEMMA DialogAnsweredKeeps == ASSUME TwoFactorInv, NEW c \in calls, TwoFactor!DialogAnswered(c) PROVE TwoFactorInv'
<1> USE DEF TwoFactorInv
<1> DEFINE changed == [ui EXCEPT !.authenticator = c.op # "disable", !.dialog.changed = TRUE,
                                 !.settings = IF c.op = "recovery-codes" THEN @ ELSE c.answer]
<1>1. c.handled /\ c.op \in TwoFactor!AskedOps /\ calls' = calls \ {c} /\ db' = db
  BY DEF TwoFactor!DialogAnswered
<1>2. /\ c.op \in TwoFactorOps /\ c.answer \in Setting /\ c.answer \in UserSetting
      /\ c.op = "confirm" /\ c.ok => c.answer = OwnApp
      /\ ui \in TwoFactorPage
  BY <1>1 DEF TwoFactorTyped, CallsSound, TwoFactor!AskedOps
<1>3. ui.dialog.mode = AskingMode(c.op) /\ \A d \in calls' : d.op \notin TwoFactor!AskedOps
  BY <1>1 DEF FormFollows
<1>4. ui.dialog # TwoFactor!NoDialog
  BY <1>1, <1>3 DEF TwoFactor!NoDialog, AskingMode, TwoFactor!AskedOps
<1>5. ui.page = "account" /\ ui.form # TwoFactor!NoForm /\ ui.settings \in UserSetting
  BY <1>4 DEF TwoFactorTyped
<1>6. /\ ui.dialog \in TwoFactorDialog /\ ui.settings \in Setting
      /\ ui.dialog.select => ui.dialog.mode = "setup" /\ ui.form.enabled
      /\ ui.dialog.select /\ ui.dialog.changed => ui.settings = OwnApp
  BY <1>2 DEF TwoFactorPage, FormFollows
<1>7. /\ TwoFactorOps' = TwoFactorOps /\ CallsSound' /\ calls' \subseteq calls
      /\ Current /\ OrganizationSound'
  <2>1. ui'.page = ui.page
    BY <1>2 DEF TwoFactor!DialogAnswered, TwoFactor!Closed, TwoFactorPage
  <2> QED BY <2>1, <1>1, <1>5 DEF TwoFactorOps, CallsSound, Current, OrganizationSound
<1> DEFINE settings == IF c.op = "recovery-codes" THEN ui.settings ELSE c.answer
           dialog == [ui.dialog EXCEPT !.changed = TRUE]
<1>8. /\ settings \in Setting /\ settings \in UserSetting
      /\ c.op = "confirm" /\ c.ok => settings = OwnApp
      /\ dialog \in TwoFactorDialog /\ dialog.changed /\ dialog.select = ui.dialog.select
      /\ dialog.mode = ui.dialog.mode
  BY <1>2, <1>5, <1>6 DEF TwoFactorDialog
<1>9. changed = [ui EXCEPT !.authenticator = c.op # "disable", !.dialog = dialog, !.settings = settings]
  BY <1>2 DEF TwoFactorPage
<1> HIDE DEF settings, dialog, changed
<1>10. /\ changed \in TwoFactorPage /\ changed.page = ui.page /\ changed.form = ui.form
       /\ changed.settings = settings /\ changed.dialog = dialog
  BY <1>2, <1>8, <1>9 DEF TwoFactorPage
<1>11. CASE ~c.ok /\ ui' = ui
  BY <1>1, <1>7, <1>11 DEF TwoFactorTyped, FormFollows, Agree
<1>12. CASE c.op = "setup" /\ ui' = [ui EXCEPT !.dialog.step = "scan"]
  <2> DEFINE scan == [ui.dialog EXCEPT !.step = "scan"]
  <2>1. /\ scan \in TwoFactorDialog /\ scan.changed = ui.dialog.changed /\ scan.select = ui.dialog.select
        /\ scan.mode = ui.dialog.mode
    BY <1>3, <1>6, <1>12 DEF TwoFactorDialog, AskingMode
  <2>2. ui' = [ui EXCEPT !.dialog = scan]
    BY <1>2, <1>12 DEF TwoFactorPage
  <2> HIDE DEF scan
  <2>3. /\ ui' \in TwoFactorPage /\ ui'.page = ui.page /\ ui'.form = ui.form
        /\ ui'.settings = ui.settings /\ ui'.dialog = scan
    BY <1>2, <2>1, <2>2 DEF TwoFactorPage
  <2>4. TwoFactorTyped'
    BY <1>1, <1>5, <1>7, <2>3 DEF TwoFactorTyped
  <2>5. FormFollows'
    BY <1>3, <1>7, <2>1, <2>3 DEF FormFollows, Agree
  <2> QED BY <1>7, <2>4, <2>5
<1>13. CASE c.op = "disable" /\ ui' = TwoFactor!Closed(changed)
  <2>1. ~ui.dialog.select
    BY <1>3, <1>6, <1>13 DEF AskingMode
  <2> QED BY <1>1, <1>3, <1>5, <1>7, <1>8, <1>10, <1>13, <2>1, DialogShuts
<1>14. CASE c.ok /\ c.op \in {"confirm", "recovery-codes"} /\ ui' = [changed EXCEPT !.dialog.step = "recovery-codes"]
  <2> DEFINE codes == [dialog EXCEPT !.step = "recovery-codes"]
  <2>1. /\ codes \in TwoFactorDialog /\ codes.changed /\ codes.select = ui.dialog.select
        /\ codes.mode = ui.dialog.mode
    BY <1>3, <1>8, <1>14 DEF TwoFactorDialog, AskingMode
  <2>2. ui' = [changed EXCEPT !.dialog = codes]
    BY <1>10, <1>14 DEF TwoFactorPage
  <2> HIDE DEF codes
  <2>3. /\ ui' \in TwoFactorPage /\ ui'.page = ui.page /\ ui'.form = ui.form
        /\ ui'.settings = settings /\ ui'.dialog = codes
    BY <1>10, <2>1, <2>2 DEF TwoFactorPage
  <2>4. TwoFactorTyped'
    BY <1>1, <1>5, <1>7, <1>8, <2>3 DEF TwoFactorTyped
  <2>5. ui.dialog.select => settings = OwnApp
    BY <1>3, <1>6, <1>8, <1>14 DEF AskingMode
  <2>6. FormFollows'
    BY <1>3, <1>5, <1>6, <1>7, <2>1, <2>3, <2>5 DEF FormFollows
  <2> QED BY <1>7, <2>4, <2>6
<1> QED BY <1>11, <1>12, <1>13, <1>14 DEF TwoFactor!DialogAnswered, changed


LEMMA TwoFactorInit == TwoFactor!Init => TwoFactorInv
<1> SUFFICES ASSUME TwoFactor!Init PROVE TwoFactorInv
  OBVIOUS
<1>1. PICK page \in {"organization", "system", "account"} :
        /\ ui = [page |-> page, settings |-> TwoFactor!Unset, form |-> TwoFactor!NoForm, authenticator |-> FALSE,
                 system |-> FALSE, dialog |-> TwoFactor!NoDialog, saves |-> 0, asks |-> 0]
        /\ calls = {[op |-> op, sent |-> TwoFactor!Unset, handled |-> FALSE, ok |-> FALSE,
                     answer |-> TwoFactor!Unset] : op \in TwoFactor!Loads(page)}
        /\ \E user, company \in {TwoFactor!Settings(FALSE, FALSE, "email"), TwoFactor!Settings(TRUE, FALSE, "sms")},
              app \in BOOLEAN :
             db = [user |-> IF app THEN TwoFactor!Settings(TRUE, FALSE, "app") ELSE user,
                   company |-> [company EXCEPT !.enforced = @ \/ company.enabled],
                   system |-> TwoFactor!Settings(TRUE, FALSE, "email"), authenticator |-> app]
  BY DEF TwoFactor!Init
<1>2. TwoFactor!Unset \in UserSetting /\ TwoFactor!Unset \in SystemSetting /\ TwoFactor!Unset \in Setting
  BY DEF TwoFactor!Unset, TwoFactor!Settings, UserSetting, SystemSetting, Setting
<1>3. /\ TwoFactor!NoDialog \in TwoFactorDialog /\ ~TwoFactor!NoDialog.changed /\ ~TwoFactor!NoDialog.select
      /\ TwoFactor!NoDialog.mode = "none"
  BY DEF TwoFactor!NoDialog, TwoFactorDialog
<1>4. ui \in TwoFactorPage /\ ui.page = page /\ ui.settings = TwoFactor!Unset /\ ui.form = TwoFactor!NoForm
      /\ ui.dialog = TwoFactor!NoDialog
  BY <1>1, <1>2, <1>3 DEF TwoFactorPage
<1>5. db \in [user : UserSetting, company : Setting, system : SystemSetting, authenticator : BOOLEAN]
  <2>1. PICK user, company \in {TwoFactor!Settings(FALSE, FALSE, "email"), TwoFactor!Settings(TRUE, FALSE, "sms")},
             app \in BOOLEAN :
          db = [user |-> IF app THEN TwoFactor!Settings(TRUE, FALSE, "app") ELSE user,
                company |-> [company EXCEPT !.enforced = @ \/ company.enabled],
                system |-> TwoFactor!Settings(TRUE, FALSE, "email"), authenticator |-> app]
    BY <1>1
  <2>2. /\ TwoFactor!Settings(FALSE, FALSE, "email") \in UserSetting
        /\ TwoFactor!Settings(TRUE, FALSE, "sms") \in UserSetting
        /\ TwoFactor!Settings(TRUE, FALSE, "app") \in UserSetting
        /\ TwoFactor!Settings(TRUE, FALSE, "email") \in SystemSetting
        /\ UserSetting \subseteq Setting
    BY DEF TwoFactor!Settings, UserSetting, SystemSetting, Setting
  <2>3. [company EXCEPT !.enforced = @ \/ company.enabled] \in Setting
    BY <2>2 DEF Setting
  <2> QED BY <2>1, <2>2, <2>3
<1>6. ASSUME NEW c \in calls
      PROVE  /\ c \in [op : TwoFactorOps, sent : Setting, handled : BOOLEAN, ok : BOOLEAN, answer : Setting]
             /\ c.op \in TwoFactor!Loads(page) /\ ~c.handled
             /\ c.sent = TwoFactor!Unset /\ c.answer = TwoFactor!Unset
  <2>1. PICK op \in TwoFactor!Loads(page) :
          c = [op |-> op, sent |-> TwoFactor!Unset, handled |-> FALSE, ok |-> FALSE, answer |-> TwoFactor!Unset]
    BY <1>1
  <2>2. op \in TwoFactorOps
    BY <1>4 DEF TwoFactorOps
  <2> QED BY <2>1, <2>2, <1>2
<1>7. TwoFactorTyped
  BY <1>2, <1>4, <1>5, <1>6 DEF TwoFactorTyped
<1>8. CallsSound
  BY <1>2, <1>6 DEF CallsSound
<1>9. \A c \in calls : c.op \notin TwoFactor!AskedOps
  BY <1>6 DEF TwoFactor!Loads, TwoFactor!AskedOps, TwoFactor!LoadOrganization, TwoFactor!LoadSystem,
    TwoFactor!LoadAccount
<1>10. FormFollows
  BY <1>3, <1>4, <1>9 DEF FormFollows
<1>11. OrganizationSound
  <2>1. ASSUME NEW c \in calls, NEW d \in calls, c.op = d.op PROVE c = d
    <3>1. PICK op \in TwoFactor!Loads(page) :
            c = [op |-> op, sent |-> TwoFactor!Unset, handled |-> FALSE, ok |-> FALSE, answer |-> TwoFactor!Unset]
      BY <1>1
    <3>2. PICK other \in TwoFactor!Loads(page) :
            d = [op |-> other, sent |-> TwoFactor!Unset, handled |-> FALSE, ok |-> FALSE, answer |-> TwoFactor!Unset]
      BY <1>1
    <3>3. op = other
      BY <2>1, <3>1, <3>2
    <3> QED BY <3>1, <3>2, <3>3
  <2>2. db.company \in SystemSetting
    <3>1. PICK company \in {TwoFactor!Settings(FALSE, FALSE, "email"), TwoFactor!Settings(TRUE, FALSE, "sms")} :
             db.company = [company EXCEPT !.enforced = @ \/ company.enabled]
      <4>1. PICK user, company \in {TwoFactor!Settings(FALSE, FALSE, "email"), TwoFactor!Settings(TRUE, FALSE, "sms")},
                 app \in BOOLEAN :
              db = [user |-> IF app THEN TwoFactor!Settings(TRUE, FALSE, "app") ELSE user,
                    company |-> [company EXCEPT !.enforced = @ \/ company.enabled],
                    system |-> TwoFactor!Settings(TRUE, FALSE, "email"), authenticator |-> app]
        BY <1>1
      <4>2. db.company = [company EXCEPT !.enforced = @ \/ company.enabled]
        BY <4>1
      <4> QED BY <4>2
    <3>2. /\ TwoFactor!Settings(FALSE, FALSE, "email") \in SystemSetting
          /\ TwoFactor!Settings(TRUE, FALSE, "sms") \in SystemSetting
      BY DEF TwoFactor!Settings, SystemSetting, Setting
    <3>3. company \in SystemSetting
      BY <3>2
    <3>4. [company EXCEPT !.enforced = @ \/ company.enabled] \in SystemSetting
      BY <3>3 DEF SystemSetting, Setting
    <3> QED BY <3>1, <3>4
  <2> QED BY <1>2, <1>4, <1>6, <2>1, <2>2 DEF OrganizationSound
<1> QED BY <1>7, <1>8, <1>10, <1>11 DEF TwoFactorInv

(* The settings a page shows are those stored, on the pages whose answers    *)
(* are applied, and on the two-factor pages those it will send, whatever is  *)
(* loaded, saved, tested and asked for, in whichever order it is answered    *)
(* (SettingsForms' screens, two-fa-settings.js).  Of the organization's      *)
(* two-factor page it is said only until the user's own settings have been   *)
(* answered: they replace what will be sent (settings/two-fa.js:163-170).    *)
THEOREM SettingsShownAreStored == Spec => []ShownIsStored
<1>1. Init => SettingsIInv
  BY FormsInit, TwoFactorInit DEF Init, SettingsIInv
<1>2. SettingsIInv /\ [Next]_vars => SettingsIInv'
  <2> SUFFICES ASSUME SettingsIInv, [Next]_vars PROVE SettingsIInv'
    OBVIOUS
  <2>1. ASSUME part' = "forms" PROVE FormsInv'
    <3>1. part = "forms" /\ FormsInv /\ (Forms!Next \/ UNCHANGED screenVars)
      BY <2>1 DEF SettingsIInv, Next, NextOnScreen, NextOfBuild, vars
    <3>2. CASE Forms!Next
      BY <3>1, <3>2, FormsHandleKeeps, FormsArriveKeeps, FormsEditKeeps, SendKeeps DEF Forms!Next
    <3>3. CASE UNCHANGED screenVars
      BY <3>1, <3>3 DEF screenVars, FormsInv, FormsTyped, OneAtATime, Matches
    <3> QED BY <3>1, <3>2, <3>3
  <2>2. ASSUME part' = "two-factor" PROVE TwoFactorInv'
    <3>1. part = "two-factor" /\ TwoFactorInv /\ (TwoFactor!Next \/ UNCHANGED screenVars)
      BY <2>2 DEF SettingsIInv, Next, NextOnScreen, NextOfBuild, vars
    <3>2. CASE TwoFactor!Next
      BY <3>1, <3>2, TwoFactorHandleKeeps, LoadedKeeps, SavedKeeps, DialogAnsweredKeeps, OnTwoFaToggledKeeps,
         OnTwoFaEnforcedToggledKeeps, OnTwoFaSelectedKeeps, SaveSettingsKeeps, DialogNextKeeps,
         CloseDialogKeeps, ManageAuthenticatorKeeps
      DEF TwoFactor!Next
    <3>3. CASE UNCHANGED screenVars
      BY <3>1, <3>3 DEF screenVars, TwoFactorInv, TwoFactorTyped, TwoFactorOps, CallsSound, FormFollows, Agree,
                          OrganizationSound, Current, TwoFactor!Running
    <3> QED BY <3>1, <3>2, <3>3
  <2> QED BY <2>1, <2>2 DEF SettingsIInv
<1>3. SettingsIInv => ShownIsStored
  <2> SUFFICES ASSUME SettingsIInv PROVE ShownIsStored
    OBVIOUS
  <2>1. ASSUME part = "forms" PROVE Forms!ShownIsStored
    BY <2>1 DEF SettingsIInv, FormsInv, OneAtATime, Matches, Forms!ShownIsStored
  <2>2. ASSUME part = "two-factor" PROVE TwoFactor!ShownIsSent
    <3>1. ui.dialog = TwoFactor!NoDialog => ~ui.dialog.changed
      BY DEF TwoFactor!NoDialog
    <3> QED BY <2>2, <3>1 DEF SettingsIInv, TwoFactorInv, FormFollows, Agree, Current,
                              TwoFactor!ShownIsSent, TwoFactor!OwnReplaceCompanys
  <2> QED BY <2>1, <2>2 DEF ShownIsStored
<1> QED BY <1>1, <1>2, <1>3, PTL DEF Spec


-----------------------------------------------------------------------------
(* The installer's run.  The steps that come after some of them.             *)
PastGrant == {"deploy", "again", "done"}
PastUp == {"wait", "grant"} \cup PastGrant
PastApiEnv == {"up"} \cup PastUp
PastProduction == {"api-env"} \cup PastApiEnv
PastDevelopment == {"production"} \cup PastProduction
PastJson == {"development"} \cup PastDevelopment
PastOverride == {"json"} \cup PastJson
PastKey == {"mode", "origin", "override"} \cup PastOverride

(* What a run has done by a step stays until it ends, and what it built on   *)
(* earlier runs' leavings is its own by then.                                *)
StackInv ==
  /\ Stack!TypeOK /\ DOMAIN docker = {"volume", "given"}
  /\ run.step # "off" => run.count > 0
  /\ run.step \in PastKey => Stack!Usable(disk.key)
  /\ run.step \in PastOverride => disk.override = Stack!OverrideOf
  /\ run.step \in PastJson => disk.json = run.answers.host
  /\ run.step \in PastDevelopment => disk.development = run.answers.host
  /\ run.step \in PastProduction => disk.production = run.answers.host
  /\ run.step \in PastApiEnv => disk.apiEnv = "file"
  /\ run.step \in PastUp => docker.given = Stack!Given
  /\ run.step \in PastGrant /\ Stack!Bundled =>
        docker.volume = [root |-> disk.override.secrets, granted |-> TRUE]

LEMMA StepAfter ==
  /\ Stack!After("enabled") = "key" /\ Stack!After("key") = "mode" /\ Stack!After("mode") = "origin"
  /\ Stack!After("origin") = "override" /\ Stack!After("override") = "json" /\ Stack!After("json") = "development"
  /\ Stack!After("development") = "production" /\ Stack!After("production") = "api-env"
  /\ Stack!After("up") = "wait" /\ Stack!After("again") = "done"
<1>1. ASSUME NEW i \in 1..14, NEW j \in 1..14, Stack!Steps[i] = Stack!Steps[j] PROVE i = j
  BY <1>1 DEF Stack!Steps
<1>2. ASSUME NEW i \in 1..14 PROVE Stack!After(Stack!Steps[i]) = Stack!Steps[i + 1]
  <2>1. (CHOOSE j \in 1..14 : Stack!Steps[j] = Stack!Steps[i]) = i
    BY <1>1
  <2> QED BY <2>1 DEF Stack!After
<1>3. /\ Stack!Steps[1] = "enabled" /\ Stack!Steps[2] = "key" /\ Stack!Steps[3] = "mode" /\ Stack!Steps[4] = "origin"
      /\ Stack!Steps[5] = "override" /\ Stack!Steps[6] = "json" /\ Stack!Steps[7] = "development" /\ Stack!Steps[8] = "production"
      /\ Stack!Steps[9] = "api-env" /\ Stack!Steps[10] = "up" /\ Stack!Steps[11] = "wait" /\ Stack!Steps[14] = "again" /\ Stack!Steps[15] = "done"
  BY DEF Stack!Steps
<1>4. /\ Stack!After(Stack!Steps[1]) = Stack!Steps[2] /\ Stack!After(Stack!Steps[2]) = Stack!Steps[3] /\ Stack!After(Stack!Steps[3]) = Stack!Steps[4]
      /\ Stack!After(Stack!Steps[4]) = Stack!Steps[5] /\ Stack!After(Stack!Steps[5]) = Stack!Steps[6] /\ Stack!After(Stack!Steps[6]) = Stack!Steps[7]
      /\ Stack!After(Stack!Steps[7]) = Stack!Steps[8] /\ Stack!After(Stack!Steps[8]) = Stack!Steps[9] /\ Stack!After(Stack!Steps[10]) = Stack!Steps[11]
      /\ Stack!After(Stack!Steps[14]) = Stack!Steps[15]
  BY <1>2
<1> QED BY <1>3, <1>4

LEMMA StepNames ==
  /\ Stack!Running = {"enabled", "key", "mode", "origin", "override", "json", "development", "production",
                "api-env", "up", "wait", "grant", "deploy", "again"}
  /\ Stack!Written = {"enabled", "key", "mode", "origin", "override", "json", "development", "production"}
BY DEF Stack!Running, Stack!Written, Stack!Steps

DiskFields == {"enabled", "key", "mode", "origin", "override", "json", "development", "production", "apiEnv"}

LEMMA WriteKeeps == ASSUME StackInv, Stack!HostsAssumption, Stack!RunsAssumption, Stack!WriteNext PROVE StackInv'
<1> USE StepAfter, StepNames DEF Stack!HostsAssumption, Stack!RunsAssumption
<1>1. /\ run.step \in Stack!Written /\ docker' = docker
      /\ disk' = [disk EXCEPT ![run.step] = Stack!Content(run.step)]
      /\ run' = [run EXCEPT !.step = Stack!After(run.step)]
  BY DEF Stack!WriteNext, Stack!Go
<1>2. run.step \in DiskFields /\ Stack!After(run.step) \in Stack!Running /\ run.count \in 1..MaxRuns
  BY <1>1 DEF DiskFields, StackInv, Stack!TypeOK
<1>3. /\ run'.step = Stack!After(run.step) /\ run'.answers = run.answers /\ run'.count = run.count
      /\ run' \in [step : Stack!Running \cup {"off", "done"}, answers : Stack!Answers, count : 0..MaxRuns]
  BY <1>1, <1>2 DEF StackInv, Stack!TypeOK
<1>4. run.answers.host \in Hosts /\ Stack!PublicName \in Hosts /\ Stack!OverrideOf' = Stack!OverrideOf
  BY <1>3 DEF StackInv, Stack!TypeOK, Stack!Answers, Stack!PublicName, Stack!IsLocalhost, Stack!OverrideOf
<1>5. CASE run.step = "enabled"
  <2>1. disk' = [disk EXCEPT !.enabled = Stack!Kept(disk.enabled, "false")]
    BY <1>1, <1>5 DEF Stack!Content
  <2> QED BY <1>1, <1>2, <1>3, <1>4, <1>5, <2>1 DEF StackInv, Stack!TypeOK, PastKey, PastOverride, PastJson, PastDevelopment, PastProduction, PastApiEnv, PastUp, PastGrant, Stack!Kept
<1>6. CASE run.step = "key"
  <2>1. disk' = [disk EXCEPT !.key = Stack!KeyFor(disk.key)]
    BY <1>1, <1>6 DEF Stack!Content
  <2>2. Stack!KeyFor(disk.key) \in -1..MaxRuns /\ Stack!KeyFor(disk.key) > 0
    BY <1>2 DEF Stack!KeyFor, Stack!Usable, StackInv, Stack!TypeOK
  <2> QED BY <1>1, <1>2, <1>3, <1>4, <1>6, <2>1, <2>2 DEF StackInv, Stack!TypeOK, PastKey, PastOverride, PastJson, PastDevelopment, PastProduction, PastApiEnv, PastUp, PastGrant, Stack!Usable
<1>7. CASE run.step = "mode"
  <2>1. disk' = [disk EXCEPT !.mode = Stack!Kept(disk.mode, "log")]
    BY <1>1, <1>7 DEF Stack!Content
  <2> QED BY <1>1, <1>2, <1>3, <1>4, <1>7, <2>1 DEF StackInv, Stack!TypeOK, PastKey, PastOverride, PastJson, PastDevelopment, PastProduction, PastApiEnv, PastUp, PastGrant, Stack!Kept
<1>8. CASE run.step = "origin"
  <2>1. disk' = [disk EXCEPT !.origin = Stack!Kept(disk.origin, Stack!PublicName)]
    BY <1>1, <1>8 DEF Stack!Content
  <2> QED BY <1>1, <1>2, <1>3, <1>4, <1>8, <2>1 DEF StackInv, Stack!TypeOK, PastKey, PastOverride, PastJson, PastDevelopment, PastProduction, PastApiEnv, PastUp, PastGrant, Stack!Kept
<1>9. CASE run.step = "override"
  <2>1. disk' = [disk EXCEPT !.override = Stack!OverrideOf]
    BY <1>1, <1>9 DEF Stack!Content
  <2>2. Stack!OverrideOf \in Stack!Overrides
    BY <1>2, <1>4 DEF Stack!OverrideOf, Stack!Overrides, StackInv, Stack!TypeOK
  <2> QED BY <1>1, <1>2, <1>3, <1>4, <1>9, <2>1, <2>2 DEF StackInv, Stack!TypeOK, PastKey, PastOverride, PastJson, PastDevelopment, PastProduction, PastApiEnv, PastUp, PastGrant
<1>10. CASE run.step = "json"
  <2>1. disk' = [disk EXCEPT !.json = run.answers.host]
    BY <1>1, <1>10 DEF Stack!Content
  <2> QED BY <1>1, <1>2, <1>3, <1>4, <1>10, <2>1 DEF StackInv, Stack!TypeOK, PastKey, PastOverride, PastJson, PastDevelopment, PastProduction, PastApiEnv, PastUp, PastGrant
<1>11. CASE run.step = "development"
  <2>1. disk' = [disk EXCEPT !.development = run.answers.host]
    BY <1>1, <1>11 DEF Stack!Content
  <2> QED BY <1>1, <1>2, <1>3, <1>4, <1>11, <2>1 DEF StackInv, Stack!TypeOK, PastKey, PastOverride, PastJson, PastDevelopment, PastProduction, PastApiEnv, PastUp, PastGrant
<1>12. CASE run.step = "production"
  <2>1. disk' = [disk EXCEPT !.production = run.answers.host]
    BY <1>1, <1>12 DEF Stack!Content
  <2> QED BY <1>1, <1>2, <1>3, <1>4, <1>12, <2>1 DEF StackInv, Stack!TypeOK, PastKey, PastOverride, PastJson, PastDevelopment, PastProduction, PastApiEnv, PastUp, PastGrant
<1> QED BY <1>1, <1>5, <1>6, <1>7, <1>8, <1>9, <1>10, <1>11, <1>12
LEMMA UpKeeps ==
  ASSUME StackInv, Stack!RunsAssumption, Stack!ComposeUp
  PROVE  /\ disk' = [disk EXCEPT !.apiEnv = IF @ = Stack!Absent THEN "directory" ELSE @]
         /\ docker'.given = Stack!Given' /\ docker'.volume = Stack!Initialised
         /\ docker'.volume \in {Stack!NoVolume} \cup [root : 0..MaxRuns, granted : BOOLEAN]
         /\ docker'.given \in Stack!Environment /\ DOMAIN docker' = {"volume", "given"}
<1>1. docker' = [volume |-> Stack!Initialised, given |-> Stack!Given]
  BY DEF Stack!ComposeUp
<1>2. disk' = [disk EXCEPT !.apiEnv = IF @ = Stack!Absent THEN "directory" ELSE @]
  BY DEF Stack!ComposeUp
<1>3. Stack!Given' = Stack!Given
  BY <1>2 DEF Stack!Given, Stack!FromEnv, Stack!OverrideUrl, Stack!ComposeUrl, StackInv, Stack!TypeOK
<1>4. Stack!Bundled => disk.override.secrets \in 1..MaxRuns
  BY DEF StackInv, Stack!TypeOK, Stack!Overrides, Stack!NoOverride, Stack!Bundled, Stack!NoAnswers, Stack!Absent
<1>5. Stack!Initialised \in {Stack!NoVolume} \cup [root : 0..MaxRuns, granted : BOOLEAN]
  <2>1. CASE docker.volume # Stack!NoVolume
    BY <2>1 DEF Stack!Initialised, StackInv, Stack!TypeOK
  <2>2. CASE docker.volume = Stack!NoVolume
    <3>1. (IF Stack!Bundled THEN disk.override.secrets ELSE Stack!NoKey) \in 0..MaxRuns
      BY <1>4 DEF Stack!NoKey, Stack!RunsAssumption
    <3> QED BY <2>2, <3>1 DEF Stack!Initialised
  <2> QED BY <2>1, <2>2
<1>6. Stack!Given \in Stack!Environment
  <2>1. /\ disk.key \in -1..MaxRuns /\ disk.enabled \in {Stack!Absent, "false", "true"}
        /\ disk.mode \in {Stack!Absent, "log", "enforce"} /\ disk.origin \in Hosts \cup {Stack!Absent}
        /\ disk.override \in Stack!Overrides
    BY DEF StackInv, Stack!TypeOK
  <2>2. Stack!FromEnv \in Stack!Environments
    BY <2>1 DEF Stack!FromEnv, Stack!Environments
  <2>3. Stack!ComposeUrl \in Stack!Urls
    BY DEF Stack!ComposeUrl, Stack!Urls, Stack!NoKey, Stack!RunsAssumption
  <2>4. CASE disk.override = Stack!NoOverride
    <3>1. disk.override.answers.host = Stack!Absent /\ disk.override.origins = Stack!Absent
      BY <2>4 DEF Stack!NoOverride, Stack!NoAnswers
    <3>2. Stack!OverrideUrl \in Stack!Urls
      BY <2>3, <2>4 DEF Stack!OverrideUrl
    <3> QED BY <2>1, <2>2, <2>3, <3>1, <3>2 DEF Stack!Given, Stack!Environment
  <2>5. CASE disk.override # Stack!NoOverride
    <3>1. disk.override \in [answers : Stack!Answers, secrets : 1..MaxRuns, origins : Hosts]
      BY <2>1, <2>5 DEF Stack!Overrides
    <3>2. Stack!OverrideUrl \in Stack!Urls
      BY <2>5, <3>1 DEF Stack!OverrideUrl, Stack!Urls, Stack!Answers
    <3>3. disk.override.answers.host \in Hosts /\ disk.override.origins \in Hosts
      BY <3>1 DEF Stack!Answers
    <3> QED BY <2>1, <2>2, <2>3, <3>2, <3>3 DEF Stack!Given, Stack!Environment
  <2> QED BY <2>4, <2>5
<1> QED BY <1>1, <1>2, <1>3, <1>5, <1>6 DEF StackInv, Stack!TypeOK

LEMMA StackStep == ASSUME StackInv, Stack!HostsAssumption, Stack!RunsAssumption, Stack!Next PROVE StackInv'
<1> USE DEF PastKey, PastOverride, PastJson, PastDevelopment, PastProduction, PastApiEnv, PastUp, PastGrant
<1>0. /\ run \in [step : Stack!Running \cup {"off", "done"}, answers : Stack!Answers, count : 0..MaxRuns]
      /\ MaxRuns \in Nat
  BY DEF StackInv, Stack!TypeOK, Stack!RunsAssumption
<1>1. ASSUME NEW answers \in Stack!Answers, Stack!Begin(answers) PROVE StackInv'
  <2>1. /\ run' = [step |-> "enabled", answers |-> answers, count |-> run.count + 1]
        /\ disk' = disk /\ docker' = docker /\ run.count < MaxRuns
    BY <1>1 DEF Stack!Begin
  <2>2. Stack!TypeOK'
    BY <1>0, <2>1, StepNames DEF StackInv, Stack!TypeOK
  <2> QED BY <1>0, <2>1, <2>2 DEF StackInv
<1>2. CASE Stack!WriteNext
  BY <1>2, WriteKeeps
<1>3. CASE Stack!EnsureApiEnv
  <2>1. /\ run.step = "api-env" /\ docker' = docker
        /\ \/ disk.apiEnv = "directory" /\ run' = [run EXCEPT !.step = "off"] /\ disk' = disk
           \/ run' = [run EXCEPT !.step = "up"] /\ disk' = [disk EXCEPT !.apiEnv = "file"]
    BY <1>3 DEF Stack!EnsureApiEnv, Stack!Go
  <2>2. Stack!TypeOK'
    BY <1>0, <2>1, StepNames DEF StackInv, Stack!TypeOK
  <2>3. Stack!OverrideOf' = Stack!OverrideOf
    BY <1>0, <2>1 DEF Stack!OverrideOf, Stack!PublicName, Stack!IsLocalhost
  <2> QED BY <1>0, <2>1, <2>2, <2>3 DEF StackInv, Stack!TypeOK
<1>4. CASE Stack!Start
  <2>1. run.step \in {"up", "again"} /\ Stack!ComposeUp /\ run' = [run EXCEPT !.step = Stack!After(run.step)]
    BY <1>4 DEF Stack!Start, Stack!Go
  <2>2. run'.answers = run.answers /\ run'.count = run.count /\ run'.step = Stack!After(run.step)
    BY <1>0, <2>1
  <2>3. Stack!After(run.step) \in {"wait", "done"} /\ (run.step = "up" => Stack!After(run.step) = "wait")
    BY <2>1, StepAfter
  <2>4. disk' = disk
    BY <2>1, UpKeeps DEF StackInv, Stack!TypeOK, Stack!Absent
  <2>5. Stack!OverrideOf' = Stack!OverrideOf /\ Stack!Given' = Stack!Given /\ Stack!Bundled' = Stack!Bundled
    BY <2>2, <2>4 DEF Stack!OverrideOf, Stack!PublicName, Stack!IsLocalhost, Stack!Given, Stack!FromEnv, Stack!OverrideUrl, Stack!ComposeUrl, Stack!Bundled
  <2>6. docker' = [volume |-> Stack!Initialised, given |-> Stack!Given]
    BY <2>1 DEF Stack!ComposeUp
  <2>7. run' \in [step : Stack!Running \cup {"off", "done"}, answers : Stack!Answers, count : 0..MaxRuns]
    BY <1>0, <2>1, <2>3, StepNames
  <2>8. Stack!TypeOK'
    BY <2>1, <2>4, <2>7, UpKeeps DEF StackInv, Stack!TypeOK
  <2>9. run.step = "again" /\ Stack!Bundled => docker'.volume = docker.volume
    BY <2>6 DEF StackInv, Stack!Initialised, Stack!NoVolume
  <2> QED BY <1>0, <2>1, <2>2, <2>3, <2>4, <2>5, <2>6, <2>8, <2>9 DEF StackInv
<1>5. CASE Stack!DatabaseReady
  <2>1. run.step = "wait" /\ run' = [run EXCEPT !.step = "grant"] /\ disk' = disk /\ docker' = docker
    BY <1>5 DEF Stack!DatabaseReady, Stack!Go
  <2>2. Stack!OverrideOf' = Stack!OverrideOf
    BY <1>0, <2>1 DEF Stack!OverrideOf, Stack!PublicName, Stack!IsLocalhost
  <2> QED BY <1>0, <2>1, <2>2, StepNames DEF StackInv, Stack!TypeOK, Stack!Given, Stack!FromEnv, Stack!OverrideUrl, Stack!ComposeUrl
<1>6. CASE Stack!Grant
  <2>1. run.step = "grant" /\ disk' = disk /\ docker'.given = docker.given /\ DOMAIN docker' = {"volume", "given"}
    BY <1>6 DEF Stack!Grant, StackInv, Stack!TypeOK
  <2>2. \/ run' = [run EXCEPT !.step = "deploy"] /\ docker' = docker /\ run.answers.db = "external"
        \/ /\ run' = [run EXCEPT !.step = "deploy"] /\ docker' = [docker EXCEPT !.volume.granted = TRUE]
           /\ docker.volume.root = run.count
        \/ run' = [run EXCEPT !.step = "off"] /\ docker' = docker
    BY <1>6 DEF Stack!Grant, Stack!Go
  <2>3. Stack!OverrideOf' = Stack!OverrideOf /\ Stack!Given' = Stack!Given /\ Stack!Bundled' = Stack!Bundled
    BY <1>0, <2>1, <2>2 DEF Stack!OverrideOf, Stack!PublicName, Stack!IsLocalhost, Stack!Given, Stack!FromEnv, Stack!OverrideUrl, Stack!ComposeUrl, Stack!Bundled
  <2>4. run' \in [step : Stack!Running \cup {"off", "done"}, answers : Stack!Answers, count : 0..MaxRuns]
    BY <1>0, <2>2, StepNames
  <2>5. run'.answers = run.answers /\ run'.count = run.count /\ run'.step \in {"deploy", "off"}
    BY <1>0, <2>2
  <2>6. disk.override = Stack!OverrideOf /\ run.count > 0
    BY <2>1 DEF StackInv
  <2>7. /\ docker'.volume \in {Stack!NoVolume} \cup [root : 0..MaxRuns, granted : BOOLEAN]
        /\ run'.step = "deploy" /\ Stack!Bundled => docker'.volume = [root |-> disk.override.secrets, granted |-> TRUE]
    <3>1. CASE docker' = docker /\ (run'.step = "off" \/ run.answers.db = "external")
      BY <2>6, <3>1 DEF StackInv, Stack!TypeOK, Stack!OverrideOf, Stack!Bundled
    <3>2. CASE docker' = [docker EXCEPT !.volume.granted = TRUE] /\ docker.volume.root = run.count
      <4>1. docker.volume \in [root : 0..MaxRuns, granted : BOOLEAN]
        BY <2>6, <3>2 DEF StackInv, Stack!TypeOK, Stack!NoVolume
      <4>2. docker'.volume = [docker.volume EXCEPT !.granted = TRUE]
        BY <3>2 DEF StackInv, Stack!TypeOK
      <4>3. docker'.volume \in [root : 0..MaxRuns, granted : BOOLEAN] /\ docker'.volume.granted = TRUE
        BY <4>1, <4>2
      <4>4. docker'.volume.root = run.count
        BY <3>2, <4>1, <4>2
      <4>5. docker'.volume = [root |-> run.count, granted |-> TRUE]
        BY <4>3, <4>4
      <4> QED BY <2>6, <4>3, <4>5 DEF Stack!OverrideOf
    <3> QED BY <1>0, <2>2, <3>1, <3>2
  <2>8. Stack!TypeOK'
    BY <2>1, <2>4, <2>7 DEF StackInv, Stack!TypeOK
  <2> QED BY <2>1, <2>3, <2>5, <2>7, <2>8 DEF StackInv
<1>7. CASE Stack!Deploy
  <2>1. run.step = "deploy" /\ run' = [run EXCEPT !.step = "again"] /\ disk' = disk /\ docker' = docker
    BY <1>7 DEF Stack!Deploy, Stack!Go
  <2>2. Stack!OverrideOf' = Stack!OverrideOf
    BY <1>0, <2>1 DEF Stack!OverrideOf, Stack!PublicName, Stack!IsLocalhost
  <2> QED BY <1>0, <2>1, <2>2, StepNames DEF StackInv, Stack!TypeOK, Stack!Given, Stack!FromEnv, Stack!OverrideUrl, Stack!ComposeUrl, Stack!Bundled
<1>8. ASSUME run' = [run EXCEPT !.step = "off"], Stack!TypeOK', DOMAIN docker' = {"volume", "given"} PROVE StackInv'
  BY <1>0, <1>8 DEF StackInv
<1>9. CASE Stack!Stop
  <2>1. /\ run' = [run EXCEPT !.step = "off"] /\ docker' = docker
        /\ disk' = disk \/ (run.step \in Stack!InPlace /\ disk' = [disk EXCEPT ![run.step] = Stack!Torn])
    BY <1>9 DEF Stack!Stop, Stack!Go
  <2> QED BY <1>0, <1>8, <2>1 DEF StackInv, Stack!TypeOK, Stack!InPlace
<1>10. ASSUME NEW mode \in {"log", "enforce"}, Stack!SwitchOn(mode) PROVE StackInv'
  BY <1>0, <1>8, <1>10 DEF Stack!SwitchOn, Stack!Go, StackInv, Stack!TypeOK
<1>11. CASE Stack!UpByHand
  <2>1. Stack!ComposeUp /\ run' = [run EXCEPT !.step = "off"]
    BY <1>11 DEF Stack!UpByHand, Stack!Go
  <2> QED BY <1>0, <1>8, <2>1, UpKeeps DEF StackInv, Stack!TypeOK
<1>12. CASE Stack!ClearApiEnv
  BY <1>0, <1>8, <1>12 DEF Stack!ClearApiEnv, Stack!Go, StackInv, Stack!TypeOK
<1>13. CASE Stack!ClearVolume
  BY <1>0, <1>8, <1>13 DEF Stack!ClearVolume, Stack!Go, StackInv, Stack!TypeOK
<1> QED BY <1>1, <1>2, <1>3, <1>4, <1>5, <1>6, <1>7, <1>9, <1>10, <1>11, <1>12, <1>13 DEF Stack!Next

LEMMA StackInit == ASSUME Stack!HostsAssumption, Stack!RunsAssumption, Stack!Init PROVE StackInv
<1>1. PICK key \in {Stack!NoKey, Stack!ShortKey} :
        disk = [enabled |-> Stack!Absent, key |-> key, mode |-> Stack!Absent, origin |-> Stack!Absent,
                override |-> Stack!NoOverride, json |-> Stack!Absent, development |-> Stack!Absent,
                production |-> Stack!Absent, apiEnv |-> Stack!Absent]
  BY DEF Stack!Init
<1>2. /\ docker = [volume |-> Stack!NoVolume, given |-> Stack!Given]
      /\ run = [step |-> "off", count |-> 0, answers |-> [host |-> "localhost", db |-> "internal"]]
  BY DEF Stack!Init
<1>3. key \in -1..MaxRuns /\ 0 \in 0..MaxRuns
  BY DEF Stack!NoKey, Stack!ShortKey, Stack!RunsAssumption
<1>4. Stack!Given \in Stack!Environment
  <2>1. Stack!FromEnv \in Stack!Environments
    BY <1>1, <1>3 DEF Stack!FromEnv, Stack!Environments
  <2>2. Stack!ComposeUrl \in Stack!Urls /\ Stack!OverrideUrl = Stack!ComposeUrl
    BY <1>1, <1>3 DEF Stack!ComposeUrl, Stack!OverrideUrl, Stack!Urls, Stack!NoKey
  <2>3. /\ disk.override.answers.host = Stack!Absent /\ disk.override.origins = Stack!Absent
        /\ disk.origin = Stack!Absent /\ disk.mode = Stack!Absent
    BY <1>1 DEF Stack!NoOverride, Stack!NoAnswers
  <2> QED BY <2>1, <2>2, <2>3 DEF Stack!Given, Stack!Environment
<1>5. Stack!TypeOK
  <2>1. /\ disk.override \in Stack!Overrides
        /\ run \in [step : Stack!Running \cup {"off", "done"}, answers : Stack!Answers, count : 0..MaxRuns]
    BY <1>1, <1>2, <1>3 DEF Stack!Overrides, Stack!Answers, Stack!HostsAssumption
  <2> QED BY <1>1, <1>2, <1>3, <1>4, <2>1 DEF Stack!TypeOK
<1> QED BY <1>2, <1>5 DEF StackInv, PastKey, PastOverride, PastJson, PastDevelopment, PastProduction, PastApiEnv,
                          PastUp, PastGrant

LEMMA StackIsOne == StackInv => Stack!InstalledIsOne
<1> SUFFICES ASSUME StackInv, run.step = "done"
             PROVE  /\ Stack!Usable(disk.key) /\ Stack!ContainersAgree
                    /\ disk.override.answers = run.answers
                    /\ \A file \in {"json", "development", "production"} : disk[file] = run.answers.host
                    /\ disk.apiEnv = "file"
                    /\ Stack!Bundled => docker.volume = [root |-> disk.override.secrets, granted |-> TRUE]
  BY DEF Stack!InstalledIsOne
<1>1. /\ Stack!Usable(disk.key) /\ disk.apiEnv = "file" /\ run.count > 0
      /\ disk.json = run.answers.host /\ disk.development = run.answers.host
      /\ disk.production = run.answers.host /\ disk.override = Stack!OverrideOf
      /\ docker.given = Stack!Given
      /\ Stack!Bundled => docker.volume = [root |-> disk.override.secrets, granted |-> TRUE]
  BY DEF StackInv, PastKey, PastOverride, PastJson, PastDevelopment, PastProduction, PastApiEnv, PastUp, PastGrant
<1>2. /\ disk.override.answers = run.answers /\ disk.override.secrets = run.count
      /\ disk.override.origins = Stack!PublicName
  BY <1>1 DEF Stack!OverrideOf
<1>3. disk.override # Stack!NoOverride
  BY <1>1, <1>2 DEF Stack!NoOverride, Stack!NoKey
<1>4. Stack!Reaches(Stack!OverrideUrl)
  <2>1. Stack!OverrideUrl = [db |-> run.answers.db, password |-> run.count]
    BY <1>2, <1>3 DEF Stack!OverrideUrl
  <2> QED BY <1>1, <1>2, <2>1 DEF Stack!Reaches, Stack!Bundled
<1>5. ~Stack!Reaches(Stack!ComposeUrl)
  BY <1>1, <1>2 DEF Stack!Reaches, Stack!ComposeUrl, Stack!Bundled, Stack!NoKey
<1>6. Stack!ContainersAgree
  BY <1>1, <1>2, <1>4, <1>5 DEF Stack!ContainersAgree, Stack!Given
<1> QED BY <1>1, <1>2, <1>6

LEMMA StackKeepsChoices == ASSUME StackInv, Stack!HostsAssumption, Stack!RunsAssumption, Stack!Next PROVE Stack!ChoicesKept
<1>1. CASE Stack!WriteNext
  <2>1. run.step \in DiskFields \ {"apiEnv"} /\ disk' = [disk EXCEPT ![run.step] = Stack!Content(run.step)]
    BY <1>1, StepNames DEF Stack!WriteNext, DiskFields
  <2>2. /\ run.step = "enabled" => Stack!Content(run.step) = Stack!Kept(disk.enabled, "false")
        /\ run.step = "key" => Stack!Content(run.step) = Stack!KeyFor(disk.key)
        /\ run.step = "mode" => Stack!Content(run.step) = Stack!Kept(disk.mode, "log")
    BY <2>1 DEF Stack!Content
  <2> QED BY <2>1, <2>2 DEF Stack!ChoicesKept, StackInv, Stack!TypeOK, DiskFields, Stack!Kept, Stack!KeyFor
<1>2. CASE run.step \in Stack!Running /\ disk'.key = disk.key /\ disk'.enabled = disk.enabled /\ disk'.mode = disk.mode
  BY <1>2 DEF Stack!ChoicesKept
<1>3. CASE run.step \notin Stack!Running /\ disk'.key = disk.key
  BY <1>3 DEF Stack!ChoicesKept
<1>4. Stack!Idle => run.step \notin Stack!Running
  BY StepNames DEF Stack!Idle
<1>5. ASSUME Stack!ComposeUp PROVE disk'.key = disk.key /\ disk'.enabled = disk.enabled /\ disk'.mode = disk.mode
  BY <1>5 DEF Stack!ComposeUp, StackInv, Stack!TypeOK
<1>6. ASSUME Stack!EnsureApiEnv \/ Stack!Start \/ Stack!DatabaseReady \/ Stack!Grant \/ Stack!Deploy \/ Stack!Stop
      PROVE  /\ disk'.key = disk.key /\ disk'.enabled = disk.enabled /\ disk'.mode = disk.mode
             /\ run.step \in Stack!Running
  <2>1. CASE Stack!EnsureApiEnv
    BY <2>1, StepNames DEF Stack!EnsureApiEnv, StackInv, Stack!TypeOK
  <2>2. CASE Stack!Start
    BY <2>2, <1>5, StepNames DEF Stack!Start
  <2>3. CASE Stack!DatabaseReady \/ Stack!Grant \/ Stack!Deploy
    BY <2>3, StepNames DEF Stack!DatabaseReady, Stack!Grant, Stack!Deploy
  <2>4. CASE Stack!Stop
    BY <2>4 DEF Stack!Stop, StackInv, Stack!TypeOK, Stack!InPlace
  <2> QED BY <1>6, <2>1, <2>2, <2>3, <2>4
<1>7. ASSUME (\E answers \in Stack!Answers : Stack!Begin(answers)) \/ (\E mode \in {"log", "enforce"} : Stack!SwitchOn(mode))
             \/ Stack!UpByHand \/ Stack!ClearApiEnv \/ Stack!ClearVolume
      PROVE  disk'.key = disk.key /\ Stack!Idle
  <2>1. CASE Stack!UpByHand
    BY <2>1, <1>5 DEF Stack!UpByHand
  <2>2. CASE ~Stack!UpByHand
    BY <1>7, <2>2 DEF Stack!Begin, Stack!SwitchOn, Stack!ClearApiEnv, Stack!ClearVolume, StackInv, Stack!TypeOK
  <2> QED BY <2>1, <2>2
<1> QED BY <1>1, <1>2, <1>3, <1>4, <1>6, <1>7 DEF Stack!Next

LEMMA StackStands == ASSUME StackInv, UNCHANGED installerVars PROVE StackInv'
BY DEF StackInv, installerVars, Stack!TypeOK, Stack!OverrideOf, Stack!PublicName, Stack!IsLocalhost, Stack!Given, Stack!FromEnv, Stack!OverrideUrl, Stack!ComposeUrl, Stack!Bundled

(* A run of the installer that ended well left one installation: the files   *)
(* are those of its answers, all containers have one key and switch, and the *)
(* application (not the queue and the scheduler, which keep                  *)
(* docker-compose.yml's url) reaches the database that was answered.  None   *)
(* took away the socket key or changed a setting that was chosen, whatever   *)
(* is answered, wherever it stops and however often it is run                *)
(* (docker-install.sh).                                                      *)
THEOREM InstallationsHold == Spec => InstallsHold
<1> DEFINE Inv == part = "installer" => StackInv
<1>1. Init => Inv
  BY InstallerAssumptions, StackInit DEF InstallerAssumptions, Init
<1>2. Inv /\ [Next]_vars => Inv'
  <2> SUFFICES ASSUME Inv, [Next]_vars, part' = "installer" PROVE StackInv'
    OBVIOUS
  <2>1. part = "installer" /\ (Stack!Next \/ UNCHANGED installerVars)
    BY DEF vars, Next, NextOnScreen, NextOfBuild
  <2>2. CASE Stack!Next
    BY <2>1, <2>2, InstallerAssumptions, StackStep DEF InstallerAssumptions
  <2>3. CASE UNCHANGED installerVars
    BY <2>1, <2>3, StackStands DEF installerVars
  <2> QED BY <2>1, <2>2, <2>3
<1>3. Inv /\ Inv' /\ [Next]_vars => [part = "installer" => Stack!InstalledIsOne' /\ Stack!ChoicesKept]_vars
  <2> SUFFICES ASSUME Inv, Inv', Next, part = "installer" PROVE Stack!InstalledIsOne' /\ Stack!ChoicesKept
    OBVIOUS
  <2>1. part' = "installer" /\ Stack!Next
    BY DEF Next, NextOnScreen, NextOfBuild
  <2>2. StackInv' => Stack!InstalledIsOne'
    BY StackIsOne, PTL
  <2> QED BY <2>1, <2>2, InstallerAssumptions, StackKeepsChoices DEF InstallerAssumptions
<1> QED BY <1>1, <1>2, <1>3, PTL DEF Spec, InstallsHold

-----------------------------------------------------------------------------
(* The linker: what is proved of it, and of installing what it links, in     *)
(* LinkerProofs.                                                             *)
Linking == INSTANCE LinkerProofs
Installing == INSTANCE LinkerProofs WITH MaxCommands <- 2, MaxCrashes <- 0

(* The linker proved about is the one that is checked.                       *)
LEMMA SameLinker ==
  /\ Linker!PackagesAssumption <=> Linking!PackagesAssumption
  /\ Linker!BoundsAssumption <=> Linking!BoundsAssumption
  /\ Linker!Init <=> Linking!Init
  /\ Linker!OriginalsRestored <=> Linking!OriginalsRestored
  /\ Linker!LinksResolve <=> Linking!LinksResolve
  /\ Linker!ResetUnlinks <=> Linking!ResetUnlinks
BY DEF Linker!PackagesAssumption, Linking!PackagesAssumption, Linker!BoundsAssumption, Linking!BoundsAssumption,
  Linker!Init, Linking!Init, Linker!OriginalsRestored, Linking!OriginalsRestored,
  Linker!LinksResolve, Linking!LinksResolve, Linker!ResetUnlinks, Linking!ResetUnlinks,
  Linker!IsFiniteSet, Linking!IsFiniteSet,
  Linker!Packages, Linking!Packages, Linker!SharedNpm, Linking!SharedNpm, Linker!SharedComposer, Linking!SharedComposer,
  Linker!Absent, Linking!Absent, Linker!Original, Linking!Original, Linker!Version, Linking!Version, Linker!NoEntry,
  Linking!NoEntry, Linker!Idle, Linking!Idle, Linker!Tracked, Linking!Tracked, Linker!Reversed, Linking!Reversed,
  Linker!Pin, Linking!Pin, Linker!Local, Linking!Local

LEMMA SameLinkerNext == Linker!Next <=> Linking!Next
BY DEF Linker!Next, Linking!Next, Linker!EnterEnable, Linking!EnterEnable, Linker!EnterDisable, Linking!EnterDisable,
  Linker!EnterEnableShared, Linking!EnterEnableShared, Linker!EnterDisableShared, Linking!EnterDisableShared,
  Linker!EnterReset, Linking!EnterReset, Linker!EnterUnknownShared, Linking!EnterUnknownShared, Linker!Begin, Linking!Begin,
  Linker!WriteFile, Linking!WriteFile, Linker!Crash, Linking!Crash, Linker!Enter, Linking!Enter, Linker!Idle, Linking!Idle,
  Linker!ResetScript, Linking!ResetScript, Linker!Part, Linking!Part, Linker!IsLinked, Linking!IsLinked,
  Linker!Writes, Linking!Writes, Linker!Unrecorded, Linking!Unrecorded, Linker!Last, Linking!Last,
  Linker!SetToSeq, Linking!SetToSeq, Linker!IsInjective, Linking!IsInjective, Linker!Cardinality, Linking!Cardinality,
  Linker!EnableModule, Linking!EnableModule, Linker!EnableShared, Linking!EnableShared, Linker!Disable, Linking!Disable,
  Linker!Write, Linking!Write, Linker!WriteIf, Linking!WriteIf, Linker!LinkedPackage, Linking!LinkedPackage,
  Linker!LinkedComposer, Linking!LinkedComposer, Linker!LinkedWorkspace, Linking!LinkedWorkspace,
  Linker!Recorded, Linking!Recorded, Linker!UnlinkedPackage, Linking!UnlinkedPackage, Linker!UnlinkedComposer, Linking!UnlinkedComposer,
  Linker!UnlinkedWorkspace, Linking!UnlinkedWorkspace, Linker!Forgotten, Linking!Forgotten, Linker!Back, Linking!Back,
  Linker!Over, Linking!Over, Linker!Entry, Linking!Entry, Linker!Found, Linking!Found, Linker!NpmRange, Linking!NpmRange,
  Linker!ComposerRange, Linking!ComposerRange, Linker!Migrated, Linking!Migrated,
  Linker!Packages, Linking!Packages, Linker!SharedNpm, Linking!SharedNpm, Linker!SharedComposer, Linking!SharedComposer,
  Linker!Absent, Linking!Absent, Linker!Original, Linking!Original, Linker!Version, Linking!Version, Linker!Local, Linking!Local, Linker!NoEntry,
  Linking!NoEntry, Linker!Tracked, Linking!Tracked, Linker!Pin, Linking!Pin

LEMMA SameInstall ==
  /\ Install!InstallInit <=> Installing!InstallInit
  /\ Install!InstalledAsLinked <=> Installing!InstalledAsLinked
  /\ Linker!PackagesAssumption <=> Installing!PackagesAssumption
  /\ Linker!BoundsAssumption => Installing!BoundsAssumption
BY DEF Install!InstallInit, Installing!InstallInit, Install!InstalledAsLinked, Installing!InstalledAsLinked,
  Linker!PackagesAssumption, Installing!PackagesAssumption, Linker!BoundsAssumption, Installing!BoundsAssumption,
  Install!Init, Installing!Init, Install!NoInstall, Installing!NoInstall, Install!Free, Installing!Free,
  Install!Warnings, Installing!Warnings, Install!IsLinked, Installing!IsLinked, Linker!IsFiniteSet, Installing!IsFiniteSet,
  Install!Packages, Installing!Packages, Install!SharedNpm, Installing!SharedNpm, Install!SharedComposer,
  Installing!SharedComposer, Linker!Packages, Linker!SharedNpm, Linker!SharedComposer,
  Install!Absent, Installing!Absent, Install!Original, Installing!Original, Install!Local, Installing!Local,
  Install!NoEntry, Installing!NoEntry, Install!Idle, Installing!Idle, Install!Tracked, Installing!Tracked,
  Install!Pin, Installing!Pin

LEMMA SameInstallNext == Install!InstallNext <=> Installing!InstallNext
BY DEF Install!InstallNext, Installing!InstallNext, Install!LinkEnable, Installing!LinkEnable, Install!Unlink,
  Installing!Unlink, Install!LinkEnableShared, Installing!LinkEnableShared, Install!LinkReset, Installing!LinkReset,
  Install!LinkStep, Installing!LinkStep, Install!With, Installing!With, Install!EnterInstall, Installing!EnterInstall,
  Install!StartPnpm, Installing!StartPnpm, Install!PnpmSucceeds, Installing!PnpmSucceeds, Install!ComposerSucceeds,
  Installing!ComposerSucceeds, Install!Fails, Installing!Fails, Install!Doctor, Installing!Doctor,
  Install!InstallModules, Installing!InstallModules, Install!Backends, Installing!Backends, Install!LocalIf,
  Installing!LocalIf, Install!WithDependencies, Installing!WithDependencies, Install!Warnings, Installing!Warnings,
  Install!Free, Installing!Free, Install!NoInstall, Installing!NoInstall, Install!vars, Installing!vars,
  Install!installVars, Installing!installVars,
  Install!EnterEnable, Installing!EnterEnable, Install!EnterDisable, Installing!EnterDisable,
  Install!EnterEnableShared, Installing!EnterEnableShared, Install!EnterDisableShared, Installing!EnterDisableShared,
  Install!EnterReset, Installing!EnterReset, Install!EnterUnknownShared, Installing!EnterUnknownShared, Install!Begin, Installing!Begin,
  Install!WriteFile, Installing!WriteFile, Install!Crash, Installing!Crash, Install!Enter, Installing!Enter, Install!Idle, Installing!Idle,
  Install!ResetScript, Installing!ResetScript, Install!Part, Installing!Part, Install!IsLinked, Installing!IsLinked,
  Install!Writes, Installing!Writes, Install!Unrecorded, Installing!Unrecorded, Install!Last, Installing!Last,
  Install!SetToSeq, Installing!SetToSeq, Install!IsInjective, Installing!IsInjective, Install!Cardinality, Installing!Cardinality,
  Install!EnableModule, Installing!EnableModule, Install!EnableShared, Installing!EnableShared, Install!Disable, Installing!Disable,
  Install!Write, Installing!Write, Install!WriteIf, Installing!WriteIf, Install!LinkedPackage, Installing!LinkedPackage,
  Install!LinkedComposer, Installing!LinkedComposer, Install!LinkedWorkspace, Installing!LinkedWorkspace,
  Install!Recorded, Installing!Recorded, Install!UnlinkedPackage, Installing!UnlinkedPackage, Install!UnlinkedComposer, Installing!UnlinkedComposer,
  Install!UnlinkedWorkspace, Installing!UnlinkedWorkspace, Install!Forgotten, Installing!Forgotten, Install!Back, Installing!Back,
  Install!Over, Installing!Over, Install!Entry, Installing!Entry, Install!Found, Installing!Found, Install!NpmRange, Installing!NpmRange,
  Install!ComposerRange, Installing!ComposerRange, Install!Migrated, Installing!Migrated,
  Install!Packages, Installing!Packages, Install!SharedNpm, Installing!SharedNpm, Install!SharedComposer, Installing!SharedComposer,
  Install!Absent, Installing!Absent, Install!Original, Installing!Original, Install!Version, Installing!Version, Install!Local, Installing!Local, Install!NoEntry,
  Installing!NoEntry, Install!Tracked, Installing!Tracked, Install!Pin, Installing!Pin

LEMMA LinkerKept ==
  ASSUME Linking!LinkerInv, Linking!ResolveInv, Linker!Next \/ UNCHANGED linkerVars
  PROVE  Linking!LinkerInv' /\ Linking!ResolveInv'
<1>1. Linking!PackagesAssumption
  BY SameLinker, LinkerAssumptions DEF LinkerAssumptions
<1>2. [Linking!Next]_(Linking!vars)
  BY SameLinkerNext DEF linkerVars, Linking!vars
<1> QED BY <1>1, <1>2, Linking!StepHolds, Linking!ResolveStep

InstallIInv == Installing!LinkerInv /\ Installing!ResolveInv /\ Installing!InstallInv

LEMMA InstallKept ==
  ASSUME InstallIInv, Install!InstallNext \/ UNCHANGED <<linkerVars, installVars>>
  PROVE  InstallIInv'
<1>1. Installing!PackagesAssumption
  BY SameInstall, LinkerAssumptions DEF LinkerAssumptions
<1>2. [Installing!InstallNext]_<<Installing!vars, Installing!installVars>>
  BY SameInstallNext DEF linkerVars, installVars, Installing!vars, Installing!installVars
<1> QED BY <1>1, <1>2, Installing!InstallInvStep DEF InstallIInv

LinkerIInv ==
  /\ part = "linker" => Linking!LinkerInv /\ Linking!ResolveInv
  /\ part = "install" => InstallIInv

LEMMA LinkerInvInit == Init => LinkerIInv
<1> SUFFICES ASSUME Init PROVE LinkerIInv
  OBVIOUS
<1>1. ASSUME part = "linker" PROVE Linking!LinkerInv /\ Linking!ResolveInv
  <2>1. Linker!Init
    BY <1>1 DEF Init
  <2> QED BY <2>1, SameLinker, LinkerAssumptions, Linking!InitHolds, Linking!ResolveInit DEF LinkerAssumptions
<1>2. ASSUME part = "install" PROVE InstallIInv
  <2>1. Install!InstallInit
    BY <1>2 DEF Init
  <2> QED BY <2>1, SameInstall, LinkerAssumptions, Installing!InstallInvInit DEF LinkerAssumptions, InstallIInv
<1> QED BY <1>1, <1>2 DEF LinkerIInv

LEMMA LinkerInvStep == LinkerIInv /\ [Next]_vars => LinkerIInv'
<1> SUFFICES ASSUME LinkerIInv, [Next]_vars PROVE LinkerIInv'
  OBVIOUS
<1>1. /\ part' = part
      /\ part = "linker" => Linker!Next \/ UNCHANGED linkerVars
      /\ part = "install" => Install!InstallNext \/ UNCHANGED <<linkerVars, installVars>>
  BY DEF vars, Next, NextOnScreen, NextOfBuild, linkerVars, installVars
<1>2. part = "linker" => Linking!LinkerInv' /\ Linking!ResolveInv'
  BY <1>1, LinkerKept DEF LinkerIInv
<1>3. part = "install" => InstallIInv'
  BY <1>1, InstallKept DEF LinkerIInv
<1> QED BY <1>1, <1>2, <1>3 DEF LinkerIInv

(* A package that is linked no more has its ranges, its pin and its          *)
(* repository back, whatever packages there are and wherever the commands    *)
(* are killed (package-linker.mjs).                                          *)
THEOREM OriginalsAlwaysRestored == Spec => []OriginalsRestored
<1>1. LinkerIInv => OriginalsRestored
  BY SameLinker, Linking!InvRestores DEF LinkerIInv, OriginalsRestored
<1> QED
  BY <1>1, LinkerInvInit, LinkerInvStep, PTL DEF Spec

(* What the console takes from packages/ is in the workspace and recorded, a *)
(* reset leaves no link behind and an install that succeeded installed what  *)
(* is linked, whatever packages there are (package-linker.mjs).              *)
THEOREM LinksAlwaysResolve == Spec => []LinksResolve
<1>1. LinkerIInv => LinksResolve
  BY SameLinker, SameInstall, Linking!InvResolves, Installing!InstallsAsLinked DEF LinkerIInv, InstallIInv, LinksResolve
<1> QED
  BY <1>1, LinkerInvInit, LinkerInvStep, PTL DEF Spec
=============================================================================
