---------------------------- MODULE Notifications ----------------------------
(***************************************************************************)
(* The page of a person's notifications (controllers/console/               *)
(* notifications.js): they are picked, deleted and read, several at once,   *)
(* and the page is refreshed by every answer and by every notification that *)
(* is received.  What was deleted and read is announced to the console,     *)
(* whose tray follows.  The selection may change while a request is under   *)
(* way: read keeps what it sent, delete reads the selection again.          *)
(***************************************************************************)
EXTENDS Naturals, FiniteSets

CONSTANTS
    Ids,            \* all the notifications there will be
    Received,       \* those there are when the page opens
    MaxOps          \* how many requests are sent

VARIABLES
    ui,     \* the list, the selection, what the records say, what was announced
    calls,  \* requests and refreshes under way
    db      \* what the API has, and has ever sent

vars == <<ui, calls, db>>

Call(op, ids) == [op |-> op, ids |-> ids, handled |-> FALSE, ok |-> FALSE, exist |-> {}, unread |-> {}]

Init ==
    /\ \E unread \in SUBSET Received : db = [exist |-> Received, unread |-> unread, sent |-> Received]
    /\ ui = [list |-> Received, unread |-> db.unread, selected |-> {}, meanwhile |-> {},
             deleted |-> {}, read |-> {}, ops |-> 0]
    /\ calls = {}

(* router.refresh: a transition that is under way is given up. *)
Refresh(others) == {c \in others : c.op # "refresh"} \cup {Call("refresh", {})}

-----------------------------------------------------------------------------
Deleting == \E c \in calls : c.op = "delete"

SelectNotification(n) ==
    /\ n \in ui.list
    /\ ui' = [ui EXCEPT !.selected = IF n \in @ THEN @ \ {n} ELSE @ \cup {n},
                        !.meanwhile = IF Deleting THEN @ \cup {n} ELSE @]
    /\ UNCHANGED <<calls, db>>

(* Only the numbers of both are compared. *)
SelectAll ==
    LET all == Cardinality(ui.selected) = Cardinality(ui.list) IN
    /\ ui' = [ui EXCEPT !.selected = IF all THEN {} ELSE ui.list,
                        !.meanwhile = IF Deleting /\ ~all THEN @ \cup ui.list ELSE @]
    /\ UNCHANGED <<calls, db>>

Send(op, ids) ==
    /\ ui.ops < MaxOps
    /\ calls' = calls \cup {Call(op, ids)}
    /\ ui' = [ui EXCEPT !.ops = @ + 1]
    /\ UNCHANGED db

Delete == Send("delete", ui.selected)

Read == Send("read", ui.selected \cap ui.unread)

MarkNotificationAsRead(n) == n \in ui.list /\ Send("mark", {n})

(* The socket announces a notification, and the page is refreshed. *)
Receive(n) ==
    /\ n \notin db.sent
    /\ db' = [exist |-> db.exist \cup {n}, unread |-> db.unread \cup {n}, sent |-> db.sent \cup {n}]
    /\ calls' = Refresh(calls)
    /\ UNCHANGED ui

(* The API. *)
Handle(c) ==
    /\ ~c.handled
    /\ \E done, ok \in BOOLEAN :
           /\ ok => done
           /\ db' = CASE done /\ c.op = "delete" -> [db EXCEPT !.exist = @ \ c.ids, !.unread = @ \ c.ids]
                      [] done /\ c.op \in {"read", "mark"} -> [db EXCEPT !.unread = @ \ c.ids]
                      [] OTHER -> db
           /\ calls' = (calls \ {c}) \cup
                  {[c EXCEPT !.handled = TRUE, !.ok = ok,
                             !.exist = IF c.op = "refresh" THEN db'.exist ELSE {},
                             !.unread = IF c.op = "refresh" THEN db'.unread ELSE {}]}
    /\ UNCHANGED ui

(* Mutant: the selection is read again, as a deletion's is. *)
AnnouncedAsRead_Selected(c) == IF c.op = "read" THEN ui.selected \cap ui.unread ELSE c.ids

AnnouncedAsRead(c) == c.ids

(* Mutant: a deletion that failed is announced too. *)
Announces_Always(c) == TRUE

(* serverError only announces the failure. *)
Announces(c) == c.ok

Arrive(c) ==
    /\ c.handled
    /\ UNCHANGED db
    /\ \/ /\ ~Announces(c)
          /\ calls' = calls \ {c}
          /\ UNCHANGED ui
       \/ /\ Announces(c) /\ c.op = "refresh"
          /\ calls' = calls \ {c}
          /\ ui' = [ui EXCEPT !.list = c.exist, !.unread = c.unread]
       \/ /\ Announces(c) /\ c.op = "delete"
          /\ calls' = Refresh(calls \ {c})
          /\ ui' = [ui EXCEPT !.deleted = @ \cup ui.selected, !.selected = {}]
       \/ /\ Announces(c) /\ c.op = "read"
          /\ calls' = Refresh(calls \ {c})
          /\ ui' = [ui EXCEPT !.read = @ \cup AnnouncedAsRead(c), !.selected = {}]
       \/ /\ Announces(c) /\ c.op = "mark"
          /\ calls' = calls \ {c}
          /\ ui' = [ui EXCEPT !.read = @ \cup c.ids, !.unread = @ \ c.ids]

Next ==
    \/ \E n \in Ids : SelectNotification(n) \/ MarkNotificationAsRead(n) \/ Receive(n)
    \/ SelectAll \/ Delete \/ Read
    \/ \E c \in calls : Handle(c) \/ Arrive(c)

-----------------------------------------------------------------------------
TypeOK ==
    /\ db.exist \subseteq Ids /\ db.unread \subseteq db.exist
    /\ ui.list \cup ui.selected \cup ui.unread \subseteq Ids
    /\ \A c \in calls : c.op \in {"delete", "read", "mark", "refresh"}

(* The notifications that were announced as read are read, and those         *)
(* announced as deleted are gone, save for those that were picked while a    *)
(* deletion was under way, whatever the order of the answers and whichever   *)
(* of them were lost.                                                        *)
AnnouncedIsSo ==
    /\ ui.read \cap db.unread = {}
    /\ ui.deleted \cap db.exist \subseteq ui.meanwhile
=============================================================================
