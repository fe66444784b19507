---------------------------- MODULE EntryProofs ----------------------------
(***************************************************************************)
(* What TLAPS proves of MCEntry, the ways into the console.  Each way has   *)
(* an inductive invariant; that of the whole is the one of its way.         *)
(***************************************************************************)
EXTENDS MCEntry, SequenceTheorems, TLAPS

-----------------------------------------------------------------------------
(* The installation: one loop, or one retry, or neither.                    *)
InstallUi ==
  [route : Installing!Routes, status : {"unknown", "configured", "not-configured"},
   shouldOnboard : BOOLEAN, channel : BOOLEAN, retry : Timers \cup {NoTimer},
   loops : {0, 1}, due : SUBSET Timers, started : Nat,
   library : BOOLEAN, subscribed : BOOLEAN]

(* A loop has its channel and a retry its timer, and the page shows them.   *)
OneListener(s) ==
  /\ s \in InstallUi
  /\ s.loops <= s.started /\ s.started <= MaxListens
  /\ s.loops = 1 => s.channel
  /\ s.due \subseteq {s.retry}
  /\ s.route # "install" => s.loops = 0 /\ s.due = {}

InstallInv ==
  /\ OneListener(ui)
  /\ calls \subseteq {"check", "redirect"}
  /\ db \in [configured : BOOLEAN, onboard : BOOLEAN]

(* Listening begins where nothing listens yet.                              *)
LEMMA ListeningOnce ==
  ASSUME NEW s, OneListener(s), s.route = "install", Installing!ListenForInstallComplete(s)
  PROVE  OneListener(ui')
<1>0. NoTimer \notin Timers /\ MaxListens \in Nat
  BY OtherAssumptions DEF Installing!TimersAssumption
<1>1. CASE Installing!Pending(s) \/ s.started = MaxListens
  BY <1>1 DEF Installing!ListenForInstallComplete
<1>2. CASE ~(Installing!Pending(s) \/ s.started = MaxListens)
  <2>1. s.due = {} /\ s.loops = 0
    BY <1>0, <1>2 DEF Installing!Pending, OneListener, InstallUi
  <2>2. CASE ~s.library
    <3>1. PICK t \in Timers \ s.due : ui' = [s EXCEPT !.retry = t, !.due = @ \cup {t}]
      BY <1>2, <2>2 DEF Installing!ListenForInstallComplete, Installing!ScheduleListenRetry
    <3> QED BY <2>1, <3>1 DEF OneListener, InstallUi
  <2>3. CASE s.library
    <3>1. ui' = [s EXCEPT !.channel = TRUE, !.loops = @ + 1, !.started = @ + 1]
      BY <1>2, <2>3 DEF Installing!ListenForInstallComplete
    <3>2. s.started \in Nat /\ s.started + 1 <= MaxListens
      BY <1>0, <1>2 DEF OneListener, InstallUi
    <3>3. s \in InstallUi
      BY DEF OneListener
    <3>4. PICK n \in Nat : n = s.started + 1 /\ n <= MaxListens
      BY <3>2
    <3>5. ui' = [s EXCEPT !.channel = TRUE, !.loops = 1, !.started = n]
      <4>1. s.loops + 1 = 1
        BY <2>1
      <4> QED BY <3>1, <3>4, <4>1
    <3>6. /\ ui' \in InstallUi /\ ui'.route = s.route /\ ui'.channel /\ ui'.due = s.due
          /\ ui'.loops = 1 /\ ui'.started = n
      BY <3>3, <3>5 DEF InstallUi
    <3> QED BY <2>1, <3>2, <3>4, <3>6 DEF OneListener
  <2> QED BY <2>2, <2>3
<1> QED BY <1>1, <1>2

(* The bound, as a fact.                                                    *)
LEMMA MaxListensIsNat == MaxListens \in Nat /\ NoTimer \notin Timers
BY OtherAssumptions DEF Installing!TimersAssumption

(* Leaving the page ends what listens.                                      *)
LEMMA LeavingEnds ==
  ASSUME OneListener(ui), NEW s, OneListener(s),
         s.route = ui.route, s.channel = ui.channel, s.retry = ui.retry, s.due = ui.due,
         NEW route \in Installing!Routes \ {"install"}
  PROVE  OneListener(Installing!Leave(s, route))
<1>1. CASE ui.route = "install"
  <2>1. Installing!Cancelled(s.due) = {}
    BY DEF Installing!Cancelled, OneListener
  <2>2. (IF ui.channel /\ s.loops > 0 THEN s.loops - 1 ELSE s.loops) = 0
    BY DEF OneListener, InstallUi
  <2>3. Installing!Leave(s, route) =
          [s EXCEPT !.due = {}, !.retry = NoTimer, !.channel = FALSE, !.loops = 0,
                    !.subscribed = FALSE, !.route = route]
    BY <1>1, <2>1, <2>2 DEF Installing!Leave, Installing!StopListening, Installing!Routes
  <2> DEFINE t == [s EXCEPT !.due = {}, !.retry = NoTimer, !.channel = FALSE, !.loops = 0,
                            !.subscribed = FALSE, !.route = route]
  <2>4. /\ t \in InstallUi /\ t.due = {} /\ t.loops = 0 /\ t.started = s.started
    <3>1. s \in InstallUi
      BY DEF OneListener
    <3> QED BY <3>1, MaxListensIsNat DEF InstallUi
  <2> QED
    <3> HIDE DEF t
    <3>1. OneListener(t)
      BY <2>4 DEF OneListener, InstallUi
    <3> QED BY <2>3, <3>1 DEF t
<1>2. CASE ui.route # "install"
  <2>1. Installing!Leave(s, route) = [s EXCEPT !.route = route]
    BY <1>2 DEF Installing!Leave
  <2> QED BY <1>2, <2>1 DEF OneListener, InstallUi
<1> QED BY <1>1, <1>2

(* What the API says changes the service's fields and nothing that listens. *)
LEMMA FieldsOnly ==
  ASSUME InstallInv, NEW status \in {"configured", "not-configured"}, NEW should \in BOOLEAN,
         NEW s, s = [ui EXCEPT !.status = status, !.shouldOnboard = should]
  PROVE  /\ OneListener(s)
         /\ s.route = ui.route /\ s.channel = ui.channel /\ s.retry = ui.retry /\ s.due = ui.due
<1>1. ui \in InstallUi
  BY DEF InstallInv, OneListener
<1>2. /\ s \in InstallUi /\ s.route = ui.route /\ s.channel = ui.channel
      /\ s.retry = ui.retry /\ s.due = ui.due /\ s.loops = ui.loops /\ s.started = ui.started
  BY <1>1 DEF InstallUi
<1> QED
  BY <1>2 DEF InstallInv, OneListener

(* What the API says.                                                       *)
LEMMA SaidByTheApi ==
  ASSUME InstallInv, NEW route \in {"login", "onboard"}
  PROVE  /\ OneListener(Installing!NotConfigured)
         /\ OneListener(Installing!Leave(Installing!Configured, route))
         /\ OneListener(Installing!Leave(ui, "failed"))
<1>1. db.onboard \in BOOLEAN
  BY DEF InstallInv
<1>2. OneListener(Installing!NotConfigured)
  BY FieldsOnly DEF Installing!NotConfigured
<1>3. /\ OneListener(Installing!Configured)
      /\ Installing!Configured.route = ui.route /\ Installing!Configured.channel = ui.channel
      /\ Installing!Configured.retry = ui.retry /\ Installing!Configured.due = ui.due
  BY <1>1, FieldsOnly DEF Installing!Configured
<1>4. OneListener(ui)
  BY DEF InstallInv
<1>5. {route, "failed"} \subseteq Installing!Routes \ {"install"}
  BY DEF Installing!Routes
<1> QED
  BY <1>2, <1>3, <1>4, <1>5, LeavingEnds

(* The start.                                                               *)
LEMMA InstallInvInit == Installing!Init => InstallInv
BY OtherAssumptions
   DEF Installing!Init, InstallInv, OneListener, InstallUi, Installing!Routes, Installing!TimersAssumption

(* And every step.                                                          *)
LEMMA InstallInvStep ==
  ASSUME InstallInv, Installing!Next
  PROVE  InstallInv'
<1>0. ui \in InstallUi /\ ui.started \in Nat /\ ui.loops <= ui.started /\ ui.started <= MaxListens /\ ui.due \subseteq {ui.retry}
      /\ (ui.loops = 1 => ui.channel) /\ (ui.route # "install" => ui.loops = 0 /\ ui.due = {})
  BY MaxListensIsNat DEF InstallInv, OneListener, InstallUi
<1>1. CASE Installing!RetryFires
  <2>1. PICK t \in ui.due :
          /\ Installing!ListenForInstallComplete([ui EXCEPT !.due = @ \ {t}, !.retry = NoTimer])
          /\ UNCHANGED <<calls, db>>
    BY <1>1 DEF Installing!RetryFires
  <2> DEFINE s == [ui EXCEPT !.due = @ \ {t}, !.retry = NoTimer]
  <2>2. /\ s \in InstallUi /\ s.due = {} /\ s.route = ui.route /\ s.loops = ui.loops
        /\ s.channel = ui.channel /\ s.started = ui.started
    BY <1>0 DEF InstallUi
  <2> HIDE DEF s
  <2>3. OneListener(s) /\ s.route = "install"
    BY <1>0, <2>2 DEF OneListener
  <2>4. OneListener(ui')
    BY <2>1, <2>3, ListeningOnce DEF s
  <2> QED BY <2>1, <2>4 DEF InstallInv
<1>2. CASE Installing!SubscriptionSettles
  <2>1. ui.loops = 1 /\ UNCHANGED <<calls, db>>
    BY <1>0, <1>2 DEF Installing!SubscriptionSettles, InstallUi
  <2>2. CASE ui' = [ui EXCEPT !.subscribed = TRUE]
    <3>1. /\ ui' \in InstallUi /\ ui'.due = ui.due /\ ui'.retry = ui.retry /\ ui'.route = ui.route
          /\ ui'.loops = ui.loops /\ ui'.channel = ui.channel /\ ui'.started = ui.started
      BY <1>0, <2>2 DEF InstallUi
    <3> QED BY <1>0, <2>1, <3>1 DEF InstallInv, OneListener
  <2>3. CASE ui' = [ui EXCEPT !.loops = @ - 1, !.channel = TRUE]
    <3>1. ui.loops - 1 = 0
      BY <2>1
    <3>2. ui' = [ui EXCEPT !.loops = 0, !.channel = TRUE]
      BY <2>3, <3>1
    <3>3. /\ ui' \in InstallUi /\ ui'.due = ui.due /\ ui'.retry = ui.retry /\ ui'.route = ui.route
          /\ ui'.loops = 0 /\ ui'.started = ui.started
      BY <1>0, <3>2 DEF InstallUi
    <3> QED BY <1>0, <2>1, <3>3 DEF InstallInv, OneListener
  <2> QED BY <1>2, <2>2, <2>3 DEF Installing!SubscriptionSettles
<1>3. CASE Installing!LibraryLoads
  <2>1. ui' = [ui EXCEPT !.library = TRUE] /\ UNCHANGED <<calls, db>>
    BY <1>3 DEF Installing!LibraryLoads
  <2>2. /\ ui' \in InstallUi /\ ui'.due = ui.due /\ ui'.retry = ui.retry /\ ui'.route = ui.route
        /\ ui'.loops = ui.loops /\ ui'.channel = ui.channel /\ ui'.started = ui.started
    BY <1>0, <2>1 DEF InstallUi
  <2> QED BY <1>0, <2>1, <2>2 DEF InstallInv, OneListener
<1>4. CASE Installing!InstallCompleted
  <2>1. /\ ui' = [ui EXCEPT !.status = "unknown", !.shouldOnboard = FALSE, !.channel = FALSE,
                            !.retry = NoTimer, !.loops = 0, !.due = {}, !.subscribed = FALSE]
        /\ calls' = {"redirect"} /\ UNCHANGED db
    BY <1>4 DEF Installing!InstallCompleted
  <2>2. ui' \in InstallUi /\ ui'.due = {} /\ ui'.loops = 0 /\ ui'.started = ui.started
    BY <1>0, <2>1 DEF InstallUi
  <2> QED BY <1>0, <2>1, <2>2 DEF InstallInv, OneListener
<1>5. CASE Installing!Checked
  BY <1>5, SaidByTheApi DEF Installing!Checked, InstallInv, Installing!TransitionToInstall
<1>6. CASE Installing!Redirected
  <2>1. CASE ui' = Installing!Leave(Installing!Configured, IF db.onboard THEN "onboard" ELSE "login")
             /\ calls' \in {{}, {"check"}} /\ db' = db
    BY <2>1, SaidByTheApi DEF InstallInv
  <2>2. CASE ui' = Installing!Leave(ui, "failed") /\ calls' = calls \ {"redirect"} /\ db' = db
    BY <2>2, SaidByTheApi DEF InstallInv
  <2>3. CASE /\ Installing!ListenForInstallComplete([Installing!NotConfigured EXCEPT !.route = "install"])
             /\ calls' = calls \ {"redirect"} /\ db' = db
    <3> DEFINE s == [Installing!NotConfigured EXCEPT !.route = "install"]
    <3>1. OneListener(Installing!NotConfigured) /\ Installing!NotConfigured \in InstallUi
      BY SaidByTheApi DEF OneListener
    <3> DEFINE u == Installing!NotConfigured
    <3> HIDE DEF u
    <3>2. /\ s \in InstallUi /\ s.route = "install" /\ s.loops = u.loops /\ s.channel = u.channel
          /\ s.due = u.due /\ s.retry = u.retry /\ s.started = u.started
      BY <3>1 DEF u, InstallUi, Installing!Routes
    <3> HIDE DEF s
    <3>3. OneListener(s)
      BY <3>1, <3>2 DEF OneListener, u
    <3>4. OneListener(ui')
      BY <2>3, <3>2, <3>3, ListeningOnce DEF s
    <3> QED BY <2>3, <3>4 DEF InstallInv
  <2> QED BY <1>6, <2>1, <2>2, <2>3 DEF Installing!Redirected
<1>7. CASE Installing!Visit
  BY <1>7 DEF Installing!Visit, InstallInv, OneListener
<1>8. CASE Installing!Installed \/ Installing!AdministratorCreated
  BY <1>8 DEF Installing!Installed, Installing!AdministratorCreated, InstallInv, OneListener
<1> QED
  BY <1>1, <1>2, <1>3, <1>4, <1>5, <1>6, <1>7, <1>8 DEF Installing!Next

(* One loop listens, and the state has its type.                            *)
LEMMA InstallKept == InstallInv => Installing!ListensOnce /\ Installing!TypeOK
BY OtherAssumptions
   DEF InstallInv, OneListener, InstallUi, Installing!ListensOnce, Installing!TypeOK,
       Installing!TimersAssumption
-----------------------------------------------------------------------------
(* The onboarding: no step is in the history twice, and the storage keeps it. *)
FlowUi ==
  [current : Steps \cup {NoStep}, history : Seq(Steps), started : BOOLEAN,
   unsaved : BOOLEAN, reloads : Nat, account : BOOLEAN]
FlowDb == [history : Seq(Steps), step : Steps \cup {NoStep}]

HistoryInOrder ==
  /\ ui \in FlowUi /\ db \in FlowDb
  /\ Flow!IsInjective(ui.history) /\ Flow!IsInjective(db.history)
  /\ ui.started /\ ~ui.unsaved => db.history \in {ui.history, <<>>}

(* A call that enters or leaves a step has one.                             *)
AboutAStep == {"will-change", "before-enter", "after-leave"}
Ats == AboutAStep \cup
  {"done", "flow-will-start", "did-change", "did-start", "will-end", "did-end"}
Ops == {"none", "start", "next", "back", "url"}
CallsInOrder ==
  /\ calls \in [Runs -> [op : Ops, at : Ats, step : Steps \cup {NoStep}]]
  /\ \A i \in Runs : calls[i].at \in AboutAStep => calls[i].step \in Steps

FlowInv == HistoryInOrder /\ CallsInOrder

(* A call that goes on,                                                     *)
LEMMA CallGoesOn ==
  ASSUME CallsInOrder, NEW i \in Runs, NEW at \in Ats, NEW step \in Steps \cup {NoStep},
         at \in AboutAStep => step \in Steps, Flow!At(i, at, step)
  PROVE  CallsInOrder'
<1>1. /\ calls' \in [Runs -> [op : Ops, at : Ats, step : Steps \cup {NoStep}]]
      /\ calls'[i].at = at /\ calls'[i].step = step
      /\ \A j \in Runs \ {i} : calls'[j] = calls[j]
  BY DEF CallsInOrder, Flow!At
<1> QED BY <1>1 DEF CallsInOrder

(* and one that begins.                                                     *)
LEMMA CallBegins ==
  ASSUME CallsInOrder, NEW i \in Runs, NEW op \in Ops, NEW at \in Ats,
         NEW step \in Steps \cup {NoStep}, at \in AboutAStep => step \in Steps,
         calls' = [calls EXCEPT ![i] = Flow!Run(op, at, step)]
  PROVE  CallsInOrder'
<1>1. /\ calls' \in [Runs -> [op : Ops, at : Ats, step : Steps \cup {NoStep}]]
      /\ calls'[i].at = at /\ calls'[i].step = step
      /\ \A j \in Runs \ {i} : calls'[j] = calls[j]
  BY DEF CallsInOrder, Flow!Run
<1> QED BY <1>1 DEF CallsInOrder

(* On to the step that is next, or to the end.                              *)
LEMMA GoesToNext ==
  ASSUME CallsInOrder, NEW i \in Runs, calls[i].at \in AboutAStep,
         Flow!GotoOrComplete(i, NextOf[calls[i].step], calls[i].step)
  PROVE  CallsInOrder'
<1>1. calls[i].step \in Steps
  BY DEF CallsInOrder
<1>2. NextOf[calls[i].step] \in Steps \cup {NoStep} /\ NoStep \notin Steps
  BY <1>1, OtherAssumptions DEF Flow!StepsAssumption
<1>3. CASE NextOf[calls[i].step] = NoStep
  <2>1. "will-end" \in Ats \ AboutAStep
    BY DEF AboutAStep, Ats
  <2> QED BY <1>1, <1>3, <2>1, CallGoesOn DEF Flow!GotoOrComplete
<1>4. CASE NextOf[calls[i].step] # NoStep
  <2>1. "will-change" \in Ats
    BY DEF AboutAStep, Ats
  <2> QED BY <1>2, <1>4, <2>1, CallGoesOn DEF Flow!GotoOrComplete
<1> QED BY <1>3, <1>4

(* A step that is recorded is in the history once.                          *)
LEMMA RecordedOnce ==
  ASSUME NEW h \in Seq(Steps), Flow!IsInjective(h), NEW step \in Steps
  PROVE  Flow!Recorded(h, step) \in Seq(Steps) /\ Flow!IsInjective(Flow!Recorded(h, step))
<1>1. CASE Flow!Contains(h, step)
  BY <1>1 DEF Flow!Recorded
<1>2. CASE ~Flow!Contains(h, step)
  BY <1>2 DEF Flow!Recorded, Flow!Contains, Flow!IsInjective
<1> QED BY <1>1, <1>2

(* Going back takes the last step from it.                                  *)
LEMMA BackOnce ==
  ASSUME NEW h \in Seq(Steps), Flow!IsInjective(h), h # <<>>
  PROVE  /\ Flow!Front(h) \in Seq(Steps) /\ Flow!IsInjective(Flow!Front(h))
         /\ Flow!Last(h) \in Steps
BY DEF Flow!Front, Flow!Last, Flow!IsInjective

(* What is written to the storage is the history.                           *)
LEMMA PersistKeeps ==
  ASSUME HistoryInOrder, NEW h \in Seq(Steps), Flow!IsInjective(h), Flow!Persist(h)
  PROVE  HistoryInOrder'
<1>1. CASE ui' = [ui EXCEPT !.history = h, !.unsaved = FALSE] /\ db' = Flow!Persisted(h)
  <2>1. ui' \in FlowUi /\ ui'.history = h
    BY <1>1 DEF HistoryInOrder, FlowUi
  <2>2. db' \in FlowDb /\ db'.history = h
    BY <1>1 DEF HistoryInOrder, FlowDb, Flow!Persisted
  <2> QED BY <2>1, <2>2 DEF HistoryInOrder
<1>2. CASE ui' = [ui EXCEPT !.history = h, !.unsaved = TRUE] /\ UNCHANGED db
  <2>1. ui' \in FlowUi /\ ui'.history = h /\ ui'.unsaved
    BY <1>2 DEF HistoryInOrder, FlowUi
  <2> QED BY <1>2, <2>1 DEF HistoryInOrder
<1> QED BY <1>1, <1>2 DEF Flow!Persist

(* The start.                                                               *)
LEMMA FlowInvInit == Flow!Init => FlowInv
<1> SUFFICES ASSUME Flow!Init PROVE FlowInv
  OBVIOUS
<1>1. HistoryInOrder
  BY DEF Flow!Init, HistoryInOrder, FlowUi, FlowDb, Flow!IsInjective
<1>2. CallsInOrder
  BY DEF Flow!Init, Flow!Idle, CallsInOrder, AboutAStep, Ats, Ops
<1> QED BY <1>1, <1>2 DEF FlowInv

(* The steps of a call under way.                                           *)
LEMMA ContinueKeeps ==
  ASSUME FlowInv, NEW i \in Runs, Flow!Continue(i)
  PROVE  FlowInv'
<1>0. HistoryInOrder /\ CallsInOrder /\ calls[i].step \in Steps \cup {NoStep} /\ calls[i].op \in Ops
  BY DEF FlowInv, CallsInOrder
<1>1. CASE Flow!FlowWillStart(i)
  <2>1. CallsInOrder'
    <3>1. Entry \in Steps /\ "will-change" \in Ats
      BY OtherAssumptions DEF Flow!StepsAssumption, AboutAStep, Ats
    <3> QED BY <1>0, <1>1, <3>1, CallGoesOn DEF Flow!FlowWillStart
  <2>2. HistoryInOrder'
    BY <1>0, <1>1 DEF Flow!FlowWillStart, HistoryInOrder
  <2> QED BY <2>1, <2>2 DEF FlowInv
<1>2. CASE Flow!StepWillChange(i)
  <2>1. CallsInOrder'
    <3>1. calls[i].at \in AboutAStep /\ calls[i].step \in Steps
      BY <1>0, <1>2 DEF Flow!StepWillChange, AboutAStep, CallsInOrder
    <3>2. CASE Flow!Skip(i)
      BY <1>0, <3>1, <3>2, GoesToNext DEF Flow!Skip
    <3>3. CASE Flow!At(i, "before-enter", calls[i].step)
      <4>1. "before-enter" \in Ats
        BY DEF AboutAStep, Ats
      <4> QED BY <1>0, <3>1, <3>3, <4>1, CallGoesOn
    <3> QED BY <1>2, <3>2, <3>3 DEF Flow!StepWillChange
  <2>2. HistoryInOrder'
    BY <1>0, <1>2 DEF Flow!StepWillChange, HistoryInOrder
  <2> QED BY <2>1, <2>2 DEF FlowInv
<1>3. CASE Flow!BeforeEnter(i)
  <2>1. CallsInOrder'
    <3>1. "did-change" \in Ats \ AboutAStep
      BY DEF AboutAStep, Ats
    <3> QED BY <1>0, <1>3, <3>1, CallGoesOn DEF Flow!BeforeEnter
  <2>2. ui' = [ui EXCEPT !.current = calls[i].step] /\ UNCHANGED db
    BY <1>3 DEF Flow!BeforeEnter
  <2>3. /\ ui' \in FlowUi /\ ui'.history = ui.history /\ ui'.started = ui.started
        /\ ui'.unsaved = ui.unsaved
    BY <1>0, <2>2 DEF FlowUi, HistoryInOrder
  <2> QED BY <1>0, <2>1, <2>2, <2>3 DEF FlowInv, HistoryInOrder
<1>4. CASE Flow!StepDidChange(i)
  <2>1. Flow!Return(i) \in Ats /\ Flow!Return(i) \notin AboutAStep
    BY DEF Flow!Return, AboutAStep, Ats
  <2>2. CallsInOrder'
    BY <1>0, <1>4, <2>1, CallGoesOn DEF Flow!StepDidChange
  <2>3. HistoryInOrder'
    BY <1>0, <1>4 DEF Flow!StepDidChange, HistoryInOrder
  <2> QED BY <2>2, <2>3 DEF FlowInv
<1>5. CASE Flow!AfterLeave(i)
  <2>1. calls[i].at \in AboutAStep /\ calls[i].step \in Steps
    BY <1>0, <1>5 DEF Flow!AfterLeave, AboutAStep, CallsInOrder
  <2>2. CallsInOrder'
    BY <1>0, <1>5, <2>1, GoesToNext DEF Flow!AfterLeave
  <2> DEFINE h == Flow!Recorded(ui.history, calls[i].step)
  <2>3. h \in Seq(Steps) /\ Flow!IsInjective(h)
    BY <1>0, <2>1, RecordedOnce DEF HistoryInOrder, FlowUi
  <2>4. UNCHANGED <<ui, db>> \/ Flow!Persist(h)
    BY <1>5 DEF Flow!AfterLeave
  <2>5. HistoryInOrder'
    <3> HIDE DEF h
    <3>1. CASE UNCHANGED <<ui, db>>
      BY <1>0, <3>1 DEF HistoryInOrder
    <3>2. CASE Flow!Persist(h)
      BY <1>0, <2>3, <3>2, PersistKeeps
    <3> QED BY <2>4, <3>1, <3>2
  <2> QED BY <2>2, <2>5 DEF FlowInv
<1>6. CASE Flow!FlowWillEnd(i)
  <2>1. CallsInOrder'
    <3>1. "did-end" \in Ats \ AboutAStep
      BY DEF AboutAStep, Ats
    <3> QED BY <1>0, <1>6, <3>1, CallGoesOn DEF Flow!FlowWillEnd
  <2>2. ui' = [ui EXCEPT !.current = NoStep] /\ UNCHANGED db
    BY <1>6 DEF Flow!FlowWillEnd
  <2>3. /\ ui' \in FlowUi /\ ui'.history = ui.history /\ ui'.started = ui.started
        /\ ui'.unsaved = ui.unsaved
    BY <1>0, <2>2 DEF FlowUi, HistoryInOrder
  <2> QED BY <1>0, <2>1, <2>2, <2>3 DEF FlowInv, HistoryInOrder
<1>7. CASE Flow!FlowDidEnd(i)
  <2>1. CallsInOrder'
    <3>1. Flow!Return(i) \in Ats /\ Flow!Return(i) \notin AboutAStep
      BY DEF Flow!Return, AboutAStep, Ats
    <3> QED BY <1>0, <1>7, <3>1, CallGoesOn DEF Flow!FlowDidEnd
  <2>2. db' = [db EXCEPT !.history = <<>>] /\ UNCHANGED ui
    BY <1>7 DEF Flow!FlowDidEnd
  <2>3. db' \in FlowDb /\ db'.history = <<>>
    <3>1. PICK none \in Seq(Steps) : none = <<>>
      <4>1. <<>> \in Seq(Steps)
        BY EmptySeq
      <4> QED BY <4>1
    <3> QED BY <1>0, <2>2, <3>1 DEF FlowDb, HistoryInOrder
  <2>4. Flow!IsInjective(<<>>)
    BY DEF Flow!IsInjective
  <2> QED BY <1>0, <2>1, <2>2, <2>3, <2>4 DEF FlowInv, HistoryInOrder
<1> QED
  BY <1>1, <1>2, <1>3, <1>4, <1>5, <1>6, <1>7 DEF Flow!Continue

(* What is called, and a page that is loaded or entered again.              *)
LEMMA FlowInvStep ==
  ASSUME FlowInv, Flow!Next
  PROVE  FlowInv'
<1>0. HistoryInOrder /\ CallsInOrder /\ ui \in FlowUi /\ db \in FlowDb
  BY DEF FlowInv, HistoryInOrder
<1>a. {"start", "next", "back", "url"} \subseteq Ops /\ "flow-will-start" \in Ats \ AboutAStep
      /\ {"after-leave", "will-change"} \subseteq Ats
  BY DEF Ops, Ats, AboutAStep
<1>1. CASE Flow!Start
  <2>1. PICK i \in Runs :
          /\ ui' = [ui EXCEPT !.history = db.history, !.started = TRUE, !.unsaved = FALSE]
          /\ calls' = [calls EXCEPT ![i] = Flow!Run("start", "flow-will-start", NoStep)]
          /\ UNCHANGED db
    BY <1>1 DEF Flow!Start
  <2>2. CallsInOrder'
    BY <1>0, <1>a, <2>1, CallBegins
  <2>3. db.history \in Seq(Steps)
    BY <1>0 DEF FlowDb
  <2>4. ui' \in FlowUi /\ ui'.history = db.history
    BY <1>0, <2>1, <2>3 DEF FlowUi
  <2> QED BY <1>0, <2>1, <2>2, <2>4 DEF FlowInv, HistoryInOrder
<1>2. CASE Flow!Reload
  <2>1. /\ ui' = [current |-> NoStep, history |-> <<>>, started |-> FALSE, unsaved |-> FALSE,
                  reloads |-> ui.reloads + 1, account |-> ui.account]
        /\ calls' = [i \in Runs |-> Flow!Idle] /\ UNCHANGED db
    BY <1>2 DEF Flow!Reload
  <2>2. CallsInOrder'
    BY <2>1 DEF Flow!Idle, CallsInOrder, AboutAStep, Ats, Ops
  <2>3. ui' \in FlowUi /\ ui'.history = <<>> /\ ~ui'.started
    BY <1>0, <2>1 DEF FlowUi
  <2>4. Flow!IsInjective(<<>>)
    BY DEF Flow!IsInjective
  <2> QED BY <1>0, <2>1, <2>2, <2>3, <2>4 DEF FlowInv, HistoryInOrder
<1>3. CASE Flow!Reenter
  <2>1. /\ ui' = [ui EXCEPT !.started = FALSE, !.reloads = @ + 1]
        /\ calls' = [i \in Runs |-> Flow!Idle] /\ UNCHANGED db
    BY <1>3 DEF Flow!Reenter
  <2>2. CallsInOrder'
    BY <2>1 DEF Flow!Idle, CallsInOrder, AboutAStep, Ats, Ops
  <2>3. ui' \in FlowUi /\ ui'.history = ui.history /\ ~ui'.started
    <3>1. PICK n \in Nat : n = ui.reloads + 1
      BY <1>0 DEF FlowUi
    <3> QED BY <1>0, <2>1, <3>1 DEF FlowUi
  <2> QED BY <1>0, <2>1, <2>2, <2>3 DEF FlowInv, HistoryInOrder
<1>4. ASSUME NEW i \in Runs, Flow!Next_(i)
      PROVE  FlowInv'
  <2>1. /\ ui.current # NoStep /\ UNCHANGED <<ui, db>>
        /\ calls' = [calls EXCEPT ![i] = Flow!Run("next", "after-leave", ui.current)]
    BY <1>4 DEF Flow!Next_
  <2>2. ui.current \in Steps
    BY <1>0, <2>1 DEF FlowUi
  <2>3. CallsInOrder'
    BY <1>0, <1>a, <2>1, <2>2, CallBegins
  <2> QED BY <1>0, <2>1, <2>3 DEF FlowInv, HistoryInOrder
<1>5. ASSUME NEW i \in Runs, Flow!Back(i)
      PROVE  FlowInv'
  <2>1. /\ ui.history # <<>> /\ Flow!Persist(Flow!Front(ui.history))
        /\ calls' = [calls EXCEPT ![i] = Flow!Run("back", "will-change", Flow!Last(ui.history))]
    BY <1>5 DEF Flow!Back
  <2>2. /\ Flow!Front(ui.history) \in Seq(Steps) /\ Flow!IsInjective(Flow!Front(ui.history))
        /\ Flow!Last(ui.history) \in Steps
    BY <1>0, <2>1, BackOnce DEF HistoryInOrder, FlowUi
  <2>3. CallsInOrder'
    BY <1>0, <1>a, <2>1, <2>2, CallBegins
  <2>4. HistoryInOrder'
    BY <1>0, <2>1, <2>2, PersistKeeps
  <2> QED BY <2>3, <2>4 DEF FlowInv
<1>6. ASSUME NEW i \in Runs, Flow!AccountCreated(i)
      PROVE  FlowInv'
  <2>1. /\ ui.current = Entry /\ ui' = [ui EXCEPT !.account = TRUE]
        /\ calls' = [calls EXCEPT ![i] = Flow!Run("next", "after-leave", ui.current)]
        /\ db' = [db EXCEPT !.step = ui.current]
    BY <1>6 DEF Flow!AccountCreated
  <2>2. ui.current \in Steps
    BY <2>1, OtherAssumptions DEF Flow!StepsAssumption
  <2>3. CallsInOrder'
    BY <1>0, <1>a, <2>1, <2>2, CallBegins
  <2>4. /\ ui' \in FlowUi /\ ui'.history = ui.history /\ ui'.started = ui.started
        /\ ui'.unsaved = ui.unsaved
    BY <1>0, <2>1 DEF FlowUi
  <2>5. db' \in FlowDb /\ db'.history = db.history
    BY <1>0, <2>1, <2>2 DEF FlowDb
  <2> QED BY <1>0, <2>3, <2>4, <2>5 DEF FlowInv, HistoryInOrder
<1>7. ASSUME NEW i \in Runs, Flow!GotoStepOfUrl(i)
      PROVE  FlowInv'
  <2>1. /\ db.step # NoStep /\ UNCHANGED <<ui, db>>
        /\ calls' = [calls EXCEPT ![i] = Flow!Run("url", "will-change", db.step)]
    BY <1>7 DEF Flow!GotoStepOfUrl
  <2>2. db.step \in Steps
    BY <1>0, <2>1 DEF FlowDb
  <2>3. CallsInOrder'
    BY <1>0, <1>a, <2>1, <2>2, CallBegins
  <2> QED BY <1>0, <2>1, <2>3 DEF FlowInv, HistoryInOrder
<1> QED
  BY <1>1, <1>2, <1>3, <1>4, <1>5, <1>6, <1>7, ContinueKeeps DEF Flow!Next

(* The history holds each step once, the storage keeps it, and the state has *)
(* its type.                                                                 *)
LEMMA FlowKept ==
  ASSUME FlowInv
  PROVE  Flow!HistoryIsKept /\ Flow!TypeOK
<1>1. Flow!HistoryIsKept
  BY DEF FlowInv, HistoryInOrder, FlowUi, Flow!HistoryIsKept, Flow!Started
<1>2. Flow!TypeOK
  BY DEF FlowInv, HistoryInOrder, CallsInOrder, FlowUi, FlowDb, Flow!TypeOK
<1> QED BY <1>1, <1>2
-----------------------------------------------------------------------------
(* Signing up: an intent is issued, then spent, then known to be spent.     *)
NoOne == Registering!NoOne
Password == Registering!Password
Emails == {"blank", "provider", "own"}
Forms == [intent : Intents \cup {NoOne}, email : Emails, verified : BOOLEAN, leftover : BOOLEAN]
SignUpUi ==
  [page : {"login", "provider", "callback", "form", "verify", "console"}, form : Forms,
   registration : Intents \cup {NoOne}, known : SUBSET Intents, step : Nat, session : Nat,
   ready : BOOLEAN, waiting : BOOLEAN, timers : Nat, modal : BOOLEAN,
   submits : Nat, resends : Nat]
SignUpDb ==
  [issued : SUBSET Intents, spent : SUBSET Intents,
   accounts : Seq([intent : Intents \cup {Password}, email : Emails]), persisted : Nat]
SignUpCalls ==
  [op : {"create", "resend", "verify"}, intent : Intents \cup {Password, NoOne}, email : Emails,
   handled : BOOLEAN, ok : BOOLEAN, id : Nat, skip : BOOLEAN, cancelled : BOOLEAN]

IntentsInOrder(u, d) ==
  /\ u.known \subseteq d.spent /\ d.spent \subseteq d.issued
  /\ u.registration \in (d.issued \ u.known) \cup {NoOne}
  /\ u.form.intent \in d.issued \cup {NoOne}
  /\ u.page = "form" /\ u.form.intent \in u.known => u.form.leftover

(* The e-mail of a form, a request or an account is the one vouched for.     *)
EmailsInOrder(u, d) ==
  /\ u.form.intent \in Vouched => u.form.verified /\ u.form.email = "provider"
  /\ \A i \in DOMAIN d.accounts : d.accounts[i].intent \in Vouched => d.accounts[i].email = "provider"

SessionsInOrder(u, d) ==
  /\ u.step # 0 => u.session = u.step
  /\ u.step <= Len(d.accounts) /\ u.session <= Len(d.accounts) /\ d.persisted <= Len(d.accounts)

RequestInOrder(c, d) ==
  c.op = "create" =>
    /\ c.intent \in d.issued \cup {Password}
    /\ c.intent \in Vouched => c.email = "provider"
    /\ c.ok => c.intent \in d.spent \cup {Password} /\ c.id <= Len(d.accounts)

SignUpInv ==
  /\ ui \in SignUpUi /\ db \in SignUpDb /\ calls \subseteq SignUpCalls
  /\ IntentsInOrder(ui, db) /\ EmailsInOrder(ui, db) /\ SessionsInOrder(ui, db)
  /\ \A c \in calls : RequestInOrder(c, db)

(* The names are not intents.                                               *)
LEMMA NamesAreNoIntents == NoOne \notin Intents /\ Password \notin Intents /\ Vouched \subseteq Intents
BY OtherAssumptions DEF Registering!IntentsAssumption, NoOne, Password, Registering!NoOne, Registering!Password

(* Most of the page has nothing to do with the order.                       *)
LEMMA PageOnly ==
  ASSUME SignUpInv, ui' \in SignUpUi, ui'.page \in {ui.page, "login", "callback", "console"},
         ui'.form = ui.form, ui'.registration = ui.registration, ui'.known = ui.known,
         ui'.step \in {0, ui.step}, ui'.session = ui.session, UNCHANGED db,
         calls' \subseteq SignUpCalls,
         \A c \in calls' : c.op # "create" \/ RequestInOrder(c, db)
  PROVE  SignUpInv'
<1>1. IntentsInOrder(ui', db') /\ EmailsInOrder(ui', db') /\ SessionsInOrder(ui', db')
  BY DEF SignUpInv, IntentsInOrder, EmailsInOrder, SessionsInOrder, SignUpUi, SignUpDb
<1>2. \A c \in calls' : RequestInOrder(c, db')
  BY DEF RequestInOrder
<1> QED BY <1>1, <1>2 DEF SignUpInv

(* Requests that go with their page, stay or are answered.                   *)
LEMMA FewerRequests ==
  ASSUME SignUpInv, NEW S, S \subseteq calls \/ S = Registering!Cancelled(calls)
  PROVE  S \subseteq SignUpCalls /\ \A c \in S : RequestInOrder(c, db)
<1>1. CASE S \subseteq calls
  BY <1>1 DEF SignUpInv
<1>2. CASE S = Registering!Cancelled(calls)
  <2>1. ASSUME NEW d \in S
        PROVE  d \in SignUpCalls /\ RequestInOrder(d, db)
    <3>1. PICK c \in calls : d = [c EXCEPT !.cancelled = @ \/ c.op # "resend"]
      BY <1>2, <2>1 DEF Registering!Cancelled
    <3>2. PICK gone \in BOOLEAN : gone = (c.cancelled \/ c.op # "resend")
      OBVIOUS
    <3>3. d = [c EXCEPT !.cancelled = gone]
      BY <3>1, <3>2
    <3>4. c \in SignUpCalls /\ RequestInOrder(c, db)
      BY DEF SignUpInv
    <3>5. /\ d \in SignUpCalls /\ d.op = c.op /\ d.intent = c.intent /\ d.email = c.email
          /\ d.ok = c.ok /\ d.id = c.id
      BY <3>3, <3>4 DEF SignUpCalls
    <3> QED BY <3>4, <3>5 DEF RequestInOrder
  <2> QED BY <2>1
<1> QED BY <1>1, <1>2

(* The start.                                                               *)
LEMMA SignUpInvInit == Registering!Init => SignUpInv
<1> SUFFICES ASSUME Registering!Init PROVE SignUpInv
  OBVIOUS
<1>1. /\ ui \in SignUpUi /\ ui.registration = NoOne /\ ui.form.intent = NoOne
      /\ ui.known = {} /\ ui.step = 0 /\ ui.session = 0
  BY DEF Registering!Init, Registering!NoForm, SignUpUi, Forms, Emails, NoOne, Registering!NoOne
<1>2. db \in SignUpDb /\ db.issued = {} /\ db.spent = {} /\ db.accounts = <<>> /\ db.persisted = 0
  BY DEF Registering!Init, SignUpDb
<1>3. calls = {}
  BY DEF Registering!Init
<1> QED
  BY <1>1, <1>2, <1>3, NamesAreNoIntents
     DEF SignUpInv, IntentsInOrder, EmailsInOrder, SessionsInOrder

(* What the page itself does.                                               *)
LEMMA PageActs ==
  ASSUME SignUpInv,
         \/ Registering!Leave \/ Registering!TimerFires \/ Registering!DidntReceiveCode
         \/ \E complete \in BOOLEAN : Registering!ValidateInput(complete)
         \/ Registering!ResendCode \/ Registering!CancelResend \/ Registering!ConfirmResend
         \/ Registering!Verify
         \/ \E c \in calls : Registering!ResendAnswered(c) \/ Registering!VerifyAnswered(c)
  PROVE  SignUpInv'
<1> DEFINE SameServices == /\ ui'.form = ui.form /\ ui'.registration = ui.registration
                           /\ ui'.known = ui.known /\ ui'.session = ui.session
<1> DEFINE SamePlace == ui'.page = ui.page /\ ui'.step = ui.step
<1>0. ui \in SignUpUi /\ calls \subseteq SignUpCalls
  BY DEF SignUpInv
<1>1. CASE Registering!Leave
  <2>1. ui' = [ui EXCEPT !.page = "login"] /\ calls' = Registering!Cancelled(calls) /\ UNCHANGED db
    BY <1>1 DEF Registering!Leave
  <2>2. ui' \in SignUpUi /\ SameServices /\ ui'.page = "login" /\ ui'.step = ui.step
    BY <1>0, <2>1 DEF SignUpUi
  <2>3. calls' \subseteq SignUpCalls /\ \A c \in calls' : RequestInOrder(c, db)
    BY <2>1, FewerRequests
  <2> QED BY <2>1, <2>2, <2>3, PageOnly
<1>2. CASE Registering!TimerFires
  <2>1. ui' = [ui EXCEPT !.timers = @ - 1, !.waiting = TRUE] /\ ui.timers > 0 /\ UNCHANGED <<calls, db>>
    BY <1>2 DEF Registering!TimerFires
  <2>2. PICK n \in Nat : n = ui.timers - 1
    BY <1>0, <2>1 DEF SignUpUi
  <2>3. ui' = [ui EXCEPT !.timers = n, !.waiting = TRUE]
    BY <2>1, <2>2
  <2>4. ui' \in SignUpUi /\ SameServices /\ SamePlace
    BY <1>0, <2>3 DEF SignUpUi
  <2> QED BY <1>0, <2>1, <2>4, FewerRequests, PageOnly
<1>3. CASE Registering!DidntReceiveCode
  <2>1. ui' = [ui EXCEPT !.waiting = TRUE] /\ UNCHANGED <<calls, db>>
    BY <1>3 DEF Registering!DidntReceiveCode
  <2>2. ui' \in SignUpUi /\ SameServices /\ SamePlace
    BY <1>0, <2>1 DEF SignUpUi
  <2> QED BY <1>0, <2>1, <2>2, FewerRequests, PageOnly
<1>4. ASSUME NEW complete \in BOOLEAN, Registering!ValidateInput(complete)
      PROVE  SignUpInv'
  <2>1. ui' = [ui EXCEPT !.ready = complete] /\ UNCHANGED <<calls, db>>
    BY <1>4 DEF Registering!ValidateInput
  <2>2. ui' \in SignUpUi /\ SameServices /\ SamePlace
    BY <1>0, <2>1 DEF SignUpUi
  <2> QED BY <1>0, <2>1, <2>2, FewerRequests, PageOnly
<1>5. CASE Registering!ResendCode \/ Registering!CancelResend
  <2>1. PICK shown \in BOOLEAN : ui' = [ui EXCEPT !.modal = shown] /\ UNCHANGED <<calls, db>>
    BY <1>5 DEF Registering!ResendCode, Registering!CancelResend
  <2>2. ui' \in SignUpUi /\ SameServices /\ SamePlace
    BY <1>0, <2>1 DEF SignUpUi
  <2> QED BY <1>0, <2>1, <2>2, FewerRequests, PageOnly
<1>6. CASE Registering!ConfirmResend \/ Registering!Verify
  <2>1. PICK op \in {"resend", "verify"} :
          calls' = calls \cup {Registering!Call(op, Registering!NoOne, "blank")}
    BY <1>6 DEF Registering!ConfirmResend, Registering!Verify
  <2> DEFINE new == Registering!Call(op, Registering!NoOne, "blank")
  <2>2. new \in SignUpCalls /\ new.op # "create"
    BY DEF Registering!Call, SignUpCalls, Emails, NoOne
  <2> HIDE DEF new
  <2>3. calls' \subseteq SignUpCalls /\ \A c \in calls' : c.op # "create" \/ RequestInOrder(c, db)
    BY <1>0, <2>1, <2>2, FewerRequests DEF new
  <2>4. UNCHANGED db /\ (UNCHANGED ui \/ ui' = [ui EXCEPT !.resends = @ + 1])
    BY <1>6 DEF Registering!ConfirmResend, Registering!Verify
  <2>5. PICK n \in Nat : n = ui.resends + 1
    BY <1>0 DEF SignUpUi
  <2>6. UNCHANGED ui \/ ui' = [ui EXCEPT !.resends = n]
    BY <2>4, <2>5
  <2>7. ui' \in SignUpUi /\ SameServices /\ SamePlace
    BY <1>0, <2>6 DEF SignUpUi
  <2> QED BY <2>3, <2>4, <2>7, PageOnly
<1>7. ASSUME NEW c \in calls, Registering!ResendAnswered(c)
      PROVE  SignUpInv'
  <2>1. calls' = calls \ {c} /\ UNCHANGED db /\ \E ok \in BOOLEAN : ui' = [ui EXCEPT !.modal = @ /\ ~ok]
    BY <1>7 DEF Registering!ResendAnswered
  <2>2. PICK shown \in BOOLEAN : ui' = [ui EXCEPT !.modal = shown]
    BY <2>1
  <2>3. ui' \in SignUpUi /\ SameServices /\ SamePlace
    BY <1>0, <2>2 DEF SignUpUi
  <2>4. calls' \subseteq SignUpCalls /\ \A d \in calls' : RequestInOrder(d, db)
    BY <2>1, FewerRequests
  <2> QED BY <2>1, <2>3, <2>4, PageOnly
<1>8. ASSUME NEW c \in calls, Registering!VerifyAnswered(c)
      PROVE  SignUpInv'
  <2>1. /\ calls' = calls \ {c} /\ UNCHANGED db
        /\ \/ UNCHANGED ui
           \/ \E page_ \in {"console", "login"} : ui' = [ui EXCEPT !.page = page_, !.step = 0]
    BY <1>8 DEF Registering!VerifyAnswered
  <2>2. /\ ui' \in SignUpUi /\ SameServices /\ ui'.page \in {ui.page, "login", "console"}
        /\ ui'.step \in {0, ui.step}
    <3>1. CASE UNCHANGED ui
      BY <1>0, <3>1
    <3>2. ASSUME NEW page_ \in {"console", "login"}, ui' = [ui EXCEPT !.page = page_, !.step = 0]
          PROVE  /\ ui' \in SignUpUi /\ SameServices /\ ui'.page \in {ui.page, "login", "console"}
                 /\ ui'.step \in {0, ui.step}
      BY <1>0, <3>2 DEF SignUpUi
    <3> QED BY <2>1, <3>1, <3>2
  <2>3. calls' \subseteq SignUpCalls /\ \A d \in calls' : RequestInOrder(d, db)
    BY <2>1, FewerRequests
  <2> QED BY <2>1, <2>2, <2>3, PageOnly
<1> QED
  BY <1>1, <1>2, <1>3, <1>4, <1>5, <1>6, <1>7, <1>8

(* A request of the form, and what the API says of it.                       *)
LEMMA CallIsTyped ==
  ASSUME NEW intent \in Intents \cup {Password}, NEW mail \in Emails,
         NEW c, c = Registering!Call("create", intent, mail)
  PROVE  /\ c \in SignUpCalls /\ c.op = "create" /\ c.intent = intent /\ c.email = mail
         /\ ~c.ok /\ ~c.handled
BY DEF Registering!Call, SignUpCalls

(* The form is opened, edited and sent.                                      *)
LEMMA FormActs ==
  ASSUME SignUpInv,
         \/ Registering!OpenForm \/ Registering!Onboard
         \/ \E mail \in {"blank", "own"} : Registering!Edit(mail)
  PROVE  SignUpInv'
<1>0. /\ ui \in SignUpUi /\ db \in SignUpDb /\ calls \subseteq SignUpCalls
      /\ IntentsInOrder(ui, db) /\ EmailsInOrder(ui, db) /\ SessionsInOrder(ui, db)
      /\ \A c \in calls : RequestInOrder(c, db)
  BY DEF SignUpInv
<1>1. CASE Registering!OpenForm
  <2> DEFINE new == Registering!NewForm
  <2>1. /\ ui' = [ui EXCEPT !.page = "form", !.form = new, !.step = 0]
        /\ calls' = Registering!Cancelled(calls) /\ UNCHANGED db
    BY <1>1 DEF Registering!OpenForm
  <2>2. /\ new \in Forms /\ new.intent = ui.registration
        /\ new.intent \in Vouched => new.verified /\ new.email = "provider"
    <3>1. CASE ui.registration = NoOne
      BY <3>1, NamesAreNoIntents
         DEF Registering!NewForm, Registering!NoForm, Forms, Emails, NoOne, Registering!NoOne
    <3>2. CASE ui.registration # NoOne
      <4>1. ui.registration \in Intents
        BY <1>0, <3>2 DEF SignUpUi
      <4> DEFINE i == ui.registration
                 f == Registering!NoForm
      <4>2. f \in Forms
        BY DEF Registering!NoForm, Forms, Emails, NoOne
      <4>3. PICK sure \in BOOLEAN : sure <=> i \in Vouched
        BY Zenon
      <4>4. new = [f EXCEPT !.intent = i, !.email = "provider", !.verified = sure]
        BY <3>2, <4>3 DEF Registering!NewForm, NoOne
      <4> HIDE DEF new, f, i
      <4>5. new \in Forms /\ new.intent = i /\ new.email = "provider" /\ new.verified = sure
        BY <4>1, <4>2, <4>4 DEF Forms, Emails, i
      <4> QED BY <4>3, <4>5 DEF i
    <3> QED BY <3>1, <3>2
  <2> HIDE DEF new
  <2>3. /\ ui' \in SignUpUi /\ ui'.form = new /\ ui'.registration = ui.registration
        /\ ui'.known = ui.known /\ ui'.step = 0 /\ ui'.session = ui.session
    BY <1>0, <2>1, <2>2 DEF SignUpUi
  <2>4. calls' \subseteq SignUpCalls /\ \A c \in calls' : RequestInOrder(c, db)
    BY <2>1, FewerRequests
  <2>5. IntentsInOrder(ui', db)
    BY <1>0, <2>2, <2>3, NamesAreNoIntents DEF IntentsInOrder, SignUpUi, SignUpDb
  <2>6. EmailsInOrder(ui', db) /\ SessionsInOrder(ui', db)
    BY <1>0, <2>2, <2>3 DEF EmailsInOrder, SessionsInOrder
  <2> QED BY <1>0, <2>1, <2>3, <2>4, <2>5, <2>6 DEF SignUpInv
<1>2. CASE Registering!Onboard
  <2> DEFINE intent == IF ui.form.intent = NoOne THEN Password ELSE ui.form.intent
             new == Registering!Call("create", intent, ui.form.email)
  <2>1. calls' = calls \cup {new} /\ ui' = [ui EXCEPT !.submits = @ + 1] /\ UNCHANGED db
    BY <1>2 DEF Registering!Onboard, NoOne, Password
  <2>2. ui.form \in Forms /\ intent \in Intents \cup {Password} /\ ui.form.email \in Emails
    BY <1>0 DEF SignUpUi, Forms
  <2>3. /\ intent \in db.issued \cup {Password}
        /\ intent \in Vouched => ui.form.email = "provider"
    BY <1>0, NamesAreNoIntents DEF IntentsInOrder, EmailsInOrder
  <2> HIDE DEF intent, new
  <2>4. /\ new \in SignUpCalls /\ new.op = "create" /\ new.intent = intent
        /\ new.email = ui.form.email /\ ~new.ok
    BY <2>2, CallIsTyped DEF new
  <2>5. calls' \subseteq SignUpCalls /\ \A c \in calls' : RequestInOrder(c, db)
    BY <1>0, <2>1, <2>3, <2>4 DEF RequestInOrder
  <2>6. PICK n \in Nat : n = ui.submits + 1
    BY <1>0 DEF SignUpUi
  <2>7. ui' = [ui EXCEPT !.submits = n]
    BY <2>1, <2>6
  <2>8. /\ ui' \in SignUpUi /\ ui'.page = ui.page /\ ui'.form = ui.form /\ ui'.step = ui.step
        /\ ui'.registration = ui.registration /\ ui'.known = ui.known /\ ui'.session = ui.session
    BY <1>0, <2>7 DEF SignUpUi
  <2> QED BY <2>1, <2>5, <2>8, PageOnly
<1>3. ASSUME NEW mail \in {"blank", "own"}, Registering!Edit(mail)
      PROVE  SignUpInv'
  <2>1. /\ ~Registering!IsEmailLocked(ui.form) /\ UNCHANGED <<calls, db>>
        /\ ui' = [ui EXCEPT !.form.email = mail]
    BY <1>3 DEF Registering!Edit
  <2>2. ui.form \in Forms
    BY <1>0 DEF SignUpUi
  <2>3. ui.form.intent \notin Vouched
    BY <1>0, <2>1, <2>2, NamesAreNoIntents
       DEF Registering!IsEmailLocked, EmailsInOrder, NoOne
  <2> DEFINE edited == [ui.form EXCEPT !.email = mail]
  <2>4. edited \in Forms /\ edited.intent = ui.form.intent /\ edited.leftover = ui.form.leftover
    BY <2>2 DEF Forms, Emails
  <2>5. ui' = [ui EXCEPT !.form = edited]
    BY <1>0, <2>1 DEF SignUpUi
  <2> HIDE DEF edited
  <2>6. /\ ui' \in SignUpUi /\ ui'.page = ui.page /\ ui'.form = edited /\ ui'.step = ui.step
        /\ ui'.registration = ui.registration /\ ui'.known = ui.known /\ ui'.session = ui.session
    BY <1>0, <2>4, <2>5 DEF SignUpUi
  <2>7. IntentsInOrder(ui', db) /\ EmailsInOrder(ui', db) /\ SessionsInOrder(ui', db)
    BY <1>0, <2>3, <2>4, <2>6 DEF IntentsInOrder, EmailsInOrder, SessionsInOrder
  <2> QED BY <1>0, <2>1, <2>6, <2>7 DEF SignUpInv
<1> QED BY <1>1, <1>2, <1>3

(* An identity is confirmed, the page loads again, a step begins.            *)
LEMMA ServicesAct ==
  ASSUME SignUpInv,
         \/ \E i \in Intents : Registering!SetRegistration(i)
         \/ Registering!ContinueWithProvider \/ Registering!Resume
         \/ Registering!Initialize
  PROVE  SignUpInv'
<1>0. /\ ui \in SignUpUi /\ db \in SignUpDb /\ calls \subseteq SignUpCalls
      /\ IntentsInOrder(ui, db) /\ EmailsInOrder(ui, db) /\ SessionsInOrder(ui, db)
      /\ \A c \in calls : RequestInOrder(c, db)
  BY DEF SignUpInv
<1>1. ASSUME NEW i \in Intents, Registering!SetRegistration(i)
      PROVE  SignUpInv'
  <2>1. /\ i \notin db.issued /\ db' = [db EXCEPT !.issued = @ \cup {i}]
        /\ ui' = [ui EXCEPT !.registration = i, !.page = "callback"] /\ UNCHANGED calls
    BY <1>1 DEF Registering!SetRegistration
  <2>2. PICK issued \in SUBSET Intents : issued = db.issued \cup {i}
    BY <1>0 DEF SignUpDb
  <2>3. db' = [db EXCEPT !.issued = issued]
    BY <2>1, <2>2
  <2>4. /\ db' \in SignUpDb /\ db'.issued = issued /\ db'.spent = db.spent
        /\ db'.accounts = db.accounts /\ db'.persisted = db.persisted
    BY <1>0, <2>3 DEF SignUpDb
  <2>5. /\ ui' \in SignUpUi /\ ui'.page = "callback" /\ ui'.form = ui.form /\ ui'.step = ui.step
        /\ ui'.registration = i /\ ui'.known = ui.known /\ ui'.session = ui.session
    BY <1>0, <2>1 DEF SignUpUi
  <2>6. IntentsInOrder(ui', db')
    BY <1>0, <2>1, <2>2, <2>4, <2>5 DEF IntentsInOrder
  <2>7. EmailsInOrder(ui', db') /\ SessionsInOrder(ui', db')
    BY <1>0, <2>4, <2>5 DEF EmailsInOrder, SessionsInOrder
  <2>8. \A c \in calls' : RequestInOrder(c, db')
    BY <1>0, <2>1, <2>2, <2>4 DEF RequestInOrder
  <2> QED BY <1>0, <2>1, <2>4, <2>5, <2>6, <2>7, <2>8 DEF SignUpInv
<1>2. CASE Registering!ContinueWithProvider \/ Registering!Resume
  <2>1. PICK to \in {"provider", "verify"} : Registering!Reload(to)
    BY <1>2 DEF Registering!ContinueWithProvider, Registering!Resume
  <2> DEFINE none == Registering!NoForm
  <2>2. none \in Forms /\ none.intent = NoOne
    BY DEF Registering!NoForm, Forms, Emails, NoOne
  <2> HIDE DEF none
  <2>3. /\ ui' = [ui EXCEPT !.page = to, !.form = none, !.registration = NoOne, !.known = {},
                            !.step = 0, !.session = 0, !.ready = FALSE, !.waiting = FALSE,
                            !.timers = 0, !.modal = FALSE]
        /\ calls' = {} /\ UNCHANGED db
    BY <2>1 DEF Registering!Reload, NoOne, none
  <2>4. /\ ui' \in SignUpUi /\ ui'.page = to /\ ui'.form = none /\ ui'.step = 0
        /\ ui'.registration = NoOne /\ ui'.known = {} /\ ui'.session = 0
    BY <1>0, <2>2, <2>3 DEF SignUpUi
  <2>5. IntentsInOrder(ui', db') /\ EmailsInOrder(ui', db') /\ SessionsInOrder(ui', db')
    BY <1>0, <2>2, <2>3, <2>4, NamesAreNoIntents
       DEF IntentsInOrder, EmailsInOrder, SessionsInOrder, SignUpDb
  <2> QED BY <1>0, <2>3, <2>4, <2>5 DEF SignUpInv
<1>3. CASE Registering!Initialize
  <2>1. /\ ui' = [ui EXCEPT !.step = db.persisted, !.session = db.persisted, !.timers = @ + 1]
        /\ UNCHANGED <<calls, db>>
    BY <1>3 DEF Registering!Initialize, Registering!SetSession
  <2>2. PICK n \in Nat : n = ui.timers + 1
    BY <1>0 DEF SignUpUi
  <2>3. PICK kept \in Nat : kept = db.persisted
    BY <1>0 DEF SignUpDb
  <2>4. ui' = [ui EXCEPT !.step = kept, !.session = kept, !.timers = n]
    BY <2>1, <2>2, <2>3
  <2>5. /\ ui' \in SignUpUi /\ ui'.page = ui.page /\ ui'.form = ui.form /\ ui'.step = kept
        /\ ui'.registration = ui.registration /\ ui'.known = ui.known /\ ui'.session = kept
    BY <1>0, <2>4 DEF SignUpUi
  <2>6. IntentsInOrder(ui', db') /\ EmailsInOrder(ui', db') /\ SessionsInOrder(ui', db')
    BY <1>0, <2>1, <2>3, <2>5 DEF IntentsInOrder, EmailsInOrder, SessionsInOrder
  <2> QED BY <1>0, <2>1, <2>5, <2>6 DEF SignUpInv
<1> QED BY <1>1, <1>2, <1>3

(* The API takes an intent once; an account, once made, stays.               *)
LEMMA ApiActs ==
  ASSUME SignUpInv, NEW c \in calls, Registering!HandleCreate(c)
  PROVE  SignUpInv'
<1>0. /\ ui \in SignUpUi /\ db \in SignUpDb /\ calls \subseteq SignUpCalls
      /\ IntentsInOrder(ui, db) /\ EmailsInOrder(ui, db) /\ SessionsInOrder(ui, db)
      /\ \A d \in calls : RequestInOrder(d, db)
  BY DEF SignUpInv
<1>1. c \in SignUpCalls /\ c.op = "create" /\ ui' = ui
  BY <1>0 DEF Registering!HandleCreate
<1>2. c.intent \in db.issued \cup {Password} /\ (c.intent \in Vouched => c.email = "provider")
  BY <1>0, <1>1 DEF RequestInOrder
<1>3. CASE /\ db' = [db EXCEPT !.spent = @ \cup ({c.intent} \ {Registering!Password}),
                               !.accounts = Append(@, [intent |-> c.intent, email |-> c.email])]
           /\ \E ok \in BOOLEAN :
                  calls' = (calls \ {c}) \cup
                      {[c EXCEPT !.handled = TRUE, !.ok = ok, !.id = Len(db.accounts) + 1,
                                 !.skip = c.intent \in Vouched /\ c.email = "provider"]}
  <2> DEFINE account == [intent |-> c.intent, email |-> c.email]
             Accs == [intent : Intents \cup {Password}, email : Emails]
  <2>1. account \in Accs
    BY <1>0, <1>1, <1>2 DEF SignUpCalls, SignUpDb
  <2>2. db.accounts \in Seq(Accs) /\ db.issued \in SUBSET Intents /\ db.spent \in SUBSET Intents
    BY <1>0 DEF SignUpDb
  <2>a. account.intent = c.intent /\ account.email = c.email
    OBVIOUS
  <2> HIDE DEF account, Accs
  <2>b. account \in Accs
    BY <2>1
  <2>3. PICK accounts \in Seq(Accs) : accounts = Append(db.accounts, account)
    BY <2>b, <2>2, AppendProperties
  <2>4. /\ Len(accounts) = Len(db.accounts) + 1 /\ DOMAIN accounts = 1..Len(accounts)
        /\ \A k \in DOMAIN accounts :
              accounts[k] = account \/ (k \in DOMAIN db.accounts /\ accounts[k] = db.accounts[k])
    BY <2>1, <2>2, <2>3
  <2>5. PICK spent \in SUBSET Intents : spent = db.spent \cup ({c.intent} \ {Password})
    BY <1>2, <2>2
  <2>6. db' = [db EXCEPT !.spent = spent, !.accounts = accounts]
    BY <1>3, <2>3, <2>5 DEF Password, account
  <2>7. /\ db' \in SignUpDb /\ db'.issued = db.issued /\ db'.spent = spent
        /\ db'.accounts = accounts /\ db'.persisted = db.persisted
    BY <1>0, <2>6 DEF SignUpDb, Accs
  <2>8. PICK ok \in BOOLEAN, id \in Nat, skip \in BOOLEAN :
          /\ id = Len(accounts)
          /\ calls' = (calls \ {c}) \cup
               {[c EXCEPT !.handled = TRUE, !.ok = ok, !.id = id, !.skip = skip]}
    <3>1. PICK ok \in BOOLEAN :
             calls' = (calls \ {c}) \cup
                  {[c EXCEPT !.handled = TRUE, !.ok = ok, !.id = Len(db.accounts) + 1,
                             !.skip = c.intent \in Vouched /\ c.email = "provider"]}
      BY <1>3
    <3>2. PICK id \in Nat : id = Len(accounts) /\ id = Len(db.accounts) + 1
      BY <2>2, <2>4
    <3>3. PICK skip \in BOOLEAN : skip = (c.intent \in Vouched /\ c.email = "provider")
      OBVIOUS
    <3> QED BY <3>1, <3>2, <3>3
  <2> DEFINE new == [c EXCEPT !.handled = TRUE, !.ok = ok, !.id = id, !.skip = skip]
  <2>9. new \in SignUpCalls /\ new.op = "create" /\ new.intent = c.intent /\ new.email = c.email
        /\ new.id = id
    BY <1>1 DEF SignUpCalls
  <2> HIDE DEF new
  <2>10. RequestInOrder(new, db')
    BY <1>2, <2>2, <2>5, <2>7, <2>8, <2>9, <2>4 DEF RequestInOrder
  <2>11. \A d \in calls : RequestInOrder(d, db')
    <3>1. SUFFICES ASSUME NEW d \in calls PROVE RequestInOrder(d, db')
      OBVIOUS
    <3>2. d \in SignUpCalls /\ d.id \in Nat
      BY <1>0 DEF SignUpCalls
    <3> QED BY <1>0, <2>2, <2>4, <2>5, <2>7, <3>2 DEF RequestInOrder
  <2>12. \A d \in calls' : d \in SignUpCalls /\ RequestInOrder(d, db')
    BY <1>0, <2>8, <2>9, <2>10, <2>11 DEF new
  <2>13. IntentsInOrder(ui', db')
    BY <1>0, <1>1, <1>2, <2>2, <2>5, <2>7 DEF IntentsInOrder
  <2>14. EmailsInOrder(ui', db')
    BY <1>0, <1>1, <1>2, <2>a, <2>4, <2>7 DEF EmailsInOrder
  <2>15. SessionsInOrder(ui', db')
    <3>1. /\ ui.step \in Nat /\ ui.session \in Nat /\ db.persisted \in Nat
          /\ Len(db.accounts) \in Nat
      BY <1>0, <2>2 DEF SignUpUi, SignUpDb
    <3> QED BY <1>0, <1>1, <2>4, <2>7, <3>1 DEF SessionsInOrder
  <2> QED BY <1>0, <1>1, <2>7, <2>12, <2>13, <2>14, <2>15 DEF SignUpInv
<1>4. CASE calls' = (calls \ {c}) \cup {[c EXCEPT !.handled = TRUE]} /\ UNCHANGED db
  <2> DEFINE new == [c EXCEPT !.handled = TRUE]
  <2>1. /\ new \in SignUpCalls /\ new.op = c.op /\ new.intent = c.intent /\ new.email = c.email
        /\ new.ok = c.ok /\ new.id = c.id
    BY <1>1 DEF SignUpCalls
  <2> HIDE DEF new
  <2>2. RequestInOrder(new, db)
    BY <1>0, <2>1 DEF RequestInOrder
  <2>3. \A d \in calls' : d \in SignUpCalls /\ RequestInOrder(d, db)
    BY <1>0, <1>4, <2>1, <2>2 DEF new
  <2> QED BY <1>0, <1>1, <1>4, <2>3 DEF SignUpInv
<1> QED BY <1>3, <1>4 DEF Registering!HandleCreate

(* An account was made: its intent is known to be spent and is cleared.      *)
LEMMA AnswerActs ==
  ASSUME SignUpInv, NEW c \in calls, Registering!OnboardAnswered(c)
  PROVE  SignUpInv'
<1>0. /\ ui \in SignUpUi /\ db \in SignUpDb /\ calls \subseteq SignUpCalls
      /\ IntentsInOrder(ui, db) /\ EmailsInOrder(ui, db) /\ SessionsInOrder(ui, db)
      /\ \A d \in calls : RequestInOrder(d, db)
  BY DEF SignUpInv
<1>1. c \in SignUpCalls /\ c.op = "create" /\ calls' = calls \ {c}
  BY <1>0 DEF Registering!OnboardAnswered
<1>2. CASE UNCHANGED <<ui, db>>
  BY <1>0, <1>1, <1>2 DEF SignUpInv
<1>3. CASE c.ok /\ ~UNCHANGED <<ui, db>>
  <2>1. PICK known \in SUBSET Intents : known = ui.known \cup ({c.intent} \ {Password})
    BY <1>0, <1>1, <1>3 DEF RequestInOrder, SignUpUi, SignUpDb
  <2>2. known \subseteq db.spent /\ c.id <= Len(db.accounts) /\ c.id \in Nat
    BY <1>0, <1>1, <1>3, <2>1 DEF RequestInOrder, IntentsInOrder, SignUpCalls
  <2>3. db' = [db EXCEPT !.persisted = c.id]
    BY <1>3 DEF Registering!OnboardAnswered
  <2>4. /\ db' \in SignUpDb /\ db'.issued = db.issued /\ db'.spent = db.spent
        /\ db'.accounts = db.accounts /\ db'.persisted = c.id
    BY <1>0, <2>2, <2>3 DEF SignUpDb
  <2> DEFINE left == [ui.form EXCEPT !.leftover = TRUE]
  <2>5. /\ ui.form \in Forms /\ left \in Forms /\ left.leftover
        /\ left.intent = ui.form.intent /\ left.email = ui.form.email
        /\ left.verified = ui.form.verified
    BY <1>0 DEF SignUpUi, Forms
  <2> HIDE DEF left
  <2>6. \/ \E to \in {"console", "verify"} :
              ui' = [ui EXCEPT !.registration = NoOne, !.known = known, !.page = to, !.step = 0]
        \/ ui' = [ui EXCEPT !.registration = NoOne, !.known = known, !.form = left]
    <3> DEFINE cleared == [ui EXCEPT !.registration = Registering!ClearRegistration,
                                     !.known = @ \cup ({c.intent} \ {Registering!Password})]
    <3>1. \/ \E to \in {"console", "verify"} : ui' = [cleared EXCEPT !.page = to, !.step = 0]
          \/ ui' = [cleared EXCEPT !.form.leftover = TRUE]
      BY <1>3 DEF Registering!OnboardAnswered
    <3>2. cleared = [ui EXCEPT !.registration = NoOne, !.known = known]
      BY <2>1 DEF Registering!ClearRegistration, NoOne, Password
    <3>3. cleared \in SignUpUi /\ cleared.form = ui.form
      BY <1>0, <3>2 DEF SignUpUi
    <3>4. CASE ui' = [cleared EXCEPT !.form.leftover = TRUE]
      <4>1. ui' = [cleared EXCEPT !.form = left]
        BY <3>3, <3>4 DEF SignUpUi, left
      <4> QED BY <1>0, <3>2, <4>1 DEF SignUpUi
    <3>5. ASSUME NEW to \in {"console", "verify"}, ui' = [cleared EXCEPT !.page = to, !.step = 0]
          PROVE  ui' = [ui EXCEPT !.registration = NoOne, !.known = known, !.page = to, !.step = 0]
      BY <1>0, <3>2, <3>5 DEF SignUpUi
    <3> QED BY <3>1, <3>4, <3>5
  <2>7. /\ ui' \in SignUpUi /\ ui'.registration = NoOne /\ ui'.known = known
        /\ ui'.session = ui.session
        /\ \/ ui'.page \in {"console", "verify"} /\ ui'.step = 0 /\ ui'.form = ui.form
           \/ ui'.page = ui.page /\ ui'.step = ui.step /\ ui'.form = left
    <3>1. ASSUME NEW to \in {"console", "verify"},
                 ui' = [ui EXCEPT !.registration = NoOne, !.known = known, !.page = to, !.step = 0]
          PROVE  /\ ui' \in SignUpUi /\ ui'.registration = NoOne /\ ui'.known = known
                 /\ ui'.session = ui.session /\ ui'.page = to /\ ui'.step = 0 /\ ui'.form = ui.form
      BY <1>0, <3>1 DEF SignUpUi
    <3>2. CASE ui' = [ui EXCEPT !.registration = NoOne, !.known = known, !.form = left]
      BY <1>0, <2>5, <3>2 DEF SignUpUi
    <3> QED BY <2>6, <3>1, <3>2
  <2>8. IntentsInOrder(ui', db')
    BY <1>0, <2>1, <2>2, <2>4, <2>5, <2>7 DEF IntentsInOrder
  <2>9. EmailsInOrder(ui', db') /\ SessionsInOrder(ui', db')
    BY <1>0, <2>2, <2>4, <2>5, <2>7 DEF EmailsInOrder, SessionsInOrder
  <2>10. \A d \in calls' : RequestInOrder(d, db')
    BY <1>0, <1>1, <2>4 DEF RequestInOrder
  <2> QED BY <1>0, <1>1, <2>4, <2>7, <2>8, <2>9, <2>10 DEF SignUpInv
<1> QED BY <1>2, <1>3 DEF Registering!OnboardAnswered

(* Every step of a sign-up.                                                  *)
LEMMA SignUpInvStep ==
  ASSUME SignUpInv, Registering!Next
  PROVE  SignUpInv'
BY PageActs, FormActs, ServicesAct, ApiActs, AnswerActs DEF Registering!Next

(* What the invariant says of the form, the accounts and the codes.          *)
LEMMA SignUpKept ==
  ASSUME SignUpInv
  PROVE  /\ Registering!TypeOK /\ Registering!SpentIntentsAreGone
         /\ Registering!VouchedEmailsStay /\ Registering!ResendsAreForThePage
<1>1. Registering!TypeOK
  BY DEF SignUpInv, IntentsInOrder, SessionsInOrder, SignUpUi, Forms, Emails, NoOne, Registering!TypeOK
<1>2. Registering!SpentIntentsAreGone /\ Registering!VouchedEmailsStay
  BY DEF SignUpInv, IntentsInOrder, EmailsInOrder,
         Registering!SpentIntentsAreGone, Registering!VouchedEmailsStay
<1>3. Registering!ResendsAreForThePage
  BY DEF SignUpInv, SessionsInOrder, Registering!ResendsAreForThePage
<1> QED BY <1>1, <1>2, <1>3

-----------------------------------------------------------------------------
(* The onboarding's context: what may be kept under a key.                   *)
AllKeys == Keys \cup {Context!Index}
Cells(k) == IF k = Context!Index THEN (SUBSET Keys) \cup {Context!Undefined}
            ELSE IF k \in Sensitive THEN {Context!Undefined} ELSE Values \cup {Context!Undefined}
Stores == {f \in [AllKeys -> UNION {Cells(k) : k \in AllKeys}] : \A k \in AllKeys : f[k] \in Cells(k)}
ContextUi == [data : Stores, memory : Stores, quotaExceeded : BOOLEAN, deleted : SUBSET Keys]

(* A value is nowhere once it was deleted.                                   *)
Nowhere(u, d) ==
  \A k \in u.deleted :
     u.data[k] = Context!Undefined /\ u.memory[k] = Context!Undefined /\ d[k] = Context!Undefined

ContextInv == ui \in ContextUi /\ db \in Stores /\ Nowhere(ui, db) /\ calls = {}

(* The index is no key, and what is sensitive is one.                        *)
LEMMA KeysAreKeys == Context!Index \notin Keys /\ Sensitive \subseteq Keys
BY OtherAssumptions DEF Context!KeysAssumption, Context!Index

(* Any key may have no value.                                                *)
LEMMA UndefinedIsACell == \A k : Context!Undefined \in Cells(k)
<1> SUFFICES ASSUME NEW k PROVE Context!Undefined \in Cells(k)
  OBVIOUS
<1>1. CASE k = Context!Index
  <2>1. Cells(k) = (SUBSET Keys) \cup {Context!Undefined}
    BY <1>1 DEF Cells
  <2> QED BY <2>1, Zenon
<1>2. CASE k # Context!Index /\ k \in Sensitive
  <2>1. Cells(k) = {Context!Undefined}
    BY <1>2 DEF Cells
  <2> QED BY <2>1, Zenon
<1>3. CASE k # Context!Index /\ k \notin Sensitive
  <2>1. Cells(k) = Values \cup {Context!Undefined}
    BY <1>3 DEF Cells
  <2> QED BY <2>1, Zenon
<1> QED BY <1>1, <1>2, <1>3

(* Nothing is kept at first.                                                 *)
LEMMA NothingIsKept ==
  Context!Nothing \in Stores /\ \A k \in AllKeys : Context!Nothing[k] = Context!Undefined
<1>1. \A k \in AllKeys : Context!Undefined \in Cells(k)
  BY UndefinedIsACell
<1>2. Context!Nothing \in [AllKeys -> UNION {Cells(k) : k \in AllKeys}]
  BY <1>1 DEF Context!Nothing, AllKeys
<1>3. \A k \in AllKeys : Context!Nothing[k] = Context!Undefined
  BY DEF Context!Nothing, AllKeys
<1> QED BY <1>1, <1>2, <1>3 DEF Stores

(* What is written is what the key may have.                                 *)
LEMMA WrittenIsKept ==
  ASSUME NEW f \in Stores, NEW keys \in SUBSET AllKeys, NEW values,
         \A k \in keys : values[k] \in Cells(k)
  PROVE  /\ Context!Written(f, keys, values) \in Stores
         /\ \A k \in AllKeys : Context!Written(f, keys, values)[k] =
                                 IF k \in keys THEN values[k] ELSE f[k]
<1>1. DOMAIN f = AllKeys /\ \A k \in AllKeys : f[k] \in Cells(k)
  BY DEF Stores
<1>2. Context!Written(f, keys, values) = [k \in AllKeys |-> IF k \in keys THEN values[k] ELSE f[k]]
  BY <1>1 DEF Context!Written
<1>3. \A k \in AllKeys : (IF k \in keys THEN values[k] ELSE f[k]) \in Cells(k)
  BY <1>1
<1>4. \A k \in AllKeys : Context!Written(f, keys, values)[k] = IF k \in keys THEN values[k] ELSE f[k]
  BY <1>2
<1>5. Context!Written(f, keys, values) \in [AllKeys -> UNION {Cells(k) : k \in AllKeys}]
  BY <1>2, <1>3
<1> QED BY <1>3, <1>4, <1>5 DEF Stores

(* A write goes to the storage or to the memory, and leaves the other keys   *)
(* alone; one of Undefined always reaches the storage.                       *)
LEMMA SafeSetAllKeeps ==
  ASSUME NEW s, s.ui \in ContextUi, s.db \in Stores, NEW keys \in SUBSET AllKeys, NEW values,
         \A k \in keys : values[k] \in Cells(k),
         NEW t \in Context!SafeSetAll(s, keys, values)
  PROVE  /\ t.ui \in ContextUi /\ t.db \in Stores
         /\ t.ui.data = s.ui.data /\ t.ui.deleted = s.ui.deleted
         /\ \A k \in AllKeys \ keys : t.ui.memory[k] = s.ui.memory[k] /\ t.db[k] = s.db[k]
         /\ \A k \in keys : values[k] = Context!Undefined => t.db[k] = Context!Undefined
<1>1. PICK full \in SUBSET {k \in keys : Context!IsQuotaError(s, k, values[k])} :
         t = [ui |-> [s.ui EXCEPT !.memory = Context!Written(@, full, values),
                                  !.quotaExceeded = @ \/ full # {}],
              db |-> Context!Written(s.db, keys \ full, values)]
  BY DEF Context!SafeSetAll
<1>2. s.ui.memory \in Stores /\ s.ui.quotaExceeded \in BOOLEAN
  BY DEF ContextUi
<1>3. PICK memory \in Stores : memory = Context!Written(s.ui.memory, full, values)
  BY <1>1, <1>2, WrittenIsKept
<1>4. \A k \in AllKeys \ keys : memory[k] = s.ui.memory[k]
  BY <1>1, <1>2, <1>3, WrittenIsKept
<1>5. PICK flag \in BOOLEAN : flag = (s.ui.quotaExceeded \/ full # {})
  OBVIOUS
<1>6. t.ui = [s.ui EXCEPT !.memory = memory, !.quotaExceeded = flag]
  BY <1>1, <1>3, <1>5
<1>7. /\ t.ui \in ContextUi /\ t.ui.memory = memory
      /\ t.ui.data = s.ui.data /\ t.ui.deleted = s.ui.deleted
  BY <1>6 DEF ContextUi
<1>8. t.db = Context!Written(s.db, keys \ full, values)
  BY <1>1
<1>9. /\ t.db \in Stores
      /\ \A k \in AllKeys : t.db[k] = IF k \in keys \ full THEN values[k] ELSE s.db[k]
  BY <1>8, WrittenIsKept
<1>10. \A k \in keys : values[k] = Context!Undefined => k \notin full
  BY <1>1 DEF Context!IsQuotaError
<1> QED BY <1>4, <1>7, <1>9, <1>10

(* A write of one key.                                                       *)
LEMMA SafeSetKeeps ==
  ASSUME NEW s, s.ui \in ContextUi, s.db \in Stores, NEW key \in AllKeys, NEW value \in Cells(key),
         NEW t \in Context!SafeSet(s, key, value)
  PROVE  /\ t.ui \in ContextUi /\ t.db \in Stores
         /\ t.ui.data = s.ui.data /\ t.ui.deleted = s.ui.deleted
         /\ \A k \in AllKeys \ {key} : t.ui.memory[k] = s.ui.memory[k] /\ t.db[k] = s.db[k]
         /\ value = Context!Undefined => t.db[key] = Context!Undefined
<1> DEFINE values == [k \in {key} |-> value]
<1>1. values[key] = value
  OBVIOUS
<1>2. t \in Context!SafeSetAll(s, {key}, values)
  BY DEF Context!SafeSet
<1> DEFINE one == {key}
<1>3. one \in SUBSET AllKeys /\ \A k \in one : values[k] \in Cells(k)
  OBVIOUS
<1>4. t \in Context!SafeSetAll(s, one, values)
  BY <1>2
<1> HIDE DEF values, one
<1>5. /\ t.ui \in ContextUi /\ t.db \in Stores
      /\ t.ui.data = s.ui.data /\ t.ui.deleted = s.ui.deleted
      /\ \A k \in AllKeys \ one : t.ui.memory[k] = s.ui.memory[k] /\ t.db[k] = s.db[k]
      /\ \A k \in one : values[k] = Context!Undefined => t.db[k] = Context!Undefined
  BY <1>3, <1>4, SafeSetAllKeeps
<1> QED BY <1>1, <1>5 DEF one

(* A state that is written is a pair.                                        *)
LEMMA SafeSetIsPair ==
  ASSUME NEW s, NEW key, NEW value, NEW t \in Context!SafeSet(s, key, value)
  PROVE  t = [ui |-> t.ui, db |-> t.db]
<1> DEFINE values == [k \in {key} |-> value]
<1>1. t \in Context!SafeSetAll(s, {key}, values)
  BY DEF Context!SafeSet
<1> HIDE DEF values
<1>2. PICK full : t = [ui |-> [s.ui EXCEPT !.memory = Context!Written(@, full, values),
                                           !.quotaExceeded = @ \/ full # {}],
                       db |-> Context!Written(s.db, {key} \ full, values)]
  BY <1>1 DEF Context!SafeSetAll
<1> QED BY <1>2

(* The index of the keys is a set of keys.                                   *)
LEMMA IndexIsOfKeys ==
  ASSUME NEW s, s.ui \in ContextUi, s.db \in Stores
  PROVE  Context!KeysIndex(s) \in SUBSET Keys
<1>1. /\ s.db[Context!Index] \in (SUBSET Keys) \cup {Context!Undefined}
      /\ s.ui.memory[Context!Index] \in (SUBSET Keys) \cup {Context!Undefined}
  BY DEF ContextUi, Stores, Cells, AllKeys
<1> DEFINE got == Context!SafeGet(s, Context!Index)
<1>2. got \in (SUBSET Keys) \cup {Context!Undefined}
  BY <1>1 DEF Context!SafeGet
<1>3. Context!KeysIndex(s) = IF got = Context!Undefined THEN {} ELSE got
  BY DEF Context!KeysIndex
<1> HIDE DEF got
<1>4. CASE got = Context!Undefined
  <2>1. Context!KeysIndex(s) = {}
    BY <1>3, <1>4, Zenon
  <2> QED BY <2>1
<1>5. CASE got # Context!Undefined
  <2>1. Context!KeysIndex(s) = got
    BY <1>3, <1>5, Zenon
  <2>2. got \in SUBSET Keys
    BY <1>2, <1>5, Zenon
  <2> QED BY <2>1, <2>2, Zenon
<1> QED BY <1>4, <1>5

(* The start.                                                                *)
LEMMA ContextInvInit == Context!Init => ContextInv
BY NothingIsKept DEF Context!Init, ContextInv, ContextUi, Nowhere

(* A merge sets only what is not sensitive, and what is set is not deleted.  *)
LEMMA MergeKeeps ==
  ASSUME ContextInv, Context!Merge
  PROVE  ContextInv'
<1>1. PICK keys \in SUBSET Keys, values \in [Keys -> Values], persist \in BOOLEAN :
        LET given == Context!Filtered(keys)
            s == Context!InData(given, values) IN
        \/ Context!Becomes(s)
        \/ \E t \in Context!SafeSetAll(s, given, values) :
              \E u \in Context!SafeSet(t, Context!Index, Context!KeysIndex(s) \cup given) :
                 Context!Becomes(u)
  BY DEF Context!Merge
<1> DEFINE given == Context!Filtered(keys)
           s == Context!InData(given, values)
<1>2. /\ given \in SUBSET AllKeys /\ given \in SUBSET Keys
      /\ \A k \in given : values[k] \in Cells(k) /\ k # Context!Index
  BY KeysAreKeys DEF Context!Filtered, AllKeys, Cells
<1>3. ui \in ContextUi /\ db \in Stores /\ ui.data \in Stores /\ ui.deleted \in SUBSET Keys
      /\ calls = {} /\ Nowhere(ui, db)
  BY DEF ContextInv, ContextUi
<1>4. \/ Context!Becomes(s)
      \/ \E t \in Context!SafeSetAll(s, given, values) :
            \E u \in Context!SafeSet(t, Context!Index, Context!KeysIndex(s) \cup given) :
               Context!Becomes(u)
  BY <1>1
<1>5. /\ s.ui \in ContextUi /\ s.db = db /\ s.ui.deleted = ui.deleted \ given
      /\ s.ui.memory = ui.memory
      /\ \A k \in AllKeys \ given : s.ui.data[k] = ui.data[k]
  <2> HIDE DEF given
  <2>1. PICK data \in Stores : data = Context!Written(ui.data, given, values)
    BY <1>2, <1>3, WrittenIsKept
  <2>2. \A k \in AllKeys \ given : data[k] = ui.data[k]
    BY <1>2, <1>3, <2>1, WrittenIsKept
  <2>3. PICK deleted \in SUBSET Keys : deleted = ui.deleted \ given
    BY <1>3
  <2>4. s = [ui |-> [ui EXCEPT !.data = data, !.deleted = deleted], db |-> db]
    BY <2>1, <2>3 DEF Context!InData
  <2> DEFINE u == [ui EXCEPT !.data = data, !.deleted = deleted]
  <2>5. u \in ContextUi /\ u.data = data /\ u.deleted = deleted /\ u.memory = ui.memory
    BY <1>3 DEF ContextUi
  <2>6. s.ui = u /\ s.db = db
    BY <2>4
  <2> HIDE DEF u, s
  <2> QED BY <2>2, <2>3, <2>5, <2>6
<1> HIDE DEF given, s
<1>6. Nowhere(s.ui, s.db)
  BY <1>3, <1>5 DEF Nowhere, AllKeys
<1>7. CASE Context!Becomes(s)
  BY <1>3, <1>5, <1>6, <1>7 DEF Context!Becomes, ContextInv
<1>8. ASSUME NEW t \in Context!SafeSetAll(s, given, values),
             NEW u \in Context!SafeSet(t, Context!Index, Context!KeysIndex(s) \cup given),
             Context!Becomes(u)
      PROVE  ContextInv'
  <2>1. /\ t.ui \in ContextUi /\ t.db \in Stores
        /\ t.ui.data = s.ui.data /\ t.ui.deleted = s.ui.deleted
        /\ \A k \in AllKeys \ given : t.ui.memory[k] = s.ui.memory[k] /\ t.db[k] = s.db[k]
    BY <1>2, <1>3, <1>5, SafeSetAllKeeps
  <2>2. Context!Index \in AllKeys /\ Context!KeysIndex(s) \cup given \in Cells(Context!Index)
    BY <1>2, <1>3, <1>5, IndexIsOfKeys DEF AllKeys, Cells
  <2>3. /\ u.ui \in ContextUi /\ u.db \in Stores
        /\ u.ui.data = t.ui.data /\ u.ui.deleted = t.ui.deleted
        /\ \A k \in AllKeys \ {Context!Index} : u.ui.memory[k] = t.ui.memory[k] /\ u.db[k] = t.db[k]
    BY <2>1, <2>2, SafeSetKeeps
  <2>4. s.ui.deleted \subseteq Keys /\ s.ui.deleted \cap given = {}
    BY <1>3, <1>5
  <2>5. Nowhere(u.ui, u.db)
    BY <1>6, <2>1, <2>3, <2>4, KeysAreKeys DEF Nowhere, AllKeys
  <2> QED BY <1>3, <1>8, <2>3, <2>5 DEF Context!Becomes, ContextInv
<1> QED BY <1>4, <1>7, <1>8

(* A deletion reaches the data, the storage and the memory.                  *)
LEMMA DelKeeps ==
  ASSUME ContextInv, Context!Del
  PROVE  ContextInv'
<1>1. PICK key \in Keys :
        LET s == [ui |-> [ui EXCEPT !.data[key] = Context!Undefined, !.deleted = @ \cup {key}], db |-> db]
        IN  \E t \in Context!SafeSet(s, key, Context!Undefined) :
              \E u \in Context!SafeSet(t, Context!Index, Context!KeysIndex(s) \ {key}) :
                Context!Becomes([u EXCEPT !.ui.memory = Context!Forget(@, key)])
  BY DEF Context!Del
<1> DEFINE s == [ui |-> [ui EXCEPT !.data[key] = Context!Undefined, !.deleted = @ \cup {key}], db |-> db]
<1>2. PICK t \in Context!SafeSet(s, key, Context!Undefined) :
        \E u \in Context!SafeSet(t, Context!Index, Context!KeysIndex(s) \ {key}) :
          Context!Becomes([u EXCEPT !.ui.memory = Context!Forget(@, key)])
  BY <1>1
<1>3. PICK u \in Context!SafeSet(t, Context!Index, Context!KeysIndex(s) \ {key}) :
          Context!Becomes([u EXCEPT !.ui.memory = Context!Forget(@, key)])
  BY <1>2
<1>4. ui \in ContextUi /\ db \in Stores /\ ui.data \in Stores /\ ui.deleted \in SUBSET Keys
      /\ calls = {} /\ Nowhere(ui, db)
  BY DEF ContextInv, ContextUi
<1>5. key \in AllKeys /\ Context!Undefined \in Cells(key) /\ key # Context!Index
  BY KeysAreKeys DEF AllKeys, Cells
<1>a. ASSUME NEW f \in Stores
      PROVE  /\ [f EXCEPT ![key] = Context!Undefined] \in Stores
             /\ \A k \in AllKeys : [f EXCEPT ![key] = Context!Undefined][k] =
                                      IF k = key THEN Context!Undefined ELSE f[k]
  BY <1>5 DEF Stores
<1>6. /\ s.ui \in ContextUi /\ s.db = db /\ s.ui.deleted = ui.deleted \cup {key}
      /\ s.ui.memory = ui.memory
      /\ \A k \in AllKeys : s.ui.data[k] = IF k = key THEN Context!Undefined ELSE ui.data[k]
  <2>1. PICK data \in Stores : data = [ui.data EXCEPT ![key] = Context!Undefined]
    BY <1>4, <1>a
  <2>2. PICK deleted \in SUBSET Keys : deleted = ui.deleted \cup {key}
    BY <1>4
  <2>3. [ui EXCEPT !.data[key] = Context!Undefined, !.deleted = @ \cup {key}] =
           [ui EXCEPT !.data = data, !.deleted = deleted]
    BY <1>4, <2>1, <2>2 DEF ContextUi
  <2>4. s = [ui |-> [ui EXCEPT !.data = data, !.deleted = deleted], db |-> db]
    BY <2>3
  <2> QED BY <1>4, <1>a, <2>1, <2>2, <2>4 DEF ContextUi
<1> HIDE DEF s
<1>7. /\ t.ui \in ContextUi /\ t.db \in Stores
      /\ t.ui.data = s.ui.data /\ t.ui.deleted = s.ui.deleted
      /\ \A k \in AllKeys \ {key} : t.ui.memory[k] = s.ui.memory[k] /\ t.db[k] = s.db[k]
      /\ t.db[key] = Context!Undefined
  BY <1>4, <1>5, <1>6, SafeSetKeeps
<1>8. Context!Index \in AllKeys /\ Context!KeysIndex(s) \ {key} \in Cells(Context!Index)
  BY <1>4, <1>6, IndexIsOfKeys DEF AllKeys, Cells
<1>9. /\ u.ui \in ContextUi /\ u.db \in Stores
      /\ u.ui.data = t.ui.data /\ u.ui.deleted = t.ui.deleted
      /\ \A k \in AllKeys \ {Context!Index} : u.ui.memory[k] = t.ui.memory[k] /\ u.db[k] = t.db[k]
  BY <1>7, <1>8, SafeSetKeeps
<1>10. u.ui.memory \in Stores
  BY <1>9 DEF ContextUi
<1>11. PICK memory \in Stores : memory = [u.ui.memory EXCEPT ![key] = Context!Undefined]
  BY <1>10, <1>a
<1>12. /\ memory[key] = Context!Undefined
       /\ \A k \in AllKeys \ {key} : memory[k] = u.ui.memory[k]
  BY <1>5, <1>10, <1>11, <1>a
<1>13. ui' = [u.ui EXCEPT !.memory = memory] /\ db' = u.db /\ calls' = calls
  <2> DEFINE v == [u EXCEPT !.ui.memory = Context!Forget(@, key)]
  <2>1. ui' = v.ui /\ db' = v.db /\ calls' = calls
    BY <1>3 DEF Context!Becomes
  <2>2. u = [ui |-> u.ui, db |-> u.db]
    BY SafeSetIsPair
  <2>3. v.ui = [u.ui EXCEPT !.memory = memory] /\ v.db = u.db
    BY <1>11, <2>2 DEF Context!Forget
  <2> QED BY <2>1, <2>3
<1>14. /\ ui' \in ContextUi /\ ui'.memory = memory /\ ui'.data = u.ui.data
       /\ ui'.deleted = u.ui.deleted
  BY <1>9, <1>13 DEF ContextUi
<1>15. Nowhere(ui', db')
  <2> SUFFICES ASSUME NEW k \in ui'.deleted
               PROVE  /\ ui'.data[k] = Context!Undefined /\ ui'.memory[k] = Context!Undefined
                      /\ db'[k] = Context!Undefined
    BY DEF Nowhere
  <2>1. k \in ui.deleted \cup {key} /\ k \in Keys /\ k \in AllKeys \ {Context!Index}
    BY <1>4, <1>6, <1>7, <1>9, <1>14, KeysAreKeys DEF AllKeys
  <2>2. CASE k = key
    BY <1>6, <1>7, <1>9, <1>12, <1>13, <1>14, <2>1, <2>2
  <2>3. CASE k # key
    <3>1. ui.data[k] = Context!Undefined /\ ui.memory[k] = Context!Undefined /\ db[k] = Context!Undefined
      BY <1>4, <2>1, <2>3 DEF Nowhere
    <3> QED BY <1>6, <1>7, <1>9, <1>12, <1>13, <1>14, <2>1, <2>3, <3>1
  <2> QED BY <2>2, <2>3
<1> QED BY <1>4, <1>9, <1>13, <1>14, <1>15 DEF ContextInv

(* A reset takes what the index names from the storage; a page load the rest. *)
LEMMA ResetKeeps ==
  ASSUME ContextInv, Context!Reset \/ Context!PageLoad
  PROVE  ContextInv'
<1>1. ui \in ContextUi /\ db \in Stores /\ ui.deleted \in SUBSET Keys /\ calls = {} /\ Nowhere(ui, db)
  BY DEF ContextInv, ContextUi
<1> DEFINE none == Context!Nothing
<1>2. none \in Stores /\ \A k \in AllKeys : none[k] = Context!Undefined
  BY NothingIsKept
<1>3. CASE Context!PageLoad
  <2>1. /\ ui' = [ui EXCEPT !.data = none, !.memory = none, !.quotaExceeded = FALSE]
        /\ UNCHANGED <<calls, db>>
    BY <1>3 DEF Context!PageLoad
  <2> HIDE DEF none
  <2>2. /\ ui' \in ContextUi /\ ui'.data = none /\ ui'.memory = none /\ ui'.deleted = ui.deleted
    BY <1>1, <1>2, <2>1 DEF ContextUi
  <2> QED BY <1>1, <1>2, <2>1, <2>2 DEF ContextInv, Nowhere, AllKeys
<1>4. CASE Context!Reset
  <2> DEFINE s == [ui |-> ui, db |-> db]
  <2>1. PICK t \in Context!SafeSetAll(s, Context!KeysIndex(s), none) :
          \E u \in Context!SafeSet(t, Context!Index, {}) :
            Context!Becomes([u EXCEPT !.ui.memory = none, !.ui.data = none, !.ui.quotaExceeded = FALSE])
    BY <1>4 DEF Context!Reset
  <2>2. PICK u \in Context!SafeSet(t, Context!Index, {}) :
          Context!Becomes([u EXCEPT !.ui.memory = none, !.ui.data = none, !.ui.quotaExceeded = FALSE])
    BY <2>1
  <2>3. s.ui = ui /\ s.db = db
    OBVIOUS
  <2> HIDE DEF none, s
  <2>4. Context!KeysIndex(s) \in SUBSET Keys /\ Context!KeysIndex(s) \in SUBSET AllKeys
    BY <1>1, <2>3, IndexIsOfKeys DEF AllKeys
  <2>5. \A k \in AllKeys : none[k] \in Cells(k)
    BY <1>2, UndefinedIsACell
  <2>6. /\ t.ui \in ContextUi /\ t.db \in Stores /\ t.ui.deleted = ui.deleted
        /\ \A k \in AllKeys \ Context!KeysIndex(s) : t.db[k] = db[k]
        /\ \A k \in Context!KeysIndex(s) : t.db[k] = Context!Undefined
    BY <1>1, <1>2, <2>3, <2>4, <2>5, SafeSetAllKeeps
  <2>7. Context!Index \in AllKeys /\ {} \in Cells(Context!Index)
    BY DEF AllKeys, Cells
  <2>8. /\ u.ui \in ContextUi /\ u.db \in Stores /\ u.ui.deleted = t.ui.deleted
        /\ \A k \in AllKeys \ {Context!Index} : u.db[k] = t.db[k]
    BY <2>6, <2>7, SafeSetKeeps
  <2>9. /\ ui' = [u.ui EXCEPT !.memory = none, !.data = none, !.quotaExceeded = FALSE]
        /\ db' = u.db /\ calls' = calls
    <3> DEFINE v == [u EXCEPT !.ui.memory = none, !.ui.data = none, !.ui.quotaExceeded = FALSE]
    <3>1. ui' = v.ui /\ db' = v.db /\ calls' = calls
      BY <2>2 DEF Context!Becomes
    <3>2. u = [ui |-> u.ui, db |-> u.db]
      BY SafeSetIsPair
    <3>3. v.ui = [u.ui EXCEPT !.memory = none, !.data = none, !.quotaExceeded = FALSE] /\ v.db = u.db
      BY <3>2
    <3> QED BY <3>1, <3>3
  <2>10. ui' \in ContextUi /\ ui'.memory = none /\ ui'.data = none /\ ui'.deleted = u.ui.deleted
    BY <1>2, <2>8, <2>9 DEF ContextUi
  <2>11. Nowhere(ui', db')
    BY <1>1, <1>2, <2>6, <2>8, <2>9, <2>10, KeysAreKeys DEF Nowhere, AllKeys
  <2> QED BY <1>1, <2>8, <2>9, <2>10, <2>11 DEF ContextInv
<1> QED BY <1>3, <1>4

(* Every step of the context.                                                *)
LEMMA ContextInvStep ==
  ASSUME ContextInv, Context!Next
  PROVE  ContextInv'
BY MergeKeeps, DelKeeps, ResetKeeps DEF Context!Next

(* What was deleted is not read and not restored.                            *)
LEMMA ContextKept ==
  ASSUME ContextInv
  PROVE  Context!TypeOK /\ Context!DeletedStaysDeleted
<1> DEFINE s == [ui |-> ui, db |-> db]
<1>1. ui \in ContextUi /\ db \in Stores /\ Nowhere(ui, db) /\ s.ui = ui /\ s.db = db
  BY DEF ContextInv
<1>2. Context!KeysIndex(s) \in SUBSET Keys
  BY <1>1, IndexIsOfKeys
<1>3. \A k \in Keys : /\ k \in AllKeys /\ k # Context!Index
                      /\ ui.data[k] \in Cells(k) /\ ui.memory[k] \in Cells(k) /\ db[k] \in Cells(k)
  BY <1>1, KeysAreKeys DEF ContextUi, Stores, AllKeys
<1>4. \A k \in Keys : {ui.data[k], ui.memory[k], db[k]} \subseteq Values \cup {Context!Undefined}
  BY <1>3 DEF Cells
<1>5. \A k \in Sensitive : Context!Get(k) = Context!Undefined
  BY <1>1, <1>3, KeysAreKeys DEF Cells, Context!Get, Context!SafeGet
<1>6. Context!DeletedStaysDeleted
  <2> SUFFICES ASSUME NEW k \in ui.deleted
               PROVE  Context!Get(k) = Context!Undefined /\ k \notin DOMAIN Context!Restore
    BY DEF Context!DeletedStaysDeleted
  <2>1. ui.data[k] = Context!Undefined /\ ui.memory[k] = Context!Undefined /\ db[k] = Context!Undefined
    BY <1>1 DEF Nowhere
  <2>2. Context!Get(k) = Context!Undefined /\ Context!GetFromCache(k) = Context!Undefined
    BY <2>1 DEF Context!Get, Context!GetFromCache, Context!SafeGet
  <2>3. DOMAIN Context!Restore = {n \in Context!KeysIndex(s) : Context!GetFromCache(n) # Context!Undefined}
    BY DEF Context!Restore
  <2> QED BY <2>2, <2>3
<1> QED BY <1>2, <1>4, <1>5, <1>6 DEF Context!TypeOK

-----------------------------------------------------------------------------
(* Signing in: the records of the tab, its requests and the consent page.    *)
Primary ==
  {"auth/login", "authenticate", "auth/create-verification-session",
   "auth/validate-verification-session"}
Others ==
  {"auth/verify-email", "two-fa/validate", "two-fa/verify", "authenticate-2fa",
   "two-fa/resend", "two-fa/invalidate", "auth/oauth/exchange", "auth/oauth/link/complete"}
CallRecords ==
  [to : Primary \cup Others, who : Somebody, identity : Somebody, clientToken : Somebody]
StoreRecords == [identity : Somebody, email : Somebody, session : Somebody]
FormRecords == [identity : Somebody, loading : BOOLEAN]
TwoFaRecords == [identity : Somebody, clientToken : Somebody]
UrlRecords == [token : Somebody, fragment : Nat]
SavedRecords == [params : Requests, fresh : BOOLEAN]
ConsentRecords ==
  [params : Requests \cup {None},
   details : {None} \cup [needed : BOOLEAN, organizations : SUBSET Organizations],
   chosen : Organizations \cup {None}, error : BOOLEAN,
   asking : SUBSET {"load", "approve", "deny"}, invalidating : BOOLEAN]

TabTyped ==
  /\ page \in Pages /\ session \in Somebody /\ email \in Somebody /\ entering \in Somebody
  /\ store \in StoreRecords /\ form \in FormRecords /\ twoFa \in TwoFaRecords
  /\ url \in UrlRecords /\ calls \subseteq CallRecords

(* A code that is in the address bar was never sent, and no code was twice.  *)
CodesInOrder ==
  /\ handed \in Nat /\ handed <= MaxHandshakes /\ url.fragment <= handed
  /\ redeemed \in [1..MaxHandshakes -> Nat]
  /\ \A c \in 1..MaxHandshakes :
        redeemed[c] <= 1 /\ (c > handed \/ c = url.fragment => redeemed[c] = 0)
  /\ page \in {"provider", "provider-link"} => handed < MaxHandshakes

(* One request at a time leads to the verification, and it is for the e-mail *)
(* in the store, if there is one.                                            *)
RequestsKnow(cs, st) ==
  /\ \A c, d \in cs : c.to \in Primary /\ d.to \in Primary => c = d
  /\ \A c \in cs : c.to = "auth/validate-verification-session" /\ c.identity = c.who
                     => st.email \in {c.who, None}

PagesKnow(pg, tf, u, mail) ==
  /\ pg = "two-fa" => tf.identity = u.token
  /\ pg = "verification" => mail \in {u.token, None}

(* An app's request is in the address bar of the consent page, or kept; both *)
(* only while the session ends, and then it is the same one.                 *)
RequestKept(pg, sv, cn) ==
  /\ cn \in ConsentRecords /\ sv \in SavedRecords \cup {None}
  /\ pg = "consent" => cn.params \in Requests
  /\ pg = "console" \/ (pg = "consent" /\ ~cn.invalidating) => sv = None
  /\ pg = "consent" /\ sv # None => sv.params = cn.params

(* Nobody is signing in while the consent page is shown.                     *)
ConsentIsQuiet == page = "consent" => calls = {} /\ entering = None

SignInInv ==
  /\ TabTyped /\ CodesInOrder /\ RequestsKnow(calls, store)
  /\ PagesKnow(page, twoFa, url, email) /\ RequestKept(page, saved, consent)
  /\ ConsentIsQuiet

(* None of the tokens is a person's.                                         *)
LEMMA NoneIsNobody ==
  /\ None \notin Accounts /\ MaxHandshakes \in Nat /\ None \in Somebody
  /\ None \notin Requests /\ None \notin SavedRecords
BY SignInAssumptions DEF SignInAssumption, ConsentAssumption, Somebody, SavedRecords

(* What is empty has its type.                                               *)
LEMMA EmptyIsTyped ==
  /\ EmptyStore \in StoreRecords /\ EmptyStore.email = None
  /\ EmptyForm \in FormRecords /\ EmptyTwoFa \in TwoFaRecords
  /\ EmptyConsent \in ConsentRecords
<1>1. /\ EmptyStore \in StoreRecords /\ EmptyStore.email = None
      /\ EmptyForm \in FormRecords /\ EmptyTwoFa \in TwoFaRecords
  BY NoneIsNobody DEF EmptyStore, EmptyForm, EmptyTwoFa, StoreRecords, FormRecords, TwoFaRecords
<1>2. EmptyConsent \in ConsentRecords
  BY DEF EmptyConsent, ConsentRecords
<1> QED BY <1>1, <1>2

(* A request has its type and is for the one it is made for.                 *)
LEMMA CallTyped ==
  ASSUME NEW to \in Primary \cup Others, NEW who \in Somebody, NEW c, c = Call(to, who)
  PROVE  c \in CallRecords /\ c.to = to /\ c.who = who /\ c.identity = who
BY NoneIsNobody DEF Call, CallRecords

(* The same for another identity.                                            *)
LEMMA CallForTyped ==
  ASSUME NEW to \in Primary \cup Others, NEW who \in Somebody, NEW identity \in Somebody,
         NEW c, c = [Call(to, who) EXCEPT !.identity = identity]
  PROVE  c \in CallRecords /\ c.to = to /\ c.who = who /\ c.identity = identity
BY NoneIsNobody DEF Call, CallRecords

(* The start.                                                                *)
LEMMA SignInInvInit == Init => SignInInv
<1> SUFFICES ASSUME Init PROVE SignInInv
  OBVIOUS
<1>1. TabTyped
  <2>1. url \in UrlRecords
    BY NoneIsNobody DEF Init, SignInInit, UrlRecords
  <2>2. page \in Pages
    BY DEF Init, SignInInit, Pages
  <2> QED BY <2>1, <2>2, NoneIsNobody, EmptyIsTyped DEF Init, SignInInit, TabTyped
<1>2. CodesInOrder
  BY NoneIsNobody DEF Init, SignInInit, CodesInOrder
<1>3. RequestsKnow(calls, store) /\ PagesKnow(page, twoFa, url, email)
  BY DEF Init, SignInInit, RequestsKnow, PagesKnow
<1>4. RequestKept(page, saved, consent)
  BY EmptyIsTyped DEF Init, SignInInit, RequestKept
<1>5. ConsentIsQuiet
  BY DEF Init, SignInInit, ConsentIsQuiet
<1> QED BY <1>1, <1>2, <1>3, <1>4, <1>5 DEF SignInInv

-----------------------------------------------------------------------------
(* What the form says of a failure.                                          *)
LEMMA FailureTyped ==
  ASSUME TabTyped, NEW c \in calls, HandleLoginError(c)
  PROVE  TabTyped'
<1>0. c \in CallRecords /\ c.who \in Somebody
  BY DEF TabTyped, CallRecords
<1>1. CASE SendUserForEmailVerification(c)
  <2> DEFINE new == Call("auth/create-verification-session", c.who)
  <2>1. new \in CallRecords
    BY <1>0, CallTyped DEF Primary
  <2> HIDE DEF new
  <2>2. calls' = (calls \ {c}) \cup {new}
    BY <1>1 DEF SendUserForEmailVerification, Replaced, new
  <2> QED BY <1>1, <2>1, <2>2 DEF SendUserForEmailVerification, TabTyped
<1>2. CASE SendUserForPasswordReset(c) \/ Failure(c)
  BY <1>2, EmptyIsTyped
     DEF SendUserForPasswordReset, Failure, Settled, ResetForm, TabTyped, Pages
<1> QED BY <1>1, <1>2 DEF HandleLoginError

(* A session that begins.                                                    *)
LEMMA SignedInTyped ==
  ASSUME TabTyped, NEW a \in Somebody, SignedIn(a)
  PROVE  session' \in Somebody /\ store' \in StoreRecords /\ store'.email = None /\ page' = "to-console"
<1>1. store' = [EmptyStore EXCEPT !.session = a]
  BY DEF SignedIn
<1>2. [EmptyStore EXCEPT !.session = a] \in StoreRecords /\ [EmptyStore EXCEPT !.session = a].email = None
  BY EmptyIsTyped DEF StoreRecords
<1> QED BY <1>1, <1>2 DEF SignedIn

(* Answers to the login form and to the verification.                        *)
LEMMA LoginTyped ==
  ASSUME TabTyped, LoginAnswered \/ Authenticated \/ VerificationCreated \/ EnterVerification \/ EmailVerified
  PROVE  TabTyped'
<1>1. CASE LoginAnswered
  <2>1. PICK c \in calls :
          \/ LoginChallenged(c)
          \/ /\ Replaced(c, Call("authenticate", c.who))
             /\ UNCHANGED <<page, url, store, session, form, twoFa, email, entering, handed, redeemed>>
          \/ HandleLoginError(c)
    BY <1>1 DEF LoginAnswered
  <2>2. c.who \in Somebody
    BY DEF TabTyped, CallRecords
  <2>3. CASE LoginChallenged(c)
    <3> DEFINE new == [EmptyStore EXCEPT !.identity = c.who]
    <3>1. new \in StoreRecords
      BY <2>2, EmptyIsTyped DEF StoreRecords
    <3> HIDE DEF new
    <3>2. store' = new
      BY <2>3 DEF LoginChallenged, new
    <3> QED BY <2>2, <2>3, <3>1, <3>2 DEF LoginChallenged, Settled, TabTyped
  <2>4. CASE /\ Replaced(c, Call("authenticate", c.who))
             /\ UNCHANGED <<page, url, store, session, form, twoFa, email, entering, handed, redeemed>>
    <3> DEFINE new == Call("authenticate", c.who)
    <3>1. new \in CallRecords
      BY <2>2, CallTyped DEF Primary
    <3> HIDE DEF new
    <3>2. calls' = (calls \ {c}) \cup {new}
      BY <2>4 DEF Replaced, new
    <3> QED BY <2>4, <3>1, <3>2 DEF TabTyped
  <2> QED BY <2>1, <2>3, <2>4, FailureTyped
<1>2. CASE Authenticated
  <2>1. PICK c \in calls :
          \/ /\ SignedIn(c.who) /\ Settled(c) /\ form' = ResetForm
             /\ UNCHANGED <<url, twoFa, email, entering, handed, redeemed>>
          \/ HandleLoginError(c)
    BY <1>2 DEF Authenticated
  <2>2. c.who \in Somebody
    BY DEF TabTyped, CallRecords
  <2>3. CASE /\ SignedIn(c.who) /\ Settled(c) /\ form' = ResetForm
             /\ UNCHANGED <<url, twoFa, email, entering, handed, redeemed>>
    <3>1. session' \in Somebody /\ store' \in StoreRecords /\ page' = "to-console"
      BY <2>2, <2>3, SignedInTyped
    <3> QED BY <2>3, <3>1, EmptyIsTyped DEF Settled, ResetForm, TabTyped, Pages
  <2> QED BY <2>1, <2>3, FailureTyped
<1>3. CASE VerificationCreated
  <2>1. PICK c \in calls :
          \/ /\ store' = [EmptyStore EXCEPT !.email = c.who]
             /\ Replaced(c, Call("auth/validate-verification-session", c.who))
             /\ UNCHANGED <<page, url, session, form, twoFa, email, entering, handed, redeemed>>
          \/ /\ Settled(c)
             /\ UNCHANGED <<page, url, store, session, form, twoFa, email, entering, handed, redeemed>>
    BY <1>3 DEF VerificationCreated
  <2>2. c.who \in Somebody
    BY DEF TabTyped, CallRecords
  <2>3. CASE /\ store' = [EmptyStore EXCEPT !.email = c.who]
             /\ Replaced(c, Call("auth/validate-verification-session", c.who))
             /\ UNCHANGED <<page, url, session, form, twoFa, email, entering, handed, redeemed>>
    <3> DEFINE new == Call("auth/validate-verification-session", c.who)
    <3>1. new \in CallRecords
      BY <2>2, CallTyped DEF Primary
    <3> HIDE DEF new
    <3>2. calls' = (calls \ {c}) \cup {new}
      BY <2>3 DEF Replaced, new
    <3>3. store' \in StoreRecords
      BY <2>2, <2>3, EmptyIsTyped DEF StoreRecords
    <3> QED BY <2>3, <3>1, <3>2, <3>3 DEF TabTyped
  <2> QED BY <2>1, <2>3 DEF Settled, TabTyped
<1>4. CASE EnterVerification
  <2>1. PICK c \in calls :
        /\ Settled(c)
        /\ \/ /\ page' = "verification" /\ url' = [url EXCEPT !.token = c.who]
              /\ email' = store.email /\ form' = ResetForm
           \/ page' \in {"login", "error"} /\ UNCHANGED <<url, email, form>>
        /\ UNCHANGED <<store, session, twoFa, entering, handed, redeemed>>
    BY <1>4 DEF EnterVerification
  <2>2. c.who \in Somebody /\ url \in UrlRecords /\ store.email \in Somebody
    BY DEF TabTyped, CallRecords, StoreRecords
  <2>3. [url EXCEPT !.token = c.who] \in UrlRecords
    BY <2>2 DEF UrlRecords
  <2> QED BY <2>1, <2>2, <2>3, EmptyIsTyped DEF Settled, ResetForm, TabTyped, Pages
<1>5. CASE EmailVerified
  <2>1. PICK c \in calls :
        /\ Settled(c)
        /\ \/ SignedIn(c.who)
           \/ page' \in {"login", page} /\ UNCHANGED <<session, store>>
        /\ UNCHANGED <<url, form, twoFa, email, entering, handed, redeemed>>
    BY <1>5 DEF EmailVerified
  <2>2. c.who \in Somebody
    BY DEF TabTyped, CallRecords
  <2> QED BY <2>1, <2>2, SignedInTyped DEF Settled, TabTyped, Pages
<1> QED BY <1>1, <1>2, <1>3, <1>4, <1>5

(* Answers to the second factor and to the exchange.                         *)
LEMMA SecondFactorTyped ==
  ASSUME TabTyped,
         \/ TwoFaValidated \/ CodeVerified \/ TwoFaAuthenticated \/ CodeResent
         \/ TwoFactorCancelled \/ ExchangeAnswered
  PROVE  TabTyped'
<1>1. CASE TwoFaValidated
  <2>1. PICK c \in calls :
        /\ Settled(c)
        /\ \/ /\ store' = [EmptyStore EXCEPT !.identity = c.identity]
              /\ page' = "two-fa" /\ url' = [url EXCEPT !.token = c.who]
              /\ twoFa' = SetupTwoFa(c.identity, c.who) /\ form' = ResetForm
           \/ page' = "login" /\ form' = ResetForm /\ UNCHANGED <<url, store, twoFa>>
        /\ UNCHANGED <<session, email, entering, handed, redeemed>>
    BY <1>1 DEF TwoFaValidated
  <2>2. c.who \in Somebody /\ c.identity \in Somebody /\ url \in UrlRecords
    BY DEF TabTyped, CallRecords
  <2>3. /\ [url EXCEPT !.token = c.who] \in UrlRecords
        /\ [EmptyStore EXCEPT !.identity = c.identity] \in StoreRecords
    BY <2>2, EmptyIsTyped DEF UrlRecords, StoreRecords
  <2>4. SetupTwoFa(c.identity, c.who) \in TwoFaRecords
    BY <2>2 DEF SetupTwoFa, TwoFaRecords
  <2> QED BY <2>1, <2>2, <2>3, <2>4, EmptyIsTyped DEF Settled, ResetForm, TabTyped, Pages
<1>2. CASE CodeVerified
  <2>1. PICK c \in calls :
        /\ \/ Replaced(c, Call("authenticate-2fa", c.identity)) /\ UNCHANGED page
           \/ Settled(c) /\ page' \in {page, "login"}
        /\ UNCHANGED <<url, store, session, form, twoFa, email, entering, handed, redeemed>>
    BY <1>2 DEF CodeVerified
  <2>2. c.identity \in Somebody
    BY DEF TabTyped, CallRecords
  <2>3. Call("authenticate-2fa", c.identity) \in CallRecords
    BY <2>2, CallTyped DEF Others
  <2> QED BY <2>1, <2>3 DEF Settled, Replaced, TabTyped, Pages
<1>3. CASE TwoFaAuthenticated
  <2>1. PICK c \in calls :
        /\ Settled(c) /\ (SignedIn(c.who) \/ UNCHANGED <<page, session, store>>)
        /\ UNCHANGED <<url, form, twoFa, email, entering, handed, redeemed>>
    BY <1>3 DEF TwoFaAuthenticated
  <2>2. c.who \in Somebody
    BY DEF TabTyped, CallRecords
  <2> QED BY <2>1, <2>2, SignedInTyped DEF Settled, TabTyped, Pages
<1>4. CASE CodeResent
  <2>1. PICK c \in calls :
        /\ Settled(c)
        /\ \/ /\ twoFa' = [twoFa EXCEPT !.clientToken = c.who]
              /\ store' = [EmptyStore EXCEPT !.identity = c.identity]
           \/ UNCHANGED <<twoFa, store>>
        /\ UNCHANGED <<page, url, session, form, email, entering, handed, redeemed>>
    BY <1>4 DEF CodeResent
  <2>2. c.who \in Somebody /\ c.identity \in Somebody /\ twoFa \in TwoFaRecords
    BY DEF TabTyped, CallRecords
  <2>3. /\ [twoFa EXCEPT !.clientToken = c.who] \in TwoFaRecords
        /\ [EmptyStore EXCEPT !.identity = c.identity] \in StoreRecords
    BY <2>2, EmptyIsTyped DEF TwoFaRecords, StoreRecords
  <2> QED BY <2>1, <2>3 DEF Settled, TabTyped
<1>5. CASE TwoFactorCancelled
  BY <1>5 DEF TwoFactorCancelled, Settled, TabTyped, Pages
<1>6. CASE ExchangeAnswered
  <2>1. PICK c \in calls :
        /\ Settled(c) /\ (Challenged \/ RegistrationRequired \/ TokenIssued \/ Fail \/ LinkCompleted)
        /\ UNCHANGED <<url, form, twoFa, email, handed, redeemed>>
    BY <1>6 DEF ExchangeAnswered
  <2>2. CASE TokenIssued
    <3>1. PICK a \in Accounts : SignedIn(a) /\ UNCHANGED entering
      BY <2>2 DEF TokenIssued
    <3>2. session' \in Somebody /\ store' \in StoreRecords /\ page' = "to-console"
      BY <3>1, SignedInTyped DEF Somebody
    <3> QED BY <2>1, <3>1, <3>2 DEF Settled, TabTyped, Pages
  <2>3. CASE Challenged \/ RegistrationRequired \/ Fail \/ LinkCompleted
    BY <2>1, <2>3
       DEF Challenged, RegistrationRequired, Fail, LinkCompleted, Settled, TabTyped, Pages, Somebody
  <2> QED BY <2>1, <2>2, <2>3
<1> QED BY <1>1, <1>2, <1>3, <1>4, <1>5, <1>6

(* A page load leaves what is in the store and in the address bar.           *)
LEMMA PageLoadTyped ==
  ASSUME TabTyped, PageLoad
  PROVE  /\ session' \in Somebody /\ form' \in FormRecords /\ twoFa' \in TwoFaRecords
         /\ email' \in Somebody /\ entering' \in Somebody /\ calls' = {} /\ email' = None
<1>1. store.session \in Somebody
  BY DEF TabTyped, StoreRecords
<1> QED BY <1>1, NoneIsNobody, EmptyIsTyped DEF PageLoad

(* What the person does at the forms.                                        *)
LEMMA PersonTyped ==
  ASSUME TabTyped,
         \/ \E a \in Accounts : TypeCredentials(a)
         \/ Login \/ TransitionToOnboard \/ ForgotPassword \/ BackToLogin \/ VerifyEmail
         \/ VerifyCode \/ ResendCode \/ CancelTwoFactor \/ ReturnToTwoFa
  PROVE  TabTyped'
<1>0. /\ form \in FormRecords /\ form.identity \in Somebody /\ url.token \in Somebody
      /\ twoFa.identity \in Somebody /\ twoFa.clientToken \in Somebody /\ email \in Somebody
  BY DEF TabTyped, FormRecords, UrlRecords, TwoFaRecords
<1>1. ASSUME NEW a \in Accounts, TypeCredentials(a)
      PROVE  TabTyped'
  <2>1. [form EXCEPT !.identity = a] \in FormRecords
    BY <1>0 DEF FormRecords, Somebody
  <2> QED BY <1>1, <2>1 DEF TypeCredentials, TabTyped
<1>2. CASE Login
  <2>1. [form EXCEPT !.loading = TRUE] \in FormRecords
    BY <1>0 DEF FormRecords
  <2>2. Call("auth/login", form.identity) \in CallRecords
    BY <1>0, CallTyped DEF Primary
  <2> QED BY <1>2, <2>1, <2>2 DEF Login, TabTyped
<1>3. CASE TransitionToOnboard \/ ForgotPassword \/ BackToLogin
  BY <1>3 DEF TransitionToOnboard, ForgotPassword, BackToLogin, TabTyped, Pages
<1>4. CASE VerifyEmail
  <2>1. [Call("auth/verify-email", url.token) EXCEPT !.identity = email] \in CallRecords
    BY <1>0, CallForTyped DEF Others
  <2> QED BY <1>4, <2>1 DEF VerifyEmail, TabTyped
<1>5. CASE VerifyCode
  <2>1. [to |-> "two-fa/verify", who |-> url.token,
         identity |-> twoFa.identity, clientToken |-> twoFa.clientToken] \in CallRecords
    BY <1>0 DEF CallRecords, Others
  <2> QED BY <1>5, <2>1 DEF VerifyCode, TabTyped
<1>6. CASE ResendCode
  <2>a. "two-fa/resend" \in Primary \cup Others
    BY DEF Others
  <2>1. [Call("two-fa/resend", url.token) EXCEPT !.identity = twoFa.identity] \in CallRecords
    BY <1>0, <2>a, CallForTyped
  <2> QED BY <1>6, <2>1 DEF ResendCode, TabTyped
<1>7. CASE CancelTwoFactor
  <2>1. Call("two-fa/invalidate", url.token) \in CallRecords
    BY <1>0, CallTyped DEF Others
  <2> QED BY <1>7, <2>1 DEF CancelTwoFactor, TabTyped
<1>8. CASE ReturnToTwoFa
  BY <1>0, <1>8 DEF ReturnToTwoFa, TabTyped
<1> QED BY <1>1, <1>2, <1>3, <1>4, <1>5, <1>6, <1>7, <1>8

(* What the browser and the router do.                                       *)
LEMMA BrowserTyped ==
  ASSUME TabTyped, CodesInOrder,
         \/ ContinueWithProvider \/ StartLink \/ Reload \/ SignOut
         \/ TwoFaBeforeModel \/ StartExchange \/ ProviderReturns
  PROVE  TabTyped'
<1>0. /\ url \in UrlRecords /\ url.token \in Somebody /\ entering \in Somebody
      /\ store.identity \in Somebody /\ store.email \in Somebody /\ store.session \in Somebody
  BY DEF TabTyped, UrlRecords, StoreRecords
<1>1. CASE ContinueWithProvider \/ StartLink
  <2>1. [url EXCEPT !.token = None] \in UrlRecords
    BY <1>0, NoneIsNobody DEF UrlRecords
  <2> QED BY <1>1, <2>1, PageLoadTyped DEF ContinueWithProvider, StartLink, TabTyped, Pages
<1>2. CASE Reload
  <2>1. page' \in {"callback", "to-console", "login"}
    BY <1>2 DEF Reload
  <2>2. entering' \in Somebody
    BY <1>0, <1>2, NoneIsNobody DEF Reload
  <2>3. [Call("auth/validate-verification-session", url.token) EXCEPT !.identity = store.email]
           \in CallRecords
    BY <1>0, CallForTyped DEF Primary
  <2>4. calls' \subseteq CallRecords
    BY <1>2, <2>3 DEF Reload
  <2> QED BY <1>0, <1>2, <2>1, <2>2, <2>4, NoneIsNobody, EmptyIsTyped DEF Reload, TabTyped, Pages
<1>3. CASE SignOut
  BY <1>3, NoneIsNobody, EmptyIsTyped DEF SignOut, SignedOut, TabTyped, Pages
<1>4. CASE TwoFaBeforeModel
  <2>a. "two-fa/validate" \in Primary \cup Others
    BY DEF Others
  <2>1. [Call("two-fa/validate", entering) EXCEPT !.identity = store.identity] \in CallRecords
    BY <1>0, <2>a, CallForTyped
  <2>2. calls' \subseteq CallRecords /\ page' \in Pages /\ form' \in FormRecords
    BY <1>4, <2>1, EmptyIsTyped DEF TwoFaBeforeModel, ResetForm, TabTyped, Pages
  <2> QED BY <1>4, <2>2, NoneIsNobody DEF TwoFaBeforeModel, TabTyped
<1>5. CASE StartExchange
  <2>1. [url EXCEPT !.fragment = 0] \in UrlRecords
    BY <1>0 DEF UrlRecords
  <2>2. \A to \in {"auth/oauth/exchange", "auth/oauth/link/complete"} : Call(to, None) \in CallRecords
    BY NoneIsNobody, CallTyped DEF Others
  <2>3. calls' \subseteq CallRecords /\ page' \in Pages
    BY <1>5, <2>2 DEF StartExchange, Redeem, TabTyped, Pages
  <2> QED BY <1>5, <2>1, <2>3 DEF StartExchange, Redeem, ReadFragment, TabTyped
<1>6. CASE ProviderReturns
  <2>1. PICK n \in Nat : n = handed + 1
    BY DEF CodesInOrder
  <2>2. [url EXCEPT !.fragment = n] \in UrlRecords
    BY <1>0 DEF UrlRecords
  <2>3. url' \in UrlRecords
    BY <1>0, <1>6, <2>1, <2>2 DEF ProviderReturns
  <2> QED BY <1>6, <2>3 DEF ProviderReturns, TabTyped, Pages
<1> QED BY <1>1, <1>2, <1>3, <1>4, <1>5, <1>6

(* What happens on the consent page and on the way to it.                    *)
LEMMA ConsentTabTyped ==
  ASSUME TabTyped, ConsentNext
  PROVE  TabTyped'
<1>0. store \in StoreRecords /\ url \in UrlRecords
  BY DEF TabTyped
<1> DEFINE Loads == /\ PageLoad /\ UNCHANGED <<url, store>>
                    /\ page' \in {"app", "login", "consent", "to-console"}
           Stays == UNCHANGED <<url, store, session, form, twoFa, email, entering, calls>>
<1>1. Loads => TabTyped'
  BY PageLoadTyped DEF TabTyped, Pages
<1>2. ASSUME Stays, page' = page \/ page' \in {"login", "onboard", "console"} PROVE TabTyped'
  BY <1>2 DEF TabTyped, Pages
<1> DEFINE Quiet == Stays /\ (page' = page \/ page' \in {"login", "onboard", "console"})
<1>3. CASE SavedGrowsStale \/ SelectOrganization \/ Approve \/ Deny
  BY <1>2, <1>3 DEF SavedGrowsStale, SelectOrganization, Approve, Deny, signInVars
<1>4. ASSUME NEW p, EnterAuthorize(p), UNCHANGED <<url, store>>
      PROVE  Loads
  BY <1>4 DEF EnterAuthorize
<1>5. CASE AppAsks
  BY <1>1, <1>4, <1>5 DEF AppAsks
<1>6. CASE EnterConsole
  <2>1. CASE EnterAuthorize(Pending)
    BY <1>1, <1>4, <1>6, <2>1 DEF EnterConsole
  <2>2. CASE ~EnterAuthorize(Pending)
    <3>1. Stays /\ page' \in {"login", "onboard", "console"}
      BY <1>6, <2>2 DEF EnterConsole, SamePage, Resume
    <3> QED BY <1>2, <3>1
  <2> QED BY <2>1, <2>2
<1>7. CASE SignUpEnds
  <2>1. PICK a \in Accounts : SignedIn(a)
    BY <1>7 DEF SignUpEnds
  <2>2. session' \in Somebody /\ store' \in StoreRecords /\ page' = "to-console"
    BY <2>1, SignedInTyped DEF Somebody
  <2> QED BY <1>7, <2>2 DEF SignUpEnds, TabTyped, Pages
<1>8. ASSUME NEW task, UNCHANGED <<url, store>>,
             LeaveTo \/ Reauthenticate(task) \/ HandleError(task)
      PROVE  Loads \/ Quiet
  BY <1>8 DEF LeaveTo, Reauthenticate, HandleError
<1>9. CASE Loaded
  <2>1. CASE Reauthenticate("load") \/ HandleError("load")
    BY <1>1, <1>2, <1>8, <1>9, <2>1 DEF Loaded, ConsentUnchanged
  <2>2. CASE UNCHANGED <<saved, page, session, form, twoFa, email, entering, calls>>
    BY <1>2, <1>9, <2>2 DEF Loaded, ConsentUnchanged
  <2> QED BY <1>9, <2>1, <2>2 DEF Loaded
<1>10. CASE Approved \/ Denied \/ SwitchAccount
  <2>1. UNCHANGED <<url, store>>
    BY <1>10 DEF Approved, Denied, SwitchAccount, ConsentUnchanged
  <2>2. \E task \in {"approve", "deny", "switch"} : LeaveTo \/ Reauthenticate(task) \/ HandleError(task)
    BY <1>10 DEF Approved, Denied, SwitchAccount
  <2> QED BY <1>1, <1>2, <1>8, <2>1, <2>2
<1>11. CASE SessionInvalidated
  BY <1>0, <1>11, NoneIsNobody, EmptyIsTyped DEF SessionInvalidated, SignedOut, TabTyped, Pages
<1>12. CASE GoToConsole
  BY <1>1, <1>12 DEF GoToConsole
<1> QED
  BY <1>3, <1>5, <1>6, <1>7, <1>9, <1>10, <1>11, <1>12 DEF ConsentNext

-----------------------------------------------------------------------------
(* Only the provider, the callback page and the way there touch the codes.   *)
LEMMA CodesAreLeftAlone ==
  ASSUME TabTyped, Next,
         ~ContinueWithProvider, ~StartLink, ~StartExchange, ~ProviderReturns
  PROVE  /\ UNCHANGED <<handed, redeemed>> /\ url'.fragment = url.fragment
         /\ page' = page \/ page' \notin {"provider", "provider-link"}
<1> DEFINE Left == /\ UNCHANGED <<handed, redeemed>> /\ url'.fragment = url.fragment
                   /\ page' = page \/ page' \notin {"provider", "provider-link"}
<1>1. CASE ApiAnswers
  <2>1. CASE LoginAnswered \/ Authenticated \/ VerificationCreated
    BY <2>1 DEF LoginAnswered, Authenticated, VerificationCreated, LoginChallenged, HandleLoginError,
                SendUserForEmailVerification, SendUserForPasswordReset, Failure, SignedIn
  <2>2. CASE EnterVerification \/ TwoFaValidated
    <3>1. /\ UNCHANGED <<handed, redeemed>> /\ page' \in {"verification", "login", "error", "two-fa"}
          /\ UNCHANGED url \/ \E a \in Somebody : url' = [url EXCEPT !.token = a]
      BY <2>2 DEF EnterVerification, TwoFaValidated, TabTyped, CallRecords
    <3>2. url'.fragment = url.fragment
      BY <3>1 DEF TabTyped, UrlRecords
    <3> QED BY <3>1, <3>2
  <2>3. CASE \/ EmailVerified \/ CodeVerified \/ TwoFaAuthenticated
             \/ CodeResent \/ TwoFactorCancelled \/ ExchangeAnswered
    BY <2>3 DEF EmailVerified, CodeVerified, TwoFaAuthenticated, CodeResent, TwoFactorCancelled,
                ExchangeAnswered, Challenged, RegistrationRequired, TokenIssued, Fail, LinkCompleted, SignedIn
  <2> QED BY <1>1, <2>1, <2>2, <2>3 DEF ApiAnswers
<1>2. CASE PersonActs
  BY <1>2 DEF PersonActs, TypeCredentials, Login, TransitionToOnboard, ForgotPassword, BackToLogin,
              VerifyEmail, VerifyCode, ResendCode, CancelTwoFactor, ReturnToTwoFa, Reload,
              SignOut, SignedOut
<1>3. CASE TwoFaBeforeModel
  BY <1>3 DEF TwoFaBeforeModel
<1>4. CASE ConsentNext
  <2>1. ASSUME NEW p, EnterAuthorize(p) PROVE page' \notin {"provider", "provider-link"}
    BY <2>1 DEF EnterAuthorize
  <2>2. ASSUME NEW task, LeaveTo \/ Reauthenticate(task) \/ HandleError(task)
        PROVE  page' = page \/ page' \notin {"provider", "provider-link"}
    BY <2>2 DEF LeaveTo, Reauthenticate, HandleError
  <2>3. CASE AppAsks \/ EnterConsole \/ SignUpEnds \/ SessionInvalidated \/ GoToConsole
    BY <2>1, <2>3 DEF AppAsks, EnterConsole, SignUpEnds, SessionInvalidated, GoToConsole,
                      Resume, SamePage, SignedIn, SignedOut
  <2>4. CASE Loaded \/ Approved \/ Denied \/ SwitchAccount
    BY <2>2, <2>4 DEF Loaded, Approved, Denied, SwitchAccount, ConsentUnchanged
  <2>5. CASE SavedGrowsStale \/ SelectOrganization \/ Approve \/ Deny
    BY <2>5 DEF SavedGrowsStale, SelectOrganization, Approve, Deny, signInVars
  <2> QED BY <1>4, <2>3, <2>4, <2>5 DEF ConsentNext
<1> QED BY <1>1, <1>2, <1>3, <1>4 DEF Next, SignInNext, RouterActs

(* A code goes from the fragment to the API, and from there nowhere.         *)
LEMMA CodesStep ==
  ASSUME TabTyped, CodesInOrder, Next
  PROVE  CodesInOrder'
<1>0. /\ url \in UrlRecords /\ url.fragment \in Nat /\ handed \in Nat /\ MaxHandshakes \in Nat
      /\ redeemed \in [1..MaxHandshakes -> Nat] /\ handed <= MaxHandshakes /\ url.fragment <= handed
  BY NoneIsNobody DEF TabTyped, UrlRecords, CodesInOrder
<1>1. CASE ContinueWithProvider \/ StartLink
  <2>1. /\ handed < MaxHandshakes /\ url' = [url EXCEPT !.token = None] /\ UNCHANGED <<handed, redeemed>>
    BY <1>1 DEF ContinueWithProvider, StartLink
  <2>2. url'.fragment = url.fragment
    BY <1>0, <2>1 DEF UrlRecords
  <2> QED BY <2>1, <2>2 DEF CodesInOrder
<1>2. CASE ProviderReturns
  <2>1. PICK n \in Nat : n = handed + 1
    BY <1>0
  <2>2. /\ page' \in {"callback", "link-callback"} /\ UNCHANGED redeemed /\ n <= MaxHandshakes
    BY <1>0, <1>2, <2>1 DEF ProviderReturns, CodesInOrder
  <2>3. CASE UNCHANGED <<url, handed>>
    BY <2>2, <2>3 DEF CodesInOrder
  <2>4. CASE url' = [url EXCEPT !.fragment = n] /\ handed' = n
    <3>1. url'.fragment = n
      BY <1>0, <2>4 DEF UrlRecords
    <3>2. \A c \in 1..MaxHandshakes : c > n \/ c = n => c > handed
      BY <1>0, <2>1
    <3> QED BY <2>2, <2>4, <3>1, <3>2 DEF CodesInOrder
  <2> QED BY <1>2, <2>1, <2>3, <2>4 DEF ProviderReturns
<1>3. CASE StartExchange
  <2>1. /\ url' = [url EXCEPT !.fragment = 0] /\ UNCHANGED handed
        /\ page' \notin {"provider", "provider-link"}
        /\ \/ UNCHANGED redeemed
           \/ url.fragment # 0 /\ redeemed' = [redeemed EXCEPT ![url.fragment] = @ + 1]
    BY <1>3 DEF StartExchange, Redeem, ReadFragment
  <2>2. url'.fragment = 0
    BY <1>0, <2>1 DEF UrlRecords
  <2>3. CASE UNCHANGED redeemed
    BY <1>0, <2>1, <2>2, <2>3 DEF CodesInOrder
  <2>4. CASE url.fragment # 0 /\ redeemed' = [redeemed EXCEPT ![url.fragment] = @ + 1]
    <3> DEFINE f == url.fragment
    <3>1. f \in 1..MaxHandshakes /\ redeemed[f] = 0 /\ f <= handed
      BY <1>0, <2>4 DEF CodesInOrder
    <3>2. redeemed' = [redeemed EXCEPT ![f] = 1]
      BY <2>4, <3>1
    <3> HIDE DEF f
    <3>3. redeemed' \in [1..MaxHandshakes -> Nat]
      BY <1>0, <3>1, <3>2
    <3>4. \A c \in 1..MaxHandshakes : redeemed'[c] = IF c = f THEN 1 ELSE redeemed[c]
      BY <1>0, <3>2
    <3>5. \A c \in 1..MaxHandshakes : redeemed'[c] <= 1 /\ (c > handed \/ c = 0 => redeemed'[c] = 0)
      BY <1>0, <3>1, <3>4 DEF CodesInOrder
    <3> QED BY <1>0, <2>1, <2>2, <3>3, <3>5 DEF CodesInOrder
  <2> QED BY <2>1, <2>3, <2>4
<1>4. CASE ~ContinueWithProvider /\ ~StartLink /\ ~ProviderReturns /\ ~StartExchange
  BY <1>4, CodesAreLeftAlone DEF CodesInOrder
<1> QED BY <1>1, <1>2, <1>3, <1>4

(* Only signing in by password or by e-mail makes a primary request, and     *)
(* only it puts an e-mail into the store.                                    *)
LEMMA RequestsLeftAlone ==
  ASSUME RequestsKnow(calls, store), NEW st, st.email = store.email \/ st.email = None,
         NEW S, \A c \in S : c \in calls \/ c.to \notin Primary
  PROVE  RequestsKnow(S, st)
BY DEF RequestsKnow, Primary

(* A call of one of the others is no primary one.                            *)
LEMMA OthersAreNotPrimary == Others \cap Primary = {}
BY DEF Others, Primary

(* A failure of the form.                                                    *)
LEMMA FailureKnows ==
  ASSUME TabTyped, RequestsKnow(calls, store), NEW c \in calls, c.to \in Primary, HandleLoginError(c)
  PROVE  RequestsKnow(calls', store')
<1>0. c.who \in Somebody
  BY DEF TabTyped, CallRecords
<1>1. CASE SendUserForEmailVerification(c)
  <2> DEFINE new == Call("auth/create-verification-session", c.who)
  <2>1. new.to = "auth/create-verification-session"
    BY DEF Call
  <2> HIDE DEF new
  <2>2. calls' = (calls \ {c}) \cup {new} /\ store' = store
    BY <1>1 DEF SendUserForEmailVerification, Replaced, new
  <2> QED BY <2>1, <2>2 DEF RequestsKnow
<1>2. CASE SendUserForPasswordReset(c) \/ Failure(c)
  <2>1. calls' = calls \ {c} /\ store' = store
    BY <1>2 DEF SendUserForPasswordReset, Failure, Settled
  <2> QED BY <2>1, RequestsLeftAlone
<1> QED BY <1>1, <1>2 DEF HandleLoginError

(* The requests of the form, one after the other.                            *)
LEMMA LoginKnows ==
  ASSUME TabTyped, RequestsKnow(calls, store),
         Login \/ LoginAnswered \/ Authenticated \/ VerificationCreated \/ Reload
  PROVE  RequestsKnow(calls', store')
<1>1. CASE Login
  <2> DEFINE new == Call("auth/login", form.identity)
  <2>1. new.to = "auth/login"
    BY DEF Call
  <2> HIDE DEF new
  <2>2. calls' = calls \cup {new} /\ store' = store /\ \A c \in calls : c.to = "two-fa/resend"
    BY <1>1 DEF Login, MayCall, new
  <2> QED BY <2>1, <2>2 DEF RequestsKnow, Primary
<1>2. CASE LoginAnswered
  <2>1. PICK c \in calls :
          /\ c.to = "auth/login"
          /\ \/ LoginChallenged(c)
             \/ /\ Replaced(c, Call("authenticate", c.who))
                /\ UNCHANGED <<page, url, store, session, form, twoFa, email, entering, handed, redeemed>>
             \/ HandleLoginError(c)
    BY <1>2 DEF LoginAnswered
  <2>2. CASE LoginChallenged(c)
    <3>1. calls' = calls \ {c} /\ store'.email = None
      BY <2>2 DEF LoginChallenged, Settled, EmptyStore
    <3> QED BY <3>1, RequestsLeftAlone
  <2>3. CASE Replaced(c, Call("authenticate", c.who)) /\ UNCHANGED store
    <3> DEFINE new == Call("authenticate", c.who)
    <3>1. new.to = "authenticate"
      BY DEF Call
    <3> HIDE DEF new
    <3>2. calls' = (calls \ {c}) \cup {new} /\ store' = store
      BY <2>3 DEF Replaced, new
    <3> QED BY <2>1, <3>1, <3>2 DEF RequestsKnow, Primary
  <2> QED BY <2>1, <2>2, <2>3, FailureKnows DEF Primary
<1>3. CASE Authenticated
  <2>1. PICK c \in calls :
          /\ c.to = "authenticate"
          /\ (SignedIn(c.who) /\ Settled(c)) \/ HandleLoginError(c)
    BY <1>3 DEF Authenticated
  <2>2. CASE SignedIn(c.who) /\ Settled(c)
    <3>1. calls' = calls \ {c} /\ store'.email = None
      BY <2>2 DEF SignedIn, Settled, EmptyStore
    <3> QED BY <3>1, RequestsLeftAlone
  <2> QED BY <2>1, <2>2, FailureKnows DEF Primary
<1>4. CASE VerificationCreated
  <2>1. PICK c \in calls :
          /\ c.to = "auth/create-verification-session"
          /\ \/ /\ store' = [EmptyStore EXCEPT !.email = c.who]
                /\ Replaced(c, Call("auth/validate-verification-session", c.who))
             \/ Settled(c) /\ UNCHANGED store
    BY <1>4 DEF VerificationCreated
  <2>2. CASE Settled(c) /\ UNCHANGED store
    BY <2>2, RequestsLeftAlone DEF Settled
  <2>3. CASE /\ store' = [EmptyStore EXCEPT !.email = c.who]
             /\ Replaced(c, Call("auth/validate-verification-session", c.who))
    <3> DEFINE new == Call("auth/validate-verification-session", c.who)
    <3>1. new.to = "auth/validate-verification-session" /\ new.who = c.who
      BY DEF Call
    <3> HIDE DEF new
    <3>2. calls' = (calls \ {c}) \cup {new} /\ store'.email = c.who
      BY <2>3 DEF Replaced, EmptyStore, new
    <3> QED BY <2>1, <3>1, <3>2 DEF RequestsKnow, Primary
  <2> QED BY <2>1, <2>2, <2>3
<1>5. CASE Reload
  <2> DEFINE new == [Call("auth/validate-verification-session", url.token) EXCEPT !.identity = store.email]
  <2>1. new.who = url.token /\ new.identity = store.email
    BY DEF Call
  <2> HIDE DEF new
  <2>2. calls' \subseteq {new} /\ store' = store
    BY <1>5 DEF Reload, new
  <2> QED BY <2>1, <2>2 DEF RequestsKnow
<1> QED BY <1>1, <1>2, <1>3, <1>4, <1>5

(* What makes no primary request and puts no e-mail into the store.          *)
LEMMA OthersKnow ==
  ASSUME TabTyped, RequestsKnow(calls, store), Next,
         ~(Login \/ LoginAnswered \/ Authenticated \/ VerificationCreated \/ Reload)
  PROVE  RequestsKnow(calls', store')
<1> DEFINE Fewer == /\ \A c \in calls' : c \in calls \/ c.to \notin Primary
                    /\ store'.email = store.email \/ store'.email = None
<1>0. Fewer => RequestsKnow(calls', store')
  BY RequestsLeftAlone
<1>1. ASSUME NEW who, NEW identity, NEW clientToken, NEW to \in Others
      PROVE  /\ [Call(to, who) EXCEPT !.identity = identity].to \notin Primary
             /\ Call(to, who).to \notin Primary
             /\ [to |-> to, who |-> who, identity |-> identity, clientToken |-> clientToken].to \notin Primary
  BY OthersAreNotPrimary DEF Call
<1>2. {"auth/verify-email", "two-fa/validate", "two-fa/verify", "authenticate-2fa",
       "two-fa/resend", "two-fa/invalidate", "auth/oauth/exchange", "auth/oauth/link/complete"} \subseteq Others
  BY DEF Others
<1>3. ASSUME NEW a, SignedIn(a) PROVE store'.email = None
  BY <1>3 DEF SignedIn, EmptyStore
<1>4. CASE ApiAnswers
  <2>1. CASE EnterVerification \/ EmailVerified \/ TwoFaAuthenticated \/ TwoFactorCancelled
    <3>1. Fewer
      BY <1>3, <2>1 DEF EnterVerification, EmailVerified, TwoFaAuthenticated, TwoFactorCancelled, Settled
    <3> QED BY <1>0, <3>1
  <2>2. CASE TwoFaValidated \/ CodeResent
    <3>1. Fewer
      BY <2>2 DEF TwoFaValidated, CodeResent, Settled, EmptyStore
    <3> QED BY <1>0, <3>1
  <2>3. CASE CodeVerified
    <3>1. Fewer
      BY <1>1, <1>2, <2>3 DEF CodeVerified, Settled, Replaced
    <3> QED BY <1>0, <3>1
  <2>4. CASE ExchangeAnswered
    <3>1. Fewer
      BY <1>3, <2>4 DEF ExchangeAnswered, Settled, Challenged, RegistrationRequired, TokenIssued, Fail,
                          LinkCompleted
    <3> QED BY <1>0, <3>1
  <2> QED BY <1>4, <2>1, <2>2, <2>3, <2>4 DEF ApiAnswers
<1>5. CASE PersonActs
  <2>1. CASE \/ \E a \in Accounts : TypeCredentials(a)
             \/ TransitionToOnboard \/ ForgotPassword \/ BackToLogin \/ ReturnToTwoFa
             \/ ContinueWithProvider \/ StartLink \/ SignOut
    <3>1. Fewer
      BY <2>1 DEF TypeCredentials, TransitionToOnboard, ForgotPassword, BackToLogin, ReturnToTwoFa,
                  ContinueWithProvider, StartLink, PageLoad, SignOut, SignedOut, EmptyStore
    <3> QED BY <1>0, <3>1
  <2>2. CASE VerifyEmail \/ VerifyCode \/ ResendCode \/ CancelTwoFactor
    <3>1. Fewer
      BY <1>1, <1>2, <2>2 DEF VerifyEmail, VerifyCode, ResendCode, CancelTwoFactor
    <3> QED BY <1>0, <3>1
  <2> QED BY <1>5, <2>1, <2>2 DEF PersonActs
<1>6. CASE TwoFaBeforeModel \/ StartExchange \/ ProviderReturns
  <2>1. CASE TwoFaBeforeModel
    <3> DEFINE new == [Call("two-fa/validate", entering) EXCEPT !.identity = store.identity]
    <3>1. new.to \notin Primary
      BY <1>1, <1>2
    <3> HIDE DEF new
    <3>2. (calls' = calls \/ calls' = calls \cup {new}) /\ store' = store
      BY <2>1 DEF TwoFaBeforeModel, new
    <3> QED BY <1>0, <3>1, <3>2
  <2>2. CASE StartExchange
    <3> DEFINE new(to) == Call(to, None)
    <3>1. \A to \in Others : new(to).to \notin Primary
      BY <1>1
    <3> HIDE DEF new
    <3>2. /\ calls' = calls \/ \E to \in Others : calls' = calls \cup {new(to)}
          /\ store' = store
      BY <1>2, <2>2 DEF StartExchange, Redeem, new
    <3> QED BY <1>0, <3>1, <3>2
  <2>3. CASE ProviderReturns
    <3>1. calls' = calls /\ store' = store
      BY <2>3 DEF ProviderReturns
    <3> QED BY <1>0, <3>1
  <2> QED BY <1>6, <2>1, <2>2, <2>3
<1>7. CASE ConsentNext
  <2>1. ASSUME NEW p, EnterAuthorize(p) PROVE calls' = {}
    BY <2>1 DEF EnterAuthorize, PageLoad
  <2>2. ASSUME NEW task, LeaveTo \/ Reauthenticate(task) \/ HandleError(task)
        PROVE  calls' = {} \/ calls' = calls
    BY <2>2 DEF LeaveTo, Reauthenticate, HandleError, PageLoad
  <2>3. CASE AppAsks \/ EnterConsole \/ SignUpEnds \/ SessionInvalidated \/ GoToConsole
    <3>1. Fewer
      BY <1>3, <2>1, <2>3 DEF AppAsks, EnterConsole, SignUpEnds, SessionInvalidated, GoToConsole,
                              Resume, SamePage, SignedOut, PageLoad, EmptyStore
    <3> QED BY <1>0, <3>1
  <2>4. CASE Loaded \/ Approved \/ Denied \/ SwitchAccount
    <3>1. Fewer
      BY <2>2, <2>4 DEF Loaded, Approved, Denied, SwitchAccount, ConsentUnchanged
    <3> QED BY <1>0, <3>1
  <2>5. CASE SavedGrowsStale \/ SelectOrganization \/ Approve \/ Deny
    <3>1. Fewer
      BY <2>5 DEF SavedGrowsStale, SelectOrganization, Approve, Deny, signInVars
    <3> QED BY <1>0, <3>1
  <2> QED BY <1>7, <2>3, <2>4, <2>5 DEF ConsentNext
<1> QED BY <1>4, <1>5, <1>6, <1>7 DEF Next, SignInNext, RouterActs

(* The two pages that ask for somebody are entered with both: the token in   *)
(* the address bar and the identity that the controller takes.               *)
LEMMA PagesStep ==
  ASSUME TabTyped, RequestsKnow(calls, store), PagesKnow(page, twoFa, url, email), Next
  PROVE  PagesKnow(page', twoFa', url', email')
<1> DEFINE Same == /\ UNCHANGED <<url, email>> /\ twoFa'.identity = twoFa.identity
                   /\ page' = page \/ page' \notin {"two-fa", "verification"}
           Gone == page' \notin {"two-fa", "verification"}
<1>0. Same \/ Gone => PagesKnow(page', twoFa', url', email')
  BY DEF PagesKnow
<1>1. CASE EnterVerification
  <2>1. PICK c \in calls :
        /\ c.to = "auth/validate-verification-session"
        /\ \/ /\ c.identity = c.who /\ page' = "verification"
              /\ url' = [url EXCEPT !.token = c.who] /\ email' = store.email
           \/ page' \in {"login", "error"}
    BY <1>1 DEF EnterVerification
  <2>2. CASE page' = "verification"
    <3>1. store.email \in {c.who, None}
      BY <2>1, <2>2 DEF RequestsKnow
    <3>2. url'.token = c.who
      BY <2>1, <2>2 DEF TabTyped, UrlRecords
    <3> QED BY <2>1, <2>2, <3>1, <3>2 DEF PagesKnow
  <2> QED BY <1>0, <2>1, <2>2
<1>2. CASE TwoFaValidated
  <2>1. PICK c \in calls :
           \/ /\ c.who = c.identity /\ page' = "two-fa" /\ url' = [url EXCEPT !.token = c.who]
              /\ twoFa' = SetupTwoFa(c.identity, c.who)
           \/ page' = "login"
    BY <1>2 DEF TwoFaValidated
  <2>2. CASE page' = "two-fa"
    <3>1. url'.token = c.who /\ twoFa'.identity = c.who
      BY <2>1, <2>2 DEF TabTyped, UrlRecords, SetupTwoFa
    <3> QED BY <2>2, <3>1 DEF PagesKnow
  <2> QED BY <1>0, <2>1, <2>2
<1>3. CASE LoginAnswered \/ Authenticated \/ VerificationCreated
  <2>1. Same \/ Gone
    BY <1>3 DEF LoginAnswered, Authenticated, VerificationCreated, LoginChallenged, HandleLoginError,
                SendUserForEmailVerification, SendUserForPasswordReset, Failure, SignedIn
  <2> QED BY <1>0, <2>1
<1>4. CASE EmailVerified \/ CodeVerified \/ TwoFaAuthenticated \/ TwoFactorCancelled \/ ExchangeAnswered
  <2>1. Same \/ Gone
    BY <1>4 DEF EmailVerified, CodeVerified, TwoFaAuthenticated, TwoFactorCancelled,
                ExchangeAnswered, Challenged, RegistrationRequired, TokenIssued, Fail, LinkCompleted, SignedIn
  <2> QED BY <1>0, <2>1
<1>5. CASE CodeResent
  <2>1. PICK c \in calls : twoFa' = twoFa \/ twoFa' = [twoFa EXCEPT !.clientToken = c.who]
    BY <1>5 DEF CodeResent
  <2>2. twoFa'.identity = twoFa.identity
    BY <2>1 DEF TabTyped, TwoFaRecords
  <2> QED BY <1>0, <1>5, <2>2 DEF CodeResent
<1>6. CASE PersonActs
  <2>1. CASE ContinueWithProvider \/ StartLink \/ Reload \/ SignOut
    <3>1. Gone
      BY <2>1 DEF ContinueWithProvider, StartLink, Reload, SignOut, SignedOut
    <3> QED BY <1>0, <3>1
  <2>2. CASE ~(ContinueWithProvider \/ StartLink \/ Reload \/ SignOut)
    <3>1. Same
      BY <1>6, <2>2 DEF PersonActs, TypeCredentials, Login, TransitionToOnboard, ForgotPassword,
            BackToLogin, VerifyEmail, VerifyCode, ResendCode, CancelTwoFactor, ReturnToTwoFa
    <3> QED BY <1>0, <3>1
  <2> QED BY <2>1, <2>2
<1>7. CASE TwoFaBeforeModel \/ StartExchange \/ ProviderReturns
  <2>1. Same \/ Gone
    BY <1>7 DEF TwoFaBeforeModel, StartExchange, Redeem, ProviderReturns
  <2> QED BY <1>0, <2>1
<1>8. CASE ConsentNext
  <2>1. ASSUME NEW p, EnterAuthorize(p) PROVE Gone
    BY <2>1 DEF EnterAuthorize
  <2>2. ASSUME NEW task, UNCHANGED url, LeaveTo \/ Reauthenticate(task) \/ HandleError(task)
        PROVE  Same \/ Gone
    BY <2>2 DEF LeaveTo, Reauthenticate, HandleError
  <2>3. CASE AppAsks \/ EnterConsole \/ SignUpEnds \/ SessionInvalidated \/ GoToConsole
    <3>1. Same \/ Gone
      BY <2>1, <2>3 DEF AppAsks, EnterConsole, SignUpEnds, SessionInvalidated, GoToConsole,
                        Resume, SamePage, SignedIn, SignedOut
    <3> QED BY <1>0, <3>1
  <2>4. CASE Loaded \/ Approved \/ Denied \/ SwitchAccount
    <3>1. Same \/ Gone
      BY <2>2, <2>4 DEF Loaded, Approved, Denied, SwitchAccount, ConsentUnchanged
    <3> QED BY <1>0, <3>1
  <2>5. CASE SavedGrowsStale \/ SelectOrganization \/ Approve \/ Deny
    <3>1. Same
      BY <2>5 DEF SavedGrowsStale, SelectOrganization, Approve, Deny, signInVars
    <3> QED BY <1>0, <3>1
  <2> QED BY <1>8, <2>3, <2>4, <2>5 DEF ConsentNext
<1> QED
  BY <1>1, <1>2, <1>3, <1>4, <1>5, <1>6, <1>7, <1>8 DEF Next, SignInNext, ApiAnswers, RouterActs

(* Signing in opens neither the console nor the consent page.                *)
LEMMA SignInStaysOutside ==
  ASSUME SignInNext
  PROVE  page' = page \/ page' \notin {"console", "consent"}
<1>1. CASE ApiAnswers
  <2>1. CASE LoginAnswered \/ Authenticated \/ VerificationCreated \/ EnterVerification \/ TwoFaValidated
    BY <2>1 DEF LoginAnswered, Authenticated, VerificationCreated, LoginChallenged, HandleLoginError,
                SendUserForEmailVerification, SendUserForPasswordReset, Failure, SignedIn,
                EnterVerification, TwoFaValidated
  <2>2. CASE \/ EmailVerified \/ CodeVerified \/ TwoFaAuthenticated
             \/ CodeResent \/ TwoFactorCancelled \/ ExchangeAnswered
    BY <2>2 DEF EmailVerified, CodeVerified, TwoFaAuthenticated, CodeResent, TwoFactorCancelled,
                ExchangeAnswered, Challenged, RegistrationRequired, TokenIssued, Fail, LinkCompleted, SignedIn
  <2> QED BY <1>1, <2>1, <2>2 DEF ApiAnswers
<1>2. CASE PersonActs
  BY <1>2 DEF PersonActs, TypeCredentials, Login, TransitionToOnboard, ForgotPassword, BackToLogin,
              VerifyEmail, VerifyCode, ResendCode, CancelTwoFactor, ReturnToTwoFa, Reload,
              ContinueWithProvider, StartLink, SignOut, SignedOut
<1>3. CASE RouterActs
  BY <1>3 DEF RouterActs, TwoFaBeforeModel, StartExchange, Redeem, ProviderReturns
<1> QED BY <1>1, <1>2, <1>3 DEF SignInNext

(* What an answer to the consent page does to the request.                   *)
LEMMA AnswerKeepsRequest ==
  ASSUME RequestKept(page, saved, consent), page = "consent", NEW task,
         LeaveTo \/ Reauthenticate(task) \/ HandleError(task)
  PROVE  RequestKept(page', saved', consent')
<1>1. consent \in ConsentRecords /\ consent.params \in Requests
  BY DEF RequestKept
<1>2. PICK asking \in SUBSET {"load", "approve", "deny"} : asking = consent.asking \ {task}
  BY <1>1 DEF ConsentRecords
<1>3. CASE LeaveTo
  BY <1>3, EmptyIsTyped DEF LeaveTo, Clear, RequestKept
<1>4. CASE Reauthenticate(task)
  <2>1. /\ saved' = [params |-> consent.params, fresh |-> TRUE] /\ page' = "consent"
        /\ consent' = [consent EXCEPT !.invalidating = TRUE, !.asking = asking]
    BY <1>2, <1>4 DEF Reauthenticate, Save
  <2>2. /\ consent' \in ConsentRecords /\ consent'.invalidating
        /\ consent'.params = consent.params
    BY <1>1, <2>1 DEF ConsentRecords
  <2>3. saved' \in SavedRecords
    BY <1>1, <2>1 DEF SavedRecords
  <2> QED BY <1>1, <2>1, <2>2, <2>3 DEF RequestKept
<1>5. CASE Clear /\ page' = page /\
           consent' = [consent EXCEPT !.details = None, !.error = TRUE, !.asking = @ \ {task}]
  <2>1. consent' = [consent EXCEPT !.details = None, !.error = TRUE, !.asking = asking]
    BY <1>2, <1>5
  <2>2. /\ consent' \in ConsentRecords /\ consent'.params = consent.params
    BY <1>1, <2>1 DEF ConsentRecords
  <2> QED BY <1>1, <1>5, <2>2 DEF Clear, RequestKept
<1> QED BY <1>3, <1>4, <1>5 DEF HandleError

(* The request enters the address bar when it leaves the storage.            *)
LEMMA AuthorizeKeepsRequest ==
  ASSUME NEW p \in Requests, EnterAuthorize(p)
  PROVE  RequestKept(page', saved', consent')
<1>1. CASE store.session = None
  <2>1. /\ saved' = [params |-> p, fresh |-> TRUE] /\ page' = "login" /\ consent' = EmptyConsent
    BY <1>1 DEF EnterAuthorize, Save
  <2>2. saved' \in SavedRecords
    BY <2>1 DEF SavedRecords
  <2> QED BY <2>1, <2>2, EmptyIsTyped DEF RequestKept
<1>2. CASE store.session # None
  <2>1. /\ saved' = None /\ page' = "consent"
        /\ consent' = [EmptyConsent EXCEPT !.params = p, !.asking = {"load"}]
    BY <1>2 DEF EnterAuthorize, Clear
  <2>2. consent' \in ConsentRecords /\ consent'.params = p
    BY <2>1, EmptyIsTyped DEF ConsentRecords
  <2> QED BY <2>1, <2>2 DEF RequestKept
<1> QED BY <1>1, <1>2

(* Every step keeps an app's request in one place.                           *)
LEMMA RequestStep ==
  ASSUME RequestKept(page, saved, consent), Next
  PROVE  RequestKept(page', saved', consent')
<1>0. /\ consent \in ConsentRecords /\ saved \in SavedRecords \cup {None}
      /\ Pending \in Requests \cup {None}
  BY DEF RequestKept, Pending, SavedRecords
<1>1. CASE SignInNext /\ UNCHANGED consentVars
  BY <1>1, SignInStaysOutside DEF consentVars, RequestKept
<1>2. CASE SavedGrowsStale
  <2>1. /\ saved # None /\ saved' = [saved EXCEPT !.fresh = FALSE]
        /\ UNCHANGED <<page, consent>>
    BY <1>2 DEF SavedGrowsStale, signInVars
  <2>2. saved' \in SavedRecords
    BY <1>0, <2>1 DEF SavedRecords
  <2> QED BY <2>1, <2>2 DEF RequestKept
<1>3. CASE AppAsks
  BY <1>3, AuthorizeKeepsRequest DEF AppAsks
<1>4. CASE EnterConsole
  <2>1. CASE page' \in {"login", "onboard"} /\ UNCHANGED <<saved, consent>>
    BY <1>0, <2>1 DEF RequestKept
  <2>2. CASE saved' = None /\ page' = "console" /\ UNCHANGED consent
    BY <1>0, <2>2 DEF RequestKept
  <2>3. CASE Pending # None /\ EnterAuthorize(Pending)
    BY <1>0, <2>3, AuthorizeKeepsRequest
  <2> QED BY <1>4, <2>1, <2>2, <2>3 DEF EnterConsole, SamePage, Resume, Clear
<1>5. CASE SignUpEnds
  <2>1. page' = "to-console" /\ UNCHANGED <<saved, consent>>
    BY <1>5 DEF SignUpEnds, SignedIn, consentVars
  <2> QED BY <1>0, <2>1 DEF RequestKept
<1>6. CASE Loaded
  <2>1. page = "consent"
    BY <1>6 DEF Loaded
  <2>2. CASE Reauthenticate("load") \/ HandleError("load")
    BY <2>1, <2>2, AnswerKeepsRequest
  <2>3. CASE ~(Reauthenticate("load") \/ HandleError("load"))
    <3>1. PICK own \in SUBSET Organizations, needed \in BOOLEAN, skip \in BOOLEAN :
            /\ consent' = [consent EXCEPT
                   !.details = Details(needed, own),
                   !.chosen = IF own = {} THEN None ELSE CHOOSE o \in own : TRUE,
                   !.asking = IF skip THEN {"approve"} ELSE {}]
            /\ UNCHANGED <<saved, page>>
      BY <1>6, <2>3 DEF Loaded
    <3>2. PICK chosen \in Organizations \cup {None} :
             chosen = IF own = {} THEN None ELSE CHOOSE o \in own : TRUE
      OBVIOUS
    <3>3. PICK asking \in SUBSET {"load", "approve", "deny"} : asking = IF skip THEN {"approve"} ELSE {}
      OBVIOUS
    <3>4. Details(needed, own) \in [needed : BOOLEAN, organizations : SUBSET Organizations]
      BY DEF Details
    <3> DEFINE details == Details(needed, own)
    <3>5. consent' = [consent EXCEPT !.details = details, !.chosen = chosen, !.asking = asking]
      BY <3>1, <3>2, <3>3
    <3> HIDE DEF details
    <3>6. /\ consent' \in ConsentRecords /\ consent'.params = consent.params
          /\ consent'.invalidating = consent.invalidating
      BY <1>0, <3>4, <3>5 DEF ConsentRecords, details
    <3> QED BY <3>1, <3>6 DEF RequestKept
  <2> QED BY <2>2, <2>3
<1>7. CASE SelectOrganization
  <2>1. PICK o \in consent.details.organizations : consent' = [consent EXCEPT !.chosen = o]
    BY <1>7 DEF SelectOrganization
  <2>2. o \in Organizations \cup {None}
    BY <1>0, <1>7 DEF SelectOrganization, ConsentRecords
  <2>3. /\ consent' \in ConsentRecords /\ consent'.params = consent.params
        /\ consent'.invalidating = consent.invalidating
    BY <1>0, <2>1, <2>2 DEF ConsentRecords
  <2> QED BY <1>7, <2>3 DEF SelectOrganization, signInVars, RequestKept
<1>8. CASE Approve \/ Deny
  <2>1. PICK asking \in SUBSET {"load", "approve", "deny"} : consent' = [consent EXCEPT !.asking = asking]
    <3>1. PICK task \in {"approve", "deny"} : consent' = [consent EXCEPT !.asking = @ \cup {task}]
      BY <1>8 DEF Approve, Deny
    <3>2. PICK asking \in SUBSET {"load", "approve", "deny"} : asking = consent.asking \cup {task}
      BY <1>0 DEF ConsentRecords
    <3> QED BY <3>1, <3>2
  <2>2. /\ consent' \in ConsentRecords /\ consent'.params = consent.params
        /\ consent'.invalidating = consent.invalidating
    BY <1>0, <2>1 DEF ConsentRecords
  <2> QED BY <1>8, <2>2 DEF Approve, Deny, signInVars, RequestKept
<1>9. CASE Approved \/ Denied \/ SwitchAccount
  BY <1>9, AnswerKeepsRequest DEF Approved, Denied, SwitchAccount
<1>10. CASE SessionInvalidated \/ GoToConsole
  <2>1. page' \in {"login", "to-console"} /\ consent' = EmptyConsent /\ UNCHANGED saved
    BY <1>10 DEF SessionInvalidated, SignedOut, GoToConsole
  <2> QED BY <1>0, <2>1, EmptyIsTyped DEF RequestKept
<1> QED
  BY <1>1, <1>2, <1>3, <1>4, <1>5, <1>6, <1>7, <1>8, <1>9, <1>10 DEF Next, ConsentNext

(* Signing in goes on outside of the consent page.                           *)
LEMMA NobodySignsInOnConsent ==
  ASSUME ConsentIsQuiet, page = "consent"
  PROVE  ~SignInNext
<1>0. calls = {} /\ entering = None
  BY DEF ConsentIsQuiet
<1>1. ~ApiAnswers
  BY <1>0 DEF ApiAnswers, LoginAnswered, Authenticated, VerificationCreated, EnterVerification,
              EmailVerified, TwoFaValidated, CodeVerified, TwoFaAuthenticated, CodeResent,
              TwoFactorCancelled, ExchangeAnswered
<1>2. ~PersonActs
  BY DEF PersonActs, TypeCredentials, Login, TransitionToOnboard, ForgotPassword, BackToLogin,
         VerifyEmail, VerifyCode, ResendCode, CancelTwoFactor, ReturnToTwoFa,
         ContinueWithProvider, StartLink, Reload, SignOut
<1>3. ~RouterActs
  BY <1>0 DEF RouterActs, TwoFaBeforeModel, StartExchange, ProviderReturns
<1> QED BY <1>1, <1>2, <1>3 DEF SignInNext

(* The consent page is loaded, and nothing is underway then.                 *)
LEMMA QuietStep ==
  ASSUME ConsentIsQuiet, Next
  PROVE  ConsentIsQuiet'
<1>1. CASE SignInNext
  BY <1>1, NobodySignsInOnConsent, SignInStaysOutside DEF ConsentIsQuiet
<1>2. CASE ConsentNext
  <2> DEFINE Stays == UNCHANGED <<page, entering, calls>>
             Loads == calls' = {} /\ entering' = None
  <2>0. Stays \/ Loads \/ page' # "consent" => ConsentIsQuiet'
    BY DEF ConsentIsQuiet
  <2>1. ASSUME NEW p, EnterAuthorize(p) PROVE Loads
    BY <2>1 DEF EnterAuthorize, PageLoad
  <2>2. ASSUME NEW task, LeaveTo \/ Reauthenticate(task) \/ HandleError(task)
        PROVE  Stays \/ Loads
    BY <2>2 DEF LeaveTo, Reauthenticate, HandleError, PageLoad
  <2>3. CASE AppAsks \/ EnterConsole \/ SignUpEnds \/ SessionInvalidated \/ GoToConsole
    <3>1. Loads \/ page' # "consent"
      BY <2>1, <2>3 DEF AppAsks, EnterConsole, SignUpEnds, SessionInvalidated, GoToConsole,
                        Resume, SignedIn, SignedOut
    <3> QED BY <2>0, <3>1
  <2>4. CASE Loaded \/ Approved \/ Denied \/ SwitchAccount
    <3>1. Stays \/ Loads
      BY <2>2, <2>4 DEF Loaded, Approved, Denied, SwitchAccount
    <3> QED BY <2>0, <3>1
  <2>5. CASE SavedGrowsStale \/ SelectOrganization \/ Approve \/ Deny
    <3>1. Stays
      BY <2>5 DEF SavedGrowsStale, SelectOrganization, Approve, Deny, signInVars
    <3> QED BY <2>0, <3>1
  <2> QED BY <1>2, <2>3, <2>4, <2>5 DEF ConsentNext
<1> QED BY <1>1, <1>2 DEF Next

(* A request that is undecided on the consent page is the page's.            *)
LEMMA AskedOnConsent ==
  ASSUME RequestKept(page, saved, consent), page = "consent", Asked # None
  PROVE  Asked = consent.params
BY DEF RequestKept, Asked, Pending

(* An answer to the consent page ends the request, or keeps it.              *)
LEMMA AnswerEndsOrKeeps ==
  ASSUME RequestKept(page, saved, consent), page = "consent", Asked # None, NEW task,
         LeaveTo \/ Reauthenticate(task) \/ HandleError(task)
  PROVE  Asked' = Asked \/ RequestEnds
<1>0. consent \in ConsentRecords /\ Asked = consent.params
  BY AskedOnConsent DEF RequestKept
<1>1. CASE LeaveTo
  BY <1>1 DEF LeaveTo, RequestEnds
<1>2. CASE Reauthenticate(task)
  <2>1. saved'.fresh /\ saved'.params = consent.params /\ page' = "consent"
    BY <1>2 DEF Reauthenticate, Save
  <2>2. consent'.invalidating
    BY <1>0, <1>2 DEF Reauthenticate, ConsentRecords
  <2>3. saved' # None
    <3>1. saved' \in SavedRecords
      BY <1>2 DEF Reauthenticate, Save, RequestKept, SavedRecords
    <3> QED BY <3>1, NoneIsNobody
  <2> QED BY <1>0, <2>1, <2>2, <2>3 DEF Asked, Pending
<1>3. CASE page' = page /\
           consent' = [consent EXCEPT !.details = None, !.error = TRUE, !.asking = @ \ {task}]
  <2>1. consent'.error
    BY <1>0, <1>3 DEF ConsentRecords
  <2> QED BY <1>3, <2>1 DEF RequestEnds
<1> QED BY <1>1, <1>2, <1>3 DEF HandleError

(* What is sent to the consent page is asked there, or kept.                 *)
LEMMA AuthorizeAsks ==
  ASSUME NEW p \in Requests, EnterAuthorize(p)
  PROVE  Asked' = p
<1>1. CASE store.session = None
  <2> DEFINE new == [params |-> p, fresh |-> TRUE]
  <2>1. new \in SavedRecords /\ new.fresh /\ new.params = p
    BY DEF SavedRecords
  <2> HIDE DEF new
  <2>2. saved' = new /\ page' = "login"
    BY <1>1 DEF EnterAuthorize, Save, new
  <2> QED BY <2>1, <2>2, NoneIsNobody DEF Asked, Pending
<1>2. CASE store.session # None
  <2>1. page' = "consent" /\ consent' = [EmptyConsent EXCEPT !.params = p, !.asking = {"load"}]
    BY <1>2 DEF EnterAuthorize
  <2>2. consent'.params = p /\ ~consent'.error /\ ~consent'.invalidating
    BY <2>1 DEF EmptyConsent
  <2> QED BY <2>1, <2>2 DEF Asked
<1> QED BY <1>1, <1>2

(* Choosing and pressing buttons leave the request as it is.                 *)
LEMMA QuestionStays ==
  ASSUME RequestKept(page, saved, consent), Asked # None,
         UNCHANGED <<page, saved>>,
         consent'.params = consent.params, consent'.error = consent.error,
         consent'.invalidating = consent.invalidating
  PROVE  Asked' = Asked
BY DEF Asked, Pending

(* Every step keeps the request, or ends it as the code does.                *)
LEMMA KeptStep ==
  ASSUME RequestKept(page, saved, consent), ConsentIsQuiet, Asked # None, Next
  PROVE  Asked' = Asked \/ RequestEnds
<1>0. consent \in ConsentRecords
  BY DEF RequestKept
<1>1. CASE SignInNext /\ UNCHANGED consentVars
  <2>1. page # "consent" /\ page' # "consent"
    BY <1>1, NobodySignsInOnConsent, SignInStaysOutside
  <2> QED BY <1>1, <2>1 DEF consentVars, Asked, Pending
<1>2. CASE SavedGrowsStale \/ AppAsks
  BY <1>2 DEF RequestEnds
<1>3. CASE EnterConsole
  <2>1. page = "to-console" /\ Asked = Pending
    BY <1>3 DEF EnterConsole, Asked
  <2>2. CASE page' \in {"login", "onboard"} /\ UNCHANGED saved
    BY <2>1, <2>2 DEF Asked, Pending
  <2>3. CASE EnterAuthorize(Pending)
    <3>1. Pending \in Requests
      BY <2>1 DEF Pending, RequestKept, SavedRecords
    <3> QED BY <2>1, <2>3, <3>1, AuthorizeAsks
  <2> QED BY <1>3, <2>1, <2>2, <2>3 DEF EnterConsole, Resume
<1>4. CASE SignUpEnds
  BY <1>4 DEF SignUpEnds, SignedIn, consentVars, Asked, Pending
<1>5. CASE Loaded
  <2>1. page = "consent"
    BY <1>5 DEF Loaded
  <2>2. CASE Reauthenticate("load") \/ HandleError("load")
    BY <2>1, <2>2, AnswerEndsOrKeeps
  <2>3. CASE ~(Reauthenticate("load") \/ HandleError("load"))
    <3>1. PICK own \in SUBSET Organizations, needed \in BOOLEAN, skip \in BOOLEAN :
            /\ consent' = [consent EXCEPT
                   !.details = Details(needed, own),
                   !.chosen = IF own = {} THEN None ELSE CHOOSE o \in own : TRUE,
                   !.asking = IF skip THEN {"approve"} ELSE {}]
            /\ UNCHANGED <<saved, page>>
      BY <1>5, <2>3 DEF Loaded
    <3> DEFINE details == Details(needed, own)
               chosen == IF own = {} THEN None ELSE CHOOSE o \in own : TRUE
               asking == IF skip THEN {"approve"} ELSE {}
    <3>2. consent' = [consent EXCEPT !.details = details, !.chosen = chosen, !.asking = asking]
      BY <3>1
    <3> HIDE DEF details, chosen, asking
    <3>3. /\ consent'.params = consent.params /\ consent'.error = consent.error
          /\ consent'.invalidating = consent.invalidating
      BY <1>0, <3>2 DEF ConsentRecords
    <3> QED BY <3>1, <3>3, QuestionStays
  <2> QED BY <2>2, <2>3
<1>6. CASE SelectOrganization \/ Approve \/ Deny
  <2>1. UNCHANGED <<saved, page>>
    BY <1>6 DEF SelectOrganization, Approve, Deny, signInVars
  <2>2. \E v : consent' = [consent EXCEPT !.chosen = v] \/ consent' = [consent EXCEPT !.asking = v]
    BY <1>6 DEF SelectOrganization, Approve, Deny
  <2>3. /\ consent'.params = consent.params /\ consent'.error = consent.error
        /\ consent'.invalidating = consent.invalidating
    BY <1>0, <2>2 DEF ConsentRecords
  <2> QED BY <2>1, <2>3, QuestionStays
<1>7. CASE Approved \/ Denied \/ SwitchAccount
  BY <1>7, AnswerEndsOrKeeps DEF Approved, Denied, SwitchAccount
<1>8. CASE SessionInvalidated
  BY <1>8 DEF SessionInvalidated, SignedOut, Asked, Pending
<1>9. CASE GoToConsole
  BY <1>9 DEF GoToConsole, Asked, Pending
<1> QED
  BY <1>1, <1>2, <1>3, <1>4, <1>5, <1>6, <1>7, <1>8, <1>9 DEF Next, ConsentNext

(* Every step of signing in.                                                 *)
LEMMA SignInInvStep ==
  ASSUME SignInInv, Next
  PROVE  SignInInv'
<1>0. /\ TabTyped /\ CodesInOrder /\ RequestsKnow(calls, store)
      /\ PagesKnow(page, twoFa, url, email) /\ RequestKept(page, saved, consent) /\ ConsentIsQuiet
  BY DEF SignInInv
<1>1. TabTyped'
  BY <1>0, LoginTyped, SecondFactorTyped, PersonTyped, BrowserTyped, ConsentTabTyped
     DEF Next, SignInNext, ApiAnswers, PersonActs, RouterActs
<1>2. RequestsKnow(calls', store')
  BY <1>0, LoginKnows, OthersKnow
<1> QED
  BY <1>0, <1>1, <1>2, CodesStep, PagesStep, RequestStep, QuietStep DEF SignInInv

(* What the invariant says of the tab.                                       *)
LEMMA SignInKept ==
  ASSUME SignInInv
  PROVE  /\ SignInTypeOK /\ InOnePlace
         /\ page = "two-fa" => twoFa.identity = url.token
         /\ page = "verification" => email \in {url.token, None}
         /\ \A c \in 1..MaxHandshakes : redeemed[c] <= 1
<1>1. SignInTypeOK
  <2>1. \A c \in calls : c.who \in Somebody /\ c.identity \in Somebody
    BY DEF SignInInv, TabTyped, CallRecords
  <2>2. url \in [token : Somebody, fragment : 0..MaxHandshakes] /\ handed \in 0..MaxHandshakes
    <3>1. url \in UrlRecords /\ url.fragment \in 0..MaxHandshakes /\ handed \in 0..MaxHandshakes
      BY NoneIsNobody DEF SignInInv, TabTyped, UrlRecords, CodesInOrder
    <3> QED BY <3>1 DEF UrlRecords
  <2>3. /\ page \in Pages /\ session \in Somebody /\ store \in StoreRecords /\ form \in FormRecords
        /\ twoFa \in TwoFaRecords /\ email \in Somebody /\ entering \in Somebody
        /\ redeemed \in [1..MaxHandshakes -> Nat]
    BY DEF SignInInv, TabTyped, CodesInOrder
  <2>4. saved = None \/ saved.params \in Requests
    BY DEF SignInInv, RequestKept, SavedRecords
  <2>5. consent.params \in Requests \cup {None} /\ consent.asking \subseteq {"load", "approve", "deny"}
    BY DEF SignInInv, RequestKept, ConsentRecords
  <2> QED
    BY <2>1, <2>2, <2>3, <2>4, <2>5 DEF SignInTypeOK, StoreRecords, FormRecords, TwoFaRecords
<1>2. InOnePlace
  BY DEF SignInInv, RequestKept, InOnePlace, Pending
<1>3. \A c \in 1..MaxHandshakes : redeemed[c] <= 1
  BY DEF SignInInv, CodesInOrder
<1> QED BY <1>1, <1>2, <1>3 DEF SignInInv, PagesKnow

-----------------------------------------------------------------------------
(* The whole: the invariant of the way that is taken.                        *)
EntryInv ==
  \/ part = "sign-in" /\ SignInInv
  \/ part = "install" /\ NoSignIn /\ InstallInv
  \/ part = "onboard" /\ NoSignIn /\ FlowInv
  \/ part = "context" /\ NoSignIn /\ ContextInv
  \/ part = "sign-up" /\ NoSignIn /\ SignUpInv

LEMMA EntryInvInit == EntryInit => EntryInv
BY SignInInvInit, InstallInvInit, FlowInvInit, ContextInvInit, SignUpInvInit DEF EntryInit, EntryInv

(* Nothing happens to what is not signed in.                                 *)
LEMMA NoSignInStays == NoSignIn /\ UNCHANGED othersVars => NoSignIn'
BY DEF NoSignIn, othersVars, consentVars

(* A step that leaves all as it is.                                          *)
LEMMA EntryInvStays ==
  ASSUME EntryInv, UNCHANGED entryVars
  PROVE  EntryInv'
<1>0. /\ UNCHANGED <<part, ui, db, calls>> /\ UNCHANGED othersVars
      /\ UNCHANGED <<page, url, store, session, form, twoFa, email, entering, handed, redeemed>>
      /\ UNCHANGED <<saved, consent, visits>>
  BY DEF entryVars, vars, signInVars, consentVars, othersVars
<1>1. SignInInv => SignInInv'
  BY <1>0 DEF SignInInv, TabTyped, CodesInOrder, ConsentIsQuiet
<1>2. InstallInv => InstallInv'
  BY <1>0 DEF InstallInv
<1>3. FlowInv => FlowInv'
  BY <1>0 DEF FlowInv, HistoryInOrder, CallsInOrder
<1>4. ContextInv => ContextInv'
  BY <1>0 DEF ContextInv
<1>5. SignUpInv => SignUpInv'
  BY <1>0 DEF SignUpInv
<1>6. NoSignIn => NoSignIn'
  BY <1>0, NoSignInStays
<1> QED BY <1>0, <1>1, <1>2, <1>3, <1>4, <1>5, <1>6 DEF EntryInv

LEMMA EntryInvStep ==
  ASSUME EntryInv, [EntryNext]_entryVars
  PROVE  EntryInv'
<1>1. CASE UNCHANGED entryVars
  BY <1>1, EntryInvStays
<1>2. CASE SigningIn(Next)
  <2>1. part = "sign-in" /\ Next /\ part' = part
    BY <1>2 DEF SigningIn
  <2>2. SignInInv
    BY <2>1 DEF EntryInv
  <2> QED BY <2>1, <2>2, SignInInvStep DEF EntryInv
<1>3. CASE /\ UNCHANGED <<part, othersVars>>
           /\ \/ part = "install" /\ Installing!Next
              \/ part = "onboard" /\ Flow!Next
              \/ part = "context" /\ Context!Next
              \/ part = "sign-up" /\ Registering!Next
  <2>1. part' = part /\ (NoSignIn => NoSignIn')
    BY <1>3, NoSignInStays
  <2> QED
    BY <1>3, <2>1, InstallInvStep, FlowInvStep, ContextInvStep, SignUpInvStep DEF EntryInv
<1> QED BY <1>1, <1>2, <1>3 DEF EntryNext

LEMMA EntryAlwaysInOrder == EntrySpec => []EntryInv
<1>1. EntryInv /\ [EntryNext]_entryVars => EntryInv'
  BY EntryInvStep
<1> QED BY EntryInvInit, <1>1, PTL DEF EntrySpec

(* What it says of the whole.                                                *)
LEMMA EntryInOrder ==
  ASSUME EntryInv
  PROVE  /\ TypeOK /\ PagesKnowWhoTheyAreFor /\ CodesRedeemedOnce
         /\ InOnePlace /\ ListensOnce /\ OnboardingRemembers
<1>1. CASE part = "sign-in"
  <2>1. SignInInv
    BY <1>1 DEF EntryInv
  <2> QED
    BY <1>1, <2>1, SignInKept
       DEF TypeOK, PagesKnowWhoTheyAreFor, CodesRedeemedOnce, ListensOnce, OnboardingRemembers
<1>2. CASE part # "sign-in"
  <2>1. page = "unused"
    BY <1>2 DEF EntryInv, NoSignIn
  <2>2. InOnePlace /\ CodesRedeemedOnce
    BY <1>2, <2>1 DEF InOnePlace, CodesRedeemedOnce
  <2>3. part = "install" => Installing!ListensOnce /\ Installing!TypeOK
    BY InstallKept DEF EntryInv
  <2>4. part = "onboard" => Flow!HistoryIsKept /\ Flow!TypeOK
    BY FlowKept DEF EntryInv
  <2>5. part = "context" => Context!TypeOK /\ Context!DeletedStaysDeleted
    BY ContextKept DEF EntryInv
  <2>6. part = "sign-up" => /\ Registering!TypeOK /\ Registering!SpentIntentsAreGone
                            /\ Registering!VouchedEmailsStay /\ Registering!ResendsAreForThePage
    BY SignUpKept DEF EntryInv
  <2>7. part \in {"install", "onboard", "context", "sign-up"}
    BY <1>2 DEF EntryInv
  <2>8. TypeOK
    BY <2>3, <2>4, <2>5, <2>6, <2>7 DEF TypeOK
  <2> QED
    BY <2>1, <2>2, <2>3, <2>4, <2>5, <2>6, <2>8
       DEF PagesKnowWhoTheyAreFor, ListensOnce, OnboardingRemembers
<1> QED BY <1>1, <1>2

-----------------------------------------------------------------------------
(* Whatever the way into the console, its state has its type, and a request  *)
(* that is unanswered is one the code sends.                                 *)
THEOREM EntryIsTyped == EntrySpec => []TypeOK
BY EntryAlwaysInOrder, EntryInOrder, PTL

(* A page that asks for a second factor or a code asks for that of the       *)
(* account in its address bar, whoever tried before (routes/auth/two-fa.js,  *)
(* routes/auth/verification.js); a code is resent for the sign-up that the   *)
(* page verifies (services/onboarding-verification.js).                      *)
THEOREM PagesAskTheRightPerson == EntrySpec => []PagesKnowWhoTheyAreFor
BY EntryAlwaysInOrder, EntryInOrder, PTL

(* No handoff code is sent to the API twice, whatever is reloaded            *)
(* (routes/auth/oauth-callback.js).                                          *)
THEOREM NoCodeIsReplayed == EntrySpec => []CodesRedeemedOnce
BY EntryAlwaysInOrder, EntryInOrder, PTL

(* An app's request stays the same one through every way of signing in, out  *)
(* and in again, until the browser leaves for the app, an error is shown, it *)
(* grows stale, or an app asks anew; and it is not kept as well once the     *)
(* console opens or the consent page has it (routes/oauth/authorize.js,      *)
(* controllers/oauth/authorize.js, services/oauth-authorization.js).         *)
THEOREM RequestsAreKept == EntrySpec => RequestIsKept
<1>1. EntryInv => InOnePlace
  BY EntryInOrder
<1>2. EntryInv /\ [EntryNext]_entryVars => [Kept]_entryVars
  <2> SUFFICES ASSUME EntryInv, EntryNext, part = "sign-in", Asked # None
               PROVE  Asked' = Asked \/ RequestEnds
    BY DEF Kept
  <2>1. Next
    BY DEF EntryNext, SigningIn
  <2>2. RequestKept(page, saved, consent) /\ ConsentIsQuiet
    BY DEF EntryInv, SignInInv
  <2> QED BY <2>1, <2>2, KeptStep
<1> QED BY EntryAlwaysInOrder, <1>1, <1>2, PTL DEF EntrySpec, RequestIsKept

(* One loop, or one retry, waits for the end of the installation, and none   *)
(* outlives its page (routes/install.js, services/installation.js).          *)
THEOREM OneLoopListens == EntrySpec => []ListensOnce
BY EntryAlwaysInOrder, EntryInOrder, PTL

(* The onboarding's history is kept and holds each step once, what its       *)
(* context deleted stays deleted whatever the storage refused, a spent       *)
(* identity is not asked with again, and an account made with one has the    *)
(* e-mail vouched for (onboarding-orchestrator.js, onboarding-context.js,    *)
(* components/onboarding/form.js).                                           *)
THEOREM OnboardingIsRemembered == EntrySpec => []OnboardingRemembers
BY EntryAlwaysInOrder, EntryInOrder, PTL
=============================================================================
