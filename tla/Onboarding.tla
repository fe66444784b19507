----------------------------- MODULE Onboarding -----------------------------
(***************************************************************************)
(* The onboarding flow: services/onboarding-orchestrator.js, driven by the  *)
(* onboard route, components/onboarding/yield.js and the sign-up form.      *)
(* start, goto, next and back are async functions; a flow's hooks make them *)
(* wait, and a person may call another one meanwhile.  A call is a record   *)
(* of what it waits for ("at") and of the step it is about.  (A flow        *)
(* without hooks, such as the default one, does not wait: its behaviours    *)
(* are those in which every call runs to its end at once.)                  *)
(***************************************************************************)
EXTENDS Naturals, Sequences, SequencesExt

CONSTANTS
    Steps, Entry,
    NextOf,     \* the next step of each step, or NoStep
    NoStep,
    Guarded,    \* the steps whose guard rejects the context
    Fixed,      \* the steps with allowBack === false
    Runs,       \* the calls that may be under way at a time
    MaxReloads

StepsAssumption ==
    /\ Entry \in Steps /\ NoStep \notin Steps
    /\ NextOf \in [Steps -> Steps \cup {NoStep}]

VARIABLES
    ui,         \* the orchestrator's current, history and whether this visit has
                \* started it; unsaved: the history was not written; reloads
    calls,      \* the calls under way
    db          \* localStorage's history and the step in the address bar

vars == <<ui, calls, db>>

Idle == [op |-> "none", at |-> "done", step |-> NoStep]
Run(op, at, step) == [op |-> op, at |-> at, step |-> step]
At(i, at, step) == calls' = [calls EXCEPT ![i].at = at, ![i].step = step]

Init ==
    /\ ui = [current |-> NoStep, history |-> <<>>, started |-> FALSE, unsaved |-> FALSE,
             reloads |-> 0, account |-> FALSE]
    /\ calls = [i \in Runs |-> Idle]
    /\ db = [history |-> <<>>, step |-> NoStep]

Free(i) == calls[i].at = "done" /\ \A j \in Runs : j < i => calls[j].at # "done"
Started == ui.started

-----------------------------------------------------------------------------
(* start(null, { resume: true }): the history, not the current step.        *)
Start ==
    \E i \in Runs :
        /\ ~Started /\ Free(i)
        /\ ui' = [ui EXCEPT !.history = db.history, !.started = TRUE, !.unsaved = FALSE]
        /\ calls' = [calls EXCEPT ![i] = Run("start", "flow-will-start", NoStep)]
        /\ UNCHANGED db

FlowWillStart(i) ==
    /\ calls[i].at = "flow-will-start"
    /\ At(i, "will-change", Entry)
    /\ UNCHANGED <<ui, db>>

(* A call of start goes on to onFlowDidStart, the others are done. *)
Return(i) == IF calls[i].op = "start" /\ calls[i].at # "did-start" THEN "did-start" ELSE "done"

(* goto, or the end of the flow. *)
GotoOrComplete(i, step, leaving) ==
    IF step = NoStep THEN At(i, "will-end", leaving) ELSE At(i, "will-change", step)

(* Mutant: the rejected step is left by next(), which leaves the current. *)
Skip_ByNext(i) ==
    GotoOrComplete(i, IF ui.current = NoStep THEN NoStep ELSE NextOf[ui.current], calls[i].step)

(* _skip(step): on to the rejected step's own next. *)
Skip(i) == GotoOrComplete(i, NextOf[calls[i].step], calls[i].step)

(* goto after onStepWillChange: the guard. *)
StepWillChange(i) ==
    /\ calls[i].at = "will-change"
    /\ IF calls[i].step \in Guarded THEN Skip(i) ELSE At(i, "before-enter", calls[i].step)
    /\ UNCHANGED <<ui, db>>

(* goto after beforeEnter: the step is current. *)
BeforeEnter(i) ==
    /\ calls[i].at = "before-enter"
    /\ ui' = [ui EXCEPT !.current = calls[i].step]
    /\ At(i, "did-change", calls[i].step)
    /\ UNCHANGED db

StepDidChange(i) ==
    /\ calls[i].at \in {"did-change", "did-start"}
    /\ At(i, Return(i), calls[i].step)
    /\ UNCHANGED <<ui, db>>

(* Mutant: the step is recorded again when it is left again. *)
Recorded_Always(history, step) == Append(history, step)

Recorded(history, step) == IF Contains(history, step) THEN history ELSE Append(history, step)

(* Mutant: the history is written only if it got longer. *)
Persisted_NotOnBack(h) == IF Len(h) < Len(ui.history) THEN db ELSE [db EXCEPT !.history = h]

Persisted(h) == [db EXCEPT !.history = h]

(* _persistHistory: a storage that refuses is only warned of. *)
Persist(h) ==
    \/ ui' = [ui EXCEPT !.history = h, !.unsaved = FALSE] /\ db' = Persisted(h)
    \/ ui' = [ui EXCEPT !.history = h, !.unsaved = TRUE] /\ UNCHANGED db

(* next() after afterLeave: record and persist, then on. *)
AfterLeave(i) ==
    /\ calls[i].at = "after-leave"
    /\ LET h == Recorded(ui.history, calls[i].step) IN
       IF h = ui.history THEN UNCHANGED <<ui, db>> ELSE Persist(h)
    /\ GotoOrComplete(i, NextOf[calls[i].step], calls[i].step)

(* _completeFlow after onFlowWillEnd, and after onFlowDidEnd. *)
FlowWillEnd(i) ==
    /\ calls[i].at = "will-end"
    /\ ui' = [ui EXCEPT !.current = NoStep]
    /\ At(i, "did-end", calls[i].step)
    /\ UNCHANGED db

FlowDidEnd(i) ==
    /\ calls[i].at = "did-end"
    /\ db' = [db EXCEPT !.history = <<>>]
    /\ At(i, Return(i), calls[i].step)
    /\ UNCHANGED ui

-----------------------------------------------------------------------------
(* What a person calls.                                                    *)
Next_(i) ==
    /\ Started /\ Free(i) /\ ui.current # NoStep
    /\ calls' = [calls EXCEPT ![i] = Run("next", "after-leave", ui.current)]
    /\ UNCHANGED <<ui, db>>

Back(i) ==
    /\ Started /\ Free(i) /\ ui.history # <<>>
    /\ Last(ui.history) \notin Fixed
    /\ Persist(Front(ui.history))
    /\ calls' = [calls EXCEPT ![i] = Run("back", "will-change", Last(ui.history))]

(* The form: create-account succeeds; next() is not awaited, and the step   *)
(* of that moment goes to the address bar.                                  *)
AccountCreated(i) ==
    /\ Started /\ Free(i) /\ ui.current = Entry /\ ~ui.account
    /\ ui' = [ui EXCEPT !.account = TRUE]
    /\ calls' = [calls EXCEPT ![i] = Run("next", "after-leave", ui.current)]
    /\ db' = [db EXCEPT !.step = ui.current]

(* yield.js: the step in the address bar is entered. *)
GotoStepOfUrl(i) ==
    /\ Started /\ Free(i) /\ db.step # NoStep /\ ui.reloads > 0
    /\ \A j \in Runs : calls[j].op # "url"
    /\ calls' = [calls EXCEPT ![i] = Run("url", "will-change", db.step)]
    /\ UNCHANGED <<ui, db>>

(* The page is loaded again, at any time. *)
Reload ==
    /\ Started /\ ui.reloads < MaxReloads
    /\ ui' = [current |-> NoStep, history |-> <<>>, started |-> FALSE, unsaved |-> FALSE,
              reloads |-> ui.reloads + 1, account |-> ui.account]
    /\ calls' = [i \in Runs |-> Idle]
    /\ UNCHANGED db

(* The onboarding page is left and entered again without a page load: the   *)
(* services stay, the calls of the last visit are over.                     *)
Reenter ==
    /\ Started /\ ui.reloads < MaxReloads
    /\ \A i \in Runs : calls[i].at = "done"
    /\ ui' = [ui EXCEPT !.started = FALSE, !.reloads = @ + 1]
    /\ calls' = [i \in Runs |-> Idle]
    /\ UNCHANGED db

Continue(i) ==
    \/ FlowWillStart(i) \/ StepWillChange(i) \/ BeforeEnter(i) \/ StepDidChange(i)
    \/ AfterLeave(i) \/ FlowWillEnd(i) \/ FlowDidEnd(i)

Next ==
    \/ Start \/ Reload \/ Reenter
    \/ \E i \in Runs : Continue(i) \/ Next_(i) \/ Back(i) \/ AccountCreated(i) \/ GotoStepOfUrl(i)

-----------------------------------------------------------------------------
TypeOK ==
    /\ ui.current \in Steps \cup {NoStep}
    /\ ui.history \in Seq(Steps) /\ db.history \in Seq(Steps)
    /\ \A i \in Runs : calls[i].step \in Steps \cup {NoStep}

(* The history never holds a step twice, however many calls leave it, so    *)
(* that back() never goes to where one is; and what is kept in localStorage *)
(* is that history, or nothing (before it is restored, after the flow).     *)
HistoryIsKept ==
    /\ IsInjective(ui.history)
    /\ db.history \in {ui.history, <<>>} \/ ui.unsaved \/ ~Started
=============================================================================
