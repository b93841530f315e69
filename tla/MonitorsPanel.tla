---------------------------- MODULE MonitorsPanel ----------------------------
(***************************************************************************)
(* The page of the monitor tasks (apps/web/src/monitors.tsx): the list and *)
(* the loads that keep it fresh, the form, and the calls that a member     *)
(* starts from it.  A call is several requests in a row, each of which may *)
(* be refused or time out, and several calls run at once.                  *)
(*                                                                         *)
(* A task on the server is a revision, the number of its runs and whether  *)
(* the last one is still active.  A request whose answer the page gave up  *)
(* and that is served nevertheless is a change like another member's.      *)
(***************************************************************************)
EXTENDS Naturals, FiniteSets

CONSTANTS MaxTasks,     \* bound: tasks that are ever created
          MaxRevision,  \* bound: revision of a task
          MaxRuns,      \* bound: runs of a task
          Calls,        \* slots for the calls under way
          NoCall,
          MaxClicks     \* bound: calls that the member starts

VARIABLES tasks,  \* the monitor_tasks rows
          panel,  \* the state of the page
          call    \* what is under way

panelVars == <<tasks, panel, call>>

TaskIds == 1..MaxTasks
Missing == [id |-> 0, rev |-> 0, runs |-> 0, active |-> FALSE]
There(id) == tasks[id].rev > 0 /\ ~tasks[id].deleted
Card(id, row) == [id |-> id, rev |-> row.rev, runs |-> row.runs, active |-> row.active]
List == {Card(id, tasks[id]) : id \in {i \in TaskIds : There(i)}}

NoForm == [open |-> FALSE, card |-> Missing]
Idle == [step |-> "none", card |-> Missing, error |-> "none", answer |-> "none", got |-> {}]
\* calls are alike: a new one takes the first free slot
Free == {c \in Calls : call[c] = Idle}
First(c) == Free # {} /\ c = CHOOSE d \in Free : TRUE

PanelInit ==
  /\ tasks \in [TaskIds -> [rev : {0}, runs : {0}, active : {FALSE}, deleted : {FALSE}]]
  /\ panel = [loaded |-> FALSE, error |-> FALSE, shown |-> {}, form |-> NoForm, owner |-> NoCall,
              pending |-> {}, latest |-> NoCall, pollFailed |-> FALSE, polling |-> NoCall,
              removed |-> {}, clicks |-> 0]
  /\ call = [c \in Calls |-> Idle]

-----------------------------------------------------------------------------
(* Polling: an effect that is made anew, with a flag of its own, whenever  *)
(* what it depends on changes.                                             *)

HasRunning(p) == \E t \in p.shown : t.active
\* Faulty variant: the page polls only after a failure.
MustPollAfterFailure(p) == p.pollFailed
MustPoll(p) == HasRunning(p) \/ p.pollFailed
Effect(p) == IF HasRunning(p) = HasRunning(panel) /\ p.pollFailed = panel.pollFailed THEN p
             ELSE [p EXCEPT !.polling = NoCall]

\* load(): only the answer to the load that was started last is shown, and none that
\* was under way when the page itself changed its list; "latest" is the load whose
\* version is the current one
Loading(card, error) == [Idle EXCEPT !.step = "load", !.card.id = card.id, !.error = error]

StartLoad(c, p) ==
  /\ First(c) /\ panel' = [p EXCEPT !.latest = c]
  /\ call' = [call EXCEPT ![c] = Loading(Missing, "none")]
  /\ UNCHANGED tasks

Mount(c) == ~panel.loaded /\ ~panel.error /\ Free = Calls /\ StartLoad(c, panel)

Poll(c) == MustPoll(panel) /\ panel.polling = NoCall
           /\ StartLoad(c, [panel EXCEPT !.polling = c])

\* a click of the member, until the bound
Click == [panel EXCEPT !.clicks = @ + 1]
MayClick == panel.clicks < MaxClicks

Retry(c)   == MayClick /\ ~panel.loaded /\ panel.error /\ StartLoad(c, Click)
Refresh(c) == /\ MayClick /\ \E t \in panel.shown : t.active \/ t.id \in panel.pending
              /\ StartLoad(c, Click)

-----------------------------------------------------------------------------
(* What a member starts.                                                   *)

\* a card offers its actions while nothing is known to work on its task
Offered(t) == ~t.active /\ t.id \notin panel.pending

\* every button that opens or leaves the form is disabled while the form is saved
BeginEdit(form) == /\ panel.loaded /\ panel.owner = NoCall /\ panel.form # form
                   /\ panel' = [panel EXCEPT !.form = form]
                   /\ UNCHANGED <<tasks, call>>
New    == BeginEdit([open |-> TRUE, card |-> Missing])
Edit(t) == Offered(t) /\ BeginEdit([open |-> TRUE, card |-> t])
Cancel == BeginEdit(NoForm)

StartCall(c, step, card, p) ==
  /\ MayClick /\ First(c)
  /\ panel' = Effect([p EXCEPT !.clicks = @ + 1, !.pending = @ \cup ({card.id} \ {0})])
  /\ call' = [call EXCEPT ![c] = [Idle EXCEPT !.step = step, !.card = card]]
  /\ UNCHANGED tasks

Submit(c) == /\ panel.form.open /\ panel.owner = NoCall
             /\ panel.form.card.id \notin panel.pending
             /\ StartCall(c, "save", panel.form.card, [panel EXCEPT !.owner = c])

\* interpret, test, run and smarter start a run; approve, pause, resume and quality
\* change the task
Act(c, t, step) == Offered(t) /\ StartCall(c, step, t, panel)
Remove(c, t) == Offered(t) /\ StartCall(c, "delete", t, panel)

-----------------------------------------------------------------------------
(* The server: every change is fenced by the revision the page sent.       *)

Current(card) == card.id # 0 /\ There(card.id) /\ tasks[card.id].rev = card.rev
Change(id) == /\ tasks[id].rev < MaxRevision
              /\ tasks' = [tasks EXCEPT ![id].rev = @ + 1]
Create(id) == /\ tasks[id].rev = 0 /\ (id > 1 => tasks[id - 1].rev > 0)
              /\ tasks' = [tasks EXCEPT ![id].rev = 1]
Enqueue(id) == /\ ~tasks[id].active /\ tasks[id].runs < MaxRuns
               /\ tasks' = [tasks EXCEPT ![id].runs = @ + 1, ![id].active = TRUE]
Delete(id) == tasks' = [tasks EXCEPT ![id].deleted = TRUE, ![id].active = FALSE]

Answer(c, id) == call' = [call EXCEPT ![c].answer = "ok", ![c].got = {Card(id, tasks'[id])}]

Serve(c) ==
  /\ call[c].step # "none" /\ call[c].answer = "none"
  /\ LET card == call[c].card IN
     \/ call[c].step = "save" /\ card.id = 0 /\ \E id \in TaskIds : Create(id) /\ Answer(c, id)
     \/ call[c].step \in {"save", "change"} /\ Current(card) /\ Change(card.id) /\ Answer(c, card.id)
     \/ call[c].step = "run" /\ Current(card) /\ Enqueue(card.id) /\ Answer(c, card.id)
     \/ call[c].step = "delete" /\ Current(card) /\ Delete(card.id) /\ Answer(c, card.id)
     \/ /\ call[c].step = "load" /\ UNCHANGED tasks
        /\ call' = [call EXCEPT ![c].answer = "ok", ![c].got = List]
  /\ UNCHANGED panel

Refuse(c) ==
  /\ call[c].step \notin {"none", "load"} /\ call[c].answer = "none"
  /\ call' = [call EXCEPT ![c].answer = "refused"]
  /\ UNCHANGED <<tasks, panel>>

\* other members, the scheduler and the worker
OthersChange(id) ==
  /\ \/ Create(id)
     \/ There(id) /\ (Change(id) \/ Enqueue(id) \/ Delete(id))
  /\ UNCHANGED <<panel, call>>
RunEnds(id) ==
  /\ tasks[id].active /\ tasks' = [tasks EXCEPT ![id].active = FALSE]
  /\ UNCHANGED <<panel, call>>

-----------------------------------------------------------------------------
(* The answers.                                                            *)

TheCard(c) == CHOOSE t \in call[c].got : TRUE
Without(p, id) == {t \in p.shown : t.id # id}

\* Faulty variant: the page changes its list, and a load under way does not notice.
UpsertOnly(p, t) == [p EXCEPT !.shown = Without(p, t.id) \cup {t}]
\* upsert(): the saved task in its place, or first
Upsert(p, t) == [p EXCEPT !.latest = NoCall, !.shown = Without(p, t.id) \cup {t}]

\* acceptRun(): the run that the answer names becomes the one the card shows
AcceptRun(p, run) ==
  [p EXCEPT !.shown = {IF t.id = run.id THEN [t EXCEPT !.runs = run.runs, !.active = run.active]
                       ELSE t : t \in @}]

\* Faulty variant: the cleanup of a call unlocks the form for whoever holds it.
ReleaseAny(p, c) == [p EXCEPT !.owner = NoCall]
ReleaseForm(p, c) == IF p.owner = c THEN [p EXCEPT !.owner = NoCall] ELSE p

\* finally: the task is free, and the form if this call still holds it
Finished(p, c) == [ReleaseForm(p, c) EXCEPT !.pending = @ \ {call[c].card.id}]

\* a saved task leaves the form and is interpreted
Saved(c) ==
  LET t == TheCard(c) IN
  /\ panel' = Effect([ReleaseForm(Upsert(panel, t), c) EXCEPT !.pending = @ \cup {t.id},
                                                              !.form = NoForm])
  /\ call' = [call EXCEPT ![c] = [Idle EXCEPT !.step = "run", !.card = t]]

\* an action is followed by a load
Acted(c) ==
  /\ panel' = Effect([(IF call[c].step = "run" THEN AcceptRun(panel, TheCard(c)) ELSE panel)
                       EXCEPT !.latest = c])
  /\ call' = [call EXCEPT ![c] = Loading(@.card, "none")]

Removed(c) ==
  LET id == call[c].card.id IN
  /\ panel' = Effect(Finished([panel EXCEPT !.latest = NoCall, !.shown = Without(panel, id),
                                            !.removed = @ \cup {id}], c))
  /\ call' = [call EXCEPT ![c] = Idle]

\* an error of a call: the list is loaded before the error is shown
CallFails(c, error) ==
  /\ panel' = [panel EXCEPT !.latest = c]
  /\ call' = [call EXCEPT ![c] = Loading(@.card, error)]

\* the version decides whether an answer is shown
Shown(c, ok) == ok /\ panel.latest = c

\* The end of a load, and with it of the call that it belongs to: no answer makes the
\* page poll, unless it is the first load, whose error offers to try again.
LoadEnds(c, ok) ==
  /\ panel' = Effect(Finished(
       [panel EXCEPT !.shown = IF Shown(c, ok) THEN call[c].got ELSE @,
                     !.loaded = @ \/ Shown(c, ok),
                     !.error = ~panel.loaded /\ ~Shown(c, ok) /\ (@ \/ ~ok),
                     !.polling = IF @ = c THEN NoCall ELSE @,
                     !.latest = IF @ = c THEN NoCall ELSE @,
                     !.pollFailed = \/ call[c].error = "offline"
                                    \/ ~ok /\ call[c].error = "none" /\ (panel.loaded \/ panel.error)
                                    \/ @ /\ ~Shown(c, ok)], c))
  /\ call' = [call EXCEPT ![c] = Idle]

Receive(c) ==
  /\ call[c].answer # "none" /\ UNCHANGED tasks
  /\ \/ call[c].answer = "refused" /\ CallFails(c, "refused")
     \/ call[c].answer = "ok" /\ call[c].step = "save" /\ Saved(c)
     \/ call[c].answer = "ok" /\ call[c].step \in {"run", "change"} /\ Acted(c)
     \/ call[c].answer = "ok" /\ call[c].step = "delete" /\ Removed(c)
     \/ call[c].answer = "ok" /\ call[c].step = "load" /\ LoadEnds(c, TRUE)

\* no answer within twelve seconds, or one that is lost
GiveUp(c) ==
  /\ call[c].step # "none" /\ UNCHANGED tasks
  /\ IF call[c].step = "load" THEN LoadEnds(c, FALSE) ELSE CallFails(c, "offline")

PanelNext ==
  \/ \E c \in Calls :
       \/ Mount(c) \/ Poll(c) \/ Retry(c) \/ Refresh(c) \/ Submit(c)
       \/ \E t \in panel.shown : Act(c, t, "run") \/ Act(c, t, "change") \/ Remove(c, t)
       \/ Serve(c) \/ Refuse(c) \/ Receive(c) \/ GiveUp(c)
  \/ New \/ Cancel \/ \E t \in panel.shown : Edit(t)
  \/ \E id \in TaskIds : OthersChange(id) \/ RunEnds(id)

\* The timer ticks, every request is answered or times out, and loads that are made
\* again and again are answered in the end.
PanelFairness ==
  /\ WF_panelVars(\E c \in Calls : Poll(c))
  /\ \A c \in Calls : /\ SF_panelVars(Serve(c)) /\ SF_panelVars(Receive(c))
                      /\ WF_panelVars(Receive(c) \/ GiveUp(c))

-----------------------------------------------------------------------------
(* Properties.                                                             *)

NotOlder(new, old) ==
  /\ new.rev >= old.rev /\ new.runs >= old.runs
  /\ new.runs = old.runs /\ new.active => old.active

\* A load never takes the list back: not to an older revision or state of a run than
\* the page has shown, and not to a task that was removed here, however the loads and
\* the calls of the page overlap.
ListNeverGoesBack ==
  [][\A c \in Calls : call[c].step = "load" /\ call'[c] = Idle /\ panel'.shown # panel.shown
       => /\ \A new \in panel'.shown : new.id \notin panel.removed
          /\ \A new \in panel'.shown, old \in panel.shown :
               new.id = old.id => NotOlder(new, old)]_panelVars

\* While the form is being saved it is locked by that save and holds what is saved,
\* whatever calls that outlived an earlier form do meanwhile.
FormStaysLocked ==
  \A c \in Calls : call[c].step = "save"
    => panel.owner = c /\ panel.form = [open |-> TRUE, card |-> call[c].card]

\* A run that the page shows as active and that has ended is shown as ended in the
\* end: the page polls as long as it shows one, whatever fails in between.
EndedRunsShown == <>[](\A t \in panel.shown : t.active => tasks[t.id].active)

=============================================================================
