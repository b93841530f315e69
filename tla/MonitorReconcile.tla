-------------------------- MODULE MonitorReconcile --------------------------
(***************************************************************************)
(* What the runs of one monitor task leave behind: its monitor_events rows *)
(* and the messages they announce (reconcileEvents in                      *)
(* services/api/src/monitor/engine.ts, withdrawMonitorMessages and the     *)
(* handlers of services/api/src/monitor/service.ts, runLifecycleBatch in   *)
(* services/api/src/lifecycle.ts).                                         *)
(*                                                                         *)
(* A run is one step here: MonitorExecution shows that no run commits once *)
(* its task changed.  A message is created under the idempotency key       *)
(* monitor-create:task:event:fingerprint, which is unique, so the pair of  *)
(* an event and a page fingerprint identifies it.  Time counts days.       *)
(***************************************************************************)
EXTENDS Integers, FiniteSets

CONSTANTS
  Events,     \* event keys the source may mention
  Pages,      \* fingerprints of the page (or forecast) that is analysed
  Links,      \* fingerprints of the other documents a run depends on
  Notice,     \* notice_days_before
  LastDay     \* bound: last day of the calendar

ASSUME Calendar == Notice \in Nat /\ LastDay \in Nat
ASSUME Sources == Pages # {} /\ Links # {}

VARIABLES
  task,      \* the monitor_tasks row: state, kind of rule and stored manifest
  now,       \* the day
  event,     \* monitor_events rows
  message,   \* messages rows of this task, by event and page
  removals,  \* monitor-remove keys of message_lifecycle_events
  settled    \* ghost: the last commit was that of a run that found changes

vars == <<task, now, event, message, removals, settled>>

Days == 0..LastDay
None == "none"
ASSUME NoneIsNoPage == None \notin Pages

Source   == [page : Pages, links : Links]
Messages == Events \X Pages

Live  == {"scheduled", "published"}
Ended == {"cancelled", "withdrawn", "expired"}
\* day: the day of its event, which gives publish_at and expires_at; no longer
\* read, and 0, once the message ended.  stopped: ended by the entry of a stop,
\* whose actor_type is "system".
NoMessage == [state |-> "none", day |-> 0, stopped |-> FALSE]
NoEvent   == [exists |-> FALSE, active |-> FALSE, day |-> 0, msg |-> None]

Init ==
  /\ task \in [state : {"draft"}, weather : BOOLEAN, baseline : {{}}]
  /\ now = 0
  /\ event = [k \in Events |-> NoEvent]
  /\ message = [m \in Messages |-> NoMessage]
  /\ removals = {}
  /\ settled = FALSE

-----------------------------------------------------------------------------
(* Ending messages *)

IsLive(m) == message[m].state \in Live

\* The live message that an event row links to.
Linked(k) == event[k].exists /\ event[k].msg # None /\ IsLive(<<k, event[k].msg>>)

EndRow(row, stop) ==
  [state |-> IF row.state = "scheduled" THEN "cancelled" ELSE "withdrawn",
   day |-> 0, stopped |-> stop]

EndLinked(S, stop) ==
  [m \in Messages |->
     IF m[1] \in S /\ Linked(m[1]) /\ event[m[1]].msg = m[2]
     THEN EndRow(message[m], stop) ELSE message[m]]

\* Faulty variant: only published messages are withdrawn.
WithdrawPublished ==
  [m \in Messages |->
     IF Linked(m[1]) /\ event[m[1]].msg = m[2] /\ message[m].state = "published"
     THEN EndRow(message[m], TRUE) ELSE message[m]]

\* withdrawMonitorMessages: every live message an event row links to.
WithdrawMonitorMessages == EndLinked(Events, TRUE)

\* The date of an event that is no longer active is not read again.
Inactive(row) == [row EXCEPT !.active = FALSE, !.day = 0]

-----------------------------------------------------------------------------
(* Handlers that start and stop the task; MonitorExecution has their guards *)

\* approve and resume.
Start ==
  /\ task.state \in {"draft", "paused"}
  /\ task' = [task EXCEPT !.state = "active"]
  /\ settled' = FALSE
  /\ UNCHANGED <<now, event, message, removals>>

\* Faulty variant: a pause keeps the stored manifest.
PauseKeepingBaseline ==
  /\ task.state = "active"
  /\ task' = [task EXCEPT !.state = "paused"]
  /\ message' = WithdrawMonitorMessages
  /\ settled' = FALSE
  /\ UNCHANGED <<now, event, removals>>

\* setState "pause", pauseUnauthorized and the rejection of an owner.
Pause ==
  /\ task.state = "active"
  /\ task' = [task EXCEPT !.state = "paused", !.baseline = {}]
  /\ message' = WithdrawMonitorMessages
  /\ settled' = FALSE
  /\ UNCHANGED <<now, event, removals>>

Update ==
  /\ task.state \in {"draft", "active", "paused"}
  /\ \E w \in BOOLEAN :
       task' = [task EXCEPT !.state = "draft", !.baseline = {}, !.weather = w]
  /\ message' = WithdrawMonitorMessages
  /\ event' = [k \in Events |-> Inactive(event[k])]
  /\ settled' = FALSE
  /\ UNCHANGED <<now, removals>>

\* The delete cascades to the event rows; the messages stay.
Remove ==
  /\ task.state \in {"draft", "active", "paused"}
  /\ task' = [task EXCEPT !.state = "deleted", !.baseline = {}]
  /\ message' = WithdrawMonitorMessages
  /\ event' = [k \in Events |-> NoEvent]
  /\ settled' = FALSE
  /\ UNCHANGED <<now, removals>>

-----------------------------------------------------------------------------
(* Runs *)

\* A manifest that matches every dependency; a weather rule is always analysed.
Unchanged(s) == ~task.weather /\ task.baseline = {s}

FinishUnchanged ==
  /\ task.state = "active" /\ \E s \in Source : Unchanged(s)
  /\ UNCHANGED vars

\* Findings: the days of the events a source mentions.
Findings == UNION {[F -> Days] : F \in SUBSET Events}

PublishDay(day) == day - Notice
LastsUntil(day) == day + 1
Upcoming(found) == {k \in DOMAIN found : LastsUntil(found[k]) > now}

Announced(day) ==
  [state |-> IF PublishDay(day) > now THEN "scheduled" ELSE "published",
   day |-> day, stopped |-> FALSE]

Moved(row, day) == [row EXCEPT !.day = day]

\* An event updates its message as long as that is live.
Updatable(k) == Linked(k)

\* Events that are active and no longer mentioned.
Gone(found) == {k \in Events \ DOMAIN found : event[k].exists /\ event[k].active}

\* The keys that a run would insert for a second time.
Collides(found, page) ==
  \/ \E k \in Upcoming(found) :
       ~Updatable(k) /\ message[<<k, page>>].state # "none"
  \/ \E k \in Gone(found) : Linked(k) /\ <<k, page>> \in removals

\* Faulty variant: events that are gone keep their messages.
ReconciledKeeping(found, page) ==
  [m \in Messages |->
     LET k == m[1]
     IN  CASE k \in Upcoming(found) /\ Updatable(k) /\ event[k].msg = m[2]
                -> Moved(message[m], found[k])
           [] k \in Upcoming(found) /\ ~Updatable(k) /\ m[2] = page
                -> Announced(found[k])
           [] OTHER -> message[m]]

ReconciledMessages(found, page) ==
  [m \in Messages |->
     LET k == m[1]
     IN  CASE k \in Upcoming(found) /\ Updatable(k) /\ event[k].msg = m[2]
                -> Moved(message[m], found[k])
           [] k \in Upcoming(found) /\ ~Updatable(k) /\ m[2] = page
                -> Announced(found[k])
           [] OTHER -> EndLinked(Gone(found), FALSE)[m]]

\* Faulty variant: an event row keeps its first link.
RelinkedOnce(found, page, k) == IF event[k].msg = None THEN page ELSE event[k].msg

\* The link moves to a message created by this run, and is kept otherwise.
Relinked(found, page, k) ==
  IF k \in Upcoming(found) /\ ~Updatable(k) THEN page ELSE event[k].msg

ReconciledEvents(found, page) ==
  [k \in Events |->
     IF k \in DOMAIN found
     THEN [exists |-> TRUE, active |-> TRUE, day |-> found[k],
           msg |-> Relinked(found, page, k)]
     ELSE Inactive(event[k])]

\* reconcileEvents.
Reconcile(s, found) ==
  /\ task.state = "active" /\ ~Unchanged(s)
  /\ ~Collides(found, s.page)
  /\ message' = ReconciledMessages(found, s.page)
  /\ event' = ReconciledEvents(found, s.page)
  /\ removals' = removals \cup
       {<<k, s.page>> : k \in {g \in Gone(found) : Linked(g)}}
  /\ task' = [task EXCEPT !.baseline = {s}]
  /\ settled' = TRUE
  /\ UNCHANGED now

\* A key inserted twice rolls the transaction back; finishFailure records a
\* failed run and leaves events, messages and manifest alone.
RollBack(s, found) ==
  /\ task.state = "active" /\ ~Unchanged(s)
  /\ Collides(found, s.page)
  /\ UNCHANGED vars

-----------------------------------------------------------------------------
(* Around the task: the lifecycle worker, users and time *)

Due(m) ==
  \/ message[m].state = "scheduled" /\ PublishDay(message[m].day) <= now
  \/ IsLive(m) /\ LastsUntil(message[m].day) <= now

Transitioned(row) ==
  IF LastsUntil(row.day) <= now THEN [row EXCEPT !.state = "expired", !.day = 0]
  ELSE [row EXCEPT !.state = "published"]

\* One batch; rows that are locked or beyond the limit are skipped.
RunLifecycleBatch ==
  /\ \E S \in (SUBSET {m \in Messages : Due(m)}) \ {{}} :
       message' = [m \in Messages |->
                     IF m \in S THEN Transitioned(message[m]) ELSE message[m]]
  /\ settled' = FALSE
  /\ UNCHANGED <<task, now, event, removals>>

\* A user withdraws the message of a monitor like any other.
UserWithdraws(m) ==
  /\ IsLive(m)
  /\ message' = [message EXCEPT ![m] = EndRow(@, FALSE)]
  /\ settled' = FALSE
  /\ UNCHANGED <<task, now, event, removals>>

DayPasses ==
  /\ now < LastDay /\ now' = now + 1
  /\ settled' = FALSE
  /\ UNCHANGED <<task, event, message, removals>>

-----------------------------------------------------------------------------
Next ==
  \/ Start \/ Pause \/ Update \/ Remove
  \/ FinishUnchanged
  \/ \E s \in Source, found \in Findings : Reconcile(s, found) \/ RollBack(s, found)
  \/ RunLifecycleBatch \/ \E m \in Messages : UserWithdraws(m)
  \/ DayPasses

Spec == Init /\ [][Next]_vars

-----------------------------------------------------------------------------
(* Properties *)

\* A live message of a monitor is the one its event row links to: an event
\* has at most one, and whatever stops the task reaches all of them.
LiveIsLinked ==
  \A m \in Messages : IsLive(m) =>
    event[m[1]].exists /\ event[m[1]].msg = m[2]

\* A task that is not active announces nothing, whatever runs came before.
StoppedAnnouncesNothing ==
  task.state # "active" => \A m \in Messages : ~IsLive(m)

\* After a run that found changes, every upcoming event it found has a live
\* message with its date, and an event it no longer found has none.
RunAnnounces ==
  settled =>
    \A k \in Events : event[k].exists =>
      IF event[k].active
      THEN LastsUntil(event[k].day) > now =>
             Linked(k) /\ message[<<k, event[k].msg>>].day = event[k].day
      ELSE ~Linked(k)

\* While the manifest of a run is stored, so that the next run may report
\* "unchanged", no upcoming event it found has lost its message to a stop of
\* the task: only a user or time may have ended it.
BaselineStands ==
  task.baseline # {} =>
    \A k \in Events : event[k].active /\ LastsUntil(event[k].day) > now =>
      event[k].msg # None /\ ~message[<<k, event[k].msg>>].stopped

\* The first run after a start is not refused, whatever it finds: a resumed
\* task analyses its source afresh and restores what is current.  (No manifest
\* is stored until then; a run is refused when it inserts a key again.)
StartRestores ==
  task.state = "active" /\ task.baseline = {} =>
    \A s \in Source, found \in Findings : ~Collides(found, s.page)
=============================================================================
