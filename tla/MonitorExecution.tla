-------------------------- MODULE MonitorExecution --------------------------
(***************************************************************************)
(* Durable monitor executions: the rows of monitor_tasks and               *)
(* monitor_executions, the API handlers that change them                   *)
(* (services/api/src/monitor/service.ts, execution.ts) and the worker      *)
(* processes that poll, claim, run and finish executions (execution.ts,    *)
(* engine.ts, services/worker/src/index.ts).                               *)
(*                                                                         *)
(* Every action is one database transaction or one statement outside a     *)
(* transaction, so the interleavings of the model are those of the         *)
(* database.  Time is abstract: a deadline is a flag (leaseLive, due) that *)
(* an environment action flips.  A lease token is a fresh UUID taken once  *)
(* per execution, so the execution's id stands for it.                     *)
(***************************************************************************)
EXTENDS Integers, FiniteSets

CONSTANTS
  Tasks,         \* monitor tasks
  Households,    \* households
  HouseholdOf,   \* the household of each task
  Members,       \* memberships that may own tasks and request executions
  Revocable,     \* memberships whose capabilities and grants may change
  Requests,      \* kinds of execution that users request
  Workers,       \* worker processes
  MaxExec,       \* bound: rows of monitor_executions
  MaxRevision,   \* bound: revision of a task
  MaxSettings,   \* bound: revision of a household's ai_settings
  MaxCrashes     \* bound: worker crashes

ASSUME Bounds ==
  /\ MaxExec \in Nat /\ MaxRevision \in Nat
  /\ MaxSettings \in Nat \ {0} /\ MaxCrashes \in Nat
ASSUME TaskHouseholds == HouseholdOf \in [Tasks -> Households]
ASSUME Population == Tasks # {} /\ Members # {} /\ Revocable \subseteq Members

VARIABLES
  task,      \* monitor_tasks rows
  exec,      \* monitor_executions rows, with the run or audit linked to each
  worker,    \* the local state of each worker process
  settings,  \* ai_settings per household
  auth,      \* memberships that hold the capabilities and grants they need
  starts,    \* executions claimed so far: the clock that stamps started_at
  crashes    \* worker crashes so far

vars == <<task, exec, starts, worker, settings, auth, crashes>>

Execs == 1..MaxExec
None  == 0
Kinds == {"interpretation", "test", "manual", "smarter", "scheduled"}
Production(kind) == kind \in {"scheduled", "manual"}

TaskStates == {"absent", "draft", "active", "paused", "deleted"}
Terminal   == {"succeeded", "failed", "superseded"}
Statuses   == {"unused", "queued", "running", "deleted"} \cup Terminal
Records    == {"none", "changed", "unchanged", "failed", "superseded", "success"}

(***************************************************************************)
(* rule: the text version the approved rule was compiled from, 0 when      *)
(* there is none; text: revision of the last edit; live: ticket of the run *)
(* whose findings are in force, 0 when they are withdrawn; known: a        *)
(* dependency manifest is stored; unseen: an execution queued while a      *)
(* handler's SELECT ... FOR UPDATE waited for the row, whose snapshot      *)
(* misses it; takes: task leases taken so far.  live and takes are ghosts, *)
(* as are a worker's ticket and an execution's since (the last start when  *)
(* it was queued).                                                         *)
(***************************************************************************)
TaskRow == [state : TaskStates, rev : Nat, approved : Nat, rule : Nat,
            text : Nat, owner : Members, due : BOOLEAN,
            lease : Execs \cup {None}, leaseLive : BOOLEAN,
            unseen : Execs \cup {None}, known : BOOLEAN, live : Nat,
            takes : Nat]

ExecRow == [task : Tasks, rev : Nat, kind : Kinds, requester : Members,
            aiRev : Nat, status : Statuses, interrupted : BOOLEAN,
            since : Nat, started : Nat, leaseLive : BOOLEAN,
            record : Records, recordKind : Kinds]

Pcs == {"idle", "enqueue", "sweep", "select", "claim", "check", "take",
        "unauthorized", "work", "analyse", "interpretFailed", "auditFailed",
        "finish"}
Free == {"idle", "enqueue", "sweep", "select"}   \* holding no execution
WorkerState == [pc : Pcs, exec : Execs \cup {None}, ticket : Nat, text : Nat,
                result : Terminal, batch : SUBSET (Tasks \X Nat)]

Idle == [pc |-> "idle", exec |-> None, ticket |-> 0, text |-> 0,
         result |-> "failed", batch |-> {}]

SomeMember == CHOOSE m \in Members : TRUE
SomeTask   == CHOOSE t \in Tasks : TRUE

NoTask == [state |-> "absent", rev |-> 0, approved |-> 0, rule |-> 0, text |-> 0,
           owner |-> SomeMember, due |-> FALSE, lease |-> None,
           leaseLive |-> FALSE, unseen |-> None, known |-> FALSE, live |-> 0,
           takes |-> 0]
NoExec == [task |-> SomeTask, rev |-> 0, kind |-> "interpretation",
           requester |-> SomeMember, aiRev |-> 0, status |-> "unused",
           interrupted |-> FALSE, since |-> 0, started |-> 0,
           leaseLive |-> FALSE, record |-> "none", recordKind |-> "interpretation"]

Init ==
  /\ task = [t \in Tasks |-> NoTask]
  /\ exec = [e \in Execs |-> NoExec]
  /\ worker = [w \in Workers |-> Idle]
  /\ settings = [h \in Households |-> [rev |-> 1, usable |-> TRUE]]
  /\ auth = Members
  /\ starts = 0 /\ crashes = 0

-----------------------------------------------------------------------------
(* Queries over the rows *)

Exists(t) == task[t].state \in {"draft", "active", "paused"}

ActiveExecs(t) == {e \in Execs : /\ exec[e].status \in {"queued", "running"}
                                 /\ exec[e].task = t}

\* Faulty variant: a token blocks changes even after its lease ran out.
LeaseActiveByToken(t) == task[t].lease # None \/ ActiveExecs(t) # {}

\* lease_active of selectMonitorTask: what assertNotRunning refuses.  A waiting
\* handler reads the lease of the locked row, but the executions of its snapshot.
LeaseActive(t) == task[t].leaseLive \/ ActiveExecs(t) \ {task[t].unseen} # {}

Approved(t) == task[t].state = "active" /\ task[t].approved = task[t].rev

StateAllowed(t, kind) ==
  CASE kind = "interpretation"         -> task[t].state = "draft"
    [] kind \in {"manual", "scheduled"} -> Approved(t)
    [] kind = "test"                   -> task[t].state \in {"draft", "paused"}
    [] OTHER                           -> Exists(t)

\* Faulty variant: the claim reads queued rows without locking them.
NothingLocked == {}

\* Rows that a claiming transaction holds.
Locked == {worker[w].exec : w \in {v \in Workers : worker[v].pc = "claim"}}

\* The revision and token fence of every commit of the engine.
Owns(w) ==
  LET e == worker[w].exec  t == exec[e].task
  IN  Exists(t) /\ task[t].rev = exec[e].rev /\ task[t].lease = e

\* Faulty variants: a commit checks no fence, or the revision but not the token.
OwnsExisting(w) == Exists(exec[worker[w].exec].task)
OwnsRevision(w) ==
  LET e == worker[w].exec  t == exec[e].task
  IN  task[t].rev = exec[e].rev /\ Approved(t)

\* The fence of a commit that has production effects.
OwnsActive(w) == Owns(w) /\ Approved(exec[worker[w].exec].task)

-----------------------------------------------------------------------------
(* Task updates shared by handlers *)

ReleaseLease(row) == [row EXCEPT !.lease = None, !.leaseLive = FALSE]

\* withdrawMonitorMessages together with the reset of the stored baseline.
Withdraw(row) == [row EXCEPT !.live = 0, !.known = FALSE]

Paused(row) == [Withdraw(ReleaseLease(row)) EXCEPT
                  !.state = "paused", !.rev = @ + 1, !.due = FALSE]

-----------------------------------------------------------------------------
(* API handlers of MonitorService *)

Revisable(t) == Exists(t) /\ ~LeaseActive(t) /\ task[t].rev < MaxRevision

TaskOnly(t, row) == /\ task' = [task EXCEPT ![t] = [row EXCEPT !.unseen = None]]
                    /\ UNCHANGED <<exec, starts, worker, settings, auth, crashes>>

Create(t, m) ==
  /\ task[t].state = "absent" /\ m \in auth /\ MaxRevision > 0
  /\ TaskOnly(t, [task[t] EXCEPT !.state = "draft", !.rev = 1, !.text = 1,
                                 !.owner = m])

\* Faulty variant: an edit keeps the rule compiled from the old text.
UpdateKeepingRule(t) ==
  /\ Revisable(t)
  /\ TaskOnly(t, [Withdraw(ReleaseLease(task[t])) EXCEPT
        !.state = "draft", !.rev = @ + 1, !.text = task[t].rev + 1,
        !.approved = 0, !.due = FALSE])

Update(t) ==
  /\ Revisable(t)
  /\ TaskOnly(t, [Withdraw(ReleaseLease(task[t])) EXCEPT
        !.state = "draft", !.rev = @ + 1, !.text = task[t].rev + 1,
        !.approved = 0, !.rule = 0, !.due = FALSE])

\* With a daily schedule the first check lies in the future.
Activate(t, d) == [ReleaseLease(task[t]) EXCEPT
        !.state = "active", !.rev = @ + 1, !.approved = task[t].rev + 1, !.due = d]

Approve(t, m) ==
  /\ Revisable(t) /\ task[t].state = "draft" /\ task[t].rule # 0 /\ m \in auth
  /\ \E d \in BOOLEAN : TaskOnly(t, [Activate(t, d) EXCEPT !.owner = m])

Resume(t, m) ==
  /\ Revisable(t) /\ task[t].state = "paused" /\ task[t].rule # 0
  /\ task[t].approved # 0 /\ m \in auth
  /\ \E d \in BOOLEAN : TaskOnly(t, Activate(t, d))

Pause(t) ==
  /\ Revisable(t) /\ task[t].state = "active"
  /\ TaskOnly(t, Paused(task[t]))

SetQuality(t) ==
  /\ Revisable(t) /\ task[t].state # "draft"
  /\ TaskOnly(t, [task[t] EXCEPT !.rev = @ + 1,
        !.approved = IF task[t].state = "active" THEN task[t].rev + 1 ELSE @])

Deletable(t) == Exists(t) /\ ~LeaseActive(t)

\* The delete cascades to the task's executions, and waits for a claim that
\* holds one of them.
Remove(t) ==
  /\ Deletable(t)
  /\ ActiveExecs(t) \cap Locked = {}
  /\ task' = [task EXCEPT ![t] = [Withdraw(ReleaseLease(@)) EXCEPT
                !.state = "deleted", !.due = FALSE, !.unseen = None]]
  /\ exec' = [e \in Execs |->
        IF exec[e].task = t /\ exec[e].status # "unused"
        THEN [exec[e] EXCEPT !.status = "deleted"] ELSE exec[e]]
  /\ UNCHANGED <<starts, worker, settings, auth, crashes>>

-----------------------------------------------------------------------------
(* enqueueTask.  The provider profile is read before the transaction, so   *)
(* its revision may be stale when the row is inserted.                      *)

NextExec == {e \in Execs : exec[e].status = "unused" /\
                           \A x \in Execs : exec[x].status = "unused" => e <= x}

ProfileReadable(t, s) ==
  LET ai == settings[HouseholdOf[t]]
  IN  s \in 1..ai.rev /\ (s = ai.rev => ai.usable)

InsertQueued(t, kind, m) ==
  \E e \in NextExec, s \in 1..MaxSettings :
    /\ ProfileReadable(t, s)
    /\ exec' = [exec EXCEPT ![e] = [@ EXCEPT !.task = t, !.rev = task[t].rev,
          !.kind = kind, !.requester = m, !.aiRev = s, !.status = "queued",
          !.since = starts]]
    /\ \E x \in {None, e} : task' = [task EXCEPT ![t].unseen = x]

\* An identical request while one is active returns the existing row, and a
\* different one is refused: neither changes anything.
Enqueue(t, kind, m) ==
  /\ kind # "scheduled" /\ kind \in Requests /\ m \in auth
  /\ Exists(t) /\ StateAllowed(t, kind) /\ ActiveExecs(t) = {}
  /\ kind # "interpretation" => task[t].rule # 0
  /\ InsertQueued(t, kind, m)
  /\ UNCHANGED <<starts, worker, settings, auth, crashes>>

-----------------------------------------------------------------------------
(* The worker's batch: enqueueScheduled, then runOne *)

Go(w, pc) == worker' = [worker EXCEPT ![w].pc = pc]
End(w, result) == worker' = [worker EXCEPT ![w].pc = "finish", ![w].result = result]

SelectDue(w) ==
  /\ worker[w].pc = "idle"
  /\ worker' = [worker EXCEPT ![w] = [Idle EXCEPT !.pc = "enqueue",
        !.batch = {<<t, task[t].rev>> : t \in
           {u \in Tasks : Approved(u) /\ task[u].due /\ ActiveExecs(u) = {}}}]]
  /\ UNCHANGED <<task, exec, starts, settings, auth, crashes>>

EnqueueScheduled(w) ==
  /\ worker[w].pc = "enqueue"
  /\ \E p \in worker[w].batch :
       LET t == p[1]  current == Exists(t) /\ task[t].rev = p[2] /\ Approved(t)
           free == ActiveExecs(t) = {}
       IN /\ worker' = [worker EXCEPT ![w].batch = @ \ {p}]
          /\ \/ current /\ free /\ InsertQueued(t, "scheduled", task[t].owner)
             \/ /\ current /\ ~settings[HouseholdOf[t]].usable
                /\ task' = [task EXCEPT ![t].due = FALSE, ![t].unseen = None]
                /\ UNCHANGED exec                     \* a failed check is counted
             \/ (~(current /\ free) \/ NextExec = {}) /\ UNCHANGED <<task, exec>>
  /\ UNCHANGED <<starts, settings, auth, crashes>>

StartRun(w) ==
  /\ worker[w].pc = "enqueue" /\ worker[w].batch = {}
  /\ Go(w, "sweep")
  /\ UNCHANGED <<task, exec, starts, settings, auth, crashes>>

\* Faulty variants: the sweep skips rows without a result, forgets a committed
\* result, or copies the outcome of the run into the status column.
ExpiredWithRecord(e) == /\ exec[e].status = "running" /\ ~exec[e].leaseLive
                        /\ exec[e].record # "none"
RecoveredAsFailed(e) == "failed"
RecoveredAsOutcome(e) ==
  IF exec[e].record = "none" THEN "failed" ELSE exec[e].record

\* failInterrupted: a row whose lease ran out takes the outcome of the run or
\* audit that was committed for it, if that has the expected kind.
Expired(e) == exec[e].status = "running" /\ ~exec[e].leaseLive
Recovered(e) == exec[e].record # "none" /\ exec[e].recordKind = exec[e].kind
RecoveredStatus(e) ==
  CASE ~Recovered(e)                  -> "failed"
    [] exec[e].record = "failed"      -> "failed"
    [] exec[e].record = "superseded"  -> "superseded"
    [] OTHER                          -> "succeeded"

FailInterrupted(w) ==
  /\ worker[w].pc = "sweep"
  /\ exec' = [e \in Execs |-> IF ~Expired(e) THEN exec[e]
        ELSE [exec[e] EXCEPT !.status = RecoveredStatus(e),
                             !.interrupted = ~Recovered(e)]]
  /\ task' = [t \in Tasks |->
        IF /\ \E e \in Execs : Expired(e) /\ exec[e].task = t
           /\ ~task[t].leaseLive
        THEN ReleaseLease(task[t]) ELSE task[t]]
  /\ Go(w, "select")
  /\ UNCHANGED <<starts, settings, auth, crashes>>

\* The household served longest ago goes first, one never served before all
\* others; then the older row.  Removed rows no longer count.
Rows(h) == {e \in Execs : /\ exec[e].status \notin {"unused", "deleted"}
                          /\ HouseholdOf[exec[e].task] = h}
ServedBefore(g, h) ==
  \E y \in Rows(h) : /\ exec[y].started # 0
                     /\ \A x \in Rows(g) : exec[x].started < exec[y].started

\* Faulty variant: strictly in the order of the queue.
BeforeInQueue(e, x) == e <= x

Before(e, x) ==
  LET g == HouseholdOf[exec[e].task]  h == HouseholdOf[exec[x].task]
  IN  ServedBefore(g, h) \/ (~ServedBefore(h, g) /\ e <= x)
Queued == {e \in Execs : exec[e].status = "queued"}

\* SELECT ... FOR UPDATE SKIP LOCKED: the first queued row nobody holds.
SelectQueued(w) ==
  /\ worker[w].pc = "select"
  /\ \/ Queued \ Locked = {} /\ Go(w, "idle")
     \/ \E e \in Queued \ Locked :
          /\ \A x \in Queued \ Locked : Before(e, x)
          /\ worker' = [worker EXCEPT ![w].pc = "claim", ![w].exec = e]
  /\ UNCHANGED <<task, exec, starts, settings, auth, crashes>>

Claim(w) ==
  /\ worker[w].pc = "claim"
  /\ exec' = [exec EXCEPT ![worker[w].exec] = [@ EXCEPT !.status = "running",
                !.leaseLive = TRUE, !.started = starts + 1]]
  /\ starts' = starts + 1
  /\ Go(w, "check")
  /\ UNCHANGED <<task, settings, auth, crashes>>

-----------------------------------------------------------------------------
(* runOne after the claim *)

\* executionProfile against the snapshot, then actorForExecution.
Check(w) ==
  LET e == worker[w].exec  ai == settings[HouseholdOf[exec[e].task]]
      permitted == /\ ai.usable /\ ai.rev = exec[e].aiRev
                   /\ exec[e].kind = "scheduled" \/ exec[e].requester \in auth
  IN  /\ worker[w].pc = "check"
      /\ IF permitted THEN Go(w, "take") ELSE End(w, "failed")
      /\ UNCHANGED <<task, exec, starts, settings, auth, crashes>>

\* The states claimManual, claimScheduledById and interpret take a task in.
Takeable(t, kind) ==
  CASE kind = "interpretation" -> task[t].state = "draft"
    [] kind = "scheduled"      -> Approved(t)
    [] kind = "manual"         -> task[t].state = "active"
    [] kind = "test"           -> task[t].state \in {"draft", "paused"}
    [] OTHER                   -> Exists(t)

\* How a refused take ends the execution; "taken" when it is not refused.
TakeOutcome(e) ==
  LET t == exec[e].task  kind == exec[e].kind
  IN  CASE ~Exists(t)                                     -> "failed"
        [] task[t].rev # exec[e].rev                      -> "superseded"
        [] kind = "scheduled" /\ ~Takeable(t, kind)       -> "superseded"
        [] task[t].leaseLive                              -> "failed"
        [] ~Takeable(t, kind)                             -> "superseded"
        [] kind = "manual" /\ exec[e].requester \notin auth -> "failed"
        [] kind \notin {"interpretation", "scheduled"} /\ task[t].rule = 0
                                                          -> "failed"
        [] OTHER                                          -> "taken"

Take(w) ==
  LET e == worker[w].exec  t == exec[e].task
  IN  /\ worker[w].pc = "take"
      /\ \/ /\ TakeOutcome(e) = "taken"
            /\ task' = [task EXCEPT ![t] = [task[t] EXCEPT
                  !.lease = e, !.leaseLive = TRUE, !.unseen = None,
                  !.takes = task[t].takes + 1]]
            /\ worker' = [worker EXCEPT ![w] = [@ EXCEPT
                  !.pc = IF Production(exec[e].kind) /\ task[t].owner \notin auth
                         THEN "unauthorized" ELSE "work",
                  !.ticket = task[t].takes + 1, !.text = task[t].text]]
         \/ /\ TakeOutcome(e) # "taken"
            /\ End(w, TakeOutcome(e))
            /\ task' = [task EXCEPT ![t].unseen = None]
      /\ UNCHANGED <<exec, starts, settings, auth, crashes>>

\* The run or audit that a transaction links to the execution.
Record(e, outcome, kind) ==
  exec' = IF exec[e].status = "deleted" THEN exec
          ELSE [exec EXCEPT ![e] = [@ EXCEPT !.record = outcome,
                                             !.recordKind = kind]]

\* pauseUnauthorized.  Its run is recorded as a scheduled one for every kind.
PauseUnauthorized(w) ==
  LET e == worker[w].exec  t == exec[e].task
  IN  /\ worker[w].pc = "unauthorized"
      /\ \/ /\ Owns(w)
            /\ task' = [task EXCEPT ![t] = Paused(@)]
            /\ Record(e, "failed", "scheduled")
            /\ End(w, "failed")
         \/ /\ ~Owns(w)
            /\ End(w, IF exec[e].kind = "manual" THEN "failed" ELSE "superseded")
            /\ UNCHANGED <<task, exec>>
      /\ UNCHANGED <<starts, settings, auth, crashes>>

Working(w) == worker[w].pc \in {"work", "analyse"}
KindOf(w)  == exec[worker[w].exec].kind

\* stillOwned before the provider is called; a pure weather rule skips it.
Analyse(w) ==
  /\ worker[w].pc = "work" /\ KindOf(w) # "interpretation"
  /\ \/ Go(w, "analyse")
     \/ ~(IF Production(KindOf(w)) THEN OwnsActive(w) ELSE Owns(w))
        /\ End(w, "superseded")
  /\ UNCHANGED <<task, exec, starts, settings, auth, crashes>>

\* finalAuthorization: the owner first, then the initiating membership.
OwnerValid(w) == task[exec[worker[w].exec].task].owner \in auth
ActorValid(w) == KindOf(w) = "scheduled" \/ exec[worker[w].exec].requester \in auth

\* rejectFinalAuthorization: engine code reports "superseded" either way.
RejectFinal(w) ==
  LET e == worker[w].exec  t == exec[e].task
  IN  /\ IF OwnerValid(w)
         THEN /\ task' = [task EXCEPT ![t] = ReleaseLease(@)]
              /\ Record(e, "superseded", exec[e].kind)
         ELSE /\ task' = [task EXCEPT ![t] = Paused(@)]
              /\ Record(e, "failed", exec[e].kind)
      /\ End(w, "superseded")

NextCheck(row, kind) ==
  IF kind = "scheduled" THEN [row EXCEPT !.due = FALSE] ELSE row

FinishUnchanged(w) ==
  LET e == worker[w].exec  t == exec[e].task
  IN  /\ worker[w].pc = "work" /\ Production(KindOf(w))
      /\ \/ /\ OwnsActive(w) /\ task[t].known /\ OwnerValid(w) /\ ActorValid(w)
            /\ task' = [task EXCEPT ![t] = NextCheck(ReleaseLease(@), KindOf(w))]
            /\ Record(e, "unchanged", KindOf(w))
            /\ End(w, "succeeded")
         \/ /\ OwnsActive(w) /\ task[t].known /\ ~(OwnerValid(w) /\ ActorValid(w))
            /\ RejectFinal(w)
         \/ ~OwnsActive(w) /\ End(w, "superseded") /\ UNCHANGED <<task, exec>>
      /\ UNCHANGED <<starts, settings, auth, crashes>>

\* reconcileEvents and reconcileAnswer: findings come into force.
Reconcile(w) ==
  LET e == worker[w].exec  t == exec[e].task
  IN  /\ worker[w].pc = "analyse" /\ Production(KindOf(w))
      /\ \/ /\ OwnsActive(w) /\ OwnerValid(w) /\ ActorValid(w)
            /\ task' = [task EXCEPT ![t] = [NextCheck(ReleaseLease(@), KindOf(w))
                            EXCEPT !.known = TRUE, !.live = worker[w].ticket]]
            /\ Record(e, "changed", KindOf(w))
            /\ End(w, "succeeded")
         \/ OwnsActive(w) /\ ~(OwnerValid(w) /\ ActorValid(w)) /\ RejectFinal(w)
         \/ /\ ~OwnsActive(w)
            /\ Record(e, "superseded", KindOf(w))
            /\ End(w, "superseded") /\ UNCHANGED task
      /\ UNCHANGED <<starts, settings, auth, crashes>>

Preview(w) ==
  LET e == worker[w].exec  t == exec[e].task  ok == OwnerValid(w) /\ ActorValid(w)
  IN  /\ worker[w].pc = "analyse" /\ KindOf(w) \in {"test", "smarter"}
      /\ \/ /\ Owns(w)
            /\ task' = [task EXCEPT ![t] = ReleaseLease(@)]
            /\ Record(e, IF ok THEN "changed" ELSE "superseded", KindOf(w))
            /\ End(w, IF ok THEN "succeeded" ELSE "superseded")
         \/ /\ ~Owns(w)
            /\ Record(e, "superseded", KindOf(w))
            /\ End(w, "superseded") /\ UNCHANGED task
      /\ UNCHANGED <<starts, settings, auth, crashes>>

\* Any error of the engine after the take, a rolled-back commit included.
FinishFailure(w) ==
  LET e == worker[w].exec  t == exec[e].task
  IN  /\ Working(w) /\ KindOf(w) # "interpretation"
      /\ \/ /\ Owns(w)
            /\ task' = [task EXCEPT ![t] = NextCheck(ReleaseLease(@), KindOf(w))]
            /\ Record(e, "failed", KindOf(w))
            /\ End(w, "failed")
         \/ ~Owns(w) /\ End(w, "superseded") /\ UNCHANGED <<task, exec>>
      /\ UNCHANGED <<starts, settings, auth, crashes>>

-----------------------------------------------------------------------------
(* MonitorService.interpret after its claim *)

Interpret(w) ==
  LET e == worker[w].exec  t == exec[e].task
  IN  /\ worker[w].pc = "work" /\ KindOf(w) = "interpretation"
      /\ exec[e].requester \in auth /\ Owns(w) /\ task[t].rev < MaxRevision
      /\ task' = [task EXCEPT ![t] = [ReleaseLease(task[t]) EXCEPT
                    !.rev = task[t].rev + 1, !.rule = worker[w].text,
                    !.approved = 0, !.state = "draft"]]
      /\ Record(e, "success", "interpretation")
      /\ End(w, "succeeded")
      /\ UNCHANGED <<starts, settings, auth, crashes>>

\* An error, a lost lease or a revoked requester: the lease is cleared by one
\* statement and the failed audit written by another. Only the fence that misses
\* its lease says "superseded"; an error of the provider is "failed" all the same.
InterpretFailed(w) ==
  /\ worker[w].pc = "work" /\ KindOf(w) = "interpretation"
  /\ \E result \in {"failed"} \cup (IF Owns(w) THEN {} ELSE {"superseded"}) :
       worker' = [worker EXCEPT ![w].pc = "interpretFailed", ![w].result = result]
  /\ UNCHANGED <<task, exec, starts, settings, auth, crashes>>

ClearFailedLease(w) ==
  LET e == worker[w].exec  t == exec[e].task
  IN  /\ worker[w].pc = "interpretFailed"
      /\ task' = IF Exists(t) /\ task[t].lease = e
                 THEN [task EXCEPT ![t] = ReleaseLease(@)] ELSE task
      /\ Go(w, "auditFailed")
      /\ UNCHANGED <<exec, starts, settings, auth, crashes>>

WriteInterpretationAudit(w) ==
  /\ worker[w].pc = "auditFailed"
  /\ Record(worker[w].exec, "failed", "interpretation")
  /\ Go(w, "finish")
  /\ UNCHANGED <<task, starts, settings, auth, crashes>>

-----------------------------------------------------------------------------
\* Faulty variant: the last statement of a run has no fence.
FinishUnfenced(w) ==
  /\ worker[w].pc = "finish"
  /\ exec' = [exec EXCEPT ![worker[w].exec].status = worker[w].result]
  /\ worker' = [worker EXCEPT ![w] = Idle]
  /\ UNCHANGED <<task, starts, settings, auth, crashes>>

(* finish is fenced by the status and the worker's token *)
Finish(w) ==
  LET e == worker[w].exec
  IN  /\ worker[w].pc = "finish"
      /\ exec' = IF exec[e].status = "running"
                 THEN [exec EXCEPT ![e] = [@ EXCEPT !.status = worker[w].result,
                                                     !.leaseLive = FALSE]]
                 ELSE exec
      /\ worker' = [worker EXCEPT ![w] = Idle]
      /\ UNCHANGED <<task, starts, settings, auth, crashes>>

-----------------------------------------------------------------------------
(* Environment *)

Crash(w) ==
  /\ crashes < MaxCrashes /\ worker[w].pc # "idle"
  /\ crashes' = crashes + 1
  /\ worker' = [worker EXCEPT ![w] = Idle]
  /\ UNCHANGED <<task, exec, starts, settings, auth>>

ExpireWorkerLease(e) ==
  /\ exec[e].status = "running" /\ exec[e].leaseLive
  /\ exec' = [exec EXCEPT ![e].leaseLive = FALSE]
  /\ UNCHANGED <<task, starts, worker, settings, auth, crashes>>

\* The task lease is taken after the worker lease and lasts as long.
ExpireTaskLease(t) ==
  /\ task[t].leaseLive
  /\ \A e \in Execs : e = task[t].lease => ~exec[e].leaseLive
  /\ task' = [task EXCEPT ![t].leaseLive = FALSE]
  /\ UNCHANGED <<exec, starts, worker, settings, auth, crashes>>

BecomeDue(t) ==
  /\ task[t].state = "active" /\ ~task[t].due
  /\ task' = [task EXCEPT ![t].due = TRUE]
  /\ UNCHANGED <<exec, starts, worker, settings, auth, crashes>>

UpdateSettings(h) ==
  /\ settings[h].rev < MaxSettings
  /\ \E u \in BOOLEAN : settings' = [settings EXCEPT
                            ![h] = [rev |-> settings[h].rev + 1, usable |-> u]]
  /\ UNCHANGED <<task, exec, starts, worker, auth, crashes>>

ChangeAuthority(m) ==
  /\ m \in Revocable
  /\ auth' = IF m \in auth THEN auth \ {m} ELSE auth \cup {m}
  /\ UNCHANGED <<task, exec, starts, worker, settings, crashes>>

-----------------------------------------------------------------------------
Api ==
  \E t \in Tasks :
    \/ Update(t) \/ Pause(t) \/ SetQuality(t) \/ Remove(t)
    \/ \E m \in Members : \/ Create(t, m) \/ Approve(t, m) \/ Resume(t, m)
                          \/ \E kind \in Kinds : Enqueue(t, kind, m)

WorkerStep(w) ==
  \/ SelectDue(w) \/ EnqueueScheduled(w) \/ StartRun(w) \/ FailInterrupted(w)
  \/ SelectQueued(w) \/ Claim(w) \/ Check(w) \/ Take(w)
  \/ PauseUnauthorized(w) \/ Analyse(w) \/ FinishUnchanged(w)
  \/ Reconcile(w) \/ Preview(w) \/ FinishFailure(w)
  \/ Interpret(w) \/ InterpretFailed(w) \/ ClearFailedLease(w)
  \/ WriteInterpretationAudit(w) \/ Finish(w)

Environment ==
  \/ \E w \in Workers : Crash(w)
  \/ \E e \in Execs : ExpireWorkerLease(e)
  \/ \E t \in Tasks : ExpireTaskLease(t) \/ BecomeDue(t)
  \/ \E h \in Households : UpdateSettings(h)
  \/ \E m \in Members : ChangeAuthority(m)

Next == Api \/ (\E w \in Workers : WorkerStep(w)) \/ Environment

Spec == Init /\ [][Next]_vars

(***************************************************************************)
(* The worker loop always runs its next step and time always passes; no    *)
(* user, no crash and no settings change is ever required.                 *)
(***************************************************************************)
FairSpec ==
  /\ Spec
  /\ \A w \in Workers : WF_vars(WorkerStep(w))
  /\ \A e \in Execs : WF_vars(ExpireWorkerLease(e))
  /\ \A t \in Tasks : WF_vars(ExpireTaskLease(t))
-----------------------------------------------------------------------------
(* Properties *)

\* Every row and every worker keeps the shape its columns allow.
TypeOK ==
  /\ task \in [Tasks -> TaskRow]
  /\ exec \in [Execs -> ExecRow]
  /\ worker \in [Workers -> WorkerState]
  /\ \A w \in Workers : worker[w].exec = None <=> worker[w].pc \in Free
  /\ settings \in [Households -> [rev : Nat \ {0}, usable : BOOLEAN]]
  /\ auth \subseteq Members
  /\ starts \in Nat /\ crashes \in Nat

\* A task that runs in production was approved at exactly its current revision,
\* and its rule was compiled from the text it has now: an edit, an
\* interpretation that started before the edit, or a quality change can leave
\* neither a stale rule nor a stale approval in an active task.
RunsApprovedRule ==
  \A t \in Tasks : task[t].state = "active" =>
    /\ task[t].approved = task[t].rev
    /\ task[t].rule # 0 /\ task[t].rule = task[t].text

\* A task that is not active has no findings in force and no stored baseline,
\* whatever run, pause, edit or removal came last: a late commit cannot publish
\* for a stopped task, and a baseline never outlives the messages it stands for
\* (the next run would report "unchanged" and not restore them).
StoppedTaskSilent ==
  \A t \in Tasks : task[t].state # "active" => task[t].live = 0 /\ ~task[t].known

\* No two workers hold the same execution, from the row lock of the claim to
\* the last statement of the run.
OneRunner ==
  \A v, w \in Workers :
    v # w /\ worker[v].exec # None => worker[v].exec # worker[w].exec

\* A terminal status is final: neither a late worker nor a second sweep
\* rewrites it.  Only the removal of the task deletes the row.
TerminalStable ==
  [][\A e \in Execs : exec[e].status \in Terminal =>
        exec'[e].status \in {exec[e].status, "deleted"}]_vars

\* The rows of the executions as those who read them see them.
Outcome(record) == CASE record = "none" -> "none"
                     [] record \in {"changed", "unchanged", "success"} -> "good"
                     [] OTHER -> "bad"
LedgerRow(x) == [task |-> x.task, status |-> x.status, outcome |-> Outcome(x.record)]
Promised == INSTANCE ExecutionLedger WITH
              Executions <- Execs, row <- [e \in Execs |-> LedgerRow(exec[e])]

\* Workers that crash, overrun their leases or sweep the rows of others, together
\* with every handler, do no more to an execution than the ledger promises.
KeepsLedger == Promised!Ledger

\* An execution is reported as succeeded exactly when a result was committed
\* for it, also when its worker died between the commit and finish and the
\* sweep of another worker ends it.
CommittedNotLost ==
  [][\A e \in Execs :
        exec[e].status = "running" /\ exec'[e].status \in Terminal =>
          (exec'[e].status = "succeeded" <=>
             exec[e].record \in {"changed", "unchanged", "success"})]_vars

\* Findings are only ever replaced by those of the run that took the task last:
\* a worker that lost its lease and wakes up cannot overwrite newer findings.
FreshestWins ==
  [][\A t \in Tasks : task'[t].live \notin {0, task[t].live} =>
        task'[t].live > task[t].live /\ task'[t].live = task[t].takes]_vars

\* With one worker: while an execution is queued, another household starts at most
\* one execution for each turn that its own household gets, and one before the
\* first.  (Rows that the other household removed do not count against it: the
\* queue has forgotten them.)
StartedSince(b, h) == {x \in Execs : /\ exec[x].started > exec[b].since
                                     /\ HouseholdOf[exec[x].task] = h}
FairTurn ==
  \A b \in Queued, h \in Households :
    LET own == HouseholdOf[exec[b].task]
    IN  h # own =>
          Cardinality({x \in StartedSince(b, h) : exec[x].status # "deleted"})
            <= 1 + Cardinality(StartedSince(b, own))

\* A run or audit that was committed for an execution is never misreported as an
\* interruption by the sweep that recovers it.
RecoveredNotInterrupted ==
  [][\A e \in Execs :
        exec'[e].interrupted /\ ~exec[e].interrupted => exec[e].record = "none"]_vars

\* Every execution that is queued ends, whatever happens to its worker.
QueuedTerminates ==
  \A e \in Execs : exec[e].status \in {"queued", "running"} ~>
                      exec[e].status \in Terminal \cup {"deleted"}

\* A task that refuses changes because work is running accepts them again.
TaskFreed == \A t \in Tasks : LeaseActive(t) ~> ~LeaseActive(t)
=============================================================================
