----------------------- MODULE MonitorExecution_proofs -----------------------
(***************************************************************************)
(* Proofs about MonitorExecution, for every set of tasks, households,      *)
(* memberships and workers and for every bound.  Invariants carry them,    *)
(* each proved on top of the ones before:                                  *)
(*   Holding    who holds an execution, from the row lock to finish        *)
(*   RecordInv  a run reports exactly what it committed                    *)
(*   TaskInv    rule, lease and findings of a task belong together         *)
(*   Open       an execution under way has no result yet                   *)
(*   TurnInv    households are served in turn (for one worker)             *)
(* Open carries the refinement of ExecutionLedger.                         *)
(***************************************************************************)
EXTENDS MonitorExecution, FiniteSetTheorems, TLAPS

-----------------------------------------------------------------------------
(* What the helpers of the handlers keep *)

\* The part of TypeOK that is about the workers.
WorkersOK ==
  /\ worker \in [Workers -> WorkerState]
  /\ \A w \in Workers : worker[w].exec = None <=> worker[w].pc \in Free

\* The placeholders of empty rows are a task and a membership.
LEMMA Choices == SomeTask \in Tasks /\ SomeMember \in Members
  BY Population DEF SomeTask, SomeMember

\* Releasing, withdrawing, pausing and scheduling keep the shape of a row.
LEMMA RowTypes ==
  ASSUME NEW row \in TaskRow, NEW kind
  PROVE  /\ ReleaseLease(row) \in TaskRow /\ Withdraw(row) \in TaskRow
         /\ Paused(row) \in TaskRow /\ NextCheck(row, kind) \in TaskRow
  <1>1. \A r \in TaskRow : ReleaseLease(r) \in TaskRow
    BY DEF ReleaseLease, TaskRow, None
  <1>2. \A r \in TaskRow : Withdraw(r) \in TaskRow
    BY DEF Withdraw, TaskRow
  <1>3. Paused(row) \in TaskRow
    <2> DEFINE r == Withdraw(ReleaseLease(row))
    <2>1. r \in TaskRow
      BY <1>1, <1>2
    <2> HIDE DEF r
    <2>2. r.rev + 1 \in Nat
      BY <2>1 DEF TaskRow
    <2>3. [r EXCEPT !.state = "paused", !.rev = r.rev + 1, !.due = FALSE] \in TaskRow
      BY <2>1, <2>2 DEF TaskRow, TaskStates
    <2> QED BY <2>3 DEF Paused, r
  <1>4. NextCheck(row, kind) \in TaskRow
    BY DEF NextCheck, TaskRow
  <1> QED BY <1>1, <1>2, <1>3, <1>4

\* A worker past its claim step holds an execution of a known task.
LEMMA HeldExec ==
  ASSUME TypeOK, NEW w \in Workers, worker[w].pc \notin Free
  PROVE  /\ worker[w].exec \in Execs
         /\ exec[worker[w].exec] \in ExecRow
         /\ exec[worker[w].exec].task \in Tasks
         /\ exec[worker[w].exec].kind \in Kinds
         /\ task[exec[worker[w].exec].task] \in TaskRow
  BY DEF TypeOK, ExecRow, WorkerState

\* Moving to another step on the same side of the claim keeps the workers well formed.
LEMMA GoType ==
  ASSUME TypeOK, NEW w \in Workers, NEW pc \in Pcs, Go(w, pc),
         worker[w].pc \in Free <=> pc \in Free
  PROVE  WorkersOK'
  <1>1. worker' \in [Workers -> WorkerState]
    BY DEF TypeOK, Go, WorkerState
  <1>2. \A v \in Workers : worker'[v].exec = None <=> worker'[v].pc \in Free
    BY DEF TypeOK, Go, WorkerState
  <1> QED BY <1>1, <1>2 DEF WorkersOK

\* So does going to the last statement of runOne with an outcome.
LEMMA EndType ==
  ASSUME TypeOK, NEW w \in Workers, NEW result \in Terminal, End(w, result),
         worker[w].pc \notin Free
  PROVE  WorkersOK'
  <1>0. "finish" \in Pcs
    BY DEF Pcs
  <1>1. worker' \in [Workers -> WorkerState]
    BY <1>0 DEF TypeOK, End, WorkerState
  <1>2. \A v \in Workers : worker'[v].exec = None <=> worker'[v].pc \in Free
    BY DEF TypeOK, End, WorkerState, Free
  <1> QED BY <1>1, <1>2 DEF WorkersOK

\* Linking a run or an audit keeps the executions well formed.
LEMMA RecordType ==
  ASSUME TypeOK, NEW e \in Execs, NEW outcome \in Records, NEW kind \in Kinds,
         Record(e, outcome, kind)
  PROVE  exec' \in [Execs -> ExecRow]
  BY DEF TypeOK, Record, ExecRow

\* enqueueTask inserts a well-formed row.
LEMMA InsertType ==
  ASSUME TypeOK, NEW t \in Tasks, NEW kind \in Kinds, NEW m \in Members,
         InsertQueued(t, kind, m)
  PROVE  exec' \in [Execs -> ExecRow] /\ task' \in [Tasks -> TaskRow]
  <1>1. PICK e \in NextExec, s \in 1..MaxSettings :
          /\ exec' = [exec EXCEPT ![e] = [@ EXCEPT !.task = t, !.rev = task[t].rev,
               !.kind = kind, !.requester = m, !.aiRev = s, !.status = "queued",
               !.since = starts]]
          /\ \E x \in {None, e} : task' = [task EXCEPT ![t].unseen = x]
    BY DEF InsertQueued
  <1>2. e \in Execs /\ s \in Nat
    BY Bounds DEF NextExec
  <1>3. \A row \in ExecRow : [row EXCEPT !.task = t, !.rev = task[t].rev,
            !.kind = kind, !.requester = m, !.aiRev = s, !.status = "queued",
            !.since = starts] \in ExecRow
    <2>1. task[t].rev \in Nat /\ starts \in Nat
      BY DEF TypeOK, TaskRow
    <2> QED BY <1>2, <2>1 DEF ExecRow, Statuses
  <1>4. exec' \in [Execs -> ExecRow]
    BY <1>1, <1>2, <1>3 DEF TypeOK
  <1>5. task' \in [Tasks -> TaskRow]
    BY <1>1, <1>2 DEF TypeOK, TaskRow, None
  <1> QED BY <1>4, <1>5

-----------------------------------------------------------------------------
(* Type correctness *)

\* The empty tables are well formed.
LEMMA InitType == Init => TypeOK
  <1>1. NoTask \in TaskRow
    BY Choices DEF NoTask, TaskRow, None, TaskStates
  <1>2. NoExec \in ExecRow
    BY Choices DEF NoExec, ExecRow, Kinds, Statuses, Records
  <1>3. Idle \in WorkerState /\ Idle.exec = None /\ Idle.pc \in Free
    BY DEF Idle, WorkerState, Pcs, None, Terminal, Free
  <1> QED BY <1>1, <1>2, <1>3 DEF Init, TypeOK

\* A handler that writes one row.
LEMMA TaskOnlyType ==
  ASSUME TypeOK, NEW t \in Tasks, NEW row \in TaskRow, TaskOnly(t, row)
  PROVE  TypeOK'
  <1>1. [row EXCEPT !.unseen = None] \in TaskRow
    BY DEF TaskRow
  <1> QED BY <1>1 DEF TypeOK, TaskOnly

\* The handlers of MonitorService and enqueueTask keep the types.
LEMMA ApiType ==
  ASSUME TypeOK, Api
  PROVE  TypeOK'
  <1>rev. \A u \in Tasks : task[u] \in TaskRow /\ task[u].rev + 1 \in Nat
    BY DEF TypeOK, TaskRow
  <1>1. ASSUME NEW t \in Tasks, NEW m \in Members, Create(t, m) PROVE TypeOK'
    <2>1. [task[t] EXCEPT !.state = "draft", !.rev = 1, !.text = 1, !.owner = m]
            \in TaskRow
      BY <1>rev DEF TaskRow, TaskStates
    <2> QED BY <1>1, <2>1, TaskOnlyType DEF Create
  <1>2. ASSUME NEW t \in Tasks, Update(t) PROVE TypeOK'
    <2> DEFINE r == Withdraw(ReleaseLease(task[t]))
    <2>0. r \in TaskRow
      BY <1>rev, RowTypes
    <2> HIDE DEF r
    <2>1. r.rev + 1 \in Nat
      BY <2>0 DEF TaskRow
    <2>2. [r EXCEPT !.state = "draft", !.rev = r.rev + 1, !.text = task[t].rev + 1,
                    !.approved = 0, !.rule = 0, !.due = FALSE] \in TaskRow
      BY <1>rev, <2>0, <2>1 DEF TaskRow, TaskStates
    <2> QED BY <1>2, <2>2, TaskOnlyType DEF Update, r
  <1>3. \A t \in Tasks, d \in BOOLEAN : Activate(t, d) \in TaskRow
    <2> SUFFICES ASSUME NEW t \in Tasks, NEW d \in BOOLEAN
                 PROVE  Activate(t, d) \in TaskRow
      OBVIOUS
    <2> DEFINE r == ReleaseLease(task[t])
    <2>0. r \in TaskRow
      BY <1>rev, RowTypes
    <2> HIDE DEF r
    <2>1. r.rev + 1 \in Nat
      BY <2>0 DEF TaskRow
    <2>2. [r EXCEPT !.state = "active", !.rev = r.rev + 1,
                    !.approved = task[t].rev + 1, !.due = d] \in TaskRow
      BY <1>rev, <2>0, <2>1 DEF TaskRow, TaskStates
    <2> QED BY <2>2 DEF Activate, r
  <1>4. ASSUME NEW t \in Tasks, NEW m \in Members, Approve(t, m) PROVE TypeOK'
    <2>1. \A d \in BOOLEAN : [Activate(t, d) EXCEPT !.owner = m] \in TaskRow
      BY <1>3 DEF TaskRow
    <2> QED BY <1>4, <2>1, TaskOnlyType DEF Approve
  <1>5. ASSUME NEW t \in Tasks, NEW m \in Members, Resume(t, m) PROVE TypeOK'
    BY <1>5, <1>3, TaskOnlyType DEF Resume
  <1>6. ASSUME NEW t \in Tasks, Pause(t) PROVE TypeOK'
    BY <1>6, <1>rev, RowTypes, TaskOnlyType DEF Pause
  <1>7. ASSUME NEW t \in Tasks, SetQuality(t) PROVE TypeOK'
    <2> DEFINE a == IF task[t].state = "active" THEN task[t].rev + 1
                    ELSE task[t].approved
    <2>1. a \in Nat
      BY <1>rev DEF TaskRow
    <2> HIDE DEF a
    <2>2. [task[t] EXCEPT !.rev = task[t].rev + 1, !.approved = a] \in TaskRow
      BY <1>rev, <2>1 DEF TaskRow
    <2> QED BY <1>7, <2>2, TaskOnlyType DEF SetQuality, a
  <1>8. ASSUME NEW t \in Tasks, Remove(t) PROVE TypeOK'
    <2> DEFINE r == Withdraw(ReleaseLease(task[t]))
    <2>1. r \in TaskRow
      BY <1>rev, RowTypes
    <2> HIDE DEF r
    <2>2. [r EXCEPT !.state = "deleted", !.due = FALSE, !.unseen = None] \in TaskRow
      BY <2>1 DEF TaskRow, TaskStates
    <2>3. task' \in [Tasks -> TaskRow]
      BY <1>8, <2>2 DEF Remove, TypeOK, r
    <2>4. exec' \in [Execs -> ExecRow]
      BY <1>8 DEF Remove, TypeOK, ExecRow, Statuses
    <2> QED BY <1>8, <2>3, <2>4 DEF Remove, TypeOK
  <1>9. ASSUME NEW t \in Tasks, NEW kind \in Kinds, NEW m \in Members,
               Enqueue(t, kind, m)
        PROVE  TypeOK'
    BY <1>9, InsertType DEF Enqueue, TypeOK
  <1> QED BY <1>1, <1>2, <1>4, <1>5, <1>6, <1>7, <1>8, <1>9 DEF Api

\* Steps of the queue: the polls, the sweep and the claim.
LEMMA QueueType ==
  ASSUME TypeOK, NEW w \in Workers,
         \/ SelectDue(w) \/ EnqueueScheduled(w) \/ StartRun(w)
         \/ FailInterrupted(w) \/ SelectQueued(w) \/ Claim(w) \/ Check(w)
         \/ Finish(w)
  PROVE  TypeOK'
  <1>pcs. /\ {"idle", "enqueue", "sweep", "select", "claim", "check", "take"} \subseteq Pcs
          /\ {"idle", "enqueue", "sweep", "select"} \subseteq Free
          /\ "claim" \notin Free /\ "check" \notin Free /\ "take" \notin Free
          /\ "finish" \notin Free /\ "failed" \in Terminal
    BY DEF Pcs, Free, Terminal
  <1>1. CASE SelectDue(w)
    <2>1. \A b \in SUBSET (Tasks \X Nat) :
            [Idle EXCEPT !.pc = "enqueue", !.batch = b] \in WorkerState
      BY <1>pcs DEF Idle, WorkerState, None, Terminal
    <2>2. {<<t, task[t].rev>> : t \in
             {u \in Tasks : Approved(u) /\ task[u].due /\ ActiveExecs(u) = {}}}
             \in SUBSET (Tasks \X Nat)
      BY DEF TypeOK, TaskRow
    <2>3. worker' \in [Workers -> WorkerState]
      BY <1>1, <2>1, <2>2 DEF SelectDue, TypeOK
    <2>4. \A v \in Workers : worker'[v].exec = None <=> worker'[v].pc \in Free
      BY <1>1, <1>pcs DEF SelectDue, TypeOK, Idle
    <2> QED BY <1>1, <2>3, <2>4 DEF SelectDue, TypeOK
  <1>2. CASE EnqueueScheduled(w)
    <2>1. PICK p \in worker[w].batch :
            LET t == p[1]  current == Exists(t) /\ task[t].rev = p[2] /\ Approved(t)
                free == ActiveExecs(t) = {}
            IN /\ worker' = [worker EXCEPT ![w].batch = @ \ {p}]
               /\ \/ current /\ free /\ InsertQueued(t, "scheduled", task[t].owner)
                  \/ /\ current /\ ~settings[HouseholdOf[t]].usable
                     /\ task' = [task EXCEPT ![t].due = FALSE, ![t].unseen = None]
                     /\ UNCHANGED exec
                  \/ (~(current /\ free) \/ NextExec = {}) /\ UNCHANGED <<task, exec>>
      BY <1>2 DEF EnqueueScheduled
    <2>2. p[1] \in Tasks /\ task[p[1]].owner \in Members /\ "scheduled" \in Kinds
      BY DEF TypeOK, WorkerState, TaskRow, Kinds
    <2>3. worker' \in [Workers -> WorkerState]
      BY <2>1 DEF TypeOK, WorkerState
    <2>4. \A v \in Workers : worker'[v].exec = None <=> worker'[v].pc \in Free
      BY <2>1 DEF TypeOK, WorkerState
    <2>5. task' \in [Tasks -> TaskRow] /\ exec' \in [Execs -> ExecRow]
      <3>1. ASSUME NEW t \in Tasks, NEW m \in Members, InsertQueued(t, "scheduled", m)
            PROVE  task' \in [Tasks -> TaskRow] /\ exec' \in [Execs -> ExecRow]
        BY <3>1, <2>2, InsertType
      <3>2. ASSUME NEW t \in Tasks, UNCHANGED exec,
                   task' = [task EXCEPT ![t].due = FALSE, ![t].unseen = None]
            PROVE  task' \in [Tasks -> TaskRow] /\ exec' \in [Execs -> ExecRow]
        <4>1. \A row \in TaskRow :
                [[row EXCEPT !.due = FALSE] EXCEPT !.unseen = None] \in TaskRow
          BY DEF TaskRow
        <4> QED BY <3>2, <4>1 DEF TypeOK
      <3>3. CASE UNCHANGED <<task, exec>>
        BY <3>3 DEF TypeOK
      <3> QED BY <2>1, <2>2, <3>1, <3>2, <3>3
    <2> QED BY <1>2, <2>3, <2>4, <2>5 DEF EnqueueScheduled, TypeOK
  <1>3. CASE StartRun(w)
    <2>1. WorkersOK'
      BY <1>3, <1>pcs, GoType DEF StartRun
    <2> QED BY <1>3, <2>1 DEF StartRun, TypeOK, WorkersOK
  <1>4. CASE FailInterrupted(w)
    <2>1. WorkersOK'
      BY <1>4, <1>pcs, GoType DEF FailInterrupted
    <2>2. \A e \in Execs : RecoveredStatus(e) \in Terminal
                           /\ Recovered(e) \in BOOLEAN
      BY DEF RecoveredStatus, Recovered, Terminal
    <2>3. exec' \in [Execs -> ExecRow]
      <3>1. \A e \in Execs : [exec[e] EXCEPT !.status = RecoveredStatus(e),
                                !.interrupted = ~Recovered(e)] \in ExecRow
        BY <2>2 DEF TypeOK, ExecRow, Statuses
      <3> QED BY <1>4, <3>1 DEF FailInterrupted, TypeOK
    <2>4. task' \in [Tasks -> TaskRow]
      BY <1>4, RowTypes DEF FailInterrupted, TypeOK
    <2> QED BY <1>4, <2>1, <2>3, <2>4 DEF FailInterrupted, TypeOK, WorkersOK
  <1>5. CASE SelectQueued(w)
    <2>1. CASE Go(w, "idle")
      <3>1. WorkersOK'
        BY <1>5, <2>1, <1>pcs, GoType DEF SelectQueued
      <3> QED BY <1>5, <3>1 DEF SelectQueued, TypeOK, WorkersOK
    <2>2. ASSUME NEW e \in Queued \ Locked,
                 worker' = [worker EXCEPT ![w].pc = "claim", ![w].exec = e]
          PROVE  TypeOK'
      <3>1. e \in Execs /\ e # None
        BY DEF Queued, Execs, None
      <3>0. [worker[w] EXCEPT !.pc = "claim", !.exec = e] \in WorkerState
        BY <3>1, <1>pcs DEF TypeOK, WorkerState
      <3>2. worker' \in [Workers -> WorkerState]
        BY <2>2, <3>0 DEF TypeOK
      <3>3. \A v \in Workers : worker'[v].exec = None <=> worker'[v].pc \in Free
        BY <2>2, <3>1, <1>pcs DEF TypeOK, WorkerState
      <3> QED BY <1>5, <3>2, <3>3 DEF SelectQueued, TypeOK
    <2> QED BY <1>5, <2>1, <2>2 DEF SelectQueued
  <1>6. CASE Claim(w)
    <2>1. WorkersOK'
      BY <1>6, <1>pcs, GoType DEF Claim
    <2>2. worker[w].exec \in Execs
      BY <1>6, <1>pcs, HeldExec DEF Claim
    <2>3. \A row \in ExecRow : [row EXCEPT !.status = "running", !.leaseLive = TRUE,
                                            !.started = starts + 1] \in ExecRow
      <3>1. starts + 1 \in Nat
        BY DEF TypeOK
      <3> QED BY <3>1 DEF ExecRow, Statuses
    <2>4. exec' \in [Execs -> ExecRow]
      BY <1>6, <2>2, <2>3 DEF Claim, TypeOK
    <2> QED BY <1>6, <2>1, <2>4 DEF Claim, TypeOK, WorkersOK
  <1>7. CASE Check(w)
    <2>1. WorkersOK'
      BY <1>7, <1>pcs, GoType, EndType DEF Check
    <2> QED BY <1>7, <2>1 DEF Check, TypeOK, WorkersOK
  <1>8. CASE Finish(w)
    <2>1. exec' \in [Execs -> ExecRow]
      <3>1. worker[w].result \in Terminal
        BY DEF TypeOK, WorkerState
      <3>2. \A row \in ExecRow : [row EXCEPT !.status = worker[w].result,
                                              !.leaseLive = FALSE] \in ExecRow
        BY <3>1 DEF ExecRow, Statuses
      <3> QED BY <1>8, <3>2 DEF Finish, TypeOK
    <2>2. worker' \in [Workers -> WorkerState]
      <3>1. Idle \in WorkerState
        BY DEF Idle, WorkerState, Pcs, None, Terminal
      <3> QED BY <1>8, <3>1 DEF Finish, TypeOK
    <2>3. \A v \in Workers : worker'[v].exec = None <=> worker'[v].pc \in Free
      BY <1>8, <1>pcs DEF Finish, TypeOK, Idle
    <2> QED BY <1>8, <2>1, <2>2, <2>3 DEF Finish, TypeOK
  <1> QED BY <1>1, <1>2, <1>3, <1>4, <1>5, <1>6, <1>7, <1>8

\* Steps of a claimed run.
LEMMA RunType ==
  ASSUME TypeOK, NEW w \in Workers,
         \/ Take(w) \/ PauseUnauthorized(w) \/ Analyse(w) \/ FinishUnchanged(w)
         \/ Reconcile(w) \/ Preview(w) \/ FinishFailure(w) \/ Interpret(w)
         \/ InterpretFailed(w) \/ ClearFailedLease(w) \/ WriteInterpretationAudit(w)
  PROVE  TypeOK'
  <1> DEFINE e == worker[w].exec  t == exec[e].task
             TaskSet == [Tasks -> TaskRow]  ExecSet == [Execs -> ExecRow]
  <1>pcs. /\ {"take", "unauthorized", "work", "analyse", "interpretFailed",
              "auditFailed", "finish"} \subseteq Pcs \ Free
          /\ Terminal = {"succeeded", "failed", "superseded"}
          /\ {"none", "changed", "unchanged", "failed", "superseded", "success"}
               \subseteq Records
          /\ {"interpretation", "test", "manual", "smarter", "scheduled"} \subseteq Kinds
    BY DEF Pcs, Free, Terminal, Records, Kinds
  <1>pc. worker[w].pc \notin Free
    BY <1>pcs DEF Take, PauseUnauthorized, Analyse, FinishUnchanged, Reconcile, Preview,
       FinishFailure, Interpret, InterpretFailed, ClearFailedLease,
       WriteInterpretationAudit, Working
  <1>held. /\ e \in Execs /\ t \in Tasks /\ exec[e].kind \in Kinds
           /\ task[t] \in TaskRow
    BY <1>pc, HeldExec
  <1> HIDE DEF e, t
  <1>keep. task \in TaskSet /\ exec \in ExecSet /\ worker \in [Workers -> WorkerState]
    BY DEF TypeOK
  \* Every branch leaves the rest alone, so three memberships are enough.
  <1>rest. ASSUME task' \in TaskSet, exec' \in ExecSet, WorkersOK',
                  UNCHANGED <<settings, auth, starts, crashes>>
           PROVE  TypeOK'
    BY <1>rest DEF TypeOK, WorkersOK
  <1>row. \A row \in TaskRow : [task EXCEPT ![t] = row] \in TaskSet
    BY <1>keep
  <1>rows. /\ ReleaseLease(task[t]) \in TaskRow /\ Paused(task[t]) \in TaskRow
           /\ \A k : NextCheck(ReleaseLease(task[t]), k) \in TaskRow
    BY <1>held, RowTypes
  <1>end. \A result \in Terminal : End(w, result) => WorkersOK'
    BY <1>pc, EndType
  <1>rec. \A o \in Records, k \in Kinds : Record(e, o, k) => exec' \in ExecSet
    BY <1>held, RecordType
  <1>rej. ASSUME RejectFinal(w)
          PROVE  task' \in TaskSet /\ exec' \in ExecSet /\ WorkersOK'
    BY <1>rej, <1>pcs, <1>held, <1>row, <1>rows, <1>end, <1>rec DEF RejectFinal, e, t
  <1>1. CASE Take(w)
    <2>1. CASE TakeOutcome(e) = "taken"
      <3>1. \A n \in Nat : [task[t] EXCEPT !.lease = e, !.leaseLive = TRUE,
                                  !.unseen = None, !.takes = n] \in TaskRow
        BY <1>held DEF TaskRow
      <3>2. task[t].takes + 1 \in Nat /\ task[t].text \in Nat
        BY <1>held DEF TaskRow
      <3>3. task' \in TaskSet
        <4> DEFINE row == [task[t] EXCEPT !.lease = e, !.leaseLive = TRUE,
                             !.unseen = None, !.takes = task[t].takes + 1]
        <4>1. row \in TaskRow
          BY <3>1, <3>2
        <4>2. task' = [task EXCEPT ![t] = row]
          BY <1>1, <2>1 DEF Take, e, t
        <4> QED BY <4>1, <4>2, <1>row
      <3>4. PICK pc \in {"unauthorized", "work"} :
              worker' = [worker EXCEPT ![w] = [@ EXCEPT !.pc = pc,
                           !.ticket = task[t].takes + 1, !.text = task[t].text]]
        BY <1>1, <2>1 DEF Take, e, t
      <3>5. \A row \in WorkerState, n \in Nat, x \in Nat :
              [row EXCEPT !.pc = pc, !.ticket = n, !.text = x] \in WorkerState
        BY <1>pcs DEF WorkerState
      <3>6. worker' \in [Workers -> WorkerState]
        BY <3>2, <3>4, <3>5, <1>keep
      <3>7. \A v \in Workers : worker'[v].exec = None <=> worker'[v].pc \in Free
        BY <3>4, <1>pc, <1>pcs DEF TypeOK, WorkerState
      <3> QED BY <1>1, <2>1, <1>rest, <1>keep, <3>3, <3>6, <3>7 DEF Take, WorkersOK, e, t
    <2>2. CASE TakeOutcome(e) # "taken"
      <3>1. TakeOutcome(e) \in Terminal
        BY <2>2, <1>pcs DEF TakeOutcome
      <3>2. [task[t] EXCEPT !.unseen = None] \in TaskRow
        BY <1>held DEF TaskRow
      <3>3. task' \in TaskSet
        BY <1>1, <2>2, <3>2, <1>row DEF Take, e, t
      <3> QED BY <1>1, <2>2, <1>rest, <1>keep, <1>end, <3>1, <3>3 DEF Take, e, t
    <2> QED BY <2>1, <2>2
  <1>2. CASE PauseUnauthorized(w)
    BY <1>2, <1>pcs, <1>rest, <1>keep, <1>row, <1>rows, <1>end, <1>rec
       DEF PauseUnauthorized, e, t
  <1>3. CASE Analyse(w)
    BY <1>3, <1>pcs, <1>pc, <1>rest, <1>keep, <1>end, GoType DEF Analyse
  <1>4. CASE FinishUnchanged(w)
    BY <1>4, <1>pcs, <1>held, <1>rest, <1>keep, <1>row, <1>rows, <1>end, <1>rec, <1>rej
       DEF FinishUnchanged, KindOf, e, t
  <1>5. CASE Reconcile(w)
    <2>1. worker[w].ticket \in Nat
      BY <1>keep DEF WorkerState
    <2>2. \A row \in TaskRow : [row EXCEPT !.known = TRUE, !.live = worker[w].ticket]
                                 \in TaskRow
      BY <2>1 DEF TaskRow
    <2>3. ASSUME UNCHANGED <<settings, auth, starts, crashes>>,
                 task' = [task EXCEPT ![t] = [NextCheck(ReleaseLease(@), KindOf(w))
                            EXCEPT !.known = TRUE, !.live = worker[w].ticket]],
                 Record(e, "changed", KindOf(w)), End(w, "succeeded")
          PROVE  TypeOK'
      <3>1. task' \in TaskSet
        BY <2>2, <2>3, <1>held, <1>keep, <1>row, <1>rows
      <3>2. exec' \in ExecSet
        BY <2>3, <1>held, <1>pcs, <1>rec DEF KindOf, e
      <3>3. WorkersOK'
        BY <2>3, <1>pcs, <1>end
      <3> QED BY <2>3, <3>1, <3>2, <3>3, <1>rest
    <2>4. ASSUME UNCHANGED <<settings, auth, starts, crashes>>, RejectFinal(w)
          PROVE  TypeOK'
      BY <2>4, <1>rej, <1>rest
    <2>5. ASSUME UNCHANGED <<settings, auth, starts, crashes>>, UNCHANGED task,
                 Record(e, "superseded", KindOf(w)), End(w, "superseded")
          PROVE  TypeOK'
      BY <2>5, <1>pcs, <1>held, <1>keep, <1>end, <1>rec, <1>rest DEF KindOf, e
    <2> QED BY <1>5, <2>3, <2>4, <2>5 DEF Reconcile, e, t
  <1>6. CASE Preview(w)
    BY <1>6, <1>pcs, <1>held, <1>rest, <1>keep, <1>row, <1>rows, <1>end, <1>rec
       DEF Preview, KindOf, e, t
  <1>7. CASE FinishFailure(w)
    BY <1>7, <1>pcs, <1>held, <1>rest, <1>keep, <1>row, <1>rows, <1>end, <1>rec
       DEF FinishFailure, KindOf, e, t
  <1>8. CASE Interpret(w)
    <2> DEFINE r == ReleaseLease(task[t])
    <2>1. r \in TaskRow /\ worker[w].text \in Nat
      BY <1>rows, <1>keep DEF WorkerState
    <2> HIDE DEF r
    <2>2. task[t].rev + 1 \in Nat
      BY <1>held DEF TaskRow
    <2>3. [r EXCEPT !.rev = task[t].rev + 1, !.rule = worker[w].text, !.approved = 0,
                    !.state = "draft"] \in TaskRow
      BY <2>1, <2>2 DEF TaskRow, TaskStates
    <2>4. task' \in TaskSet
      <3> DEFINE row == [r EXCEPT !.rev = task[t].rev + 1, !.rule = worker[w].text,
                                  !.approved = 0, !.state = "draft"]
      <3>1. task' = [task EXCEPT ![t] = row]
        BY <1>8 DEF Interpret, r, e, t
      <3> QED BY <3>1, <2>3, <1>row
    <2> QED BY <1>8, <2>4, <1>pcs, <1>rest, <1>end, <1>rec DEF Interpret, e, t
  <1>9. CASE InterpretFailed(w)
    <2>1. PICK result \in Terminal :
            worker' = [worker EXCEPT ![w].pc = "interpretFailed", ![w].result = result]
      BY <1>9, <1>pcs DEF InterpretFailed
    <2>2. [worker[w] EXCEPT !.pc = "interpretFailed", !.result = result] \in WorkerState
      BY <1>keep, <1>pcs DEF WorkerState
    <2>3. worker' \in [Workers -> WorkerState]
      BY <2>1, <2>2, <1>keep
    <2>4. \A v \in Workers : worker'[v].exec = None <=> worker'[v].pc \in Free
      BY <2>1, <1>pc, <1>pcs DEF TypeOK, WorkerState
    <2> QED BY <1>9, <1>rest, <1>keep, <2>3, <2>4 DEF InterpretFailed, WorkersOK
  <1>10. CASE ClearFailedLease(w)
    BY <1>10, <1>pcs, <1>pc, <1>rest, <1>keep, <1>row, <1>rows, GoType
       DEF ClearFailedLease, e, t
  <1>11. CASE WriteInterpretationAudit(w)
    BY <1>11, <1>pcs, <1>pc, <1>rest, <1>keep, <1>rec, GoType
       DEF WriteInterpretationAudit, e
  <1> QED BY <1>1, <1>2, <1>3, <1>4, <1>5, <1>6, <1>7, <1>8, <1>9, <1>10, <1>11

\* Crashes, expiring leases and changed settings keep the types.
LEMMA EnvironmentType ==
  ASSUME TypeOK, Environment
  PROVE  TypeOK'
  <1>1. ASSUME NEW w \in Workers, Crash(w) PROVE TypeOK'
    <2>1. Idle \in WorkerState /\ Idle.exec = None /\ Idle.pc \in Free
      BY DEF Idle, WorkerState, Pcs, None, Terminal, Free
    <2>2. worker' \in [Workers -> WorkerState]
      BY <1>1, <2>1 DEF Crash, TypeOK
    <2>3. \A v \in Workers : worker'[v].exec = None <=> worker'[v].pc \in Free
      BY <1>1, <2>1 DEF Crash, TypeOK
    <2> QED BY <1>1, <2>2, <2>3 DEF Crash, TypeOK
  <1>2. ASSUME NEW e \in Execs, ExpireWorkerLease(e) PROVE TypeOK'
    <2>1. exec' \in [Execs -> ExecRow]
      BY <1>2 DEF ExpireWorkerLease, TypeOK, ExecRow
    <2> QED BY <1>2, <2>1 DEF ExpireWorkerLease, TypeOK
  <1>3. ASSUME NEW t \in Tasks, ExpireTaskLease(t) \/ BecomeDue(t) PROVE TypeOK'
    <2>1. \A row \in TaskRow : /\ [row EXCEPT !.leaseLive = FALSE] \in TaskRow
                               /\ [row EXCEPT !.due = TRUE] \in TaskRow
      BY DEF TaskRow
    <2>2. task' \in [Tasks -> TaskRow]
      <3>1. CASE ExpireTaskLease(t)
        BY <3>1, <2>1 DEF ExpireTaskLease, TypeOK
      <3>2. CASE BecomeDue(t)
        BY <3>2, <2>1 DEF BecomeDue, TypeOK
      <3> QED BY <1>3, <3>1, <3>2
    <2> QED BY <1>3, <2>2 DEF ExpireTaskLease, BecomeDue, TypeOK
  <1>4. ASSUME NEW h \in Households, UpdateSettings(h) PROVE TypeOK'
    BY <1>4 DEF UpdateSettings, TypeOK
  <1>5. ASSUME NEW m \in Members, ChangeAuthority(m) PROVE TypeOK'
    BY <1>5 DEF ChangeAuthority, TypeOK
  <1> QED BY <1>1, <1>2, <1>3, <1>4, <1>5 DEF Environment

\* Every step keeps the types.
LEMMA TypeStep ==
  ASSUME TypeOK, [Next]_vars
  PROVE  TypeOK'
  <1>1. CASE UNCHANGED vars
    BY <1>1 DEF vars, TypeOK
  <1> QED BY <1>1, ApiType, QueueType, RunType, EnvironmentType DEF Next, WorkerStep

\* Every reachable state is well formed: in particular a worker holds an
\* execution exactly between its claim and its last statement.
THEOREM TypeCorrect == Spec => []TypeOK
  BY InitType, TypeStep, PTL DEF Spec

-----------------------------------------------------------------------------
(* A claimed execution has one runner *)

Claimed == {"running", "deleted"} \cup Terminal

\* A worker that claims has locked a queued row, one that runs an execution
\* has claimed it, and nobody else holds that row.
Holding ==
  /\ OneRunner
  /\ \A w \in Workers :
       /\ worker[w].pc = "claim" => exec[worker[w].exec].status = "queued"
       /\ worker[w].pc \notin Free \cup {"claim"} =>
            exec[worker[w].exec].status \in Claimed

\* What every step but the two of the claim does to the workers: it lets go of
\* the execution or keeps it on the same side of the claim.
KeepsHold(v) ==
  \/ worker'[v].pc \in Free
  \/ /\ worker'[v].exec = worker[v].exec
     /\ worker'[v].pc = "claim" <=> worker[v].pc = "claim"
     /\ worker[v].pc \notin Free

\* What every step but the claim does to a status.
KeepsStatus(e) ==
  \/ exec'[e].status = exec[e].status
  \/ exec[e].status = "unused"
  \/ exec[e].status = "running" /\ exec'[e].status \in Claimed
  \/ exec'[e].status = "deleted" /\ e \notin Locked

\* Steps that neither lock nor claim a row keep who holds it.
LEMMA HoldingKept ==
  ASSUME TypeOK, TypeOK', Holding,
         \A v \in Workers : KeepsHold(v), \A e \in Execs : KeepsStatus(e)
  PROVE  Holding'
  <1>1. OneRunner'
    BY DEF OneRunner, Holding, TypeOK, KeepsHold
  <1>2. ASSUME NEW v \in Workers, worker'[v].pc \notin Free
        PROVE  /\ worker[v].pc \notin Free /\ worker[v].exec \in Execs
               /\ worker'[v].exec = worker[v].exec
               /\ worker'[v].pc = "claim" <=> worker[v].pc = "claim"
    BY <1>2 DEF KeepsHold, TypeOK, WorkerState
  <1>3. ASSUME NEW v \in Workers, worker'[v].pc = "claim"
        PROVE  exec'[worker'[v].exec].status = "queued"
    <2>1. "claim" \notin Free
      BY DEF Free
    <2>2. worker[v].exec \in Execs /\ worker'[v].exec = worker[v].exec /\ worker[v].pc = "claim"
      BY <1>2, <1>3, <2>1
    <2>3. exec[worker[v].exec].status = "queued" /\ worker[v].exec \in Locked
      BY <2>2 DEF Holding, Locked
    <2> QED BY <2>2, <2>3 DEF KeepsStatus
  <1>4. ASSUME NEW v \in Workers, worker'[v].pc \notin Free \cup {"claim"}
        PROVE  exec'[worker'[v].exec].status \in Claimed
    <2>1. /\ worker[v].exec \in Execs /\ worker'[v].exec = worker[v].exec
          /\ worker[v].pc \notin Free \cup {"claim"}
      BY <1>2, <1>4
    <2>2. exec[worker[v].exec].status \in Claimed
      BY <2>1 DEF Holding
    <2> QED BY <2>1, <2>2 DEF KeepsStatus, Claimed, Terminal
  <1> QED BY <1>1, <1>3, <1>4 DEF Holding

\* A step that leaves workers or executions alone keeps them.
LEMMA KeptIfUnchanged ==
  /\ UNCHANGED worker /\ TypeOK' => \A v \in Workers : KeepsHold(v)
  /\ UNCHANGED exec => \A e \in Execs : KeepsStatus(e)
  BY DEF KeepsHold, KeepsStatus

\* Moving on after the claim keeps the execution of every worker.
LEMMA GoKeeps ==
  ASSUME TypeOK, NEW w \in Workers, NEW pc \in Pcs, Go(w, pc),
         pc # "claim", worker[w].pc # "claim",
         worker[w].pc \in Free => pc \in Free
  PROVE  \A v \in Workers : KeepsHold(v)
  BY DEF KeepsHold, Go, TypeOK, WorkerState

\* So does going to the last statement of runOne.
LEMMA EndKeeps ==
  ASSUME TypeOK, NEW w \in Workers, NEW result, End(w, result),
         worker[w].pc \notin Free, worker[w].pc # "claim"
  PROVE  \A v \in Workers : KeepsHold(v)
  BY DEF KeepsHold, End, TypeOK, WorkerState, Free

\* Linking a run or an audit changes no status.
LEMMA RecordKeeps ==
  ASSUME TypeOK, NEW e \in Execs, NEW outcome, NEW kind, Record(e, outcome, kind)
  PROVE  \A x \in Execs : exec'[x].status = exec[x].status
  BY DEF Record, TypeOK, ExecRow

\* enqueueTask changes the status of an unused row only.
LEMMA InsertKeeps ==
  ASSUME TypeOK, NEW t \in Tasks, NEW kind, NEW m, InsertQueued(t, kind, m)
  PROVE  \A x \in Execs : KeepsStatus(x)
  BY DEF InsertQueued, KeepsStatus, TypeOK, ExecRow, NextExec

\* A run of the engine changes no status: only finish and the sweep do.
LEMMA RunKeeps ==
  ASSUME TypeOK, NEW w \in Workers,
         \/ Check(w) \/ Take(w) \/ PauseUnauthorized(w) \/ Analyse(w)
         \/ FinishUnchanged(w) \/ Reconcile(w) \/ Preview(w) \/ FinishFailure(w)
         \/ Interpret(w) \/ InterpretFailed(w) \/ ClearFailedLease(w)
         \/ WriteInterpretationAudit(w)
  PROVE  /\ \A v \in Workers : KeepsHold(v)
         /\ \A x \in Execs : exec'[x].status = exec[x].status
  <1> DEFINE e == worker[w].exec
             Same == \A x \in Execs : exec'[x].status = exec[x].status
             Held == \A v \in Workers : KeepsHold(v)
  <1>pcs. /\ {"take", "analyse", "auditFailed", "finish"} \subseteq Pcs
          /\ {"check", "take", "unauthorized", "work", "analyse", "interpretFailed",
              "auditFailed", "finish"} \cap (Free \cup {"claim"}) = {}
    BY DEF Pcs, Free
  <1>pc. worker[w].pc \notin Free /\ worker[w].pc # "claim"
    BY <1>pcs DEF Check, Take, PauseUnauthorized, Analyse, FinishUnchanged, Reconcile,
       Preview, FinishFailure, Interpret, InterpretFailed, ClearFailedLease,
       WriteInterpretationAudit, Working
  <1>e. e \in Execs
    BY <1>pc, HeldExec
  <1> HIDE DEF e
  <1>end. \A result : End(w, result) => Held
    BY <1>pc, EndKeeps
  <1>rec. \A outcome, kind : Record(e, outcome, kind) => Same
    BY <1>e, RecordKeeps
  <1>rej. RejectFinal(w) => Held /\ Same
    BY <1>end, <1>rec DEF RejectFinal, e
  <1>1. CASE Check(w)
    BY <1>1, <1>pcs, <1>pc, <1>end, GoKeeps DEF Check
  <1>2. CASE Take(w)
    <2>1. CASE TakeOutcome(e) = "taken"
      <3> DEFINE t == exec[e].task
                 pc == IF Production(exec[e].kind) /\ task[t].owner \notin auth
                       THEN "unauthorized" ELSE "work"
      <3>1. worker' = [worker EXCEPT ![w] =
                         [@ EXCEPT !.pc = pc, !.ticket = task[t].takes + 1,
                                   !.text = task[t].text]]
        BY <1>2, <2>1 DEF Take, e
      <3>2. pc \notin Free \cup {"claim"}
        BY <1>pcs
      <3> HIDE DEF t, pc
      <3>3. Held
        BY <3>1, <3>2, <1>pc DEF KeepsHold, TypeOK, WorkerState
      <3> QED BY <1>2, <3>3 DEF Take
    <2>2. CASE TakeOutcome(e) # "taken"
      BY <1>2, <2>2, <1>end DEF Take, e
    <2> QED BY <2>1, <2>2
  <1>3. CASE PauseUnauthorized(w)
    BY <1>3, <1>end, <1>rec DEF PauseUnauthorized, e
  <1>4. CASE Analyse(w)
    BY <1>4, <1>pcs, <1>pc, <1>end, GoKeeps DEF Analyse
  <1>5. CASE FinishUnchanged(w)
    BY <1>5, <1>end, <1>rec, <1>rej DEF FinishUnchanged, e
  <1>6. CASE Reconcile(w)
    BY <1>6, <1>end, <1>rec, <1>rej DEF Reconcile, e
  <1>7. CASE Preview(w)
    BY <1>7, <1>end, <1>rec DEF Preview, e
  <1>8. CASE FinishFailure(w)
    BY <1>8, <1>end, <1>rec DEF FinishFailure, e
  <1>9. CASE Interpret(w)
    BY <1>9, <1>end, <1>rec DEF Interpret, e
  <1>10. CASE InterpretFailed(w)
    <2>1. PICK result :
            worker' = [worker EXCEPT ![w].pc = "interpretFailed", ![w].result = result]
      BY <1>10 DEF InterpretFailed
    <2>2. KeepsHold(w)
      BY <2>1, <1>pc, <1>pcs DEF KeepsHold, TypeOK, WorkerState
    <2> QED BY <1>10, <2>1, <2>2 DEF InterpretFailed, KeepsHold, TypeOK
  <1>11. CASE ClearFailedLease(w)
    BY <1>11, <1>pcs, <1>pc, GoKeeps DEF ClearFailedLease
  <1>12. CASE WriteInterpretationAudit(w)
    BY <1>12, <1>pcs, <1>pc, <1>rec, GoKeeps DEF WriteInterpretationAudit, e
  <1> QED BY <1>1, <1>2, <1>3, <1>4, <1>5, <1>6, <1>7, <1>8, <1>9, <1>10, <1>11, <1>12

\* At the start no worker holds anything.
LEMMA InitHolding == Init => Holding
  BY DEF Init, Holding, OneRunner, Idle, Free

\* Every step but the two of the claim.
LEMMA OtherKeeps ==
  ASSUME TypeOK, TypeOK', Holding,
         \/ Api \/ Environment \/ UNCHANGED vars
         \/ \E w \in Workers : \/ SelectDue(w) \/ EnqueueScheduled(w) \/ StartRun(w)
                               \/ FailInterrupted(w) \/ Finish(w)
  PROVE  /\ \A v \in Workers : KeepsHold(v)
         /\ \A x \in Execs : KeepsStatus(x)
  <1> DEFINE Held == \A v \in Workers : KeepsHold(v)
             Kept == \A x \in Execs : KeepsStatus(x)
  <1>1. CASE UNCHANGED vars
    BY <1>1, KeptIfUnchanged DEF vars
  <1>2. ASSUME NEW t \in Tasks,
               \/ Update(t) \/ Pause(t) \/ SetQuality(t)
               \/ \E m \in Members : Create(t, m) \/ Approve(t, m) \/ Resume(t, m)
        PROVE  Held /\ Kept
    BY <1>2, KeptIfUnchanged
       DEF Update, Pause, SetQuality, Create, Approve, Resume, TaskOnly
  <1>3. ASSUME NEW t \in Tasks, Remove(t) PROVE Held /\ Kept
    <2>1. Held
      BY <1>3, KeptIfUnchanged DEF Remove
    <2>2. ASSUME NEW x \in Execs PROVE KeepsStatus(x)
      <3>1. CASE exec[x].task = t /\ exec[x].status # "unused"
        <4>1. exec'[x].status = "deleted"
          BY <1>3, <3>1 DEF Remove, TypeOK, ExecRow
        <4>2. x \in Locked => exec[x].status = "queued"
          BY DEF Locked, Holding
        <4>3. x \notin Locked
          BY <1>3, <3>1, <4>2 DEF Remove, ActiveExecs
        <4> QED BY <4>1, <4>3 DEF KeepsStatus
      <3>2. CASE ~(exec[x].task = t /\ exec[x].status # "unused")
        BY <1>3, <3>2 DEF Remove, KeepsStatus
      <3> QED BY <3>1, <3>2
    <2> QED BY <2>1, <2>2
  <1>4. ASSUME NEW t \in Tasks, NEW kind \in Kinds, NEW m \in Members, Enqueue(t, kind, m)
        PROVE  Held /\ Kept
    BY <1>4, InsertKeeps, KeptIfUnchanged DEF Enqueue
  <1>5. CASE Api
    BY <1>2, <1>3, <1>4, <1>5 DEF Api
  <1>6. ASSUME NEW w \in Workers, SelectDue(w) PROVE Held /\ Kept
    BY <1>6, KeptIfUnchanged DEF SelectDue, KeepsHold, TypeOK, WorkerState, Idle, Free
  <1>7. ASSUME NEW w \in Workers, EnqueueScheduled(w) PROVE Held /\ Kept
    <2>0. worker[w].batch \subseteq Tasks \X Nat
      BY DEF TypeOK, WorkerState
    <2>1. PICK p \in worker[w].batch :
            /\ worker' = [worker EXCEPT ![w].batch = @ \ {p}]
            /\ InsertQueued(p[1], "scheduled", task[p[1]].owner) \/ UNCHANGED exec
      BY <1>7 DEF EnqueueScheduled
    <2>3. p[1] \in Tasks
      BY <2>0
    <2>2. Held
      BY <2>1 DEF KeepsHold, TypeOK, WorkerState
    <2> QED BY <2>1, <2>2, <2>3, InsertKeeps, KeptIfUnchanged
  <1>8. ASSUME NEW w \in Workers, StartRun(w) PROVE Held /\ Kept
    BY <1>8, GoKeeps, KeptIfUnchanged DEF StartRun, Pcs, Free
  <1>9. ASSUME NEW w \in Workers, FailInterrupted(w) PROVE Held /\ Kept
    <2>1. Held
      BY <1>9, GoKeeps DEF FailInterrupted, Pcs, Free
    <2>2. ASSUME NEW x \in Execs PROVE KeepsStatus(x)
      BY <1>9 DEF FailInterrupted, KeepsStatus, TypeOK, ExecRow, Expired,
                  RecoveredStatus, Claimed, Terminal
    <2> QED BY <2>1, <2>2
  <1>10. ASSUME NEW w \in Workers, Finish(w) PROVE Held /\ Kept
    <2>1. worker[w].exec \in Execs /\ worker[w].result \in Terminal
      BY <1>10, HeldExec DEF Finish, Free, TypeOK, WorkerState
    <2>2. Held
      BY <1>10 DEF Finish, KeepsHold, TypeOK, Idle, Free
    <2>3. Kept
      <3>1. CASE exec[worker[w].exec].status = "running"
        <4>1. exec' = [exec EXCEPT ![worker[w].exec] =
                         [@ EXCEPT !.status = worker[w].result, !.leaseLive = FALSE]]
          BY <1>10, <3>1 DEF Finish
        <4>2. exec[worker[w].exec] \in ExecRow
          BY <2>1 DEF TypeOK
        <4> QED BY <2>1, <3>1, <4>1, <4>2 DEF KeepsStatus, TypeOK, ExecRow, Claimed
      <3>2. CASE exec[worker[w].exec].status # "running"
        BY <1>10, <3>2 DEF Finish, KeepsStatus
      <3> QED BY <3>1, <3>2
    <2> QED BY <2>2, <2>3
  <1>11. CASE Environment
    <2>1. ASSUME NEW w \in Workers, Crash(w) PROVE Held /\ Kept
      BY <2>1, KeptIfUnchanged DEF Crash, KeepsHold, TypeOK, Idle, Free
    <2>2. ASSUME NEW e \in Execs, ExpireWorkerLease(e) PROVE Held /\ Kept
      BY <2>2, KeptIfUnchanged DEF ExpireWorkerLease, KeepsStatus, TypeOK, ExecRow
    <2> QED BY <1>11, <2>1, <2>2, KeptIfUnchanged
         DEF Environment, ExpireTaskLease, BecomeDue, UpdateSettings, ChangeAuthority
  <1> QED BY <1>1, <1>5, <1>6, <1>7, <1>8, <1>9, <1>10, <1>11

\* Every step keeps one holder per execution.
LEMMA HoldingStep ==
  ASSUME TypeOK, TypeOK', Holding, [Next]_vars
  PROVE  Holding'
  <1>1. ASSUME NEW w \in Workers, SelectQueued(w) PROVE Holding'
    <2>1. CASE Go(w, "idle")
      BY <2>1, <1>1, GoKeeps, KeptIfUnchanged, HoldingKept DEF SelectQueued, Pcs, Free
    <2>2. CASE ~Go(w, "idle")
      <3>1. PICK e \in Queued \ Locked :
              worker' = [worker EXCEPT ![w].pc = "claim", ![w].exec = e]
        BY <1>1, <2>2 DEF SelectQueued
      <3>2. /\ worker'[w].exec = e /\ worker'[w].pc = "claim"
            /\ \A v \in Workers \ {w} : worker'[v] = worker[v]
            /\ UNCHANGED exec
        BY <1>1, <3>1 DEF TypeOK, WorkerState, SelectQueued
      <3>3. exec[e].status = "queued" /\ e \in Execs
        BY <3>1 DEF Queued
      <3>4. ASSUME NEW v \in Workers \ {w} PROVE worker[v].exec # e
        <4>1. CASE worker[v].pc \in Free
          BY <4>1, <3>3, Bounds DEF TypeOK, None, Execs
        <4>2. CASE worker[v].pc = "claim"
          BY <4>2, <3>1 DEF Locked
        <4>3. CASE worker[v].pc \notin Free \cup {"claim"}
          BY <4>3, <3>3 DEF Holding, Claimed, Terminal
        <4> QED BY <4>1, <4>2, <4>3
      <3>5. OneRunner'
        BY <3>2, <3>4 DEF OneRunner, Holding
      <3>6. ASSUME NEW v \in Workers
            PROVE  /\ worker'[v].pc = "claim" => exec'[worker'[v].exec].status = "queued"
                   /\ worker'[v].pc \notin Free \cup {"claim"} =>
                        exec'[worker'[v].exec].status \in Claimed
        BY <3>2, <3>3 DEF Holding
      <3> QED BY <3>5, <3>6 DEF Holding
    <2> QED BY <2>1, <2>2
  <1>2. ASSUME NEW w \in Workers, Claim(w) PROVE Holding'
    <2> DEFINE e == worker[w].exec
    <2>1. worker[w].pc = "claim" /\ e \in Execs
      BY <1>2, HeldExec DEF Claim, Free
    <2>2. /\ exec'[e].status = "running"
          /\ \A x \in Execs \ {e} : exec'[x] = exec[x]
          /\ worker'[w].pc = "check"
          /\ \A v \in Workers : worker'[v].exec = worker[v].exec
          /\ \A v \in Workers \ {w} : worker'[v] = worker[v]
      BY <1>2, <2>1 DEF Claim, Go, TypeOK, WorkerState, ExecRow
    <2>3. OneRunner'
      BY <2>2 DEF OneRunner, Holding
    <2>4. ASSUME NEW v \in Workers
          PROVE  /\ worker'[v].pc = "claim" => exec'[worker'[v].exec].status = "queued"
                 /\ worker'[v].pc \notin Free \cup {"claim"} =>
                      exec'[worker'[v].exec].status \in Claimed
      <3>1. CASE v = w
        BY <3>1, <2>2 DEF Claimed
      <3>2. CASE v # w
        <4>1. worker[v].pc \in Free \/ (worker[v].exec \in Execs \ {e})
          BY <3>2, <2>1 DEF Holding, OneRunner, TypeOK, WorkerState, None
        <4> QED BY <3>2, <4>1, <2>2 DEF Holding, Free
      <3> QED BY <3>1, <3>2
    <2> QED BY <2>3, <2>4 DEF Holding
  <1>3. ASSUME NEW w \in Workers,
               \/ Check(w) \/ Take(w) \/ PauseUnauthorized(w) \/ Analyse(w)
               \/ FinishUnchanged(w) \/ Reconcile(w) \/ Preview(w) \/ FinishFailure(w)
               \/ Interpret(w) \/ InterpretFailed(w) \/ ClearFailedLease(w)
               \/ WriteInterpretationAudit(w)
        PROVE  Holding'
    BY <1>3, RunKeeps, HoldingKept DEF KeepsStatus
  <1>4. CASE \/ Api \/ Environment \/ UNCHANGED vars
             \/ \E w \in Workers : \/ SelectDue(w) \/ EnqueueScheduled(w) \/ StartRun(w)
                                   \/ FailInterrupted(w) \/ Finish(w)
    BY <1>4, OtherKeeps, HoldingKept
  <1> QED BY <1>1, <1>2, <1>3, <1>4 DEF Next, WorkerStep

\* No two workers run the same execution, however claims, sweeps, crashes and
\* removals interleave.
THEOREM OneRunnerHolds == Spec => []OneRunner
  <1>1. Holding => OneRunner
    BY DEF Holding
  <1> QED BY <1>1, TypeCorrect, TypeStep, InitHolding, HoldingStep, PTL DEF Spec

\* No step of a worker that came too late rewrites an outcome.
THEOREM TerminalStableHolds == Spec => TerminalStable
  <1>1. ASSUME TypeOK, TypeOK', Holding, [Next]_vars,
               NEW e \in Execs, exec[e].status \in Terminal
        PROVE  exec'[e].status \in {exec[e].status, "deleted"}
    <2>1. KeepsStatus(e) => exec'[e].status \in {exec[e].status, "deleted"}
      BY <1>1 DEF KeepsStatus, Terminal
    <2>2. ASSUME NEW w \in Workers, Claim(w)
          PROVE  exec'[e].status = exec[e].status
      <3>1. worker[w].exec \in Execs /\ exec[worker[w].exec].status = "queued"
        BY <1>1, <2>2, HeldExec DEF Claim, Holding, Free
      <3>2. worker[w].exec # e
        BY <1>1, <3>1 DEF Terminal
      <3> QED BY <2>2, <3>2 DEF Claim
    <2>3. ASSUME NEW w \in Workers, SelectQueued(w)
          PROVE  exec'[e].status = exec[e].status
      BY <2>3 DEF SelectQueued
    <2>4. ASSUME NEW w \in Workers,
                 \/ Check(w) \/ Take(w) \/ PauseUnauthorized(w) \/ Analyse(w)
                 \/ FinishUnchanged(w) \/ Reconcile(w) \/ Preview(w) \/ FinishFailure(w)
                 \/ Interpret(w) \/ InterpretFailed(w) \/ ClearFailedLease(w)
                 \/ WriteInterpretationAudit(w)
          PROVE  exec'[e].status = exec[e].status
      BY <1>1, <2>4, RunKeeps
    <2>5. CASE \/ Api \/ Environment \/ UNCHANGED vars
               \/ \E w \in Workers : \/ SelectDue(w) \/ EnqueueScheduled(w) \/ StartRun(w)
                                     \/ FailInterrupted(w) \/ Finish(w)
      BY <1>1, <2>1, <2>5, OtherKeeps
    <2> QED BY <1>1, <2>2, <2>3, <2>4, <2>5 DEF Next, WorkerStep
  <1>2. TypeOK /\ TypeOK' /\ Holding /\ [Next]_vars
          => [\A e \in Execs : exec[e].status \in Terminal =>
                 exec'[e].status \in {exec[e].status, "deleted"}]_vars
    BY <1>1
  <1> QED BY <1>2, TypeCorrect, TypeStep, InitHolding, HoldingStep, PTL
       DEF Spec, TerminalStable

-----------------------------------------------------------------------------
(* An execution ends as succeeded exactly when it has a result *)

Good == {"changed", "unchanged", "success"}

\* No result before its run; a result has the kind of its execution; a worker
\* that has not finished has committed none, and one that is about to finish
\* reports what it committed.
RecordOK(e) ==
  /\ exec[e].status \in {"unused", "queued"} => exec[e].record \notin Good
  /\ exec[e].record \in Good => exec[e].recordKind = exec[e].kind

ReportOK(w) ==
  /\ worker[w].pc \notin Free \cup {"finish"} =>
       exec[worker[w].exec].record \notin Good
  /\ worker[w].pc \in {"interpretFailed", "auditFailed"} =>
       worker[w].result # "succeeded"
  /\ worker[w].pc = "finish" =>
       \/ exec[worker[w].exec].status = "deleted"
       \/ worker[w].result = "succeeded" <=> exec[worker[w].exec].record \in Good

RecordInv == /\ \A e \in Execs : RecordOK(e)
             /\ \A w \in Workers : ReportOK(w)

\* What a step that commits no result does to an execution and to a worker.
NoResult(e) ==
  /\ exec'[e].record = exec[e].record /\ exec'[e].recordKind = exec[e].recordKind
  /\ exec[e].status # "unused" => exec'[e].kind = exec[e].kind
  /\ exec'[e].status \in {"unused", "queued"} => exec[e].status \in {"unused", "queued"}
  /\ exec[e].status = "deleted" => exec'[e].status = "deleted"

Reports(v) ==
  \/ worker'[v].pc \in Free
  \/ /\ worker[v].pc \notin Free /\ worker'[v].exec = worker[v].exec
     /\ \/ worker'[v].pc = worker[v].pc /\ worker'[v].result = worker[v].result
        \/ /\ worker[v].pc # "finish" /\ worker'[v].pc = "finish"
           /\ worker'[v].result # "succeeded"
        \/ /\ worker[v].pc # "finish" /\ worker'[v].pc # "finish"
           /\ worker'[v].pc \in {"interpretFailed", "auditFailed"} =>
                worker'[v].result # "succeeded"

\* Steps that commit no result keep the agreement of results and reports.
LEMMA RecordKept ==
  ASSUME TypeOK, TypeOK', RecordInv,
         \A e \in Execs : NoResult(e), \A v \in Workers : Reports(v)
  PROVE  RecordInv'
  <1>1. ASSUME NEW e \in Execs PROVE RecordOK(e)'
    <2>1. exec[e].status = "unused" => exec'[e].record \notin Good
      BY DEF NoResult, RecordInv, RecordOK
    <2> QED BY <2>1 DEF NoResult, RecordInv, RecordOK
  <1>2. ASSUME NEW v \in Workers PROVE ReportOK(v)'
    <2>1. CASE worker'[v].pc \in Free
      BY <2>1 DEF ReportOK, Free
    <2>2. CASE worker'[v].pc \notin Free
      <3>1. /\ worker[v].exec \in Execs /\ worker'[v].exec = worker[v].exec
            /\ worker[v].pc \notin Free
        BY <2>2, HeldExec DEF Reports
      <3>2. /\ NoResult(worker[v].exec) /\ ReportOK(v)
        BY <3>1 DEF RecordInv
      <3> QED BY <2>2, <3>1, <3>2 DEF Reports, NoResult, ReportOK
    <2> QED BY <2>1, <2>2
  <1> QED BY <1>1, <1>2 DEF RecordInv

\* The commit of a run: outcome and report agree, nobody else is concerned.
LEMMA ResultRecorded ==
  ASSUME TypeOK, TypeOK', Holding, RecordInv, NEW w \in Workers,
         worker[w].pc \notin Free \cup {"finish"},
         NEW outcome \in Records, NEW kind \in Kinds,
         Record(worker[w].exec, outcome, kind),
         outcome \in Good => kind = exec[worker[w].exec].kind,
         worker[w].pc # "claim",
         worker'[w].pc = "finish", worker'[w].exec = worker[w].exec,
         worker'[w].result = "succeeded" <=> outcome \in Good,
         \A v \in Workers \ {w} : worker'[v] = worker[v]
  PROVE  RecordInv'
  <1> DEFINE e == worker[w].exec
  <1>1. e \in Execs /\ exec[e] \in ExecRow /\ exec[e].status \in Claimed
    BY HeldExec DEF Holding
  <1>2. /\ \A x \in Execs \ {e} : exec'[x] = exec[x]
        /\ exec'[e].status = exec[e].status /\ exec'[e].kind = exec[e].kind
        /\ exec[e].status = "deleted" => exec'[e] = exec[e]
        /\ exec[e].status # "deleted" =>
             exec'[e].record = outcome /\ exec'[e].recordKind = kind
    BY <1>1 DEF Record, TypeOK, ExecRow
  <1>3. ASSUME NEW x \in Execs PROVE RecordOK(x)'
    <2>1. CASE x # e
      BY <1>2, <2>1 DEF RecordInv, RecordOK
    <2>2. CASE x = e
      BY <1>1, <1>2, <2>2 DEF RecordInv, RecordOK, Claimed, Terminal
    <2> QED BY <2>1, <2>2
  <1>4. ASSUME NEW v \in Workers PROVE ReportOK(v)'
    <2>1. CASE v = w
      BY <1>2, <2>1 DEF ReportOK
    <2>2. CASE v # w
      <3>1. worker[v].pc \in Free \/ worker[v].exec \in Execs \ {e}
        BY <1>1, <2>2 DEF Holding, OneRunner, TypeOK, WorkerState, None
      <3> QED BY <1>2, <2>2, <3>1 DEF RecordInv, ReportOK, Free
    <2> QED BY <2>1, <2>2
  <1> QED BY <1>3, <1>4 DEF RecordInv

\* A step that leaves workers or executions alone is such a step.
LEMMA NoResultIfUnchanged ==
  /\ UNCHANGED exec => \A e \in Execs : NoResult(e)
  /\ UNCHANGED worker => \A v \in Workers : Reports(v)
  BY DEF NoResult, Reports

\* Moving between steps of a run reports nothing.
LEMMA GoReports ==
  ASSUME TypeOK, NEW w \in Workers, NEW pc \in Pcs, Go(w, pc),
         pc # "finish", worker[w].pc # "finish",
         worker[w].pc \in Free => pc \in Free,
         pc \in {"interpretFailed", "auditFailed"} => worker[w].result # "succeeded"
  PROVE  \A v \in Workers : Reports(v)
  BY DEF Reports, Go, TypeOK, WorkerState

\* Ending a run without a result reports no success.
LEMMA EndReports ==
  ASSUME TypeOK, NEW w \in Workers, NEW result, End(w, result), result # "succeeded",
         worker[w].pc \notin Free \cup {"finish"}
  PROVE  \A v \in Workers : Reports(v)
  BY DEF Reports, End, TypeOK, WorkerState, Free

\* Committing a result and ending the run in one transaction agree.
LEMMA EndRecorded ==
  ASSUME TypeOK, TypeOK', Holding, RecordInv, NEW w \in Workers,
         worker[w].pc \notin Free \cup {"finish", "claim"},
         NEW outcome \in Records, NEW kind \in Kinds, NEW result,
         Record(worker[w].exec, outcome, kind), End(w, result),
         outcome \in Good => kind = exec[worker[w].exec].kind,
         result = "succeeded" <=> outcome \in Good
  PROVE  RecordInv'
  <1>1. /\ worker'[w].pc = "finish" /\ worker'[w].exec = worker[w].exec
        /\ worker'[w].result = result
        /\ \A v \in Workers \ {w} : worker'[v] = worker[v]
    BY DEF End, TypeOK, WorkerState
  <1> QED BY <1>1, ResultRecorded

\* Every step of a claimed run keeps results and reports in agreement.
LEMMA RecordRun ==
  ASSUME TypeOK, TypeOK', Holding, RecordInv, NEW w \in Workers,
         \/ Check(w) \/ Take(w) \/ PauseUnauthorized(w) \/ Analyse(w)
         \/ FinishUnchanged(w) \/ Reconcile(w) \/ Preview(w) \/ FinishFailure(w)
         \/ Interpret(w) \/ InterpretFailed(w) \/ ClearFailedLease(w)
         \/ WriteInterpretationAudit(w)
  PROVE  RecordInv'
  <1> DEFINE e == worker[w].exec
  <1>pcs. /\ {"take", "analyse", "auditFailed", "finish"} \subseteq Pcs
          /\ {"check", "take", "unauthorized", "work", "analyse", "interpretFailed",
              "auditFailed"} \cap (Free \cup {"claim", "finish"}) = {}
    BY DEF Pcs, Free
  <1>pc. worker[w].pc \notin Free \cup {"finish", "claim"}
    BY <1>pcs DEF Check, Take, PauseUnauthorized, Analyse, FinishUnchanged, Reconcile,
       Preview, FinishFailure, Interpret, InterpretFailed, ClearFailedLease,
       WriteInterpretationAudit, Working
  <1>e. e \in Execs /\ exec[e].kind \in Kinds
    BY <1>pc, HeldExec
  <1>k. /\ {"scheduled", "interpretation"} \subseteq Kinds
          /\ Good \subseteq Records
          /\ Terminal = {"succeeded", "failed", "superseded"}
          /\ {"failed", "superseded"} \subseteq Records \ Good
          /\ Good = {"changed", "unchanged", "success"}
    BY DEF Kinds, Records, Good, Terminal
  <1> HIDE DEF e
  <1>end. \A r : End(w, r) /\ UNCHANGED exec /\ r # "succeeded" => RecordInv'
    BY <1>pc, EndReports, NoResultIfUnchanged, RecordKept
  <1>rec. \A r \in Terminal, o \in Records, k \in Kinds :
            /\ Record(e, o, k) /\ End(w, r) /\ (o \in Good => k = exec[e].kind)
            /\ (r = "succeeded" <=> o \in Good)
            => RecordInv'
    BY <1>pc, EndRecorded DEF e
  <1>bad. \A r \in Terminal, o \in {"failed", "superseded"}, k \in Kinds :
            Record(e, o, k) /\ End(w, r) /\ r # "succeeded" => RecordInv'
    BY <1>rec, <1>k
  <1>good. \A o \in {"changed", "unchanged", "success"} :
             Record(e, o, exec[e].kind) /\ End(w, "succeeded") => RecordInv'
    <2> TAKE o \in {"changed", "unchanged", "success"}
    <2>1. o \in Records /\ o \in Good /\ "succeeded" \in Terminal
      BY <1>k
    <2>2. HAVE Record(e, o, exec[e].kind) /\ End(w, "succeeded")
    <2> QED BY <2>1, <2>2, <1>rec, <1>e
  <1>rej. RejectFinal(w) => RecordInv'
    BY <1>rec, <1>e, <1>k DEF RejectFinal, e
  <1>1. CASE Check(w)
    <2>1. UNCHANGED exec /\ (Go(w, "take") \/ End(w, "failed"))
      BY <1>1 DEF Check
    <2> QED BY <2>1, <1>pcs, <1>pc, <1>end, GoReports, NoResultIfUnchanged, RecordKept
  <1>2. CASE Take(w)
    <2>1. CASE TakeOutcome(e) = "taken"
      <3> DEFINE t == exec[e].task
                 pc == IF Production(exec[e].kind) /\ task[t].owner \notin auth
                       THEN "unauthorized" ELSE "work"
      <3>1. worker' = [worker EXCEPT ![w] =
                         [@ EXCEPT !.pc = pc, !.ticket = task[t].takes + 1,
                                   !.text = task[t].text]]
        BY <1>2, <2>1 DEF Take, e
      <3>2. pc \notin Free \cup {"finish", "interpretFailed", "auditFailed"}
        BY <1>pcs
      <3> HIDE DEF t, pc
      <3>3. \A v \in Workers : Reports(v)
        BY <3>1, <3>2, <1>pc DEF Reports, TypeOK, WorkerState
      <3> QED BY <1>2, <3>3, NoResultIfUnchanged, RecordKept DEF Take
    <2>2. CASE TakeOutcome(e) # "taken"
      <3>1. TakeOutcome(e) # "succeeded"
        BY DEF TakeOutcome
      <3> QED BY <1>2, <2>2, <3>1, <1>end DEF Take, e
    <2> QED BY <2>1, <2>2
  <1>3. CASE PauseUnauthorized(w)
    BY <1>3, <1>end, <1>rec, <1>k DEF PauseUnauthorized, e
  <1>4. CASE Analyse(w)
    BY <1>4, <1>pcs, <1>pc, <1>end, GoReports, NoResultIfUnchanged, RecordKept DEF Analyse
  <1>5. CASE FinishUnchanged(w)
    BY <1>5, <1>end, <1>good, <1>rej DEF FinishUnchanged, KindOf, e
  <1>6. CASE Reconcile(w)
    BY <1>6, <1>good, <1>bad, <1>rej, <1>e, <1>k DEF Reconcile, KindOf, e
  <1>7. CASE Preview(w)
    <2>1. \/ Record(e, "changed", exec[e].kind) /\ End(w, "succeeded")
          \/ Record(e, "superseded", exec[e].kind) /\ End(w, "superseded")
      BY <1>7 DEF Preview, KindOf, e
    <2> QED BY <2>1, <1>good, <1>bad, <1>e, <1>k
  <1>8. CASE FinishFailure(w)
    BY <1>8, <1>end, <1>rec, <1>e, <1>k DEF FinishFailure, KindOf, e
  <1>9. CASE Interpret(w)
    <2>1. Record(e, "success", exec[e].kind) /\ End(w, "succeeded")
      BY <1>9 DEF Interpret, KindOf, e
    <2> QED BY <2>1, <1>good
  <1>10. CASE InterpretFailed(w)
    <2>1. PICK r \in {"failed", "superseded"} :
            worker' = [worker EXCEPT ![w].pc = "interpretFailed", ![w].result = r]
      BY <1>10 DEF InterpretFailed
    <2>2. \A v \in Workers : Reports(v)
      BY <2>1, <1>pc, <1>pcs DEF Reports, TypeOK, WorkerState
    <2> QED BY <1>10, <2>2, NoResultIfUnchanged, RecordKept DEF InterpretFailed
  <1>11. CASE ClearFailedLease(w)
    <2>1. worker[w].result # "succeeded"
      BY <1>11 DEF ClearFailedLease, RecordInv, ReportOK
    <2> QED BY <1>11, <2>1, <1>pcs, <1>pc, GoReports, NoResultIfUnchanged, RecordKept
         DEF ClearFailedLease
  <1>12. CASE WriteInterpretationAudit(w)
    <2>1. worker[w].result # "succeeded"
      BY <1>12 DEF WriteInterpretationAudit, RecordInv, ReportOK
    <2>2. /\ worker'[w].pc = "finish" /\ worker'[w].exec = worker[w].exec
          /\ worker'[w].result = worker[w].result
          /\ \A v \in Workers \ {w} : worker'[v] = worker[v]
      BY <1>12 DEF WriteInterpretationAudit, Go, TypeOK, WorkerState
    <2>3. Record(worker[w].exec, "failed", "interpretation")
      BY <1>12 DEF WriteInterpretationAudit
    <2> QED BY <2>1, <2>2, <2>3, <1>pc, <1>k, ResultRecorded
  <1> QED BY <1>1, <1>2, <1>3, <1>4, <1>5, <1>6, <1>7, <1>8, <1>9, <1>10, <1>11, <1>12

\* At the start there are no results.
LEMMA InitRecord == Init => RecordInv
  BY DEF Init, RecordInv, RecordOK, ReportOK, NoExec, Idle, Free, Good

\* Every step keeps results and reports in agreement.
LEMMA RecordStep ==
  ASSUME TypeOK, TypeOK', Holding, RecordInv, [Next]_vars
  PROVE  RecordInv'
  <1> DEFINE Quiet == \A x \in Execs : NoResult(x)
             Steady == \A v \in Workers : Reports(v)
  <1>pcs. /\ {"idle", "sweep", "select", "check"} \subseteq Pcs
          /\ {"idle", "enqueue", "sweep", "select"} = Free
          /\ {"claim", "check", "finish"} \cap Free = {}
    BY DEF Pcs, Free
  <1>1. CASE UNCHANGED vars
    BY <1>1, NoResultIfUnchanged, RecordKept DEF vars
  <1>2. ASSUME NEW t \in Tasks, NEW kind, NEW m, InsertQueued(t, kind, m) PROVE Quiet
    BY <1>2 DEF InsertQueued, NoResult, TypeOK, ExecRow, NextExec
  <1>3. CASE Api
    <2>1. ASSUME NEW t \in Tasks,
               \/ Update(t) \/ Pause(t) \/ SetQuality(t)
               \/ \E m \in Members : Create(t, m) \/ Approve(t, m) \/ Resume(t, m)
          PROVE  RecordInv'
      BY <2>1, NoResultIfUnchanged, RecordKept
         DEF Update, Pause, SetQuality, Create, Approve, Resume, TaskOnly
    <2>2. ASSUME NEW t \in Tasks, Remove(t) PROVE RecordInv'
      <3>1. Quiet
        BY <2>2 DEF Remove, NoResult, TypeOK, ExecRow
      <3> QED BY <2>2, <3>1, NoResultIfUnchanged, RecordKept DEF Remove
    <2>3. ASSUME NEW t \in Tasks, NEW kind \in Kinds, NEW m \in Members,
                 Enqueue(t, kind, m)
          PROVE  RecordInv'
      BY <2>3, <1>2, NoResultIfUnchanged, RecordKept DEF Enqueue
    <2> QED BY <1>3, <2>1, <2>2, <2>3 DEF Api
  <1>4. ASSUME NEW w \in Workers, SelectDue(w) PROVE RecordInv'
    <2>1. Steady
      BY <1>4, <1>pcs DEF SelectDue, Reports, TypeOK, Idle
    <2> QED BY <1>4, <2>1, NoResultIfUnchanged, RecordKept DEF SelectDue
  <1>5. ASSUME NEW w \in Workers, EnqueueScheduled(w) PROVE RecordInv'
    <2>1. worker[w].batch \subseteq Tasks \X Nat
      BY DEF TypeOK, WorkerState
    <2>2. PICK p \in worker[w].batch :
            /\ worker' = [worker EXCEPT ![w].batch = @ \ {p}]
            /\ InsertQueued(p[1], "scheduled", task[p[1]].owner) \/ UNCHANGED exec
      BY <1>5 DEF EnqueueScheduled
    <2>3. p[1] \in Tasks
      BY <2>1
    <2>4. Steady
      BY <2>2 DEF Reports, TypeOK, WorkerState
    <2> QED BY <1>2, <2>2, <2>3, <2>4, NoResultIfUnchanged, RecordKept
  <1>6. ASSUME NEW w \in Workers, StartRun(w) PROVE RecordInv'
    <2>1. Go(w, "sweep") /\ worker[w].pc = "enqueue" /\ UNCHANGED exec
      BY <1>6 DEF StartRun
    <2> QED BY <2>1, <1>pcs, GoReports, NoResultIfUnchanged, RecordKept
  <1>7. ASSUME NEW w \in Workers, FailInterrupted(w) PROVE RecordInv'
    <2>1. Go(w, "select") /\ worker[w].pc = "sweep"
      BY <1>7 DEF FailInterrupted
    <2>2. Steady
      BY <2>1, <1>pcs, GoReports
    <2>3. ASSUME NEW x \in Execs PROVE NoResult(x)
      <3>1. RecoveredStatus(x) \in Terminal
        BY DEF RecoveredStatus, Terminal
      <3> QED BY <1>7, <3>1 DEF FailInterrupted, NoResult, TypeOK, ExecRow, Expired,
                                Terminal
    <2> QED BY <2>2, <2>3, RecordKept
  <1>8. ASSUME NEW w \in Workers, SelectQueued(w) PROVE RecordInv'
    <2>1. CASE Go(w, "idle")
      <3>1. worker[w].pc = "select" /\ UNCHANGED exec
        BY <1>8 DEF SelectQueued
      <3> QED BY <2>1, <3>1, <1>pcs, GoReports, NoResultIfUnchanged, RecordKept
    <2>2. CASE ~Go(w, "idle")
      <3>1. PICK e \in Queued \ Locked :
              worker' = [worker EXCEPT ![w].pc = "claim", ![w].exec = e]
        BY <1>8, <2>2 DEF SelectQueued
      <3>2. /\ worker'[w].exec = e /\ worker'[w].pc = "claim"
            /\ \A v \in Workers \ {w} : worker'[v] = worker[v]
            /\ UNCHANGED exec
        BY <1>8, <3>1 DEF TypeOK, WorkerState, SelectQueued
      <3>3. exec[e].record \notin Good
        BY <3>1 DEF Queued, RecordInv, RecordOK
      <3> QED BY <3>2, <3>3, <1>pcs DEF RecordInv, RecordOK, ReportOK
    <2> QED BY <2>1, <2>2
  <1>9. ASSUME NEW w \in Workers, Claim(w) PROVE RecordInv'
    <2>1. worker[w].pc = "claim" /\ worker[w].exec \in Execs
          /\ exec[worker[w].exec].status = "queued"
      BY <1>9, <1>pcs, HeldExec DEF Claim, Holding
    <2>2. Go(w, "check")
      BY <1>9 DEF Claim
    <2>3. Steady
      BY <2>1, <2>2, <1>pcs, GoReports
    <2>4. Quiet
      BY <1>9, <2>1 DEF Claim, NoResult, TypeOK, ExecRow
    <2> QED BY <2>3, <2>4, RecordKept
  <1>10. ASSUME NEW w \in Workers, Finish(w) PROVE RecordInv'
    <2>1. /\ worker[w].exec \in Execs /\ worker[w].result \in Terminal
          /\ exec[worker[w].exec] \in ExecRow
      BY <1>10, <1>pcs, HeldExec DEF Finish, TypeOK, WorkerState
    <2>2. Steady
      BY <1>10, <1>pcs DEF Finish, Reports, TypeOK, Idle
    <2>3. Quiet
      <3>1. CASE exec[worker[w].exec].status = "running"
        <4>1. exec' = [exec EXCEPT ![worker[w].exec] =
                         [@ EXCEPT !.status = worker[w].result, !.leaseLive = FALSE]]
          BY <1>10, <3>1 DEF Finish
        <4> QED BY <2>1, <3>1, <4>1 DEF NoResult, TypeOK, ExecRow, Terminal
      <3>2. CASE exec[worker[w].exec].status # "running"
        BY <1>10, <3>2, NoResultIfUnchanged DEF Finish
      <3> QED BY <3>1, <3>2
    <2> QED BY <2>2, <2>3, RecordKept
  <1>11. CASE Environment
    <2>1. ASSUME NEW w \in Workers, Crash(w) PROVE RecordInv'
      <3>1. Steady
        BY <2>1, <1>pcs DEF Crash, Reports, TypeOK, Idle
      <3> QED BY <2>1, <3>1, NoResultIfUnchanged, RecordKept DEF Crash
    <2>2. ASSUME NEW e \in Execs, ExpireWorkerLease(e) PROVE RecordInv'
      <3>1. Quiet
        BY <2>2 DEF ExpireWorkerLease, NoResult, TypeOK, ExecRow
      <3> QED BY <2>2, <3>1, NoResultIfUnchanged, RecordKept DEF ExpireWorkerLease
    <2>3. CASE UNCHANGED <<exec, worker>>
      BY <2>3, NoResultIfUnchanged, RecordKept
    <2> QED BY <1>11, <2>1, <2>2, <2>3
         DEF Environment, ExpireTaskLease, BecomeDue, UpdateSettings, ChangeAuthority
  <1>12. ASSUME NEW w \in Workers,
               \/ Check(w) \/ Take(w) \/ PauseUnauthorized(w) \/ Analyse(w)
               \/ FinishUnchanged(w) \/ Reconcile(w) \/ Preview(w) \/ FinishFailure(w)
               \/ Interpret(w) \/ InterpretFailed(w) \/ ClearFailedLease(w)
               \/ WriteInterpretationAudit(w)
        PROVE  RecordInv'
    BY <1>12, RecordRun
  <1> QED BY <1>1, <1>3, <1>4, <1>5, <1>6, <1>7, <1>8, <1>9, <1>10, <1>11, <1>12
       DEF Next, WorkerStep

\* A status becomes terminal in two steps only, and both report what was
\* committed: the last statement of the run, and the sweep that recovers it.
THEOREM CommittedNotLostHolds == Spec => CommittedNotLost
  <1> DEFINE Ends(e) == exec[e].status = "running" /\ exec'[e].status \in Terminal
             Truth(e) == exec'[e].status = "succeeded" <=> exec[e].record \in Good
  <1>1. ASSUME TypeOK, TypeOK', Holding, RecordInv, [Next]_vars, NEW e \in Execs, Ends(e)
        PROVE  Truth(e)
    <2>0. exec'[e].status # exec[e].status
      BY <1>1 DEF Terminal
    <2>1. ASSUME NEW w \in Workers, FailInterrupted(w) PROVE Truth(e)
      <3>1. Expired(e) /\ exec'[e].status = RecoveredStatus(e)
        BY <1>1, <2>0, <2>1 DEF FailInterrupted, TypeOK, ExecRow
      <3>2. exec[e].record \in Records /\ RecordOK(e)
        BY <1>1 DEF TypeOK, ExecRow, RecordInv
      <3> QED BY <3>1, <3>2 DEF RecoveredStatus, Recovered, RecordOK, Good, Records
    <2>2. ASSUME NEW w \in Workers, Finish(w) PROVE Truth(e)
      <3>1. worker[w].exec = e /\ exec'[e].status = worker[w].result
        BY <1>1, <2>0, <2>2 DEF Finish, TypeOK, ExecRow
      <3>2. ReportOK(w) /\ worker[w].pc = "finish"
        BY <1>1, <2>2 DEF RecordInv, Finish
      <3> QED BY <1>1, <3>1, <3>2 DEF ReportOK
    <2>3. ASSUME NEW w \in Workers, Claim(w) PROVE FALSE
      BY <1>1, <2>0, <2>3 DEF Claim, TypeOK, ExecRow, Terminal
    <2>4. ASSUME NEW t \in Tasks, NEW kind, NEW m, InsertQueued(t, kind, m) PROVE FALSE
      BY <1>1, <2>0, <2>4 DEF InsertQueued, TypeOK, ExecRow, NextExec
    <2>5. ASSUME NEW t \in Tasks, Remove(t) PROVE FALSE
      BY <1>1, <2>0, <2>5 DEF Remove, TypeOK, ExecRow, Terminal
    <2>6. ASSUME NEW x \in Execs, ExpireWorkerLease(x) PROVE FALSE
      BY <1>1, <2>0, <2>6 DEF ExpireWorkerLease, TypeOK, ExecRow
    <2>7. ASSUME NEW w \in Workers,
                 \/ Check(w) \/ Take(w) \/ PauseUnauthorized(w) \/ Analyse(w)
                 \/ FinishUnchanged(w) \/ Reconcile(w) \/ Preview(w) \/ FinishFailure(w)
                 \/ Interpret(w) \/ InterpretFailed(w) \/ ClearFailedLease(w)
                 \/ WriteInterpretationAudit(w)
          PROVE  FALSE
      BY <1>1, <2>0, <2>7, RunKeeps
    <2>8. UNCHANGED exec => FALSE
      BY <2>0
    <2>9. ASSUME NEW w \in Workers, EnqueueScheduled(w) PROVE FALSE
      <3>1. worker[w].batch \subseteq Tasks \X Nat
        BY <1>1 DEF TypeOK, WorkerState
      <3>2. PICK p \in worker[w].batch :
              InsertQueued(p[1], "scheduled", task[p[1]].owner) \/ UNCHANGED exec
        BY <2>9 DEF EnqueueScheduled
      <3> QED BY <2>4, <2>8, <3>1, <3>2
    <2>10. CASE Api
      BY <2>10, <2>4, <2>5, <2>8
         DEF Api, Update, Pause, SetQuality, Create, Approve, Resume, TaskOnly, Enqueue
    <2>11. CASE Environment
      BY <2>11, <2>6, <2>8
         DEF Environment, Crash, ExpireTaskLease, BecomeDue, UpdateSettings,
             ChangeAuthority
    <2> QED BY <1>1, <2>1, <2>2, <2>3, <2>7, <2>8, <2>9, <2>10, <2>11
         DEF Next, WorkerStep, SelectDue, StartRun, SelectQueued, vars
  <1>2. TypeOK /\ TypeOK' /\ Holding /\ RecordInv /\ [Next]_vars
          => [\A e \in Execs : Ends(e) =>
                 (exec'[e].status = "succeeded" <=>
                    exec[e].record \in {"changed", "unchanged", "success"})]_vars
    BY <1>1 DEF Good
  <1> QED BY <1>2, TypeCorrect, TypeStep, InitHolding, HoldingStep, InitRecord,
             RecordStep, PTL DEF Spec, CommittedNotLost

-----------------------------------------------------------------------------
(* Rules, leases and findings of a task *)

\* A row by itself: the rule is never older than the text, an active task is
\* approved, a stopped one is silent, and the findings in force are older than
\* the lease that is held.
RowOK(row) ==
  /\ row.state = "absent" => row.lease = None /\ row.rule = 0
  /\ row.rule # 0 => row.rule = row.text
  /\ row.state = "active" => row.approved = row.rev /\ row.rule # 0
  /\ row.state # "active" => row.live = 0 /\ ~row.known
  /\ row.live <= row.takes
  /\ row.lease # None => row.live < row.takes

\* A lease belongs to an execution; that of an interpretation keeps the task a
\* draft.
LeaseOK(t) ==
  task[t].lease # None =>
    /\ exec[task[t].lease].status # "unused"
    /\ exec[task[t].lease].kind = "interpretation" => task[t].state = "draft"

\* The worker that holds the lease took it last, and saw the current text.
Engaged == {"unauthorized", "work", "analyse"}
HolderOK(w) ==
  LET t == exec[worker[w].exec].task
  IN  worker[w].pc \in Engaged /\ task[t].lease = worker[w].exec =>
        worker[w].ticket = task[t].takes /\ worker[w].text = task[t].text

TaskInv ==
  /\ \A t \in Tasks : RowOK(task[t]) /\ LeaseOK(t)
  /\ \A w \in Workers : HolderOK(w)

\* Findings give way to none, or to those of the last lease.
FreshLive(row, live) ==
  live = 0 \/ live = row.live \/ (live = row.takes /\ live > row.live)

\* What every step but Take does to a row, an execution and a worker.
SoundRow(t) ==
  /\ RowOK(task'[t]) /\ FreshLive(task[t], task'[t].live)
  /\ \/ task'[t].lease = None
     \/ /\ task'[t].lease = task[t].lease /\ task'[t].takes = task[t].takes
        /\ task'[t].text = task[t].text /\ task'[t].state = task[t].state

Remains(e) ==
  exec[e].status # "unused" => /\ exec'[e].status # "unused"
                               /\ exec'[e].kind = exec[e].kind
                               /\ exec'[e].task = exec[e].task

Stays(v) ==
  worker'[v].pc \in Engaged =>
    /\ worker[v].pc \in Engaged /\ worker'[v].exec = worker[v].exec
    /\ worker'[v].ticket = worker[v].ticket /\ worker'[v].text = worker[v].text

\* What every step does.
TaskAdvances == TaskInv' /\ \A t \in Tasks : FreshLive(task[t], task'[t].live)

\* Steps that hand out no lease keep the rules, leases and findings sound.
LEMMA TaskKept ==
  ASSUME TypeOK, TypeOK', Holding, TaskInv,
         \A t \in Tasks : SoundRow(t), \A e \in Execs : Remains(e),
         \A v \in Workers : Stays(v)
  PROVE  TaskAdvances
  <1>1. ASSUME NEW t \in Tasks PROVE RowOK(task[t])' /\ LeaseOK(t)'
    <2>1. task'[t].lease \in Execs \cup {None}
      BY DEF TypeOK, TaskRow
    <2>2. task'[t].lease # None => Remains(task'[t].lease)
      BY <2>1
    <2> QED BY <2>1, <2>2 DEF SoundRow, RowOK, LeaseOK, TaskInv, Remains
  <1>2. ASSUME NEW v \in Workers PROVE HolderOK(v)'
    <2>1. CASE worker'[v].pc \in Engaged
      <3>1. /\ worker[v].pc \in Engaged /\ worker'[v].exec = worker[v].exec
            /\ worker'[v].ticket = worker[v].ticket /\ worker'[v].text = worker[v].text
        BY <2>1 DEF Stays
      <3>2. worker[v].pc \notin Free \cup {"claim"}
        BY <3>1 DEF Engaged, Free
      <3> DEFINE e == worker[v].exec  t == exec[e].task
      <3>3. e \in Execs /\ t \in Tasks
        BY <3>2, HeldExec
      <3>4. exec[e].status # "unused"
        BY <3>2 DEF Holding, Claimed, Terminal
      <3>5. exec'[e].task = t
        BY <3>3, <3>4 DEF Remains
      <3>6. e # None
        BY <3>3, Bounds DEF Execs, None
      <3>7. SoundRow(t) /\ HolderOK(v)
        BY <3>3 DEF TaskInv
      <3> QED BY <3>1, <3>5, <3>6, <3>7 DEF SoundRow, HolderOK
    <2>2. CASE worker'[v].pc \notin Engaged
      BY <2>2 DEF HolderOK
    <2> QED BY <2>1, <2>2
  <1> QED BY <1>1, <1>2 DEF TaskInv, TaskAdvances, SoundRow

\* The row updates that handlers share keep a row sound.
LEMMA SoundRows ==
  ASSUME NEW row \in TaskRow, RowOK(row), NEW kind
  PROVE  /\ RowOK(ReleaseLease(row)) /\ ReleaseLease(row).lease = None
         /\ ReleaseLease(row).live = row.live
         /\ RowOK(Paused(row)) /\ Paused(row).lease = None /\ Paused(row).live = 0
         /\ RowOK(NextCheck(ReleaseLease(row), kind))
         /\ NextCheck(ReleaseLease(row), kind).lease = None
         /\ NextCheck(ReleaseLease(row), kind).live = row.live
         /\ \A x \in Execs \cup {None}, d \in BOOLEAN :
              RowOK([row EXCEPT !.unseen = x]) /\ RowOK([row EXCEPT !.due = d])
  <1>1. /\ RowOK(ReleaseLease(row)) /\ ReleaseLease(row).lease = None
        /\ ReleaseLease(row).live = row.live
    BY DEF ReleaseLease, RowOK, TaskRow
  <1>2. RowOK(Paused(row)) /\ Paused(row).lease = None /\ Paused(row).live = 0
    BY DEF Paused, Withdraw, ReleaseLease, RowOK, TaskRow
  <1>3. /\ RowOK(NextCheck(ReleaseLease(row), kind))
        /\ NextCheck(ReleaseLease(row), kind).lease = None
        /\ NextCheck(ReleaseLease(row), kind).live = row.live
    BY DEF NextCheck, ReleaseLease, RowOK, TaskRow
  <1>4. \A x \in Execs \cup {None}, d \in BOOLEAN :
          RowOK([row EXCEPT !.unseen = x]) /\ RowOK([row EXCEPT !.due = d])
    BY DEF RowOK, TaskRow
  <1> QED BY <1>1, <1>2, <1>3, <1>4

\* A step that replaces one row.
LEMMA RowReplaced ==
  ASSUME TypeOK, TaskInv, NEW t \in Tasks, NEW row, RowOK(row), row.lease = None,
         FreshLive(task[t], row.live),
         task' = [task EXCEPT ![t] = row]
  PROVE  \A u \in Tasks : SoundRow(u)
  BY DEF SoundRow, FreshLive, TypeOK, TaskInv

\* A step that leaves a table alone keeps its part.
LEMMA TaskUnchanged ==
  /\ TaskInv /\ UNCHANGED task => \A t \in Tasks : SoundRow(t)
  /\ UNCHANGED exec => \A e \in Execs : Remains(e)
  /\ UNCHANGED worker => \A v \in Workers : Stays(v)
  BY DEF SoundRow, FreshLive, Remains, Stays, TaskInv

\* Moving between steps engages no worker that was not engaged.
LEMMA GoStays ==
  ASSUME TypeOK, NEW w \in Workers, NEW pc, Go(w, pc),
         pc \in Engaged => worker[w].pc \in Engaged
  PROVE  \A v \in Workers : Stays(v)
  BY DEF Go, Stays, TypeOK, WorkerState

\* Ending a run engages nobody.
LEMMA EndStays ==
  ASSUME TypeOK, NEW w \in Workers, NEW result, End(w, result)
  PROVE  \A v \in Workers : Stays(v)
  BY DEF End, Stays, TypeOK, WorkerState, Engaged

\* Linking a run or an audit moves no execution to another task.
LEMMA RecordRemains ==
  ASSUME TypeOK, NEW e \in Execs, NEW outcome, NEW kind, Record(e, outcome, kind)
  PROVE  \A x \in Execs : Remains(x)
  BY DEF Record, Remains, TypeOK, ExecRow

\* enqueueTask only fills an unused row.
LEMMA InsertSound ==
  ASSUME TypeOK, TaskInv, NEW t \in Tasks, NEW kind, NEW m, InsertQueued(t, kind, m)
  PROVE  /\ \A u \in Tasks : SoundRow(u)
         /\ \A x \in Execs : Remains(x)
  <1>1. \A x \in Execs : Remains(x)
    BY DEF InsertQueued, Remains, TypeOK, ExecRow, NextExec
  <1>2. PICK x \in Execs \cup {None} : task' = [task EXCEPT ![t].unseen = x]
    BY DEF InsertQueued, NextExec
  <1>3. \A u \in Tasks : SoundRow(u)
    BY <1>2, SoundRows DEF SoundRow, FreshLive, TypeOK, TaskRow, TaskInv
  <1> QED BY <1>1, <1>3

\* The empty tables are sound.
LEMMA InitTask == Init => TaskInv
  BY Bounds DEF Init, TaskInv, RowOK, LeaseOK, HolderOK, NoTask, Idle, Engaged, None

\* A handler that replaces its row and touches nothing else.
LEMMA HandlerSound ==
  ASSUME TypeOK, TypeOK', Holding, TaskInv, NEW t \in Tasks,
         NEW row \in TaskRow, RowOK(row), TaskOnly(t, row),
         row.live \in {0, task[t].live},
         \/ row.lease = None
         \/ /\ row.lease = task[t].lease /\ row.takes = task[t].takes
            /\ row.text = task[t].text /\ row.state = task[t].state
  PROVE  TaskAdvances
  <1> DEFINE new == [row EXCEPT !.unseen = None]
  <1>1. /\ RowOK(new) /\ new.lease = row.lease /\ new.takes = row.takes
        /\ new.text = row.text /\ new.state = row.state /\ new.live = row.live
    BY SoundRows DEF TaskRow
  <1>2. task' = [task EXCEPT ![t] = new]
    BY DEF TaskOnly
  <1> HIDE DEF new
  <1>3. ASSUME NEW u \in Tasks PROVE SoundRow(u)
    BY <1>1, <1>2 DEF SoundRow, FreshLive, TypeOK, TaskInv
  <1> QED BY <1>3, TaskUnchanged, TaskKept DEF TaskOnly

\* The handlers of MonitorService and enqueueTask keep tasks sound.
LEMMA ApiSound ==
  ASSUME TypeOK, TypeOK', Holding, TaskInv, Api
  PROVE  TaskAdvances
  <1>row. \A t \in Tasks : task[t] \in TaskRow /\ RowOK(task[t])
    BY DEF TypeOK, TaskInv
  <1>1. ASSUME NEW t \in Tasks, NEW m \in Members, Create(t, m) PROVE TaskAdvances
    <2> DEFINE row == [task[t] EXCEPT !.state = "draft", !.rev = 1, !.text = 1,
                                      !.owner = m]
    <2>1. row \in TaskRow
      BY <1>row DEF TaskRow, TaskStates
    <2>2. RowOK(row) /\ row.lease = None /\ row.live = task[t].live
      BY <1>1, <1>row DEF Create, RowOK, TaskRow
    <2>3. TaskOnly(t, row)
      BY <1>1 DEF Create
    <2> QED BY <2>1, <2>2, <2>3, HandlerSound
  <1>2. ASSUME NEW t \in Tasks, Update(t) PROVE TaskAdvances
    <2> DEFINE kept == Withdraw(ReleaseLease(task[t]))
               row == [kept EXCEPT !.state = "draft", !.rev = kept.rev + 1,
                          !.text = task[t].rev + 1, !.approved = 0, !.rule = 0,
                          !.due = FALSE]
    <2>1. kept \in TaskRow /\ task[t].rev + 1 \in Nat
      BY <1>row, RowTypes DEF TaskRow
    <2>2. /\ kept.lease = None /\ kept.live = 0 /\ ~kept.known
          /\ kept.live <= kept.takes
      BY <1>row DEF Withdraw, ReleaseLease, TaskRow
    <2>3. TaskOnly(t, row)
      BY <1>2 DEF Update
    <2> HIDE DEF kept
    <2>4. kept.rev + 1 \in Nat
      BY <2>1 DEF TaskRow
    <2>5. row \in TaskRow
      BY <2>1, <2>4 DEF TaskRow, TaskStates
    <2>6. RowOK(row) /\ row.lease = None /\ row.live = 0
      BY <2>1, <2>2 DEF RowOK, TaskRow
    <2> QED BY <2>3, <2>5, <2>6, HandlerSound
  <1>3. ASSUME NEW t \in Tasks, NEW d \in BOOLEAN, task[t].rule # 0,
               task[t].state # "active"
        PROVE  /\ Activate(t, d) \in TaskRow /\ RowOK(Activate(t, d))
               /\ Activate(t, d).lease = None /\ Activate(t, d).live = task[t].live
    <2> DEFINE r == ReleaseLease(task[t])
    <2>a. r \in TaskRow
      BY <1>row, RowTypes
    <2>b. RowOK(r) /\ r.lease = None /\ r.live = task[t].live
      BY <1>row, SoundRows
    <2>c. /\ r.rev = task[t].rev /\ r.rule # 0 /\ r.state # "active"
          /\ task[t].rev \in Nat
      BY <1>3, <1>row DEF ReleaseLease, TaskRow
    <2>2. Activate(t, d) = [r EXCEPT !.state = "active", !.rev = r.rev + 1,
                              !.approved = task[t].rev + 1, !.due = d]
      BY DEF Activate
    <2> HIDE DEF r
    <2>3. r.rev + 1 \in Nat
      BY <2>a DEF TaskRow
    <2>4. Activate(t, d) \in TaskRow
      <3>1. task[t].rev + 1 \in Nat
        BY <2>c
      <3>2. [r EXCEPT !.state = "active", !.rev = r.rev + 1,
                      !.approved = task[t].rev + 1, !.due = d] \in TaskRow
        BY <2>a, <3>1, <2>3 DEF TaskRow, TaskStates
      <3> QED BY <3>2, <2>2
    <2>5. /\ RowOK(Activate(t, d)) /\ Activate(t, d).lease = None
          /\ Activate(t, d).live = task[t].live
      BY <2>a, <2>b, <2>c, <2>2, <2>3 DEF RowOK, TaskRow
    <2> QED BY <2>4, <2>5
  <1>4. ASSUME NEW t \in Tasks, NEW m \in Members, Approve(t, m) PROVE TaskAdvances
    <2>1. PICK d \in BOOLEAN : TaskOnly(t, [Activate(t, d) EXCEPT !.owner = m])
      BY <1>4 DEF Approve
    <2>2. /\ Activate(t, d) \in TaskRow /\ RowOK(Activate(t, d))
          /\ Activate(t, d).lease = None /\ Activate(t, d).live = task[t].live
      BY <1>3, <1>4 DEF Approve
    <2>3. \A r \in TaskRow : RowOK(r) => /\ [r EXCEPT !.owner = m] \in TaskRow
                                         /\ RowOK([r EXCEPT !.owner = m])
                                         /\ [r EXCEPT !.owner = m].lease = r.lease
                                         /\ [r EXCEPT !.owner = m].live = r.live
      BY DEF RowOK, TaskRow
    <2> QED BY <2>1, <2>2, <2>3, HandlerSound
  <1>5. ASSUME NEW t \in Tasks, NEW m \in Members, Resume(t, m) PROVE TaskAdvances
    <2>1. PICK d \in BOOLEAN : TaskOnly(t, Activate(t, d))
      BY <1>5 DEF Resume
    <2> QED BY <1>3, <1>5, <2>1, HandlerSound DEF Resume
  <1>6. ASSUME NEW t \in Tasks, Pause(t) PROVE TaskAdvances
    BY <1>6, <1>row, RowTypes, SoundRows, HandlerSound DEF Pause
  <1>7. ASSUME NEW t \in Tasks, SetQuality(t) PROVE TaskAdvances
    <2> DEFINE a == IF task[t].state = "active" THEN task[t].rev + 1
                                                ELSE task[t].approved
               row == [task[t] EXCEPT !.rev = task[t].rev + 1, !.approved = a]
    <2>1. task[t].rev + 1 \in Nat /\ a \in Nat
      BY <1>row DEF TaskRow
    <2>2. TaskOnly(t, row)
      BY <1>7 DEF SetQuality
    <2>3. row \in TaskRow
      BY <1>row, <2>1 DEF TaskRow
    <2>4. /\ RowOK(row) /\ row.lease = task[t].lease /\ row.takes = task[t].takes
          /\ row.text = task[t].text /\ row.state = task[t].state
          /\ row.live = task[t].live
      BY <1>row DEF RowOK, TaskRow
    <2> QED BY <2>2, <2>3, <2>4, HandlerSound
  <1>8. ASSUME NEW t \in Tasks, Remove(t) PROVE TaskAdvances
    <2> DEFINE kept == Withdraw(ReleaseLease(task[t]))
               row == [kept EXCEPT !.state = "deleted", !.due = FALSE, !.unseen = None]
    <2>1. kept \in TaskRow
      BY <1>row, RowTypes
    <2>2. /\ kept.lease = None /\ kept.live = 0 /\ ~kept.known
          /\ kept.live <= kept.takes /\ kept.rule # 0 => kept.rule = kept.text
      BY <1>row DEF Withdraw, ReleaseLease, TaskRow, RowOK
    <2>3. task' = [task EXCEPT ![t] = row]
      BY <1>8 DEF Remove
    <2> HIDE DEF kept
    <2>4. RowOK(row) /\ row.lease = None /\ row.live = 0
      BY <2>1, <2>2 DEF RowOK, TaskRow
    <2>5. \A u \in Tasks : SoundRow(u)
      BY <2>3, <2>4, RowReplaced DEF FreshLive
    <2>6. \A x \in Execs : Remains(x)
      BY <1>8 DEF Remove, Remains, TypeOK, ExecRow
    <2> QED BY <1>8, <2>5, <2>6, TaskUnchanged, TaskKept DEF Remove
  <1>9. ASSUME NEW t \in Tasks, NEW kind \in Kinds, NEW m \in Members, Enqueue(t, kind, m)
        PROVE  TaskAdvances
    BY <1>9, InsertSound, TaskUnchanged, TaskKept DEF Enqueue
  <1> QED BY <1>1, <1>2, <1>4, <1>5, <1>6, <1>7, <1>8, <1>9 DEF Api

\* The take is the one step that hands out a lease.
LEMMA TakeSound ==
  ASSUME TypeOK, TypeOK', Holding, TaskInv, NEW w \in Workers, Take(w)
  PROVE  TaskAdvances
  <1> DEFINE e == worker[w].exec  t == exec[e].task
  <1>0. "take" \notin Free \cup {"claim"}
    BY DEF Free
  <1>1. /\ worker[w].pc = "take" /\ e \in Execs /\ t \in Tasks /\ task[t] \in TaskRow
        /\ exec[e].status # "unused" /\ e # None /\ RowOK(task[t])
    <2>1. worker[w].pc = "take"
      BY DEF Take
    <2>2. worker[w].pc \notin Free \cup {"claim"}
      BY <2>1, <1>0
    <2>3. e \in Execs /\ t \in Tasks /\ task[t] \in TaskRow
      BY <2>2, HeldExec
    <2>4. exec[e].status # "unused"
      BY <2>2 DEF Holding, Claimed, Terminal
    <2>5. e # None
      BY <2>3, Bounds DEF Execs, None
    <2>6. RowOK(task[t])
      BY <2>3 DEF TaskInv
    <2> QED BY <2>1, <2>3, <2>4, <2>5, <2>6
  <1>2. UNCHANGED exec
    BY DEF Take
  <1> HIDE DEF e, t
  <1>3. CASE TakeOutcome(e) # "taken"
    <2>1. task' = [task EXCEPT ![t].unseen = None] /\ End(w, TakeOutcome(e))
      BY <1>3 DEF Take, e, t
    <2>2. RowOK([task[t] EXCEPT !.unseen = None])
      BY <1>1, SoundRows
    <2>3. \A u \in Tasks : SoundRow(u)
      BY <1>1, <2>1, <2>2 DEF SoundRow, FreshLive, TypeOK, TaskRow, TaskInv
    <2> QED BY <1>2, <2>1, <2>3, EndStays, TaskUnchanged, TaskKept
  <1>4. CASE TakeOutcome(e) = "taken"
    <2> DEFINE row == [task[t] EXCEPT !.lease = e, !.leaseLive = TRUE, !.unseen = None,
                                      !.takes = task[t].takes + 1]
    <2>1. task' = [task EXCEPT ![t] = row]
      BY <1>4 DEF Take, e, t
    <2>2. PICK pc \in {"unauthorized", "work"} :
            worker' = [worker EXCEPT ![w] = [@ EXCEPT !.pc = pc,
                         !.ticket = task[t].takes + 1, !.text = task[t].text]]
      BY <1>4 DEF Take, e, t
    <2>3. /\ worker'[w].exec = e /\ worker'[w].ticket = task[t].takes + 1
          /\ worker'[w].text = task[t].text
          /\ \A v \in Workers \ {w} : worker'[v] = worker[v]
      BY <2>2 DEF TypeOK, WorkerState, e
    <2>4. exec[e].kind = "interpretation" => task[t].state = "draft"
      BY <1>4 DEF TakeOutcome, Takeable, t
    <2>5. Exists(t)
      BY <1>4 DEF TakeOutcome, t
    <2>6. /\ RowOK(row) /\ row.lease = e /\ row.takes = task[t].takes + 1
          /\ row.text = task[t].text /\ row.state = task[t].state
          /\ row.live = task[t].live
      BY <1>1, <2>5 DEF RowOK, TaskRow, Exists
    <2> HIDE DEF row
    <2>7. ASSUME NEW u \in Tasks PROVE RowOK(task[u])' /\ LeaseOK(u)'
      <3>1. CASE u = t
        BY <1>1, <1>2, <2>1, <2>4, <2>6, <3>1 DEF LeaseOK, TypeOK
      <3>2. CASE u # t
        BY <1>2, <2>1, <3>2 DEF LeaseOK, TypeOK, TaskInv
      <3> QED BY <3>1, <3>2
    <2>8. ASSUME NEW v \in Workers PROVE HolderOK(v)'
      <3>1. CASE v = w
        BY <1>1, <1>2, <2>1, <2>3, <2>6, <3>1 DEF HolderOK, TypeOK, t
      <3>2. CASE v # w
        <4>1. worker[v].pc \in Engaged => worker[v].exec # e
          BY <1>1, <3>2 DEF Holding, OneRunner, e
        <4>2. HolderOK(v)
          BY DEF TaskInv
        <4> QED BY <1>2, <2>1, <2>3, <2>6, <3>2, <4>1, <4>2 DEF HolderOK, TypeOK
      <3> QED BY <3>1, <3>2
    <2>9. ASSUME NEW u \in Tasks PROVE FreshLive(task[u], task'[u].live)
      BY <2>1, <2>6 DEF FreshLive, TypeOK
    <2> QED BY <2>7, <2>8, <2>9 DEF TaskInv, TaskAdvances
  <1> QED BY <1>3, <1>4

\* The fenced commits of engine.ts and interpret keep tasks sound.
LEMMA RunSound ==
  ASSUME TypeOK, TypeOK', Holding, TaskInv, NEW w \in Workers,
         \/ Check(w) \/ PauseUnauthorized(w) \/ Analyse(w)
         \/ FinishUnchanged(w) \/ Reconcile(w) \/ Preview(w) \/ FinishFailure(w)
         \/ Interpret(w) \/ InterpretFailed(w) \/ ClearFailedLease(w)
         \/ WriteInterpretationAudit(w)
  PROVE  TaskAdvances
  <1> DEFINE e == worker[w].exec  t == exec[e].task
             Sound == \A u \in Tasks : SoundRow(u)
             Rest == \A x \in Execs : Remains(x)
             Stay == \A v \in Workers : Stays(v)
             Replaced(row) == task' = [task EXCEPT ![t] = row]
  <1>pc. worker[w].pc \notin Free
    BY DEF Check, PauseUnauthorized, Analyse, FinishUnchanged, Reconcile, Preview,
       FinishFailure, Interpret, InterpretFailed, ClearFailedLease,
       WriteInterpretationAudit, Working, Free
  <1>e. /\ e \in Execs /\ t \in Tasks /\ task[t] \in TaskRow /\ RowOK(task[t])
        /\ e # None
    BY <1>pc, HeldExec, Bounds DEF TaskInv, Execs, None
  <1>own. Owns(w) <=> Exists(t) /\ task[t].rev = exec[e].rev /\ task[t].lease = e
    BY DEF Owns
  <1>kind. KindOf(w) = exec[e].kind
    BY DEF KindOf
  <1>hold. worker[w].pc \in Engaged /\ task[t].lease = e =>
             worker[w].ticket = task[t].takes /\ worker[w].text = task[t].text
    BY DEF TaskInv, HolderOK
  <1>lease. task[t].lease = e /\ exec[e].kind = "interpretation" =>
              task[t].state = "draft"
    BY <1>e DEF TaskInv, LeaseOK
  <1> HIDE DEF e, t
  <1>same. UNCHANGED task => Sound
    BY TaskUnchanged
  <1>rep. \A row : /\ Replaced(row) /\ RowOK(row) /\ row.lease = None
                   /\ FreshLive(task[t], row.live)
                   => Sound
    BY <1>e, RowReplaced
  <1>rows. /\ Replaced(ReleaseLease(task[t])) => Sound
           /\ Replaced(Paused(task[t])) => Sound
           /\ \A k : Replaced(NextCheck(ReleaseLease(task[t]), k)) => Sound
    BY <1>e, <1>rep, SoundRows DEF FreshLive
  <1>end. \A r : End(w, r) => Stay
    BY EndStays
  <1>rec. \A o, k : Record(e, o, k) => Rest
    BY <1>e, RecordRemains
  <1>ok. /\ UNCHANGED exec => Rest
         /\ Sound /\ Rest /\ Stay => TaskAdvances
    BY TaskUnchanged, TaskKept
  <1>rej. RejectFinal(w) => TaskAdvances
    <2> SUFFICES ASSUME RejectFinal(w) PROVE TaskAdvances
      OBVIOUS
    <2>1. Replaced(ReleaseLease(task[t])) \/ Replaced(Paused(task[t]))
      BY DEF RejectFinal, e, t
    <2>2. Rest /\ Stay
      BY <1>end, <1>rec DEF RejectFinal, e
    <2> QED BY <2>1, <2>2, <1>rows, <1>ok
  <1>1. CASE Check(w)
    <2>1. Go(w, "take") \/ End(w, "failed")
      BY <1>1 DEF Check
    <2>2. Stay
      BY <2>1, <1>end, GoStays DEF Engaged
    <2> QED BY <1>1, <2>2, <1>same, <1>ok DEF Check
  <1>2. CASE PauseUnauthorized(w)
    <2>1. Stay
      BY <1>2, <1>end DEF PauseUnauthorized
    <2>2. \/ Replaced(Paused(task[t])) /\ Rest
          \/ UNCHANGED task /\ UNCHANGED exec
      BY <1>2, <1>rec DEF PauseUnauthorized, e, t
    <2> QED BY <2>1, <2>2, <1>rows, <1>same, <1>ok
  <1>3. CASE Analyse(w)
    <2>1. (Go(w, "analyse") /\ worker[w].pc \in Engaged) \/ End(w, "superseded")
      BY <1>3 DEF Analyse, Engaged
    <2>2. Stay
      BY <2>1, <1>end, GoStays
    <2> QED BY <1>3, <2>2, <1>same, <1>ok DEF Analyse
  <1>4. CASE FinishUnchanged(w)
    <2>1. \/ RejectFinal(w)
          \/ /\ \/ UNCHANGED task \/ Replaced(NextCheck(ReleaseLease(task[t]), KindOf(w)))
             /\ Rest /\ Stay
      BY <1>4, <1>end, <1>rec, <1>ok DEF FinishUnchanged, e, t
    <2> QED BY <2>1, <1>rows, <1>same, <1>ok, <1>rej
  <1>5. CASE Reconcile(w)
    <2>1. CASE RejectFinal(w)
      BY <2>1, <1>rej
    <2>2. CASE UNCHANGED task /\ Record(e, "superseded", KindOf(w)) /\ End(w, "superseded")
      BY <2>2, <1>same, <1>rec, <1>end, <1>ok
    <2>3. CASE /\ OwnsActive(w) /\ Record(e, "changed", KindOf(w)) /\ End(w, "succeeded")
               /\ Replaced([NextCheck(ReleaseLease(task[t]), KindOf(w))
                              EXCEPT !.known = TRUE, !.live = worker[w].ticket])
      <3> DEFINE n == NextCheck(ReleaseLease(task[t]), KindOf(w))
                 row == [n EXCEPT !.known = TRUE, !.live = worker[w].ticket]
      <3>1. /\ task[t].state = "active" /\ task[t].lease = e
            /\ worker[w].ticket = task[t].takes /\ task[t].live < task[t].takes
        BY <1>5, <2>3, <1>own, <1>hold, <1>e
           DEF OwnsActive, Approved, Reconcile, Engaged, RowOK, t, e
      <3>2. n \in TaskRow /\ RowOK(n) /\ n.lease = None
        BY <1>e, RowTypes, SoundRows
      <3>3. n.state = "active" /\ n.takes = task[t].takes
        BY <1>e, <3>1 DEF NextCheck, ReleaseLease, TaskRow
      <3> HIDE DEF n
      <3>4. RowOK(row) /\ row.lease = None /\ FreshLive(task[t], row.live)
        BY <3>1, <3>2, <3>3, <1>e DEF RowOK, TaskRow, FreshLive
      <3>5. Replaced(row)
        BY <2>3 DEF n
      <3> QED BY <2>3, <3>4, <3>5, <1>rep, <1>rec, <1>end, <1>ok
    <2> QED BY <1>5, <2>1, <2>2, <2>3 DEF Reconcile, e, t
  <1>6. CASE Preview(w)
    <2>1. (UNCHANGED task \/ Replaced(ReleaseLease(task[t]))) /\ Rest /\ Stay
      BY <1>6, <1>end, <1>rec DEF Preview, e, t
    <2> QED BY <2>1, <1>rows, <1>same, <1>ok
  <1>7. CASE FinishFailure(w)
    <2>1. /\ UNCHANGED task \/ Replaced(NextCheck(ReleaseLease(task[t]), KindOf(w)))
          /\ Rest /\ Stay
      BY <1>7, <1>end, <1>rec, <1>ok DEF FinishFailure, e, t
    <2> QED BY <2>1, <1>rows, <1>same, <1>ok
  <1>8. CASE Interpret(w)
    <2> DEFINE n == ReleaseLease(task[t])
               row == [n EXCEPT !.rev = task[t].rev + 1, !.rule = worker[w].text,
                                !.approved = 0, !.state = "draft"]
    <2>1. /\ worker[w].text = task[t].text /\ task[t].state = "draft"
      BY <1>8, <1>own, <1>hold, <1>lease, <1>kind DEF Interpret, Engaged
    <2>2. /\ n \in TaskRow /\ RowOK(n) /\ n.lease = None
          /\ n.state = "draft" /\ n.text = task[t].text /\ n.live = task[t].live
      BY <2>1, <1>e, RowTypes, SoundRows DEF ReleaseLease, TaskRow
    <2>3. Replaced(row)
      BY <1>8 DEF Interpret, e, t
    <2> HIDE DEF n
    <2>4. RowOK(row) /\ row.lease = None /\ FreshLive(task[t], row.live)
      BY <2>1, <2>2 DEF RowOK, TaskRow, FreshLive
    <2>5. Rest /\ Stay
      BY <1>8, <1>rec, <1>end DEF Interpret, e
    <2> QED BY <2>3, <2>4, <2>5, <1>rep, <1>ok
  <1>9. CASE InterpretFailed(w)
    <2>1. PICK r : worker' = [worker EXCEPT ![w].pc = "interpretFailed", ![w].result = r]
      BY <1>9 DEF InterpretFailed
    <2>2. Stay
      BY <2>1 DEF Stays, TypeOK, WorkerState, Engaged
    <2> QED BY <1>9, <2>2, <1>same, <1>ok DEF InterpretFailed
  <1>10. CASE ClearFailedLease(w)
    <2>1. UNCHANGED task \/ Replaced(ReleaseLease(task[t]))
      BY <1>10 DEF ClearFailedLease, e, t
    <2>2. Go(w, "auditFailed") /\ UNCHANGED exec
      BY <1>10 DEF ClearFailedLease
    <2>3. Stay
      BY <2>2, GoStays DEF Engaged
    <2> QED BY <2>1, <2>2, <2>3, <1>rows, <1>same, <1>ok
  <1>11. CASE WriteInterpretationAudit(w)
    <2>1. UNCHANGED task /\ Go(w, "finish") /\ Rest
      BY <1>11, <1>rec DEF WriteInterpretationAudit, e
    <2>2. Stay
      BY <2>1, GoStays DEF Engaged
    <2> QED BY <2>1, <2>2, <1>same, <1>ok
  <1> QED BY <1>1, <1>2, <1>3, <1>4, <1>5, <1>6, <1>7, <1>8, <1>9, <1>10, <1>11

\* Every step keeps tasks sound, and their findings fresh.
LEMMA TaskStep ==
  ASSUME TypeOK, TypeOK', Holding, TaskInv, [Next]_vars
  PROVE  TaskAdvances
  <1> DEFINE Sound == \A u \in Tasks : SoundRow(u)
             Rest == \A x \in Execs : Remains(x)
             Stay == \A v \in Workers : Stays(v)
  <1>row. \A t \in Tasks : task[t] \in TaskRow /\ RowOK(task[t])
    BY DEF TypeOK, TaskInv
  <1>same. /\ UNCHANGED task => Sound
           /\ UNCHANGED exec => Rest
           /\ UNCHANGED worker => Stay
           /\ Sound /\ Rest /\ Stay => TaskAdvances
    BY TaskUnchanged, TaskKept
  <1>go. \A w \in Workers : \A pc \in {"sweep", "select", "idle", "check"} :
           Go(w, pc) => Stay
    BY GoStays DEF Engaged
  <1>1. CASE UNCHANGED vars
    BY <1>1, <1>same DEF vars
  <1>2. CASE Api
    BY <1>2, ApiSound
  <1>3. ASSUME NEW w \in Workers, SelectDue(w) PROVE TaskAdvances
    <2>1. Stay
      BY <1>3 DEF SelectDue, Stays, TypeOK, Idle, Engaged
    <2> QED BY <1>3, <2>1, <1>same DEF SelectDue
  <1>4. ASSUME NEW w \in Workers, EnqueueScheduled(w) PROVE TaskAdvances
    <2>1. worker[w].batch \subseteq Tasks \X Nat
      BY DEF TypeOK, WorkerState
    <2>2. PICK p \in worker[w].batch :
            /\ worker' = [worker EXCEPT ![w].batch = @ \ {p}]
            /\ \/ InsertQueued(p[1], "scheduled", task[p[1]].owner)
               \/ /\ task' = [task EXCEPT ![p[1]].due = FALSE, ![p[1]].unseen = None]
                  /\ UNCHANGED exec
               \/ UNCHANGED <<task, exec>>
      BY <1>4 DEF EnqueueScheduled
    <2>3. p[1] \in Tasks
      BY <2>1
    <2>4. Stay
      BY <2>2 DEF Stays, TypeOK, WorkerState
    <2>5. ASSUME task' = [task EXCEPT ![p[1]].due = FALSE, ![p[1]].unseen = None]
          PROVE  Sound
      <3>1. \A r \in TaskRow :
              LET new == [[r EXCEPT !.due = FALSE] EXCEPT !.unseen = None]
              IN  RowOK(r) => /\ RowOK(new) /\ new.lease = r.lease /\ new.takes = r.takes
                              /\ new.text = r.text /\ new.state = r.state
                              /\ new.live = r.live
        BY DEF RowOK, TaskRow
      <3>2. ASSUME NEW u \in Tasks PROVE SoundRow(u)
        BY <2>3, <2>5, <3>1, <1>row DEF SoundRow, FreshLive, TypeOK
      <3> QED BY <3>2
    <2> QED BY <2>2, <2>3, <2>4, <2>5, <1>same, InsertSound
  <1>5. ASSUME NEW w \in Workers, StartRun(w) PROVE TaskAdvances
    BY <1>5, <1>same, <1>go DEF StartRun
  <1>6. ASSUME NEW w \in Workers, FailInterrupted(w) PROVE TaskAdvances
    <2>1. Stay
      BY <1>6, <1>go DEF FailInterrupted
    <2>2. ASSUME NEW x \in Execs PROVE Remains(x)
      <3>1. RecoveredStatus(x) # "unused"
        BY DEF RecoveredStatus
      <3> QED BY <1>6, <3>1 DEF FailInterrupted, Remains, TypeOK, ExecRow
    <2>3. ASSUME NEW t \in Tasks PROVE SoundRow(t)
      <3>1. task'[t] = ReleaseLease(task[t]) \/ task'[t] = task[t]
        BY <1>6 DEF FailInterrupted
      <3> QED BY <3>1, <1>row, SoundRows DEF SoundRow, FreshLive
    <2> QED BY <2>1, <2>2, <2>3, <1>same
  <1>7. ASSUME NEW w \in Workers, SelectQueued(w) PROVE TaskAdvances
    <2>1. CASE Go(w, "idle")
      BY <1>7, <2>1, <1>same, <1>go DEF SelectQueued
    <2>2. CASE ~Go(w, "idle")
      <3>1. PICK e : worker' = [worker EXCEPT ![w].pc = "claim", ![w].exec = e]
        BY <1>7, <2>2 DEF SelectQueued
      <3>2. Stay
        BY <3>1 DEF Stays, TypeOK, WorkerState, Engaged
      <3> QED BY <1>7, <3>2, <1>same DEF SelectQueued
    <2> QED BY <2>1, <2>2
  <1>8. ASSUME NEW w \in Workers, Claim(w) PROVE TaskAdvances
    <2>1. Rest
      BY <1>8 DEF Claim, Remains, TypeOK, ExecRow
    <2> QED BY <1>8, <2>1, <1>same, <1>go DEF Claim
  <1>9. ASSUME NEW w \in Workers, Finish(w) PROVE TaskAdvances
    <2>1. worker[w].result \in Terminal
      BY DEF TypeOK, WorkerState
    <2>2. Stay
      BY <1>9 DEF Finish, Stays, TypeOK, Idle, Engaged
    <2>3. Rest
      <3>1. CASE exec[worker[w].exec].status = "running"
        <4>1. exec' = [exec EXCEPT ![worker[w].exec] =
                         [@ EXCEPT !.status = worker[w].result, !.leaseLive = FALSE]]
          BY <1>9, <3>1 DEF Finish
        <4> QED BY <2>1, <4>1 DEF Remains, TypeOK, ExecRow, Terminal
      <3>2. CASE exec[worker[w].exec].status # "running"
        BY <1>9, <3>2, <1>same DEF Finish
      <3> QED BY <3>1, <3>2
    <2> QED BY <1>9, <2>2, <2>3, <1>same DEF Finish
  <1>10. CASE Environment
    <2>1. ASSUME NEW w \in Workers, Crash(w) PROVE TaskAdvances
      <3>1. Stay
        BY <2>1 DEF Crash, Stays, TypeOK, Idle, Engaged
      <3> QED BY <2>1, <3>1, <1>same DEF Crash
    <2>2. ASSUME NEW e \in Execs, ExpireWorkerLease(e) PROVE TaskAdvances
      <3>1. Rest
        BY <2>2 DEF ExpireWorkerLease, Remains, TypeOK, ExecRow
      <3> QED BY <2>2, <3>1, <1>same DEF ExpireWorkerLease
    <2>3. ASSUME NEW t \in Tasks, ExpireTaskLease(t) \/ BecomeDue(t) PROVE TaskAdvances
      <3>1. PICK new \in {[task[t] EXCEPT !.leaseLive = FALSE],
                          [task[t] EXCEPT !.due = TRUE]} :
              task' = [task EXCEPT ![t] = new]
        BY <2>3 DEF ExpireTaskLease, BecomeDue
      <3>2. /\ RowOK(new) /\ new.lease = task[t].lease /\ new.takes = task[t].takes
            /\ new.text = task[t].text /\ new.state = task[t].state
            /\ new.live = task[t].live
        BY <3>1, <1>row DEF RowOK, TaskRow
      <3>3. ASSUME NEW u \in Tasks PROVE SoundRow(u)
        BY <3>1, <3>2, <1>row DEF SoundRow, FreshLive, TypeOK
      <3> QED BY <2>3, <3>3, <1>same DEF ExpireTaskLease, BecomeDue
    <2>4. CASE UNCHANGED <<task, exec, worker>>
      BY <2>4, <1>same
    <2> QED BY <1>10, <2>1, <2>2, <2>3, <2>4
         DEF Environment, UpdateSettings, ChangeAuthority
  <1>11. ASSUME NEW w \in Workers, Take(w) PROVE TaskAdvances
    BY <1>11, TakeSound
  <1>12. ASSUME NEW w \in Workers,
                \/ Check(w) \/ PauseUnauthorized(w) \/ Analyse(w)
                \/ FinishUnchanged(w) \/ Reconcile(w) \/ Preview(w) \/ FinishFailure(w)
                \/ Interpret(w) \/ InterpretFailed(w) \/ ClearFailedLease(w)
                \/ WriteInterpretationAudit(w)
         PROVE  TaskAdvances
    BY <1>12, RunSound
  <1> QED BY <1>1, <1>2, <1>3, <1>4, <1>5, <1>6, <1>7, <1>8, <1>9, <1>10, <1>11, <1>12
       DEF Next, WorkerStep

\* An active task runs exactly the rule its owner approved, compiled from the
\* text it has.
THEOREM RunsApprovedRuleHolds == Spec => []RunsApprovedRule
  <1>1. TaskInv => RunsApprovedRule
    BY DEF TaskInv, RowOK, RunsApprovedRule
  <1> QED BY <1>1, TypeCorrect, TypeStep, InitHolding, HoldingStep, InitTask, TaskStep,
             PTL DEF Spec, TaskAdvances

\* No late commit leaves findings or a baseline in a task that is not active.
THEOREM StoppedTaskSilentHolds == Spec => []StoppedTaskSilent
  <1>1. TaskInv => StoppedTaskSilent
    BY DEF TaskInv, RowOK, StoppedTaskSilent
  <1> QED BY <1>1, TypeCorrect, TypeStep, InitHolding, HoldingStep, InitTask, TaskStep,
             PTL DEF Spec, TaskAdvances

\* Findings in force are never replaced by those of an older lease.
THEOREM FreshestWinsHolds == Spec => FreshestWins
  <1>1. TypeOK /\ TaskAdvances
          => \A t \in Tasks : task'[t].live \notin {0, task[t].live} =>
                task'[t].live > task[t].live /\ task'[t].live = task[t].takes
    BY DEF TaskAdvances, FreshLive
  <1>2. TypeOK /\ TypeOK' /\ Holding /\ TaskInv /\ [Next]_vars
          => [\A t \in Tasks : task'[t].live \notin {0, task[t].live} =>
                 task'[t].live > task[t].live /\ task'[t].live = task[t].takes]_vars
    BY <1>1, TaskStep
  <1> QED BY <1>2, TypeCorrect, TypeStep, InitHolding, HoldingStep, InitTask, TaskStep,
             PTL DEF Spec, FreshestWins, TaskAdvances

-----------------------------------------------------------------------------
(* The refinement.  With any number of workers, tasks and crashes, each    *)
(* step does to the rows what ExecutionLedger promises, or nothing.  The   *)
(* proof stands on Holding and RecordInv and on a third invariant, Open:   *)
(* what a run has not committed yet is not there.                          *)

\* A worker that has claimed an execution and not committed its outcome.
Under(w) == worker[w].pc \notin Free \cup {"claim", "finish"}
Lapsed   == {"running", "failed", "deleted"}

\* An execution that has not started has no outcome, and neither has one whose
\* run is still under way, although the sweep may have ended it or its task may
\* be gone.
Open ==
  /\ \A e \in Execs : exec[e].status \in {"unused", "queued"} => exec[e].record = "none"
  /\ \A w \in Workers : Under(w) => /\ exec[worker[w].exec].record = "none"
                                    /\ exec[worker[w].exec].status \in Lapsed

-----------------------------------------------------------------------------
(* Open is an invariant *)

\* What a step does that commits nothing.
StaysOpen(e) ==
  /\ exec'[e].record = exec[e].record
  /\ exec'[e].status \in {"unused", "queued"} => exec[e].status \in {"unused", "queued"}
  /\ exec[e].record = "none" /\ exec[e].status \in Lapsed => exec'[e].status \in Lapsed

GoesOn(v) ==
  \/ worker'[v].pc \in Free \cup {"claim", "finish"}
  \/ Under(v) /\ worker'[v].exec = worker[v].exec

\* Steps that commit nothing and claim nothing keep Open.
LEMMA OpenKept ==
  ASSUME TypeOK, Open, \A e \in Execs : StaysOpen(e), \A v \in Workers : GoesOn(v)
  PROVE  Open'
  <1>1. ASSUME NEW e \in Execs, exec'[e].status \in {"unused", "queued"}
        PROVE  exec'[e].record = "none"
    BY <1>1 DEF Open, StaysOpen
  <1>2. ASSUME NEW v \in Workers, Under(v)'
        PROVE  exec'[worker'[v].exec].record = "none" /\ exec'[worker'[v].exec].status \in Lapsed
    <2>1. Under(v) /\ worker'[v].exec = worker[v].exec
      BY <1>2 DEF GoesOn, Under
    <2>2. worker[v].exec \in Execs
      BY <2>1, HeldExec DEF Under
    <2> QED BY <2>1, <2>2 DEF Open, StaysOpen
  <1> QED BY <1>1, <1>2 DEF Open

\* Workers or executions that a step leaves alone.
LEMMA OpenIfUnchanged ==
  /\ UNCHANGED exec => \A e \in Execs : StaysOpen(e)
  /\ UNCHANGED worker => \A v \in Workers : GoesOn(v)
  BY DEF StaysOpen, GoesOn, Under

\* Nobody else holds what a worker holds.
LEMMA OthersHold ==
  ASSUME TypeOK, Holding, NEW w \in Workers, NEW v \in Workers \ {w},
         worker[w].pc \notin Free, worker[v].pc \notin Free
  PROVE  worker[v].exec \in Execs \ {worker[w].exec}
  BY HeldExec DEF Holding, OneRunner, TypeOK, WorkerState

\* A worker that ends its run, or its last statement, concerns nobody else.
LEMMA OpenAtEnd ==
  ASSUME TypeOK, Holding, Open, NEW w \in Workers, worker[w].pc \notin Free,
         worker'[w].pc \in Free \cup {"finish"},
         \A v \in Workers \ {w} : worker'[v] = worker[v],
         \A x \in Execs \ {worker[w].exec} : exec'[x] = exec[x],
         exec'[worker[w].exec].status \notin {"unused", "queued"}
  PROVE  Open'
  <1>1. ASSUME NEW e \in Execs, exec'[e].status \in {"unused", "queued"}
        PROVE  exec'[e].record = "none"
    BY <1>1 DEF Open
  <1>2. ASSUME NEW v \in Workers, Under(v)'
        PROVE  exec'[worker'[v].exec].record = "none" /\ exec'[worker'[v].exec].status \in Lapsed
    <2>1. v # w
      BY <1>2 DEF Under
    <2>2. Under(v) /\ worker'[v] = worker[v] /\ worker[v].pc \notin Free
      BY <1>2, <2>1 DEF Under
    <2>3. worker[v].exec \in Execs \ {worker[w].exec}
      BY <2>1, <2>2, OthersHold
    <2> QED BY <2>2, <2>3 DEF Open
  <1> QED BY <1>1, <1>2 DEF Open

\* At the start nothing has an outcome.
LEMMA InitOpen == Init => Open
  BY DEF Init, Open, Under, NoExec, Idle, Free

\* Every step of a claimed run keeps Open.
LEMMA OpenRun ==
  ASSUME TypeOK, Holding, Open, NEW w \in Workers,
         \/ Check(w) \/ Take(w) \/ PauseUnauthorized(w) \/ Analyse(w)
         \/ FinishUnchanged(w) \/ Reconcile(w) \/ Preview(w) \/ FinishFailure(w)
         \/ Interpret(w) \/ InterpretFailed(w) \/ ClearFailedLease(w)
         \/ WriteInterpretationAudit(w)
  PROVE  Open'
  <1> DEFINE e == worker[w].exec
  <1>pcs. {"check", "take", "unauthorized", "work", "analyse", "interpretFailed",
           "auditFailed"} \cap (Free \cup {"claim", "finish"}) = {}
    BY DEF Free
  <1>pc. worker[w].pc \notin Free \cup {"finish", "claim"} /\ Under(w)
    BY <1>pcs DEF Check, Take, PauseUnauthorized, Analyse, FinishUnchanged, Reconcile,
       Preview, FinishFailure, Interpret, InterpretFailed, ClearFailedLease,
       WriteInterpretationAudit, Working, Under
  <1>e. e \in Execs /\ exec[e].status \notin {"unused", "queued"}
    BY <1>pc, HeldExec DEF Open, Lapsed
  <1>rec. \A o, k : Record(e, o, k) =>
            /\ \A x \in Execs \ {e} : exec'[x] = exec[x]
            /\ exec'[e].status \notin {"unused", "queued"}
    BY <1>e DEF Record, TypeOK, ExecRow
  <1>end. \A r : End(w, r) =>
            /\ worker'[w].pc = "finish"
            /\ \A v \in Workers \ {w} : worker'[v] = worker[v]
    BY DEF End, TypeOK, WorkerState
  <1>go. \A pc : Go(w, pc) =>
            /\ worker'[w].pc = pc /\ worker'[w].exec = worker[w].exec
            /\ \A v \in Workers \ {w} : worker'[v] = worker[v]
    BY DEF Go, TypeOK, WorkerState
  <1>on. ASSUME UNCHANGED exec, worker'[w].exec = worker[w].exec,
                \A v \in Workers \ {w} : worker'[v] = worker[v]
         PROVE  Open'
    <2>1. \A v \in Workers : GoesOn(v)
      BY <1>on, <1>pc DEF GoesOn, Under
    <2> QED BY <1>on, <2>1, OpenIfUnchanged, OpenKept
  <1>over. \A r : End(w, r) /\ (UNCHANGED exec \/ \E o, k : Record(e, o, k)) => Open'
    BY <1>pc, <1>e, <1>rec, <1>end, OpenAtEnd
  <1> HIDE DEF e
  <1>1. CASE Check(w)
    BY <1>1, <1>over, <1>go, <1>on DEF Check
  <1>2. CASE Take(w)
    <2>1. CASE TakeOutcome(e) = "taken"
      <3> DEFINE t == exec[e].task
                 pc == IF Production(exec[e].kind) /\ task[t].owner \notin auth
                       THEN "unauthorized" ELSE "work"
      <3>1. worker' = [worker EXCEPT ![w] = [@ EXCEPT !.pc = pc,
                         !.ticket = task[t].takes + 1, !.text = task[t].text]]
        BY <1>2, <2>1 DEF Take, e
      <3> HIDE DEF pc, t
      <3>2. /\ worker'[w].exec = worker[w].exec
            /\ \A v \in Workers \ {w} : worker'[v] = worker[v]
        BY <3>1 DEF TypeOK, WorkerState
      <3> QED BY <1>2, <3>2, <1>on DEF Take
    <2>2. CASE TakeOutcome(e) # "taken"
      BY <1>2, <2>2, <1>over DEF Take, e
    <2> QED BY <2>1, <2>2
  <1>3. CASE Analyse(w)
    BY <1>3, <1>over, <1>go, <1>on DEF Analyse
  <1>rej. RejectFinal(w) => Open'
    BY <1>over DEF RejectFinal, e
  <1>4. CASE PauseUnauthorized(w) \/ Preview(w) \/ FinishFailure(w) \/ Interpret(w)
    BY <1>4, <1>over DEF PauseUnauthorized, Preview, FinishFailure, Interpret, e
  <1>8. CASE FinishUnchanged(w)
    BY <1>8, <1>over, <1>rej DEF FinishUnchanged, e
  <1>9. CASE Reconcile(w)
    BY <1>9, <1>over, <1>rej DEF Reconcile, e
  <1>5. CASE InterpretFailed(w)
    <2>1. /\ worker'[w].exec = worker[w].exec
          /\ \A v \in Workers \ {w} : worker'[v] = worker[v]
      BY <1>5 DEF InterpretFailed, TypeOK, WorkerState
    <2> QED BY <1>5, <2>1, <1>on DEF InterpretFailed
  <1>6. CASE ClearFailedLease(w)
    BY <1>6, <1>go, <1>on DEF ClearFailedLease
  <1>7. CASE WriteInterpretationAudit(w)
    BY <1>7, <1>go, <1>rec, <1>pc, <1>e, OpenAtEnd DEF WriteInterpretationAudit, e
  <1> QED BY <1>1, <1>2, <1>3, <1>4, <1>5, <1>6, <1>7, <1>8, <1>9

\* Every step keeps Open: only the claim starts an execution, and only a run,
\* its last statement and the sweep end one.
LEMMA OpenStep ==
  ASSUME TypeOK, TypeOK', Holding, Open, [Next]_vars
  PROVE  Open'
  <1> DEFINE Quiet  == \A x \in Execs : StaysOpen(x)
             Steady == \A v \in Workers : GoesOn(v)
  <1>free. {"idle", "enqueue", "sweep", "select"} = Free /\ "claim" \notin Free
           /\ "finish" \notin Free
    BY DEF Free
  <1>kept. Quiet /\ Steady => Open'
    BY OpenKept
  <1> HIDE DEF Quiet, Steady
  <1>exec. UNCHANGED exec => Quiet
    BY OpenIfUnchanged DEF Quiet
  <1>worker. UNCHANGED worker => Steady
    BY OpenIfUnchanged DEF Steady
  <1>go. ASSUME NEW w \in Workers, NEW pc \in Free, Go(w, pc)
         PROVE  Steady
    BY <1>go DEF Steady, GoesOn, Go, Under, TypeOK, WorkerState
  <1>insert. ASSUME NEW t \in Tasks, NEW kind, NEW m, InsertQueued(t, kind, m) PROVE Quiet
    BY <1>insert DEF InsertQueued, Quiet, StaysOpen, Lapsed, TypeOK, ExecRow, NextExec
  <1>1. CASE UNCHANGED vars
    BY <1>1, <1>exec, <1>worker, <1>kept DEF vars
  <1>2. CASE Api
    <2>1. ASSUME NEW t \in Tasks, Remove(t) PROVE Quiet
      BY <2>1 DEF Remove, Quiet, StaysOpen, Lapsed, TypeOK, ExecRow
    <2>2. Quiet /\ UNCHANGED worker
      BY <1>2, <2>1, <1>insert, <1>exec
         DEF Api, Update, Pause, SetQuality, Remove, Create, Approve, Resume, TaskOnly,
             Enqueue
    <2> QED BY <2>2, <1>worker, <1>kept
  <1>3. ASSUME NEW w \in Workers, SelectDue(w) PROVE Open'
    <2>1. worker'[w].pc \in Free /\ \A v \in Workers \ {w} : worker'[v] = worker[v]
      BY <1>3, <1>free DEF SelectDue, TypeOK, Idle
    <2>2. Steady
      BY <2>1 DEF Steady, GoesOn, Under
    <2> QED BY <1>3, <2>2, <1>exec, <1>kept DEF SelectDue
  <1>4. ASSUME NEW w \in Workers, EnqueueScheduled(w) PROVE Open'
    <2>1. worker[w].batch \subseteq Tasks \X Nat
      BY DEF TypeOK, WorkerState
    <2>2. PICK p \in worker[w].batch :
            /\ worker' = [worker EXCEPT ![w].batch = @ \ {p}]
            /\ InsertQueued(p[1], "scheduled", task[p[1]].owner) \/ UNCHANGED exec
      BY <1>4 DEF EnqueueScheduled
    <2>3. Steady
      BY <2>2 DEF Steady, GoesOn, Under, TypeOK, WorkerState
    <2> QED BY <2>1, <2>2, <2>3, <1>insert, <1>exec, <1>kept
  <1>5. ASSUME NEW w \in Workers, StartRun(w) PROVE Open'
    BY <1>5, <1>free, <1>go, <1>exec, <1>kept DEF StartRun
  <1>6. ASSUME NEW w \in Workers, FailInterrupted(w) PROVE Open'
    <2>1. ASSUME NEW x \in Execs PROVE StaysOpen(x)
      <3>1. exec[x].record = "none" => RecoveredStatus(x) = "failed"
        BY DEF RecoveredStatus, Recovered
      <3>2. RecoveredStatus(x) \in Terminal
        BY DEF RecoveredStatus, Terminal
      <3>3. \/ exec'[x] = exec[x]
            \/ /\ exec[x].status = "running" /\ exec'[x].status = RecoveredStatus(x)
               /\ exec'[x].record = exec[x].record
        BY <1>6 DEF FailInterrupted, Expired, TypeOK, ExecRow
      <3> QED BY <3>1, <3>2, <3>3 DEF StaysOpen, Lapsed, Terminal
    <2> QED BY <1>6, <2>1, <1>free, <1>go, <1>kept DEF FailInterrupted, Quiet
  <1>7. ASSUME NEW w \in Workers, SelectQueued(w) PROVE Open'
    <2>1. ASSUME NEW e, worker' = [worker EXCEPT ![w].pc = "claim", ![w].exec = e]
          PROVE  Steady
      BY <2>1 DEF Steady, GoesOn, Under, TypeOK, WorkerState
    <2> QED BY <1>7, <2>1, <1>free, <1>go, <1>exec, <1>kept DEF SelectQueued
  <1>8. ASSUME NEW w \in Workers, Claim(w) PROVE Open'
    <2> DEFINE e == worker[w].exec
    <2>1. /\ e \in Execs /\ worker[w].pc = "claim"
          /\ exec[e].status = "queued" /\ exec[e].record = "none"
      BY <1>8, <1>free, HeldExec DEF Claim, Holding, Open
    <2>2. /\ exec'[e].status = "running" /\ exec'[e].record = exec[e].record
          /\ \A x \in Execs \ {e} : exec'[x] = exec[x]
          /\ worker'[w].exec = e /\ \A v \in Workers \ {w} : worker'[v] = worker[v]
      BY <1>8, <2>1 DEF Claim, Go, TypeOK, ExecRow, WorkerState
    <2>3. ASSUME NEW x \in Execs, exec'[x].status \in {"unused", "queued"}
          PROVE  exec'[x].record = "none"
      BY <2>2, <2>3 DEF Open
    <2>4. ASSUME NEW v \in Workers, Under(v)'
          PROVE  /\ exec'[worker'[v].exec].record = "none"
                 /\ exec'[worker'[v].exec].status \in Lapsed
      <3>1. CASE v = w
        BY <3>1, <2>1, <2>2 DEF Lapsed
      <3>2. CASE v # w
        <4>1. Under(v) /\ worker'[v] = worker[v] /\ worker[v].pc \notin Free
          BY <3>2, <2>2, <2>4 DEF Under
        <4>2. worker[v].exec \in Execs \ {e}
          BY <3>2, <4>1, <2>1, <1>free, OthersHold
        <4> QED BY <4>1, <4>2, <2>2 DEF Open
      <3> QED BY <3>1, <3>2
    <2> QED BY <2>3, <2>4 DEF Open
  <1>9. ASSUME NEW w \in Workers, Finish(w) PROVE Open'
    <2> DEFINE e == worker[w].exec
    <2>1. /\ e \in Execs /\ exec[e].status \in Claimed /\ worker[w].pc \notin Free
          /\ worker[w].result \in Terminal
      BY <1>9, <1>free, HeldExec DEF Finish, Holding, TypeOK, WorkerState
    <2>2. /\ worker'[w].pc \in Free /\ \A v \in Workers \ {w} : worker'[v] = worker[v]
          /\ \A x \in Execs \ {e} : exec'[x] = exec[x]
          /\ exec'[e].status \in Claimed
      BY <1>9, <2>1, <1>free DEF Finish, Idle, TypeOK, ExecRow, Claimed
    <2> QED BY <2>1, <2>2, OpenAtEnd DEF Claimed, Terminal
  <1>10. ASSUME NEW w \in Workers,
                \/ Check(w) \/ Take(w) \/ PauseUnauthorized(w) \/ Analyse(w)
                \/ FinishUnchanged(w) \/ Reconcile(w) \/ Preview(w) \/ FinishFailure(w)
                \/ Interpret(w) \/ InterpretFailed(w) \/ ClearFailedLease(w)
                \/ WriteInterpretationAudit(w)
         PROVE  Open'
    BY <1>10, OpenRun
  <1>11. CASE Environment
    <2>1. ASSUME NEW w \in Workers, Crash(w) PROVE Steady /\ Quiet
      <3>1. worker'[w].pc \in Free /\ \A v \in Workers \ {w} : worker'[v] = worker[v]
        BY <2>1, <1>free DEF Crash, TypeOK, Idle
      <3> QED BY <2>1, <3>1, <1>exec DEF Steady, GoesOn, Under, Crash
    <2>2. ASSUME NEW x \in Execs, ExpireWorkerLease(x) PROVE Steady /\ Quiet
      BY <2>2, <1>worker DEF ExpireWorkerLease, Quiet, StaysOpen, TypeOK, ExecRow
    <2>3. Steady /\ Quiet
      BY <1>11, <2>1, <2>2, <1>exec, <1>worker
         DEF Environment, ExpireTaskLease, BecomeDue, UpdateSettings, ChangeAuthority
    <2> QED BY <2>3, <1>kept
  <1> QED BY <1>1, <1>2, <1>3, <1>4, <1>5, <1>6, <1>7, <1>8, <1>9, <1>10, <1>11
       DEF Next, WorkerStep

-----------------------------------------------------------------------------
(* The refinement mapping *)

\* The ledger's variable, as Promised substitutes it.
Ledgered == [e \in Execs |-> LedgerRow(exec[e])]

\* Outcomes are good for exactly the results of RecordInv, and a row is what it
\* looks like from outside.
LEMMA Outcomes ==
  ASSUME TypeOK, NEW e \in Execs
  PROVE  /\ Ledgered[e] = [task |-> exec[e].task, status |-> exec[e].status,
                           outcome |-> Outcome(exec[e].record)]
         /\ Outcome(exec[e].record) = "good" <=> exec[e].record \in Good
         /\ Outcome(exec[e].record) = "none" <=> exec[e].record = "none"
  BY DEF Ledgered, LedgerRow, Outcome, Good, Records, TypeOK, ExecRow

\* A step that leaves task, status and record of every row alone stutters.
LEMMA Stutters ==
  ASSUME \A x \in Execs : /\ exec'[x].task = exec[x].task
                          /\ exec'[x].status = exec[x].status
                          /\ exec'[x].record = exec[x].record
  PROVE  Ledgered' = Ledgered
  BY DEF Ledgered, LedgerRow

\* The tables are empty.
LEMMA LedgerStarts == Init => Promised!LedgerInit
  <1> SUFFICES ASSUME Init PROVE Promised!LedgerInit
    OBVIOUS
  <1>1. \A e \in Execs : LedgerRow(exec[e]) =
          [task |-> SomeTask, status |-> "unused", outcome |-> "none"]
    BY DEF Init, NoExec, LedgerRow, Outcome
  <1> QED BY <1>1, Choices DEF Promised!LedgerInit

\* enqueueTask queues an execution.
LEMMA InsertQueues ==
  ASSUME TypeOK, NEW t \in Tasks, NEW kind, NEW m,
         ActiveExecs(t) = {}, InsertQueued(t, kind, m)
  PROVE  \E e \in Execs : Promised!Queue(e, t)
  <1>1. PICK e \in NextExec, s \in 1..MaxSettings :
          exec' = [exec EXCEPT ![e] = [@ EXCEPT !.task = t, !.rev = task[t].rev,
                     !.kind = kind, !.requester = m, !.aiRev = s, !.status = "queued",
                     !.since = starts]]
    BY DEF InsertQueued
  <1>2. e \in Execs /\ exec[e].status = "unused"
    BY DEF NextExec
  <1>3. /\ exec'[e].task = t /\ exec'[e].status = "queued" /\ exec'[e].record = exec[e].record
        /\ \A x \in Execs \ {e} : exec'[x] = exec[x]
    BY <1>1, <1>2 DEF TypeOK, ExecRow
  <1>4. Ledgered' = [Ledgered EXCEPT ![e].task = t, ![e].status = "queued"]
    BY <1>2, <1>3 DEF Ledgered, LedgerRow
  <1>5. Promised!UnderWay(t) = {}
    <2>1. \A x \in Execs : ~(LedgerRow(exec[x]).task = t
                              /\ LedgerRow(exec[x]).status \in {"queued", "running"})
      BY DEF LedgerRow, ActiveExecs
    <2> QED BY <2>1 DEF Promised!UnderWay, Promised!Active
  <1>6. Ledgered[e].status = "unused"
    BY <1>2 DEF Ledgered, LedgerRow
  <1>7. Promised!Queue(e, t)
    BY <1>4, <1>5, <1>6 DEF Promised!Queue, Ledgered
  <1> QED BY <1>2, <1>7

\* The run or audit that a worker commits is the outcome the ledger knows, unless
\* its row went with its task.
LEMMA RecordCommits ==
  ASSUME TypeOK, Open, NEW w \in Workers, Under(w),
         NEW o \in Records \ {"none"}, NEW k, Record(worker[w].exec, o, k)
  PROVE  \/ Ledgered' = Ledgered
         \/ \E outcome \in {"good", "bad"} : Promised!Commit(worker[w].exec, outcome)
  <1> DEFINE e == worker[w].exec
  <1>1. /\ e \in Execs /\ exec[e].status \in Lapsed /\ exec[e].record = "none"
    BY HeldExec DEF Under, Open
  <1>2. CASE exec[e].status = "deleted"
    BY <1>2 DEF Record, Ledgered
  <1>3. CASE exec[e].status # "deleted"
    <2>1. PICK outcome \in {"good", "bad"} : outcome = Outcome(o)
      BY DEF Outcome
    <2>2. /\ exec'[e].task = exec[e].task /\ exec'[e].status = exec[e].status
          /\ exec'[e].record = o /\ \A x \in Execs \ {e} : exec'[x] = exec[x]
      BY <1>1, <1>3 DEF Record, TypeOK, ExecRow
    <2>3. Ledgered' = [Ledgered EXCEPT ![e].outcome = outcome]
      BY <1>1, <2>1, <2>2 DEF Ledgered, LedgerRow
    <2>4. Ledgered[e].status \in {"running", "failed"} /\ Ledgered[e].outcome = "none"
      BY <1>1, <1>3 DEF Ledgered, LedgerRow, Lapsed, Outcome
    <2>5. Promised!Commit(e, outcome)
      BY <2>3, <2>4 DEF Promised!Commit, Ledgered
    <2> QED BY <2>5
  <1> QED BY <1>2, <1>3

\* Every step of a claimed run commits its outcome or stutters.
LEMMA RunLedger ==
  ASSUME TypeOK, Open, NEW w \in Workers,
         \/ Check(w) \/ Take(w) \/ PauseUnauthorized(w) \/ Analyse(w)
         \/ FinishUnchanged(w) \/ Reconcile(w) \/ Preview(w) \/ FinishFailure(w)
         \/ Interpret(w) \/ InterpretFailed(w) \/ ClearFailedLease(w)
         \/ WriteInterpretationAudit(w)
  PROVE  \/ Ledgered' = Ledgered
         \/ \E e \in Execs, outcome \in {"good", "bad"} : Promised!Commit(e, outcome)
  <1> DEFINE e == worker[w].exec
             Kept == \/ Ledgered' = Ledgered
                     \/ \E outcome \in {"good", "bad"} : Promised!Commit(e, outcome)
  <1>pcs. {"check", "take", "unauthorized", "work", "analyse", "interpretFailed",
           "auditFailed"} \cap (Free \cup {"claim", "finish"}) = {}
    BY DEF Free
  <1>pc. Under(w)
    BY <1>pcs DEF Check, Take, PauseUnauthorized, Analyse, FinishUnchanged, Reconcile,
       Preview, FinishFailure, Interpret, InterpretFailed, ClearFailedLease,
       WriteInterpretationAudit, Working, Under
  <1>e. e \in Execs
    BY <1>pc, HeldExec DEF Under
  <1>rec. \A o \in Records \ {"none"} : \A k : Record(e, o, k) => Kept
    BY <1>pc, RecordCommits
  <1>same. UNCHANGED exec => Kept
    BY DEF Ledgered
  <1>out. {"changed", "unchanged", "failed", "superseded", "success"}
            \subseteq Records \ {"none"}
    BY DEF Records
  <1> SUFFICES Kept
    BY <1>e DEF Kept
  <1> HIDE DEF Kept
  <1>rej. RejectFinal(w) => Kept
    BY <1>rec, <1>out DEF RejectFinal
  <1>1. CASE Check(w) \/ Take(w) \/ Analyse(w) \/ InterpretFailed(w) \/ ClearFailedLease(w)
    BY <1>1, <1>same DEF Check, Take, Analyse, InterpretFailed, ClearFailedLease
  <1>2. CASE PauseUnauthorized(w) \/ FinishFailure(w) \/ Interpret(w)
             \/ WriteInterpretationAudit(w)
    BY <1>2, <1>same, <1>rec, <1>out DEF PauseUnauthorized, FinishFailure, Interpret,
       WriteInterpretationAudit
  <1>3. CASE FinishUnchanged(w) \/ Reconcile(w)
    BY <1>3, <1>same, <1>rec, <1>out, <1>rej DEF FinishUnchanged, Reconcile
  <1>4. CASE Preview(w)
    <2>1. \E o \in {"changed", "superseded"} : \E k : Record(e, o, k)
      BY <1>4 DEF Preview
    <2> QED BY <2>1, <1>rec, <1>out
  <1> QED BY <1>1, <1>2, <1>3, <1>4

\* The claim starts the execution that the worker locked.
LEMMA ClaimStarts ==
  ASSUME TypeOK, Holding, NEW w \in Workers, Claim(w)
  PROVE  \E e \in Execs : Promised!Start(e)
  <1> DEFINE e == worker[w].exec
  <1>1. e \in Execs /\ exec[e].status = "queued"
    BY HeldExec DEF Claim, Holding, Free
  <1>2. /\ exec'[e].task = exec[e].task /\ exec'[e].status = "running"
        /\ exec'[e].record = exec[e].record /\ \A x \in Execs \ {e} : exec'[x] = exec[x]
    BY <1>1 DEF Claim, TypeOK, ExecRow
  <1>3. Ledgered' = [Ledgered EXCEPT ![e].status = "running"]
    BY <1>1, <1>2 DEF Ledgered, LedgerRow
  <1>4. Ledgered[e].status = "queued"
    BY <1>1 DEF Ledgered, LedgerRow
  <1>5. Promised!Start(e)
    BY <1>3, <1>4 DEF Promised!Start, Ledgered
  <1> QED BY <1>1, <1>5

\* The removal of a task deletes its rows.
LEMMA RemoveDeletes ==
  ASSUME TypeOK, NEW t \in Tasks, Remove(t)
  PROVE  Promised!Delete(t)
  <1> DEFINE Gone(x) == exec[x].task = t /\ exec[x].status # "unused"
  <1>1. \A x \in Execs : LedgerRow(exec'[x]) =
          IF Gone(x) THEN [LedgerRow(exec[x]) EXCEPT !.status = "deleted"]
          ELSE LedgerRow(exec[x])
    BY DEF Remove, LedgerRow, TypeOK, ExecRow
  <1>2. \A x \in Execs : Gone(x) <=> /\ LedgerRow(exec[x]).task = t
                                     /\ LedgerRow(exec[x]).status # "unused"
    BY DEF LedgerRow
  <1> HIDE DEF Gone
  <1> QED BY <1>1, <1>2 DEF Promised!Delete

\* Rows that each end as their outcome says, or stay, are what EndSome allows.
LEMMA EndsSome ==
  ASSUME TypeOK,
         \A x \in Execs :
           \/ exec'[x] = exec[x]
           \/ /\ exec[x].status = "running" /\ exec'[x].status \in Terminal
              /\ exec'[x].status = "succeeded" <=> exec[x].record \in Good
              /\ exec'[x].task = exec[x].task /\ exec'[x].record = exec[x].record
  PROVE  Promised!EndSome
  <1>1. ASSUME NEW x \in Execs
        PROVE  \/ LedgerRow(exec'[x]) = LedgerRow(exec[x])
               \/ \E status \in Terminal :
                    /\ LedgerRow(exec'[x]) = [LedgerRow(exec[x]) EXCEPT !.status = status]
                    /\ LedgerRow(exec[x]).status = "running"
                    /\ status = "succeeded" <=> LedgerRow(exec[x]).outcome = "good"
    <2>1. CASE exec'[x] = exec[x]
      BY <2>1
    <2>2. CASE exec'[x] # exec[x]
      <3>1. Outcome(exec[x].record) = "good" <=> exec[x].record \in Good
        BY Outcomes
      <3>2. /\ LedgerRow(exec'[x]) = [LedgerRow(exec[x]) EXCEPT !.status = exec'[x].status]
            /\ LedgerRow(exec[x]).status = "running"
            /\ exec'[x].status = "succeeded" <=> LedgerRow(exec[x]).outcome = "good"
        BY <2>2, <3>1 DEF LedgerRow
      <3> QED BY <2>2, <3>2
    <2> QED BY <2>1, <2>2
  <1>2. /\ \A x \in Execs : /\ Ledgered[x] = LedgerRow(exec[x])
                            /\ Ledgered'[x] = LedgerRow(exec'[x])
        /\ Ledgered' = [x \in Execs |-> Ledgered'[x]]
    BY DEF Ledgered
  <1>3. \A x \in Execs : \/ Ledgered'[x] = Ledgered[x]
                         \/ \E status \in Terminal :
                              /\ Ledgered[x].status = "running"
                              /\ status = "succeeded" <=> Ledgered[x].outcome = "good"
                              /\ Ledgered'[x] = [Ledgered[x] EXCEPT !.status = status]
    <2> SUFFICES ASSUME NEW x \in Execs
                 PROVE  \/ Ledgered'[x] = Ledgered[x]
                        \/ \E status \in Terminal :
                              /\ Ledgered[x].status = "running"
                              /\ status = "succeeded" <=> Ledgered[x].outcome = "good"
                              /\ Ledgered'[x] = [Ledgered[x] EXCEPT !.status = status]
      BY Zenon
    <2>1. Ledgered[x] = LedgerRow(exec[x]) /\ Ledgered'[x] = LedgerRow(exec'[x])
      BY <1>2
    <2>2. ASSUME NEW status \in Terminal,
                 LedgerRow(exec'[x]) = [LedgerRow(exec[x]) EXCEPT !.status = status],
                 LedgerRow(exec[x]).status = "running",
                 status = "succeeded" <=> LedgerRow(exec[x]).outcome = "good"
          PROVE  /\ Ledgered[x].status = "running"
                 /\ status = "succeeded" <=> Ledgered[x].outcome = "good"
                 /\ Ledgered'[x] = [Ledgered[x] EXCEPT !.status = status]
      <3>1. Ledgered'[x] = [Ledgered[x] EXCEPT !.status = status]
        BY <2>1, <2>2, Zenon
      <3>2. Ledgered[x].status = "running"
        BY <2>1, <2>2
      <3>3. status = "succeeded" <=> Ledgered[x].outcome = "good"
        BY <2>1, <2>2
      <3> QED BY <3>1, <3>2, <3>3
    <2>3. CASE LedgerRow(exec'[x]) = LedgerRow(exec[x])
      BY <2>1, <2>3
    <2> QED BY <1>1, <2>2, <2>3, Zenon
  <1> QED BY <1>2, <1>3 DEF Promised!EndSome, Promised!Ends, Promised!Terminal, Terminal, Ledgered

\* Every step does to the rows what the ledger promises, or nothing.
LEMMA LedgerStep ==
  ASSUME TypeOK, Holding, RecordInv, Open, [Next]_vars
  PROVE  [Promised!LedgerNext]_Ledgered
  <1> DEFINE Kept == Promised!LedgerNext \/ Ledgered' = Ledgered
  <1>same. UNCHANGED exec => Kept
    BY DEF Ledgered
  <1>insert. ASSUME NEW t \in Tasks, NEW kind, NEW m,
                    ActiveExecs(t) = {}, InsertQueued(t, kind, m)
             PROVE  Kept
    BY <1>insert, InsertQueues DEF Promised!LedgerNext
  <1>end. ASSUME Promised!EndSome PROVE Kept
    BY <1>end DEF Promised!LedgerNext
  <1>1. ASSUME NEW w \in Workers, EnqueueScheduled(w) PROVE Kept
    <2>1. worker[w].batch \subseteq Tasks \X Nat
      BY DEF TypeOK, WorkerState
    <2>2. PICK p \in worker[w].batch :
            \/ /\ ActiveExecs(p[1]) = {}
               /\ InsertQueued(p[1], "scheduled", task[p[1]].owner)
            \/ UNCHANGED exec
      BY <1>1 DEF EnqueueScheduled
    <2> QED BY <2>1, <2>2, <1>insert, <1>same
  <1>2. ASSUME NEW w \in Workers, Claim(w) PROVE Kept
    BY <1>2, ClaimStarts DEF Promised!LedgerNext
  <1>3. ASSUME NEW w \in Workers, FailInterrupted(w) PROVE Kept
    <2>1. ASSUME NEW x \in Execs
          PROVE  \/ exec'[x] = exec[x]
                 \/ /\ exec[x].status = "running" /\ exec'[x].status \in Terminal
                    /\ exec'[x].status = "succeeded" <=> exec[x].record \in Good
                    /\ exec'[x].task = exec[x].task /\ exec'[x].record = exec[x].record
      <3>1. RecoveredStatus(x) \in Terminal
        BY DEF RecoveredStatus, Terminal
      <3>2. RecoveredStatus(x) = "succeeded" <=> exec[x].record \in Good
        BY DEF RecoveredStatus, Recovered, RecordInv, RecordOK, Good, TypeOK, ExecRow, Records
      <3> QED BY <1>3, <3>1, <3>2 DEF FailInterrupted, Expired, TypeOK, ExecRow
    <2> QED BY <2>1, <1>end, EndsSome
  <1>4. ASSUME NEW w \in Workers, Finish(w) PROVE Kept
    <2> DEFINE e == worker[w].exec
    <2>1. /\ e \in Execs /\ worker[w].result \in Terminal
          /\ \/ exec[e].status = "deleted"
             \/ worker[w].result = "succeeded" <=> exec[e].record \in Good
      BY <1>4, HeldExec DEF Finish, Free, RecordInv, ReportOK, TypeOK, WorkerState
    <2>2. CASE exec[e].status = "running"
      <3>1. /\ exec'[e].status = worker[w].result /\ exec'[e].task = exec[e].task
            /\ exec'[e].record = exec[e].record
            /\ \A x \in Execs \ {e} : exec'[x] = exec[x]
        BY <1>4, <2>1, <2>2 DEF Finish, TypeOK, ExecRow
      <3> QED BY <2>1, <2>2, <3>1, <1>end, EndsSome
    <2>3. CASE exec[e].status # "running"
      BY <1>4, <2>3, <1>same DEF Finish
    <2> QED BY <2>2, <2>3
  <1>5. ASSUME NEW w \in Workers,
               \/ Check(w) \/ Take(w) \/ PauseUnauthorized(w) \/ Analyse(w)
               \/ FinishUnchanged(w) \/ Reconcile(w) \/ Preview(w) \/ FinishFailure(w)
               \/ Interpret(w) \/ InterpretFailed(w) \/ ClearFailedLease(w)
               \/ WriteInterpretationAudit(w)
        PROVE  Kept
    BY <1>5, RunLedger DEF Promised!LedgerNext
  <1>6. ASSUME NEW t \in Tasks, Remove(t) PROVE Kept
    BY <1>6, RemoveDeletes DEF Promised!LedgerNext
  <1>7. ASSUME NEW t \in Tasks, NEW kind \in Kinds, NEW m \in Members, Enqueue(t, kind, m)
        PROVE  Kept
    BY <1>7, <1>insert DEF Enqueue
  <1>8. ASSUME NEW e \in Execs, ExpireWorkerLease(e) PROVE Kept
    BY <1>8, Stutters DEF ExpireWorkerLease, TypeOK, ExecRow
  <1> SUFFICES Kept
    BY DEF Kept
  <1> HIDE DEF Kept
  <1>9. CASE Api
    BY <1>9, <1>6, <1>7, <1>same
       DEF Api, Update, Pause, SetQuality, Create, Approve, Resume, TaskOnly
  <1>10. CASE Environment
    BY <1>10, <1>8, <1>same
       DEF Environment, Crash, ExpireTaskLease, BecomeDue, UpdateSettings, ChangeAuthority
  <1>11. CASE \E w \in Workers : WorkerStep(w)
    BY <1>11, <1>1, <1>2, <1>3, <1>4, <1>5, <1>same
       DEF WorkerStep, SelectDue, StartRun, SelectQueued
  <1>12. CASE UNCHANGED vars
    BY <1>12, <1>same DEF vars
  <1> QED BY <1>9, <1>10, <1>11, <1>12 DEF Next

\* Whatever the workers, their crashes, their leases and the handlers do, the
\* executions keep the promises of the ledger.
THEOREM KeepsLedgerHolds == Spec => KeepsLedger
  <1>1. TypeOK /\ Holding /\ RecordInv /\ Open /\ [Next]_vars
          => [Promised!LedgerNext]_([e \in Execs |-> LedgerRow(exec[e])])
    BY LedgerStep DEF Ledgered
  <1> QED BY <1>1, LedgerStarts, TypeCorrect, TypeStep, InitHolding, HoldingStep,
             InitRecord, RecordStep, InitOpen, OpenStep,
             PTL DEF Spec, KeepsLedger, Promised!Ledger

-----------------------------------------------------------------------------
(* One worker serves the households in turn.                               *)
(*                                                                         *)
(* Since b was queued, the households of b and h are compared by what they *)
(* have started.  The count alone is not inductive: h may be one ahead, so *)
(* Balance adds that it is not while h's last start lies before one of b's *)
(* household, and Chosen that this is so whenever h is about to start      *)
(* again.                                                                  *)

Own(b) == HouseholdOf[exec[b].task]
Served(b, h) == {x \in StartedSince(b, h) : exec[x].status # "deleted"}
Behind(b, h) == \A x \in Served(b, h) : \E y \in StartedSince(b, Own(b)) :
                  exec[x].started < exec[y].started

\* The clock of starts stamps each execution once.
Stamps ==
  /\ \A x \in Execs : /\ exec[x].started <= starts /\ exec[x].since <= starts
                      /\ exec[x].status \in {"unused", "queued"} => exec[x].started = 0
  /\ \A x, y \in Execs : x # y /\ exec[x].started # 0 => exec[x].started # exec[y].started

Balanced(b, h) ==
  /\ Cardinality(Served(b, h)) <= Cardinality(StartedSince(b, Own(b))) + 1
  /\ Behind(b, h) => Cardinality(Served(b, h)) <= Cardinality(StartedSince(b, Own(b)))
Balance == \A b \in Queued, h \in Households : h # Own(b) => Balanced(b, h)

Chosen == \A w \in Workers : worker[w].pc = "claim" =>
            \A b \in Queued : Own(b) # Own(worker[w].exec) => Behind(b, Own(worker[w].exec))

TurnInv == Stamps /\ Balance /\ Chosen

-----------------------------------------------------------------------------
\* What every step but the claim does to a row, as far as turns are concerned.
KeepsTurn(x) ==
  /\ exec'[x].started = exec[x].started
  /\ exec[x].status = "deleted" => exec'[x].status = "deleted"
  /\ \/ /\ exec'[x].task = exec[x].task /\ exec'[x].since = exec[x].since
        /\ exec'[x].status \in {"unused", "queued"} => exec[x].status = exec'[x].status
     \/ exec[x].status = "unused" /\ exec'[x].status = "queued" /\ exec'[x].since = starts

LEMMA TurnIfUnchanged == UNCHANGED exec => \A x \in Execs : KeepsTurn(x)
  BY DEF KeepsTurn

LEMMA RecordKeepsTurn ==
  ASSUME TypeOK, NEW e \in Execs, NEW outcome, NEW kind, Record(e, outcome, kind)
  PROVE  \A x \in Execs : KeepsTurn(x)
  BY DEF Record, KeepsTurn, TypeOK, ExecRow

LEMMA InsertKeepsTurn ==
  ASSUME TypeOK, NEW t \in Tasks, NEW kind, NEW m, InsertQueued(t, kind, m)
  PROVE  \A x \in Execs : KeepsTurn(x)
  BY DEF InsertQueued, KeepsTurn, TypeOK, ExecRow, NextExec

LEMMA TurnsKept ==
  ASSUME TypeOK, Holding, [Next]_vars, \A w \in Workers : ~Claim(w)
  PROVE  starts' = starts /\ \A x \in Execs : KeepsTurn(x)
  <1> DEFINE Kept == starts' = starts /\ \A x \in Execs : KeepsTurn(x)
  <1> SUFFICES Kept
    OBVIOUS
  <1>free. {"idle", "enqueue", "sweep", "select"} = Free /\ "claim" \notin Free
    BY DEF Free
  <1>quiet. UNCHANGED <<exec, starts>> => Kept
    BY TurnIfUnchanged
  <1>insert. ASSUME NEW t \in Tasks, NEW kind, NEW m, InsertQueued(t, kind, m), UNCHANGED starts
             PROVE  Kept
    BY <1>insert, InsertKeepsTurn
  <1> HIDE DEF Kept
  <1>1. CASE UNCHANGED vars
    BY <1>1, <1>quiet DEF vars
  <1>2. CASE Api
    <2>1. ASSUME NEW t \in Tasks, Remove(t) PROVE Kept
      BY <2>1 DEF Kept, Remove, KeepsTurn, TypeOK, ExecRow
    <2> QED BY <1>2, <2>1, <1>insert, <1>quiet
         DEF Api, Update, Pause, SetQuality, Create, Approve, Resume, TaskOnly, Enqueue
  <1>3. ASSUME NEW w \in Workers, EnqueueScheduled(w) PROVE Kept
    <2>1. worker[w].batch \subseteq Tasks \X Nat
      BY DEF TypeOK, WorkerState
    <2>2. PICK p \in worker[w].batch :
            /\ InsertQueued(p[1], "scheduled", task[p[1]].owner) \/ UNCHANGED exec
            /\ UNCHANGED starts
      BY <1>3 DEF EnqueueScheduled
    <2>3. p[1] \in Tasks
      BY <2>1
    <2> QED BY <2>2, <2>3, <1>insert, <1>quiet
  <1>4. ASSUME NEW w \in Workers,
               \/ SelectDue(w) \/ StartRun(w) \/ SelectQueued(w) \/ Check(w) \/ Take(w)
               \/ Analyse(w) \/ InterpretFailed(w) \/ ClearFailedLease(w)
        PROVE  Kept
    BY <1>4, <1>quiet DEF SelectDue, StartRun, SelectQueued, Check, Take, Analyse,
       InterpretFailed, ClearFailedLease
  <1>5. ASSUME NEW w \in Workers, FailInterrupted(w) PROVE Kept
    <2>1. ASSUME NEW x \in Execs PROVE KeepsTurn(x)
      BY <1>5 DEF FailInterrupted, KeepsTurn, TypeOK, ExecRow, Expired, RecoveredStatus
    <2> QED BY <1>5, <2>1 DEF Kept, FailInterrupted
  <1>6. ASSUME NEW w \in Workers, Finish(w) PROVE Kept
    <2>1. worker[w].exec \in Execs /\ worker[w].result \in Terminal
      BY <1>6, HeldExec DEF Finish, Free, TypeOK, WorkerState
    <2>2. \A x \in Execs : KeepsTurn(x)
      BY <1>6, <2>1 DEF Finish, KeepsTurn, TypeOK, ExecRow, Terminal
    <2> QED BY <1>6, <2>2 DEF Kept, Finish
  <1>7. ASSUME NEW w \in Workers,
               \/ PauseUnauthorized(w) \/ FinishUnchanged(w) \/ Reconcile(w) \/ Preview(w)
               \/ FinishFailure(w) \/ Interpret(w) \/ WriteInterpretationAudit(w)
        PROVE  Kept
    <2> DEFINE e == worker[w].exec
    <2>1. worker[w].pc \notin Free
      BY <1>7, <1>free DEF PauseUnauthorized, FinishUnchanged, Reconcile, Preview,
         FinishFailure, Interpret, WriteInterpretationAudit, Working
    <2>2. e \in Execs
      BY <2>1, HeldExec
    <2> HIDE DEF e
    <2>3. \A outcome, kind : Record(e, outcome, kind) /\ UNCHANGED starts => Kept
      BY <2>2, RecordKeepsTurn DEF Kept
    <2>4. RejectFinal(w) /\ UNCHANGED starts => Kept
      BY <2>3 DEF RejectFinal, e
    <2> QED BY <1>7, <2>3, <2>4, <1>quiet
         DEF PauseUnauthorized, FinishUnchanged, Reconcile, Preview, FinishFailure,
             Interpret, WriteInterpretationAudit, e
  <1>8. CASE Environment
    <2>1. ASSUME NEW x \in Execs, ExpireWorkerLease(x) PROVE Kept
      BY <2>1 DEF ExpireWorkerLease, Kept, KeepsTurn, TypeOK, ExecRow
    <2> QED BY <1>8, <2>1, <1>quiet
         DEF Environment, Crash, ExpireTaskLease, BecomeDue, UpdateSettings, ChangeAuthority
  <1> QED BY <1>1, <1>2, <1>3, <1>4, <1>5, <1>6, <1>7, <1>8 DEF Next, WorkerStep

-----------------------------------------------------------------------------
\* Sets of executions are finite, and counting them is monotonic.
LEMMA Counting ==
  /\ \A S \in SUBSET Execs : Cardinality(S) \in Nat
  /\ \A S, T \in SUBSET Execs : S \subseteq T /\ S # T => Cardinality(S) < Cardinality(T)
  /\ \A S \in SUBSET Execs : \A x \in Execs \ S : Cardinality(S \cup {x}) = Cardinality(S) + 1
  <1>1. IsFiniteSet(Execs)
    BY Bounds, FS_Interval DEF Execs
  <1>2. ASSUME NEW S \in SUBSET Execs
        PROVE  /\ IsFiniteSet(S) /\ Cardinality(S) \in Nat
               /\ \A x \in Execs \ S : Cardinality(S \cup {x}) = Cardinality(S) + 1
    <2>1. IsFiniteSet(S)
      BY <1>1, FS_Subset
    <2> QED BY <2>1, FS_CardinalityType, FS_AddElement
  <1>3. ASSUME NEW S \in SUBSET Execs, NEW T \in SUBSET Execs, S \subseteq T, S # T
        PROVE  Cardinality(S) < Cardinality(T)
    <2>1. Cardinality(S) <= Cardinality(T) /\ Cardinality(S) # Cardinality(T)
      BY <1>2, <1>3, FS_Subset
    <2> QED BY <1>2, <2>1
  <1> QED BY <1>2, <1>3

\* The numbers of a row.
LEMMA Clock ==
  ASSUME TypeOK
  PROVE  starts \in Nat /\ \A x \in Execs : exec[x].started \in Nat /\ exec[x].since \in Nat
  BY DEF TypeOK, ExecRow

\* A step that keeps the turns adds nobody to those served since b was queued,
\* and nobody has been served since a row that is new.
LEMMA TurnSets ==
  ASSUME TypeOK, Stamps, starts' = starts, \A x \in Execs : KeepsTurn(x),
         NEW b \in Queued'
  PROVE  \/ /\ b \in Queued /\ Own(b)' = Own(b)
            /\ \A h : /\ StartedSince(b, h)' = StartedSince(b, h)
                      /\ Served(b, h)' \subseteq Served(b, h)
         \/ \A h : StartedSince(b, h)' = {} /\ Served(b, h)' = {}
  <1>1. b \in Execs /\ exec'[b].status = "queued" /\ KeepsTurn(b)
    BY DEF Queued
  <1>2. CASE exec[b].status = "unused" /\ exec'[b].since = starts
    <2>1. \A h : StartedSince(b, h)' = {}
      BY <1>2, Clock DEF StartedSince, Stamps, KeepsTurn
    <2> QED BY <2>1 DEF Served
  <1>3. CASE exec[b].status = "queued" /\ exec'[b].task = exec[b].task
             /\ exec'[b].since = exec[b].since
    <2>1. ASSUME NEW h
          PROVE  StartedSince(b, h)' = StartedSince(b, h) /\ Served(b, h)' \subseteq Served(b, h)
      <3>1. ASSUME NEW x \in Execs
            PROVE  (x \in StartedSince(b, h))' <=> x \in StartedSince(b, h)
        <4>1. CASE exec[x].status = "unused"
          BY <1>1, <1>3, <4>1, Clock DEF StartedSince, Stamps, KeepsTurn
        <4>2. CASE exec[x].status # "unused"
          BY <1>1, <1>3, <4>2 DEF StartedSince, KeepsTurn
        <4> QED BY <4>1, <4>2
      <3>2. StartedSince(b, h)' = StartedSince(b, h)
        BY <3>1 DEF StartedSince
      <3> QED BY <3>2 DEF Served, KeepsTurn, StartedSince
    <2> QED BY <1>1, <1>3, <2>1 DEF Own, Queued
  <1> QED BY <1>1, <1>2, <1>3 DEF KeepsTurn

\* Steps other than the claim keep the stamps and the balance.
LEMMA BalanceKept ==
  ASSUME TypeOK, Stamps, Balance, starts' = starts, \A x \in Execs : KeepsTurn(x)
  PROVE  Stamps' /\ Balance'
  <1>1. Stamps'
    BY Clock DEF Stamps, KeepsTurn
  <1>2. ASSUME NEW b \in Queued', NEW h \in Households, h # Own(b)'
        PROVE  Balanced(b, h)'
    <2>1. /\ Served(b, h) \subseteq Execs /\ StartedSince(b, Own(b)) \subseteq Execs
          /\ Served(b, h)' \subseteq Execs
      BY DEF Served, StartedSince
    <2>2. CASE Served(b, h)' = {}
      BY <2>2, FS_EmptySet, Counting DEF Balanced, StartedSince
    <2>3. CASE Served(b, h)' # {}
      <3>1. b \in Queued /\ Own(b)' = Own(b) /\ Served(b, h)' \subseteq Served(b, h)
        BY <2>3, TurnSets
      <3>2. CASE StartedSince(b, Own(b))' = StartedSince(b, Own(b))
        <4>1. Balanced(b, h)
          BY <1>2, <3>1 DEF Balance
        <4>2. CASE Served(b, h)' = Served(b, h)
          <5>1. Behind(b, h)' => Behind(b, h)
            BY <3>2, <4>2 DEF Behind, KeepsTurn, Served, StartedSince
          <5> QED BY <3>2, <4>1, <4>2, <5>1 DEF Balanced
        <4>3. CASE Served(b, h)' # Served(b, h)
          <5>1. Cardinality(Served(b, h)') < Cardinality(Served(b, h))
            BY <2>1, <3>1, <4>3, Counting
          <5> QED BY <2>1, <3>2, <4>1, <5>1, Counting DEF Balanced
        <4> QED BY <4>2, <4>3
      <3>3. StartedSince(b, Own(b))' = StartedSince(b, Own(b))
        <4>1. PICK k : k = Own(b)
          OBVIOUS
        <4>2. StartedSince(b, k)' = StartedSince(b, k)
          BY <2>3, TurnSets
        <4> QED BY <2>3, <3>1, <4>1, <4>2 DEF StartedSince
      <3> QED BY <3>2, <3>3
    <2> QED BY <2>2, <2>3
  <1> QED BY <1>1, <1>2 DEF Balance

\* A worker that still holds its choice chose rightly.
LEMMA ChosenKept ==
  ASSUME TypeOK, Holding, TurnInv, starts' = starts, \A x \in Execs : KeepsTurn(x),
         \A v \in Workers : KeepsHold(v)
  PROVE  Chosen'
  <1> SUFFICES ASSUME NEW w \in Workers, worker'[w].pc = "claim",
                      NEW b \in Queued', Own(b)' # Own(worker[w].exec)'
               PROVE  Behind(b, Own(worker[w].exec))'
    BY DEF Chosen
  <1>1. PICK c, g : c = worker[w].exec /\ g = Own(c)
    OBVIOUS
  <1>2. worker'[w].exec = c /\ worker[w].pc = "claim"
    BY <1>1 DEF KeepsHold, Free
  <1>3. c \in Execs /\ exec[c].status = "queued"
    BY <1>1, <1>2, HeldExec DEF Holding, Free
  <1>4. Own(worker[w].exec)' = g
    BY <1>1, <1>2, <1>3 DEF Own, KeepsTurn
  <1>5. CASE Served(b, g)' = {}
    BY <1>4, <1>5 DEF Behind, Served, StartedSince
  <1>6. CASE b \in Queued /\ Own(b)' = Own(b) /\ StartedSince(b, Own(b))' = StartedSince(b, Own(b))
             /\ Served(b, g)' \subseteq Served(b, g)
    <2>1. Behind(b, Own(worker[w].exec))
      BY <1>1, <1>2, <1>4, <1>6 DEF TurnInv, Chosen
    <2>2. Behind(b, g)
      BY <1>1, <2>1
    <2> QED BY <1>4, <1>6, <2>2 DEF Behind, Served, StartedSince, KeepsTurn
  <1>7. Stamps
    BY DEF TurnInv
  <1>8. PICK k : k = Own(b)
    OBVIOUS
  <1>9. CASE b \in Queued /\ Own(b)' = Own(b) /\ StartedSince(b, k)' = StartedSince(b, k)
             /\ Served(b, g)' \subseteq Served(b, g)
    BY <1>6, <1>8, <1>9 DEF StartedSince
  <1> QED BY <1>5, <1>7, <1>9, TurnSets

\* A worker that is alone chooses a row whose household is not ahead.
LEMMA SelectChooses ==
  ASSUME TypeOK, TurnInv, NEW only, Workers = {only}, SelectQueued(only)
  PROVE  Chosen'
  <1>1. Locked = {}
    BY DEF Locked, SelectQueued
  <1>2. CASE Go(only, "idle")
    BY <1>2 DEF Go, Chosen, TypeOK, WorkerState
  <1>3. ASSUME NEW e \in Queued, \A x \in Queued : Before(e, x),
               worker' = [worker EXCEPT ![only].pc = "claim", ![only].exec = e]
        PROVE  Chosen'
    <2>1. worker'[only].exec = e /\ UNCHANGED exec
      BY <1>3 DEF TypeOK, WorkerState, SelectQueued
    <2>2. ASSUME NEW b \in Queued, Own(b) # Own(e),
                 NEW x \in Served(b, Own(e))
          PROVE  \E y \in StartedSince(b, Own(b)) : exec[x].started < exec[y].started
      <3>1. /\ b \in Execs /\ x \in Rows(Own(e)) /\ exec[x].started > exec[b].since
            /\ exec[x].started # 0 /\ x \in Execs
        BY Clock DEF Served, StartedSince, Rows, TurnInv, Stamps, Queued
      <3>2. PICK y \in Rows(Own(b)) : exec[x].started < exec[y].started
        <4>1. CASE ServedBefore(Own(e), Own(b))
          BY <3>1, <4>1 DEF ServedBefore
        <4>2. CASE ~ServedBefore(Own(b), Own(e))
          <5>1. PICK y \in Rows(Own(b)) : ~(exec[y].started < exec[x].started)
            BY <3>1, <4>2 DEF ServedBefore
          <5>2. y \in Execs /\ y # x
            BY <2>2, <3>1, <5>1 DEF Rows
          <5>3. exec[x].started # exec[y].started
            BY <3>1, <5>2 DEF TurnInv, Stamps
          <5>4. exec[x].started < exec[y].started
            BY <3>1, <5>1, <5>2, <5>3, Clock
          <5> QED BY <5>1, <5>4
        <4>3. Before(e, b)
          BY <1>3
        <4> QED BY <4>1, <4>2, <4>3 DEF Before, Own
      <3>3. y \in StartedSince(b, Own(b))
        BY <3>1, <3>2, Clock DEF StartedSince, Rows
      <3> QED BY <3>2, <3>3
    <2>3. \A b \in Queued : Own(b) # Own(e) => Behind(b, Own(e))
      BY <2>2 DEF Behind
    <2> QED BY <2>1, <2>3 DEF Chosen, Own, Behind, Served, StartedSince, Queued
  <1> QED BY <1>1, <1>2, <1>3 DEF SelectQueued

\* The claim adds one start: to the household of the choice, which was not ahead.
LEMMA ClaimKeepsTurns ==
  ASSUME TypeOK, Holding, TurnInv, NEW only, Workers = {only}, Claim(only)
  PROVE  TurnInv'
  <1>1. PICK c : c = worker[only].exec
    OBVIOUS
  <1>2. c \in Execs /\ exec[c].status = "queued" /\ worker[only].pc = "claim"
    BY <1>1, HeldExec DEF Claim, Free, Holding
  <1>3. /\ starts' = starts + 1 /\ worker'[only].pc = "check"
        /\ exec'[c].started = starts + 1 /\ exec'[c].status = "running"
        /\ exec'[c].task = exec[c].task /\ exec'[c].since = exec[c].since
        /\ \A x \in Execs \ {c} : exec'[x] = exec[x]
    BY <1>1, <1>2 DEF Claim, Go, TypeOK, ExecRow, WorkerState
  <1>4. exec[c].started = 0
    BY <1>2 DEF TurnInv, Stamps
  <1>5. Stamps'
    <2>1. ASSUME NEW x \in Execs
          PROVE  /\ exec'[x].started <= starts' /\ exec'[x].since <= starts'
                 /\ exec'[x].status \in {"unused", "queued"} => exec'[x].started = 0
      BY <1>2, <1>3, Clock DEF TurnInv, Stamps
    <2>2. ASSUME NEW x \in Execs, NEW y \in Execs, x # y, exec'[x].started # 0
          PROVE  exec'[x].started # exec'[y].started
      BY <1>2, <1>3, <2>2, Clock DEF TurnInv, Stamps
    <2> QED BY <2>1, <2>2 DEF Stamps
  <1>6. Chosen'
    BY <1>3 DEF Chosen
  <1>7. ASSUME NEW b \in Queued', NEW h \in Households, h # Own(b)'
        PROVE  Balanced(b, h)'
    <2>1. PICK k, g : k = Own(b) /\ g = Own(c)
      OBVIOUS
    <2>2. /\ b \in Execs \ {c} /\ b \in Queued /\ exec'[b] = exec[b] /\ k = Own(b)'
          /\ h # k
      BY <1>3, <1>7, <2>1 DEF Queued, Own
    <2>3. ASSUME NEW i
          PROVE  /\ c \notin StartedSince(b, i)
                 /\ StartedSince(b, i)' = IF i = g THEN StartedSince(b, i) \cup {c}
                                                   ELSE StartedSince(b, i)
                 /\ Served(b, i)' = IF i = g THEN Served(b, i) \cup {c} ELSE Served(b, i)
      <3>1. ~(exec[c].started > exec[b].since) /\ exec'[c].started > exec'[b].since
        BY <1>2, <1>3, <1>4, <2>2, Clock DEF TurnInv, Stamps
      <3>2. HouseholdOf[exec'[c].task] = g
        BY <1>3, <2>1 DEF Own
      <3>3. StartedSince(b, i)' = IF i = g THEN StartedSince(b, i) \cup {c}
                                          ELSE StartedSince(b, i)
        BY <1>2, <1>3, <2>2, <3>1, <3>2 DEF StartedSince
      <3> QED BY <1>2, <1>3, <3>1, <3>3 DEF Served, StartedSince
    <2>4. /\ StartedSince(b, k) \subseteq Execs /\ Served(b, h) \subseteq Execs
          /\ c \notin Served(b, h)
      BY <2>3 DEF Served, StartedSince
    <2>5. /\ Balanced(b, h) <=>
               /\ Cardinality(Served(b, h)) <= Cardinality(StartedSince(b, k)) + 1
               /\ Behind(b, h) => Cardinality(Served(b, h)) <= Cardinality(StartedSince(b, k))
          /\ Balanced(b, h)' <=>
               /\ Cardinality(Served(b, h)') <= Cardinality(StartedSince(b, k)') + 1
               /\ Behind(b, h)' => Cardinality(Served(b, h)') <= Cardinality(StartedSince(b, k)')
      BY <2>1, <2>2 DEF Balanced, StartedSince
    <2>6. Balanced(b, h)
      BY <1>7, <2>1, <2>2 DEF TurnInv, Balance
    <2>7. CASE g = k
      <3>1. Served(b, h)' = Served(b, h) /\ StartedSince(b, k)' = StartedSince(b, k) \cup {c}
        BY <2>2, <2>3, <2>7
      <3>2. Cardinality(StartedSince(b, k)') = Cardinality(StartedSince(b, k)) + 1
        BY <1>2, <2>3, <2>4, <3>1, Counting
      <3> QED BY <2>4, <2>5, <2>6, <3>1, <3>2, Counting
    <2>8. CASE g # k /\ g = h
      <3>1. Served(b, h)' = Served(b, h) \cup {c} /\ StartedSince(b, k)' = StartedSince(b, k)
        BY <2>3, <2>8
      <3>2. Cardinality(Served(b, h)') = Cardinality(Served(b, h)) + 1
        BY <1>2, <2>4, <3>1, Counting
      <3>3. Behind(b, h)
        <4>1. Behind(b, Own(worker[only].exec))
          BY <1>1, <1>2, <2>1, <2>2, <2>8 DEF TurnInv, Chosen
        <4> QED BY <1>1, <2>1, <2>8, <4>1
      <3>4. ~Behind(b, h)'
        <4>1. ASSUME NEW y \in StartedSince(b, k) PROVE ~(exec'[c].started < exec'[y].started)
          BY <1>3, <2>3, Clock DEF StartedSince, TurnInv, Stamps
        <4>2. Own(b)' = k /\ c \in Served(b, h)'
          BY <2>2, <3>1
        <4> QED BY <3>1, <4>1, <4>2 DEF Behind, StartedSince
      <3> QED BY <2>4, <2>5, <2>6, <3>1, <3>2, <3>3, <3>4, Counting
    <2>9. CASE g # k /\ g # h
      <3>1. Served(b, h)' = Served(b, h) /\ StartedSince(b, k)' = StartedSince(b, k)
        BY <2>3, <2>9
      <3>2. Behind(b, h)' => Behind(b, h)
        BY <1>3, <2>1, <2>2, <2>3, <2>4, <3>1 DEF Behind, Served, StartedSince
      <3> QED BY <2>5, <2>6, <3>1, <3>2
    <2> QED BY <2>7, <2>8, <2>9
  <1> QED BY <1>5, <1>6, <1>7 DEF TurnInv, Balance

LEMMA InitTurn == Init => TurnInv
  <1> SUFFICES ASSUME Init PROVE TurnInv
    OBVIOUS
  <1>1. Queued = {} /\ Stamps
    BY DEF Init, Queued, Stamps, NoExec
  <1>2. Chosen
    BY DEF Init, Chosen, Idle
  <1> QED BY <1>1, <1>2 DEF TurnInv, Balance

\* Every step of a single worker, and everything that interrupts it.
LEMMA TurnStep ==
  ASSUME TypeOK, TypeOK', Holding, TurnInv, [Next]_vars, NEW only, Workers = {only}
  PROVE  TurnInv'
  <1>1. CASE Claim(only)
    BY <1>1, ClaimKeepsTurns
  <1>2. CASE ~Claim(only)
    <2>1. starts' = starts /\ \A x \in Execs : KeepsTurn(x)
      BY <1>2, TurnsKept
    <2>2. Stamps' /\ Balance'
      BY <2>1, BalanceKept DEF TurnInv
    <2>3. CASE SelectQueued(only)
      BY <2>2, <2>3, SelectChooses DEF TurnInv
    <2>4. CASE ~SelectQueued(only)
      <3>1. \A v \in Workers : KeepsHold(v)
        BY <1>2, <2>4, OtherKeeps, RunKeeps DEF Next, WorkerStep
      <3> QED BY <2>1, <2>2, <3>1, ChosenKept DEF TurnInv
    <2> QED BY <2>3, <2>4
  <1> QED BY <1>1, <1>2

\* With one worker, which is what compose.yaml starts, a waiting execution sees
\* every other household at most one turn ahead of its own, whatever is queued,
\* removed, recovered or restarted meanwhile.
THEOREM FairTurnHolds == ASSUME NEW only, Workers = {only} PROVE Spec => []FairTurn
  <1>1. TypeOK /\ TurnInv => FairTurn
    <2> SUFFICES ASSUME TypeOK, TurnInv, NEW b \in Queued, NEW h \in Households, h # Own(b)
                 PROVE  Cardinality(Served(b, h)) <= 1 + Cardinality(StartedSince(b, Own(b)))
      BY DEF FairTurn, Served, Own
    <2>1. /\ Cardinality(Served(b, h)) \in Nat
          /\ Cardinality(StartedSince(b, Own(b))) \in Nat
      BY Counting DEF Served, StartedSince
    <2> QED BY <2>1 DEF TurnInv, Balance, Balanced
  <1>2. TypeOK /\ TypeOK' /\ Holding /\ TurnInv /\ [Next]_vars => TurnInv'
    BY TurnStep
  <1> QED BY <1>1, <1>2, InitTurn, InitHolding, HoldingStep, InitType, TypeStep, PTL DEF Spec
=============================================================================
