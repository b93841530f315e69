-------------------------- MODULE ExecutionLedger --------------------------
(***************************************************************************)
(* What the queue of monitor executions promises to those who ask for one  *)
(* and read its row, without workers, leases, transactions and crashes: an *)
(* execution is queued when its task has none under way, starts once, has  *)
(* at most one outcome, and ends once, as succeeded exactly when its       *)
(* outcome is good, unless it goes with its task first.  A worker that     *)
(* overran its lease may still record an outcome for an execution that was *)
(* ended as failed without one.                                            *)
(***************************************************************************)
CONSTANTS
  Executions,  \* rows of monitor_executions
  Tasks        \* monitor tasks

VARIABLES
  row  \* what is known of each execution

Active   == {"queued", "running"}
Terminal == {"succeeded", "failed", "superseded"}

LedgerInit ==
  row \in [Executions -> [task : Tasks, status : {"unused"}, outcome : {"none"}]]

UnderWay(t) == {e \in Executions : row[e].task = t /\ row[e].status \in Active}

Queue(e, t) ==
  /\ row[e].status = "unused" /\ UnderWay(t) = {}
  /\ row' = [row EXCEPT ![e].task = t, ![e].status = "queued"]

Start(e) ==
  /\ row[e].status = "queued"
  /\ row' = [row EXCEPT ![e].status = "running"]

Commit(e, outcome) ==
  /\ row[e].status \in {"running", "failed"} /\ row[e].outcome = "none"
  /\ row' = [row EXCEPT ![e].outcome = outcome]

\* The sweep ends all the rows it finds in one transaction.
Ends(e, status) ==
  /\ row[e].status = "running"
  /\ status = "succeeded" <=> row[e].outcome = "good"
  /\ row'[e] = [row[e] EXCEPT !.status = status]
EndSome ==
  /\ row' = [e \in Executions |-> row'[e]]
  /\ \A e \in Executions : row'[e] = row[e] \/ \E status \in Terminal : Ends(e, status)

\* A removal may have looked before an execution of its task was queued.
Delete(t) ==
  row' = [e \in Executions |->
            IF row[e].task = t /\ row[e].status # "unused"
            THEN [row[e] EXCEPT !.status = "deleted"] ELSE row[e]]

LedgerNext ==
  \/ EndSome
  \/ \E e \in Executions :
       \/ \E t \in Tasks : Queue(e, t)
       \/ Start(e)
       \/ \E outcome \in {"good", "bad"} : Commit(e, outcome)
  \/ \E t \in Tasks : Delete(t)

Ledger == LedgerInit /\ [][LedgerNext]_row
=============================================================================
