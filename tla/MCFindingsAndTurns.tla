------------------------- MODULE MCFindingsAndTurns -------------------------
(***************************************************************************)
(* What the runs of one task announce, and in which turn the runs of       *)
(* several households come, for model checking: MonitorReconcile, and the  *)
(* queue of MonitorExecution with one worker and three tasks of two        *)
(* households.  The two share no variables, and a behaviour moves one.     *)
(***************************************************************************)
EXTENDS MonitorReconcile, TLC

CONSTANTS e1, e2, p1, p2, l1, t1, t2, t3, h1, h2, m1, w1

TurnTasks       == {t1, t2, t3}
TurnHouseholds  == {h1, h2}
TurnHouseholdOf == t1 :> h1 @@ t2 :> h1 @@ t3 :> h2
TurnMembers     == {m1}
TurnRequests    == {"interpretation"}
TurnWorkers     == {w1}

VARIABLES part, tasks, exec, starts, worker, settings, auth, crashes

Queue == INSTANCE MonitorExecution WITH
  Tasks <- TurnTasks, Households <- TurnHouseholds, HouseholdOf <- TurnHouseholdOf,
  Members <- TurnMembers, Revocable <- {}, Requests <- TurnRequests, Workers <- TurnWorkers,
  MaxExec <- 4, MaxRevision <- 1, MaxSettings <- 1, MaxCrashes <- 0, task <- tasks

QueueVars == <<tasks, exec, starts, worker, settings, auth, crashes>>

MCInit == /\ part \in {"findings", "turns"} /\ Init /\ Queue!Init
          /\ part = "turns" => task.weather

MCNext ==
  /\ UNCHANGED part
  /\ IF part = "findings" THEN Next ELSE UNCHANGED vars
  /\ IF part = "turns" THEN Queue!Next ELSE UNCHANGED QueueVars

MCSpec == MCInit /\ [][MCNext]_<<part, vars, QueueVars>>

\* Events and pages are only compared.
EventPageSymmetry == Permutations(Events) \cup Permutations(Pages)

FairTurn == Queue!FairTurn
=============================================================================
