-------------------------- MODULE MemberPages_proofs --------------------------
(***************************************************************************)
(* Proofs about the pages of a member: the page of the monitor tasks       *)
(* (MonitorsPanel) and the composer of messages (MemberBoard).             *)
(*                                                                         *)
(* The form of the monitors' page stays locked because at most the call    *)
(* that locked it is a save (PInv).  Its list never goes back because the  *)
(* server is ahead of all that the page shows or was answered (Behind),    *)
(* and because a load may show its answer only as long as nothing else     *)
(* changed the list (Current).                                             *)
(*                                                                         *)
(* A message that is composed once is stored once because a key belongs to *)
(* one text of one dialog, wherever it still is (Coherent), and because    *)
(* the dialog knows what its key was used for (Dialog).                    *)
(***************************************************************************)
EXTENDS MCMessageDelivery, TLAPS

-----------------------------------------------------------------------------
(* The page of the monitor tasks: its shape and its form *)

CardRow  == [id : 0..MaxTasks, rev : Nat, runs : Nat, active : BOOLEAN]
Holder   == Calls \cup {None}
TaskRow  == [rev : Nat, runs : Nat, active : BOOLEAN, deleted : BOOLEAN]
PanelRow == [loaded : BOOLEAN, error : BOOLEAN, shown : SUBSET CardRow,
             form : [open : BOOLEAN, card : CardRow], owner : Holder, pending : SUBSET Nat,
             latest : Holder, pollFailed : BOOLEAN, polling : Holder, removed : SUBSET Nat,
             clicks : Nat]
CallRow  == [step : {"none", "load", "save", "run", "change", "delete"}, card : CardRow,
             error : {"none", "refused", "offline"}, answer : {"none", "ok", "refused"},
             got : SUBSET CardRow]

PanelShape == /\ tasks \in [1..MaxTasks -> TaskRow]
              /\ panel \in PanelRow
              /\ call \in [Calls -> CallRow]

\* An answer to anything but a load is the task as it was changed.
Answers == \A c \in Calls : call[c].answer = "ok" /\ call[c].step # "load" => call[c].got # {}

PInv == PanelShape /\ Answers /\ Monitors!FormStaysLocked

\* The call c is the only one that moves.
Moves(c, row) == call' = [call EXCEPT ![c] = row]

LEMMA IdleShape == Monitors!Idle \in CallRow /\ Monitors!Missing \in CardRow
  BY PageBounds DEF Monitors!Idle, Monitors!Missing, CallRow, CardRow

\* A call that moves and is not a new save may unlock what it locked, no more.
LEMMA FormKept ==
  ASSUME PInv, PanelShape', NEW c \in Calls, NEW row \in CallRow, Moves(c, row),
         row.step = "save" => call[c].step = "save" /\ row.card = call[c].card,
         row.answer = "ok" /\ row.step # "load" => row.got # {},
         panel'.form = panel.form,
         \/ panel'.owner = panel.owner
         \/ panel'.owner = None /\ panel.owner = c /\ row.step # "save"
  PROVE  PInv'
  <1>1. \A d \in Calls : call'[d] = IF d = c THEN row ELSE call[d]
    BY DEF PInv, PanelShape, Moves
  <1>2. Answers'
    BY <1>1 DEF PInv, Answers
  <1>3. Monitors!FormStaysLocked'
    BY <1>1 DEF PInv, Monitors!FormStaysLocked
  <1> QED BY <1>2, <1>3 DEF PInv

\* The list of the page, and whose load may replace it.
SameList(p, q) == q.shown = p.shown /\ q.latest = p.latest /\ q.removed = p.removed

\* The effect only makes the polling anew.
LEMMA EffectKeeps ==
  ASSUME NEW p \in PanelRow
  PROVE  /\ Monitors!Effect(p) \in PanelRow
         /\ Monitors!Effect(p).form = p.form /\ Monitors!Effect(p).owner = p.owner
         /\ SameList(p, Monitors!Effect(p))
  <1>1. CASE Monitors!Effect(p) = p
    BY <1>1 DEF SameList
  <1>2. CASE Monitors!Effect(p) = [p EXCEPT !.polling = None]
    BY <1>2 DEF PanelRow, Holder, SameList
  <1> QED BY <1>1, <1>2, Zenon DEF Monitors!Effect

LEMMA PanelInit == Monitors!PanelInit => PInv
  <1> SUFFICES ASSUME Monitors!PanelInit PROVE PInv
    OBVIOUS
  <1>1. tasks \in [1..MaxTasks -> TaskRow]
    <2>1. [rev : {0}, runs : {0}, active : {FALSE}, deleted : {FALSE}] \subseteq TaskRow
      <3> SUFFICES ASSUME NEW x \in [rev : {0}, runs : {0}, active : {FALSE}, deleted : {FALSE}]
                   PROVE  x \in TaskRow
        OBVIOUS
      <3>1. x = [rev |-> 0, runs |-> 0, active |-> FALSE, deleted |-> FALSE]
        OBVIOUS
      <3> QED BY <3>1 DEF TaskRow
    <2> QED BY <2>1 DEF Monitors!PanelInit, Monitors!TaskIds
  <1>2. panel \in PanelRow
    BY IdleShape DEF Monitors!PanelInit, PanelRow, Holder, Monitors!NoForm
  <1>3. call \in [Calls -> CallRow]
    BY IdleShape DEF Monitors!PanelInit
  <1>4. Answers /\ Monitors!FormStaysLocked
    BY DEF Monitors!PanelInit, Monitors!Idle, Answers, Monitors!FormStaysLocked
  <1> QED BY <1>1, <1>2, <1>3, <1>4 DEF PInv, PanelShape

LEMMA LoadingShape ==
  ASSUME NEW card \in CardRow, NEW error \in {"none", "refused", "offline"}
  PROVE  /\ Monitors!Loading(card, error) \in CallRow
         /\ Monitors!Loading(card, error).step = "load"
  <1>1. [Monitors!Missing EXCEPT !.id = card.id] \in CardRow
    BY DEF Monitors!Missing, CardRow
  <1>2. Monitors!Loading(card, error)
          = [Monitors!Idle EXCEPT !.step = "load",
               !.card = [Monitors!Missing EXCEPT !.id = card.id], !.error = error]
    BY DEF Monitors!Loading, Monitors!Idle
  <1> QED BY <1>1, <1>2, IdleShape DEF CallRow

\* A load begins.
LEMMA StartLoadInv ==
  ASSUME PInv, NEW c \in Calls, NEW p \in PanelRow, Monitors!StartLoad(c, p),
         p.form = panel.form, p.owner = panel.owner
  PROVE  PInv'
  <1>1. panel' = [p EXCEPT !.latest = c] /\ UNCHANGED tasks
    BY DEF Monitors!StartLoad
  <1>2. panel' \in PanelRow /\ panel'.form = panel.form /\ panel'.owner = panel.owner
    BY <1>1 DEF PanelRow, Holder
  <1>3. Moves(c, Monitors!Loading(Monitors!Missing, "none"))
    BY DEF Monitors!StartLoad, Moves
  <1>4. /\ Monitors!Loading(Monitors!Missing, "none") \in CallRow
        /\ Monitors!Loading(Monitors!Missing, "none").step = "load"
    BY IdleShape, LoadingShape
  <1>5. PanelShape'
    BY <1>1, <1>2, <1>3, <1>4 DEF PInv, PanelShape, Moves
  <1> QED BY <1>2, <1>3, <1>4, <1>5, FormKept

LEMMA LoadInv ==
  ASSUME PInv, NEW c \in Calls,
         Monitors!Mount(c) \/ Monitors!Poll(c) \/ Monitors!Retry(c) \/ Monitors!Refresh(c)
  PROVE  PInv'
  <1>1. panel \in PanelRow
    BY DEF PInv, PanelShape
  <1>2. /\ Monitors!Click \in PanelRow
        /\ Monitors!Click.form = panel.form /\ Monitors!Click.owner = panel.owner
    BY <1>1 DEF Monitors!Click, PanelRow
  <1>3. /\ [panel EXCEPT !.polling = c] \in PanelRow
        /\ [panel EXCEPT !.polling = c].form = panel.form
        /\ [panel EXCEPT !.polling = c].owner = panel.owner
    BY <1>1 DEF PanelRow, Holder
  <1>4. \/ Monitors!StartLoad(c, panel) \/ Monitors!StartLoad(c, [panel EXCEPT !.polling = c])
        \/ Monitors!StartLoad(c, Monitors!Click)
    BY DEF Monitors!Mount, Monitors!Poll, Monitors!Retry, Monitors!Refresh
  <1> QED BY <1>1, <1>2, <1>3, <1>4, StartLoadInv

\* The buttons that open or leave the form are disabled while it is being saved.
LEMMA BeginEditInv ==
  ASSUME PInv, NEW f \in [open : BOOLEAN, card : CardRow], Monitors!BeginEdit(f)
  PROVE  PInv'
  <1>1. /\ panel.owner = None /\ panel' = [panel EXCEPT !.form = f]
        /\ UNCHANGED <<tasks, call>>
    BY DEF Monitors!BeginEdit
  <1>2. panel' \in PanelRow
    BY <1>1 DEF PInv, PanelShape, PanelRow
  <1>3. \A c \in Calls : call[c].step # "save"
    BY <1>1, NoneIsApart DEF PInv, Monitors!FormStaysLocked
  <1>4. PanelShape' /\ Answers'
    BY <1>1, <1>2 DEF PInv, PanelShape, Answers
  <1>5. Monitors!FormStaysLocked'
    BY <1>1, <1>3 DEF Monitors!FormStaysLocked
  <1> QED BY <1>4, <1>5 DEF PInv

\* A call of the member takes a slot, and of the page what is in p.
Started(c, step, card, p) ==
  /\ PanelShape' /\ panel'.form = p.form /\ panel'.owner = p.owner
  /\ SameList(p, panel') /\ UNCHANGED tasks
  /\ \E row \in CallRow : /\ Moves(c, row)
                         /\ row.step = step /\ row.card = card /\ row.answer = "none"
                         /\ row.got = {}

LEMMA StartCallShape ==
  ASSUME PInv, NEW c \in Calls, NEW step \in {"save", "run", "change", "delete"},
         NEW card \in CardRow, NEW p \in PanelRow, Monitors!StartCall(c, step, card, p)
  PROVE  Started(c, step, card, p)
  <1> DEFINE row  == [Monitors!Idle EXCEPT !.step = step, !.card = card]
             next == [p EXCEPT !.clicks = @ + 1, !.pending = @ \cup ({card.id} \ {0})]
  <1>1. panel' = Monitors!Effect(next) /\ Moves(c, row) /\ UNCHANGED tasks
    BY DEF Monitors!StartCall, Moves
  <1>2. next \in PanelRow /\ next.form = p.form /\ next.owner = p.owner /\ SameList(p, next)
    <2>1. p.clicks + 1 \in Nat
      BY DEF PanelRow
    <2>2. p.pending \cup ({card.id} \ {0}) \in SUBSET Nat
      BY DEF PanelRow, CardRow
    <2>3. ASSUME NEW n \in Nat, NEW S \in SUBSET Nat
          PROVE  /\ [p EXCEPT !.clicks = n, !.pending = S] \in PanelRow
                 /\ [p EXCEPT !.clicks = n, !.pending = S].form = p.form
                 /\ [p EXCEPT !.clicks = n, !.pending = S].owner = p.owner
                 /\ SameList(p, [p EXCEPT !.clicks = n, !.pending = S])
      BY DEF PanelRow, SameList
    <2> QED BY <2>1, <2>2, <2>3
  <1>3. /\ row \in CallRow /\ row.step = step /\ row.card = card /\ row.answer = "none"
        /\ row.got = {}
    BY IdleShape DEF CallRow, Monitors!Idle
  <1> HIDE DEF next, row
  <1>4. /\ panel' \in PanelRow /\ panel'.form = p.form /\ panel'.owner = p.owner
        /\ SameList(p, panel')
    BY <1>1, <1>2, EffectKeeps DEF SameList
  <1>5. PanelShape'
    BY <1>1, <1>3, <1>4 DEF PInv, PanelShape, Moves
  <1> QED BY <1>1, <1>3, <1>4, <1>5 DEF Started

LEMMA SubmitInv == ASSUME PInv, NEW c \in Calls, Monitors!Submit(c) PROVE PInv'
  <1> DEFINE p == [panel EXCEPT !.owner = c]
  <1>1. /\ panel.form.open /\ panel.owner = None
        /\ Monitors!StartCall(c, "save", panel.form.card, p)
    BY DEF Monitors!Submit
  <1>2. panel \in PanelRow /\ call \in [Calls -> CallRow]
    BY DEF PInv, PanelShape
  <1>3. /\ p \in PanelRow /\ panel.form.card \in CardRow
        /\ p.form = panel.form /\ p.owner = c
    BY <1>2 DEF PanelRow, Holder
  <1>4. panel.form = [open |-> TRUE, card |-> panel.form.card]
    BY <1>1, <1>2 DEF PanelRow
  <1> HIDE DEF p
  <1>0. Started(c, "save", panel.form.card, p)
    BY <1>1, <1>3, StartCallShape
  <1>5. PICK row \in CallRow :
          /\ PanelShape' /\ panel'.form = panel.form /\ panel'.owner = c
          /\ Moves(c, row) /\ row.step = "save"
          /\ row.card = panel.form.card /\ row.answer = "none"
    BY <1>0, <1>3 DEF Started
  <1>6. \A d \in Calls : call'[d] = IF d = c THEN row ELSE call[d]
    BY <1>2, <1>5 DEF Moves
  <1>7. \A d \in Calls : call[d].step # "save"
    BY <1>1, NoneIsApart DEF PInv, Monitors!FormStaysLocked
  <1>8. Answers'
    BY <1>5, <1>6 DEF PInv, Answers
  <1>9. Monitors!FormStaysLocked'
    <2> SUFFICES ASSUME NEW d \in Calls, call'[d].step = "save"
                 PROVE  /\ panel'.owner = d
                        /\ panel'.form = [open |-> TRUE, card |-> call'[d].card]
      BY DEF Monitors!FormStaysLocked
    <2>1. d = c
      BY <1>6, <1>7
    <2> QED BY <2>1, <1>4, <1>5, <1>6
  <1> QED BY <1>5, <1>8, <1>9 DEF PInv

LEMMA ActInv ==
  ASSUME PInv, NEW c \in Calls, NEW t \in panel.shown,
         Monitors!Act(c, t, "run") \/ Monitors!Act(c, t, "change") \/ Monitors!Remove(c, t)
  PROVE  PInv'
  <1>1. PICK step \in {"run", "change", "delete"} : Monitors!StartCall(c, step, t, panel)
    BY DEF Monitors!Act, Monitors!Remove
  <1>2. panel \in PanelRow /\ t \in CardRow
    BY DEF PInv, PanelShape, PanelRow
  <1>3. Started(c, step, t, panel)
    BY <1>1, <1>2, StartCallShape
  <1> QED BY <1>3, FormKept DEF Started

LEMMA CardOf ==
  ASSUME NEW id \in 1..MaxTasks, NEW rows \in [1..MaxTasks -> TaskRow]
  PROVE  [id |-> id, rev |-> rows[id].rev, runs |-> rows[id].runs, active |-> rows[id].active]
           \in CardRow
  <1>1. id \in Nat /\ rows[id] \in TaskRow
    BY PageBounds
  <1> QED BY <1>1 DEF TaskRow, CardRow

\* What the server does to a task keeps the shape of its table.
LEMMA ServerShape ==
  ASSUME PanelShape, NEW id \in 1..MaxTasks,
         \/ Monitors!Create(id) \/ Monitors!Change(id)
         \/ Monitors!Enqueue(id) \/ Monitors!Delete(id)
         \/ tasks' = [tasks EXCEPT ![id].active = FALSE]
  PROVE  tasks' \in [1..MaxTasks -> TaskRow]
  <1>1. tasks \in [1..MaxTasks -> TaskRow] /\ tasks[id] \in TaskRow
    BY DEF PanelShape
  <1>2. tasks[id].rev + 1 \in Nat /\ tasks[id].runs + 1 \in Nat
    BY <1>1 DEF TaskRow
  <1>3. ASSUME NEW n \in Nat, NEW row \in TaskRow
        PROVE  /\ [row EXCEPT !.rev = n] \in TaskRow
               /\ [row EXCEPT !.runs = n, !.active = TRUE] \in TaskRow
               /\ [row EXCEPT !.active = FALSE] \in TaskRow
               /\ [row EXCEPT !.deleted = TRUE, !.active = FALSE] \in TaskRow
    BY DEF TaskRow
  <1>4. \E row \in TaskRow : tasks' = [tasks EXCEPT ![id] = row]
    <2>1. CASE Monitors!Create(id)
      <3>1. tasks' = [tasks EXCEPT ![id] = [tasks[id] EXCEPT !.rev = 1]]
        BY <2>1 DEF Monitors!Create
      <3> QED BY <1>1, <1>3, <3>1
    <2>2. CASE Monitors!Change(id)
      <3>1. tasks' = [tasks EXCEPT ![id] = [tasks[id] EXCEPT !.rev = tasks[id].rev + 1]]
        BY <2>2 DEF Monitors!Change
      <3> QED BY <1>1, <1>2, <1>3, <3>1
    <2>3. CASE Monitors!Enqueue(id)
      <3>1. tasks' = [tasks EXCEPT ![id] =
                       [tasks[id] EXCEPT !.runs = tasks[id].runs + 1, !.active = TRUE]]
        BY <1>1, <2>3 DEF Monitors!Enqueue, TaskRow
      <3> QED BY <1>1, <1>2, <1>3, <3>1
    <2>4. CASE Monitors!Delete(id)
      <3>1. tasks' = [tasks EXCEPT ![id] = [tasks[id] EXCEPT !.deleted = TRUE, !.active = FALSE]]
        BY <1>1, <2>4 DEF Monitors!Delete, TaskRow
      <3> QED BY <1>1, <1>3, <3>1
    <2>5. CASE tasks' = [tasks EXCEPT ![id].active = FALSE]
      <3>1. tasks' = [tasks EXCEPT ![id] = [tasks[id] EXCEPT !.active = FALSE]]
        BY <2>5
      <3> QED BY <1>1, <1>3, <3>1
    <2> QED BY <2>1, <2>2, <2>3, <2>4, <2>5
  <1> QED BY <1>1, <1>4

LEMMA OthersInv ==
  ASSUME PInv, NEW id \in 1..MaxTasks, Monitors!OthersChange(id) \/ Monitors!RunEnds(id)
  PROVE  PInv'
  <1>1. tasks' \in [1..MaxTasks -> TaskRow]
    BY ServerShape DEF PInv, Monitors!OthersChange, Monitors!RunEnds
  <1>2. UNCHANGED <<panel, call>>
    BY DEF Monitors!OthersChange, Monitors!RunEnds
  <1> QED BY <1>1, <1>2 DEF PInv, PanelShape, Answers, Monitors!FormStaysLocked

\* An answer is the changed task, or for a load the list.
LEMMA ServeInv == ASSUME PInv, NEW c \in Calls, Monitors!Serve(c) PROVE PInv'
  <1>1. call \in [Calls -> CallRow] /\ call[c] \in CallRow /\ panel \in PanelRow
    BY DEF PInv, PanelShape
  <1>2. ASSUME NEW got \in SUBSET CardRow, tasks' \in [1..MaxTasks -> TaskRow],
               call' = [call EXCEPT ![c].answer = "ok", ![c].got = got],
               got # {} \/ call[c].step = "load"
        PROVE  PInv'
    <2>1. Moves(c, [call[c] EXCEPT !.answer = "ok", !.got = got])
      BY <1>1, <1>2 DEF Moves, CallRow
    <2>2. [call[c] EXCEPT !.answer = "ok", !.got = got] \in CallRow
      BY <1>1 DEF CallRow
    <2>3. /\ [call[c] EXCEPT !.answer = "ok", !.got = got].step = call[c].step
          /\ [call[c] EXCEPT !.answer = "ok", !.got = got].card = call[c].card
          /\ [call[c] EXCEPT !.answer = "ok", !.got = got].got = got
      BY <1>1 DEF CallRow
    <2>4. PanelShape' /\ UNCHANGED panel
      BY <1>1, <1>2, <2>1, <2>2 DEF PanelShape, Moves, Monitors!Serve
    <2> QED BY <1>2, <2>1, <2>2, <2>3, <2>4, FormKept
  <1>3. ASSUME NEW id \in 1..MaxTasks, Monitors!Answer(c, id),
               \/ Monitors!Create(id) \/ Monitors!Change(id)
               \/ Monitors!Enqueue(id) \/ Monitors!Delete(id)
        PROVE  PInv'
    <2>1. tasks' \in [1..MaxTasks -> TaskRow]
      BY <1>3, ServerShape DEF PInv
    <2>2. Monitors!Card(id, tasks'[id]) \in CardRow
      BY <2>1, CardOf DEF Monitors!Card
    <2> QED BY <1>2, <1>3, <2>1, <2>2 DEF Monitors!Answer
  <1>4. CASE /\ call[c].step = "load" /\ UNCHANGED tasks
             /\ call' = [call EXCEPT ![c].answer = "ok", ![c].got = Monitors!List]
    <2>1. Monitors!List \in SUBSET CardRow
      BY CardOf DEF PInv, PanelShape, Monitors!List, Monitors!Card, Monitors!TaskIds
    <2> QED BY <1>2, <1>4, <2>1 DEF PInv, PanelShape
  <1>5. ASSUME Monitors!Current(call[c].card) PROVE call[c].card.id \in 1..MaxTasks
    BY <1>1, <1>5, PageBounds DEF Monitors!Current, CallRow, CardRow
  <1> QED BY <1>3, <1>4, <1>5 DEF Monitors!Serve, Monitors!TaskIds

LEMMA RefuseInv == ASSUME PInv, NEW c \in Calls, Monitors!Refuse(c) PROVE PInv'
  <1> DEFINE row == [call[c] EXCEPT !.answer = "refused"]
  <1>1. call \in [Calls -> CallRow] /\ call[c] \in CallRow
    BY DEF PInv, PanelShape
  <1>2. Moves(c, row) /\ UNCHANGED <<tasks, panel>>
    BY <1>1 DEF Monitors!Refuse, Moves
  <1>3. row \in CallRow /\ row.step = call[c].step /\ row.card = call[c].card /\ row.answer = "refused"
    BY <1>1 DEF CallRow
  <1> HIDE DEF row
  <1>4. PanelShape'
    BY <1>1, <1>2, <1>3 DEF PInv, PanelShape, Moves
  <1> QED BY <1>2, <1>3, <1>4, FormKept

\* The cleanup of a call unlocks the form only if the call holds it.
Unlocks(p, q, c) == /\ q \in PanelRow /\ q.form = p.form
                    /\ q.owner = p.owner \/ (q.owner = None /\ p.owner = c)
Released(p, q, c) == Unlocks(p, q, c) /\ SameList(p, q)

LEMMA ReleaseShape ==
  ASSUME NEW c \in Calls, NEW p \in PanelRow
  PROVE  Released(p, Monitors!ReleaseForm(p, c), c)
  <1>1. CASE p.owner = c
    <2>1. Monitors!ReleaseForm(p, c) = [p EXCEPT !.owner = None]
      BY <1>1 DEF Monitors!ReleaseForm
    <2>2. [p EXCEPT !.owner = None] \in PanelRow
      BY DEF PanelRow, Holder
    <2>3. /\ [p EXCEPT !.owner = None].form = p.form /\ [p EXCEPT !.owner = None].owner = None
          /\ SameList(p, [p EXCEPT !.owner = None])
      BY DEF PanelRow, SameList
    <2> QED BY <1>1, <2>1, <2>2, <2>3, Zenon DEF Released, Unlocks
  <1>2. CASE p.owner # c
    BY <1>2, Zenon DEF Monitors!ReleaseForm, Released, Unlocks, SameList
  <1> QED BY <1>1, <1>2

LEMMA FinishedShape ==
  ASSUME NEW c \in Calls, NEW p \in PanelRow
  PROVE  Released(p, Monitors!Finished(p, c), c)
  <1> DEFINE q == Monitors!ReleaseForm(p, c)
             n == [q EXCEPT !.pending = @ \ {call[c].card.id}]
  <1>1. Released(p, q, c)
    BY ReleaseShape
  <1>2. Monitors!Finished(p, c) = n
    BY DEF Monitors!Finished
  <1> HIDE DEF q
  <1>3. q \in PanelRow
    BY <1>1 DEF Released, Unlocks
  <1>4. n \in PanelRow /\ n.form = q.form /\ n.owner = q.owner /\ SameList(q, n)
    BY <1>3 DEF PanelRow, SameList
  <1> HIDE DEF n
  <1> QED BY <1>1, <1>2, <1>4, Zenon DEF Released, Unlocks, SameList

\* A call that fails goes on with a load, and keeps what it locked until that ends.
LEMMA CallFailsInv ==
  ASSUME PInv, NEW c \in Calls, NEW error \in {"refused", "offline"},
         Monitors!CallFails(c, error), UNCHANGED tasks
  PROVE  PInv'
  <1> DEFINE row == Monitors!Loading(call[c].card, error)
  <1>1. call \in [Calls -> CallRow] /\ call[c].card \in CardRow /\ panel \in PanelRow
    BY DEF PInv, PanelShape, CallRow
  <1>2. Moves(c, row) /\ panel' = [panel EXCEPT !.latest = c]
    BY <1>1 DEF Monitors!CallFails, Moves
  <1>3. row \in CallRow /\ row.step = "load"
    BY <1>1, LoadingShape
  <1>4. panel' \in PanelRow /\ panel'.form = panel.form /\ panel'.owner = panel.owner
    BY <1>1, <1>2 DEF PanelRow, Holder
  <1> HIDE DEF row
  <1>5. PanelShape'
    BY <1>1, <1>2, <1>3, <1>4 DEF PInv, PanelShape, Moves
  <1> QED BY <1>2, <1>3, <1>4, <1>5, FormKept

\* The end of a call, whose slot is free again.
LEMMA EndsInv ==
  ASSUME PInv, NEW c \in Calls, NEW p \in PanelRow, UNCHANGED tasks,
         panel' = Monitors!Effect(p), Unlocks(panel, p, c),
         call' = [call EXCEPT ![c] = Monitors!Idle]
  PROVE  PInv'
  <1>1. call \in [Calls -> CallRow]
    BY DEF PInv, PanelShape
  <1>2. panel' \in PanelRow /\ panel'.form = p.form /\ panel'.owner = p.owner
    BY EffectKeeps
  <1>3. Monitors!Idle \in CallRow /\ Monitors!Idle.step = "none" /\ Monitors!Idle.answer = "none"
    BY IdleShape DEF Monitors!Idle
  <1>4. PanelShape' /\ Moves(c, Monitors!Idle)
    BY <1>1, <1>2, <1>3 DEF PInv, PanelShape, Moves
  <1> QED BY <1>2, <1>3, <1>4, FormKept DEF Unlocks

LEMMA LoadEndsInv ==
  ASSUME PInv, NEW c \in Calls, NEW ok \in BOOLEAN, Monitors!LoadEnds(c, ok), UNCHANGED tasks
  PROVE  PInv'
  <1>1. panel \in PanelRow /\ call[c].got \in SUBSET CardRow
    BY DEF PInv, PanelShape, CallRow
  <1>2. ASSUME NEW shown \in SUBSET CardRow, NEW loaded \in BOOLEAN, NEW error \in BOOLEAN,
               NEW polling \in Holder, NEW latest \in Holder, NEW failed \in BOOLEAN,
               NEW q, q = [panel EXCEPT !.shown = shown, !.loaded = loaded, !.error = error,
                             !.polling = polling, !.latest = latest, !.pollFailed = failed],
               panel' = Monitors!Effect(Monitors!Finished(q, c))
        PROVE  PInv'
    <2>1. q \in PanelRow /\ q.form = panel.form /\ q.owner = panel.owner
      BY <1>1, <1>2 DEF PanelRow
    <2>2. Released(q, Monitors!Finished(q, c), c)
      BY <2>1, FinishedShape
    <2>3. Unlocks(panel, Monitors!Finished(q, c), c) /\ Monitors!Finished(q, c) \in PanelRow
      BY <2>1, <2>2 DEF Released, Unlocks
    <2>4. call' = [call EXCEPT ![c] = Monitors!Idle]
      BY DEF Monitors!LoadEnds
    <2> QED BY <1>2, <2>3, <2>4, EndsInv
  <1> DEFINE shown   == IF Monitors!Shown(c, ok) THEN call[c].got ELSE panel.shown
             loaded  == panel.loaded \/ Monitors!Shown(c, ok)
             error   == ~panel.loaded /\ ~Monitors!Shown(c, ok) /\ (panel.error \/ ~ok)
             polling == IF panel.polling = c THEN None ELSE panel.polling
             latest  == IF panel.latest = c THEN None ELSE panel.latest
             failed  == \/ call[c].error = "offline"
                        \/ ~ok /\ call[c].error = "none" /\ (panel.loaded \/ panel.error)
                        \/ panel.pollFailed /\ ~Monitors!Shown(c, ok)
  <1>3. shown \in SUBSET CardRow /\ polling \in Holder /\ latest \in Holder
    BY <1>1 DEF PanelRow, Holder
  <1>4. loaded \in BOOLEAN /\ error \in BOOLEAN /\ failed \in BOOLEAN
    BY Zenon
  <1>5. panel' = Monitors!Effect(Monitors!Finished(
                   [panel EXCEPT !.shown = shown, !.loaded = loaded, !.error = error,
                      !.polling = polling, !.latest = latest, !.pollFailed = failed], c))
    BY Zenon DEF Monitors!LoadEnds
  <1> HIDE DEF shown, loaded, error, polling, latest, failed
  <1> QED BY <1>2, <1>3, <1>4, <1>5

LEMMA TheCardShape ==
  ASSUME PInv, NEW c \in Calls, call[c].answer = "ok", call[c].step # "load"
  PROVE  Monitors!TheCard(c) \in CardRow
  <1>1. call[c].got # {} /\ call[c].got \subseteq CardRow
    BY DEF PInv, PanelShape, Answers, CallRow
  <1> QED BY <1>1 DEF Monitors!TheCard

\* A save that was answered: nobody else was saving, and its task is interpreted.
LEMMA SavedInv ==
  ASSUME PInv, NEW c \in Calls, call[c].answer = "ok", call[c].step = "save",
         Monitors!Saved(c), UNCHANGED tasks
  PROVE  PInv'
  <1> DEFINE t   == Monitors!TheCard(c)
             u   == Monitors!Upsert(panel, t)
             q   == Monitors!ReleaseForm(u, c)
             n   == [q EXCEPT !.pending = @ \cup {t.id}, !.form = Monitors!NoForm]
             row == [Monitors!Idle EXCEPT !.step = "run", !.card = t]
  <1>1. t \in CardRow
    BY TheCardShape
  <1>2. panel' = Monitors!Effect(n) /\ call' = [call EXCEPT ![c] = row]
    BY DEF Monitors!Saved
  <1> HIDE DEF t
  <1>3. panel \in PanelRow /\ call \in [Calls -> CallRow]
    BY DEF PInv, PanelShape
  <1>4. u \in PanelRow
    <2>1. Monitors!Without(panel, t.id) \cup {t} \in SUBSET CardRow
      BY <1>1, <1>3 DEF Monitors!Without, PanelRow
    <2> QED BY <1>3, <2>1 DEF Monitors!Upsert, PanelRow, Holder
  <1> HIDE DEF u
  <1>5. q \in PanelRow
    BY <1>4, ReleaseShape DEF Released, Unlocks
  <1> HIDE DEF q
  <1>6. n \in PanelRow
    <2>1. Monitors!NoForm \in [open : BOOLEAN, card : CardRow]
      BY IdleShape DEF Monitors!NoForm
    <2>2. q.pending \cup {t.id} \in SUBSET Nat
      BY <1>1, <1>5, PageBounds DEF PanelRow, CardRow
    <2>3. ASSUME NEW S \in SUBSET Nat
          PROVE  [q EXCEPT !.pending = S, !.form = Monitors!NoForm] \in PanelRow
      BY <1>5, <2>1 DEF PanelRow
    <2> QED BY <2>2, <2>3
  <1> HIDE DEF n
  <1>7. row \in CallRow /\ row.step = "run" /\ row.answer = "none"
    BY <1>1, IdleShape DEF CallRow, Monitors!Idle
  <1> HIDE DEF row
  <1>8. panel' \in PanelRow
    BY <1>2, <1>6, EffectKeeps
  <1>9. \A d \in Calls : call'[d] = IF d = c THEN row ELSE call[d]
    BY <1>2, <1>3
  <1>10. PanelShape'
    BY <1>2, <1>3, <1>7, <1>8 DEF PInv, PanelShape
  <1>11. Answers'
    BY <1>7, <1>9 DEF PInv, Answers
  <1>12. Monitors!FormStaysLocked'
    <2>1. \A d \in Calls : d # c => call[d].step # "save"
      BY DEF PInv, Monitors!FormStaysLocked
    <2> QED BY <1>7, <1>9, <2>1 DEF Monitors!FormStaysLocked
  <1> QED BY <1>10, <1>11, <1>12 DEF PInv

LEMMA ActedInv ==
  ASSUME PInv, NEW c \in Calls, call[c].answer = "ok", call[c].step \in {"run", "change"},
         Monitors!Acted(c), UNCHANGED tasks
  PROVE  PInv'
  <1> DEFINE t   == Monitors!TheCard(c)
             p   == IF call[c].step = "run" THEN Monitors!AcceptRun(panel, t) ELSE panel
             row == Monitors!Loading(call[c].card, "none")
  <1>1. t \in CardRow
    BY TheCardShape
  <1>2. panel \in PanelRow /\ call \in [Calls -> CallRow] /\ call[c].card \in CardRow
    BY DEF PInv, PanelShape, CallRow
  <1>3. panel' = Monitors!Effect([p EXCEPT !.latest = c]) /\ Moves(c, row)
    BY <1>2 DEF Monitors!Acted, Moves
  <1> HIDE DEF t
  <1>4. p \in PanelRow /\ p.form = panel.form /\ p.owner = panel.owner
    <2>1. ASSUME NEW S \in SUBSET CardRow
          PROVE  /\ [panel EXCEPT !.shown = S] \in PanelRow
                 /\ [panel EXCEPT !.shown = S].form = panel.form
                 /\ [panel EXCEPT !.shown = S].owner = panel.owner
      BY <1>2 DEF PanelRow
    <2>2. ASSUME NEW s \in CardRow
          PROVE  [s EXCEPT !.runs = t.runs, !.active = t.active] \in CardRow
      BY <1>1 DEF CardRow
    <2>3. {IF s.id = t.id THEN [s EXCEPT !.runs = t.runs, !.active = t.active] ELSE s
             : s \in panel.shown} \in SUBSET CardRow
      <3>1. panel.shown \subseteq CardRow
        BY <1>2 DEF PanelRow
      <3>2. \A s \in panel.shown :
              (IF s.id = t.id THEN [s EXCEPT !.runs = t.runs, !.active = t.active] ELSE s) \in CardRow
        BY <2>2, <3>1
      <3> QED BY <3>2, Zenon
    <2>4. CASE call[c].step = "run"
      BY <2>1, <2>3, <2>4 DEF Monitors!AcceptRun
    <2> QED BY <1>2, <2>4
  <1> HIDE DEF p
  <1>5. /\ [p EXCEPT !.latest = c] \in PanelRow /\ [p EXCEPT !.latest = c].form = panel.form
        /\ [p EXCEPT !.latest = c].owner = panel.owner
    BY <1>4 DEF PanelRow, Holder
  <1>6. panel' \in PanelRow /\ panel'.form = panel.form /\ panel'.owner = panel.owner
    BY <1>3, <1>5, EffectKeeps
  <1>7. row \in CallRow /\ row.step = "load"
    BY <1>2, LoadingShape
  <1> HIDE DEF row
  <1>8. PanelShape'
    BY <1>2, <1>3, <1>6, <1>7 DEF PInv, PanelShape, Moves
  <1> QED BY <1>3, <1>6, <1>7, <1>8, FormKept

LEMMA RemovedInv ==
  ASSUME PInv, NEW c \in Calls, call[c].answer = "ok", call[c].step = "delete",
         Monitors!Removed(c), UNCHANGED tasks
  PROVE  PInv'
  <1> DEFINE q == [panel EXCEPT !.latest = None, !.shown = Monitors!Without(panel, call[c].card.id),
                                !.removed = @ \cup {call[c].card.id}]
             n == Monitors!Finished(q, c)
  <1>1. panel' = Monitors!Effect(n) /\ call' = [call EXCEPT ![c] = Monitors!Idle]
    BY DEF Monitors!Removed
  <1>2. q \in PanelRow /\ q.form = panel.form /\ q.owner = panel.owner
    <2>1. panel \in PanelRow /\ call[c].card \in CardRow
      BY DEF PInv, PanelShape, CallRow
    <2>2. Monitors!Without(panel, call[c].card.id) \in SUBSET CardRow
      BY <2>1 DEF Monitors!Without, PanelRow
    <2>3. panel.removed \cup {call[c].card.id} \in SUBSET Nat
      BY <2>1, PageBounds DEF PanelRow, CardRow
    <2>4. ASSUME NEW S \in SUBSET CardRow, NEW R \in SUBSET Nat, NEW r,
                 r = [panel EXCEPT !.latest = None, !.shown = S, !.removed = R]
          PROVE  r \in PanelRow /\ r.form = panel.form /\ r.owner = panel.owner
      BY <2>1, <2>4 DEF PanelRow, Holder
    <2> QED BY <2>2, <2>3, <2>4
  <1> HIDE DEF q
  <1>3. n \in PanelRow /\ Unlocks(panel, n, c)
    BY <1>2, FinishedShape DEF Released, Unlocks
  <1> HIDE DEF n
  <1> QED BY <1>1, <1>3, EndsInv

LEMMA ReceiveInv == ASSUME PInv, NEW c \in Calls, Monitors!Receive(c) \/ Monitors!GiveUp(c) PROVE PInv'
  <1>1. CASE Monitors!Receive(c)
    BY <1>1, CallFailsInv, SavedInv, ActedInv, RemovedInv, LoadEndsInv DEF Monitors!Receive
  <1>2. CASE Monitors!GiveUp(c)
    BY <1>2, CallFailsInv, LoadEndsInv DEF Monitors!GiveUp
  <1> QED BY <1>1, <1>2

LEMMA PanelInductive == PInv /\ [Monitors!PanelNext]_MonitorsVars => PInv'
  <1> SUFFICES ASSUME PInv, [Monitors!PanelNext]_MonitorsVars PROVE PInv'
    OBVIOUS
  <1>1. CASE UNCHANGED MonitorsVars
    BY <1>1 DEF MonitorsVars, PInv, PanelShape, Answers, Monitors!FormStaysLocked
  <1>2. Monitors!Missing \in CardRow /\ panel.shown \subseteq CardRow
    BY IdleShape DEF PInv, PanelShape, PanelRow
  <1>3. ASSUME Monitors!New \/ Monitors!Cancel \/ \E t \in panel.shown : Monitors!Edit(t)
        PROVE  PInv'
    <2>1. \A card \in CardRow, open \in BOOLEAN :
            [open |-> open, card |-> card] \in [open : BOOLEAN, card : CardRow]
      OBVIOUS
    <2>2. CASE Monitors!New
      BY <1>2, <2>1, <2>2, BeginEditInv DEF Monitors!New
    <2>3. CASE Monitors!Cancel
      BY <1>2, <2>1, <2>3, BeginEditInv DEF Monitors!Cancel, Monitors!NoForm
    <2>4. CASE \E t \in panel.shown : Monitors!Edit(t)
      BY <1>2, <2>1, <2>4, BeginEditInv DEF Monitors!Edit
    <2> QED BY <1>3, <2>2, <2>3, <2>4
  <1>4. ASSUME NEW c \in Calls,
               \/ Monitors!Mount(c) \/ Monitors!Poll(c) \/ Monitors!Retry(c)
               \/ Monitors!Refresh(c) \/ Monitors!Submit(c)
               \/ \E t \in panel.shown : \/ Monitors!Act(c, t, "run") \/ Monitors!Act(c, t, "change")
                                        \/ Monitors!Remove(c, t)
               \/ Monitors!Serve(c) \/ Monitors!Refuse(c) \/ Monitors!Receive(c)
               \/ Monitors!GiveUp(c)
        PROVE  PInv'
    BY <1>4, LoadInv, SubmitInv, ActInv, ServeInv, RefuseInv, ReceiveInv
  <1>5. ASSUME NEW id \in 1..MaxTasks, Monitors!OthersChange(id) \/ Monitors!RunEnds(id)
        PROVE  PInv'
    BY <1>5, OthersInv
  <1> QED BY <1>1, <1>3, <1>4, <1>5 DEF Monitors!PanelNext, Monitors!TaskIds

\* Whatever calls of the page are under way, refused, answered late or given up, a form
\* that is being saved stays locked by that save and shows what is being saved.
THEOREM FormStaysLockedHolds == MCSpec => []FormStaysLocked
  <1>1. MCInit => PInv
    BY PanelInit DEF MCInit
  <1>2. PInv /\ [MCNext]_MCVars => PInv'
    BY PanelInductive DEF MCNext, MCVars, MonitorsVars
  <1>3. PInv => FormStaysLocked
    BY DEF PInv, FormStaysLocked
  <1> QED BY <1>1, <1>2, <1>3, PTL DEF MCSpec

-----------------------------------------------------------------------------
(* The list of the page *)

\* The server is not behind what a card says of its task.
Reached(t) == t.id # 0 /\ Monitors!NotOlder(tasks[t.id], t)

\* A list that may be shown in the place of the one that is.
Fits(got, p) ==
  \A new \in got : /\ new.id \notin p.removed
                   /\ \A old \in p.shown : new.id = old.id => Monitors!NotOlder(new, old)

\* The server is ahead of everything the page shows or was answered, and what the page
\* removed is gone.
Behind ==
  /\ \A t \in panel.shown : Reached(t)
  /\ \A c \in Calls : \A t \in call[c].got : Reached(t)
  /\ \A id \in panel.removed : id \in 1..MaxTasks /\ tasks[id].deleted
  /\ \A c \in Calls : call[c].step = "delete" /\ call[c].answer = "ok"
       => call[c].card.id # 0 /\ tasks[call[c].card.id].deleted

\* The load that was started last, and that no change of the list has overtaken, was
\* answered with a list that may be shown.
Current(c, row, p) == p.latest = c /\ row.step = "load" /\ row.answer = "ok" => Fits(row.got, p)

ListInv == Behind /\ \A c \in Calls : Current(c, call[c], panel)

\* The server only goes on.
TasksGoOn == \A id \in 1..MaxTasks : /\ Monitors!NotOlder(tasks'[id], tasks[id])
                                     /\ tasks[id].deleted => tasks'[id].deleted

LEMMA NotOlderTransitive ==
  ASSUME NEW a \in TaskRow, NEW b \in TaskRow, NEW t \in CardRow,
         Monitors!NotOlder(a, b), Monitors!NotOlder(b, t)
  PROVE  Monitors!NotOlder(a, t)
  <1>1. /\ a.rev \in Nat /\ b.rev \in Nat /\ t.rev \in Nat
        /\ a.runs \in Nat /\ b.runs \in Nat /\ t.runs \in Nat
    BY DEF TaskRow, CardRow
  <1>2. a.rev >= b.rev /\ b.rev >= t.rev /\ a.runs >= b.runs /\ b.runs >= t.runs
    BY DEF Monitors!NotOlder
  <1>3. a.rev >= t.rev /\ a.runs >= t.runs
    BY <1>1, <1>2
  <1>4. ASSUME a.runs = t.runs PROVE a.runs = b.runs /\ b.runs = t.runs
    BY <1>1, <1>2, <1>4
  <1>5. a.runs = t.runs /\ a.active => t.active
    BY <1>4, Zenon DEF Monitors!NotOlder
  <1> QED BY <1>3, <1>5, Zenon DEF Monitors!NotOlder

LEMMA ReachedKept ==
  ASSUME PInv, PInv', TasksGoOn, NEW t \in CardRow, Reached(t)
  PROVE  Reached(t)'
  <1>1. t.id \in 1..MaxTasks
    BY PageBounds DEF Reached, CardRow
  <1>2. tasks[t.id] \in TaskRow /\ tasks'[t.id] \in TaskRow
    BY <1>1 DEF PInv, PanelShape
  <1> QED BY <1>1, <1>2, NotOlderTransitive DEF Reached, TasksGoOn

\* A list that a load brings fits the one that was shown.
ListStep == \A c \in Calls :
  call[c].step = "load" /\ call'[c] = Monitors!Idle /\ panel'.shown # panel.shown
    => Fits(panel'.shown, panel)

\* One call moves: what it was answered and what it makes the page show is reached, and
\* if it changes the list, no other load may.
LEMMA ListKept ==
  ASSUME PInv, PInv', ListInv, TasksGoOn,
         NEW c \in Calls, NEW row \in CallRow, Moves(c, row),
         \A t \in row.got : t \in CardRow /\ Reached(t)',
         row.step = "delete" /\ row.answer = "ok" =>
           row.card.id # 0 /\ tasks'[row.card.id].deleted,
         Current(c, row, panel'),
         \A id \in panel'.removed : id \in panel.removed \/ (id \in 1..MaxTasks /\ tasks'[id].deleted),
         \A t \in panel'.shown : t \in panel.shown \/ Reached(t)',
         panel'.latest \in {c, None} \/ SameList(panel, panel'),
         panel'.shown = panel.shown \/ call[c].step # "load" \/ Fits(panel'.shown, panel)
  PROVE  ListInv' /\ ListStep
  <1>1. \A d \in Calls : call'[d] = IF d = c THEN row ELSE call[d]
    BY DEF PInv, PanelShape, Moves
  <1>2. /\ panel.shown \subseteq CardRow /\ panel'.shown \subseteq CardRow
        /\ \A d \in Calls : call[d].got \subseteq CardRow /\ call[d].card \in CardRow
    BY DEF PInv, PanelShape, PanelRow, CallRow
  <1>3. \A t \in panel'.shown : Reached(t)'
    BY <1>2, ReachedKept DEF ListInv, Behind
  <1>4. \A d \in Calls : \A t \in call'[d].got : Reached(t)'
    BY <1>1, <1>2, ReachedKept DEF ListInv, Behind
  <1>5. \A id \in panel'.removed : id \in 1..MaxTasks /\ tasks'[id].deleted
    BY DEF ListInv, Behind, TasksGoOn
  <1>6. ASSUME NEW d \in Calls, call'[d].step = "delete", call'[d].answer = "ok"
        PROVE  call'[d].card.id # 0 /\ tasks'[call'[d].card.id].deleted
    <2>1. CASE d = c
      BY <1>1, <1>6, <2>1
    <2>2. CASE d # c
      <3>1. call'[d] = call[d]
        BY <1>1, <2>2
      <3>2. call[d].card.id # 0 /\ tasks[call[d].card.id].deleted
        BY <1>6, <3>1 DEF ListInv, Behind
      <3>3. call[d].card.id \in 1..MaxTasks
        BY <1>2, <3>2, PageBounds DEF CardRow
      <3> QED BY <3>1, <3>2, <3>3 DEF TasksGoOn
    <2> QED BY <2>1, <2>2
  <1>7. ASSUME NEW d \in Calls PROVE Current(d, call'[d], panel')
    <2>1. CASE d = c
      BY <1>1, <2>1
    <2>2. CASE d # c /\ panel'.latest \in {c, None}
      BY <2>2, NoneIsApart DEF Current
    <2>3. CASE d # c /\ SameList(panel, panel')
      <3>1. Current(d, call[d], panel) /\ call'[d] = call[d]
        BY <1>1, <2>3 DEF ListInv
      <3> QED BY <2>3, <3>1 DEF Current, Fits, SameList
    <2> QED BY <2>1, <2>2, <2>3
  <1>8. Behind'
    BY <1>3, <1>4, <1>5, <1>6 DEF Behind
  <1>9. ListStep
    BY <1>1 DEF ListStep, Monitors!Idle
  <1> QED BY <1>7, <1>8, <1>9 DEF ListInv

\* Nothing happens to the tasks, and so that what was reached remains so.
LEMMA Standing ==
  ASSUME PInv, UNCHANGED tasks
  PROVE  TasksGoOn /\ \A t : Reached(t)' <=> Reached(t)
  <1>1. ASSUME NEW id \in 1..MaxTasks PROVE Monitors!NotOlder(tasks[id], tasks[id])
    <2>1. tasks[id].rev \in Nat /\ tasks[id].runs \in Nat
      BY DEF PInv, PanelShape, TaskRow
    <2> QED BY <2>1 DEF Monitors!NotOlder
  <1> QED BY <1>1 DEF TasksGoOn, Reached

LEMMA InitList == Monitors!PanelInit => ListInv
  BY DEF Monitors!PanelInit, Monitors!Idle, ListInv, Behind, Current

LEMMA StartLoadList ==
  ASSUME PInv, PInv', ListInv, NEW c \in Calls, NEW p \in PanelRow, Monitors!StartLoad(c, p),
         p.shown = panel.shown, p.removed = panel.removed
  PROVE  ListInv' /\ ListStep
  <1> DEFINE row == Monitors!Loading(Monitors!Missing, "none")
  <1>1. panel' = [p EXCEPT !.latest = c] /\ UNCHANGED tasks /\ Moves(c, row)
    BY DEF Monitors!StartLoad, Moves
  <1>2. panel'.latest = c /\ panel'.shown = panel.shown /\ panel'.removed = panel.removed
    BY <1>1 DEF PanelRow
  <1>3. /\ row \in CallRow /\ row.step = "load" /\ row.answer = "none" /\ row.got = {}
    BY IdleShape, LoadingShape DEF Monitors!Loading, Monitors!Idle
  <1> HIDE DEF row
  <1>4. Current(c, row, panel')
    BY <1>3 DEF Current
  <1> QED BY <1>1, <1>2, <1>3, <1>4, Standing, ListKept

LEMMA LoadList ==
  ASSUME PInv, PInv', ListInv, NEW c \in Calls,
         Monitors!Mount(c) \/ Monitors!Poll(c) \/ Monitors!Retry(c) \/ Monitors!Refresh(c)
  PROVE  ListInv' /\ ListStep
  <1>1. panel \in PanelRow
    BY DEF PInv, PanelShape
  <1>2. /\ Monitors!Click \in PanelRow
        /\ Monitors!Click.shown = panel.shown /\ Monitors!Click.removed = panel.removed
    BY <1>1 DEF Monitors!Click, PanelRow
  <1>3. /\ [panel EXCEPT !.polling = c] \in PanelRow
        /\ [panel EXCEPT !.polling = c].shown = panel.shown
        /\ [panel EXCEPT !.polling = c].removed = panel.removed
    BY <1>1 DEF PanelRow, Holder
  <1>4. \/ Monitors!StartLoad(c, panel) \/ Monitors!StartLoad(c, [panel EXCEPT !.polling = c])
        \/ Monitors!StartLoad(c, Monitors!Click)
    BY DEF Monitors!Mount, Monitors!Poll, Monitors!Retry, Monitors!Refresh
  <1> QED BY <1>1, <1>2, <1>3, <1>4, StartLoadList

LEMMA BeginEditList ==
  ASSUME PInv, PInv', ListInv, NEW f, Monitors!BeginEdit(f)
  PROVE  ListInv' /\ ListStep
  <1>1. panel' = [panel EXCEPT !.form = f] /\ UNCHANGED <<tasks, call>>
    BY DEF Monitors!BeginEdit
  <1>2. SameList(panel, panel')
    BY <1>1 DEF PInv, PanelShape, PanelRow, SameList
  <1> QED BY <1>1, <1>2 DEF ListInv, Behind, Current, Fits, Reached, SameList, ListStep

LEMMA StartedList ==
  ASSUME PInv, PInv', ListInv, NEW c \in Calls, NEW step \in {"save", "run", "change", "delete"},
         NEW card, NEW p, SameList(panel, p), Started(c, step, card, p)
  PROVE  ListInv' /\ ListStep
  <1>1. PICK row \in CallRow : /\ Moves(c, row) /\ row.answer = "none" /\ row.got = {}
                              /\ SameList(panel, panel') /\ UNCHANGED tasks
    BY DEF Started, SameList
  <1>2. Current(c, row, panel')
    BY <1>1 DEF Current
  <1>3. panel'.shown = panel.shown /\ panel'.removed = panel.removed
    BY <1>1 DEF SameList
  <1> QED BY <1>1, <1>2, <1>3, Standing, ListKept

LEMMA ClicksList ==
  ASSUME PInv, PInv', ListInv, NEW c \in Calls,
         \/ Monitors!Submit(c)
         \/ \E t \in panel.shown : \/ Monitors!Act(c, t, "run") \/ Monitors!Act(c, t, "change")
                                  \/ Monitors!Remove(c, t)
  PROVE  ListInv' /\ ListStep
  <1> DEFINE p == [panel EXCEPT !.owner = c]
  <1>1. panel \in PanelRow /\ panel.shown \subseteq CardRow /\ panel.form.card \in CardRow
    BY DEF PInv, PanelShape, PanelRow
  <1>2. p \in PanelRow /\ SameList(panel, p) /\ SameList(panel, panel)
    BY <1>1 DEF PanelRow, Holder, SameList
  <1>3. CASE Monitors!Submit(c)
    <2>1. Monitors!StartCall(c, "save", panel.form.card, p)
      BY <1>3 DEF Monitors!Submit
    <2> HIDE DEF p
    <2>2. Started(c, "save", panel.form.card, p)
      BY <1>1, <1>2, <2>1, StartCallShape
    <2> QED BY <1>2, <2>2, StartedList
  <1>4. ASSUME NEW t \in panel.shown,
               \/ Monitors!Act(c, t, "run") \/ Monitors!Act(c, t, "change") \/ Monitors!Remove(c, t)
        PROVE  ListInv' /\ ListStep
    <2>1. PICK step \in {"run", "change", "delete"} : Monitors!StartCall(c, step, t, panel)
      BY <1>4 DEF Monitors!Act, Monitors!Remove
    <2>2. Started(c, step, t, panel)
      BY <1>1, <2>1, StartCallShape
    <2> QED BY <1>2, <2>2, StartedList
  <1> QED BY <1>3, <1>4

\* What the server does to one task takes no task back.
LEMMA ServerGoesOn ==
  ASSUME PInv, NEW id \in 1..MaxTasks,
         \/ Monitors!Create(id) \/ Monitors!Change(id)
         \/ Monitors!Enqueue(id) \/ Monitors!Delete(id)
         \/ tasks' = [tasks EXCEPT ![id].active = FALSE]
  PROVE  TasksGoOn
  <1>1. tasks \in [1..MaxTasks -> TaskRow] /\ tasks[id] \in TaskRow
    BY DEF PInv, PanelShape
  <1>2. tasks[id].rev \in Nat /\ tasks[id].runs \in Nat
    BY <1>1 DEF TaskRow
  <1>3. ASSUME NEW i \in 1..MaxTasks
        PROVE  Monitors!NotOlder(tasks[i], tasks[i])
    <2>1. tasks[i].rev \in Nat /\ tasks[i].runs \in Nat
      BY <1>1 DEF TaskRow
    <2> QED BY <2>1 DEF Monitors!NotOlder
  <1>4. ASSUME NEW row, tasks' = [tasks EXCEPT ![id] = row], Monitors!NotOlder(row, tasks[id]),
               tasks[id].deleted => row.deleted
        PROVE  TasksGoOn
    <2> SUFFICES ASSUME NEW i \in 1..MaxTasks
                 PROVE  /\ Monitors!NotOlder(tasks'[i], tasks[i])
                        /\ tasks[i].deleted => tasks'[i].deleted
      BY DEF TasksGoOn
    <2>1. CASE i = id
      <3>1. tasks'[i] = row
        BY <1>1, <1>4, <2>1
      <3> QED BY <1>4, <2>1, <3>1
    <2>2. CASE i # id
      <3>1. tasks'[i] = tasks[i]
        BY <1>1, <1>4, <2>2
      <3> QED BY <1>3, <3>1
    <2> QED BY <2>1, <2>2
  <1>5. ASSUME NEW n \in Nat, NEW row, n >= tasks[id].rev, row = [tasks[id] EXCEPT !.rev = n]
        PROVE  Monitors!NotOlder(row, tasks[id]) /\ (tasks[id].deleted => row.deleted)
    <2>1. /\ row.rev = n /\ row.runs = tasks[id].runs /\ row.active = tasks[id].active
          /\ row.deleted = tasks[id].deleted
      BY <1>1, <1>5 DEF TaskRow
    <2>2. row.rev >= tasks[id].rev /\ row.runs >= tasks[id].runs
      BY <1>2, <1>5, <2>1
    <2> QED BY <2>1, <2>2, Zenon DEF Monitors!NotOlder
  <1>6. CASE Monitors!Create(id)
    <2>1. tasks' = [tasks EXCEPT ![id] = [tasks[id] EXCEPT !.rev = 1]] /\ 1 >= tasks[id].rev
      BY <1>6 DEF Monitors!Create
    <2> QED BY <1>4, <1>5, <2>1
  <1>7. CASE Monitors!Change(id)
    <2>1. tasks' = [tasks EXCEPT ![id] = [tasks[id] EXCEPT !.rev = tasks[id].rev + 1]]
      BY <1>7 DEF Monitors!Change
    <2>2. tasks[id].rev + 1 \in Nat /\ tasks[id].rev + 1 >= tasks[id].rev
      BY <1>2
    <2> QED BY <1>4, <1>5, <2>1, <2>2
  <1>8. CASE Monitors!Enqueue(id)
    <2> DEFINE row == [tasks[id] EXCEPT !.runs = tasks[id].runs + 1, !.active = TRUE]
    <2>1. tasks' = [tasks EXCEPT ![id] = row]
      BY <1>1, <1>8 DEF Monitors!Enqueue, TaskRow
    <2>2. /\ row.rev = tasks[id].rev /\ row.runs = tasks[id].runs + 1
          /\ row.deleted = tasks[id].deleted
      BY <1>1 DEF TaskRow
    <2> HIDE DEF row
    <2>3. row.rev >= tasks[id].rev /\ row.runs >= tasks[id].runs /\ row.runs # tasks[id].runs
      BY <1>2, <2>2
    <2>4. Monitors!NotOlder(row, tasks[id])
      BY <2>3, Zenon DEF Monitors!NotOlder
    <2> QED BY <1>4, <2>1, <2>2, <2>4
  <1>9. ASSUME NEW row, tasks' = [tasks EXCEPT ![id] = row],
               row.rev = tasks[id].rev, row.runs = tasks[id].runs, ~row.active,
               tasks[id].deleted => row.deleted
        PROVE  TasksGoOn
    <2>1. row.rev >= tasks[id].rev /\ row.runs >= tasks[id].runs
      BY <1>2, <1>9
    <2>2. Monitors!NotOlder(row, tasks[id])
      BY <1>9, <2>1, Zenon DEF Monitors!NotOlder
    <2> QED BY <1>4, <1>9, <2>2
  <1>10. CASE Monitors!Delete(id)
    <2> DEFINE row == [tasks[id] EXCEPT !.deleted = TRUE, !.active = FALSE]
    <2>1. tasks' = [tasks EXCEPT ![id] = row]
      BY <1>1, <1>10 DEF Monitors!Delete, TaskRow
    <2>2. row.rev = tasks[id].rev /\ row.runs = tasks[id].runs /\ ~row.active /\ row.deleted
      BY <1>1 DEF TaskRow
    <2> HIDE DEF row
    <2> QED BY <1>9, <2>1, <2>2
  <1>11. CASE tasks' = [tasks EXCEPT ![id].active = FALSE]
    <2> DEFINE row == [tasks[id] EXCEPT !.active = FALSE]
    <2>1. tasks' = [tasks EXCEPT ![id] = row]
      BY <1>11
    <2>2. /\ row.rev = tasks[id].rev /\ row.runs = tasks[id].runs /\ ~row.active
          /\ row.deleted = tasks[id].deleted
      BY <1>1 DEF TaskRow
    <2> HIDE DEF row
    <2> QED BY <1>9, <2>1, <2>2
  <1> QED BY <1>6, <1>7, <1>8, <1>10, <1>11

LEMMA OthersList ==
  ASSUME PInv, PInv', ListInv, NEW id \in 1..MaxTasks,
         Monitors!OthersChange(id) \/ Monitors!RunEnds(id)
  PROVE  ListInv' /\ ListStep
  <1>1. TasksGoOn /\ UNCHANGED <<panel, call>>
    BY ServerGoesOn DEF Monitors!OthersChange, Monitors!RunEnds
  <1>2. /\ panel.shown \subseteq CardRow
        /\ \A c \in Calls : call[c].got \subseteq CardRow /\ call[c].card \in CardRow
    BY DEF PInv, PanelShape, PanelRow, CallRow
  <1>3. /\ \A t \in panel'.shown : Reached(t)'
        /\ \A c \in Calls : \A t \in call'[c].got : Reached(t)'
    BY <1>1, <1>2, ReachedKept DEF ListInv, Behind
  <1>4. \A i \in panel'.removed : i \in 1..MaxTasks /\ tasks'[i].deleted
    BY <1>1 DEF ListInv, Behind, TasksGoOn
  <1>5. ASSUME NEW c \in Calls, call'[c].step = "delete", call'[c].answer = "ok"
        PROVE  call'[c].card.id # 0 /\ tasks'[call'[c].card.id].deleted
    <2>1. call[c].card.id # 0 /\ tasks[call[c].card.id].deleted
      BY <1>1, <1>5 DEF ListInv, Behind
    <2>2. call[c].card.id \in 1..MaxTasks
      BY <1>2, <2>1, PageBounds DEF CardRow
    <2> QED BY <1>1, <2>1, <2>2 DEF TasksGoOn
  <1>6. Behind'
    BY <1>3, <1>4, <1>5 DEF Behind
  <1> QED BY <1>1, <1>6 DEF ListInv, Current, Fits, ListStep

\* The card that the server answers with is the task as it is.
LEMMA CardReached ==
  ASSUME NEW id \in 1..MaxTasks, NEW rows \in [1..MaxTasks -> TaskRow]
  PROVE  Monitors!Card(id, rows[id]).id # 0 /\ Monitors!NotOlder(rows[id], Monitors!Card(id, rows[id]))
  <1>1. rows[id].rev \in Nat /\ rows[id].runs \in Nat /\ id # 0
    BY DEF TaskRow
  <1>2. /\ Monitors!Card(id, rows[id]).rev = rows[id].rev
        /\ Monitors!Card(id, rows[id]).runs = rows[id].runs
        /\ Monitors!Card(id, rows[id]).active = rows[id].active
        /\ Monitors!Card(id, rows[id]).id = id
    BY DEF Monitors!Card
  <1>3. /\ rows[id].rev >= Monitors!Card(id, rows[id]).rev
        /\ rows[id].runs >= Monitors!Card(id, rows[id]).runs
    BY <1>1, <1>2
  <1> QED BY <1>1, <1>2, <1>3, Zenon DEF Monitors!NotOlder

LEMMA ServeList ==
  ASSUME PInv, PInv', ListInv, NEW c \in Calls, Monitors!Serve(c)
  PROVE  ListInv' /\ ListStep
  <1>1. /\ call \in [Calls -> CallRow] /\ call[c] \in CallRow /\ panel \in PanelRow
        /\ tasks \in [1..MaxTasks -> TaskRow] /\ tasks' \in [1..MaxTasks -> TaskRow]
    BY DEF PInv, PanelShape
  <1>2. UNCHANGED panel
    BY DEF Monitors!Serve
  <1>3. ASSUME NEW got \in SUBSET CardRow, TasksGoOn, \A t \in got : Reached(t)',
               call' = [call EXCEPT ![c].answer = "ok", ![c].got = got],
               call[c].step = "load" => Fits(got, panel),
               call[c].step = "delete" => call[c].card.id # 0 /\ tasks'[call[c].card.id].deleted
        PROVE  ListInv' /\ ListStep
    <2> DEFINE row == [call[c] EXCEPT !.answer = "ok", !.got = got]
    <2>1. Moves(c, row)
      BY <1>1, <1>3 DEF Moves, CallRow
    <2>2. row \in CallRow
      BY <1>1 DEF CallRow
    <2>3. row.step = call[c].step /\ row.card = call[c].card /\ row.got = got
      BY <1>1 DEF CallRow
    <2> HIDE DEF row
    <2>4. Current(c, row, panel') /\ SameList(panel, panel')
      BY <1>2, <1>3, <2>3 DEF Current, SameList
    <2> QED BY <1>2, <1>3, <2>1, <2>2, <2>3, <2>4, ListKept
  <1>4. ASSUME NEW id \in 1..MaxTasks, Monitors!Answer(c, id), call[c].step # "load",
               \/ Monitors!Create(id) \/ Monitors!Change(id)
               \/ Monitors!Enqueue(id) \/ Monitors!Delete(id),
               call[c].step = "delete" => call[c].card.id = id /\ Monitors!Delete(id)
        PROVE  ListInv' /\ ListStep
    <2>1. PICK card \in CardRow : card = Monitors!Card(id, tasks'[id])
      BY <1>1, CardOf DEF Monitors!Card
    <2>2. Reached(card)'
      <3>1. card.id = id
        BY <2>1 DEF Monitors!Card
      <3> QED BY <1>1, <2>1, <3>1, CardReached DEF Reached
    <2>3. TasksGoOn
      BY <1>4, ServerGoesOn
    <2>4. Monitors!Delete(id) => tasks'[id].deleted
      <3>1. [tasks[id] EXCEPT !.deleted = TRUE, !.active = FALSE].deleted
        BY <1>1 DEF TaskRow
      <3>2. Monitors!Delete(id) =>
              tasks' = [tasks EXCEPT ![id] = [tasks[id] EXCEPT !.deleted = TRUE, !.active = FALSE]]
        BY <1>1 DEF Monitors!Delete, TaskRow
      <3> QED BY <1>1, <3>1, <3>2
    <2>5. call' = [call EXCEPT ![c].answer = "ok", ![c].got = {card}]
      BY <1>4, <2>1 DEF Monitors!Answer
    <2>6. {card} \in SUBSET CardRow /\ \A t \in {card} : Reached(t)'
      BY <2>1, <2>2
    <2>7. call[c].step = "delete" => call[c].card.id # 0 /\ tasks'[call[c].card.id].deleted
      BY <1>4, <2>4
    <2> QED BY <1>3, <1>4, <2>3, <2>5, <2>6, <2>7
  <1>5. CASE /\ call[c].step = "load" /\ UNCHANGED tasks
             /\ call' = [call EXCEPT ![c].answer = "ok", ![c].got = Monitors!List]
    <2>1. ASSUME NEW t \in Monitors!List
          PROVE  t \in CardRow /\ Reached(t)' /\ t.id \in 1..MaxTasks /\ ~tasks[t.id].deleted
                 /\ t = Monitors!Card(t.id, tasks[t.id])
      <3>1. PICK id \in 1..MaxTasks : Monitors!There(id) /\ t = Monitors!Card(id, tasks[id])
        BY <2>1 DEF Monitors!List, Monitors!TaskIds
      <3>2. t.id = id /\ t \in CardRow
        BY <1>1, <3>1, CardOf DEF Monitors!Card
      <3>3. Reached(t)'
        BY <1>1, <1>5, <3>1, <3>2, CardReached DEF Reached
      <3> QED BY <3>1, <3>2, <3>3 DEF Monitors!There
    <2>2. Fits(Monitors!List, panel)
      <3> SUFFICES ASSUME NEW new \in Monitors!List
                   PROVE  /\ new.id \notin panel.removed
                          /\ \A old \in panel.shown :
                               new.id = old.id => Monitors!NotOlder(new, old)
        BY DEF Fits
      <3>1. new.id \notin panel.removed
        BY <2>1 DEF ListInv, Behind
      <3>2. ASSUME NEW old \in panel.shown, new.id = old.id PROVE Monitors!NotOlder(new, old)
        <4>1. Monitors!NotOlder(tasks[old.id], old)
          BY DEF ListInv, Behind, Reached
        <4>2. /\ new.rev = tasks[new.id].rev /\ new.runs = tasks[new.id].runs
              /\ new.active = tasks[new.id].active
          BY <2>1 DEF Monitors!Card
        <4> QED BY <3>2, <4>1, <4>2, Zenon DEF Monitors!NotOlder
      <3> QED BY <3>1, <3>2
    <2>3. TasksGoOn
      BY <1>5, Standing
    <2> QED BY <1>3, <1>5, <2>1, <2>2, <2>3
  <1>6. ASSUME Monitors!Current(call[c].card) PROVE call[c].card.id \in 1..MaxTasks
    BY <1>1, <1>6, PageBounds DEF Monitors!Current, CallRow, CardRow
  <1> QED BY <1>4, <1>5, <1>6 DEF Monitors!Serve, Monitors!TaskIds

LEMMA RefuseList ==
  ASSUME PInv, PInv', ListInv, NEW c \in Calls, Monitors!Refuse(c)
  PROVE  ListInv' /\ ListStep
  <1> DEFINE row == [call[c] EXCEPT !.answer = "refused"]
  <1>1. call \in [Calls -> CallRow] /\ call[c] \in CallRow
    BY DEF PInv, PanelShape
  <1>2. Moves(c, row) /\ UNCHANGED <<tasks, panel>>
    BY <1>1 DEF Monitors!Refuse, Moves
  <1>3. row \in CallRow /\ row.got = call[c].got /\ row.answer = "refused"
    BY <1>1 DEF CallRow
  <1> HIDE DEF row
  <1>4. Current(c, row, panel') /\ SameList(panel, panel')
    BY <1>2, <1>3 DEF Current, SameList
  <1>5. \A t \in row.got : t \in CardRow /\ Reached(t)'
    BY <1>1, <1>2, <1>3, Standing DEF ListInv, Behind, CallRow
  <1> QED BY <1>2, <1>3, <1>4, <1>5, Standing, ListKept

LEMMA CallFailsList ==
  ASSUME PInv, PInv', ListInv, NEW c \in Calls, NEW error \in {"refused", "offline"},
         Monitors!CallFails(c, error), UNCHANGED tasks
  PROVE  ListInv' /\ ListStep
  <1> DEFINE row == Monitors!Loading(call[c].card, error)
  <1>1. call \in [Calls -> CallRow] /\ call[c].card \in CardRow /\ panel \in PanelRow
    BY DEF PInv, PanelShape, CallRow
  <1>2. Moves(c, row) /\ panel' = [panel EXCEPT !.latest = c]
    BY <1>1 DEF Monitors!CallFails, Moves
  <1>3. /\ row \in CallRow /\ row.step = "load" /\ row.answer = "none" /\ row.got = {}
    BY <1>1, LoadingShape DEF Monitors!Loading, Monitors!Idle
  <1>4. panel'.latest = c /\ panel'.shown = panel.shown /\ panel'.removed = panel.removed
    BY <1>1, <1>2 DEF PanelRow
  <1> HIDE DEF row
  <1>5. Current(c, row, panel')
    BY <1>3 DEF Current
  <1> QED BY <1>2, <1>3, <1>4, <1>5, Standing, ListKept

\* The card of an answer is not ahead of the server.
LEMMA TheCardReached ==
  ASSUME PInv, ListInv, NEW c \in Calls, call[c].answer = "ok", call[c].step # "load"
  PROVE  Monitors!TheCard(c) \in CardRow /\ Reached(Monitors!TheCard(c))
  <1>1. call[c].got # {} /\ call[c].got \subseteq CardRow
    BY DEF PInv, PanelShape, Answers, CallRow
  <1>2. Monitors!TheCard(c) \in call[c].got
    BY <1>1 DEF Monitors!TheCard
  <1> QED BY <1>1, <1>2 DEF ListInv, Behind

LEMMA SavedList ==
  ASSUME PInv, PInv', ListInv, NEW c \in Calls, call[c].answer = "ok", call[c].step = "save",
         Monitors!Saved(c), UNCHANGED tasks
  PROVE  ListInv' /\ ListStep
  <1>1. PICK t \in CardRow : t = Monitors!TheCard(c) /\ Reached(t)
    BY TheCardReached
  <1> DEFINE u   == Monitors!Upsert(panel, t)
             q   == Monitors!ReleaseForm(u, c)
             n   == [q EXCEPT !.pending = @ \cup {t.id}, !.form = Monitors!NoForm]
             row == [Monitors!Idle EXCEPT !.step = "run", !.card = t]
  <1>2. panel' = Monitors!Effect(n) /\ Moves(c, row)
    BY <1>1 DEF Monitors!Saved, Moves
  <1>3. panel \in PanelRow
    BY DEF PInv, PanelShape
  <1>4. /\ u \in PanelRow /\ u.latest = None /\ u.removed = panel.removed
        /\ u.shown = Monitors!Without(panel, t.id) \cup {t}
    <2>1. Monitors!Without(panel, t.id) \cup {t} \in SUBSET CardRow
      BY <1>1, <1>3 DEF Monitors!Without, PanelRow
    <2> QED BY <1>3, <2>1 DEF Monitors!Upsert, PanelRow, Holder
  <1> HIDE DEF u
  <1>5. q \in PanelRow /\ SameList(u, q)
    BY <1>4, ReleaseShape DEF Released, Unlocks
  <1> HIDE DEF q
  <1>6. n \in PanelRow /\ SameList(q, n)
    <2>1. Monitors!NoForm \in [open : BOOLEAN, card : CardRow]
      BY IdleShape DEF Monitors!NoForm
    <2>2. q.pending \cup {t.id} \in SUBSET Nat
      BY <1>1, <1>5, PageBounds DEF PanelRow, CardRow
    <2>3. ASSUME NEW S \in SUBSET Nat
          PROVE  /\ [q EXCEPT !.pending = S, !.form = Monitors!NoForm] \in PanelRow
                 /\ SameList(q, [q EXCEPT !.pending = S, !.form = Monitors!NoForm])
      BY <1>5, <2>1 DEF PanelRow, SameList
    <2> QED BY <2>2, <2>3
  <1> HIDE DEF n
  <1>7. /\ row \in CallRow /\ row.step = "run" /\ row.answer = "none" /\ row.got = {}
    BY <1>1, IdleShape DEF CallRow, Monitors!Idle
  <1> HIDE DEF row
  <1>8. SameList(n, panel')
    BY <1>2, <1>6, EffectKeeps DEF SameList
  <1>9. /\ panel'.latest = None /\ panel'.removed = panel.removed
        /\ panel'.shown = Monitors!Without(panel, t.id) \cup {t}
    BY <1>4, <1>5, <1>6, <1>8 DEF SameList
  <1>10. \A s \in panel'.shown : s \in panel.shown \/ Reached(s)'
    BY <1>1, <1>9, Standing DEF Monitors!Without
  <1>11. Current(c, row, panel')
    BY <1>7 DEF Current
  <1> QED BY <1>2, <1>7, <1>9, <1>10, <1>11, Standing, ListKept

LEMMA ActedList ==
  ASSUME PInv, PInv', ListInv, NEW c \in Calls, call[c].answer = "ok",
         call[c].step \in {"run", "change"}, Monitors!Acted(c), UNCHANGED tasks
  PROVE  ListInv' /\ ListStep
  <1>1. PICK t \in CardRow : t = Monitors!TheCard(c) /\ Reached(t)
    BY TheCardReached
  <1> DEFINE p   == IF call[c].step = "run" THEN Monitors!AcceptRun(panel, t) ELSE panel
             row == Monitors!Loading(call[c].card, "none")
  <1>2. panel \in PanelRow /\ call \in [Calls -> CallRow] /\ call[c].card \in CardRow
    BY DEF PInv, PanelShape, CallRow
  <1>3. panel' = Monitors!Effect([p EXCEPT !.latest = c]) /\ Moves(c, row)
    BY <1>1, <1>2 DEF Monitors!Acted, Moves
  <1>4. /\ p \in PanelRow /\ p.removed = panel.removed
        /\ \A s \in p.shown : s \in panel.shown \/ Reached(s)
    <2>1. ASSUME NEW S \in SUBSET CardRow
          PROVE  /\ [panel EXCEPT !.shown = S] \in PanelRow
                 /\ [panel EXCEPT !.shown = S].shown = S
                 /\ [panel EXCEPT !.shown = S].removed = panel.removed
      BY <1>2 DEF PanelRow
    <2>2. ASSUME NEW s \in panel.shown, s.id = t.id,
                 NEW new, new = [s EXCEPT !.runs = t.runs, !.active = t.active]
          PROVE  new \in CardRow /\ Reached(new)
      <3>1. s \in CardRow /\ Reached(s)
        BY <1>2 DEF PanelRow, ListInv, Behind
      <3>2. /\ new \in CardRow /\ new.id = t.id /\ new.rev = s.rev /\ new.runs = t.runs
            /\ new.active = t.active
        BY <1>1, <2>2, <3>1 DEF CardRow
      <3>3. Monitors!NotOlder(tasks[t.id], new)
        BY <1>1, <2>2, <3>1, <3>2, Zenon DEF Reached, Monitors!NotOlder
      <3> QED BY <2>2, <3>1, <3>2, <3>3 DEF Reached
    <2>3. CASE call[c].step = "run"
      <3> DEFINE S == {IF s.id = t.id THEN [s EXCEPT !.runs = t.runs, !.active = t.active] ELSE s
                         : s \in panel.shown}
      <3>1. panel.shown \subseteq CardRow
        BY <1>2 DEF PanelRow
      <3>2. \A s \in panel.shown :
              LET new == IF s.id = t.id THEN [s EXCEPT !.runs = t.runs, !.active = t.active] ELSE s
              IN  new \in CardRow /\ (new \in panel.shown \/ Reached(new))
        BY <2>2, <3>1
      <3>3. S \in SUBSET CardRow /\ \A s \in S : s \in panel.shown \/ Reached(s)
        BY <3>2, Zenon
      <3>4. p = [panel EXCEPT !.shown = S]
        BY <2>3 DEF Monitors!AcceptRun
      <3> HIDE DEF S, p
      <3> QED BY <2>1, <3>3, <3>4
    <2>4. CASE call[c].step # "run"
      BY <1>2, <2>4
    <2> QED BY <2>3, <2>4
  <1> HIDE DEF p
  <1>5. /\ [p EXCEPT !.latest = c] \in PanelRow /\ [p EXCEPT !.latest = c].latest = c
        /\ [p EXCEPT !.latest = c].shown = p.shown
        /\ [p EXCEPT !.latest = c].removed = panel.removed
    BY <1>4 DEF PanelRow, Holder
  <1>6. panel'.latest = c /\ panel'.shown = p.shown /\ panel'.removed = panel.removed
    BY <1>3, <1>5, EffectKeeps DEF SameList
  <1>7. /\ row \in CallRow /\ row.step = "load" /\ row.answer = "none" /\ row.got = {}
    BY <1>2, LoadingShape DEF Monitors!Loading, Monitors!Idle
  <1> HIDE DEF row
  <1>8. Current(c, row, panel')
    BY <1>7 DEF Current
  <1>9. \A s \in panel'.shown : s \in panel.shown \/ Reached(s)'
    BY <1>4, <1>6, Standing
  <1> QED BY <1>3, <1>6, <1>7, <1>8, <1>9, Standing, ListKept

\* What the page removes is gone.
LEMMA RemovedList ==
  ASSUME PInv, PInv', ListInv, NEW c \in Calls, call[c].answer = "ok", call[c].step = "delete",
         Monitors!Removed(c), UNCHANGED tasks
  PROVE  ListInv' /\ ListStep
  <1> DEFINE id == call[c].card.id
             q  == [panel EXCEPT !.latest = None, !.shown = Monitors!Without(panel, id),
                                 !.removed = @ \cup {id}]
             n  == Monitors!Finished(q, c)
  <1>1. panel' = Monitors!Effect(n) /\ Moves(c, Monitors!Idle)
    BY DEF Monitors!Removed, Moves
  <1>2. panel \in PanelRow /\ call[c].card \in CardRow /\ id \in 1..MaxTasks /\ tasks[id].deleted
    <2>1. panel \in PanelRow /\ call[c].card \in CardRow
      BY DEF PInv, PanelShape, CallRow
    <2>2. id # 0 /\ tasks[id].deleted
      BY DEF ListInv, Behind
    <2> QED BY <2>1, <2>2, PageBounds DEF CardRow
  <1>3. /\ q \in PanelRow /\ q.latest = None /\ q.shown = Monitors!Without(panel, id)
        /\ q.removed = panel.removed \cup {id}
    <2>1. PICK S \in SUBSET CardRow : S = Monitors!Without(panel, id)
      BY <1>2 DEF Monitors!Without, PanelRow
    <2>2. PICK R \in SUBSET Nat : R = panel.removed \cup {id}
      <3>1. panel.removed \cup {id} \in SUBSET Nat
        BY <1>2, PageBounds DEF PanelRow
      <3> QED BY <3>1
    <2>3. q = [panel EXCEPT !.latest = None, !.shown = S, !.removed = R]
      BY <2>1, <2>2
    <2> HIDE DEF q, id
    <2>4. q \in PanelRow /\ q.latest = None /\ q.shown = S /\ q.removed = R
      BY <1>2, <2>3 DEF PanelRow, Holder
    <2> QED BY <2>1, <2>2, <2>4
  <1> HIDE DEF q
  <1>4. n \in PanelRow /\ SameList(q, n)
    BY <1>3, FinishedShape DEF Released, Unlocks
  <1> HIDE DEF n
  <1>5. /\ panel'.latest = None /\ panel'.shown = Monitors!Without(panel, id)
        /\ panel'.removed = panel.removed \cup {id}
    BY <1>1, <1>3, <1>4, EffectKeeps DEF SameList
  <1>6. /\ Monitors!Idle \in CallRow /\ Monitors!Idle.step = "none"
        /\ Monitors!Idle.answer = "none" /\ Monitors!Idle.got = {}
    BY IdleShape DEF Monitors!Idle
  <1>7. Current(c, Monitors!Idle, panel')
    BY <1>6 DEF Current
  <1>8. \A s \in panel'.shown : s \in panel.shown
    BY <1>5 DEF Monitors!Without
  <1>9. \A i \in panel'.removed : i \in panel.removed \/ (i \in 1..MaxTasks /\ tasks'[i].deleted)
    BY <1>2, <1>5
  <1> HIDE DEF id
  <1> QED BY <1>1, <1>5, <1>6, <1>7, <1>8, <1>9, Standing, ListKept

\* The end of a load: its answer is shown if no other load, and no change of the list,
\* came after it.
LEMMA LoadEndsList ==
  ASSUME PInv, PInv', ListInv, NEW c \in Calls, NEW ok \in BOOLEAN, Monitors!LoadEnds(c, ok),
         UNCHANGED tasks, ok => call[c].step = "load" /\ call[c].answer = "ok"
  PROVE  ListInv' /\ ListStep
  <1>1. panel \in PanelRow /\ call[c].got \in SUBSET CardRow
    BY DEF PInv, PanelShape, CallRow
  <1>2. ASSUME NEW shown \in SUBSET CardRow, NEW loaded \in BOOLEAN, NEW error \in BOOLEAN,
               NEW polling \in Holder, NEW latest \in Holder, NEW failed \in BOOLEAN,
               NEW q, q = [panel EXCEPT !.shown = shown, !.loaded = loaded, !.error = error,
                             !.polling = polling, !.latest = latest, !.pollFailed = failed],
               panel' = Monitors!Effect(Monitors!Finished(q, c))
        PROVE  /\ panel'.shown = shown /\ panel'.latest = latest
               /\ panel'.removed = panel.removed
    <2>1. /\ q \in PanelRow /\ q.shown = shown /\ q.latest = latest
          /\ q.removed = panel.removed
      BY <1>1, <1>2 DEF PanelRow
    <2>2. Monitors!Finished(q, c) \in PanelRow /\ SameList(q, Monitors!Finished(q, c))
      BY <2>1, FinishedShape DEF Released, Unlocks
    <2> QED BY <1>2, <2>1, <2>2, EffectKeeps DEF SameList
  <1> DEFINE shown   == IF Monitors!Shown(c, ok) THEN call[c].got ELSE panel.shown
             loaded  == panel.loaded \/ Monitors!Shown(c, ok)
             error   == ~panel.loaded /\ ~Monitors!Shown(c, ok) /\ (panel.error \/ ~ok)
             polling == IF panel.polling = c THEN None ELSE panel.polling
             latest  == IF panel.latest = c THEN None ELSE panel.latest
             failed  == \/ call[c].error = "offline"
                        \/ ~ok /\ call[c].error = "none" /\ (panel.loaded \/ panel.error)
                        \/ panel.pollFailed /\ ~Monitors!Shown(c, ok)
  <1>3. shown \in SUBSET CardRow /\ polling \in Holder /\ latest \in Holder
    BY <1>1 DEF PanelRow, Holder
  <1>4. loaded \in BOOLEAN /\ error \in BOOLEAN /\ failed \in BOOLEAN
    BY Zenon
  <1>5. panel' = Monitors!Effect(Monitors!Finished(
                   [panel EXCEPT !.shown = shown, !.loaded = loaded, !.error = error,
                      !.polling = polling, !.latest = latest, !.pollFailed = failed], c))
    BY Zenon DEF Monitors!LoadEnds
  <1> HIDE DEF loaded, error, polling, failed
  <1>6. panel'.shown = shown /\ panel'.latest = latest /\ panel'.removed = panel.removed
    <2> HIDE DEF shown, latest
    <2> QED BY <1>2, <1>3, <1>4, <1>5
  <1>7. Moves(c, Monitors!Idle)
    BY DEF Monitors!LoadEnds, Moves
  <1>8. /\ Monitors!Idle \in CallRow /\ Monitors!Idle.step = "none"
        /\ Monitors!Idle.answer = "none" /\ Monitors!Idle.got = {}
    BY IdleShape DEF Monitors!Idle
  <1>9. Current(c, Monitors!Idle, panel')
    BY <1>8 DEF Current
  <1>10. CASE Monitors!Shown(c, ok)
    <2>1. /\ panel.latest = c /\ ok /\ panel'.shown = call[c].got /\ panel'.latest = None
      BY <1>6, <1>10 DEF Monitors!Shown
    <2>2. Fits(panel'.shown, panel)
      BY <2>1 DEF ListInv, Current
    <2>3. \A t \in panel'.shown : Reached(t)'
      BY <2>1, Standing DEF ListInv, Behind
    <2> QED BY <1>6, <1>7, <1>8, <1>9, <2>1, <2>2, <2>3, Standing, ListKept
  <1>11. CASE ~Monitors!Shown(c, ok)
    <2>1. panel'.shown = panel.shown /\ panel'.removed = panel.removed
      BY <1>6, <1>11
    <2>2. panel'.latest = None \/ panel'.latest = panel.latest
      BY <1>6
    <2>3. panel'.latest \in {c, None} \/ SameList(panel, panel')
      BY <2>1, <2>2 DEF SameList
    <2> QED BY <1>7, <1>8, <1>9, <2>1, <2>3, Standing, ListKept
  <1> QED BY <1>10, <1>11

LEMMA ReceiveList ==
  ASSUME PInv, PInv', ListInv, NEW c \in Calls, Monitors!Receive(c) \/ Monitors!GiveUp(c)
  PROVE  ListInv' /\ ListStep
  <1>1. CASE Monitors!Receive(c)
    BY <1>1, CallFailsList, SavedList, ActedList, RemovedList, LoadEndsList DEF Monitors!Receive
  <1>2. CASE Monitors!GiveUp(c)
    BY <1>2, CallFailsList, LoadEndsList DEF Monitors!GiveUp
  <1> QED BY <1>1, <1>2

LEMMA ListInductive ==
  ASSUME PInv, PInv', ListInv, [Monitors!PanelNext]_MonitorsVars
  PROVE  ListInv' /\ ListStep
  <1>1. CASE UNCHANGED MonitorsVars
    BY <1>1 DEF MonitorsVars, ListInv, Behind, Current, Fits, Reached, ListStep
  <1>2. ASSUME Monitors!New \/ Monitors!Cancel \/ \E t \in panel.shown : Monitors!Edit(t)
        PROVE  ListInv' /\ ListStep
    BY <1>2, BeginEditList DEF Monitors!New, Monitors!Cancel, Monitors!Edit
  <1>3. ASSUME NEW c \in Calls,
               \/ Monitors!Mount(c) \/ Monitors!Poll(c) \/ Monitors!Retry(c)
               \/ Monitors!Refresh(c) \/ Monitors!Submit(c)
               \/ \E t \in panel.shown : \/ Monitors!Act(c, t, "run") \/ Monitors!Act(c, t, "change")
                                        \/ Monitors!Remove(c, t)
               \/ Monitors!Serve(c) \/ Monitors!Refuse(c) \/ Monitors!Receive(c)
               \/ Monitors!GiveUp(c)
        PROVE  ListInv' /\ ListStep
    BY <1>3, LoadList, ClicksList, ServeList, RefuseList, ReceiveList
  <1>4. ASSUME NEW id \in 1..MaxTasks, Monitors!OthersChange(id) \/ Monitors!RunEnds(id)
        PROVE  ListInv' /\ ListStep
    BY <1>4, OthersList
  <1> QED BY <1>1, <1>2, <1>3, <1>4 DEF Monitors!PanelNext, Monitors!TaskIds

\* However loads and calls of the page overlap, a load shows no task in an older state
\* than the page has shown it, and none that was removed on the page.
THEOREM ListNeverGoesBackHolds == MCSpec => ListNeverGoesBack
  <1> DEFINE Panel == [Monitors!PanelNext]_MonitorsVars
  <1>1. MCInit => PInv /\ ListInv
    BY PanelInit, InitList DEF MCInit
  <1>2. [MCNext]_MCVars => Panel
    BY DEF MCNext, MCVars, MonitorsVars
  <1>3. PInv /\ Panel => PInv'
    BY PanelInductive
  <1>4. PInv /\ PInv' /\ ListInv /\ Panel => ListInv' /\ ListStep
    BY ListInductive
  <1>5. ListStep =>
          [\A c \in Calls : call[c].step = "load" /\ call'[c] = Monitors!Idle /\ panel'.shown # panel.shown
             => /\ \A new \in panel'.shown : new.id \notin panel.removed
                /\ \A new \in panel'.shown, old \in panel.shown :
                     new.id = old.id => Monitors!NotOlder(new, old)]_(Monitors!panelVars)
    BY DEF ListStep, Fits
  <1> HIDE DEF Panel
  <1> QED BY <1>1, <1>2, <1>3, <1>4, <1>5, PTL
             DEF MCSpec, ListNeverGoesBack, Monitors!ListNeverGoesBack

-----------------------------------------------------------------------------
(* The composer of messages *)

Words    == Texts \cup {None}
ShownRow == [id : Nat, rev : Nat, text : Words, live : BOOLEAN]
SentRow  == [home : Homes, key : Nat, text : Words, form : Nat, composed : Words,
             live : BOOLEAN, rev : Nat]
FormRow  == [kind : {"closed", "create", "edit", "withdraw"}, serial : Nat, id : Nat, base : Nat,
             text : Words, attempt : Words, key : Nat, busy : BOOLEAN]
ReadRow  == [step : {"none", "asked", "answered"}, home : Homes, got : SUBSET ShownRow,
             ends : BOOLEAN]
BoardRow == [home : Homes, shown : SUBSET ShownRow, of : Homes, loaded : BOOLEAN,
             acting : BOOLEAN, switches : Nat]
RequestRow == [kind : {"create", "edit", "withdraw"}, home : Homes, id : Nat, base : Nat,
               text : Words, key : Nat, form : Nat, awaited : BOOLEAN,
               answer : {"none", "ok", "refused"}]

BoardShape ==
  /\ messages \in Seq(SentRow)
  /\ board \in BoardRow
  /\ read \in [Reads -> ReadRow]
  /\ form \in FormRow
  /\ sent \in SUBSET RequestRow

\* What was composed: the messages that are there and the ones on their way.
Composed == {[form |-> messages[i].form, key |-> messages[i].key, text |-> messages[i].composed] :
               i \in 1..Len(messages)}
OnTheWay == {[form |-> r.form, key |-> r.key, text |-> r.text] :
               r \in {q \in sent : q.kind = "create"}}
Attempts == Composed \cup OnTheWay

\* A key belongs to one text of one dialog, and two keys in a row of one dialog to
\* two texts.
Coherent(A) ==
  \A x, y \in A : /\ x.key = y.key => x = y
                  /\ x.form = y.form /\ y.key = x.key + 1 => x.text # y.text

\* What the open dialog knows of what was sent: nothing was if it has no attempt, and
\* its key belongs to its last attempt otherwise.
Dialog(f, A) ==
  /\ \A x \in A : x.key <= f.key /\ x.form <= f.serial
  /\ f.kind = "create" => f.text # None
  /\ f.kind # "closed" /\ (f.kind # "create" \/ f.attempt = None) =>
       \A x \in A : x.form # f.serial
  /\ f.attempt # None =>
       \A x \in A : /\ x.key = f.key => x.form = f.serial /\ x.text = f.attempt
                    /\ x.key + 1 = f.key /\ x.form = f.serial => x.text # f.attempt

DistinctKeys == \A i, j \in 1..Len(messages) : i # j => messages[i].key # messages[j].key

CInv == BoardShape /\ DistinctKeys /\ Coherent(Attempts) /\ Dialog(form, Attempts)

LEMMA AttemptsShape ==
  ASSUME BoardShape
  PROVE  Attempts \subseteq [form : Nat, key : Nat, text : Words]
  <1>1. \A i \in 1..Len(messages) : messages[i] \in SentRow
    BY DEF BoardShape
  <1>2. Composed \subseteq [form : Nat, key : Nat, text : Words]
    BY <1>1 DEF Composed, SentRow
  <1>3. OnTheWay \subseteq [form : Nat, key : Nat, text : Words]
    BY DEF OnTheWay, BoardShape, RequestRow
  <1> QED BY <1>2, <1>3 DEF Attempts

\* Nothing new was composed, and the dialog is the same or was closed.
LEMMA ComposedKept ==
  ASSUME CInv, BoardShape', DistinctKeys', Attempts' \subseteq Attempts,
         form'.key = form.key, form'.serial = form.serial,
         \/ form'.kind = "closed" /\ form'.attempt = None
         \/ form'.kind = form.kind /\ form'.attempt = form.attempt
            /\ (form'.kind = "create" => form'.text # None)
  PROVE  CInv'
  <1>1. Coherent(Attempts')
    BY DEF CInv, Coherent
  <1>2. Dialog(form', Attempts')
    BY DEF CInv, Dialog
  <1> QED BY <1>1, <1>2 DEF CInv, Coherent, Dialog

LEMMA BoardStart == Composer!BoardInit => CInv
  <1> SUFFICES ASSUME Composer!BoardInit PROVE CInv
    OBVIOUS
  <1>1. PICK h \in Homes : board = [home |-> h, shown |-> {}, of |-> h, loaded |-> FALSE,
                                   acting |-> FALSE, switches |-> 0]
    BY DEF Composer!BoardInit
  <1>2. messages = <<>> /\ form = Composer!NoForm(0, 0) /\ sent = {}
    BY DEF Composer!BoardInit
  <1>3. board \in BoardRow /\ board.home \in Homes
    BY <1>1 DEF BoardRow
  <1>4. read \in [Reads -> ReadRow]
    BY <1>3 DEF Composer!BoardInit, ReadRow
  <1>5. form \in FormRow
    BY <1>2 DEF FormRow, Composer!NoForm, Words
  <1>6. BoardShape
    BY <1>2, <1>3, <1>4, <1>5 DEF BoardShape
  <1>7. Attempts = {}
    BY <1>2 DEF Attempts, Composed, OnTheWay
  <1> QED BY <1>2, <1>6, <1>7 DEF CInv, DistinctKeys, Coherent, Dialog, Composer!NoForm

LEMMA CardsShape ==
  ASSUME BoardShape, NEW home
  PROVE  Composer!Cards(home) \subseteq ShownRow
  <1>1. \A i \in 1..Len(messages) : messages[i] \in SentRow /\ i \in Nat
    BY DEF BoardShape
  <1>2. \A i \in 1..Len(messages) :
          [id |-> i, rev |-> messages[i].rev, text |-> messages[i].text, live |-> messages[i].live]
            \in ShownRow
    BY <1>1 DEF SentRow, ShownRow
  <1> QED BY <1>2 DEF Composer!Cards

\* The reads of the board compose nothing.
LEMMA ReadsInv ==
  ASSUME CInv, NEW r \in Reads,
         \/ Composer!Poll(r) \/ Composer!ServeRead(r) \/ Composer!ReadArrives(r)
         \/ Composer!ReadFails(r) \/ \E h \in Homes : Composer!SelectHousehold(h, r)
  PROVE  CInv'
  <1>1. /\ read \in [Reads -> ReadRow] /\ board \in BoardRow /\ read[r] \in ReadRow
    BY DEF CInv, BoardShape
  <1>2. \A h \in Homes : Composer!Asked(h, FALSE) \in ReadRow
    BY DEF Composer!Asked, ReadRow
  <1>3. read' \in [Reads -> ReadRow] /\ board' \in BoardRow
    <2>1. CASE Composer!Poll(r)
      <3>1. read' = [read EXCEPT ![r] = Composer!Asked(board.home, FALSE)] /\ board' = board
        BY <2>1 DEF Composer!Poll, Composer!Start
      <3>2. board.home \in Homes
        BY <1>1 DEF BoardRow
      <3> QED BY <1>1, <1>2, <3>1, <3>2
    <2>2. CASE Composer!ServeRead(r)
      <3> DEFINE row == [read[r] EXCEPT !.step = "answered", !.got = Composer!Cards(read[r].home)]
      <3>1. read' = [read EXCEPT ![r] = row] /\ board' = board
        BY <1>1, <2>2 DEF Composer!ServeRead, ReadRow
      <3>2. row \in ReadRow
        <4>1. Composer!Cards(read[r].home) \in SUBSET ShownRow
          BY CardsShape DEF CInv
        <4> QED BY <1>1, <4>1 DEF ReadRow
      <3> HIDE DEF row
      <3> QED BY <1>1, <3>1, <3>2
    <2>3. CASE Composer!ReadArrives(r) \/ Composer!ReadFails(r)
      <3> DEFINE row == [Composer!Asked(board.home, FALSE) EXCEPT !.step = "none"]
      <3>1. read' = [read EXCEPT ![r] = row]
        BY <2>3 DEF Composer!ReadArrives, Composer!ReadFails, Composer!ReadEnds
      <3>2. row \in ReadRow
        BY <1>1 DEF Composer!Asked, ReadRow, BoardRow
      <3> HIDE DEF row
      <3>3. read' \in [Reads -> ReadRow]
        BY <1>1, <3>1, <3>2
      <3>4. ASSUME NEW acting \in BOOLEAN,
                   \/ board' = [board EXCEPT !.shown = read[r].got, !.of = read[r].home,
                                             !.loaded = TRUE, !.acting = acting]
                   \/ board' = [board EXCEPT !.acting = acting]
            PROVE  board' \in BoardRow
        BY <1>1, <3>4 DEF BoardRow, ReadRow
      <3>5. (board.acting /\ ~read[r].ends) \in BOOLEAN
        BY Zenon
      <3>6. \/ board' = [board EXCEPT !.shown = read[r].got, !.of = read[r].home, !.loaded = TRUE,
                                      !.acting = (board.acting /\ ~read[r].ends)]
            \/ board' = [board EXCEPT !.acting = (board.acting /\ ~read[r].ends)]
        BY <2>3, Zenon DEF Composer!ReadArrives, Composer!ReadFails
      <3> QED BY <3>3, <3>4, <3>5, <3>6
    <2>4. CASE \E h \in Homes : Composer!SelectHousehold(h, r)
      <3>1. PICK h \in Homes :
              /\ board' = [board EXCEPT !.home = h, !.switches = board.switches + 1]
              /\ read' = [read EXCEPT ![r] = Composer!Asked(h, FALSE)]
        BY <2>4 DEF Composer!SelectHousehold, Composer!Start
      <3>2. board.switches + 1 \in Nat
        BY <1>1 DEF BoardRow
      <3> QED BY <1>1, <1>2, <3>1, <3>2 DEF BoardRow
    <2> QED BY <2>1, <2>2, <2>3, <2>4
  <1>4. UNCHANGED <<messages, form, sent>>
    BY DEF Composer!Poll, Composer!ServeRead, Composer!ReadArrives, Composer!ReadFails,
       Composer!ReadEnds, Composer!SelectHousehold
  <1> QED BY <1>3, <1>4 DEF CInv, BoardShape, DistinctKeys, Attempts, Composed, OnTheWay,
             ReadRow, BoardRow

\* A dialog that is opened has sent nothing.
LEMMA OpenInv ==
  ASSUME CInv, NEW kind \in {"create", "edit", "withdraw"}, NEW id \in Nat, NEW base \in Nat,
         NEW text \in Words, kind = "create" => text # None,
         Composer!OpenDialog(kind, id, base, text)
  PROVE  CInv'
  <1>1. /\ form' = [Composer!NoForm(form.serial + 1, form.key) EXCEPT
                       !.kind = kind, !.id = id, !.base = base, !.text = text]
        /\ UNCHANGED <<messages, board, read, sent>>
    BY DEF Composer!OpenDialog
  <1>2. form.serial \in Nat /\ form.serial + 1 \in Nat /\ form.key \in Nat
    BY DEF CInv, BoardShape, FormRow
  <1>3. form' = [kind |-> kind, serial |-> form.serial + 1, id |-> id, base |-> base,
                 text |-> text, attempt |-> None, key |-> form.key, busy |-> FALSE]
    BY <1>1 DEF Composer!NoForm
  <1>4. form' \in FormRow
    BY <1>2, <1>3 DEF FormRow, Words
  <1>5. Attempts' = Attempts /\ DistinctKeys' /\ BoardShape'
    BY <1>1, <1>4 DEF CInv, BoardShape, DistinctKeys, Attempts, Composed, OnTheWay
  <1>6. \A x \in Attempts : x.key <= form'.key /\ x.form <= form'.serial /\ x.form # form'.serial
    <2>1. \A x \in Attempts : x.form \in Nat /\ x.key \in Nat
      BY AttemptsShape DEF CInv
    <2> QED BY <1>2, <1>3, <2>1 DEF CInv, Dialog
  <1>7. Dialog(form', Attempts)
    BY <1>3, <1>6 DEF Dialog
  <1> QED BY <1>5, <1>7 DEF CInv

LEMMA DialogsInv ==
  ASSUME CInv, \/ \E t \in Texts : Composer!Compose(t)
               \/ \E card \in board.shown : Composer!Edit(card) \/ Composer!Withdraw(card)
  PROVE  CInv'
  <1>1. \A card \in board.shown : card.id \in Nat /\ card.rev \in Nat /\ card.text \in Words
    BY DEF CInv, BoardShape, BoardRow, ShownRow
  <1>2. \A t \in Texts : t \in Words /\ t # None
    BY NoneIsApart DEF Words
  <1> QED BY <1>1, <1>2, OpenInv DEF Composer!Compose, Composer!Edit, Composer!Withdraw

LEMMA TypeInv ==
  ASSUME CInv, Composer!Cancel \/ \E t \in Texts : Composer!Type(t)
  PROVE  CInv'
  <1>1. form \in FormRow /\ UNCHANGED <<messages, board, read, sent>>
    BY DEF CInv, BoardShape, Composer!Cancel, Composer!Type
  <1>2. Attempts' = Attempts /\ DistinctKeys'
    BY <1>1 DEF CInv, DistinctKeys, Attempts, Composed, OnTheWay
  <1>3. CASE Composer!Cancel
    <2>1. form' = Composer!NoForm(form.serial, form.key)
      BY <1>3 DEF Composer!Cancel
    <2>2. form' \in FormRow
      BY <1>1, <2>1 DEF FormRow, Composer!NoForm, Words
    <2>3. BoardShape'
      BY <1>1, <2>2 DEF CInv, BoardShape
    <2> QED BY <1>2, <2>1, <2>3, ComposedKept DEF Composer!NoForm
  <1>4. ASSUME NEW t \in Texts, Composer!Type(t) PROVE CInv'
    <2>1. form' = [form EXCEPT !.text = t] /\ t \in Words /\ t # None
      BY <1>4, NoneIsApart DEF Composer!Type, Words
    <2>2. form' \in FormRow
      BY <1>1, <2>1 DEF FormRow
    <2>3. /\ form'.key = form.key /\ form'.serial = form.serial /\ form'.kind = form.kind
          /\ form'.attempt = form.attempt /\ form'.text = t
      BY <1>1, <2>1 DEF FormRow
    <2>4. BoardShape'
      BY <1>1, <2>2 DEF CInv, BoardShape
    <2> QED BY <1>2, <2>1, <2>3, <2>4, ComposedKept
  <1> QED BY <1>3, <1>4

\* A request that a dialog sends.
RequestOf(f) == [kind |-> f.kind, home |-> board.home, id |-> f.id, base |-> f.base,
                 text |-> f.text, key |-> f.key, form |-> f.serial,
                 awaited |-> TRUE, answer |-> "none"]

LEMMA SendShape ==
  ASSUME BoardShape, NEW f \in FormRow, f.kind # "closed", Composer!SendRequest(f)
  PROVE  /\ sent' \in SUBSET RequestRow /\ sent' = sent \cup {RequestOf(f)}
         /\ RequestOf(f) \in RequestRow
         /\ RequestOf(f).kind = f.kind /\ RequestOf(f).text = f.text
         /\ RequestOf(f).key = f.key /\ RequestOf(f).form = f.serial
  <1>1. sent' = sent \cup {RequestOf(f)}
    BY DEF Composer!SendRequest, RequestOf
  <1>2. RequestOf(f) \in RequestRow
    BY DEF RequestOf, RequestRow, FormRow, BoardShape, BoardRow
  <1>3. /\ RequestOf(f).kind = f.kind /\ RequestOf(f).text = f.text
        /\ RequestOf(f).key = f.key /\ RequestOf(f).form = f.serial
    BY DEF RequestOf
  <1> QED BY <1>1, <1>2, <1>3 DEF BoardShape

\* A text that was just sent goes out again under its key, another text under the next.
LEMMA SendTextInv == ASSUME CInv, Composer!Submit PROVE CInv'
  <1>1. /\ form.kind \in {"create", "edit"} /\ form' = Composer!Attempt
        /\ Composer!SendRequest(form') /\ UNCHANGED <<messages, board, read>>
    BY DEF Composer!Submit
  <1>2. form \in FormRow /\ form.key \in Nat /\ form.serial \in Nat
    BY DEF CInv, BoardShape, FormRow
  <1>3. PICK key \in {form.key, form.key + 1} :
          /\ form' = [form EXCEPT !.attempt = form.text, !.busy = TRUE, !.key = key]
          /\ key = form.key <=> form.attempt = form.text
    <2>1. CASE form.attempt = form.text
      <3>1. form' = [form EXCEPT !.attempt = form.text, !.busy = TRUE, !.key = form.key]
        BY <1>1, <2>1 DEF Composer!Attempt
      <3> QED BY <2>1, <3>1
    <2>2. CASE form.attempt # form.text
      <3>1. form' = [form EXCEPT !.attempt = form.text, !.busy = TRUE, !.key = form.key + 1]
        BY <1>1, <2>2 DEF Composer!Attempt
      <3>2. form.key + 1 # form.key
        BY <1>2
      <3> QED BY <2>2, <3>1, <3>2
    <2> QED BY <2>1, <2>2
  <1>4. key \in Nat
    BY <1>2, <1>3
  <1>5. /\ form' \in FormRow /\ form'.kind = form.kind /\ form'.text = form.text
        /\ form'.attempt = form.text /\ form'.key = key /\ form'.serial = form.serial
    BY <1>2, <1>3, <1>4 DEF FormRow
  <1>6. PICK r \in RequestRow :
          /\ sent' = sent \cup {r} /\ sent' \in SUBSET RequestRow /\ r.kind = form.kind
          /\ r.text = form.text /\ r.key = key /\ r.form = form.serial
    <2>1. form'.kind # "closed" /\ BoardShape
      BY <1>1, <1>5 DEF CInv
    <2> QED BY <1>1, <1>5, <2>1, SendShape
  <1>7. BoardShape' /\ DistinctKeys' /\ Composed' = Composed
    BY <1>1, <1>5, <1>6 DEF CInv, BoardShape, DistinctKeys, Composed
  <1>8. Attempts \subseteq [form : Nat, key : Nat, text : Words]
    BY AttemptsShape DEF CInv
  <1>9. CASE form.kind = "edit"
    <2>1. Attempts' = Attempts
      BY <1>6, <1>7, <1>9 DEF Attempts, OnTheWay
    <2>2. \A x \in Attempts : /\ x.form # form.serial /\ x.form <= form.serial
                            /\ x.key <= form.key /\ x.key \in Nat
      BY <1>8, <1>9 DEF CInv, Dialog
    <2>3. ASSUME NEW x \in Attempts, x.key = key, form.text # None
          PROVE  x.text = form.text /\ x.form = form.serial
      <3>1. key = form.key
        BY <1>2, <1>3, <2>2, <2>3
      <3> QED BY <1>3, <2>3, <3>1 DEF CInv, Dialog
    <2>4. \A x \in Attempts : x.key <= key
      BY <1>2, <1>3, <2>2
    <2>5. Dialog(form', Attempts)
      BY <1>5, <1>9, <2>2, <2>3, <2>4 DEF Dialog
    <2> QED BY <1>7, <2>1, <2>5 DEF CInv
  <1>10. CASE form.kind = "create"
    <2> DEFINE new == [form |-> form.serial, key |-> key, text |-> form.text]
    <2>1. Attempts' = Attempts \cup {new}
      BY <1>6, <1>7, <1>10 DEF Attempts, OnTheWay
    <2>2. form.text # None /\ new.form = form.serial /\ new.key = key /\ new.text = form.text
      BY <1>10 DEF CInv, Dialog
    <2>3. \A x \in Attempts : /\ x.form <= form.serial /\ x.key <= form.key
                            /\ x.key \in Nat /\ x.form \in Nat /\ x.key <= key
      BY <1>2, <1>3, <1>8 DEF CInv, Dialog
    <2>4. ASSUME NEW x \in Attempts, x.key = key PROVE x = new
      <3>1. key = form.key
        BY <1>2, <1>3, <2>3, <2>4
      <3>2. x.form = form.serial /\ x.text = form.text
        BY <1>3, <2>2, <2>4, <3>1 DEF CInv, Dialog
      <3>3. x = [form |-> x.form, key |-> x.key, text |-> x.text]
        BY <1>8
      <3> QED BY <2>4, <3>2, <3>3
    <2>5. ASSUME NEW x \in Attempts, x.key + 1 = key, x.form = form.serial PROVE x.text # form.text
      <3>1. form.attempt # None
        BY <1>10, <2>5 DEF CInv, Dialog
      <3>2. CASE key = form.key
        BY <1>3, <2>5, <3>1, <3>2 DEF CInv, Dialog
      <3>3. CASE key = form.key + 1
        <4>1. x.key = form.key /\ key # form.key
          BY <1>2, <2>3, <2>5, <3>3
        <4>2. x.text = form.attempt
          BY <3>1, <4>1 DEF CInv, Dialog
        <4> QED BY <1>3, <4>1, <4>2
      <3> QED BY <1>3, <3>2, <3>3
    <2>6. \A x \in Attempts : x.key # key + 1
      BY <1>4, <2>3
    <2>7. key + 1 # key
      BY <1>4
    <2> HIDE DEF new
    <2>8. Coherent(Attempts \cup {new})
      <3>1. ASSUME NEW x \in Attempts \cup {new}, NEW y \in Attempts \cup {new}
            PROVE  /\ x.key = y.key => x = y
                   /\ x.form = y.form /\ y.key = x.key + 1 => x.text # y.text
        <4>1. CASE x \in Attempts /\ y \in Attempts
          BY <4>1 DEF CInv, Coherent
        <4>2. CASE x \in Attempts /\ y = new
          BY <2>2, <2>4, <2>5, <4>2
        <4>3. CASE x = new /\ y \in Attempts
          BY <2>2, <2>4, <2>6, <4>3
        <4>4. CASE x = new /\ y = new
          BY <2>2, <2>7, <4>4
        <4> QED BY <4>1, <4>2, <4>3, <4>4
      <3> QED BY <3>1 DEF Coherent
    <2>9. Dialog(form', Attempts \cup {new})
      <3>1. \A x \in Attempts \cup {new} : x.key <= form'.key /\ x.form <= form'.serial
        BY <1>2, <1>4, <1>5, <2>2, <2>3
      <3>2. ASSUME NEW x \in Attempts \cup {new}
            PROVE  /\ x.key = key => x.form = form.serial /\ x.text = form.text
                   /\ x.key + 1 = key /\ x.form = form.serial => x.text # form.text
        BY <2>2, <2>4, <2>5, <2>7
      <3> QED BY <1>5, <1>10, <2>2, <3>1, <3>2 DEF Dialog
    <2> QED BY <1>7, <2>1, <2>8, <2>9 DEF CInv
  <1> QED BY <1>1, <1>9, <1>10

LEMMA WithdrawInv == ASSUME CInv, Composer!ConfirmWithdraw PROVE CInv'
  <1>1. /\ form.kind = "withdraw" /\ Composer!SendRequest(form)
        /\ board' = [board EXCEPT !.acting = TRUE] /\ UNCHANGED <<messages, read, form>>
    BY DEF Composer!ConfirmWithdraw
  <1>2. BoardShape /\ form \in FormRow
    BY DEF CInv, BoardShape
  <1>3. PICK r \in RequestRow : /\ sent' = sent \cup {r} /\ sent' \in SUBSET RequestRow
                               /\ r.kind = "withdraw"
    BY <1>1, <1>2, SendShape
  <1>4. board' \in BoardRow
    BY <1>1, <1>2 DEF BoardShape, BoardRow
  <1>5. BoardShape' /\ DistinctKeys' /\ Attempts' = Attempts
    BY <1>1, <1>3, <1>4 DEF CInv, BoardShape, BoardRow, DistinctKeys, Attempts, Composed, OnTheWay
  <1> QED BY <1>1, <1>5 DEF CInv

\* A request that is answered, given up or gone composes nothing new.
LEMMA RequestsKept ==
  ASSUME BoardShape, NEW r \in sent, NEW S \in SUBSET RequestRow, sent' = (sent \ {r}) \cup S,
         \A q \in S : q.kind = r.kind /\ q.form = r.form /\ q.key = r.key /\ q.text = r.text
  PROVE  sent' \in SUBSET RequestRow /\ OnTheWay' \subseteq OnTheWay
  BY DEF BoardShape, OnTheWay

\* Steps of requests that leave the server's messages alone.
LEMMA WayInv ==
  ASSUME CInv, NEW r \in sent, NEW S \in SUBSET RequestRow, sent' = (sent \ {r}) \cup S,
         \A q \in S : q.kind = r.kind /\ q.form = r.form /\ q.key = r.key /\ q.text = r.text,
         UNCHANGED messages, board' \in BoardRow, read' \in [Reads -> ReadRow], form' \in FormRow,
         form'.key = form.key, form'.serial = form.serial,
         \/ form'.kind = "closed" /\ form'.attempt = None
         \/ form'.kind = form.kind /\ form'.attempt = form.attempt
            /\ (form'.kind = "create" => form'.text # None)
  PROVE  CInv'
  <1>1. sent' \in SUBSET RequestRow /\ OnTheWay' \subseteq OnTheWay
    BY RequestsKept DEF CInv
  <1>2. BoardShape'
    BY <1>1 DEF CInv, BoardShape, BoardRow, ReadRow
  <1>3. DistinctKeys' /\ Attempts' \subseteq Attempts
    BY <1>1 DEF CInv, DistinctKeys, Attempts, Composed
  <1> QED BY <1>2, <1>3, ComposedKept

LEMMA RequestEndsInv ==
  ASSUME CInv, NEW r \in sent,
         \/ Composer!Failed(r) \/ Composer!Vanish(r)
         \/ \E slot \in Reads : Composer!Succeeded(r, slot)
  PROVE  CInv'
  <1>1. /\ form \in FormRow /\ board \in BoardRow /\ read \in [Reads -> ReadRow]
        /\ r \in RequestRow
    BY DEF CInv, BoardShape, BoardRow, ReadRow
  <1>2. form.kind = "create" => form.text # None
    BY DEF CInv, Dialog
  <1>6. ASSUME sent' = sent \ {r}, UNCHANGED messages, board' \in BoardRow,
               read' \in [Reads -> ReadRow], form' \in FormRow,
               form'.key = form.key, form'.serial = form.serial,
               form' = form \/ (form'.kind = "closed" /\ form'.attempt = None)
        PROVE  CInv'
    <2>1. PICK S \in SUBSET RequestRow : S = {}
      OBVIOUS
    <2>2. sent' = (sent \ {r}) \cup S /\ \A q \in S : FALSE
      BY <1>6, <2>1
    <2>3. \/ form'.kind = "closed" /\ form'.attempt = None
          \/ form'.kind = form.kind /\ form'.attempt = form.attempt
             /\ (form'.kind = "create" => form'.text # None)
      BY <1>2, <1>6
    <2> QED BY <1>6, <2>2, <2>3, WayInv
  <1>3. CASE Composer!Vanish(r)
    <2>1. /\ sent' = sent \ {r} /\ UNCHANGED <<messages, board, read, form>>
      BY <1>3 DEF Composer!Vanish
    <2> QED BY <1>1, <1>6, <2>1
  <1>4. CASE Composer!Failed(r)
    <2> DEFINE late == [r EXCEPT !.awaited = FALSE]
    <2>1. late \in RequestRow /\ late.kind = r.kind /\ late.form = r.form /\ late.key = r.key
          /\ late.text = r.text
      BY <1>1 DEF RequestRow
    <2>2. PICK S \in SUBSET {late} : sent' = (sent \ {r}) \cup S
      <3>1. sent' = (sent \ {r}) \cup (IF r.answer = "none" THEN {late} ELSE {})
        BY <1>4 DEF Composer!Failed
      <3> HIDE DEF late
      <3> QED BY <3>1
    <2> HIDE DEF late
    <2>3. form' \in {form, [form EXCEPT !.busy = FALSE]} /\ UNCHANGED <<messages, read>>
      BY <1>4 DEF Composer!Failed
    <2>4. /\ form' \in FormRow /\ form'.key = form.key /\ form'.serial = form.serial
          /\ form'.kind = form.kind /\ form'.attempt = form.attempt /\ form'.text = form.text
      BY <1>1, <2>3 DEF FormRow
    <2>5. board' \in BoardRow
      <3>1. board' = [board EXCEPT !.acting = (board.acting /\ r.kind # "withdraw")]
        BY <1>4 DEF Composer!Failed
      <3>2. (board.acting /\ r.kind # "withdraw") \in BOOLEAN
        BY Zenon
      <3>3. \A acting \in BOOLEAN : [board EXCEPT !.acting = acting] \in BoardRow
        BY <1>1 DEF BoardRow
      <3> QED BY <3>1, <3>2, <3>3
    <2> QED BY <1>1, <1>2, <2>1, <2>2, <2>3, <2>4, <2>5, WayInv
  <1>5. ASSUME NEW slot \in Reads, Composer!Succeeded(r, slot) PROVE CInv'
    <2>1. sent' = sent \ {r} /\ UNCHANGED <<messages, board>>
      BY <1>5 DEF Composer!Succeeded
    <2>2. form' \in {form, Composer!NoForm(form.serial, form.key)}
      BY <1>5, Zenon DEF Composer!Succeeded
    <2>3. /\ form' \in FormRow /\ form'.key = form.key /\ form'.serial = form.serial
          /\ form' = form \/ (form'.kind = "closed" /\ form'.attempt = None)
      <3>1. CASE form' = form
        BY <1>1, <3>1
      <3>2. CASE form' = Composer!NoForm(form.serial, form.key)
        BY <1>1, <3>2 DEF FormRow, Composer!NoForm, Words
      <3> QED BY <2>2, <3>1, <3>2
    <2>4. read' \in [Reads -> ReadRow]
      <3>1. PICK ends \in BOOLEAN : read' = [read EXCEPT ![slot] = Composer!Asked(r.home, ends)]
        BY <1>5 DEF Composer!Succeeded, Composer!Start
      <3>2. Composer!Asked(r.home, ends) \in ReadRow
        BY <1>1 DEF Composer!Asked, ReadRow, RequestRow
      <3> QED BY <1>1, <3>1, <3>2
    <2> QED BY <1>1, <1>6, <2>1, <2>3, <2>4
  <1> QED BY <1>3, <1>4, <1>5

\* What becomes of a message leaves what it was composed with alone.
LEMMA RowKept ==
  ASSUME CInv, NEW i, NEW row, messages' = [messages EXCEPT ![i] = row],
         i \in 1..Len(messages) => /\ row \in SentRow /\ row.key = messages[i].key
                                  /\ row.form = messages[i].form
                                  /\ row.composed = messages[i].composed
  PROVE  messages' \in Seq(SentRow) /\ DistinctKeys' /\ Composed' = Composed
  <1>1. messages \in Seq(SentRow)
    BY DEF CInv, BoardShape
  <1>2. /\ messages' \in Seq(SentRow) /\ Len(messages') = Len(messages)
        /\ \A j \in 1..Len(messages) : messages'[j] = IF j = i THEN row ELSE messages[j]
    <2>1. CASE i \in 1..Len(messages)
      BY <1>1, <2>1
    <2>2. CASE i \notin 1..Len(messages)
      <3>1. messages' = messages
        BY <1>1, <2>2
      <3> QED BY <1>1, <2>2, <3>1
    <2> QED BY <2>1, <2>2
  <1>3. \A j \in 1..Len(messages) : /\ messages'[j].key = messages[j].key
                                    /\ messages'[j].form = messages[j].form
                                    /\ messages'[j].composed = messages[j].composed
    BY <1>2
  <1>4. DistinctKeys'
    BY <1>2, <1>3 DEF CInv, DistinctKeys
  <1> QED BY <1>2, <1>3, <1>4 DEF Composed

LEMMA OtherMembersInv ==
  ASSUME CInv, NEW i \in 1..Len(messages), NEW live \in BOOLEAN, Composer!OthersChange(i, live)
  PROVE  CInv'
  <1> DEFINE row == [messages[i] EXCEPT !.rev = messages[i].rev + 1, !.live = live]
  <1>1. messages \in Seq(SentRow) /\ messages[i] \in SentRow /\ UNCHANGED <<board, read, form, sent>>
    BY DEF CInv, BoardShape, Composer!OthersChange
  <1>2. messages' = [messages EXCEPT ![i] = row]
    BY <1>1 DEF Composer!OthersChange, SentRow
  <1>3. messages[i].rev + 1 \in Nat
    BY <1>1 DEF SentRow
  <1>4. /\ row \in SentRow /\ row.key = messages[i].key /\ row.form = messages[i].form
        /\ row.composed = messages[i].composed
    BY <1>1, <1>3 DEF SentRow
  <1> HIDE DEF row
  <1>5. messages' \in Seq(SentRow) /\ DistinctKeys' /\ Composed' = Composed
    BY <1>2, <1>4, RowKept
  <1>6. BoardShape' /\ Attempts' = Attempts
    BY <1>1, <1>5 DEF CInv, BoardShape, Attempts, OnTheWay
  <1> QED BY <1>1, <1>5, <1>6 DEF CInv

LEMMA ServeRequestInv == ASSUME CInv, NEW r \in sent, Composer!Serve(r) PROVE CInv'
  <1>1. /\ r \in RequestRow /\ BoardShape /\ messages \in Seq(SentRow)
        /\ UNCHANGED <<board, read, form>>
    BY DEF CInv, BoardShape, Composer!Serve
  <1>2. PICK answer \in {"ok", "refused"} : sent' = Composer!Answered(r, answer)
    BY DEF Composer!Serve
  <1> DEFINE reply == [r EXCEPT !.answer = answer]
  <1>3. /\ reply \in RequestRow /\ reply.kind = r.kind /\ reply.form = r.form
        /\ reply.key = r.key /\ reply.text = r.text
    BY <1>1 DEF RequestRow
  <1>4. PICK S \in SUBSET {reply} : sent' = (sent \ {r}) \cup S
    <2>1. sent' = (sent \ {r}) \cup (IF r.awaited THEN {reply} ELSE {})
      BY <1>2 DEF Composer!Answered
    <2> HIDE DEF reply
    <2> QED BY <2>1
  <1> HIDE DEF reply
  <1>5. sent' \in SUBSET RequestRow /\ OnTheWay' \subseteq OnTheWay
    <2>1. /\ S \in SUBSET RequestRow
          /\ \A q \in S : q.kind = r.kind /\ q.form = r.form /\ q.key = r.key /\ q.text = r.text
      BY <1>3, <1>4
    <2> QED BY <1>1, <1>4, <2>1, RequestsKept
  <1>6. ASSUME messages' \in Seq(SentRow), DistinctKeys', Composed' \subseteq Attempts
        PROVE  CInv'
    <2>1. BoardShape' /\ Attempts' \subseteq Attempts
      BY <1>1, <1>5, <1>6 DEF BoardShape, Attempts
    <2>2. form.kind = "create" => form.text # None
      BY DEF CInv, Dialog
    <2> QED BY <1>1, <1>6, <2>1, <2>2, ComposedKept
  <1>7. CASE UNCHANGED messages
    BY <1>1, <1>6, <1>7 DEF CInv, DistinctKeys, Composed, Attempts
  <1>8. CASE Composer!ServeCreate(r) /\ ~Composer!Known(r.key)
    <2> DEFINE row == [home |-> r.home, key |-> r.key, text |-> r.text, form |-> r.form,
                       composed |-> r.text, live |-> TRUE, rev |-> 1]
    <2>1. r.kind = "create" /\ messages' = Append(messages, row)
      BY <1>8 DEF Composer!ServeCreate
    <2>2. row \in SentRow /\ row.key = r.key /\ row.form = r.form /\ row.composed = r.text
      BY <1>1 DEF SentRow, RequestRow
    <2> HIDE DEF row
    <2>3. /\ messages' \in Seq(SentRow) /\ Len(messages') = Len(messages) + 1
          /\ messages'[Len(messages) + 1] = row
          /\ \A i \in 1..Len(messages) : messages'[i] = messages[i]
      BY <1>1, <2>1, <2>2
    <2>4. \A i \in 1..Len(messages') : i \in 1..Len(messages) \/ i = Len(messages) + 1
      BY <1>1, <2>3
    <2>5. \A i \in 1..Len(messages) : messages[i].key # r.key
      BY <1>8 DEF Composer!Known
    <2>6. DistinctKeys'
      BY <2>2, <2>3, <2>4, <2>5 DEF CInv, DistinctKeys
    <2>7. [form |-> r.form, key |-> r.key, text |-> r.text] \in OnTheWay
      BY <2>1 DEF OnTheWay
    <2>8. ASSUME NEW i \in 1..Len(messages')
          PROVE  [form |-> messages'[i].form, key |-> messages'[i].key,
                  text |-> messages'[i].composed] \in Attempts
      <3>1. CASE i \in 1..Len(messages)
        BY <2>3, <3>1 DEF Attempts, Composed
      <3>2. CASE i = Len(messages) + 1
        BY <2>2, <2>3, <2>7, <3>2 DEF Attempts
      <3> QED BY <2>4, <3>1, <3>2
    <2>9. Composed' \subseteq Attempts
      BY <2>8 DEF Composed
    <2> QED BY <1>6, <2>3, <2>6, <2>9
  <1>9. CASE Composer!ServeChange(r)
    <2> DEFINE row == [messages[r.id] EXCEPT !.rev = messages[r.id].rev + 1,
                         !.live = (r.kind = "edit"),
                         !.text = IF r.kind = "edit" THEN r.text ELSE messages[r.id].text]
    <2>1. messages' = [messages EXCEPT ![r.id] = row]
      <3>1. CASE r.id \in 1..Len(messages)
        <4>1. messages[r.id] \in SentRow
          BY <1>1, <3>1
        <4> QED BY <1>1, <1>9, <3>1, <4>1 DEF Composer!ServeChange, SentRow
      <3>2. CASE r.id \notin 1..Len(messages)
        BY <1>1, <1>9, <3>2 DEF Composer!ServeChange
      <3> QED BY <3>1, <3>2
    <2>2. ASSUME r.id \in 1..Len(messages)
          PROVE  /\ row \in SentRow /\ row.key = messages[r.id].key
                 /\ row.form = messages[r.id].form /\ row.composed = messages[r.id].composed
      <3>1. messages[r.id] \in SentRow
        BY <1>1, <2>2
      <3>2. messages[r.id].rev + 1 \in Nat
        BY <3>1 DEF SentRow
      <3>4. r.text \in Words /\ messages[r.id].text \in Words /\ (r.kind = "edit") \in BOOLEAN
        BY <1>1, <3>1 DEF RequestRow, SentRow
      <3>5. (IF r.kind = "edit" THEN r.text ELSE messages[r.id].text) \in Words
        BY <3>4
      <3>6. PICK text \in Words : text = IF r.kind = "edit" THEN r.text ELSE messages[r.id].text
        BY <3>5
      <3>7. PICK live \in BOOLEAN : live = (r.kind = "edit")
        BY <3>4
      <3>8. row = [messages[r.id] EXCEPT !.rev = messages[r.id].rev + 1, !.live = live, !.text = text]
        BY <3>6, <3>7
      <3>9. PICK rev \in Nat : rev = messages[r.id].rev + 1
        BY <3>2
      <3>10. row = [messages[r.id] EXCEPT !.rev = rev, !.live = live, !.text = text]
        BY <3>8, <3>9
      <3> HIDE DEF row
      <3> QED BY <3>1, <3>10 DEF SentRow
    <2> HIDE DEF row
    <2>3. messages' \in Seq(SentRow) /\ DistinctKeys' /\ Composed' = Composed
      BY <2>1, <2>2, RowKept
    <2> QED BY <1>6, <2>3 DEF Attempts
  <1> QED BY <1>7, <1>8, <1>9 DEF Composer!Serve, Composer!ServeCreate

LEMMA BoardInductive == CInv /\ [Composer!BoardNext]_BoardVars => CInv'
  <1> SUFFICES ASSUME CInv, [Composer!BoardNext]_BoardVars PROVE CInv'
    OBVIOUS
  <1>1. CASE UNCHANGED BoardVars
    BY <1>1 DEF BoardVars, CInv, BoardShape, DistinctKeys, Attempts, Composed, OnTheWay
  <1>2. ASSUME NEW r \in Reads,
               \/ Composer!Poll(r) \/ Composer!ServeRead(r) \/ Composer!ReadArrives(r)
               \/ Composer!ReadFails(r) \/ \E h \in Homes : Composer!SelectHousehold(h, r)
               \/ \E q \in sent : Composer!Succeeded(q, r)
        PROVE  CInv'
    BY <1>2, ReadsInv, RequestEndsInv
  <1>3. ASSUME NEW q \in sent, Composer!Serve(q) \/ Composer!Failed(q) \/ Composer!Vanish(q)
        PROVE  CInv'
    BY <1>3, ServeRequestInv, RequestEndsInv
  <1> QED BY <1>1, <1>2, <1>3, DialogsInv, TypeInv, SendTextInv, WithdrawInv, OtherMembersInv
          DEF Composer!BoardNext

\* A text that goes out again from its dialog never becomes a second message, whichever
\* answers were lost: the messages of one dialog with one text are of different attempts,
\* with another text between them.
THEOREM OneMessagePerAttemptHolds == MCSpec => []OneMessagePerAttempt
  <1> DEFINE Inv == part = "composer" => CInv
  <1>1. MCInit => Inv
    BY BoardStart DEF MCInit
  <1>2. Inv /\ [MCNext]_MCVars => Inv'
    <2> SUFFICES ASSUME Inv, [MCNext]_MCVars, part' = "composer" PROVE CInv'
      OBVIOUS
    <2>1. part = "composer" /\ [Composer!BoardNext]_BoardVars
      BY DEF MCNext, MCVars, BoardVars
    <2> QED BY <2>1, BoardInductive
  <1>3. Inv => OneMessagePerAttempt
    <2> SUFFICES ASSUME CInv, NEW i \in 1..Len(messages), NEW j \in 1..Len(messages), i # j,
                        messages[i].form = messages[j].form,
                        messages[i].composed = messages[j].composed
                 PROVE  \/ messages[i].key > messages[j].key + 1
                        \/ messages[j].key > messages[i].key + 1
      BY DEF OneMessagePerAttempt, Composer!OneMessagePerAttempt
    <2> DEFINE At(k) == [form |-> messages[k].form, key |-> messages[k].key,
                         text |-> messages[k].composed]
    <2>1. At(i) \in Attempts /\ At(j) \in Attempts
      BY DEF Attempts, Composed
    <2>2. messages[i].key # messages[j].key
      BY DEF CInv, DistinctKeys
    <2>3. messages[j].key # messages[i].key + 1 /\ messages[i].key # messages[j].key + 1
      BY <2>1 DEF CInv, Coherent
    <2>4. messages[i].key \in Nat /\ messages[j].key \in Nat
      <3>1. messages[i] \in SentRow /\ messages[j] \in SentRow
        BY DEF CInv, BoardShape
      <3> QED BY <3>1 DEF SentRow
    <2> QED BY <2>2, <2>3, <2>4
  <1> QED BY <1>1, <1>2, <1>3, PTL DEF MCSpec

=============================================================================
