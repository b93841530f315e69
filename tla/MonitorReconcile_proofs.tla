---------------------- MODULE MonitorReconcile_proofs ----------------------
(***************************************************************************)
(* Proofs about MonitorReconcile, for every set of events, pages and links *)
(* and every calendar.  One inductive invariant carries them.  To the four *)
(* properties that TLC checks it adds what makes them inductive: an event  *)
(* that is gone has lost its message, and no live message was stopped.     *)
(***************************************************************************)
EXTENDS MonitorReconcile, TLAPS

TaskRow    == [state : {"draft", "active", "paused", "deleted"},
               weather : BOOLEAN, baseline : SUBSET Source]
EventRow   == [exists : BOOLEAN, active : BOOLEAN, day : Nat, msg : Pages \cup {None}]
MessageRow == [state : Live \cup Ended \cup {"none"}, day : Nat, stopped : BOOLEAN]

\* The shape of the rows.
Shape ==
  /\ task \in TaskRow /\ now \in Nat /\ settled \in BOOLEAN
  /\ event \in [Events -> EventRow]
  /\ message \in [Messages -> MessageRow]

\* The sweep of reconcileEvents over the events that are gone, and the reset by
\* an edit, leave no message behind.
GoneUnlinked == \A k \in Events : event[k].exists /\ ~event[k].active => ~Linked(k)

\* A stop ends a message, it does not mark a live one.
LiveNotStopped == \A m \in Messages : IsLive(m) => ~message[m].stopped

IInv == /\ Shape /\ LiveIsLinked /\ StoppedAnnouncesNothing
        /\ RunAnnounces /\ BaselineStands /\ GoneUnlinked /\ LiveNotStopped

-----------------------------------------------------------------------------
(* Lemmas *)

\* Days are numbers, and the links of events lead to messages.
LEMMA Linking ==
  ASSUME Shape
  PROVE  /\ Days \subseteq Nat
         /\ \A k \in Events : event[k] \in EventRow
         /\ \A k \in Events : event[k].msg # None => <<k, event[k].msg>> \in Messages
         /\ \A m \in Messages : /\ message[m] \in MessageRow
                                /\ m[1] \in Events /\ m[2] \in Pages /\ m = <<m[1], m[2]>>
  BY Calendar DEF Shape, Days, EventRow, Messages

\* What ends a message leaves a message row that is not live.
LEMMA EndRows ==
  ASSUME NEW row \in MessageRow, NEW stop \in BOOLEAN
  PROVE  /\ EndRow(row, stop) \in MessageRow /\ EndRow(row, stop).state \notin Live
         /\ EndRow(row, stop).stopped = stop
  BY DEF EndRow, MessageRow, Live, Ended

\* EndLinked ends the live messages that the chosen events link to, and no other.
LEMMA EndLinks ==
  ASSUME Shape, NEW S, NEW stop \in BOOLEAN
  PROVE  /\ EndLinked(S, stop) \in [Messages -> MessageRow]
         /\ \A m \in Messages :
              \/ EndLinked(S, stop)[m] = message[m]
                 /\ ~(m[1] \in S /\ Linked(m[1]) /\ event[m[1]].msg = m[2])
              \/ /\ EndLinked(S, stop)[m].state \notin Live
                 /\ EndLinked(S, stop)[m].stopped = stop
                 /\ m[1] \in S /\ Linked(m[1]) /\ event[m[1]].msg = m[2]
  <1>1. \A m \in Messages : /\ EndRow(message[m], stop) \in MessageRow
                            /\ EndRow(message[m], stop).state \notin Live
                            /\ EndRow(message[m], stop).stopped = stop
    BY Linking, EndRows
  <1>2. \A m \in Messages : message[m] \in MessageRow
    BY Linking
  <1> QED BY <1>1, <1>2 DEF EndLinked

\* A step that leaves no live message, no manifest and no settled run.
LEMMA Silenced ==
  ASSUME Shape', ~settled', task'.baseline = {},
         \A m \in Messages : message'[m].state \notin Live
  PROVE  IInv'
  <1>1. \A k \in Events : ~Linked(k)'
    BY DEF Linked, IsLive, Shape, EventRow, Messages
  <1> QED BY <1>1 DEF IInv, LiveIsLinked, StoppedAnnouncesNothing, RunAnnounces,
            BaselineStands, GoneUnlinked, LiveNotStopped, IsLive

\* withdrawMonitorMessages reaches every live message, because each is linked.
LEMMA WithdrawSilences ==
  ASSUME IInv, message' = WithdrawMonitorMessages
  PROVE  /\ message' \in [Messages -> MessageRow]
         /\ \A m \in Messages : message'[m].state \notin Live
  <1>1. \A m \in Messages : IsLive(m) => Linked(m[1]) /\ event[m[1]].msg = m[2] /\ m[1] \in Events
    BY Linking, NoneIsNoPage DEF IInv, LiveIsLinked, Linked
  <1>2. /\ EndLinked(Events, TRUE) \in [Messages -> MessageRow]
        /\ \A m \in Messages :
             \/ EndLinked(Events, TRUE)[m] = message[m]
                /\ ~(m[1] \in Events /\ Linked(m[1]) /\ event[m[1]].msg = m[2])
             \/ EndLinked(Events, TRUE)[m].state \notin Live
    BY EndLinks DEF IInv
  <1> QED BY <1>1, <1>2 DEF WithdrawMonitorMessages, IsLive

-----------------------------------------------------------------------------
(* The invariant is inductive *)

\* Before the first run there is nothing to announce.
LEMMA InitInv == Init => IInv
  <1> SUFFICES ASSUME Init PROVE IInv
    OBVIOUS
  <1>1. Shape
    BY DEF Init, Shape, TaskRow, EventRow, MessageRow, NoEvent, NoMessage, None
  <1>2. \A m \in Messages : message[m].state \notin Live
    BY DEF Init, NoMessage, Live
  <1>3. \A k \in Events : ~event[k].exists /\ ~event[k].active
    BY DEF Init, NoEvent
  <1> QED BY <1>1, <1>2, <1>3
       DEF IInv, LiveIsLinked, StoppedAnnouncesNothing, RunAnnounces, BaselineStands,
           GoneUnlinked, LiveNotStopped, IsLive, Init

\* What stops the task silences it.
LEMMA StopKeeps ==
  ASSUME IInv, Pause \/ Update \/ Remove
  PROVE  IInv'
  <1>1. message' = WithdrawMonitorMessages /\ ~settled' /\ task'.baseline = {}
    BY DEF Pause, Update, Remove, IInv, Shape, TaskRow
  <1>2. /\ message' \in [Messages -> MessageRow]
        /\ \A m \in Messages : message'[m].state \notin Live
    BY <1>1, WithdrawSilences
  <1>3. task' \in TaskRow /\ now' \in Nat /\ settled' \in BOOLEAN
    BY DEF Pause, Update, Remove, IInv, Shape, TaskRow
  <1>4. event' \in [Events -> EventRow]
    <2>1. \A row \in EventRow : Inactive(row) \in EventRow
      BY DEF EventRow, Inactive
    <2>2. NoEvent \in EventRow
      BY DEF EventRow, NoEvent
    <2> QED BY <2>1, <2>2 DEF Pause, Update, Remove, IInv, Shape
  <1>5. Shape'
    BY <1>2, <1>3, <1>4 DEF Shape
  <1> QED BY <1>1, <1>2, <1>5, Silenced

\* A message that ends by time or by a user, or is published, was live and is
\* not one that a stop ended.
LEMMA FadingKeeps ==
  ASSUME IInv, UNCHANGED <<task, event>>, now' \in Nat, now' >= now, settled' = FALSE,
         message' \in [Messages -> MessageRow],
         \A m \in Messages : \/ message'[m] = message[m]
                             \/ IsLive(m) /\ ~message'[m].stopped
  PROVE  IInv'
  <1>1. Shape'
    BY DEF IInv, Shape
  <1>2. \A m \in Messages : IsLive(m)' => IsLive(m)
    BY DEF IsLive
  <1>3. \A k \in Events : Linked(k)' => Linked(k)
    BY <1>2, Linking DEF Linked, IInv
  <1>4. LiveIsLinked' /\ StoppedAnnouncesNothing' /\ GoneUnlinked'
    BY <1>2, <1>3 DEF IInv, LiveIsLinked, StoppedAnnouncesNothing, GoneUnlinked
  <1>5. LiveNotStopped'
    BY <1>2 DEF IInv, LiveNotStopped
  <1>6. BaselineStands'
    <2> SUFFICES ASSUME task.baseline # {}, NEW k \in Events, event[k].active,
                        LastsUntil(event[k].day) > now'
                 PROVE  event[k].msg # None /\ ~message'[<<k, event[k].msg>>].stopped
      BY DEF BaselineStands
    <2>1. LastsUntil(event[k].day) > now
      BY Linking DEF LastsUntil, IInv, Shape, EventRow
    <2>2. event[k].msg # None /\ ~message[<<k, event[k].msg>>].stopped
      BY <2>1 DEF IInv, BaselineStands
    <2>3. <<k, event[k].msg>> \in Messages
      BY <2>2, Linking DEF IInv
    <2> QED BY <2>2, <2>3
  <1>7. RunAnnounces'
    BY DEF RunAnnounces
  <1> QED BY <1>1, <1>4, <1>5, <1>6, <1>7 DEF IInv

\* A message that a run moves or announces is live, and was not stopped.
LEMMA FoundRows ==
  ASSUME NEW day \in Days, NEW row \in MessageRow
  PROVE  /\ Announced(day) \in MessageRow /\ Announced(day).state \in Live
         /\ Announced(day).day = day /\ ~Announced(day).stopped
         /\ Moved(row, day) \in MessageRow /\ Moved(row, day).state = row.state
         /\ Moved(row, day).day = day /\ Moved(row, day).stopped = row.stopped
  <1>1. day \in Nat
    BY Calendar DEF Days
  <1> QED BY <1>1 DEF Announced, Moved, MessageRow, Live

\* reconcileEvents moves the message of each upcoming event it found, announces
\* those that have none, ends those of the events that are gone, and leaves the
\* others alone.
LEMMA ReconcileRows ==
  ASSUME Shape, NEW F \in SUBSET Events, NEW found \in [F -> Days], NEW page \in Pages,
         NEW m \in Messages
  PROVE  \/ /\ m[1] \in Upcoming(found) /\ Linked(m[1]) /\ event[m[1]].msg = m[2]
            /\ ReconciledMessages(found, page)[m] = Moved(message[m], found[m[1]])
         \/ /\ m[1] \in Upcoming(found) /\ ~Linked(m[1]) /\ m[2] = page
            /\ ReconciledMessages(found, page)[m] = Announced(found[m[1]])
         \/ /\ m[1] \in Gone(found) /\ Linked(m[1]) /\ event[m[1]].msg = m[2]
            /\ ReconciledMessages(found, page)[m] \in MessageRow
            /\ ReconciledMessages(found, page)[m].state \notin Live
            /\ ~ReconciledMessages(found, page)[m].stopped
         \/ /\ ReconciledMessages(found, page)[m] = message[m]
            /\ ~(m[1] \in Upcoming(found) /\ Linked(m[1]) /\ event[m[1]].msg = m[2])
            /\ ~(m[1] \in Upcoming(found) /\ ~Linked(m[1]) /\ m[2] = page)
            /\ ~(m[1] \in Gone(found) /\ Linked(m[1]) /\ event[m[1]].msg = m[2])
  <1>1. m[1] \in Upcoming(found) => m[1] \notin Gone(found)
    BY DEF Upcoming, Gone
  <1>2. /\ EndLinked(Gone(found), FALSE)[m] \in MessageRow
        /\ \/ EndLinked(Gone(found), FALSE)[m] = message[m]
              /\ ~(m[1] \in Gone(found) /\ Linked(m[1]) /\ event[m[1]].msg = m[2])
           \/ /\ EndLinked(Gone(found), FALSE)[m].state \notin Live
              /\ EndLinked(Gone(found), FALSE)[m].stopped = FALSE
              /\ m[1] \in Gone(found) /\ Linked(m[1]) /\ event[m[1]].msg = m[2]
    <2> DEFINE G == Gone(found)
    <2> HIDE DEF G
    <2>1. EndLinked(G, FALSE) \in [Messages -> MessageRow]
      BY EndLinks
    <2>2. \/ EndLinked(G, FALSE)[m] = message[m]
             /\ ~(m[1] \in G /\ Linked(m[1]) /\ event[m[1]].msg = m[2])
          \/ /\ EndLinked(G, FALSE)[m].state \notin Live
             /\ EndLinked(G, FALSE)[m].stopped = FALSE
             /\ m[1] \in G /\ Linked(m[1]) /\ event[m[1]].msg = m[2]
      BY EndLinks
    <2> QED BY <2>1, <2>2 DEF G
  <1> DEFINE moved == /\ m[1] \in Upcoming(found) /\ Linked(m[1]) /\ event[m[1]].msg = m[2]
             fresh == m[1] \in Upcoming(found) /\ ~Linked(m[1]) /\ m[2] = page
  <1>3. ReconciledMessages(found, page)[m] =
          CASE moved -> Moved(message[m], found[m[1]])
            [] fresh -> Announced(found[m[1]])
            [] OTHER -> EndLinked(Gone(found), FALSE)[m]
    BY DEF ReconciledMessages, Updatable
  <1>4. CASE moved
    BY <1>3, <1>4
  <1>5. CASE fresh
    BY <1>3, <1>5
  <1>6. CASE ~moved /\ ~fresh
    <2>1. ReconciledMessages(found, page)[m] = EndLinked(Gone(found), FALSE)[m]
      BY <1>3, <1>6
    <2> QED BY <2>1, <1>2, <1>6
  <1> QED BY <1>4, <1>5, <1>6

\* A run that commits keeps the invariant.
LEMMA ReconcileKeeps ==
  ASSUME IInv, NEW s \in Source, NEW found \in Findings, Reconcile(s, found)
  PROVE  IInv'
  <1> DEFINE page == s.page
             Found(k) == k \in Upcoming(found)
  <1>0. PICK F \in SUBSET Events : found \in [F -> Days]
    BY DEF Findings
  <1>1. /\ page \in Pages /\ DOMAIN found = F
        /\ \A k \in F : found[k] \in Days /\ found[k] \in Nat
        /\ \A k \in Events : Found(k) <=> k \in F /\ LastsUntil(found[k]) > now
    BY <1>0, Linking DEF Source, Upcoming, IInv
  <1>2. ASSUME NEW k \in Events
        PROVE  /\ event'[k].msg = IF Found(k) /\ ~Linked(k) THEN page ELSE event[k].msg
               /\ k \in F => event'[k].exists /\ event'[k].active /\ event'[k].day = found[k]
               /\ k \notin F => event'[k].exists = event[k].exists /\ ~event'[k].active
               /\ event'[k] \in EventRow
    <2>1. event[k] \in EventRow
      BY Linking DEF IInv
    <2>2. event'[k] = IF k \in F
                      THEN [exists |-> TRUE, active |-> TRUE, day |-> found[k],
                            msg |-> Relinked(found, page, k)]
                      ELSE Inactive(event[k])
      BY <1>1 DEF Reconcile, ReconciledEvents
    <2>3. Relinked(found, page, k) = IF Found(k) /\ ~Linked(k) THEN page ELSE event[k].msg
      BY DEF Relinked, Updatable
    <2>4. CASE k \in F
      <3>1. Relinked(found, page, k) \in Pages \cup {None}
        BY <1>1, <2>1, <2>3 DEF EventRow
      <3>2. event'[k] = [exists |-> TRUE, active |-> TRUE, day |-> found[k],
                         msg |-> Relinked(found, page, k)]
        BY <2>2, <2>4
      <3> HIDE DEF page, Found
      <3>3. event'[k] \in EventRow
        BY <1>1, <2>4, <3>1, <3>2 DEF EventRow
      <3> QED BY <2>3, <2>4, <3>2, <3>3
    <2>5. CASE k \notin F
      <3>1. event'[k] = Inactive(event[k]) /\ ~Found(k)
        BY <1>1, <2>2, <2>5
      <3> HIDE DEF page, Found
      <3>2. \A row \in EventRow : /\ Inactive(row) \in EventRow /\ ~Inactive(row).active
                                  /\ Inactive(row).exists = row.exists
                                  /\ Inactive(row).msg = row.msg
        BY DEF EventRow, Inactive
      <3>3. event'[k] \in EventRow /\ event'[k].msg = event[k].msg
            /\ event'[k].exists = event[k].exists /\ ~event'[k].active
        BY <2>1, <3>1, <3>2
      <3> QED BY <2>5, <3>1, <3>3
    <2> QED BY <2>4, <2>5
  <1>3. ASSUME NEW m \in Messages
        PROVE  \/ /\ Found(m[1]) /\ Linked(m[1]) /\ event[m[1]].msg = m[2]
                  /\ message'[m] = Moved(message[m], found[m[1]])
               \/ /\ Found(m[1]) /\ ~Linked(m[1]) /\ m[2] = page
                  /\ message'[m] = Announced(found[m[1]])
               \/ /\ m[1] \in Gone(found) /\ Linked(m[1]) /\ event[m[1]].msg = m[2]
                  /\ message'[m] \in MessageRow /\ message'[m].state \notin Live
                  /\ ~message'[m].stopped
               \/ /\ message'[m] = message[m]
                  /\ ~(Found(m[1]) /\ Linked(m[1]) /\ event[m[1]].msg = m[2])
                  /\ ~(Found(m[1]) /\ ~Linked(m[1]) /\ m[2] = page)
                  /\ ~(m[1] \in Gone(found) /\ Linked(m[1]) /\ event[m[1]].msg = m[2])
    <2>1. message'[m] = ReconciledMessages(found, page)[m]
      BY DEF Reconcile
    <2>2. Shape /\ page \in Pages /\ F \in SUBSET Events /\ found \in [F -> Days]
      BY <1>0, <1>1 DEF IInv
    <2> HIDE DEF page
    <2> QED BY <2>1, <2>2, ReconcileRows
  <1>4. \A m \in Messages : Found(m[1]) =>
          /\ m[1] \in Events
          /\ Announced(found[m[1]]) \in MessageRow /\ Announced(found[m[1]]).state \in Live
          /\ Announced(found[m[1]]).day = found[m[1]] /\ ~Announced(found[m[1]]).stopped
          /\ Moved(message[m], found[m[1]]) \in MessageRow
          /\ Moved(message[m], found[m[1]]).state = message[m].state
          /\ Moved(message[m], found[m[1]]).day = found[m[1]]
          /\ Moved(message[m], found[m[1]]).stopped = message[m].stopped
    BY <1>1, Linking, FoundRows DEF IInv
  <1>5. \A m \in Messages : message[m] \in MessageRow /\ m[1] \in Events /\ m[2] \in Pages
                            /\ m = <<m[1], m[2]>>
    BY Linking DEF IInv
  <1>6. Shape'
    <2>1. task' \in TaskRow /\ now' \in Nat /\ settled' \in BOOLEAN
      BY DEF Reconcile, IInv, Shape, TaskRow
    <2>2. event' \in [Events -> EventRow]
      BY <1>2 DEF Reconcile, ReconciledEvents
    <2>3. message' \in [Messages -> MessageRow]
      <3>1. \A m \in Messages : message'[m] \in MessageRow
        BY <1>3, <1>4, <1>5
      <3> QED BY <3>1 DEF Reconcile, ReconciledMessages
    <2> QED BY <2>1, <2>2, <2>3 DEF Shape
  <1> HIDE DEF page, Found
  <1>7. \A m \in Messages : IsLive(m) => Linked(m[1]) /\ event[m[1]].msg = m[2]
                                         /\ event[m[1]].exists /\ ~message[m].stopped
    BY <1>5, NoneIsNoPage DEF IInv, LiveIsLinked, LiveNotStopped, Linked
  <1>8. ASSUME NEW m \in Messages, IsLive(m)'
        PROVE  /\ event'[m[1]].exists /\ event'[m[1]].msg = m[2] /\ ~message'[m].stopped
    BY <1>1, <1>2, <1>3, <1>4, <1>5, <1>7, <1>8 DEF IsLive
  <1>9. ASSUME NEW k \in Events, Found(k)
        PROVE  /\ Linked(k)' /\ event'[k].msg # None
               /\ message'[<<k, event'[k].msg>>].day = found[k]
               /\ ~message'[<<k, event'[k].msg>>].stopped
    <2> DEFINE m == <<k, event'[k].msg>>
    <2>1. m \in Messages /\ event'[k].msg \in Pages /\ m[1] = k /\ m[2] = event'[k].msg
      BY <1>1, <1>2, <1>9, Linking DEF Messages, Linked, IInv
    <2>2. k \notin Gone(found) /\ event'[k].exists
      BY <1>1, <1>2, <1>9 DEF Gone
    <2> HIDE DEF m
    <2>3. \/ message'[m] = Moved(message[m], found[k]) /\ IsLive(m)
          \/ message'[m] = Announced(found[k])
      BY <1>2, <1>3, <1>9, <2>1, <2>2 DEF Linked, m
    <2>4. /\ Announced(found[k]).state \in Live /\ Announced(found[k]).day = found[k]
          /\ ~Announced(found[k]).stopped
          /\ Moved(message[m], found[k]).state = message[m].state
          /\ Moved(message[m], found[k]).day = found[k]
          /\ Moved(message[m], found[k]).stopped = message[m].stopped
      BY <1>4, <1>9, <2>1
    <2>5. IsLive(m) => message[m].state \in Live /\ ~message[m].stopped
      BY <1>7, <2>1 DEF IsLive
    <2>6. /\ message'[m].state \in Live /\ message'[m].day = found[k]
          /\ ~message'[m].stopped
      BY <2>3, <2>4, <2>5
    <2>7. event'[k].msg # None
      BY <2>1, NoneIsNoPage
    <2> QED BY <2>2, <2>6, <2>7 DEF Linked, IsLive, m
  <1>10. ASSUME NEW k \in Events \ F, event'[k].exists
         PROVE  ~Linked(k)'
    <2> SUFFICES ASSUME Linked(k)' PROVE FALSE
      OBVIOUS
    <2> DEFINE m == <<k, event[k].msg>>
    <2>1. event'[k].msg = event[k].msg /\ event[k].exists /\ ~Found(k)
      BY <1>1, <1>2, <1>10
    <2>2. message'[m].state \in Live /\ event[k].msg # None
      BY <2>1 DEF Linked, IsLive
    <2>3. m \in Messages /\ m[1] = k /\ m[2] = event[k].msg
      BY <2>2, Linking DEF IInv
    <2> HIDE DEF m
    <2>4. message'[m] = message[m] /\ ~(k \in Gone(found) /\ Linked(k))
      <3>1. message'[m].state \in Live /\ event[m[1]].msg = m[2]
        BY <2>2, <2>3
      <3>0. ~Found(m[1])
        BY <2>1, <2>3, Zenon
      <3>2. message'[m] = message[m] /\ ~(m[1] \in Gone(found) /\ Linked(m[1]))
        BY <1>3, <2>3, <3>0, <3>1
      <3> QED BY <2>3, <3>2
    <2>5. Linked(k)
      BY <2>1, <2>2, <2>4 DEF Linked, IsLive, m
    <2>6. event[k].active
      BY <2>1, <2>5 DEF IInv, GoneUnlinked
    <2> QED BY <1>1, <1>10, <2>1, <2>4, <2>5, <2>6 DEF Gone
  <1>11. task' = [task EXCEPT !.baseline = {s}] /\ task.state = "active" /\ now' = now
    BY DEF Reconcile
  <1>12. LiveIsLinked' /\ LiveNotStopped'
    BY <1>8 DEF LiveIsLinked, LiveNotStopped
  <1>13. StoppedAnnouncesNothing'
    BY <1>11 DEF StoppedAnnouncesNothing, IInv, Shape, TaskRow
  <1>14. GoneUnlinked'
    BY <1>2, <1>10 DEF GoneUnlinked
  <1>15. \A k \in F : LastsUntil(event'[k].day) > now' => Found(k)
    BY <1>1, <1>2, <1>11
  <1>16. RunAnnounces'
    BY <1>2, <1>9, <1>10, <1>15 DEF RunAnnounces
  <1>17. BaselineStands'
    BY <1>2, <1>9, <1>15 DEF BaselineStands
  <1> QED BY <1>6, <1>12, <1>13, <1>14, <1>16, <1>17 DEF IInv

\* Every step keeps the invariant.
LEMMA StepInv == IInv /\ [Next]_vars => IInv'
  <1> SUFFICES ASSUME IInv, [Next]_vars PROVE IInv'
    OBVIOUS
  <1>same. UNCHANGED vars => IInv'
    BY DEF vars, IInv, Shape, LiveIsLinked, StoppedAnnouncesNothing, RunAnnounces,
           BaselineStands, GoneUnlinked, LiveNotStopped, IsLive, Linked
  <1>1. CASE Start
    <2>1. Shape'
      BY <1>1 DEF Start, IInv, Shape, TaskRow
    <2> QED BY <1>1, <2>1
            DEF Start, IInv, Shape, TaskRow, LiveIsLinked, StoppedAnnouncesNothing, RunAnnounces,
                BaselineStands, GoneUnlinked, LiveNotStopped, IsLive, Linked
  <1>2. CASE Pause \/ Update \/ Remove
    BY <1>2, StopKeeps
  <1>3. CASE RunLifecycleBatch
    <2>1. PICK S \in SUBSET {m \in Messages : Due(m)} :
            message' = [m \in Messages |->
                          IF m \in S THEN Transitioned(message[m]) ELSE message[m]]
      BY <1>3 DEF RunLifecycleBatch
    <2>2. \A m \in S : m \in Messages /\ IsLive(m)
      BY DEF Due, IsLive, Live
    <2>3. \A row \in MessageRow : /\ Transitioned(row) \in MessageRow
                                  /\ Transitioned(row).stopped = row.stopped
      BY DEF Transitioned, MessageRow, Live, Ended
    <2>4. \A m \in Messages : message[m] \in MessageRow
      BY Linking DEF IInv
    <2>5. message' \in [Messages -> MessageRow]
      BY <2>1, <2>3, <2>4
    <2>6. \A m \in Messages : \/ message'[m] = message[m]
                              \/ IsLive(m) /\ ~message'[m].stopped
      BY <2>1, <2>2, <2>3, <2>4 DEF IInv, LiveNotStopped
    <2>7. /\ UNCHANGED <<task, event>> /\ now' \in Nat /\ now' >= now
          /\ settled' = FALSE
      BY <1>3 DEF RunLifecycleBatch, IInv, Shape
    <2> QED BY <2>5, <2>6, <2>7, FadingKeeps
  <1>4. ASSUME NEW m \in Messages, UserWithdraws(m) PROVE IInv'
    <2>1. /\ EndRow(message[m], FALSE) \in MessageRow
          /\ EndRow(message[m], FALSE).stopped = FALSE
      BY Linking, EndRows DEF IInv
    <2>2. message' = [message EXCEPT ![m] = EndRow(message[m], FALSE)] /\ IsLive(m)
      BY <1>4 DEF UserWithdraws
    <2>3. /\ message' \in [Messages -> MessageRow]
          /\ \A x \in Messages : \/ message'[x] = message[x]
                                 \/ IsLive(x) /\ ~message'[x].stopped
      BY <2>1, <2>2 DEF IInv, Shape
    <2>4. /\ UNCHANGED <<task, event>> /\ now' \in Nat /\ now' >= now
          /\ settled' = FALSE
      BY <1>4 DEF UserWithdraws, IInv, Shape
    <2> QED BY <2>3, <2>4, FadingKeeps
  <1>5. CASE DayPasses
    <2>1. now' \in Nat /\ now' >= now
      BY <1>5 DEF DayPasses, IInv, Shape
    <2> QED BY <1>5, <2>1, FadingKeeps DEF DayPasses, IInv, Shape
  <1> QED BY <1>same, <1>1, <1>2, <1>3, <1>4, <1>5, ReconcileKeeps
          DEF Next, FinishUnchanged, RollBack

-----------------------------------------------------------------------------
\* The invariant holds of every reachable state.
LEMMA AlwaysIInv == Spec => []IInv
  BY InitInv, StepInv, PTL DEF Spec

\* Whatever stops the task reaches every live message, since each is linked.
THEOREM LiveIsLinkedHolds == Spec => []LiveIsLinked
  BY AlwaysIInv, PTL DEF IInv

\* A task that is not active announces nothing.
THEOREM StoppedAnnouncesNothingHolds == Spec => []StoppedAnnouncesNothing
  BY AlwaysIInv, PTL DEF IInv

\* A run that found changes leaves exactly the messages it found.
THEOREM RunAnnouncesHolds == Spec => []RunAnnounces
  BY AlwaysIInv, PTL DEF IInv

\* A stored manifest never stands for messages that a stop of the task ended.
THEOREM BaselineStandsHolds == Spec => []BaselineStands
  BY AlwaysIInv, PTL DEF IInv
=============================================================================
