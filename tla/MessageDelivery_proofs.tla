------------------------ MODULE MessageDelivery_proofs ------------------------
(***************************************************************************)
(* Proofs about MessageDelivery, for every set of displays.                *)
(*                                                                         *)
(* That the delivery rows are truthful is not inductive: a projection      *)
(* request writes the revision it selected in an earlier statement         *)
(* (MarkApply), without reading the message again.  The invariant says     *)
(* what keeps such a write harmless.  Only the request of a display marks  *)
(* its deliveries, so that while one is about to be marked, nothing newer  *)
(* can have been delivered, let alone acknowledged (Marking); and what was *)
(* acknowledged at the current revision is displayed or ended, so that no  *)
(* request selects it (Acknowledged).                                      *)
(***************************************************************************)
EXTENDS MCMessageDelivery, TLAPS

TargetStates == Pending \cup {"none", "cancelled", "expired", "failed"}
MessageRow == [state : {"absent"} \cup Live \cup Ended, rev : Nat,
               opened : BOOLEAN, over : BOOLEAN]
TargetRow  == [state : TargetStates, rev : Nat]
FetchRow   == [step : {"none", "read", "mark", "apply", "respond"}, private : BOOLEAN,
               card : Nat, marked : Nat]
ScreenRow  == [card : Nat, acked : SUBSET Nat]

\* The shape of the tables and of the clients.
Shape ==
  /\ message \in MessageRow
  /\ target \in [Displays -> TargetRow]
  /\ display \in [Displays -> [private : BOOLEAN, revoked : BOOLEAN]]
  /\ acks \subseteq Displays \X Nat
  /\ handler \in [op : {"none", "create", "edit", "keep"}, displays : SUBSET Displays]
  /\ fetch \in [Displays -> FetchRow]
  /\ screen \in [Displays -> ScreenRow]

\* A handler finds the message as it checked it: nothing else creates it, and the
\* row lock of an edit keeps it live.
Handled == /\ handler.op = "create" => message.state = "absent"
           /\ handler.op \in {"edit", "keep"} => IsLive
           /\ message.state = "absent" => message.rev = 0

\* Only revisions that the message has had are delivered or acknowledged.
Revisions == /\ \A d \in Displays : target[d].rev <= message.rev
             /\ \A d \in Displays, rev \in Nat : <<d, rev>> \in acks => rev <= message.rev

Reached == {"delivered", "displayed"}
Unseen  == message.state \in {"absent", "scheduled"}

\* Nothing is delivered before the message is published.
Published == Unseen => \A d \in Displays : target[d].state \notin Reached

\* An acknowledgement of the current revision leaves nothing to deliver.
Acknowledged ==
  \A d \in Displays : <<d, message.rev>> \in acks =>
    /\ target[d].state \notin {"queued", "delivered"}
    /\ target[d].state = "displayed" => target[d].rev = message.rev

\* While a request is about to mark a delivery, nobody else has delivered or
\* acknowledged what it marks, or anything newer.
Marking ==
  \A d \in Displays : fetch[d].step = "apply" /\ fetch[d].marked # 0 =>
    /\ fetch[d].marked <= message.rev /\ ~Unseen
    /\ <<d, fetch[d].marked>> \notin acks /\ <<d, message.rev>> \notin acks
    /\ target[d].state \in Reached => target[d].rev # message.rev

IInv == /\ Shape /\ Handled /\ Revisions /\ Published /\ Acknowledged /\ Marking
        /\ DeliveriesTruthful

-----------------------------------------------------------------------------
(* The invariant *)

\* Nothing was delivered before there is a message.
LEMMA InitInv == Init => IInv
  <1> SUFFICES ASSUME Init PROVE IInv
    OBVIOUS
  <1>1. Shape
    BY DEF Init, Shape, MessageRow, TargetRow, FetchRow, ScreenRow, NoTarget, NoHandler,
       NoFetch, Blank, TargetStates
  <1>2. Handled /\ Revisions /\ Published /\ Acknowledged
    BY DEF Init, Handled, Revisions, Published, Acknowledged, NoTarget, NoHandler, Reached
  <1>3. Marking /\ DeliveriesTruthful
    BY DEF Init, Marking, DeliveriesTruthful, NoTarget, NoFetch, Ended
  <1> QED BY <1>1, <1>2, <1>3 DEF IInv

\* Steps of displays, clients and time that leave the message's state, its revision
\* and its deliveries alone.
LEMMA Elsewhere ==
  ASSUME IInv, Shape', message'.state = message.state, message'.rev = message.rev,
         UNCHANGED <<target, acks>>, Handled',
         \A d \in Displays : display[d].revoked => display'[d].revoked,
         \A d \in Displays : fetch'[d].step = "apply" => fetch'[d] = fetch[d]
  PROVE  IInv'
  <1>1. Revisions' /\ Published' /\ Acknowledged'
    BY DEF IInv, Revisions, Published, Acknowledged, Unseen
  <1>2. Marking'
    BY DEF IInv, Marking, Unseen
  <1>3. DeliveriesTruthful'
    BY DEF IInv, DeliveriesTruthful
  <1> QED BY <1>1, <1>2, <1>3 DEF IInv

\* A new revision: nobody has acknowledged it, and what is left of earlier deliveries
\* is not a claim about it.
LEMMA NewRevision ==
  ASSUME IInv, Shape', Handled', UNCHANGED <<acks, fetch, display>>,
         message'.rev = message.rev + 1, Unseen' => Unseen,
         \A d \in Displays : target'[d].rev <= message.rev,
         \A d \in Displays : target'[d].state \in Reached => target'[d] = target[d],
         \A d \in Displays : target'[d].state = "displayed" => display[d].revoked,
         message'.state \in Ended => \A d \in Displays : target'[d].state \notin Pending
  PROVE  IInv'
  <1>1. /\ message.rev \in Nat /\ message'.rev \in Nat
        /\ \A d \in Displays : target'[d].rev \in Nat /\ fetch[d].marked \in Nat
    BY DEF IInv, Shape, MessageRow, TargetRow, FetchRow
  <1>2. \A d \in Displays : <<d, message'.rev>> \notin acks
    BY <1>1 DEF IInv, Revisions
  <1>3. Revisions'
    BY <1>1 DEF IInv, Revisions
  <1>4. Published' /\ Acknowledged'
    BY <1>2 DEF IInv, Published, Acknowledged
  <1>5. Marking'
    <2> SUFFICES ASSUME NEW d \in Displays, fetch[d].step = "apply", fetch[d].marked # 0
                 PROVE  /\ fetch[d].marked <= message'.rev /\ ~Unseen'
                        /\ <<d, fetch[d].marked>> \notin acks /\ <<d, message'.rev>> \notin acks
                        /\ target'[d].state \in Reached => target'[d].rev # message'.rev
      BY DEF Marking
    <2>1. fetch[d].marked <= message.rev /\ ~Unseen /\ <<d, fetch[d].marked>> \notin acks
      BY DEF IInv, Marking
    <2> QED BY <1>1, <1>2, <2>1
  <1>6. DeliveriesTruthful'
    BY DEF IInv, DeliveriesTruthful, Reached
  <1> QED BY <1>3, <1>4, <1>5, <1>6 DEF IInv

-----------------------------------------------------------------------------
(* The handlers *)

\* A handler checks its request, or gives up.
LEMMA ChecksInv ==
  ASSUME IInv, \/ \E D \in SUBSET Displays : CreateChecks(D) \/ EditChecks(D)
               \/ EditChecksNoAudience \/ Abandon
  PROVE  IInv'
  <1>1. UNCHANGED <<message, target, display, acks, fetch, screen>>
    BY DEF CreateChecks, EditChecks, EditChecksNoAudience, Abandon
  <1>2. /\ handler' \in [op : {"none", "create", "edit", "keep"}, displays : SUBSET Displays]
        /\ handler'.op = "create" => message.state = "absent"
        /\ handler'.op \in {"edit", "keep"} => IsLive
    BY DEF CreateChecks, EditChecks, EditChecksNoAudience, Abandon, NoHandler
  <1>3. Shape' /\ Handled'
    BY <1>1, <1>2 DEF IInv, Shape, Handled, IsLive
  <1> QED BY <1>1, <1>3, Elsewhere

\* The insert of the message and its deliveries.
LEMMA CreateInv == ASSUME IInv, Create PROVE IInv'
  <1>1. PICK opened \in BOOLEAN :
          message' = [state |-> IF opened THEN "published" ELSE "scheduled",
                      rev |-> 1, opened |-> opened, over |-> FALSE]
    BY DEF Create
  <1>2. /\ handler.op = "create" /\ handler' = NoHandler
        /\ target' = [d \in Displays |->
             IF d \in handler.displays THEN [state |-> "queued", rev |-> 0] ELSE NoTarget]
        /\ UNCHANGED <<display, acks, fetch, screen>>
    BY DEF Create
  <1>3. message.state = "absent" /\ message.rev = 0
    BY <1>2 DEF IInv, Handled
  <1>4. \A d \in Displays : target'[d] \in TargetRow /\ target'[d].rev = 0
                             /\ target'[d].state \in {"queued", "none"}
    BY <1>2 DEF TargetRow, TargetStates, Pending, NoTarget
  <1>5. message' \in MessageRow /\ message'.rev = 1 /\ message'.state \in Live
    <2>1. \A state \in Live : [state |-> state, rev |-> 1, opened |-> opened, over |-> FALSE]
                                \in MessageRow
      BY DEF MessageRow
    <2>2. PICK state \in Live :
            message' = [state |-> state, rev |-> 1, opened |-> opened, over |-> FALSE]
      BY <1>1 DEF Live
    <2>3. message' \in MessageRow
      BY <2>1, <2>2, Zenon
    <2>4. message'.rev = 1 /\ message'.state = state
      BY <2>2
    <2> QED BY <2>3, <2>4
  <1>6. Shape'
    BY <1>2, <1>4, <1>5 DEF IInv, Shape, NoHandler
  <1>7. Handled'
    BY <1>2, <1>5 DEF Handled, NoHandler, IsLive, Live
  <1> QED
    <2>1. message'.rev = message.rev + 1
      BY <1>3, <1>5
    <2>2. Unseen
      BY <1>3 DEF Unseen
    <2>3. \A d \in Displays : target'[d].rev <= message.rev /\ target'[d].state \notin Reached
      BY <1>3, <1>4 DEF Reached
    <2>4. message'.state \notin Ended
      BY <1>5 DEF Live, Ended
    <2> QED BY <1>2, <1>6, <1>7, <2>1, <2>2, <2>3, <2>4, NewRevision DEF Reached

\* The update of the message and its deliveries.
LEMMA EditInv == ASSUME IInv, Edit PROVE IInv'
  <1>1. PICK opened \in BOOLEAN :
          message' = [message EXCEPT !.rev = @ + 1, !.opened = opened, !.over = FALSE]
    BY DEF Edit
  <1>2. /\ handler.op \in {"edit", "keep"} /\ handler' = NoHandler
        /\ target' = [d \in Displays |-> EditedTarget(d)]
        /\ UNCHANGED <<display, acks, fetch, screen>>
    BY DEF Edit
  <1>3. message \in MessageRow /\ IsLive /\ message.rev \in Nat
    BY <1>2 DEF IInv, Shape, Handled, MessageRow
  <1>4. message' \in MessageRow /\ message'.rev = message.rev + 1 /\ message'.state = message.state
    <2>1. message' = [message EXCEPT !.rev = message.rev + 1, !.opened = opened, !.over = FALSE]
      BY <1>1, <1>3 DEF MessageRow
    <2>2. message.rev + 1 \in Nat
      BY <1>3
    <2> QED BY <1>3, <2>1, <2>2 DEF MessageRow
  <1>5. \A d \in Displays : target[d] \in TargetRow
    BY DEF IInv, Shape
  <1>6. ASSUME NEW d \in Displays
        PROVE  /\ target'[d] \in TargetRow /\ target'[d].rev \in {0, target[d].rev}
               /\ target'[d].state \in Reached => target'[d] = target[d]
               /\ target'[d].state = "displayed" => display[d].revoked
    <2>1. target'[d] = EditedTarget(d)
      BY <1>2
    <2>2. CASE handler.op = "keep"
      <3>1. target[d].state = "displayed" => message.state = "published"
        BY <1>3 DEF IInv, Published, Reached, Unseen, IsLive, Live
      <3> QED BY <1>5, <2>1, <2>2, <3>1 DEF EditedTarget, Queue, Reached, TargetRow, TargetStates,
               Pending
    <2>3. CASE handler.op # "keep"
      BY <1>5, <2>1, <2>3 DEF EditedTarget, Queue, NoTarget, Reached, TargetRow, TargetStates, Pending
    <2> QED BY <2>2, <2>3
  <1>7. Shape'
    BY <1>2, <1>4, <1>6 DEF IInv, Shape, NoHandler
  <1>8. Handled'
    BY <1>2, <1>3, <1>4 DEF Handled, NoHandler, IsLive, Live
  <1>9. /\ Unseen' => Unseen
        /\ message'.state \notin Ended
    BY <1>3, <1>4 DEF Unseen, IsLive, Live, Ended
  <1>10. \A d \in Displays : target'[d].rev <= message.rev
    <2>1. \A d \in Displays : target[d].rev <= message.rev
      BY DEF IInv, Revisions
    <2> QED BY <1>3, <1>6, <2>1
  <1> QED BY <1>2, <1>4, <1>6, <1>7, <1>8, <1>9, <1>10, NewRevision

\* The end of a message, with all of its deliveries.
LEMMA WithdrawInv == ASSUME IInv, Withdraw PROVE IInv'
  <1>1. /\ IsLive /\ Unlocked /\ target' = CancelAll
        /\ message' = [message EXCEPT !.rev = @ + 1,
             !.state = IF @ = "scheduled" THEN "cancelled" ELSE "withdrawn"]
        /\ UNCHANGED <<display, acks, handler, fetch, screen>>
    BY DEF Withdraw
  <1>2. message \in MessageRow /\ message.rev \in Nat
    BY DEF IInv, Shape, MessageRow
  <1>3. message' \in MessageRow /\ message'.rev = message.rev + 1 /\ message'.state \in Ended
    <2>1. PICK state \in {"cancelled", "withdrawn"} :
            message' = [message EXCEPT !.rev = message.rev + 1, !.state = state]
      BY <1>1, <1>2 DEF MessageRow
    <2>2. message.rev + 1 \in Nat
      BY <1>2
    <2> QED BY <1>2, <2>1, <2>2 DEF MessageRow, Ended
  <1>4. \A d \in Displays : target[d] \in TargetRow /\ target[d].rev <= message.rev
    BY DEF IInv, Shape, Revisions
  <1>5. \A d \in Displays : /\ target'[d] \in TargetRow /\ target'[d].rev <= message.rev
                            /\ target'[d].state \in {"none", "cancelled"}
    BY <1>1, <1>2, <1>4 DEF CancelAll, NoTarget, TargetRow, TargetStates
  <1>6. Shape'
    BY <1>1, <1>3, <1>5 DEF IInv, Shape, CancelAll
  <1>7. Handled'
    BY <1>1, <1>3 DEF IInv, Handled, Unlocked, IsLive, Live, Ended
  <1>8. ~Unseen'
    BY <1>3 DEF Unseen, Ended
  <1>9. \A d \in Displays : target'[d].state \notin Reached /\ target'[d].state \notin Pending
    BY <1>5 DEF Reached, Pending
  <1> QED BY <1>1, <1>3, <1>5, <1>6, <1>7, <1>8, <1>9, NewRevision DEF Reached

\* The worker publishes a message, or expires it with its deliveries.
LEMMA LifecycleInv == ASSUME IInv, RunLifecycleBatch PROVE IInv'
  <1>1. Unlocked /\ UNCHANGED <<display, acks, handler, fetch, screen>>
    BY DEF RunLifecycleBatch
  <1>2. message \in MessageRow /\ \A d \in Displays : target[d] \in TargetRow
    BY DEF IInv, Shape
  <1>3. ASSUME NEW state \in {"published", "expired"}, message' = [message EXCEPT !.state = state]
        PROVE  /\ message' \in MessageRow /\ message'.rev = message.rev /\ message'.state = state
               /\ ~Unseen'
    BY <1>2, <1>3 DEF MessageRow, Live, Ended, Unseen
  <1>4. CASE /\ IsLive /\ message' = [message EXCEPT !.state = "expired"]
             /\ target' = ExpireTargets
    <2>1. /\ message' \in MessageRow /\ message'.rev = message.rev /\ message'.state = "expired"
          /\ ~Unseen'
      BY <1>3, <1>4
    <2>2. \A d \in Displays :
            /\ target'[d] \in TargetRow /\ target'[d].rev = target[d].rev
            /\ target'[d].state \notin Pending
      BY <1>2, <1>4 DEF ExpireTargets, TargetRow, TargetStates, Pending
    <2>3. Shape'
      BY <1>1, <1>4, <2>1, <2>2 DEF IInv, Shape, ExpireTargets
    <2>4. Handled' /\ Revisions' /\ Published'
      BY <1>1, <1>4, <2>1, <2>2
         DEF IInv, Handled, Revisions, Published, Unlocked, IsLive, Live
    <2>5. Acknowledged' /\ Marking'
      BY <1>1, <2>1, <2>2 DEF IInv, Acknowledged, Marking, Pending, Reached, Unseen
    <2>6. DeliveriesTruthful'
      BY <2>2 DEF DeliveriesTruthful, Pending
    <2> QED BY <2>3, <2>4, <2>5, <2>6 DEF IInv
  <1>5. CASE /\ message.state = "scheduled" /\ UNCHANGED target
             /\ message' = [message EXCEPT !.state = "published"]
    <2>1. /\ message' \in MessageRow /\ message'.rev = message.rev
          /\ message'.state = "published" /\ ~Unseen'
      BY <1>3, <1>5
    <2>2. Shape' /\ Handled'
      BY <1>1, <1>5, <2>1 DEF IInv, Shape, Handled, Unlocked, IsLive, Live
    <2>3. Revisions' /\ Published' /\ Acknowledged'
      BY <1>1, <1>5, <2>1 DEF IInv, Revisions, Published, Acknowledged
    <2>4. Marking'
      BY <1>1, <1>5, <2>1 DEF IInv, Marking
    <2>5. DeliveriesTruthful'
      BY <1>1, <1>5, <2>1 DEF IInv, DeliveriesTruthful, Ended
    <2> QED BY <2>2, <2>3, <2>4, <2>5 DEF IInv
  <1> QED BY <1>4, <1>5 DEF RunLifecycleBatch

-----------------------------------------------------------------------------
(* The projection requests *)

\* A request changes its own row, and until it marks a delivery no other.
LEMMA FetchInv ==
  ASSUME IInv, NEW d \in Displays, FetchStart(d) \/ ReadCards(d) \/ Respond(d)
  PROVE  IInv'
  <1>1. UNCHANGED <<message, target, display, acks, handler>>
    BY DEF FetchStart, ReadCards, Respond
  <1>2. /\ fetch \in [Displays -> FetchRow] /\ screen \in [Displays -> ScreenRow]
        /\ message \in MessageRow /\ display[d].private \in BOOLEAN
    BY DEF IInv, Shape
  <1>3. /\ fetch' \in [Displays -> FetchRow] /\ fetch'[d].step # "apply"
        /\ \A c \in Displays : c # d => fetch'[c] = fetch[c]
    <2>1. CASE FetchStart(d)
      <3>1. /\ fetch' = [fetch EXCEPT ![d] = [NoFetch EXCEPT !.step = "read",
                                                            !.private = display[d].private]]
        BY <2>1 DEF FetchStart
      <3>2. /\ fetch'[d] = [step |-> "read", private |-> display[d].private,
                            card |-> 0, marked |-> 0]
        BY <1>2, <3>1 DEF NoFetch
      <3>3. fetch'[d] \in FetchRow /\ fetch'[d].step = "read"
        BY <1>2, <3>2 DEF FetchRow
      <3> QED BY <1>2, <3>1, <3>3
    <2>2. CASE ReadCards(d)
      <3>1. PICK card \in {message.rev, 0}, step \in {"mark", "respond"} :
              fetch' = [fetch EXCEPT ![d].card = card, ![d].step = step]
        <4> DEFINE shown == ~fetch[d].private /\ Showable /\ target[d].state \in Pending
        <4>1. fetch' = [fetch EXCEPT ![d].card = IF shown THEN message.rev ELSE 0,
                                     ![d].step = IF shown THEN "mark" ELSE "respond"]
          BY <2>2 DEF ReadCards
        <4> HIDE DEF shown
        <4>2. CASE shown
          <5>1. fetch' = [fetch EXCEPT ![d].card = message.rev, ![d].step = "mark"]
            BY <4>1, <4>2
          <5> QED BY <5>1, Zenon
        <4>3. CASE ~shown
          <5>1. fetch' = [fetch EXCEPT ![d].card = 0, ![d].step = "respond"]
            BY <4>1, <4>3
          <5> QED BY <5>1, Zenon
        <4> QED BY <4>2, <4>3
      <3>2. message.rev \in Nat /\ fetch[d] \in FetchRow
        BY <1>2 DEF MessageRow
      <3> DEFINE answered == [fetch EXCEPT ![d].card = card]
      <3>3. answered \in [Displays -> FetchRow] /\ \A c \in Displays : c # d => answered[c] = fetch[c]
        BY <1>2, <3>2 DEF FetchRow
      <3>5. fetch' = [answered EXCEPT ![d].step = step]
        BY <3>1
      <3> HIDE DEF answered
      <3>6. /\ fetch' \in [Displays -> FetchRow] /\ fetch'[d].step = step
            /\ \A c \in Displays : c # d => fetch'[c] = answered[c]
        BY <3>3, <3>5 DEF FetchRow
      <3> QED BY <1>2, <3>3, <3>6
    <2>3. CASE Respond(d)
      <3>1. fetch' = [fetch EXCEPT ![d] = NoFetch]
        BY <2>3 DEF Respond
      <3> QED BY <1>2, <3>1 DEF NoFetch, FetchRow
    <2> QED BY <2>1, <2>2, <2>3
  <1>4. screen' \in [Displays -> ScreenRow]
    <2>1. CASE UNCHANGED screen
      BY <1>2, <2>1
    <2>2. CASE screen' = [screen EXCEPT ![d].card = fetch[d].card]
      <3>1. fetch[d].card \in Nat /\ screen[d] \in ScreenRow
        BY <1>2 DEF FetchRow
      <3>2. [screen[d] EXCEPT !.card = fetch[d].card] \in ScreenRow
        BY <3>1 DEF ScreenRow
      <3> QED BY <1>2, <2>2, <3>2
    <2> QED BY <2>1, <2>2 DEF FetchStart, ReadCards, Respond
  <1>5. Shape' /\ Handled'
    BY <1>1, <1>3, <1>4 DEF IInv, Shape, Handled, IsLive
  <1> QED BY <1>1, <1>3, <1>5, Elsewhere

\* The snapshot of the update selects only what is not acknowledged.
LEMMA MarkStartInv == ASSUME IInv, NEW d \in Displays, MarkStart(d) PROVE IInv'
  <1> DEFINE selected == Showable /\ ~display[d].revoked /\ Selects(d, message.rev)
  <1>1. /\ fetch' = [fetch EXCEPT ![d].step = "apply",
                       ![d].marked = IF selected THEN message.rev ELSE 0]
        /\ UNCHANGED <<message, target, display, acks, handler, screen>>
    BY DEF MarkStart
  <1>2. PICK marked \in {message.rev, 0} :
          /\ fetch' = [fetch EXCEPT ![d].step = "apply", ![d].marked = marked]
          /\ marked # 0 => selected
    <2> HIDE DEF selected
    <2>1. CASE selected
      <3>1. fetch' = [fetch EXCEPT ![d].step = "apply", ![d].marked = message.rev]
        BY <1>1, <2>1
      <3> QED BY <2>1, <3>1, Zenon
    <2>2. CASE ~selected
      <3>1. fetch' = [fetch EXCEPT ![d].step = "apply", ![d].marked = 0]
        BY <1>1, <2>2
      <3> QED BY <3>1, Zenon
    <2> QED BY <2>1, <2>2
  <1>3. fetch \in [Displays -> FetchRow] /\ message.rev \in Nat
    BY DEF IInv, Shape, MessageRow
  <1> DEFINE applied == [fetch EXCEPT ![d].step = "apply"]
  <1>4. applied \in [Displays -> FetchRow] /\ \A c \in Displays : c # d => applied[c] = fetch[c]
    BY <1>3 DEF FetchRow
  <1>5. fetch' = [applied EXCEPT ![d].marked = marked]
    BY <1>2
  <1> HIDE DEF applied
  <1>11. marked \in Nat /\ (marked # 0 => marked = message.rev)
    BY <1>2, <1>3
  <1>10. /\ fetch' \in [Displays -> FetchRow] /\ fetch'[d].marked = marked
         /\ \A c \in Displays : c # d => fetch'[c] = applied[c]
    BY <1>11, <1>4, <1>5 DEF FetchRow
  <1>6. fetch' \in [Displays -> FetchRow] /\ \A c \in Displays : c # d => fetch'[c] = fetch[c]
    BY <1>4, <1>10
  <1>7. Shape' /\ Handled' /\ Revisions' /\ Published' /\ Acknowledged' /\ DeliveriesTruthful'
    BY <1>1, <1>6 DEF IInv, Shape, Handled, Revisions, Published, Acknowledged,
       DeliveriesTruthful, IsLive, Unseen
  <1>8. ASSUME selected
        PROVE  /\ ~Unseen /\ <<d, message.rev>> \notin acks
               /\ target[d].state \in Reached => target[d].rev # message.rev
    BY <1>8 DEF IInv, Acknowledged, Selects, Pending, Reached, Showable, Unseen
  <1>9. Marking'
    <2> SUFFICES ASSUME NEW c \in Displays, fetch'[c].step = "apply", fetch'[c].marked # 0
                 PROVE  /\ fetch'[c].marked <= message.rev /\ ~Unseen
                        /\ <<c, fetch'[c].marked>> \notin acks /\ <<c, message.rev>> \notin acks
                        /\ target[c].state \in Reached => target[c].rev # message.rev
      BY <1>1 DEF Marking, Unseen
    <2>1. CASE c = d
      <3> HIDE DEF selected
      <3>1. fetch'[c].marked = message.rev /\ selected
        BY <1>2, <1>10, <1>11, <2>1
      <3> QED BY <1>3, <1>8, <2>1, <3>1
    <2>2. CASE c # d
      BY <1>6, <2>2 DEF IInv, Marking
    <2> QED BY <2>1, <2>2
  <1> QED BY <1>7, <1>9 DEF IInv

\* A delivery that is marked late takes the place of nothing newer.
LEMMA MarkApplyInv == ASSUME IInv, NEW d \in Displays, MarkApply(d) PROVE IInv'
  <1>1. /\ fetch[d].step = "apply" /\ fetch' = [fetch EXCEPT ![d].step = "respond"]
        /\ target' = IF Reselected(d, fetch[d].marked)
                     THEN [target EXCEPT ![d] = [state |-> "delivered", rev |-> fetch[d].marked]]
                     ELSE target
        /\ UNCHANGED <<message, display, acks, handler, screen>>
    BY DEF MarkApply, Step
  <1>2. /\ fetch \in [Displays -> FetchRow] /\ target \in [Displays -> TargetRow]
        /\ message.rev \in Nat
    BY DEF IInv, Shape, MessageRow
  <1>3. /\ fetch' \in [Displays -> FetchRow] /\ fetch'[d].step = "respond"
        /\ \A c \in Displays : c # d => fetch'[c] = fetch[c]
    <2>1. [fetch[d] EXCEPT !.step = "respond"] \in FetchRow
      BY <1>2 DEF FetchRow
    <2> QED BY <1>1, <1>2, <2>1 DEF FetchRow
  <1>4. CASE ~Reselected(d, fetch[d].marked)
    <2>1. UNCHANGED target
      BY <1>1, <1>4
    <2>2. Shape' /\ Handled'
      BY <1>1, <1>3, <2>1 DEF IInv, Shape, Handled, IsLive
    <2> QED BY <1>1, <1>3, <2>1, <2>2, Elsewhere
  <1>5. CASE Reselected(d, fetch[d].marked)
    <2>1. target' = [target EXCEPT ![d] = [state |-> "delivered", rev |-> fetch[d].marked]]
      BY <1>1, <1>5
    <2>2. /\ fetch[d].marked # 0 /\ target[d].state \in Pending
      BY <1>5 DEF Reselected, Selects
    <2>3. /\ fetch[d].marked <= message.rev /\ ~Unseen
          /\ <<d, fetch[d].marked>> \notin acks /\ <<d, message.rev>> \notin acks
      BY <1>1, <2>2 DEF IInv, Marking
    <2>4. [state |-> "delivered", rev |-> fetch[d].marked] \in TargetRow
      BY <1>2 DEF TargetRow, TargetStates, Pending, FetchRow
    <2>5. /\ target' \in [Displays -> TargetRow]
          /\ target'[d].state = "delivered" /\ target'[d].rev = fetch[d].marked
          /\ \A c \in Displays : c # d => target'[c] = target[c]
      BY <1>2, <2>1, <2>4
    <2>6. Shape' /\ Handled'
      BY <1>1, <1>3, <2>5 DEF IInv, Shape, Handled, IsLive
    <2>7. Revisions'
      BY <1>1, <2>3, <2>5 DEF IInv, Revisions
    <2>8. Published' /\ Acknowledged'
      BY <1>1, <2>3, <2>5 DEF IInv, Published, Acknowledged, Unseen
    <2>9. Marking'
      BY <1>1, <1>3, <2>5 DEF IInv, Marking, Unseen
    <2>10. DeliveriesTruthful'
      BY <1>1, <2>2, <2>3, <2>5 DEF IInv, DeliveriesTruthful
    <2> QED BY <2>6, <2>7, <2>8, <2>9, <2>10 DEF IInv
  <1> QED BY <1>4, <1>5

-----------------------------------------------------------------------------
(* Acknowledgements, displays and time *)

\* The acknowledgement of the current revision, while it is delivered.
LEMMA RenderAckInv == ASSUME IInv, NEW d \in Displays, RenderAck(d) PROVE IInv'
  <1> DEFINE rev == screen[d].card
  <1>1. /\ rev # 0 /\ Accepts(d, rev) /\ acks' = acks \cup {<<d, rev>>}
        /\ target' = DisplayedOnFirst(d, rev)
        /\ UNCHANGED <<message, display, handler, fetch>>
        /\ \/ screen' = [screen EXCEPT ![d].acked = @ \cup {rev}]
           \/ screen' = screen
    BY DEF RenderAck
  <1>2. /\ screen \in [Displays -> ScreenRow] /\ target \in [Displays -> TargetRow]
        /\ rev \in Nat
    BY DEF IInv, Shape, ScreenRow
  <1>3. /\ message.rev = rev /\ target[d].rev = rev /\ target[d].state \in Reached
        /\ message.state = "published"
    BY <1>1 DEF Accepts, Showable, Reached
  <1> HIDE DEF rev
  <1>4. screen' \in [Displays -> ScreenRow]
    <2>1. CASE screen' = [screen EXCEPT ![d].acked = @ \cup {rev}]
      <3>1. [screen[d] EXCEPT !.acked = @ \cup {rev}] \in ScreenRow
        BY <1>2 DEF ScreenRow
      <3> QED BY <1>2, <2>1, <3>1
    <2> QED BY <1>1, <1>2, <2>1
  <1>5. /\ target' \in [Displays -> TargetRow]
        /\ target'[d].state = "displayed" /\ target'[d].rev = rev
        /\ \A c \in Displays : c # d => target'[c] = target[c]
    <2>1. CASE <<d, rev>> \in acks
      <3>1. target[d].state = "displayed"
        BY <1>3, <2>1 DEF IInv, DeliveriesTruthful, Reached
      <3>2. target' = target
        BY <1>1, <2>1 DEF DisplayedOnFirst
      <3> QED BY <1>2, <1>3, <3>1, <3>2
    <2>2. CASE <<d, rev>> \notin acks
      <3>1. target[d].state = "delivered"
        BY <1>3, <2>2 DEF IInv, DeliveriesTruthful, Reached
      <3>2. target' = [target EXCEPT ![d].state = "displayed"]
        BY <1>1, <1>3, <2>2, <3>1 DEF DisplayedOnFirst
      <3>3. [target[d] EXCEPT !.state = "displayed"] \in TargetRow
        BY <1>2 DEF TargetRow, TargetStates, Pending
      <3> QED BY <1>2, <1>3, <3>2, <3>3 DEF TargetRow
    <2> QED BY <2>1, <2>2
  <1>6. Shape' /\ Handled'
    BY <1>1, <1>2, <1>4, <1>5 DEF IInv, Shape, Handled, IsLive
  <1>7. Revisions'
    BY <1>1, <1>2, <1>3, <1>5 DEF IInv, Revisions
  <1>8. Published'
    BY <1>1, <1>3 DEF Published, Unseen
  <1>9. Acknowledged'
    BY <1>1, <1>3, <1>5 DEF IInv, Acknowledged
  <1>10. ~(fetch[d].step = "apply" /\ fetch[d].marked # 0)
    BY <1>3 DEF IInv, Marking
  <1>11. Marking'
    BY <1>1, <1>5, <1>10 DEF IInv, Marking, Unseen
  <1>12. DeliveriesTruthful'
    BY <1>1, <1>3, <1>5 DEF IInv, DeliveriesTruthful, Ended
  <1> QED BY <1>6, <1>7, <1>8, <1>9, <1>11, <1>12 DEF IInv

\* A display that is revoked, or changes its privacy mode.
LEMMA DisplayInv ==
  ASSUME IInv, NEW d \in Displays, Unauthorized(d) \/ SetPrivacy(d) \/ Revoke(d)
  PROVE  IInv'
  <1>1. /\ display \in [Displays -> [private : BOOLEAN, revoked : BOOLEAN]]
        /\ screen \in [Displays -> ScreenRow] /\ target \in [Displays -> TargetRow]
    BY DEF IInv, Shape
  <1>2. CASE Unauthorized(d)
    <2>1. screen' \in [Displays -> ScreenRow]
      BY <1>1, <1>2 DEF Unauthorized, Blank, ScreenRow
    <2>2. UNCHANGED <<message, target, display, acks, handler, fetch>>
      BY <1>2 DEF Unauthorized
    <2>3. Shape' /\ Handled'
      BY <2>1, <2>2 DEF IInv, Shape, Handled, IsLive
    <2> QED BY <2>2, <2>3, Elsewhere
  <1>3. CASE SetPrivacy(d)
    <2>1. /\ display' \in [Displays -> [private : BOOLEAN, revoked : BOOLEAN]]
          /\ \A c \in Displays : display'[c].revoked = display[c].revoked
      BY <1>1, <1>3 DEF SetPrivacy
    <2>2. UNCHANGED <<message, target, acks, handler, fetch, screen>>
      BY <1>3 DEF SetPrivacy
    <2>3. Shape' /\ Handled'
      BY <2>1, <2>2 DEF IInv, Shape, Handled, IsLive
    <2> QED BY <2>1, <2>2, <2>3, Elsewhere
  <1>4. CASE Revoke(d)
    <2>1. /\ display' = [display EXCEPT ![d].revoked = TRUE]
          /\ target' = IF target[d].state = "queued"
                       THEN [target EXCEPT ![d].state = "failed"] ELSE target
          /\ UNCHANGED <<message, acks, handler, fetch, screen>>
      BY <1>4 DEF Revoke
    <2>2. display' \in [Displays -> [private : BOOLEAN, revoked : BOOLEAN]]
      BY <1>1, <2>1
    <2>3. \A c \in Displays : display[c].revoked => display'[c].revoked
      BY <1>1, <2>1
    <2>4. /\ target' \in [Displays -> TargetRow]
          /\ \A c \in Displays : \/ target'[c] = target[c]
                                 \/ target'[c].rev = target[c].rev /\ target'[c].state = "failed"
      BY <1>1, <2>1 DEF TargetRow, TargetStates
    <2>5. Shape' /\ Handled'
      BY <2>1, <2>2, <2>4 DEF IInv, Shape, Handled, IsLive
    <2>6. Revisions' /\ Published' /\ Acknowledged'
      BY <2>1, <2>4 DEF IInv, Revisions, Published, Acknowledged, Unseen, Reached
    <2>7. Marking'
      BY <2>1, <2>4 DEF IInv, Marking, Unseen, Reached
    <2>8. DeliveriesTruthful'
      BY <2>1, <2>3, <2>4 DEF IInv, DeliveriesTruthful, Pending
    <2> QED BY <2>5, <2>6, <2>7, <2>8 DEF IInv
  <1> QED BY <1>2, <1>3, <1>4

\* Time opens and closes the window of the message.
LEMMA WindowInv == ASSUME IInv, WindowOpens \/ WindowCloses PROVE IInv'
  <1>1. message \in MessageRow
    BY DEF IInv, Shape
  <1>2. UNCHANGED <<target, display, acks, handler, fetch, screen>>
    BY DEF WindowOpens, WindowCloses
  <1>3. message' \in MessageRow /\ message'.state = message.state /\ message'.rev = message.rev
    BY <1>1 DEF WindowOpens, WindowCloses, MessageRow
  <1>4. Shape' /\ Handled'
    BY <1>2, <1>3 DEF IInv, Shape, Handled, IsLive
  <1> QED BY <1>2, <1>3, <1>4, Elsewhere

\* Every step keeps the invariant.
LEMMA Inductive == IInv /\ [Next]_vars => IInv'
  <1> SUFFICES ASSUME IInv, [Next]_vars PROVE IInv'
    OBVIOUS
  <1>1. CASE UNCHANGED vars
    <2>1. Shape' /\ Handled'
      BY <1>1 DEF vars, IInv, Shape, Handled, IsLive
    <2> QED BY <1>1, <2>1, Elsewhere DEF vars
  <1>2. ASSUME NEW d \in Displays, ProjectionRequest(d) PROVE IInv'
    BY <1>2, FetchInv, MarkStartInv, MarkApplyInv DEF ProjectionRequest
  <1>3. ASSUME NEW d \in Displays,
               Unauthorized(d) \/ RenderAck(d) \/ SetPrivacy(d) \/ Revoke(d)
        PROVE  IInv'
    BY <1>3, DisplayInv, RenderAckInv
  <1> QED BY <1>1, <1>2, <1>3, ChecksInv, CreateInv, EditInv, WithdrawInv, LifecycleInv,
       WindowInv DEF Next

\* Whatever handlers, projection requests, acknowledgements and the lifecycle worker
\* do in between each other's statements, the delivery rows say what is true.
THEOREM DeliveriesTruthfulHolds == Spec => []DeliveriesTruthful
  <1>1. IInv => DeliveriesTruthful
    BY DEF IInv
  <1> QED BY <1>1, InitInv, Inductive, PTL DEF Spec

=============================================================================
