--------------------------- MODULE MessageDelivery ---------------------------
(***************************************************************************)
(* One household message and its deliveries to displays: the message       *)
(* handlers, projectionFor and the render acknowledgement of               *)
(* services/api/src/app.ts, runLifecycleBatch of                           *)
(* services/api/src/lifecycle.ts and the display client that fetches,      *)
(* paints and acknowledges (apps/web/src/display.tsx).                     *)
(*                                                                         *)
(* PostgreSQL runs at READ COMMITTED: each statement has its own snapshot, *)
(* and an UPDATE that meets a newer version of its row checks its          *)
(* condition again on that version.  Handlers that decide in one statement *)
(* and write in a later one are therefore two steps.                       *)
(*                                                                         *)
(* The publication window is two flags that time sets: opened (publish_at  *)
(* has passed) and over (expires_at has passed).                           *)
(***************************************************************************)
EXTENDS Integers, FiniteSets

CONSTANTS
  Displays,     \* displays of the household
  MaxRevision   \* bound: revision of the message

ASSUME RevisionBound == MaxRevision \in Nat

VARIABLES
  message,  \* the messages row
  target,   \* message_display_targets, by display
  display,  \* displays rows
  acks,     \* display_render_acks: display and revision
  handler,  \* the create or edit handler between its checks and its writes
  fetch,    \* the projection request of each display
  screen    \* what each display's client shows and has acknowledged

vars == <<message, target, display, acks, handler, fetch, screen>>

Live  == {"scheduled", "published"}
Ended == {"cancelled", "withdrawn", "expired"}
Pending == {"queued", "delivered", "displayed"}

\* message.opened, .over: its window has opened, is over.  target[d].rev:
\* delivered_revision, 0 for NULL.  fetch[d].card: the revision that was read, 0
\* for no card; .marked: the revision of the message when the UPDATE of the
\* deliveries started, 0 when it skips the row.  screen[d].card, .acked: the
\* revision that is shown, and those whose acknowledgement was answered.
NoTarget == [state |-> "none", rev |-> 0]
NoHandler == [op |-> "none", displays |-> {}]
NoFetch == [step |-> "none", private |-> FALSE, card |-> 0, marked |-> 0]
Blank == [card |-> 0, acked |-> {}]

Init ==
  /\ message = [state |-> "absent", rev |-> 0, opened |-> FALSE, over |-> FALSE]
  /\ target = [d \in Displays |-> NoTarget]
  /\ display \in [Displays -> [private : BOOLEAN, revoked : {FALSE}]]
  /\ acks = {}
  /\ handler = NoHandler
  /\ fetch = [d \in Displays |-> NoFetch]
  /\ screen = [d \in Displays |-> Blank]

-----------------------------------------------------------------------------
(* Message handlers *)

\* An edit holds the row lock of the message from its first SELECT.
Unlocked == handler.op # "edit" /\ handler.op # "keep"
IsLive == message.state \in Live
Valid(D) == \A d \in D : ~display[d].revoked

\* validateAudience reads the displays without locking them.
CreateChecks(D) ==
  /\ message.state = "absent" /\ handler.op = "none" /\ MaxRevision > 0
  /\ Valid(D)
  /\ handler' = [op |-> "create", displays |-> D]
  /\ UNCHANGED <<message, target, display, acks, fetch, screen>>

Create ==
  /\ handler.op = "create"
  /\ \E opened \in BOOLEAN :
       message' = [state |-> IF opened THEN "published" ELSE "scheduled",
                   rev |-> 1, opened |-> opened, over |-> FALSE]
  /\ target' = [d \in Displays |->
       IF d \in handler.displays THEN [state |-> "queued", rev |-> 0] ELSE NoTarget]
  /\ handler' = NoHandler
  /\ UNCHANGED <<display, acks, fetch, screen>>

\* With an audience its displays are checked; without one those that still have
\* a pending delivery, unless they are revoked.
EditChecks(D) ==
  /\ IsLive /\ handler.op = "none" /\ message.rev < MaxRevision
  /\ Valid(D)
  /\ handler' = [op |-> "edit", displays |-> D]
  /\ UNCHANGED <<message, target, display, acks, fetch, screen>>

EditChecksNoAudience ==
  /\ IsLive /\ handler.op = "none" /\ message.rev < MaxRevision
  /\ handler' = [op |-> "keep", displays |-> {}]
  /\ UNCHANGED <<message, target, display, acks, fetch, screen>>

Queue(row) == [state |-> "queued", rev |-> 0]

\* An audience queues its displays and cancels the others; without one only a
\* published message queues again, for displays that are not revoked.
EditedTarget(d) ==
  IF handler.op = "keep"
  THEN IF /\ message.state = "published" /\ ~display[d].revoked
          /\ target[d].state \in Pending
       THEN Queue(target[d]) ELSE target[d]
  ELSE CASE d \in handler.displays -> Queue(target[d])
         [] target[d].state = "none" /\ d \notin handler.displays -> NoTarget
         [] OTHER -> [target[d] EXCEPT !.state = "cancelled"]

\* A published message keeps a publication time in the past.
Edit ==
  /\ handler.op \in {"edit", "keep"}
  /\ \E opened \in IF message.state = "published" THEN {TRUE} ELSE BOOLEAN :
       message' = [message EXCEPT !.rev = @ + 1, !.opened = opened, !.over = FALSE]
  /\ target' = [d \in Displays |-> EditedTarget(d)]
  /\ handler' = NoHandler
  /\ UNCHANGED <<display, acks, fetch, screen>>

\* A check that fails, or any error before the commit.
Abandon ==
  /\ handler.op # "none"
  /\ handler' = NoHandler
  /\ UNCHANGED <<message, target, display, acks, fetch, screen>>

CancelAll == [d \in Displays |-> IF target[d].state = "none" THEN NoTarget
                                 ELSE [target[d] EXCEPT !.state = "cancelled"]]

Withdraw ==
  /\ IsLive /\ Unlocked
  /\ message' = [message EXCEPT !.rev = @ + 1,
       !.state = IF @ = "scheduled" THEN "cancelled" ELSE "withdrawn"]
  /\ target' = CancelAll
  /\ UNCHANGED <<display, acks, handler, fetch, screen>>

-----------------------------------------------------------------------------
(* The lifecycle worker *)

ExpireTargets == [d \in Displays |->
  IF target[d].state \in Pending THEN [target[d] EXCEPT !.state = "expired"]
  ELSE target[d]]

\* A locked row is skipped; a window that is over is never published.
RunLifecycleBatch ==
  /\ Unlocked
  /\ \/ /\ IsLive /\ message.over
        /\ message' = [message EXCEPT !.state = "expired"]
        /\ target' = ExpireTargets
     \/ /\ message.state = "scheduled" /\ message.opened /\ ~message.over
        /\ message' = [message EXCEPT !.state = "published"]
        /\ UNCHANGED target
  /\ UNCHANGED <<display, acks, handler, fetch, screen>>

-----------------------------------------------------------------------------
(* projectionFor: authenticate, read the cards, mark them, respond *)

Step(d, step) == fetch' = [fetch EXCEPT ![d].step = step]

\* displayAuth; the privacy mode it reads serves for the whole request.
FetchStart(d) ==
  /\ fetch[d].step = "none" /\ ~display[d].revoked
  /\ fetch' = [fetch EXCEPT ![d] = [NoFetch EXCEPT
       !.step = "read", !.private = display[d].private]]
  /\ UNCHANGED <<message, target, display, acks, handler, screen>>

Showable == message.state = "published" /\ message.opened /\ ~message.over

ReadCards(d) ==
  LET shown == ~fetch[d].private /\ Showable /\ target[d].state \in Pending
  IN  /\ fetch[d].step = "read"
      /\ fetch' = [fetch EXCEPT ![d].card = IF shown THEN message.rev ELSE 0,
                                ![d].step = IF shown THEN "mark" ELSE "respond"]
      /\ UNCHANGED <<message, target, display, acks, handler, screen>>

\* Faulty variant: a delivery is marked once, whatever its revision.
SelectsQueued(d, rev) == target[d].state = "queued"

\* The deliveries that the UPDATE selects, for a message at revision rev.
Selects(d, rev) == /\ target[d].state \in Pending
                   /\ target[d].state = "queued" \/ target[d].rev # rev

\* The snapshot of the UPDATE.
MarkStart(d) ==
  /\ fetch[d].step = "mark"
  /\ fetch' = [fetch EXCEPT ![d].step = "apply",
       ![d].marked = IF Showable /\ ~display[d].revoked /\ Selects(d, message.rev)
                     THEN message.rev ELSE 0]
  /\ UNCHANGED <<message, target, display, acks, handler, screen>>

\* Faulty variant: the selected rows are written as they were read.
StillSelected(d, rev) == rev # 0

\* The row's newest version is checked again, the message is not read again.
Reselected(d, rev) == rev # 0 /\ Selects(d, rev)

MarkApply(d) ==
  /\ fetch[d].step = "apply"
  /\ target' = IF Reselected(d, fetch[d].marked)
               THEN [target EXCEPT ![d] = [state |-> "delivered",
                                           rev |-> fetch[d].marked]]
               ELSE target
  /\ Step(d, "respond")
  /\ UNCHANGED <<message, display, acks, handler, screen>>

\* The client paints the response, or loses it.
Respond(d) ==
  /\ fetch[d].step = "respond"
  /\ \E received \in BOOLEAN :
       screen' = IF received THEN [screen EXCEPT ![d].card = fetch[d].card]
                 ELSE screen
  /\ fetch' = [fetch EXCEPT ![d] = NoFetch]
  /\ UNCHANGED <<message, target, display, acks, handler>>

\* A client whose credential is refused clears what it shows.
Unauthorized(d) ==
  /\ fetch[d].step = "none" /\ display[d].revoked /\ screen[d] # Blank
  /\ screen' = [screen EXCEPT ![d] = Blank]
  /\ UNCHANGED <<message, target, display, acks, handler, fetch>>

-----------------------------------------------------------------------------
(* render-ack *)

Accepts(d, rev) ==
  /\ ~display[d].revoked /\ ~display[d].private
  /\ message.rev = rev /\ Showable
  /\ target[d].state \in {"delivered", "displayed"} /\ target[d].rev = rev

DisplayedOnFirst(d, rev) ==
  IF <<d, rev>> \notin acks /\ target[d].state = "delivered" /\ target[d].rev = rev
  THEN [target EXCEPT ![d].state = "displayed"] ELSE target

\* The client acknowledges each revision it shows once, and again when it did
\* not see the answer.
RenderAck(d) ==
  LET rev == screen[d].card
  IN  /\ rev # 0 /\ rev \notin screen[d].acked /\ Accepts(d, rev) /\ Unlocked
      /\ acks' = acks \cup {<<d, rev>>}
      /\ target' = DisplayedOnFirst(d, rev)
      /\ \E answered \in BOOLEAN :
           screen' = IF answered THEN [screen EXCEPT ![d].acked = @ \cup {rev}]
                     ELSE screen
      /\ UNCHANGED <<message, display, handler, fetch>>

-----------------------------------------------------------------------------
(* Displays and time *)

SetPrivacy(d) ==
  /\ display' = [display EXCEPT ![d].private = ~@]
  /\ UNCHANGED <<message, target, acks, handler, fetch, screen>>

Revoke(d) ==
  /\ ~display[d].revoked
  /\ display' = [display EXCEPT ![d].revoked = TRUE]
  /\ target' = IF target[d].state = "queued"
               THEN [target EXCEPT ![d].state = "failed"] ELSE target
  /\ UNCHANGED <<message, acks, handler, fetch, screen>>

WindowOpens ==
  /\ IsLive /\ ~message.opened
  /\ message' = [message EXCEPT !.opened = TRUE]
  /\ UNCHANGED <<target, display, acks, handler, fetch, screen>>

WindowCloses ==
  /\ IsLive /\ message.opened /\ ~message.over
  /\ message' = [message EXCEPT !.over = TRUE]
  /\ UNCHANGED <<target, display, acks, handler, fetch, screen>>

-----------------------------------------------------------------------------
ProjectionRequest(d) ==
  FetchStart(d) \/ ReadCards(d) \/ MarkStart(d) \/ MarkApply(d) \/ Respond(d)

Next ==
  \/ \E D \in SUBSET Displays : CreateChecks(D) \/ EditChecks(D)
  \/ Create \/ EditChecksNoAudience \/ Edit \/ Abandon \/ Withdraw
  \/ RunLifecycleBatch
  \/ \E d \in Displays : \/ ProjectionRequest(d) \/ Unauthorized(d)
                         \/ RenderAck(d) \/ SetPrivacy(d) \/ Revoke(d)
  \/ WindowOpens \/ WindowCloses

Spec == Init /\ [][Next]_vars

(***************************************************************************)
(* A handler that passed its checks goes on, the lifecycle worker polls    *)
(* every second and does not find the row locked every time, clients poll  *)
(* every five seconds and some of the answers arrive, and a visible card   *)
(* is acknowledged again until the server accepts it.                      *)
(***************************************************************************)
Fairness ==
  /\ WF_vars(Create) /\ WF_vars(Edit) /\ SF_vars(RunLifecycleBatch)
  /\ \A d \in Displays :
       /\ WF_vars(ProjectionRequest(d)) /\ WF_vars(Unauthorized(d))
       /\ SF_vars(Respond(d) /\ screen'[d].card = fetch[d].card)
       /\ SF_vars(RenderAck(d))

-----------------------------------------------------------------------------
(* Properties *)

(***************************************************************************)
(* What the delivery rows say is true.  "displayed" is the claim that the  *)
(* display acknowledged exactly the current revision (a revoked display    *)
(* keeps the claim it had as evidence); a revision that was acknowledged   *)
(* is not shown as merely delivered, since the acknowledgement is accepted *)
(* once and would not be repeated; and a message that ended has no         *)
(* delivery that is pending or displayed: a projection request that        *)
(* overlaps the end cannot bring one back.                                 *)
(***************************************************************************)
DeliveriesTruthful ==
  /\ \A d \in Displays : target[d].state = "displayed" =>
       /\ <<d, target[d].rev>> \in acks
       /\ display[d].revoked \/ target[d].rev = message.rev
  /\ \A d \in Displays : target[d].state = "delivered" => <<d, target[d].rev>> \notin acks
  /\ message.state \in Ended => \A d \in Displays : target[d].state \notin Pending

\* A published message is displayed on each of its displays, unless the display
\* turns private or is revoked, or the delivery or the message ends first.
EventuallyDisplayed ==
  \A d \in Displays :
    (message.state = "published" /\ target[d].state \in {"queued", "delivered"})
      ~> \/ target[d].state \notin {"queued", "delivered"}
         \/ display[d].private \/ display[d].revoked
=============================================================================
