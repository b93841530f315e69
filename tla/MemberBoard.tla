---------------------------- MODULE MemberBoard ----------------------------
(***************************************************************************)
(* The member's board in the web application (apps/web/src/member.tsx),    *)
(* its composer (messages.tsx) and the requests they make (api.ts).  The   *)
(* board reads its household again and again, reads may overlap, and the   *)
(* member may switch to another household meanwhile; a request whose       *)
(* answer the page gave up may still reach the server.                     *)
(*                                                                         *)
(* The server keeps messages, live (scheduled or published) or ended; what *)
(* other members and the clock do to them is one action.  A text stands    *)
(* for everything the composer sends: body, audience and times.            *)
(***************************************************************************)
EXTENDS Naturals, Sequences, FiniteSets

CONSTANTS Homes,        \* households of the member
          Texts,        \* what is written
          NoText,
          Reads,        \* slots for overlapping reads of the board
          MaxMessages,  \* bound: messages on the server
          MaxRevision,  \* bound: revision of a message
          MaxForms,     \* bound: dialogs that are opened
          MaxKeys,      \* bound: idempotency keys that are made
          MaxSent,      \* bound: requests on their way
          MaxSwitches   \* bound: changes of household

VARIABLES messages,  \* the server's messages, oldest first, with the dialog and the text
                     \* that they were composed with
          board,     \* the household selected, and what the board shows
          read,      \* the reads under way
          form,      \* the dialog that is open
          sent       \* the requests of dialogs that are on their way

boardVars == <<messages, board, read, form, sent>>

NoForm(serial, key) == [kind |-> "closed", serial |-> serial, id |-> 0, base |-> 0,
                        text |-> NoText, attempt |-> NoText, key |-> key, busy |-> FALSE]

\* the answer to GET /messages: every message of the household
Cards(home) == {[id |-> i, rev |-> messages[i].rev, text |-> messages[i].text,
                 live |-> messages[i].live] :
                  i \in {j \in 1..Len(messages) : messages[j].home = home}}

BoardInit ==
  /\ messages = <<>>
  /\ \E h \in Homes : board = [home |-> h, shown |-> {}, of |-> h, loaded |-> FALSE,
                               acting |-> FALSE, switches |-> 0]
  /\ read = [r \in Reads |-> [step |-> "none", home |-> board.home, got |-> {}, ends |-> FALSE]]
  /\ form = NoForm(0, 0)
  /\ sent = {}

-----------------------------------------------------------------------------
(* refresh(): five reads that are awaited together, of the household that  *)
(* the page had selected when the callback was made.                       *)

Idle == {r \in Reads : read[r].step = "none"}
Asked(home, ends) == [step |-> "asked", home |-> home, got |-> {}, ends |-> ends]
\* Faulty variant: the callback keeps the household that it was made for first.
StartFirst(r, home, ends) == read' = [read EXCEPT ![r] = Asked(board.of, ends)]
Start(r, home, ends) == read' = [read EXCEPT ![r] = Asked(home, ends)]

\* every five seconds
Poll(r) ==
  /\ r \in Idle /\ Start(r, board.home, FALSE)
  /\ UNCHANGED <<messages, board, form, sent>>

\* The selector in the sidebar, which a dialog covers: the new household is read
\* at once, and shown when it is there.
SelectHousehold(home, r) ==
  /\ form.kind = "closed" /\ home # board.home /\ board.switches < MaxSwitches
  /\ board' = [board EXCEPT !.home = home, !.switches = @ + 1]
  /\ r \in Idle /\ Start(r, home, FALSE)
  /\ UNCHANGED <<messages, form, sent>>

ServeRead(r) ==
  /\ read[r].step = "asked"
  /\ read' = [read EXCEPT ![r].step = "answered", ![r].got = Cards(read[r].home)]
  /\ UNCHANGED <<messages, board, form, sent>>

ReadEnds(r) == /\ read' = [read EXCEPT ![r] = [Asked(board.home, FALSE) EXCEPT !.step = "none"]]
               /\ UNCHANGED <<messages, form, sent>>

\* whatever was asked first, the answer that comes last is shown
ReadArrives(r) ==
  /\ read[r].step = "answered"
  /\ board' = [board EXCEPT !.shown = read[r].got, !.of = read[r].home, !.loaded = TRUE,
                            !.acting = @ /\ ~read[r].ends]
  /\ ReadEnds(r)

\* one of the five fails or none answers in time: the board stays as it was
ReadFails(r) ==
  /\ read[r].step # "none"
  /\ board' = [board EXCEPT !.acting = @ /\ ~read[r].ends]
  /\ ReadEnds(r)

-----------------------------------------------------------------------------
(* The dialogs.                                                            *)

\* the actions of a card, with the message as the board shows it
Offered(card) == board.loaded /\ card.live

OpenDialog(kind, id, base, text) ==
  /\ form.kind = "closed" /\ form.serial < MaxForms
  /\ form' = [NoForm(form.serial + 1, form.key) EXCEPT !.kind = kind, !.id = id, !.base = base,
                                                       !.text = text]
  /\ UNCHANGED <<messages, board, read, sent>>

Compose(text) == board.loaded /\ OpenDialog("create", 0, 0, text)
Edit(card) == Offered(card) /\ OpenDialog("edit", card.id, card.rev, card.text)
Withdraw(card) == Offered(card) /\ OpenDialog("withdraw", card.id, card.rev, card.text)

\* the fields of the composer stay enabled while it saves
Type(text) ==
  /\ form.kind \in {"create", "edit"} /\ text # form.text
  /\ form' = [form EXCEPT !.text = text]
  /\ UNCHANGED <<messages, board, read, sent>>

\* what is under way goes on without the dialog
Cancel ==
  /\ form.kind # "closed" /\ form' = NoForm(form.serial, form.key)
  /\ UNCHANGED <<messages, board, read, sent>>

\* Faulty variant: every attempt has a key of its own.
AttemptAnew == [form EXCEPT !.attempt = form.text, !.key = @ + 1, !.busy = TRUE]
\* A text that was just sent keeps its idempotency key, another one gets a new key.
Attempt == [form EXCEPT !.attempt = form.text, !.busy = TRUE,
                        !.key = IF form.attempt = form.text THEN @ ELSE @ + 1]

SendRequest(f) ==
  /\ Cardinality(sent) < MaxSent
  /\ sent' = sent \cup {[kind |-> f.kind, home |-> board.home, id |-> f.id, base |-> f.base,
                         text |-> f.text, key |-> f.key, form |-> f.serial,
                         awaited |-> TRUE, answer |-> "none"]}

\* a composer that saves, and a page that withdraws, take no second click
Submit ==
  /\ form.kind \in {"create", "edit"} /\ ~form.busy
  /\ form' = Attempt /\ form'.key <= MaxKeys /\ SendRequest(form')
  /\ UNCHANGED <<messages, board, read>>
ConfirmWithdraw ==
  /\ form.kind = "withdraw" /\ ~board.acting
  /\ board' = [board EXCEPT !.acting = TRUE] /\ SendRequest(form)
  /\ UNCHANGED <<messages, read, form>>

-----------------------------------------------------------------------------
(* The requests.                                                           *)

Answered(r, answer) == (sent \ {r}) \cup (IF r.awaited THEN {[r EXCEPT !.answer = answer]} ELSE {})
Known(key) == \E i \in 1..Len(messages) : messages[i].key = key

\* POST: a key that is known answers with its message
ServeCreate(r) ==
  /\ r.kind = "create"
  /\ IF Known(r.key) THEN UNCHANGED messages
     ELSE /\ Len(messages) < MaxMessages
          /\ messages' = Append(messages, [home |-> r.home, key |-> r.key, text |-> r.text,
                                           form |-> r.form, composed |-> r.text,
                                           live |-> TRUE, rev |-> 1])

\* PATCH and withdraw: a live message of the household, in the revision that was shown
ServeChange(r) ==
  /\ r.kind \in {"edit", "withdraw"}
  /\ messages[r.id].home = r.home /\ messages[r.id].live /\ messages[r.id].rev = r.base
  /\ messages[r.id].rev < MaxRevision
  /\ messages' = [messages EXCEPT ![r.id].rev = @ + 1, ![r.id].live = (r.kind = "edit"),
                    ![r.id].text = IF r.kind = "edit" THEN r.text ELSE @]

Serve(r) ==
  /\ r.answer = "none"
  /\ \/ (ServeCreate(r) \/ ServeChange(r)) /\ sent' = Answered(r, "ok")
     \/ UNCHANGED messages /\ sent' = Answered(r, "refused")
  /\ UNCHANGED <<board, read, form>>

\* Success closes the dialog that is open, whichever it is by now, and reads the
\* board again, for the household that was selected when the request was sent;
\* the page is free again when that read is over.
Succeeded(r, slot) ==
  /\ r.awaited /\ r.answer = "ok" /\ slot \in Idle
  /\ sent' = sent \ {r}
  /\ form' = IF (form.kind = "withdraw") <=> (r.kind = "withdraw")
               THEN NoForm(form.serial, form.key) ELSE form
  /\ Start(slot, r.home, r.kind = "withdraw")
  /\ UNCHANGED <<messages, board>>

\* A refusal, or no answer in time: the dialog stays open and can be sent again.
Failed(r) ==
  /\ r.awaited
  /\ sent' = (sent \ {r}) \cup
       (IF r.answer = "none" THEN {[r EXCEPT !.awaited = FALSE]} ELSE {})
  /\ form' = IF form.serial = r.form THEN [form EXCEPT !.busy = FALSE] ELSE form
  /\ board' = [board EXCEPT !.acting = @ /\ r.kind # "withdraw"]
  /\ UNCHANGED <<messages, read>>

Vanish(r) == ~r.awaited /\ sent' = sent \ {r} /\ UNCHANGED <<messages, board, read, form>>

\* another member, a monitor or the lifecycle worker
OthersChange(i, live) ==
  /\ messages[i].live /\ messages[i].rev < MaxRevision
  /\ messages' = [messages EXCEPT ![i].rev = @ + 1, ![i].live = live]
  /\ UNCHANGED <<board, read, form, sent>>

BoardNext ==
  \/ \E r \in Reads : \/ Poll(r) \/ ServeRead(r) \/ ReadArrives(r) \/ ReadFails(r)
                      \/ \E h \in Homes : SelectHousehold(h, r)
                      \/ \E q \in sent : Succeeded(q, r)
  \/ \E t \in Texts : Compose(t) \/ Type(t)
  \/ \E card \in board.shown : Edit(card) \/ Withdraw(card)
  \/ Cancel \/ Submit \/ ConfirmWithdraw
  \/ \E q \in sent : Serve(q) \/ Failed(q) \/ Vanish(q)
  \/ \E i \in 1..Len(messages), live \in BOOLEAN : OthersChange(i, live)

\* The timer ticks, every read ends, and reads that are repeated are answered in
\* the end; what members do and what requests of dialogs lead to is not fair.
BoardFairness ==
  \A r \in Reads : /\ WF_boardVars(Poll(r)) /\ SF_boardVars(ServeRead(r))
                   /\ WF_boardVars(ReadArrives(r) \/ ReadFails(r))
                   /\ SF_boardVars(ReadArrives(r))

-----------------------------------------------------------------------------
(* Properties.                                                             *)

\* A text that is sent again after a lost answer never becomes a second message:
\* two messages of one dialog with one text were sent with another text between.
OneMessagePerAttempt ==
  \A i, j \in 1..Len(messages) :
    i # j /\ messages[i].form = messages[j].form /\ messages[i].composed = messages[j].composed
      => messages[i].key > messages[j].key + 1 \/ messages[j].key > messages[i].key + 1

\* Once nothing changes any more, the board shows the household that is selected,
\* as the server has it, whatever order its reads were answered in.
BoardCatchesUp == <>[](board.of = board.home /\ board.shown = Cards(board.home))

=============================================================================
