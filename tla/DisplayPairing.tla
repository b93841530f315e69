--------------------------- MODULE DisplayPairing ---------------------------
(***************************************************************************)
(* Pairing of a screen with a household: the pairing page shows a code, an *)
(* administrator approves it, the page redeems it for a credential.        *)
(* Handlers are those of services/api/src/app.ts, the page is Pairing in   *)
(* apps/web/src/display.tsx: it asks for the status every two seconds and  *)
(* may have several requests under way.  Pairings and the displays that    *)
(* they create are numbered, and so are credentials; 0 stands for NULL.    *)
(***************************************************************************)
EXTENDS Integers, FiniteSets

CONSTANTS
  Screens,       \* browsers that show the pairing page
  Codes,         \* the six-digit codes
  MaxPairings,   \* bound: pairing requests
  MaxAttempts,   \* bound: redemption requests
  MaxInFlight    \* bound: requests of a page at a time

VARIABLES
  pairing,  \* pairing_requests rows
  shown,    \* displays rows: credential and revocation, by pairing
  page,     \* the pairing page of each screen
  request   \* status and redemption requests under way

vars == <<pairing, shown, page, request>>

Pairings == 1..MaxPairings
NoPairing == [screen |-> "none", code |-> "none", expired |-> FALSE,
              approved |-> FALSE, redeemed |-> FALSE]
NoDisplay == [credential |-> 0, revoked |-> FALSE]
\* cookie is the display and the credential that the browser holds.
NoCookie == [display |-> 0, credential |-> 0]
Blank == [pairing |-> 0, expired |-> FALSE, redeeming |-> FALSE, cookie |-> NoCookie]
Started(p) == pairing[p] # NoPairing
\* A page no longer hears the requests that it gave up.
Mine(s) == {r \in request : r.screen = s /\ r.answer # "unheard"}
\* Credentials are random: each redemption request has its own.
Fresh == 1 + Cardinality({c \in 1..MaxAttempts :
           \/ \E p \in Pairings : shown[p].credential >= c
           \/ \E s \in Screens : page[s].cookie.credential >= c
           \/ \E r \in request : r.credential >= c})

Init ==
  /\ pairing = [p \in Pairings |-> NoPairing]
  /\ shown = [p \in Pairings |-> NoDisplay]
  /\ page = [s \in Screens |-> Blank]
  /\ request = {}

-----------------------------------------------------------------------------
(* The page asks for a code *)

\* A code is unique among the pairings that are not redeemed, expired or not.
Free(code) == \A p \in Pairings :
                pairing[p].code = code => pairing[p].redeemed

Paired(s) == page[s].cookie # NoCookie
Waiting(s) == page[s].pairing # 0 /\ ~page[s].expired /\ ~Paired(s)

StartPairing(s) ==
  /\ ~Paired(s) /\ ~Waiting(s)
  /\ \E p \in Pairings, code \in Codes :
       /\ ~Started(p) /\ \A q \in Pairings : q < p => Started(q)
       /\ Free(code)
       /\ pairing' = [pairing EXCEPT ![p] =
            [NoPairing EXCEPT !.screen = s, !.code = code]]
       /\ page' = [page EXCEPT ![s].pairing = p, ![s].expired = FALSE]
  /\ UNCHANGED <<shown, request>>

\* Five minutes after the start.
PairingExpires(p) ==
  /\ Started(p) /\ ~pairing[p].expired
  /\ pairing' = [pairing EXCEPT ![p].expired = TRUE]
  /\ UNCHANGED <<shown, page, request>>

-----------------------------------------------------------------------------
(* An administrator *)

\* Rows that wait for the lock are selected again: one approval wins.
Approvable(p) == ~pairing[p].expired /\ ~pairing[p].approved /\ ~pairing[p].redeemed

ApprovePairing(code) ==
  \E p \in Pairings :
    /\ Started(p) /\ pairing[p].code = code /\ Approvable(p)
    /\ pairing' = [pairing EXCEPT ![p].approved = TRUE]
    /\ UNCHANGED <<shown, page, request>>

RevokeDisplay(p) ==
  /\ pairing[p].approved /\ ~shown[p].revoked
  /\ shown' = [shown EXCEPT ![p] = [credential |-> 0, revoked |-> TRUE]]
  /\ UNCHANGED <<pairing, page, request>>

-----------------------------------------------------------------------------
(* The page's timer and the answers to its requests *)

Ask(s) ==
  /\ ~page[s].redeeming /\ Cardinality(Mine(s)) < MaxInFlight
  /\ request' = request \cup {[kind |-> "status", screen |-> s,
       pairing |-> page[s].pairing, verifier |-> 0, credential |-> 0, answer |-> "sent"]}
  /\ UNCHANGED <<pairing, shown, page>>

\* Faulty variant: the page waits for the status, not for its own clock.
TickByStatus(s) == Waiting(s) /\ Ask(s)

\* An expired code is dropped without asking. A tick does not wait for the
\* answer to the one before, only for a redemption.
Tick(s) ==
  /\ Waiting(s)
  /\ \/ /\ pairing[page[s].pairing].expired
        /\ page' = [page EXCEPT ![s].expired = TRUE]
        /\ UNCHANGED <<pairing, shown, request>>
     \/ ~pairing[page[s].pairing].expired /\ Ask(s)

Answered(r, answer) == request' = (request \ {r}) \cup {[r EXCEPT !.answer = answer]}

ReadStatus(r) ==
  /\ r.kind = "status" /\ r.answer = "sent"
  /\ Answered(r, IF pairing[r.pairing].expired THEN "expired"
                 ELSE IF pairing[r.pairing].approved THEN "approved" ELSE "open")
  /\ UNCHANGED <<pairing, shown, page>>

\* Each answer "approved" starts a redemption, whether or not one is under way.
\* It shows the verifier that the page keeps now, if it still keeps one.
Verifier(s) == IF Waiting(s) THEN page[s].pairing ELSE 0

\* A late "expired" drops the code that the page shows now.
StatusAnswered(r) ==
  /\ r.kind = "status" /\ r.answer # "sent"
  /\ IF r.answer = "approved" /\ Fresh <= MaxAttempts
     THEN /\ request' = (request \ {r}) \cup {[kind |-> "redeem", screen |-> r.screen,
               pairing |-> r.pairing, verifier |-> Verifier(r.screen),
               credential |-> Fresh, answer |-> "sent"]}
          /\ page' = [page EXCEPT ![r.screen].redeeming = TRUE]
     ELSE /\ request' = request \ {r}
          /\ page' = [page EXCEPT ![r.screen].expired = @ \/ r.answer = "expired"]
  /\ UNCHANGED <<pairing, shown>>

\* Faulty variant: a pairing can be redeemed until it expires.
RedeemableAgain(p) == ~pairing[p].expired /\ pairing[p].approved /\ ~shown[p].revoked

Redeemable(p) == /\ ~pairing[p].expired /\ pairing[p].approved
                 /\ ~pairing[p].redeemed /\ ~shown[p].revoked

\* One transaction that locks the pairing; a revoked display refuses it. A page
\* that gave up does not receive the answer, nor the cookie with it.
Reply(r, answer) == IF r.answer = "unheard" THEN request' = request \ {r}
                    ELSE Answered(r, answer)

RedeemPairing(r) ==
  /\ r.kind = "redeem" /\ r.answer \in {"sent", "unheard"}
  /\ IF r.verifier = r.pairing /\ Redeemable(r.pairing)
     THEN /\ pairing' = [pairing EXCEPT ![r.pairing].redeemed = TRUE]
          /\ shown' = [shown EXCEPT ![r.pairing].credential = r.credential]
          /\ Reply(r, "credential")
     ELSE /\ Reply(r, "refused")
          /\ UNCHANGED <<pairing, shown>>
  /\ UNCHANGED page

\* The browser stores the cookie with the answer, in the order of arrival.
RedeemAnswered(r) ==
  /\ r.kind = "redeem" /\ r.answer \in {"credential", "refused"}
  /\ page' = IF r.answer = "credential"
             THEN [page EXCEPT ![r.screen].cookie =
                    [display |-> r.pairing, credential |-> r.credential]]
             ELSE [page EXCEPT ![r.screen].redeeming = FALSE]
  /\ request' = request \ {r}
  /\ UNCHANGED <<pairing, shown>>

\* A request or its answer is lost, or the page gives up a redemption that the
\* server may still serve; the page's catch lets the next tick try.
RequestLost(r) ==
  /\ r.answer # "unheard"
  /\ \/ request' = request \ {r}
     \/ r.kind = "redeem" /\ r.answer = "sent" /\ Answered(r, "unheard")
  /\ page' = [page EXCEPT ![r.screen].redeeming = FALSE]
  /\ UNCHANGED <<pairing, shown>>

\* The cookie of a revoked display is refused: the page asks for a code again.
PairAgain(s) ==
  /\ Paired(s) /\ shown[page[s].cookie.display].revoked
  /\ page' = [page EXCEPT ![s] = Blank]
  /\ UNCHANGED <<pairing, shown, request>>

-----------------------------------------------------------------------------
Answer(r) == ReadStatus(r) \/ StatusAnswered(r) \/ RedeemPairing(r) \/ RedeemAnswered(r)

Next ==
  \/ \E s \in Screens : StartPairing(s) \/ Tick(s) \/ PairAgain(s)
  \/ \E p \in Pairings : PairingExpires(p) \/ RevokeDisplay(p)
  \/ \E code \in Codes : ApprovePairing(code)
  \/ \E r \in request : Answer(r) \/ RequestLost(r)

Spec == Init /\ [][Next]_vars

\* The timer of the page runs, time passes, requests are answered or lost.
Fairness ==
  /\ \A s \in Screens : WF_vars(Tick(s))
  /\ \A p \in Pairings : WF_vars(PairingExpires(p))
  /\ WF_vars(\E r \in request : Answer(r) \/ RequestLost(r))

FairSpec == Spec /\ Fairness

-----------------------------------------------------------------------------
(* Properties *)

\* A screen that was handed a credential holds the one that the server accepts,
\* until the display is revoked: two redemptions by the same page, which its timer
\* can cause, never leave it with the older of two credentials.
PairedScreenAccepted ==
  \A s \in Screens : Paired(s) =>
    LET d == shown[page[s].cookie.display]
    IN  d.revoked \/ d.credential = page[s].cookie.credential

\* A page that shows a code does not do so forever: it is paired or says that the
\* code expired, although the answer with its credential may be lost.
PairingEnds == \A s \in Screens : Waiting(s) ~> ~Waiting(s)
=============================================================================
