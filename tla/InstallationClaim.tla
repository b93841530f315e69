-------------------------- MODULE InstallationClaim --------------------------
(***************************************************************************)
(* Claiming a fresh installation: the first pages of the web application   *)
(* (App, Welcome, Claim and SignIn in apps/web/src/main.tsx) in several    *)
(* browsers, and the setup handlers of services/api/src/app.ts.            *)
(*                                                                         *)
(* begin, claim and demo are transactions that lock the row of the         *)
(* installation, if there is one; it is inserted by the first of them.  A  *)
(* page can give up a request that the server still serves.                *)
(***************************************************************************)
EXTENDS Naturals, FiniteSets

CONSTANTS Browsers,
          Slots,       \* slots for requests under way
          NoSlot,
          MaxTokens,   \* bound: claim tokens
          MaxClicks    \* bound: clicks of all people

VARIABLES installation,  \* the installations row, and the households that claims made
          tab,           \* the page in each browser
          req,           \* the requests, with their transactions
          clicks

claimVars == <<installation, tab, req, clicks>>

NoRequest == [kind |-> "none", tab |-> "none", token |-> 0, at |-> "none", saw |-> FALSE,
              holds |-> FALSE, awaited |-> FALSE, got |-> FALSE]
\* slots are alike: a new request takes the first free one
First(s) == req[s] = NoRequest /\ s = CHOOSE r \in Slots : req[r] = NoRequest

Asking(kind, b, token) ==
  [NoRequest EXCEPT !.kind = kind, !.tab = b, !.token = token, !.at = "sent", !.awaited = TRUE]
Ask(s, kind, b, token) == First(s) /\ req' = [req EXCEPT ![s] = Asking(kind, b, token)]

\* the request is followed by the next one of its call
Then(s, kind, token) == req' = [req EXCEPT ![s] = Asking(kind, req[s].tab, token)]
Done(s) == req' = [req EXCEPT ![s] = NoRequest]

ClaimInit ==
  /\ installation = [there |-> FALSE, claimed |-> FALSE, token |-> 0, tokens |-> 0,
                     households |-> 0]
  /\ tab = [b \in Browsers |-> [view |-> "loading", claimed |-> FALSE, form |-> "welcome",
                                busy |-> NoSlot, session |-> FALSE]]
  /\ req = [s \in Slots |-> NoRequest]
  /\ clicks = 0

-----------------------------------------------------------------------------
(* What people do, as the pages offer it.                                  *)

Click == clicks < MaxClicks /\ clicks' = clicks + 1 /\ UNCHANGED installation
Mine(b) == {s \in Slots : req[s].tab = b /\ req[s].awaited}

\* a page that opens asks for the status; so does the retry that an error offers
Open(b, s)  == /\ tab[b].view = "loading" /\ Mine(b) = {} /\ Ask(s, "status", b, 0)
               /\ UNCHANGED <<installation, tab, clicks>>
Retry(b, s) == tab[b].view = "error" /\ Ask(s, "status", b, 0) /\ Click /\ UNCHANGED tab

\* What is rendered, and whether a form that is busy with a call is still there.
Rendered(t) == <<t.view, t.claimed, t.form>>
Show(b, t) == tab' = [tab EXCEPT ![b] =
                        IF Rendered(t) = Rendered(tab[b]) THEN t ELSE [t EXCEPT !.busy = NoSlot]]

Public(b) == tab[b].view = "public"
\* useAction: a form that is busy takes no second click
Working(b, s, kind) == /\ tab[b].busy = NoSlot /\ tab' = [tab EXCEPT ![b].busy = s]
                       /\ Ask(s, kind, b, 0) /\ Click

\* Welcome offers to begin and, if it is enabled, the demo
OpenClaim(b) == /\ Public(b) /\ ~tab[b].claimed /\ tab[b].form = "welcome"
                /\ Show(b, [tab[b] EXCEPT !.form = "claim"])
                /\ UNCHANGED <<installation, req, clicks>>
Back(b)      == /\ Public(b) /\ ~tab[b].claimed /\ tab[b].form = "claim"
                /\ Show(b, [tab[b] EXCEPT !.form = "welcome"])
                /\ UNCHANGED <<installation, req, clicks>>
StartDemo(b, s)   == Public(b) /\ ~tab[b].claimed /\ tab[b].form = "welcome" /\ Working(b, s, "demo")
SubmitClaim(b, s) == Public(b) /\ ~tab[b].claimed /\ tab[b].form = "claim" /\ Working(b, s, "begin")
SignIn(b, s)      == Public(b) /\ tab[b].claimed /\ Working(b, s, "login")

-----------------------------------------------------------------------------
(* The server.                                                             *)

At(s, kinds, at) == req[s].kind \in kinds /\ req[s].at = at
Step(s, at) == req' = [req EXCEPT ![s].at = at]
Reply(s, ok, token) == req' = [req EXCEPT ![s].at = "answered", ![s].got = ok,
                                          ![s].token = token, ![s].holds = FALSE]

\* SELECT ... FOR UPDATE: waits for the transaction that holds the row; a row that is
\* not there cannot be locked.
\* Faulty variant: the row is read without a lock.
LockableAlways(s) == TRUE
Lockable(s) == \A r \in Slots : ~req[r].holds
LockRow(s) ==
  /\ At(s, {"begin"}, "sent") \/ At(s, {"claim", "demo"}, "claiming")
  /\ installation.there => Lockable(s)
  /\ req' = [req EXCEPT ![s].at = "locked", ![s].holds = installation.there,
                        ![s].saw = installation.claimed]
  /\ UNCHANGED <<installation, tab, clicks>>

\* a second insert violates the uniqueness of the row
Begin(s) ==
  /\ At(s, {"begin"}, "locked") /\ installation.tokens < MaxTokens
  /\ IF req[s].saw \/ (installation.there /\ ~req[s].holds)
       THEN Reply(s, FALSE, 0) /\ UNCHANGED installation
       ELSE /\ installation' = [installation EXCEPT !.there = TRUE, !.token = installation.tokens + 1,
                                                    !.tokens = @ + 1]
            /\ Reply(s, TRUE, installation.tokens + 1)
  /\ UNCHANGED <<tab, clicks>>

\* the demo inserts the row in a statement of its own, before its claim
LookAndInsert(s) ==
  /\ At(s, {"demo"}, "sent")
  /\ IF installation.there THEN UNCHANGED installation
     ELSE /\ installation.tokens < MaxTokens
          /\ installation' = [installation EXCEPT !.there = TRUE, !.token = installation.tokens + 1,
                                                  !.tokens = @ + 1]
  /\ Step(s, "claiming") /\ UNCHANGED <<tab, clicks>>
ReceiveClaim(s) == At(s, {"claim"}, "sent") /\ Step(s, "claiming")
                   /\ UNCHANGED <<installation, tab, clicks>>

TokenFits(s) == req[s].kind = "demo" \/ req[s].token = installation.token
Claim(s) ==
  /\ At(s, {"claim", "demo"}, "locked")
  /\ IF req[s].holds /\ ~req[s].saw /\ TokenFits(s)
       THEN /\ installation' = [installation EXCEPT !.claimed = TRUE, !.token = 0,
                                                    !.households = @ + 1]
            /\ Reply(s, TRUE, 0)
       ELSE Reply(s, FALSE, 0) /\ UNCHANGED installation
  /\ UNCHANGED <<tab, clicks>>

\* fifteen minutes after begin
TokenExpires == /\ installation.token # 0
                /\ installation' = [installation EXCEPT !.token = 0]
                /\ UNCHANGED <<tab, req, clicks>>

\* the status, who is signed in, and a password that is right or wrong
Look(s) ==
  /\ At(s, {"status", "me", "login"}, "sent")
  /\ Reply(s, CASE req[s].kind = "status" -> installation.claimed
                [] req[s].kind = "me"     -> tab[req[s].tab].session
                [] req[s].kind = "login"  -> installation.claimed, 0)
  /\ UNCHANGED <<installation, tab, clicks>>

\* a transaction that fails, a rate limit, a wrong password
Refuse(s) == /\ req[s].kind \notin {"none", "status", "me"} /\ req[s].at # "answered"
             /\ Reply(s, FALSE, 0) /\ UNCHANGED <<installation, tab, clicks>>

-----------------------------------------------------------------------------
(* The answers, in the page.                                               *)

\* the form that waits for this call, if it is still shown, is free again
Settled(b, s, t) == Show(b, [t EXCEPT !.busy = IF @ = s THEN NoSlot ELSE @])

\* refresh(): first the status; who is signed in only if the installation is claimed
StatusArrives(s, b) ==
  IF req[s].got
    THEN Then(s, "me", 0) /\ Show(b, [tab[b] EXCEPT !.claimed = TRUE])
    ELSE Done(s) /\ Settled(b, s, [tab[b] EXCEPT !.claimed = FALSE, !.view = "public"])
MeArrives(s, b) ==
  /\ Done(s)
  /\ Settled(b, s, [tab[b] EXCEPT !.view = IF req[s].got THEN "member" ELSE "public"])

\* a call that succeeded has set the cookie and is followed by a refresh
CallSucceeds(s, b) ==
  IF req[s].kind = "begin" THEN Then(s, "claim", req[s].token) /\ UNCHANGED tab
  ELSE Then(s, "status", 0) /\ Show(b, [tab[b] EXCEPT !.session = TRUE])
\* a call that is refused shows its error; the form can be sent again
CallFails(s, b) == Done(s) /\ Settled(b, s, tab[b])

Arrives(s) ==
  LET b == req[s].tab IN
  /\ req[s].at = "answered" /\ req[s].awaited
  /\ CASE req[s].kind = "status" -> StatusArrives(s, b)
       [] req[s].kind = "me"     -> MeArrives(s, b)
       [] OTHER -> IF req[s].got THEN CallSucceeds(s, b) ELSE CallFails(s, b)
  /\ UNCHANGED <<installation, clicks>>

\* No answer in time.  A refresh shows the error instead of the page; what the server
\* was asked goes on.
GiveUp(s) ==
  LET b == req[s].tab IN
  /\ req[s].awaited
  /\ req' = [req EXCEPT ![s] = IF req[s].at = "answered" THEN NoRequest
                               ELSE [req[s] EXCEPT !.awaited = FALSE]]
  /\ Settled(b, s, IF req[s].kind \in {"status", "me"} THEN [tab[b] EXCEPT !.view = "error"]
                   ELSE tab[b])
  /\ UNCHANGED <<installation, clicks>>
Forgotten(s) == /\ req[s].kind # "none" /\ ~req[s].awaited /\ (req[s].at \in {"sent", "answered"})
                /\ Done(s) /\ UNCHANGED <<installation, tab, clicks>>

ClaimNext ==
  \/ TokenExpires
  \/ \E b \in Browsers : OpenClaim(b) \/ Back(b)
  \/ \E b \in Browsers, s \in Slots :
       Open(b, s) \/ Retry(b, s) \/ StartDemo(b, s) \/ SubmitClaim(b, s) \/ SignIn(b, s)
  \/ \E s \in Slots : \/ LockRow(s) \/ Begin(s) \/ LookAndInsert(s) \/ ReceiveClaim(s)
                      \/ Claim(s) \/ Look(s) \/ Refuse(s)
                      \/ Arrives(s) \/ GiveUp(s) \/ Forgotten(s)

-----------------------------------------------------------------------------
\* An installation is claimed once, whoever begins, claims or starts the demo at the
\* same time: one household and its owner are created, and no claim token outlives it.
ClaimedOnce ==
  /\ installation.households = IF installation.claimed THEN 1 ELSE 0
  /\ installation.claimed => installation.token = 0

=============================================================================
