# Formal verification of Samvev

Samvev is a self-hosted household application: members write messages for
paired wall displays, and *monitor tasks* let an AI provider read web pages or
weather forecasts on a schedule and turn what it finds into such messages. The
server is TypeScript on PostgreSQL (`services/api`, `services/worker`), the
clients are React (`apps/web`).

This directory holds TLA+ modules translated from that code, TLC configurations
that check them on small instances, and TLAPS proofs. `PROJECT.json` maps every
definition to the lines it stands for.

## The system

| Part | State | Operations | Interacts with |
|---|---|---|---|
| Monitor tasks (`monitor/service.ts`) | `monitor_tasks`: state, revision, approved revision, interpreted rule, lease, manifest of the last sources | create, update, interpret, approve, pause, resume, change quality, delete | locks the task row; refuses while work is running; withdraws messages |
| Execution queue (`monitor/execution.ts`) | `monitor_executions`: queued → running → terminal, worker lease, AI settings revision | enqueue (user), enqueueScheduled, runOne (claim), failInterrupted (sweep), finish | worker processes through row locks (`SKIP LOCKED`) and leases |
| Monitor engine (`monitor/engine.ts`) | none of its own; takes the task's lease | claim, analyse, reconcile, preview, finishUnchanged, finishFailure, pauseUnauthorized | commits runs, events and messages if it still owns the task |
| Monitor agent (`monitor/agent-runner.ts`, `tool-registry.ts`, `quality-router.ts`) | documents, allowed links and budgets of one request | preload, provider turns, tool calls, repairs, escalation | provider sessions, weather client, sources |
| AI providers (`ai/openai-provider.ts`, `ai/openai-compatible-provider.ts`) | a session: phase and pending tool calls | open, next turn, abort, close | the provider's server; a usage row per turn |
| Weather client (`monitor/weather.ts`) | cache of forecasts, requests in flight | locate, fetch, share, evict | all runs of the process; MET Norway and Kartverket |
| Events and messages of monitors (`engine.ts: reconcileEvents`) | `monitor_events` with a link to a message | create, update, remove by comparison with the findings of a run | messages, lifecycle log with unique keys |
| Household messages (`app.ts`, `lifecycle.ts`) | `messages`: scheduled → published → ended, revision | create, edit, withdraw; publish and expire by the lifecycle worker | deliveries, projection notifications |
| Deliveries (`app.ts: projectionFor`, `render-ack`) | `message_display_targets`: queued, delivered, displayed, ended; acknowledgements | projection request, acknowledgement | displays |
| Event stream (`projection-events.ts`, `app.ts`) | one listener connection, subscriptions per display | connect, fail, reconnect, broadcast; revalidate a stream | PostgreSQL `NOTIFY`, display clients |
| Display client (`display.tsx`, `stream-health.ts`, `display-cache.ts`) | projection, stream phase and epoch, running request | refresh, poll, stream signals, acknowledge, clear | all of the above |
| Pairing (`app.ts`, `display.tsx`) | pairing requests, display credentials; the page with its code | start, approve, status, redeem, revoke | displays |
| People (`app.ts`, `people/`) | memberships, accounts, sessions, invitations, the transition to a live household | create, invite, accept, change role, disable, prepare and finalize the transition | authority of tasks and messages |
| Setup (`app.ts`, `main.tsx`) | the installation row with its claim token; the first pages of each browser | begin, claim, demo, sign in | browsers that act at the same time |
| Invitations (`app.ts`, `main.tsx`) | account, its invitations, row locks | create, reissue, disable, accept, expire | administrators and the invited person |
| Member pages (`member.tsx`, `messages.tsx`, `monitors.tsx`, `ai-settings.tsx`) | what is shown, typed and under way | poll, open, type, send, give up | the API, which may serve what a page gave up |
| AI settings (`ai/admin-service.ts`) | settings with a revision, usage | update, test connection, read the profile of an execution | queue and engine |

What is hard in it:

* **Several processes on the same rows.** API handlers, any number of workers and
  the lifecycle worker run at READ COMMITTED. Correctness rests on row locks, on
  fences (`revision`, `lease_token`, `state` in the `WHERE` of an update) and on
  repeated checks of what was read before.
* **Long work outside transactions.** A run reads its task, analyses for minutes
  and commits later; the task, the authority of its owner and the AI settings may
  have changed, its lease may be over, its worker may be gone.
* **Crashes.** Between the commit of a result and the end of its execution a worker
  may die; another one has to report the outcome that was committed.
* **Lost and late messages.** Projection responses, acknowledgements,
  notifications and streams get lost or arrive in another order. A page gives up a
  request after twelve seconds that the server may still serve.
* **Budgets over several attempts.** An answer that is refused is repaired or escalated
  to another model; what the attempts use together is limited.

What makes each part correct is stated as properties in its module. The hazards
they answer are listed, with their lines, in `PROJECT.json`.

## Modules

### `MonitorExecution`: tasks, executions and workers

Each action is one database transaction or one statement outside a transaction,
so the interleavings are those of the database. `task`, `exec`, `settings` and
`auth` are rows, `worker` is the local state of the process that runs
`runMonitorExecutionBatch`: its `pc` follows the code from `enqueueScheduled`
through the sweep, the claim, the checks, the engine's claim of the task, the
analysis and the commit to `finish`. What is abstracted:

* Time is a flag per deadline (`leaseLive`, `due`) that an environment action flips.
  `ExpireTaskLease` waits for the worker lease, which is taken first and lasts as
  long.
* A lease token is a fresh UUID used by one execution: the execution's number stands
  for it.
* A rule is the revision of the text it was compiled from; findings are the ticket
  of the run that committed them. `live`, `takes`, `ticket`, `since` are ghosts that
  only properties read.
* A handler that waits in `SELECT ... FOR UPDATE` reads the task row again after the
  lock, but not the executions in its snapshot; `unseen` is the execution it may
  miss.

### `ExecutionLedger`: what the queue promises

The abstract specification: a row per execution that is queued when its task has none
under way, started once, has at most one outcome and ends once, as succeeded exactly
when its outcome is good. `MonitorExecution` implements it (`KeepsLedger`); the
refinement maps a row to its status and to the record that a sweep would find for it
(`LedgerRow`). Two steps of the ledger are weaker than one would wish, because the code
is: a removal may take along an execution that was queued a moment before, and a worker
that overran its lease may still record an outcome for an execution that was ended as
failed.

### `MonitorAgent`: one request to the AI, with its attempts

`job` is the request as the engine (`engine.ts`) or the setup (`service.ts: interpret`)
drives it through `first`, `strong`, `repair` and `retry` attempts, `run` is one run of
`MonitorAgentRunner` with its documents, allowed links, remaining turns and tool calls.
A provider's answer is any batch of calls, or a final answer that the engine or the setup
then judges; which judgement a text gets is nondeterministic. Pages are documents with
links; a page the model made up (`Guessed`) is no document's link. The clock has three
readings: ample, short (less than an escalation needs) and over. `seen` is a ghost.

A *configuration* is all that the AI settings hold: the provider with its address, models
and key. Every session is made from the configuration of that moment, and the code compares
its provider only. Errors are of two kinds. A `DomainError` carries the counts of its run;
any other (`"unexpected"`: a progress report that throws, a usage row that is refused twice,
a quality audit that is not stored) passes the runner without them, and what the caller then
counts depends on where it was caught. Not modelled: the row of the finished request may
itself be refused, and then there is no audit.

### `ProviderSession` and `WeatherSource`: what the agent calls

A wire session in the two adapters' phases, with the tool calls that wait to be
answered, and the usage row that `createTaskSession` writes for each turn. The weather
client with its cache, its bound, and the request that several callers share under the
deadline of the first. `MonitorAgent` uses the outcomes of both.

### `MonitorReconcile`: what the runs of a task leave behind

Event rows, messages and the unique keys of one task. A run is one step:
`MonitorExecution` shows that no run commits after its task changed. A message is
created under a key made of event and page fingerprint, so this pair identifies
it. Days stand for times; `Notice` is the lead time. `settled` is a ghost: the
last commit was that of a run that found changes.

### `MessageDelivery`: a message on its way to the displays

One message, its delivery to each display and the display's client. Handlers that
decide in one statement and write in a later one are two steps (`CreateChecks`,
`Create`; `EditChecks`, `Edit`); a projection request is five (authenticate, read the
cards, start the `UPDATE`, apply it, respond). READ COMMITTED is modelled as it is:
an `UPDATE` that waited checks its condition again on the newest version of the row
it writes, but sees the joined message as of its start. The publication window is
two flags that time sets.

### `DisplayStream`: who tells the display, and when may it say "live"

The fan-out's listener connection, the streams of one display as the API knows
them, and the client. The projection is a version number. The client's epoch and
generation are only ever compared with the values a request started with, so the
request carries two flags instead. A React render is atomic with the event that
caused it. PostgreSQL delivers a notification after the commit it announces; pending
notifications are merged, which loses nothing since a refresh reads everything.

### `HouseholdPeople`: who may act

Memberships and accounts of all households. A handler reads the authority of its
actor outside any transaction (`Request`), then locks the installation row, checks
(`LockAndCheck`) and writes (`Write`); between the two steps everything that does not
need the lock goes on. The operator's transition creates a live household and, once
its owner can log in, disables the accounts of the synthetic one. Which revision a
request expects is the client's choice, so a conflict is one of the reasons for
`RollBack`. The session that `finalize` also demands is left out, which allows more.

### `DisplayPairing`: a screen gets a credential

The pairing handlers and the pairing page, whose timer sends a status request every
two seconds whether or not the one before was answered. A credential is numbered; the
verifier of a code is the number of its pairing. A redemption that the page gave up may
still be served; its answer, with the cookie, is then lost.

### `AiSettings`: edits and connection tests

The settings row of one household. An edit compares revisions under the row's lock,
except for the first one, which inserts. A test reads the row, waits for the
provider and stores the result for the revision it read. A key is represented by
the endpoint it was entered for; `tested` is a ghost.

### `AiSettingsPage`: the page for these settings

The form (provider, address, reasoning efforts, models and a key), the settings the page
knows, and its requests. `Body` is what `save` sends: for OpenAI neither an address nor
efforts. The server compares the revision, keeps what was not sent, stores an address in its
normal spelling or drops it (`Patched`), and the page fills the form from what it answers.
Other members save as well. A request that the page gave up may be served later. The two
models and the flag "enabled" are one field; a key is new, removed or neither.

### `AccountInvitation` and `InstallationClaim`: the first password, the first owner

Transactions as sequences of row locks with their writes at the commit; a lock that
another one holds makes a transaction wait, and PostgreSQL may abort any of them
(`Abort`), so two that wait for each other are among the behaviours. The claim includes
the pages of several browsers, since it is their retries, and requests they gave up, that
meet in the server.

### `MemberBoard` and `MonitorsPanel`: pages that poll and write

The board reads its household every five seconds and again after each change; the reads
overlap and the member may switch to another household. The composer keeps the
idempotency key of a text until the text changes. The page of the monitors numbers its
loads and shows only the last one; each call of a member (save, action, removal) is a
sequence of requests with a cleanup at its end, and several run at once. React's effects
run with the render that causes them.

`MCAdministration`, `MCMessageDelivery`, `MCAgentRuns` and `MCFindingsAndTurns` check
several of these modules in one run. The parts share no variables there, so a behaviour moves only one of them:
their behaviours are all explored, without the product of their states.

`MC*` modules instantiate the modules for TLC; a `*_proofs` module holds the proofs
about the module of its name.

The modules meet in these places: a run that `MonitorExecution` lets commit is the
`Reconcile` step of `MonitorReconcile`; the messages it creates, edits and ends are
subject to `MessageDelivery`; the analysis that `MonitorExecution` leaves open is a
request of `MonitorAgent`, whose turns and forecasts are those of `ProviderSession` and
`WeatherSource`; each change of a message is a `Change` of
`DisplayStream`, whose `ReadProjection` is the projection request of
`MessageDelivery`.

## Runs

| Run | Question | Instance |
|---|---|---|
| `ExecutionCore` | Does production only run approved rules; is a committed result ever lost; does every execution end and is every task freed? | one task of five revisions, one worker with a crash, an owner who loses and regains authority, two settings revisions, every kind of execution, fairness |
| `ExecutionWorkers` | Do two workers step on each other; do they implement the ledger? | two workers, expiring leases, three executions of one task of five revisions |
| `RecoveryMisreport` | finding 1 | |
| `FindingsAndTurns` | Are exactly the current findings of an active task announced? Does one household starve another, also when it removes what was served? | two events, two pages, two days; three tasks in two households, four executions, one worker |
| `ResumeRefused` | finding 2 | |
| `DeliveryToDisplay` | Does the delivery state tell the truth, is every message displayed; do the pages that write messages and monitors show what is true and send what was written once? | one display, three revisions; a board with two overlapping reads and two households; a composer with two texts and two requests on their way; the monitors' page with two calls at a time and one task; fairness |
| `StreamToDisplay` | Is a live display current, does it recover? | two changes, two faults, two slots, fairness |
| `StreamSlotLeak` | finding 3 | |
| `Administration` | Does an owner remain, is a paired screen accepted, is the shown availability that of the stored settings, is an installation claimed once, has a pending account one link, is what is typed safe? | two households of two people and two requests at a time; a screen, two codes, two redemptions; two editors and a tester of two revisions; two requests and two invitations; two browsers, two requests and two tokens; a settings page with two revisions, an address in two spellings, two pairs of efforts and a save that was given up |
| `AgentRuns` | Do budgets hold over all attempts, does one provider get them all, does an answer rest on evidence, does the audit count every turn, does every request end? | five turns, three tool calls, batches of two, two providers, one of them with two configurations, a root that links to one page; four turns of a session; three callers, two places, one cache entry |
| `SetupBudget` | finding 4 | the code's budgets: seven turns, six tool calls |
| `RepairModel` | finding 5 | two configurations of one provider |

Bounds and why they are enough. *Executions*: two let a retry meet the remains of the
first, three let a late worker meet a newer one that itself was superseded.
*Revisions*: create, approve, edit and approve again need four, and a pause
or an edit between them a fifth. *Tasks*: a household can only overtake with a second task of its own. *Executions of
`FindingsAndTurns`*: with four, what was served can be removed while another row waits (with
five the run was also clean).
*Workers*: every race in the code is between two. *Events and pages*: two events show
that a stop reaches each of them, two pages let a source change and change back.
*Displays*: the rows of one display are independent of those of another (two displays
with two revisions were also clean, in 14 million states). *Revisions of a message*:
the one read, the one marked and the current one can all differ. *Faults*: two let a
recovery itself fail and let a slot that was not given back yet meet a new stream.
*People*: an owner and another manager in each household can shut each other out, and
two requests can overlap. *Turns and tools*: an attempt, its repair and its escalation
need a turn each, and two more let one of them use several; a batch of two exceeds what is
left of a budget of three. *Configurations*: one of another provider, and another one of the
same. *Callers*: one starts a request, one shares it, one comes after it.
*Page requests*: one that was given up meets one that is awaited. *Redemptions*: two
overlap, or the second follows one that was given up; the theorem about them has no bound.
Users, crashes and faults are bounded only to keep the instances finite.

Deadlock is checked in the execution and stream runs, where a worker and a page always
go on. `FindingsAndTurns` and `DeliveryToDisplay` allow it: the calendar ends, and a
message that ended on a revoked display has no more to do. `Administration` and
`AgentRuns` allow it because their bounds end the clicks, the edits and the turns.

### Fairness

* `MonitorExecution!FairSpec`: each worker's next step (`services/worker/src/index.ts:22`
  loops and catches every error) and the passing of leases. No user, crash or
  settings change is required.
* `MessageDelivery!Fairness`: handlers that passed their checks and projection
  requests go on; the lifecycle worker polls every second and skips locked rows, so
  it is fair in the strong sense (it does not meet a lock every time); some responses
  and acknowledgements get through (strong fairness: the client tries every five
  seconds, and again at each tick for an acknowledgement that failed).
* `DisplayStream!FairSpec`: timers, handlers and delivery on connections that are not
  lost. The steps that wait for room in a queue are strongly fair, because the room
  is a bound of the model and the code does not wait. Faults are never required;
  that they cease is the only assumption of `EventuallyCurrent`.
* `DisplayPairing!Fairness`: the page's timer, the five minutes of a code, and that a
  request is answered or lost. Nobody has to approve a code.
* `MonitorAgent!Spec`: the runner and the engine go on, and time passes. The provider and
  the sources never have to answer.
* `MemberBoard!BoardFairness` and `MonitorsPanel!PanelFairness`: the timers tick, a
  request is answered or times out, and reads that are made again and again are answered
  in the end. Members never have to act; that they and the workers stop changing things
  follows from the bounds.

In `DeliveryToDisplay` three parts with different fairness share a run, so there each
liveness property has the fairness of its part as its antecedent.

## What is proved

Every invariant that a run checks, the refinement `KeepsLedger` and the safety properties
over steps are theorems, for every value of the constants that their assumptions
allow. No theorem bounds the number of users, rows, requests or retries.

### `MonitorExecution_proofs`

* `TypeCorrect`: rows and workers keep their shapes.
* `OneRunnerHolds`: no two workers hold the same execution.
* `TerminalStableHolds`: a terminal status is final.
* `CommittedNotLostHolds`: an execution ends as succeeded exactly when its result was
  committed, crashes and sweeps included.
* `RunsApprovedRuleHolds`: an active task is approved at its current revision with a
  rule compiled from its current text.
* `StoppedTaskSilentHolds`: a task that is not active has neither findings in force
  nor a stored manifest.
* `FreshestWinsHolds`: findings are only replaced by those of the run that took the
  task last.
* `KeepsLedgerHolds`: every step is a step of `ExecutionLedger` or a stutter.
* `FairTurnHolds`: with one worker, a waiting execution sees every other household at
  most one turn ahead of its own.

They rest on the named assumptions `Bounds`, `TaskHouseholds` and `Population`. The
properties are not inductive as they stand; the invariant is built in layers, each
proved from the ones before:

1. `TypeOK`, with what a worker's `pc` says about what it holds.
2. `Holding`: a worker that holds an execution past the claim holds it alone, and the
   row tells how far it is. A worker may outlive its lease: its row is then terminal
   or is still running, and it is the `WHERE` of `finish` that protects it.
3. `RecordInv`: which record an execution has at each step of the run, so that
   `finish` and the sweep derive the same status.
4. `TaskInv`: tickets only grow, the ticket of the worker whose execution holds the
   lease is the last one taken, a rule is no newer than the text, an active task is
   approved at its revision. A worker that lost its lease fails the fence on token
   and revision, which is why its findings cannot overwrite newer ones.
5. `Open`: an execution that a worker has under way has no outcome yet, even if the sweep
   has ended its row. With `RecordInv` it shows that each commit is the ledger's first.
6. `TurnInv`, for one worker. The counts that `FairTurn` compares are not inductive: a
   household that is one turn ahead must not be chosen again. `Balance` therefore says
   that it is not ahead at all when its last start lies before one of the waiting row's
   household, and `Chosen` that the row a worker has locked belongs to such a household.
   `Stamps` says that no two executions started at the same time.

`FairTurn` had to be corrected on the way. As it was stated first it held on three executions
and fails on four, because a removal deletes the rows that the queue counts turns
by: the removed rows of the waiting household are now counted, those of the other
are not. And it needs the single worker that `compose.yaml` starts: a second one can hold
the lock of a household's row between its select and its claim for as long as it likes,
while the first serves the others.

### `MonitorReconcile_proofs`

* `LiveIsLinkedHolds`: a live message of a monitor is the one its event row links to.
* `StoppedAnnouncesNothingHolds`: a task that is not active announces nothing.
* `RunAnnouncesHolds`: after a run that found changes, exactly the upcoming events it
  found are announced, with their dates.
* `BaselineStandsHolds`: while a later run may report "unchanged", no stop has taken
  away the message of an upcoming event.

One invariant carries the four. It adds that an event that is gone has lost its link
(`GoneUnlinked`), so that neither a sweep nor an edit leaves a message behind, and that
no live message bears the mark of a stop (`LiveNotStopped`). Assumptions: `Calendar`,
`Sources` (there is a page and a set of links) and `NoneIsNoPage`.

### `MessageDelivery_proofs` and `MemberPages_proofs`

* `DeliveriesTruthfulHolds`: "displayed" was acknowledged by that display for that
  revision, "delivered" was not, and an ended message has no delivery under way. A
  projection request writes the revision it selected in an earlier statement, without
  reading the message again. `Marking` says why that is harmless: only the display's own
  request marks its deliveries, so nothing newer can have been delivered or
  acknowledged while one is about to be marked; `Acknowledged` says that what was
  acknowledged at the current revision is not selected again. Assumption: `RevisionBound`.
* `FormStaysLockedHolds`: while a saved task is being interpreted nothing else uses the
  form. At most the call that locked the form is a save.
* `ListNeverGoesBackHolds`: no load shows a task in an older state than the page has
  shown, or one that was removed. The server is ahead of all that the page shows or was
  answered (`Behind`), and the load that may replace the list is the last one, overtaken
  by no change (`Current`).
* `OneMessagePerAttemptHolds`: a text that is sent again after a lost answer never
  becomes a second message, for any number of dialogs, keys, requests and households. A
  key belongs to one text of one dialog wherever it still is, stored or on its way
  (`Coherent`), and the dialog knows what its key was used for (`Dialog`).

The last three are about `MCMessageDelivery`, whose parts share no variables, with
`PageBounds` and `NoneIsApart` (the placeholder is neither a text nor a call).

### `Administration_proofs` and `HouseholdPeople_proofs`

* `PairedScreenAcceptedHolds`: a screen that got a credential holds the one the server
  accepts until the display is revoked. A pairing is redeemed once, so the credential in
  a browser, and in every answer that is still on its way, is that of its display
  (`CookiesAccepted`, `AnswersAccepted`). Assumption: `RedemptionBound`.
* `AvailabilityMeasuredHolds`: the availability shown was measured with the settings
  stored. A test that is under way knows the settings of the revision it read if that
  is still the current one (`TestsKnowRevision`), and revisions only grow.
* `KeyStaysWithEndpointHolds`: a stored key was entered for the stored endpoint. An
  edit that brings a key says for which endpoint it was entered (`EnteredForEndpoint`).
* `InvitationMatchesAccountHolds`: an account without a password has one working link,
  one with a password has none, however requests overlap and abort. `LinkFits` counts
  the open links by the state of the account; what a transaction has read under its
  locks stays so until its commit. Assumption: `InvitationBound`.
* `ClaimedOnceHolds`: an installation is claimed once and no claim token outlives it. The
  row is held by one request at a time (`OneHolder`), and what the holder saw of it is
  still so when it writes.
* `TypingSurvivesHolds`: what a member has typed and not saved changes only by typing,
  or when the server has stored just that and the page shows what was stored. The answer
  that the page awaits belongs to what the page is doing and was asked with the form it
  shows, so a save that was given up, and is served late, is never taken for an answer to
  what was typed after it. Assumption: `SpellingAssumption` (a normal spelling is an
  address, and the placeholders are none).
* `OwnerRemainsHolds`: the installation always has an owner who can log in.
* `ManagerRemainsHolds`: a household with a manager who can log in keeps one, until the
  transition shuts the source household down.

The last two: what a request found under the lock must be true when it writes. The
invariant says so (`Justified`) and that only the holder of the lock is about to write
(`LockHeld`). Every step but a write and `Finalize` takes nothing from anybody (`Grows`),
which keeps it, and no write or `Finalize` can fall between a check and its write. A
person accepted as a manager between the two would escape `KeepsManager`, whose condition
was false when it was checked; `Managed` closes the gap: the actor of the request, or who
replaced the actor, is a manager of that household. The assumptions are
`TransitionHouseholds` (the two households of the transition differ, and the owner of the
live one belongs to it) and `Unlocked` (no request has the name of the free lock).

### `DisplayStream_proofs`

* `ScreenTruthfulHolds`: a live display that shows an old projection will hear of it, it
  is live only while the API has its listener or the news of its loss is under way, and a
  display without a credential shows nothing.

The page becomes live by signals that were queued earlier, so the queues are part of the
invariant. A page that is live, or about to be, follows a stream that is subscribed or
already lost (`Following`). While the API has no listener, that stream has a bad signal
under way, and behind every good signal comes a bad one (`Warned`): old good news cannot
make a page live for good. What is shown, or was read and will be shown, is the
database's projection unless a request, a signal or an unnoticed notification is on its way
(`Current`). Assumption: `StreamBounds`.

### `MonitorAgent_proofs`

* `RunBudgetHolds`: the run of an approved task, with its escalation and its repair,
  keeps to the limits on turns and tool executions, whatever they are (`TurnsInv`,
  `ExecsInv`: what was taken and what a run may still take add up to what was granted, and
  the calls of a checked batch are already spoken for).
* `OneProviderHolds`: every turn of a request goes to one provider, whatever
  configurations are saved meanwhile (`ProviderInv`: each attempt is pinned to the provider
  of the sessions before it). It says nothing of address and model, see finding 5.
* `AnswersGroundedHolds`: pages that were opened are the root or were disclosed by one that
  was opened, a forecast's date comes from the evidence, an accepted answer used every
  required tool, in its own run or in the one that it repairs (`GroundInv`).
* `CallsAccountedHolds`: the audit counts the turns of all attempts; where an error that is
  no `DomainError` ends the request, it lacks exactly the turns of the run that was
  under way, or counts none when the error struck the engine between two runs.
* `UsageAccountedHolds`: every request made of a provider left its usage row, unless the
  database refused the last attempt. A turn that is under way or being recorded may owe
  one row, and no other turn does (`UsageInv`).
* `OneRequestPerPlaceHolds`: callers that ask for one place share one request, and a
  request that nobody waits for is not on the map. The request on the map is for the place
  of the caller that started it, who waits for it (`PlaceInv`).

The first four are about `MonitorAgent` (assumptions `PagesAssumption`,
`ConfigurationAssumption`, `BudgetAssumption`), the last two about `MCAgentRuns` (`NobodyIsApart`: the placeholder for
"no request" is no caller).

## What is only model-checked

Liveness: `QueuedTerminates`, `TaskFreed`, `PublishedIsDisplayed`, `BoardCatchesUp`,
`EndedRunsShown`, `RevokedCleared`, `EventuallyCurrent`, `PairingEnds` and `RequestEnds`.
Proofs with fairness need `ENABLED`, which is out of the prover's reach. That turns are
fair among several workers is false, see above.

## Findings

1. **A pause for the owner is misreported after a crash** (`RecoveryMisreport`).
   `pauseUnauthorized` (`engine.ts:65`) records the run of a manual execution as
   `scheduled`. The sweep (`execution.ts:107-108`) looks for a run of the
   execution's own kind and reports `MONITOR_WORKER_INTERRUPTED`;
   `M2_4_WEATHER_AND_QUALITY.md:195-198` promises the committed outcome.
2. **A resumed task does not restore its findings** (`ResumeRefused`). The message of
   a finding is created under a key of event and page fingerprint (`engine.ts:93`). A
   pause withdraws it but the key remains; the first run after the resume inserts it
   again, rolls back and is recorded as failed, until the page changes.
   `M2_3.md:11` says that resuming restores current findings. The same collision meets
   a task that was edited and approved again, and a weather task whose message a user
   withdrew.
3. **A stream slot leaks** (`StreamSlotLeak`). The close event of a request that went
   away during `displayAuth` is over when the handler registers for it
   (`app.ts:876-906`).
4. **A setup exceeds its budget** (`SetupBudget`). The repair of a tool-less outcome has a
   fixed budget of six turns and six tool calls (`service.ts:309`) and looks only at the
   last attempt. When a first attempt used turns and tools, failed and was escalated, and
   the escalation answered without a tool, the request makes more than the seven turns of
   ADR 0015 (`0015-provider-independent-ai-web-tools.md:48-50`).
5. **A repair may change its model** (`RepairModel`). The tool-free session that repairs an
   answer is made from the settings as they are then, and only its provider is compared
   with the one before (`agent-runner.ts:212-213` and `:284-285`, `admin-service.ts:192-206`). An owner
   who saves another model, or another address for the compatible server, during the turn
   before it moves the repair there. ADR 0015 (`:101-107`) says that the repair gets the same
   "concrete model" and cannot "change provider/model". The same holds for later attempts,
   which are asked of the same provider only.

Smaller observations, not stated as properties:

* A source that flips back to an earlier text meets keys it used before
  (`monitor:`, `monitor-create:`, `monitor-remove:`) and the run is refused; an update
  whose log key exists is applied without an entry in the log.
* When the owner's authority is refused at the final check, the run is recorded as
  failed and the execution as superseded.
* A delivery may be marked with the revision that was current when the `UPDATE`
  started although the message was edited meanwhile; the next request corrects it.
  `delivered` may also be recorded for a newer revision than the one sent.
* An `EventSource` that was answered with another status than 200 does not try again.
  The display stays current by polling but does not become live until it goes
  offline and online, loses its cache or is reloaded.
  No property asks more.
* An `expired` answer about an older code, arriving late, drops the code that the
  pairing page shows (`display.tsx:691`). When the answer to a redemption is lost, the
  display exists but no screen has its credential, and the screen pairs again as another
  display. Codes that were never redeemed keep their digits taken
  (`pairing_live_code_idx`).
* An expired lease blocks a deletion until the next sweep: `lease_active`
  (`service.ts:195`) counts every queued or running execution, while
  `0013-general-ai-task-monitor.md:53-54` says "An expired lease does not block
  deletion."
* A revoked display may keep a queued delivery: the audience is validated without a lock
  (`app.ts:139`), so a revocation may fall before the insert, while
  `M1_API.md:264-265` says that pending deliveries become `failed`. An update of a
  monitor's message also queues failed deliveries again (`engine.ts:93`).
* Accepting an invitation and reissuing it lock the account and the invitation in
  opposite orders (`app.ts:355`, `app.ts:621-627`); PostgreSQL rolls one of them back,
  which its caller sees as an internal error. An invited person whose answer is lost gets
  `INVITATION_INVALID` when trying again, although the password is set; an administrator
  whose reissued link is lost has an outdated revision, and the old link is revoked.
* A premature final answer is asked again only while required tools can still be called;
  otherwise the run ends with `AI_RESPONSE_INVALID` (`agent-runner.ts:207-218`; ADR 0015:39 says it "is asked again"). A setup
  that was escalated once never gets a strong repair, because its effective tier stays
  `routine`.
* A caller that shares a forecast waits under the deadline of the first caller, and its
  own abort is not observed. A 304 for an entry that was evicted meanwhile stores it
  without evicting another. Fetches that refresh dependencies count in no budget.
* A usage row whose insertion fails for good is lost, and the turn fails with a database
  error that carries no counts: the audit then lacks the turns of that run, and all turns of
  the request when a quality audit of the engine is not stored (`engine.ts:137`, `:150`).
* The address and the efforts that were typed before a switch to OpenAI are not sent; the
  answer to the save replaces them.
* The composer's fields stay enabled while it saves. When it is closed and another one is
  opened meanwhile, the success of the first closes the second, with what was typed. After
  a switch of household the board shows the other one until the first read.
* When the answer to a saved setting is lost, the page keeps the old revision and every
  further save conflicts until it is opened again; what was typed stays on it. A page of monitors whose save is
  answered late shows the older revision until its next load; and after an error that
  is not `OFFLINE` whose load fails too, it does not poll.
* A claim that is answered `INSTALLATION_CLAIMED` shows the error and never asks for the
  status again. The late 401 of an earlier refresh sends a page that just signed in back
  to the sign-in form.
* `ProjectionEventFanout.close` during the `LISTEN` of a connection attempt leaves that
  connection open.

## Not modelled

* Database errors inside a transaction other than key collisions; an error after a
  commit, which reports a failed run although its result is in force; a scheduled
  execution that fails before the engine's claim and leaves its task due.
* Progress stages, timings, audits, usage counters, diagnostics of the queue;
  `claimOne` and `runOnce` of the engine, which no process calls.
* Several cards on one display, labels and sorting; the expiry of a display credential
  (90 days after pairing); more than one request of a display at a time, which the
  client prevents; user edits of a monitor's message.
* The client's cache across reloads, pairing again after a revocation, the delay
  between a state change and React's effects.
* Passwords, the rotation of invitations by the operator (`local-bootstrap.ts: rotate`),
  the grants of displays to members, the pages for people and displays, preferences.
* Texts: prompts, schemas of answers, the redirects, address checks and parsing of the
  source fetcher, which keep no state between two calls. Sessions beyond a flag of the
  browser, rate limits beyond a refusal, sums of the usage page.
* Contracts, configuration, migrations and the end-to-end harness: sequential, or test
  tooling.

## Plan

Done: the modules, their runs, and a theorem for each safety property that a run checks.
What is left:

1. More of the code as actions: the expiry of a display credential, several cards on a
   display, the grants of displays to members, edits of a monitor's message by a user.
2. Refinements: `MessageDelivery` of a ledger of deliveries, as `MonitorExecution` of
   `ExecutionLedger`.
3. `TypeOK` of the modules whose shape is only part of an inductive invariant, as
   theorems of their own.
