---------------------------- MODULE MonitorAgent ----------------------------
(***************************************************************************)
(* One AI request of a monitoring task: the bounded loop of provider turns *)
(* and tool calls (services/api/src/monitor/agent-runner.ts), and the two  *)
(* callers that start it again, each time on what is left of the request's *)
(* budget: the run of an approved task (engine.ts) and the setup of a      *)
(* draft (interpret, in service.ts).  The household's AI settings may be   *)
(* edited at any moment of it.                                             *)
(*                                                                         *)
(* A page is a model value; the date a forecast is asked for is named by   *)
(* the page it is written on.  A configuration is what the settings hold   *)
(* when a session is made: the provider with its address, models and key.  *)
(* What a model returns is any answer its session lets through.            *)
(***************************************************************************)
EXTENDS Integers, Sequences, FiniteSets

CONSTANTS Configurations,     \* what a household's AI settings can hold
          Providers,
          ProviderOf,         \* the provider that a configuration selects
          Root,               \* the approved source
          Links,              \* same-site pages
          Guessed,            \* an address no page showed
          LinksOf,            \* the links that a page discloses to the model
          Forecast,           \* the evidence that weather.forecast leaves
          NoOne,
          MaxProviderTurns,   \* MAX_PROVIDER_TURNS, 7
          MaxToolExecutions,  \* MAX_TOOL_EXECUTIONS, 6
          MaxBatch            \* tool calls in one provider turn

Pages == {Root} \cup Links

ASSUME PagesAssumption == /\ LinksOf \in [Pages -> SUBSET Pages]
                          /\ Guessed \notin Pages /\ Forecast \notin Pages
ASSUME ConfigurationAssumption == /\ ProviderOf \in [Configurations -> Providers]
                                  /\ NoOne \notin Configurations \cup Providers \cup Pages
ASSUME BudgetAssumption == /\ MaxProviderTurns \in Nat \ {0}
                           /\ MaxToolExecutions \in Nat \ {0}
                           /\ MaxBatch \in Nat

VARIABLES settings,  \* the configuration in the household's AI settings, if any
          clock,     \* what is left of the request's deadline
          job,       \* the request and where its caller stands
          run,       \* the agent run it waits for
          seen       \* history: the turns and tool executions that took place,
                     \* and the configurations that were asked

vars == <<settings, clock, job, run, seen>>

Web     == "web.open"
Weather == "weather.forecast"
Calls   == ({Web} \X (Pages \cup {Guessed})) \cup ({Weather} \X Pages)
Batches == UNION {[1..n -> Calls] : n \in 1..MaxBatch}

Lesser(a, b)  == IF a < b THEN a ELSE b
Greater(a, b) == IF a > b THEN a ELSE b
Provider(c)   == IF c = NoOne THEN NoOne ELSE ProviderOf[c]

-----------------------------------------------------------------------------
(* What a run has gathered, and what it may still do.                      *)

Evidence(r) == r.obtained \cup (IF r.preload THEN r.seeds ELSE {})
UsedTools(docs) == (IF docs \cap Pages # {} THEN {Web} ELSE {})
                     \cup (IF Forecast \in docs THEN {Weather} ELSE {})
SourceRequired(r) == ~(r.required \subseteq UsedTools(Evidence(r)))
PreopenApprovedRoot(r) == Cardinality(job.tools) > 1 /\ Web \in r.required

\* Faulty variant: the date of a forecast need not come from an opened page.
AuthorizedAnyDate(r, call) == call[1] = Web => call[2] \in r.allowed

\* the registry's authorize, for what the run has disclosed so far
Authorized(r, call) ==
  IF call[1] = Web THEN call[2] \in r.allowed
  ELSE job.scope = "dynamic" => call[2] \in Evidence(r)

Deferred(r, batch, call) ==
  /\ call[1] = Weather /\ job.scope = "dynamic" /\ ~Authorized(r, call)
  /\ \E i \in DOMAIN batch : batch[i][1] = Web

\* the one order in which deferred calls go last and the others keep their places
InOrder(r, batch) ==
  LET last(i) == Deferred(r, batch, batch[i])
      places  == {p \in [DOMAIN batch -> DOMAIN batch] :
                    \A i, j \in DOMAIN batch : i < j =>
                      IF last(p[i]) <=> last(p[j]) THEN p[i] < p[j] ELSE last(p[j])}
  IN {[i \in DOMAIN batch |-> batch[p[i]]] : p \in places}

Completed(r, call) ==
  \/ call[1] = Web /\ call[2] \in r.obtained
  \/ call[1] = Weather /\ Forecast \in r.obtained
       /\ (job.scope = "fixed" \/ r.date = call[2])

\* run(): the limits are clamped, and nothing is opened yet
NewRun(tier, seeds, preload, turns, execs, required, expected) ==
  [pc |-> "weather", tier |-> tier, seeds |-> seeds, preload |-> preload,
   maxTurns |-> Greater(1, Lesser(MaxProviderTurns, turns)),
   maxExecs |-> Greater(1, Lesser(MaxToolExecutions, execs)),
   required |-> required, expected |-> expected, config |-> NoOne,
   turn |-> 1, aiCalls |-> 0, attempted |-> 0, execs |-> 0,
   obtained |-> {}, allowed |-> {Root}, date |-> NoOne, offered |-> {},
   reformatted |-> FALSE, todo |-> <<>>, error |-> "none"]
NoRun == [NewRun("routine", {}, FALSE, 1, 1, {}, NoOne) EXCEPT !.pc = "off"]

Ended(r, error) == [r EXCEPT !.pc = "ended", !.error = error, !.todo = <<>>]
Opened(r, page) == [r EXCEPT !.obtained = @ \cup {page},
                             !.allowed  = @ \cup {page} \cup LinksOf[page]]
Forecasted(r, date) == [r EXCEPT !.obtained = @ \cup {Forecast}, !.date = date]
Executed(r) == [r EXCEPT !.execs = @ + 1]

\* How a tool execution may fail: its source fails, its payload is too large, or
\* the progress report before it throws what is no DomainError; a cached page is
\* neither fetched nor reported.
Failures(cached) ==
  {"MONITOR_TOOL_LIMIT"} \cup (IF cached THEN {} ELSE {"source", "unexpected"})

Init ==
  /\ settings \in Configurations
  /\ clock = "ample"
  /\ job = [stage |-> "idle", kind |-> "test", tools |-> {Web}, scope |-> "none",
            tier |-> "routine", aiCalls |-> 0, attempted |-> 0, result |-> "none"]
  /\ run = NoRun
  /\ seen = [turns |-> 0, execs |-> 0, asked |-> {}]

-----------------------------------------------------------------------------
(* The agent run.                                                          *)

\* The approved forecast is fetched before the first turn, once its place and
\* date are known, unless verified weather came with the seeds.
PreloadWeather ==
  /\ run.pc = "weather"
  /\ IF Weather \in job.tools /\ job.scope = "fixed"
          /\ ~(run.preload /\ Forecast \in run.seeds)
     THEN LET r == Executed([run EXCEPT !.attempted = @ + 1]) IN
          /\ seen' = [seen EXCEPT !.execs = @ + 1]
          /\ \/ clock # "over" /\ run' = [Forecasted(r, Root) EXCEPT !.pc = "root"]
             \/ \E e \in Failures(FALSE) : run' = Ended(r, e)
     ELSE run' = [run EXCEPT !.pc = "root"] /\ UNCHANGED seen
  /\ UNCHANGED <<settings, clock, job>>

\* With several tools the approved root is opened before the first turn.
PreopenRoot ==
  /\ run.pc = "root"
  /\ IF ~PreopenApprovedRoot(run)
       THEN run' = [run EXCEPT !.pc = "session"] /\ UNCHANGED seen
     ELSE IF run.execs >= run.maxExecs
       THEN run' = Ended(run, "MONITOR_TOOL_LIMIT") /\ UNCHANGED seen
     ELSE LET r == Executed([run EXCEPT !.attempted = @ + 1]) IN
          /\ seen' = [seen EXCEPT !.execs = @ + 1]
          /\ \/ /\ clock # "over" \/ Root \in run.seeds
                /\ run' = [Opened(r, Root) EXCEPT !.pc = "session"]
             \/ \E e \in Failures(Root \in run.seeds) : run' = Ended(r, e)
  /\ UNCHANGED <<settings, clock, job>>

\* the first session of a run serves the provider its caller pins, a later one
\* the provider of the first
\* Faulty variant: the tool-free session takes whatever the settings select.
ExpectedFirst(r) == r.expected
Expected(r) == IF r.pc = "session" THEN r.expected ELSE Provider(r.config)

\* createTaskSession reads the AI settings anew for every session; the tools not
\* used yet are offered, web.open also to follow links.  Settings that are
\* disabled fail the run, and so does a provider other than the expected one:
\* its address and its models are not compared.  Any settings can turn out
\* unusable, and the usage row of a refusal may itself fail.
CreateSession ==
  /\ run.pc \in {"session", "reformat"}
  /\ LET first    == run.pc = "session"
         follow   == PreopenApprovedRoot(run) /\ ~run.preload
     IN \/ /\ settings # NoOne /\ Expected(run) \in {NoOne, Provider(settings)}
           /\ run' = [run EXCEPT !.pc = IF first THEN "turn" ELSE "final",
                                 !.config = settings,
                                 !.offered = IF ~first THEN {} ELSE
                                   {t \in job.tools : \/ t \notin UsedTools(Evidence(run))
                                                      \/ t = Web /\ follow}]
        \/ \E e \in {"AI_PROVIDER_UNAVAILABLE", "unexpected"} : run' = Ended(run, e)
  /\ UNCHANGED <<settings, clock, job, seen>>

\* After a turn that used tools: once every required kind of evidence is there,
\* a multi-tool run finalizes in a fresh tool-free session.
NextTurn(r, finalize) ==
  IF /\ finalize /\ PreopenApprovedRoot(r) /\ ~r.reformatted /\ r.turn < r.maxTurns
     /\ ~SourceRequired(r) /\ Cardinality(Evidence(r)) > 1
  THEN [r EXCEPT !.pc = "reformat", !.reformatted = TRUE]
  ELSE IF r.turn = r.maxTurns THEN Ended(r, "MONITOR_TOOL_LIMIT")
  ELSE [r EXCEPT !.pc = "turn", !.turn = @ + 1]

CanRepair(r) ==
  /\ ~SourceRequired(r) /\ Cardinality(r.required) > 1 /\ Cardinality(Evidence(r)) > 1
  /\ ~r.reformatted /\ ~r.preload /\ r.turn < r.maxTurns

\* the turn is counted before it is asked, in the run and in the history
Asked(r) == [r EXCEPT !.aiCalls = @ + 1]
SeeTurn  == [seen EXCEPT !.turns = @ + 1, !.asked = @ \cup {run.config}]

\* A provider turn that calls no tool: a final output, an answer that the
\* session refuses, any other provider error, or calls that do not parse.
Answer ==
  /\ run.pc \in {"turn", "final"} /\ clock # "over"
  /\ LET r == Asked(run) IN
     \/ run' = Ended(r, IF run.pc = "turn" /\ SourceRequired(run)
                          THEN "AI_RESPONSE_INVALID" ELSE "none")
     \/ run' = IF run.pc = "turn" /\ CanRepair(run)
                 THEN [r EXCEPT !.pc = "reformat", !.reformatted = TRUE]
                 ELSE Ended(r, "AI_RESPONSE_INVALID")
     \/ run' = Ended(r, "provider")
     \/ run.offered # {} /\ run' = Ended([r EXCEPT !.attempted = @ + 1], "MONITOR_TOOL_INVALID")
  /\ seen' = SeeTurn
  /\ UNCHANGED <<settings, clock, job>>

\* A provider turn that calls tools.  The whole batch is checked before the first
\* call runs: against the limit, then against what is approved; one call out of
\* scope answers the whole batch with the scope error.
CallTools(batch) ==
  /\ run.pc = "turn" /\ clock # "over"
  /\ \A i \in DOMAIN batch : batch[i][1] \in run.offered
  /\ LET n == Len(batch)
         r == [Asked(run) EXCEPT !.attempted = @ + n]
         refused == \E i \in DOMAIN batch : ~Authorized(run, batch[i])
                                              /\ ~Deferred(run, batch, batch[i])
     IN /\ IF run.execs + n > run.maxExecs
             THEN run' = Ended(r, "MONITOR_TOOL_LIMIT")
           ELSE IF refused THEN run' = NextTurn([r EXCEPT !.execs = @ + n], FALSE)
           ELSE \E order \in InOrder(run, batch) :
                  run' = [r EXCEPT !.pc = "calls", !.todo = order]
        /\ seen' = [SeeTurn EXCEPT !.execs =
                      @ + (IF run.execs + n <= run.maxExecs /\ refused THEN n ELSE 0)]
  /\ UNCHANGED <<settings, clock, job>>

\* One call of the checked batch.  A deferred forecast is authorized again, now
\* that the batch's pages are open; an identical earlier call is not repeated; a
\* second forecast is refused.
ExecuteCall ==
  /\ run.pc = "calls"
  /\ LET call == Head(run.todo)
         r == Executed([run EXCEPT !.todo = Tail(@)])
         Then(next) == IF next.todo = <<>> THEN NextTurn(next, TRUE) ELSE next
     IN IF ~Authorized(run, call) THEN run' = Then(r)
        ELSE IF Completed(run, call) THEN run' = Then(r) \/ run' = Ended(r, "MONITOR_TOOL_LIMIT")
        ELSE \/ /\ call[1] = Weather /\ Forecast \in run.obtained
                /\ run' = Ended(r, "MONITOR_TOOL_INVALID")
             \/ /\ call[1] = Weather /\ Forecast \notin run.obtained
                /\ \/ clock # "over" /\ run' = Then(Forecasted(r, call[2]))
                   \/ \E e \in Failures(FALSE) : run' = Ended(r, e)
             \/ /\ call[1] = Web
                /\ \/ clock # "over" \/ call[2] \in run.seeds
                /\ run' = Then(Opened(r, call[2]))
             \/ /\ call[1] = Web
                /\ \E e \in Failures(call[2] \in run.seeds) : run' = Ended(r, e)
  /\ seen' = [seen EXCEPT !.execs = @ + 1]
  /\ UNCHANGED <<settings, clock, job>>

\* Faulty variant: the tool-free session is asked without the run's deadline.
TurnTimesOutWithTools ==
  /\ run.pc = "turn" /\ clock = "over"
  /\ run' = Ended(Asked(run), "AI_TIMEOUT") /\ seen' = SeeTurn
  /\ UNCHANGED <<settings, clock, job>>

\* The deadline aborts the turn in flight, or is noticed before the next one.
TurnTimesOut ==
  /\ run.pc \in {"turn", "final"} /\ clock = "over"
  /\ \/ run' = Ended(Asked(run), "AI_TIMEOUT") /\ seen' = SeeTurn
     \/ run' = Ended(run, "AI_TIMEOUT") /\ UNCHANGED seen
  /\ UNCHANGED <<settings, clock, job>>

\* What is no DomainError passes the loop as it is, without the run's counts: the
\* progress report before the turn throws, or after the turn the row of a
\* failure, which replaces a refused row of a success, is refused too.
TurnBreaks ==
  /\ run.pc \in {"turn", "final"}
  /\ \/ run' = Ended(run, "unexpected") /\ UNCHANGED seen
     \/ run' = Ended(Asked(run), "unexpected") /\ seen' = SeeTurn
  /\ UNCHANGED <<settings, clock, job>>

-----------------------------------------------------------------------------
(* The caller: what is left of the request, and the next run, if any.      *)

IsSetup == job.kind = "setup"
\* Faulty variant: the turns of a failed run are not added up.
ChargedAnswered == IF run.error # "none" THEN job ELSE
  [job EXCEPT !.aiCalls = @ + run.aiCalls, !.attempted = @ + run.attempted]
\* the counts of a run come with its answer or in the details of its DomainError
Charged == IF run.error = "unexpected" THEN job ELSE
  [job EXCEPT !.aiCalls = @ + run.aiCalls, !.attempted = @ + run.attempted]
\* the provider of the run's session; without one, whom the request expects
Pinned == IF run.config = NoOne THEN run.expected ELSE Provider(run.config)
\* Faulty variant: every run may execute the full number of tools.
LeftTurns(j) == [turns |-> MaxProviderTurns - j.aiCalls, execs |-> MaxToolExecutions]
Left(j) == [turns |-> MaxProviderTurns - j.aiCalls,
            execs |-> MaxToolExecutions - j.attempted]
HasBudget(j) == Left(j).turns >= 1 /\ Left(j).execs >= 1 /\ clock = "ample"
Required == IF IsSetup /\ Weather \notin job.tools THEN {} ELSE job.tools

\* routeMonitorQuality: a saved preference, several tools or an event task with
\* people, a schedule or a condition take the strong model
RoutedTiers(tools) == IF Cardinality(tools) > 1 THEN {"strong"} ELSE {"routine", "strong"}

\* A queued execution expects the provider that its row and the settings agree
\* on as it starts; a request outside the queue expects none.
Begin(kind, tools, scope, tier) ==
  /\ job.stage = "idle"
  /\ \E stage \in {"first", "refresh", "condition"}, expected \in {NoOne, Provider(settings)} :
       /\ (kind = "scheduled" => stage # "first") /\ (stage = "refresh" => kind = "scheduled")
       /\ stage = "condition" => kind # "setup" /\ tools = {Weather}
       /\ job' = [job EXCEPT !.stage = stage, !.kind = kind, !.tools = tools,
                             !.scope = scope, !.tier = tier]
       /\ run' = IF stage # "first" THEN [NoRun EXCEPT !.expected = expected] ELSE
                   NewRun(tier, {}, FALSE, MaxProviderTurns, MaxToolExecutions,
                          IF kind = "setup" /\ Weather \notin tools THEN {} ELSE tools,
                          expected)
  /\ UNCHANGED <<settings, clock, seen>>

\* A weather-only rule with a condition is decided from the forecast, without AI.
DecideCondition ==
  /\ job.stage = "condition"
  /\ \E result \in {"decided", "failed"} :
       /\ result = "decided" => clock # "over"
       /\ job' = [job EXCEPT !.stage = "done", !.result = result, !.attempted = 1]
  /\ seen' = [seen EXCEPT !.execs = 1]
  /\ UNCHANGED <<settings, clock, run>>

\* A production run first refreshes the sources of the last result.  Nothing
\* changed ends it without AI, a lost lease supersedes it, and what was fetched
\* seeds the first run.
RefreshDependencies ==
  /\ job.stage = "refresh"
  /\ \/ \E result \in {"unchanged", "superseded", "failed"} :
          /\ result # "failed" => clock # "over"
          /\ job' = [job EXCEPT !.stage = "done", !.result = result]
          /\ UNCHANGED run
     \/ /\ clock # "over" /\ job' = [job EXCEPT !.stage = "first"]
        /\ \E seeds \in SUBSET (IF Web \in job.tools THEN Pages ELSE {}) :
             run' = NewRun(job.tier, seeds, FALSE, MaxProviderTurns,
                           MaxToolExecutions, Required, run.expected)
  /\ UNCHANGED <<settings, clock, seen>>

Finish(result) ==
  /\ job' = [Charged EXCEPT !.stage = "done", !.result = result]
  /\ run' = [run EXCEPT !.pc = "off"]
Fail == Finish(IF run.error = "unexpected" THEN "unexpected" ELSE "failed")

\* verifiedWeatherSetupFallback: a weather-only setup whose forecast was fetched
\* can be completed without the model's text
FallbackOrFail ==
  \/ Fail
  \/ /\ IsSetup /\ job.tools = {Weather} /\ job.scope = "fixed"
     /\ Forecast \in run.obtained /\ Charged.aiCalls >= 1
     /\ run.error \in {"none", "AI_RESPONSE_INVALID"}
     /\ Finish("fallback")

\* one strong attempt on what is left, by the provider that was asked before
Escalate(stage, tier, seeds) ==
  /\ job' = [Charged EXCEPT !.stage = stage, !.tier = tier]
  /\ run' = NewRun("strong", seeds, FALSE, Left(Charged).turns, Left(Charged).execs,
                   Required, Pinned)

\* a strong answer that does not parse is repaired in one tool-free turn
Repair ==
  /\ job' = [Charged EXCEPT !.stage = "repair"]
  /\ run' = NewRun("strong", Evidence(run), TRUE, 1, Left(Charged).execs,
                   IF IsSetup THEN {} ELSE job.tools, Pinned)
CanRepairAnswer == HasBudget(Charged) /\ Evidence(run) # {} /\ job.tier = "strong"

EscalationDue ==
  /\ \/ run.error = "AI_RESPONSE_INVALID"
     \/ run.error = "MONITOR_TOOL_LIMIT" /\ run.obtained # {}
  /\ job.stage = "first" /\ job.tier = "routine" /\ HasBudget(Charged)

\* The run failed: an unusable answer, or a limit reached with evidence in hand,
\* is escalated once; anything else ends the request.
RunFailed ==
  /\ run.pc = "ended" /\ run.error # "none"
  /\ IF EscalationDue THEN Escalate("strong", "strong", {})
     ELSE IF job.stage \in {"first", "strong", "better"} THEN FallbackOrFail
     ELSE Fail
  /\ UNCHANGED <<settings, clock, seen>>

\* The engine judges an answer: a low confidence or an answer that does not
\* parse sends a routine run to the strong model, once.
EngineJudges(verdict) ==
  IF verdict = "good" \/ (verdict = "low" /\ (job.tier = "strong" \/ job.stage = "better"))
    THEN Finish("answer")
  ELSE IF job.stage \in {"better", "repair"} \/ verdict = "refused" THEN Fail
  ELSE IF job.tier = "strong"
    THEN IF CanRepairAnswer THEN Repair ELSE Fail
  ELSE IF HasBudget(Charged) THEN Escalate("better", "strong", Evidence(run))
  ELSE Fail

\* The setup judges an answer.  A tool-less answer that is no usable rule is
\* asked again with the source required; then the strong model; then the rule
\* that the verified tools allow; then the repair.
SetupJudges(verdict) ==
  IF verdict = "good" THEN Finish("answer")
  ELSE IF job.stage = "repair" THEN Fail
  ELSE IF job.stage \in {"first", "strong"} /\ run.attempted = 0 /\ Web \in job.tools
    THEN /\ job' = [Charged EXCEPT !.stage = "retry"]
         /\ run' = NewRun(job.tier, Evidence(run), FALSE, MaxProviderTurns - 1,
                          MaxToolExecutions, job.tools, Pinned)
  ELSE IF verdict = "refused" THEN Fail
  ELSE IF job.tier = "routine" /\ job.stage # "better" /\ HasBudget(Charged)
    THEN Escalate("better", "routine", Evidence(run))
  ELSE IF Cardinality(job.tools) > 1 /\ job.tools \subseteq UsedTools(run.obtained)
    THEN Finish("answer")
  ELSE \/ FallbackOrFail /\ (job'.result = "fallback" \/ ~CanRepairAnswer)
       \/ CanRepairAnswer /\ Repair

Judge(verdict) ==
  /\ run.pc = "ended" /\ run.error = "none" /\ (IsSetup => verdict # "low")
  /\ IF IsSetup THEN SetupJudges(verdict) ELSE EngineJudges(verdict)
  /\ UNCHANGED <<settings, clock, seen>>

\* A quality audit or the report that an answer is validated throws after a run.
\* The setup has added up what ran; the engine has only where the error reaches
\* the attempt's own handler, and audits no call at all where it does not.
BookkeepingFails ==
  /\ run.pc = "ended"
  /\ \/ IsSetup /\ Fail
     \/ /\ ~IsSetup
        /\ run.error = "none" \/ EscalationDue \/ job.stage \in {"strong", "better"}
        /\ job' = [job EXCEPT !.stage = "done", !.result = "lost",
                              !.aiCalls = 0, !.attempted = 0]
        /\ run' = [run EXCEPT !.pc = "off"]
     \/ /\ ~IsSetup /\ run.error = "none" /\ job.stage = "strong"
        /\ job' = [job EXCEPT !.stage = "done", !.result = "unexpected"]
        /\ run' = [run EXCEPT !.pc = "off"]
     \/ ~IsSetup /\ run.error = "none" /\ job.stage = "better" /\ Fail
  /\ UNCHANGED <<settings, clock, seen>>

-----------------------------------------------------------------------------
(* The world around it.                                                    *)

\* An owner saves other AI settings, perhaps another address or model of the same
\* provider, or disables AI, in the middle of a request.
EditSettings(c) ==
  /\ c # settings /\ settings' = c
  /\ UNCHANGED <<clock, job, run, seen>>

\* The deadline draws nearer: less than MIN_ESCALATION_REMAINING_MS, then over.
Tick ==
  /\ job.stage \notin {"idle", "done"} /\ clock # "over"
  /\ clock' = IF clock = "ample" THEN "short" ELSE "over"
  /\ UNCHANGED <<settings, job, run, seen>>

Requests == {q \in [kind : {"setup", "test", "scheduled"}, tools : SUBSET {Web, Weather},
                    scope : {"none", "open", "fixed", "dynamic"}, tier : {"routine", "strong"}] :
               /\ q.tools # {} /\ q.tier \in RoutedTiers(q.tools)
               /\ (q.scope # "none") <=> (Weather \in q.tools)
               /\ q.scope = "dynamic" => Web \in q.tools
               /\ q.scope = "open" => q.kind = "setup"}

\* everything that the service does by itself, timeouts included
Proceed == \/ PreloadWeather \/ PreopenRoot \/ CreateSession \/ ExecuteCall
           \/ TurnTimesOut \/ DecideCondition \/ RefreshDependencies \/ RunFailed
           \/ \E v \in {"good", "low", "invalid", "refused"} : Judge(v)
ProviderAnswers == Answer \/ \E b \in Batches : CallTools(b)
Breaks == TurnBreaks \/ BookkeepingFails

Next == \/ \E q \in Requests : Begin(q.kind, q.tools, q.scope, q.tier)
        \/ Proceed \/ ProviderAnswers \/ Breaks \/ Tick
        \/ \E c \in Configurations \cup {NoOne} : EditSettings(c)

\* the service's own steps and its timer happen; a provider need never answer
Spec == Init /\ [][Next]_vars /\ WF_vars(Proceed) /\ WF_vars(Tick)

-----------------------------------------------------------------------------
(* Properties.                                                             *)

\* A run of an approved task, with its escalation and its repair, takes at most
\* MAX_PROVIDER_TURNS turns and MAX_TOOL_EXECUTIONS tool executions in all.
RunBudget == job.kind # "setup" =>
               seen.turns <= MaxProviderTurns /\ seen.execs <= MaxToolExecutions

\* The complete setup request stays within the same two limits, whichever of its
\* attempts were needed (docs/decisions/0015).
SetupBudget == job.kind = "setup" =>
                 seen.turns <= MaxProviderTurns /\ seen.execs <= MaxToolExecutions

\* Every turn of one request goes to one selected provider, whatever the owner
\* saves in the AI settings while it runs: a session for another one, in the same
\* run or in a later attempt, is refused.  It is the provider that stays; a new
\* address or model saved for it does reach the next session.
Served == {ProviderOf[c] : c \in seen.asked}
OneProvider == Cardinality(Served) <= 1

\* What an answer rests on: every page that a run opened is the approved root or
\* was linked from another page it opened, a forecast whose date comes from evidence
\* is for a date on a page the run holds, and an accepted answer used every tool that
\* the request requires.
AnswersGrounded ==
  /\ \A p \in run.obtained \cap Pages :
       p = Root \/ \E q \in run.obtained \cap Pages : p \in LinksOf[q]
  /\ job.scope = "dynamic" /\ Forecast \in run.obtained => run.date \in Evidence(run)
  /\ job.result = "answer" => Required \subseteq UsedTools(Evidence(run))

\* The audit of a finished request counts every provider turn that was taken, also
\* those of attempts that failed, unless an error that is no DomainError ended it.
\* Such an error from the last run costs the audit that run's turns and no others;
\* one between two runs of the engine costs all of them ("lost").
CallsAccounted ==
  job.stage = "done" =>
    job.aiCalls = CASE job.result = "lost"       -> 0
                    [] job.result = "unexpected" -> seen.turns - run.aiCalls
                    [] OTHER                     -> seen.turns

\* A request that was begun ends, even when its provider never answers.
RequestEnds == job.stage # "idle" ~> job.stage = "done"

=============================================================================
