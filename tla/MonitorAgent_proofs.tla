------------------------- MODULE MonitorAgent_proofs -------------------------
(***************************************************************************)
(* Proofs about an AI request, for every set of configurations and pages,  *)
(* every web of links and every limit.  One request is a chain of runs, and each *)
(* of the four invariants ties the run that is under way to what the       *)
(* request has been charged for before it:                                 *)
(*   TurnsInv     turns taken, and the turns that are left                 *)
(*   ExecsInv     tool executions, taken and checked                       *)
(*   ProviderInv  whom the request has asked                               *)
(*   GroundInv    where pages, dates and answers come from                 *)
(* The session with a provider and the weather client follow at the end,   *)
(* with an invariant each (UsageInv, PlaceInv).                            *)
(***************************************************************************)
EXTENDS MCAgentRuns, FiniteSetTheorems, TLAPS

Docs   == Pages \cup {Forecast}
Tools  == {Web, Weather}
Unbegun == {"idle", "refresh", "condition"}   \* no run has been started
Stages == Unbegun \cup {"first", "strong", "better", "retry", "repair", "done"}
RunPcs == {"off", "weather", "root", "session", "turn", "calls", "reformat",
           "final", "ended"}
Errors == {"none", "source", "provider", "MONITOR_TOOL_LIMIT", "MONITOR_TOOL_INVALID",
           "AI_PROVIDER_UNAVAILABLE", "AI_RESPONSE_INVALID", "AI_TIMEOUT", "unexpected"}
Results == {"none", "decided", "unchanged", "superseded", "failed", "fallback", "answer",
            "unexpected", "lost"}
Scopes == {"none", "open", "fixed", "dynamic"}
Tiers  == {"routine", "strong"}

JobRow == [stage : Stages, kind : {"setup", "test", "scheduled"}, tools : SUBSET Tools,
           scope : Scopes, tier : Tiers, aiCalls : Nat, attempted : Nat, result : Results]
RunRow == [pc : RunPcs, tier : Tiers, seeds : SUBSET Docs, preload : BOOLEAN,
           maxTurns : Nat, maxExecs : Nat, required : SUBSET Tools,
           expected : Providers \cup {NoOne}, config : Configurations \cup {NoOne},
           turn : Nat, aiCalls : Nat, attempted : Nat, execs : Nat,
           obtained : SUBSET Docs, allowed : SUBSET Pages, date : Pages \cup {NoOne},
           offered : SUBSET Tools, reformatted : BOOLEAN, todo : Seq(Calls),
           error : Errors]

\* The shape of the request, its run and its history.
Shape ==
  /\ settings \in Configurations \cup {NoOne} /\ clock \in {"ample", "short", "over"}
  /\ job \in JobRow /\ run \in RunRow
  /\ seen \in [turns : Nat, execs : Nat, asked : SUBSET Configurations]

Active == run.pc # "off"

\* A run is only there between its start and its verdict.
Staged ==
  /\ job.stage \in Unbegun => /\ ~Active /\ job.aiCalls = 0 /\ job.attempted = 0
                              /\ seen.turns = 0 /\ seen.execs = 0 /\ seen.asked = {}
  /\ job.stage = "done" => ~Active
  /\ job.result # "none" => job.stage = "done"

\* The tool-free session after a turn needs a turn of its own.
TurnsOK(r) ==
  /\ r.turn \in 1..r.maxTurns
  /\ r.pc \in {"weather", "root", "session", "turn"} => r.aiCalls = r.turn - 1
  /\ r.pc = "calls" => r.aiCalls = r.turn
  /\ r.pc \in {"reformat", "final"} => r.aiCalls = r.turn /\ r.turn < r.maxTurns
  /\ r.pc = "ended" => r.aiCalls <= r.maxTurns

TurnsInv ==
  /\ Active => TurnsOK(run) /\ seen.turns = job.aiCalls + run.aiCalls
  /\ CallsAccounted
  /\ job.kind # "setup" =>
       /\ seen.turns <= MaxProviderTurns
       /\ Active => job.aiCalls + run.maxTurns <= MaxProviderTurns

\* The calls of a checked batch are executions that are already spoken for.
ExecsOK(r) ==
  /\ r.maxExecs >= 1
  /\ r.pc = "weather" => r.execs = 0
  /\ r.todo = <<>> <=> r.pc # "calls"
  /\ r.execs + Len(r.todo) <= r.maxExecs /\ r.execs + Len(r.todo) <= r.attempted

ExecsInv ==
  /\ Active => ExecsOK(run) /\ seen.execs <= job.attempted + run.execs
  /\ job.kind # "setup" =>
       /\ seen.execs <= MaxToolExecutions
       /\ Active => job.attempted + run.maxExecs <= MaxToolExecutions

\* Whoever was asked before is the provider of the run's session; a run that has not
\* opened one is pinned to it.
ProviderInv ==
  /\ \A p, q \in Served : p = q
  /\ Active =>
       /\ Served \subseteq {Pinned}
       /\ run.pc \in {"weather", "root", "session"} => run.config = NoOne
       /\ run.pc \in {"turn", "calls", "reformat", "final"} => run.config # NoOne
       /\ run.pc = "ended" /\ run.error = "none" => run.config # NoOne

\* Pages are disclosed by pages that were opened; an answer is only accepted
\* with the evidence it requires, in this run or in the one that it repairs.
GroundInv ==
  /\ (run.obtained \cap Pages) \cup {Root} \subseteq run.allowed
  /\ \A p \in run.allowed : p = Root \/ \E q \in run.obtained \cap Pages : p \in LinksOf[q]
  /\ job.scope = "dynamic" /\ Forecast \in run.obtained => run.date \in Evidence(run)
  /\ run.pc \in {"reformat", "final"} \/ (run.pc = "ended" /\ run.error = "none") =>
       run.required \subseteq UsedTools(Evidence(run))
  /\ Active => \/ Required \subseteq run.required
               \/ run.preload /\ Required \subseteq UsedTools(run.seeds)
  /\ job.result = "answer" => Required \subseteq UsedTools(Evidence(run))

IInv == Shape /\ Staged /\ TurnsInv /\ ExecsInv /\ ProviderInv /\ GroundInv

-----------------------------------------------------------------------------
(* Lemmas about runs *)

\* Evidence that grows uses no fewer tools.
LEMMA UsedToolsGrow ==
  ASSUME NEW A, NEW B, A \subseteq B
  PROVE  UsedTools(A) \subseteq UsedTools(B) /\ UsedTools(A) \subseteq Tools
  BY DEF UsedTools, Tools

\* The provider of a configuration is one of the providers.
LEMMA ProviderTyped ==
  ASSUME NEW c \in Configurations \cup {NoOne}
  PROVE  /\ Provider(c) \in Providers \cup {NoOne}
         /\ c # NoOne => Provider(c) \in Providers /\ Provider(c) = ProviderOf[c]
         /\ NoOne \notin Providers
  BY ConfigurationAssumption DEF Provider

\* A new run is well formed, has opened nothing, and may take one turn and one
\* tool execution at least, but no more than it was given.
Fresh(r, seeds, preload, turns, execs, required, expected) ==
  /\ r \in RunRow /\ TurnsOK(r) /\ ExecsOK(r)
  /\ r.pc = "weather" /\ r.aiCalls = 0 /\ r.execs = 0 /\ r.config = NoOne
  /\ r.expected = expected /\ r.required = required /\ r.preload = preload
  /\ r.seeds = seeds /\ r.obtained = {} /\ r.allowed = {Root}
  /\ turns >= 1 => r.maxTurns <= turns
  /\ execs >= 1 => r.maxExecs <= execs
  /\ r.maxTurns <= MaxProviderTurns /\ r.maxExecs <= MaxToolExecutions

LEMMA NewRuns ==
  ASSUME NEW tier \in Tiers, NEW seeds \in SUBSET Docs, NEW preload \in BOOLEAN,
         NEW turns \in Int, NEW execs \in Int, NEW required \in SUBSET Tools,
         NEW expected \in Providers \cup {NoOne}
  PROVE  Fresh(NewRun(tier, seeds, preload, turns, execs, required, expected),
               seeds, preload, turns, execs, required, expected)
  <1> DEFINE r == NewRun(tier, seeds, preload, turns, execs, required, expected)
  <1>1. \A m, n \in Int : m >= 1 =>
          /\ Greater(1, Lesser(m, n)) \in Nat /\ Greater(1, Lesser(m, n)) >= 1
          /\ Greater(1, Lesser(m, n)) <= m
          /\ n >= 1 => Greater(1, Lesser(m, n)) <= n
    BY DEF Greater, Lesser
  <1>2. MaxProviderTurns \in Int /\ MaxProviderTurns >= 1
        /\ MaxToolExecutions \in Int /\ MaxToolExecutions >= 1
    BY BudgetAssumption
  <1>3. Root \in Pages /\ "weather" \in RunPcs /\ "none" \in Errors /\ <<>> \in Seq(Calls)
        /\ Len(<<>>) = 0
    BY DEF Pages, RunPcs, Errors
  <1>4. r \in RunRow
    BY <1>1, <1>2, <1>3 DEF RunRow, NewRun
  <1>5. TurnsOK(r)
    BY <1>1, <1>2 DEF TurnsOK, NewRun
  <1>6. ExecsOK(r)
    <2>1. r.todo = <<>> /\ r.pc = "weather" /\ r.execs = 0 /\ r.attempted = 0
      BY DEF NewRun
    <2>2. r.maxExecs \in Nat /\ r.maxExecs >= 1
      BY <1>1, <1>2 DEF NewRun
    <2> HIDE DEF r
    <2>3. r.execs + Len(r.todo) = 0
      BY <1>3, <2>1
    <2> QED BY <2>1, <2>2, <2>3 DEF ExecsOK
  <1>7. /\ r.pc = "weather" /\ r.aiCalls = 0 /\ r.execs = 0 /\ r.config = NoOne
        /\ r.expected = expected /\ r.required = required
        /\ r.seeds = seeds /\ r.obtained = {} /\ r.allowed = {Root}
    BY DEF NewRun
  <1>8. r.preload = preload
    BY DEF NewRun
  <1>9. /\ turns >= 1 => r.maxTurns <= turns
        /\ execs >= 1 => r.maxExecs <= execs
        /\ r.maxTurns <= MaxProviderTurns /\ r.maxExecs <= MaxToolExecutions
    BY <1>1, <1>2 DEF NewRun
  <1> HIDE DEF r
  <1>10. Fresh(r, seeds, preload, turns, execs, required, expected)
    BY <1>4, <1>5, <1>6, <1>7, <1>8, <1>9 DEF Fresh
  <1> QED BY <1>10 DEF r

\* A request that has started no run has opened nothing.
LEMMA NoRuns ==
  /\ NoRun \in RunRow /\ NoRun.pc = "off" /\ NoRun.obtained = {} /\ NoRun.allowed = {Root}
  /\ \A e \in Providers \cup {NoOne} :
       LET n == [NoRun EXCEPT !.expected = e] IN
         n \in RunRow /\ n.pc = "off" /\ n.obtained = {} /\ n.allowed = {Root}
  <1> DEFINE r == NewRun("routine", {}, FALSE, 1, 1, {}, NoOne)
  <1>1. r \in RunRow /\ r.obtained = {} /\ r.allowed = {Root}
    <2>1. /\ "routine" \in Tiers /\ {} \in SUBSET Docs /\ FALSE \in BOOLEAN /\ 1 \in Int
          /\ {} \in SUBSET Tools /\ NoOne \in Providers \cup {NoOne}
      BY DEF Tiers
    <2>2. Fresh(r, {}, FALSE, 1, 1, {}, NoOne)
      BY <2>1, NewRuns, Zenon
    <2> QED BY <2>2, Zenon DEF Fresh
  <1>2. NoRun = [r EXCEPT !.pc = "off"]
    BY DEF NoRun
  <1> HIDE DEF r
  <1>3. /\ NoRun \in RunRow /\ NoRun.pc = "off" /\ NoRun.obtained = {} /\ NoRun.allowed = {Root}
    BY <1>1, <1>2 DEF RunRow, RunPcs
  <1> QED BY <1>3 DEF RunRow

\* Who approves what: the tools of a request are tools, and requests come with them.
LEMMA Fields ==
  ASSUME Shape
  PROVE  /\ job.tools \in SUBSET Tools /\ Required \subseteq job.tools
         /\ Required \in SUBSET Tools
         /\ run.obtained \in SUBSET Docs /\ run.seeds \in SUBSET Docs
         /\ Evidence(run) \in SUBSET Docs
         /\ run.required \in SUBSET Tools /\ run.allowed \in SUBSET Pages
         /\ run.config \in Configurations \cup {NoOne}
         /\ run.expected \in Providers \cup {NoOne} /\ Pinned \in Providers \cup {NoOne}
         /\ Served \subseteq Providers
         /\ run.aiCalls \in Nat /\ run.attempted \in Nat
         /\ job.aiCalls \in Nat /\ job.attempted \in Nat
  <1>1. job.tools \in SUBSET Tools /\ job.aiCalls \in Nat /\ job.attempted \in Nat
    BY DEF Shape, JobRow
  <1>2. /\ run.obtained \in SUBSET Docs /\ run.seeds \in SUBSET Docs
        /\ run.required \in SUBSET Tools /\ run.allowed \in SUBSET Pages
        /\ run.config \in Configurations \cup {NoOne} /\ run.expected \in Providers \cup {NoOne}
        /\ run.aiCalls \in Nat /\ run.attempted \in Nat
    BY DEF Shape, RunRow
  <1>3. Required \subseteq job.tools
    BY <1>1 DEF Required
  <1>4. Evidence(run) \subseteq run.obtained \cup run.seeds
    BY DEF Evidence
  <1>5. Pinned \in Providers \cup {NoOne}
    BY <1>2, ProviderTyped DEF Pinned
  <1>6. Served \subseteq Providers
    BY ConfigurationAssumption DEF Served, Shape
  <1> QED BY <1>1, <1>2, <1>3, <1>4, <1>5, <1>6

-----------------------------------------------------------------------------
(* The start of a request *)

\* Nothing was asked of anyone before the first request.
LEMMA InitInv == Init => IInv
  <1> SUFFICES ASSUME Init PROVE IInv
    OBVIOUS
  <1>1. run \in RunRow /\ run.pc = "off" /\ run.obtained = {} /\ run.allowed = {Root}
    BY NoRuns DEF Init
  <1>2. Shape
    BY <1>1 DEF Init, Shape, JobRow, Stages, Unbegun, Tools, Scopes, Tiers, Results
  <1>3. Staged /\ TurnsInv /\ ExecsInv /\ ProviderInv
    BY <1>1, BudgetAssumption
       DEF Init, Staged, TurnsInv, ExecsInv, ProviderInv, Active, Unbegun, CallsAccounted, Served
  <1>4. GroundInv
    BY <1>1 DEF Init, GroundInv, Active
  <1> QED BY <1>2, <1>3, <1>4 DEF IInv

\* A run that starts with what its request has left, for whoever it asked before.
LEMMA Starts ==
  ASSUME IInv, UNCHANGED <<settings, clock, seen>>,
         job' \in JobRow, job'.stage \notin Unbegun \cup {"done"}, job'.result = "none",
         NEW seeds, NEW preload, NEW turns \in Int, NEW execs \in Int, NEW required, NEW expected,
         Fresh(run', seeds, preload, turns, execs, required, expected),
         seen.turns = job'.aiCalls, seen.execs <= job'.attempted,
         job'.kind # "setup" =>
           /\ turns >= 1 /\ turns <= MaxProviderTurns - job'.aiCalls
           /\ execs >= 1 /\ execs <= MaxToolExecutions - job'.attempted,
         Served \subseteq {expected},
         Required' \subseteq required \/ (preload /\ Required' \subseteq UsedTools(seeds))
  PROVE  IInv'
  <1>1. Shape'
    BY DEF IInv, Shape, Fresh
  <1>2. /\ job'.aiCalls \in Nat /\ job'.attempted \in Nat
        /\ seen.turns \in Nat /\ seen.execs \in Nat
    BY DEF JobRow, IInv, Shape
  <1>3. /\ run'.pc = "weather" /\ run'.aiCalls = 0 /\ run'.execs = 0
        /\ run'.maxTurns \in Nat /\ run'.maxExecs \in Nat
    BY DEF Fresh, RunRow
  <1>4. Staged'
    BY <1>3 DEF Staged, Active
  <1>5. TurnsInv'
    BY <1>2, <1>3, BudgetAssumption DEF TurnsInv, Active, Fresh, CallsAccounted
  <1>6. ExecsInv'
    BY <1>2, <1>3, BudgetAssumption DEF ExecsInv, Active, Fresh
  <1>7. ProviderInv'
    BY <1>3 DEF IInv, ProviderInv, Active, Fresh, Served, Pinned
  <1>8. GroundInv'
    BY <1>3 DEF GroundInv, Active, Fresh
  <1> QED BY <1>1, <1>4, <1>5, <1>6, <1>7, <1>8 DEF IInv

\* A request that ends, or that has not started a run, keeps what holds of its run.
LEMMA Rests ==
  ASSUME IInv, ~Active', run' \in RunRow, job' \in JobRow, UNCHANGED <<settings, clock>>,
         seen' \in [turns : Nat, execs : Nat, asked : SUBSET Configurations],
         seen'.asked = seen.asked,
         job'.stage \in Unbegun \/ job'.stage = "done",
         job'.stage \in Unbegun => /\ job'.aiCalls = 0 /\ job'.attempted = 0
                                   /\ job'.result = "none"
                                   /\ seen'.turns = 0 /\ seen'.execs = 0 /\ seen'.asked = {},
         CallsAccounted',
         job'.kind # "setup" =>
           seen'.turns <= MaxProviderTurns /\ seen'.execs <= MaxToolExecutions,
         \/ run'.obtained = run.obtained /\ run'.allowed = run.allowed
         \/ run'.obtained = {} /\ run'.allowed = {Root},
         job'.scope = "dynamic" /\ Forecast \in run'.obtained =>
           run'.date \in Evidence(run)',
         job'.result = "answer" => Required' \subseteq UsedTools(Evidence(run)')
  PROVE  IInv'
  <1>1. Shape' /\ Staged'
    BY DEF IInv, Shape, Staged, Unbegun
  <1>2. TurnsInv' /\ ExecsInv'
    BY DEF TurnsInv, ExecsInv
  <1>3. ProviderInv'
    BY DEF IInv, ProviderInv, Served
  <1>4. GroundInv'
    <2>1. run'.pc = "off"
      BY DEF Active
    <2> QED BY <2>1 DEF IInv, GroundInv, Active
  <1> QED BY <1>1, <1>2, <1>3, <1>4 DEF IInv

\* A request that begins, or that refreshes its sources first.
LEMMA BeginInv ==
  ASSUME IInv, RefreshDependencies \/ \E q \in Requests : Begin(q.kind, q.tools, q.scope, q.tier)
  PROVE  IInv'
  <1> DEFINE Begins(seeds, required, expected) ==
               /\ run' = NewRun(job'.tier, seeds, FALSE, MaxProviderTurns, MaxToolExecutions,
                                required, expected)
               /\ job'.stage = "first"
  <1>0. /\ job \in JobRow /\ run \in RunRow
        /\ seen \in [turns : Nat, execs : Nat, asked : SUBSET Configurations]
    BY DEF IInv, Shape
  <1>1. /\ job.stage \in Unbegun /\ ~Active /\ job.aiCalls = 0 /\ job.attempted = 0
        /\ job.result = "none" /\ run.pc = "off"
        /\ seen.turns = 0 /\ seen.execs = 0 /\ seen.asked = {}
    BY DEF RefreshDependencies, Begin, IInv, Staged, Unbegun, Active
  <1>2. ASSUME NEW seeds \in SUBSET Docs, NEW required \in SUBSET Tools,
               NEW expected \in Providers \cup {NoOne},
               Begins(seeds, required, expected), Required' \subseteq required,
               job' \in JobRow, job'.aiCalls = 0, job'.attempted = 0, job'.result = "none",
               UNCHANGED <<settings, clock, seen>>
        PROVE  IInv'
    <2>1. /\ job'.tier \in Tiers /\ FALSE \in BOOLEAN
          /\ MaxProviderTurns \in Int /\ MaxToolExecutions \in Int
      BY <1>2, BudgetAssumption DEF JobRow
    <2>2. Fresh(NewRun(job'.tier, seeds, FALSE, MaxProviderTurns, MaxToolExecutions,
                       required, expected),
                seeds, FALSE, MaxProviderTurns, MaxToolExecutions, required, expected)
      BY <1>2, <2>1, NewRuns, Zenon
    <2>3. Fresh(run', seeds, FALSE, MaxProviderTurns, MaxToolExecutions, required, expected)
      BY <1>2, <2>2, Zenon
    <2>4. /\ MaxProviderTurns >= 1 /\ MaxProviderTurns <= MaxProviderTurns - job'.aiCalls
          /\ MaxToolExecutions >= 1 /\ MaxToolExecutions <= MaxToolExecutions - job'.attempted
          /\ seen.turns = job'.aiCalls /\ seen.execs <= job'.attempted
          /\ job'.stage \notin Unbegun \cup {"done"}
      BY <1>1, <1>2, BudgetAssumption DEF Unbegun
    <2>5. Served \subseteq {expected}
      BY <1>1 DEF Served
    <2> QED BY <1>1, <1>2, <2>1, <2>3, <2>4, <2>5, Starts
  <1> HIDE DEF Begins
  <1>3. CASE RefreshDependencies
    <2>1. CASE /\ job' = [job EXCEPT !.stage = "first"] /\ UNCHANGED <<settings, clock, seen>>
               /\ \E seeds \in SUBSET (IF Web \in job.tools THEN Pages ELSE {}) :
                    run' = NewRun(job.tier, seeds, FALSE, MaxProviderTurns,
                                  MaxToolExecutions, Required, run.expected)
      <3>1. PICK seeds \in SUBSET (IF Web \in job.tools THEN Pages ELSE {}) :
              run' = NewRun(job.tier, seeds, FALSE, MaxProviderTurns,
                            MaxToolExecutions, Required, run.expected)
        BY <2>1
      <3>2. /\ seeds \in SUBSET Docs /\ Required \in SUBSET Tools
        BY Fields DEF Docs, IInv
      <3>3. /\ job' \in JobRow /\ job'.aiCalls = 0 /\ job'.attempted = 0 /\ job'.result = "none"
            /\ job'.kind = job.kind /\ job'.tools = job.tools /\ job'.tier = job.tier
            /\ job'.stage = "first"
        BY <1>0, <1>1, <2>1 DEF JobRow, Stages
      <3>4. Required' = Required
        BY <3>3 DEF Required, IsSetup
      <3>5. Begins(seeds, Required, run.expected) /\ run.expected \in Providers \cup {NoOne}
        BY <1>0, <3>1, <3>3 DEF Begins, RunRow
      <3> QED BY <1>2, <2>1, <3>2, <3>3, <3>4, <3>5
    <2>2. CASE /\ \E result \in {"unchanged", "superseded", "failed"} :
                    job' = [job EXCEPT !.stage = "done", !.result = result]
               /\ UNCHANGED <<settings, clock, seen, run>>
      <3>1. PICK result \in {"unchanged", "superseded", "failed"} :
              job' = [job EXCEPT !.stage = "done", !.result = result]
        BY <2>2
      <3>3. /\ job' \in JobRow /\ job'.aiCalls = 0 /\ job'.stage = "done"
            /\ job'.scope = job.scope /\ job'.result = result
        BY <1>0, <1>1, <3>1 DEF JobRow, Stages, Results
      <3>4. job'.scope = "dynamic" /\ Forecast \in run'.obtained => run'.date \in Evidence(run)'
        BY <2>2, <3>3 DEF IInv, GroundInv, Evidence
      <3>5. ~Active' /\ job'.stage \notin Unbegun /\ job'.result # "answer"
        BY <1>1, <2>2, <3>3 DEF Active, Unbegun
      <3>6. seen'.turns = 0 /\ seen'.execs = 0 /\ seen' = seen /\ run' = run
        BY <1>1, <2>2
      <3>7. 0 <= MaxProviderTurns /\ 0 <= MaxToolExecutions
        BY BudgetAssumption
      <3>8. /\ run' \in RunRow /\ seen' \in [turns : Nat, execs : Nat, asked : SUBSET Configurations]
            /\ seen'.asked = seen.asked /\ CallsAccounted'
            /\ seen'.turns <= MaxProviderTurns /\ seen'.execs <= MaxToolExecutions
            /\ run'.obtained = run.obtained /\ run'.allowed = run.allowed
        BY <1>0, <3>3, <3>6, <3>7 DEF CallsAccounted
      <3>9. UNCHANGED <<settings, clock>> /\ job'.result # "answer"
        BY <2>2, <3>5
      <3> QED BY <3>3, <3>4, <3>5, <3>8, <3>9, Rests, SMTT(20)
    <2>3. \/ /\ job' = [job EXCEPT !.stage = "first"] /\ UNCHANGED <<settings, clock, seen>>
             /\ \E seeds \in SUBSET (IF Web \in job.tools THEN Pages ELSE {}) :
                  run' = NewRun(job.tier, seeds, FALSE, MaxProviderTurns,
                                MaxToolExecutions, Required, run.expected)
          \/ /\ \E result \in {"unchanged", "superseded", "failed"} :
                  job' = [job EXCEPT !.stage = "done", !.result = result]
             /\ UNCHANGED <<settings, clock, seen, run>>
      BY <1>3 DEF RefreshDependencies
    <2> QED BY <2>1, <2>2, <2>3
  <1>4. CASE \E q \in Requests : Begin(q.kind, q.tools, q.scope, q.tier)
    <2>1. PICK q \in Requests : Begin(q.kind, q.tools, q.scope, q.tier)
      BY <1>4
    <2> DEFINE required == IF q.kind = "setup" /\ Weather \notin q.tools THEN {} ELSE q.tools
    <2>2. PICK stage \in {"first", "refresh", "condition"},
               expected \in {NoOne, Provider(settings)} :
            /\ job' = [job EXCEPT !.stage = stage, !.kind = q.kind, !.tools = q.tools,
                                  !.scope = q.scope, !.tier = q.tier]
            /\ run' = IF stage # "first" THEN [NoRun EXCEPT !.expected = expected] ELSE
                        NewRun(q.tier, {}, FALSE, MaxProviderTurns, MaxToolExecutions,
                               required, expected)
      BY <2>1 DEF Begin
    <2>8. expected \in Providers \cup {NoOne}
      BY ProviderTyped DEF IInv, Shape
    <2>3. UNCHANGED <<settings, clock, seen>>
      BY <2>1 DEF Begin
    <2>4. /\ q.kind \in {"setup", "test", "scheduled"} /\ q.tools \in SUBSET Tools
          /\ q.scope \in Scopes /\ q.tier \in Tiers
      BY DEF Requests, Tools, Scopes, Tiers
    <2>5. /\ job' \in JobRow /\ job'.stage = stage /\ job'.aiCalls = 0 /\ job'.attempted = 0
          /\ job'.result = "none" /\ job'.kind = q.kind /\ job'.tools = q.tools
          /\ job'.tier = q.tier
      BY <1>0, <1>1, <2>2, <2>4 DEF JobRow, Stages, Unbegun
    <2>6. CASE stage = "first"
      <3>1. required \in SUBSET Tools /\ {} \in SUBSET Docs
        BY <2>4
      <3>2. Required' = required
        BY <2>5 DEF Required, IsSetup
      <3>3. Begins({}, required, expected)
        BY <2>2, <2>5, <2>6 DEF Begins
      <3> HIDE DEF required
      <3> QED BY <1>2, <2>3, <2>5, <2>8, <3>1, <3>2, <3>3
    <2>7. CASE stage # "first"
      <3>1. run' = [NoRun EXCEPT !.expected = expected]
        BY <2>2, <2>7
      <3>2. /\ run' \in RunRow /\ run'.pc = "off" /\ run'.obtained = {}
            /\ run'.allowed = {Root}
        BY <2>8, <3>1, NoRuns
      <3>3. ~Active' /\ job'.stage \in Unbegun /\ job'.result # "answer"
        BY <2>5, <2>7, <3>2 DEF Active, Unbegun
      <3>4. seen'.turns = 0 /\ seen'.execs = 0 /\ seen' = seen /\ seen'.asked = {}
        BY <1>1, <2>3
      <3>5. 0 <= MaxProviderTurns /\ 0 <= MaxToolExecutions
        BY BudgetAssumption
      <3>6. CallsAccounted'
        BY <3>3 DEF CallsAccounted, Unbegun
      <3> QED BY <1>0, <2>3, <2>5, <3>2, <3>3, <3>4, <3>5, <3>6, Rests
    <2> QED BY <2>6, <2>7
  <1> QED BY <1>3, <1>4

-----------------------------------------------------------------------------
(* The steps of a run *)

\* What a run never changes about itself, and what it has gathered.
SameTask(r, s) ==
  /\ r.seeds = s.seeds /\ r.preload = s.preload /\ r.required = s.required
  /\ r.expected = s.expected /\ r.maxTurns = s.maxTurns /\ r.maxExecs = s.maxExecs
SameDocs(r, s) == r.obtained = s.obtained /\ r.allowed = s.allowed /\ r.date = s.date
SameCounts(r, s) == /\ r.turn = s.turn /\ r.aiCalls = s.aiCalls
                    /\ r.attempted = s.attempted /\ r.execs = s.execs

\* The tool-free session, and an output that is accepted, come with the evidence
\* that the run requires.
Proven(r) == r.pc \in {"reformat", "final"} \/ (r.pc = "ended" /\ r.error = "none")

\* A step of a run that keeps its own books keeps those of its request.
LEMMA Books ==
  ASSUME IInv, Active, UNCHANGED <<settings, clock, job>>,
         run' \in RunRow, run'.pc # "off", SameTask(run', run),
         seen' \in [turns : Nat, execs : Nat, asked : SUBSET Configurations],
         TurnsOK(run'), ExecsOK(run'),
         seen'.turns = job.aiCalls + run'.aiCalls,
         seen'.execs <= job.attempted + run'.execs
  PROVE  Shape' /\ Staged' /\ TurnsInv' /\ ExecsInv'
  <1>1. /\ job.aiCalls \in Nat /\ job.attempted \in Nat
        /\ run'.turn \in Nat /\ run'.aiCalls \in Nat /\ run'.maxTurns \in Nat
        /\ run'.execs \in Nat /\ run'.maxExecs \in Nat /\ Len(run'.todo) \in Nat
        /\ seen'.turns \in Nat /\ seen'.execs \in Nat
        /\ run'.maxTurns = run.maxTurns /\ run'.maxExecs = run.maxExecs
        /\ run'.pc \in RunPcs
    <2>1. run'.todo \in Seq(Calls) /\ run'.turn \in Nat /\ run'.aiCalls \in Nat
          /\ run'.maxTurns \in Nat /\ run'.execs \in Nat /\ run'.maxExecs \in Nat
          /\ run'.pc \in RunPcs
      BY DEF RunRow
    <2>2. job.aiCalls \in Nat /\ job.attempted \in Nat
      BY DEF IInv, Shape, JobRow
    <2> QED BY <2>1, <2>2 DEF SameTask
  <1>2. Shape'
    BY DEF IInv, Shape
  <1>3. Staged'
    BY DEF IInv, Staged, Active
  <1>4. run'.aiCalls <= run'.maxTurns
    BY <1>1 DEF TurnsOK, RunPcs
  <1>5. TurnsInv'
    <2>1. job.kind # "setup" => job.aiCalls + run.maxTurns <= MaxProviderTurns
      BY DEF IInv, TurnsInv
    <2>2. Active'
      BY DEF Active
    <2>3. job'.stage # "done"
      BY DEF IInv, Staged
    <2> QED BY <1>1, <1>4, <2>1, <2>2, <2>3, BudgetAssumption DEF TurnsInv, CallsAccounted
  <1>6. ExecsInv'
    <2>1. job.kind # "setup" => job.attempted + run.maxExecs <= MaxToolExecutions
      BY DEF IInv, ExecsInv
    <2>2. Active'
      BY DEF Active
    <2>3. run'.execs <= run'.maxExecs
      BY <1>1 DEF ExecsOK
    <2> QED BY <1>1, <2>1, <2>2, <2>3, BudgetAssumption DEF ExecsInv
  <1> QED BY <1>2, <1>3, <1>5, <1>6

\* A step that asks nobody but the provider of the run.
LEMMA SameProvider ==
  ASSUME IInv, Active, UNCHANGED job, SameTask(run', run), run'.config = run.config,
         run'.pc \in {"weather", "root", "session"} => run.config = NoOne,
         run'.pc \in {"turn", "calls", "reformat", "final"} => run.config # NoOne,
         run'.pc = "ended" /\ run'.error = "none" => run.config # NoOne,
         seen'.asked = seen.asked \/
           (run.config # NoOne /\ seen'.asked = seen.asked \cup {run.config})
  PROVE  ProviderInv'
  <1>1. run'.expected = run.expected /\ Pinned' = Pinned
    BY DEF SameTask, Pinned
  <1>2. Served \subseteq {Pinned}
    BY DEF IInv, ProviderInv
  <1>3. ASSUME run.config # NoOne, seen'.asked = seen.asked \cup {run.config}
        PROVE  Served' \subseteq {Pinned}
    BY <1>2, <1>3 DEF Served, Pinned, Provider
  <1>4. Served' \subseteq {Pinned}'
    BY <1>1, <1>2, <1>3 DEF Served
  <1> QED BY <1>1, <1>4 DEF IInv, ProviderInv, Active

\* A step that opens nothing.
LEMMA SameGround ==
  ASSUME IInv, Active, UNCHANGED job, SameTask(run', run), SameDocs(run', run),
         Proven(run') => ~SourceRequired(run)
  PROVE  GroundInv'
  <1>1. Evidence(run)' = Evidence(run)
    BY DEF Evidence, SameTask, SameDocs
  <1>2. Required' = Required
    BY DEF Required, IsSetup
  <1> QED BY <1>1, <1>2 DEF IInv, GroundInv, SameTask, SameDocs, Active, Proven, SourceRequired,
       Staged

\* A step that adds to the evidence: a page that the run was allowed to open, or a
\* forecast for a date of its evidence.
Discloses(r, doc) ==
  /\ r.obtained = run.obtained \cup {doc}
  /\ \/ /\ doc \in run.allowed /\ r.allowed = run.allowed \cup {doc} \cup LinksOf[doc]
        /\ r.date = run.date
     \/ /\ doc = Forecast /\ r.allowed = run.allowed
        /\ job.scope = "dynamic" => r.date \in Evidence(run)

LEMMA MoreGround ==
  ASSUME IInv, Active, UNCHANGED job, SameTask(run', run),
         Proven(run') => ~SourceRequired(run'),
         NEW doc \in Docs, Discloses(run', doc)
  PROVE  GroundInv'
  <1>1. Evidence(run) \subseteq Evidence(run)'
    BY DEF Evidence, SameTask, Discloses
  <1>2. Required' = Required
    BY DEF Required, IsSetup
  <1>3. run.allowed \subseteq Pages
    BY Fields DEF IInv
  <1>4. (run'.obtained \cap Pages) \cup {Root} \subseteq run'.allowed
    BY <1>3, PagesAssumption DEF IInv, GroundInv, Discloses
  <1>5. \A p \in run'.allowed :
          p = Root \/ \E q \in run'.obtained \cap Pages : p \in LinksOf[q]
    BY <1>3, PagesAssumption DEF IInv, GroundInv, Discloses
  <1>6. job.scope = "dynamic" /\ Forecast \in run'.obtained => run'.date \in Evidence(run)'
    BY <1>1, <1>3, PagesAssumption DEF IInv, GroundInv, Discloses
  <1>7. job.result # "answer"
    BY DEF IInv, Staged
  <1>8. Proven(run') => run'.required \subseteq UsedTools(Evidence(run'))
    BY DEF SourceRequired
  <1> QED BY <1>2, <1>4, <1>5, <1>6, <1>7, <1>8 DEF IInv, GroundInv, SameTask, Active, Proven


-----------------------------------------------------------------------------
(* Where a run goes next *)

\* What an ended run keeps.
LEMMA EndedRows ==
  ASSUME NEW r \in RunRow, NEW error \in Errors
  PROVE  /\ Ended(r, error) \in RunRow /\ SameTask(Ended(r, error), r)
         /\ SameDocs(Ended(r, error), r) /\ SameCounts(Ended(r, error), r)
         /\ Ended(r, error).config = r.config /\ Ended(r, error).pc = "ended"
         /\ Ended(r, error).error = error /\ Ended(r, error).todo = <<>>
  <1>1. /\ "ended" \in RunPcs /\ <<>> \in Seq(Calls)
    BY DEF RunPcs
  <1>2. Ended(r, error) \in RunRow
    BY <1>1 DEF Ended, RunRow
  <1> QED BY <1>2 DEF Ended, RunRow, SameTask, SameDocs, SameCounts

\* A run that ends keeps its books; with an output, it has what is required.
LEMMA Ends ==
  ASSUME IInv, Active, UNCHANGED <<settings, clock, job>>,
         NEW r \in RunRow, NEW error \in Errors, run' = Ended(r, error),
         SameTask(r, run), SameDocs(r, run), r.config = run.config,
         r.aiCalls <= r.maxTurns, r.turn = run.turn,
         r.execs <= r.maxExecs, r.execs <= r.attempted,
         seen' \in [turns : Nat, execs : Nat, asked : SUBSET Configurations],
         seen'.turns = job.aiCalls + r.aiCalls, seen'.execs <= job.attempted + r.execs,
         seen'.asked = seen.asked \/
           (run.config # NoOne /\ seen'.asked = seen.asked \cup {run.config}),
         error = "none" => run.config # NoOne /\ ~SourceRequired(run)
  PROVE  IInv'
  <1>1. /\ run' \in RunRow /\ SameTask(run', r) /\ SameDocs(run', r) /\ SameCounts(run', r)
        /\ run'.config = run.config /\ run'.pc = "ended" /\ run'.error = error
        /\ run'.todo = <<>>
    BY EndedRows
  <1>2. SameTask(run', run) /\ SameDocs(run', run)
    BY <1>1 DEF SameTask, SameDocs
  <1>3. TurnsOK(run')
    <2>1. run.turn \in 1..run.maxTurns
      BY DEF IInv, TurnsInv, TurnsOK
    <2> QED BY <1>1, <1>2, <2>1 DEF TurnsOK, SameTask, SameCounts
  <1>4. ExecsOK(run')
    <2>1. run.maxExecs >= 1
      BY DEF IInv, ExecsInv, ExecsOK
    <2>2. r.execs \in Nat /\ r.attempted \in Nat /\ r.maxExecs \in Nat
      BY DEF RunRow
    <2>3. Len(run'.todo) = 0 /\ run'.execs = r.execs /\ run'.attempted = r.attempted
          /\ run'.maxExecs = r.maxExecs /\ run'.maxExecs = run.maxExecs
      BY <1>1, <1>2 DEF SameTask, SameCounts
    <2> QED BY <1>1, <2>1, <2>2, <2>3 DEF ExecsOK
  <1>5. seen'.turns = job.aiCalls + run'.aiCalls /\ seen'.execs <= job.attempted + run'.execs
    BY <1>1 DEF SameCounts
  <1>6. Shape' /\ Staged' /\ TurnsInv' /\ ExecsInv'
    BY <1>1, <1>2, <1>3, <1>4, <1>5, Books
  <1>7. ProviderInv'
    BY <1>1, <1>2, SameProvider
  <1>8. GroundInv'
    BY <1>1, <1>2, SameGround DEF Proven
  <1> QED BY <1>6, <1>7, <1>8 DEF IInv

\* After a turn that used tools, a run goes on to another turn, to its tool-free
\* session, or to its end.
GoesOn(n, r) ==
  /\ n \in RunRow /\ SameTask(n, r) /\ SameDocs(n, r) /\ TurnsOK(n)
  /\ n.aiCalls = r.aiCalls /\ n.attempted = r.attempted /\ n.execs = r.execs
  /\ n.config = r.config /\ n.todo = <<>>
  /\ n.pc \in {"turn", "reformat", "ended"}
  /\ n.pc = "reformat" => ~SourceRequired(r)
  /\ n.pc = "ended" => n.error # "none"

LEMMA NextTurns ==
  ASSUME NEW r \in RunRow, r.turn \in 1..r.maxTurns, r.aiCalls = r.turn, r.todo = <<>>,
         NEW finalize \in BOOLEAN
  PROVE  GoesOn(NextTurn(r, finalize), r)
  <1>1. r.turn \in Nat /\ r.maxTurns \in Nat
    BY DEF RunRow
  <1>2. ASSUME NEW n, n = [r EXCEPT !.pc = "reformat", !.reformatted = TRUE],
               r.turn < r.maxTurns, ~SourceRequired(r)
        PROVE  GoesOn(n, r)
    <2>1. n \in RunRow /\ n.pc = "reformat" /\ n.todo = <<>> /\ n.config = r.config
          /\ n.turn = r.turn /\ n.maxTurns = r.maxTurns
          /\ n.aiCalls = r.aiCalls /\ n.attempted = r.attempted /\ n.execs = r.execs
      BY <1>2 DEF RunRow, RunPcs
    <2>2. SameTask(n, r) /\ SameDocs(n, r)
      BY <1>2 DEF RunRow, SameTask, SameDocs
    <2>3. TurnsOK(n)
      BY <1>1, <1>2, <2>1 DEF TurnsOK
    <2> QED BY <1>2, <2>1, <2>2, <2>3 DEF GoesOn
  <1>3. GoesOn(Ended(r, "MONITOR_TOOL_LIMIT"), r)
    <2> DEFINE n == Ended(r, "MONITOR_TOOL_LIMIT")
    <2>1. "MONITOR_TOOL_LIMIT" \in Errors
      BY DEF Errors
    <2>2. /\ n \in RunRow /\ SameTask(n, r) /\ SameDocs(n, r) /\ SameCounts(n, r)
          /\ n.config = r.config /\ n.pc = "ended"
          /\ n.error = "MONITOR_TOOL_LIMIT" /\ n.todo = <<>>
      BY <2>1, EndedRows
    <2> HIDE DEF n
    <2>3. TurnsOK(n)
      BY <1>1, <2>2 DEF TurnsOK, SameTask, SameCounts
    <2>4. GoesOn(n, r)
      BY <2>2, <2>3 DEF GoesOn, SameCounts
    <2> QED BY <2>4 DEF n
  <1>4. ASSUME NEW n, n = [r EXCEPT !.pc = "turn", !.turn = @ + 1], r.turn # r.maxTurns
        PROVE  GoesOn(n, r)
    <2>4. n.pc = "turn" /\ n.todo = <<>> /\ n.config = r.config
          /\ n.turn = r.turn + 1 /\ n.maxTurns = r.maxTurns
          /\ n.aiCalls = r.aiCalls /\ n.attempted = r.attempted /\ n.execs = r.execs
      BY <1>4 DEF RunRow
    <2>5. r.turn + 1 \in Nat /\ "turn" \in RunPcs
      BY <1>1 DEF RunPcs
    <2>6. n \in RunRow
      BY <1>4, <2>5 DEF RunRow
    <2>1. /\ n \in RunRow /\ n.pc = "turn" /\ n.todo = <<>> /\ n.config = r.config
          /\ n.turn = r.turn + 1 /\ n.maxTurns = r.maxTurns
          /\ n.aiCalls = r.aiCalls /\ n.attempted = r.attempted /\ n.execs = r.execs
      BY <2>4, <2>6
    <2>2. SameTask(n, r) /\ SameDocs(n, r)
      BY <1>4 DEF RunRow, SameTask, SameDocs
    <2>3. TurnsOK(n)
      BY <1>1, <1>4, <2>1 DEF TurnsOK
    <2> QED BY <1>4, <2>1, <2>2, <2>3 DEF GoesOn
  <1> DEFINE final == /\ finalize /\ PreopenApprovedRoot(r) /\ ~r.reformatted
                      /\ r.turn < r.maxTurns /\ ~SourceRequired(r)
                      /\ Cardinality(Evidence(r)) > 1
  <1>5. CASE final
    <2>1. NextTurn(r, finalize) = [r EXCEPT !.pc = "reformat", !.reformatted = TRUE]
      BY <1>5, Zenon DEF NextTurn
    <2>2. r.turn < r.maxTurns /\ ~SourceRequired(r)
      BY <1>5, Zenon
    <2> QED BY <1>2, <2>1, <2>2, Zenon
  <1>6. CASE ~final /\ r.turn = r.maxTurns
    BY <1>3, <1>6, Zenon DEF NextTurn
  <1>7. CASE ~final /\ r.turn # r.maxTurns
    <2>1. NextTurn(r, finalize) = [r EXCEPT !.pc = "turn", !.turn = @ + 1]
      BY <1>7, Zenon DEF NextTurn
    <2> QED BY <1>4, <1>7, <2>1, Zenon
  <1> QED BY <1>5, <1>6, <1>7, Zenon


-----------------------------------------------------------------------------
(* The steps of a run, one by one *)

\* What holds of a run that is under way.
LEMMA Underway ==
  ASSUME IInv, Active
  PROVE  /\ run \in RunRow /\ TurnsOK(run) /\ ExecsOK(run)
         /\ run.turn \in Nat /\ run.aiCalls \in Nat /\ run.attempted \in Nat
         /\ run.execs \in Nat /\ run.maxTurns \in Nat /\ run.maxExecs \in Nat
         /\ run.todo \in Seq(Calls) /\ Len(run.todo) \in Nat
         /\ job.aiCalls \in Nat /\ job.attempted \in Nat
         /\ seen \in [turns : Nat, execs : Nat, asked : SUBSET Configurations]
         /\ seen.turns = job.aiCalls + run.aiCalls
         /\ seen.execs <= job.attempted + run.execs
         /\ 1 <= run.turn /\ run.turn <= run.maxTurns /\ 1 <= run.maxExecs
         /\ run.execs + Len(run.todo) <= run.maxExecs
         /\ run.execs + Len(run.todo) <= run.attempted
  <1>1. run \in RunRow /\ job \in JobRow
        /\ seen \in [turns : Nat, execs : Nat, asked : SUBSET Configurations]
    BY DEF IInv, Shape
  <1>2. /\ run.turn \in Nat /\ run.aiCalls \in Nat /\ run.attempted \in Nat
        /\ run.execs \in Nat /\ run.maxTurns \in Nat /\ run.maxExecs \in Nat
        /\ run.todo \in Seq(Calls) /\ Len(run.todo) \in Nat
        /\ job.aiCalls \in Nat /\ job.attempted \in Nat
    BY <1>1 DEF RunRow, JobRow
  <1>3. /\ TurnsOK(run) /\ seen.turns = job.aiCalls + run.aiCalls
        /\ ExecsOK(run) /\ seen.execs <= job.attempted + run.execs
    BY DEF IInv, TurnsInv, ExecsInv
  <1>4. 1 <= run.turn /\ run.turn <= run.maxTurns
    BY <1>2, <1>3 DEF TurnsOK
  <1>5. /\ 1 <= run.maxExecs /\ run.execs + Len(run.todo) <= run.maxExecs
        /\ run.execs + Len(run.todo) <= run.attempted
    BY <1>2, <1>3 DEF ExecsOK
  <1> QED BY <1>1, <1>2, <1>3, <1>4, <1>5

\* A run that has no calls at hand has executed what it may.
LEMMA NothingToDo ==
  ASSUME NEW r \in RunRow, r.todo = <<>>, r.pc \notin {"calls", "weather"}, r.maxExecs >= 1,
         r.execs <= r.maxExecs, r.execs <= r.attempted
  PROVE  ExecsOK(r)
  <1>1. r.execs \in Nat /\ Len(r.todo) = 0
    BY DEF RunRow
  <1>2. r.execs + Len(r.todo) = r.execs
    BY <1>1
  <1> QED BY <1>2 DEF ExecsOK

\* Counting changes nothing else about a run.
Counts(n, r, aiCalls, attempted, execs) ==
  /\ n \in RunRow /\ SameTask(n, r) /\ SameDocs(n, r)
  /\ n.pc = r.pc /\ n.turn = r.turn /\ n.config = r.config /\ n.todo = r.todo
  /\ n.aiCalls = aiCalls /\ n.attempted = attempted /\ n.execs = execs

LEMMA Countings ==
  ASSUME NEW r \in RunRow, NEW k \in Nat
  PROVE  /\ r.aiCalls \in Nat /\ r.attempted \in Nat /\ r.execs \in Nat
         /\ Counts([r EXCEPT !.attempted = @ + k], r, r.aiCalls, r.attempted + k, r.execs)
         /\ Counts([r EXCEPT !.execs = @ + k], r, r.aiCalls, r.attempted, r.execs + k)
         /\ Counts([r EXCEPT !.aiCalls = @ + k], r, r.aiCalls + k, r.attempted, r.execs)
  <1>1. /\ r.aiCalls \in Nat /\ r.attempted \in Nat /\ r.execs \in Nat
        /\ r.aiCalls + k \in Nat /\ r.attempted + k \in Nat /\ r.execs + k \in Nat
    BY DEF RunRow
  <1>2. ASSUME NEW m \in Nat
        PROVE  /\ Counts([r EXCEPT !.attempted = m], r, r.aiCalls, m, r.execs)
               /\ Counts([r EXCEPT !.execs = m], r, r.aiCalls, r.attempted, m)
               /\ Counts([r EXCEPT !.aiCalls = m], r, m, r.attempted, r.execs)
    BY DEF RunRow, Counts, SameTask, SameDocs
  <1>3. /\ [r EXCEPT !.attempted = @ + k] = [r EXCEPT !.attempted = r.attempted + k]
        /\ [r EXCEPT !.execs = @ + k] = [r EXCEPT !.execs = r.execs + k]
        /\ [r EXCEPT !.aiCalls = @ + k] = [r EXCEPT !.aiCalls = r.aiCalls + k]
    OBVIOUS
  <1> QED
    <2>1. Counts([r EXCEPT !.attempted = @ + k], r, r.aiCalls, r.attempted + k, r.execs)
      BY <1>1, <1>2, <1>3
    <2>2. Counts([r EXCEPT !.execs = @ + k], r, r.aiCalls, r.attempted, r.execs + k)
      BY <1>1, <1>2, <1>3
    <2>3. Counts([r EXCEPT !.aiCalls = @ + k], r, r.aiCalls + k, r.attempted, r.execs)
      BY <1>1, <1>2, <1>3
    <2> QED BY <1>1, <2>1, <2>2, <2>3, Zenon

\* Moving on changes nothing else about a run, and gathering only its evidence.
SameBut(n, r) == /\ n \in RunRow /\ SameTask(n, r) /\ SameCounts(n, r)
                 /\ n.config = r.config /\ n.todo = r.todo

LEMMA Moved ==
  ASSUME NEW r \in RunRow, NEW pc \in RunPcs
  PROVE  LET n == [r EXCEPT !.pc = pc] IN SameBut(n, r) /\ SameDocs(n, r) /\ n.pc = pc
  BY DEF RunRow, SameBut, SameTask, SameDocs, SameCounts

Gathers(n, r, obtained, allowed, date) ==
  /\ SameBut(n, r) /\ n.pc = r.pc
  /\ n.obtained = obtained /\ n.allowed = allowed /\ n.date = date

LEMMA Gathered ==
  ASSUME NEW r \in RunRow, NEW doc \in Pages
  PROVE  /\ Gathers(Opened(r, doc), r, r.obtained \cup {doc},
                    r.allowed \cup {doc} \cup LinksOf[doc], r.date)
         /\ Gathers(Forecasted(r, doc), r, r.obtained \cup {Forecast}, r.allowed, doc)
  <1>1. /\ r.obtained \in SUBSET Docs /\ r.allowed \in SUBSET Pages
        /\ LinksOf[doc] \in SUBSET Pages
    BY PagesAssumption DEF RunRow
  <1>2. ASSUME NEW obtained \in SUBSET Docs, NEW allowed \in SUBSET Pages
        PROVE  /\ Gathers([r EXCEPT !.obtained = obtained, !.allowed = allowed], r,
                          obtained, allowed, r.date)
               /\ Gathers([r EXCEPT !.obtained = obtained, !.date = doc], r,
                          obtained, r.allowed, doc)
    BY DEF RunRow, Gathers, SameBut, SameTask, SameCounts
  <1>3. /\ r.obtained \cup {doc} \in SUBSET Docs /\ r.obtained \cup {Forecast} \in SUBSET Docs
        /\ r.allowed \cup {doc} \cup LinksOf[doc] \in SUBSET Pages
    BY <1>1 DEF Docs
  <1>4. /\ Opened(r, doc) = [r EXCEPT !.obtained = r.obtained \cup {doc},
                              !.allowed = r.allowed \cup {doc} \cup LinksOf[doc]]
        /\ Forecasted(r, doc) = [r EXCEPT !.obtained = r.obtained \cup {Forecast}, !.date = doc]
    BY DEF Opened, Forecasted, RunRow
  <1>5. Gathers(Opened(r, doc), r, r.obtained \cup {doc},
                r.allowed \cup {doc} \cup LinksOf[doc], r.date)
    BY <1>2, <1>3, <1>4, Zenon
  <1>6. Gathers(Forecasted(r, doc), r, r.obtained \cup {Forecast}, r.allowed, doc)
    BY <1>1, <1>2, <1>3, <1>4, Zenon
  <1> QED BY <1>5, <1>6

\* The counts of a run that has executed one tool more, or asked one turn more.
LEMMA Counted ==
  ASSUME IInv, Active
  PROVE  /\ SeeTurn \in [turns : Nat, execs : Nat, asked : SUBSET Configurations] \/ run.config = NoOne
         /\ SeeTurn.turns = seen.turns + 1 /\ SeeTurn.execs = seen.execs
         /\ SeeTurn.asked = seen.asked \cup {run.config}
         /\ LET s == [seen EXCEPT !.execs = @ + 1] IN
              /\ s \in [turns : Nat, execs : Nat, asked : SUBSET Configurations]
              /\ s.turns = seen.turns /\ s.execs = seen.execs + 1 /\ s.asked = seen.asked
  <1>1. /\ seen \in [turns : Nat, execs : Nat, asked : SUBSET Configurations]
        /\ run.config \in Configurations \cup {NoOne}
    BY Underway DEF RunRow
  <1>2. seen.turns \in Nat /\ seen.execs \in Nat /\ seen.asked \in SUBSET Configurations
    BY <1>1
  <1>3. /\ SeeTurn \in [turns : Nat, execs : Nat, asked : SUBSET Configurations] \/ run.config = NoOne
        /\ SeeTurn.turns = seen.turns + 1 /\ SeeTurn.execs = seen.execs
        /\ SeeTurn.asked = seen.asked \cup {run.config}
    <2>1. SeeTurn = [seen EXCEPT !.turns = seen.turns + 1,
                                 !.asked = seen.asked \cup {run.config}]
      BY <1>1 DEF SeeTurn
    <2>2. /\ SeeTurn.turns = seen.turns + 1 /\ SeeTurn.execs = seen.execs
          /\ SeeTurn.asked = seen.asked \cup {run.config}
      BY <1>1, <2>1
    <2>3. seen.turns + 1 \in Nat
      BY <1>2
    <2>4. ASSUME run.config # NoOne
          PROVE  SeeTurn \in [turns : Nat, execs : Nat, asked : SUBSET Configurations]
      <3>1. seen.asked \cup {run.config} \in SUBSET Configurations
        BY <1>1, <1>2, <2>4
      <3> QED BY <1>1, <2>1, <2>3, <3>1
    <2> QED BY <2>2, <2>4
  <1>4. LET s == [seen EXCEPT !.execs = @ + 1] IN
          /\ s \in [turns : Nat, execs : Nat, asked : SUBSET Configurations]
          /\ s.turns = seen.turns /\ s.execs = seen.execs + 1 /\ s.asked = seen.asked
    BY <1>1, <1>2
  <1> QED BY <1>3, <1>4

\* The forecast that is fetched before the first turn.
LEMMA PreloadInv == ASSUME IInv, PreloadWeather PROVE IInv'
  <1>1. /\ run.pc = "weather" /\ Active /\ UNCHANGED <<settings, clock, job>>
    BY DEF PreloadWeather, Active
  <1>2. /\ run.config = NoOne /\ run.execs = 0 /\ run.todo = <<>> /\ run.aiCalls = run.turn - 1
    BY <1>1 DEF IInv, ProviderInv, ExecsInv, TurnsInv, ExecsOK, TurnsOK
  <1> DEFINE q == [run EXCEPT !.attempted = @ + 1]
             r == Executed(q)
  <1>3. /\ r \in RunRow /\ SameTask(r, run) /\ SameDocs(r, run) /\ r.config = run.config
        /\ r.turn = run.turn /\ r.aiCalls = run.aiCalls /\ r.todo = <<>>
        /\ r.execs = 1 /\ r.attempted = run.attempted + 1
    <2>1. Counts(q, run, run.aiCalls, run.attempted + 1, run.execs)
      BY <1>1, Countings, Underway, 1 \in Nat
    <2>2. Counts(Executed(q), q, q.aiCalls, q.attempted, q.execs + 1)
      <3> HIDE DEF q
      <3> QED BY <2>1, Countings, 1 \in Nat DEF Executed, Counts
    <2> HIDE DEF q
    <2> QED BY <1>2, <2>1, <2>2 DEF Counts, SameTask, SameDocs
  <1> HIDE DEF r
  <1>4. CASE run' = [run EXCEPT !.pc = "root"] /\ UNCHANGED seen
    <2>1. SameBut(run', run) /\ SameDocs(run', run) /\ run'.pc = "root"
      BY <1>1, <1>4, Underway, Moved DEF RunPcs
    <2>2. /\ TurnsOK(run') /\ ExecsOK(run')
      BY <1>1, <1>2, <2>1, Underway DEF TurnsOK, ExecsOK, SameBut, SameTask, SameCounts
    <2>3. Shape' /\ Staged' /\ TurnsInv' /\ ExecsInv'
      BY <1>1, <1>4, <2>1, <2>2, Underway, Books DEF SameBut, SameCounts
    <2>4. ProviderInv' /\ GroundInv'
      BY <1>1, <1>2, <1>4, <2>1, SameProvider, SameGround DEF SameBut, Proven
    <2> QED BY <2>3, <2>4 DEF IInv
  <1>5. CASE run' = [Forecasted(r, Root) EXCEPT !.pc = "root"]
             /\ seen' = [seen EXCEPT !.execs = @ + 1] /\ job.scope = "fixed"
    <2> DEFINE f == Forecasted(r, Root)
    <2>1. /\ SameBut(f, r) /\ f.obtained = r.obtained \cup {Forecast}
          /\ f.allowed = r.allowed
      BY <1>3, Gathered DEF Pages, Gathers
    <2> HIDE DEF f
    <2>2. SameBut(run', f) /\ SameDocs(run', f) /\ run'.pc = "root"
      BY <1>5, <2>1, Moved DEF RunPcs, SameBut, f
    <2>3. /\ run' \in RunRow /\ SameTask(run', run) /\ run'.config = run.config
          /\ run'.todo = <<>> /\ run'.turn = run.turn /\ run'.aiCalls = run.aiCalls
          /\ run'.execs = 1 /\ run'.attempted = run.attempted + 1
          /\ run'.obtained = run.obtained \cup {Forecast} /\ run'.allowed = run.allowed
      BY <1>3, <2>1, <2>2 DEF SameBut, SameTask, SameDocs, SameCounts
    <2>4. TurnsOK(run')
      BY <1>1, <1>2, <2>2, <2>3, Underway DEF TurnsOK, SameTask
    <2>5. ExecsOK(run')
      <3>1. run'.maxExecs = run.maxExecs
        BY <2>3 DEF SameTask
      <3> QED BY <1>1, <1>2, <2>2, <2>3, <3>1, Underway, NothingToDo
    <2>6. /\ seen' \in [turns : Nat, execs : Nat, asked : SUBSET Configurations]
          /\ seen'.turns = seen.turns /\ seen'.execs = seen.execs + 1 /\ seen'.asked = seen.asked
      BY <1>1, <1>5, Counted
    <2>7. /\ seen'.turns = job.aiCalls + run'.aiCalls
          /\ seen'.execs <= job.attempted + run'.execs
      BY <1>1, <1>2, <2>3, <2>6, Underway
    <2>8. Shape' /\ Staged' /\ TurnsInv' /\ ExecsInv'
      BY <1>1, <2>2, <2>3, <2>4, <2>5, <2>6, <2>7, Books
    <2>9. ProviderInv'
      BY <1>1, <1>2, <2>2, <2>3, <2>6, SameProvider
    <2>10. GroundInv'
      BY <1>1, <1>5, <2>2, <2>3, MoreGround DEF Docs, Proven, Discloses
    <2> QED BY <2>8, <2>9, <2>10 DEF IInv
  <1>6. CASE /\ \E e \in Failures(FALSE) : run' = Ended(r, e)
             /\ seen' = [seen EXCEPT !.execs = @ + 1]
    <2>1. /\ seen' \in [turns : Nat, execs : Nat, asked : SUBSET Configurations]
          /\ seen'.turns = seen.turns /\ seen'.execs = seen.execs + 1 /\ seen'.asked = seen.asked
      BY <1>1, <1>6, Counted
    <2>2. r.maxExecs = run.maxExecs /\ r.maxTurns = run.maxTurns
      BY <1>3 DEF SameTask
    <2>3. /\ r.aiCalls <= r.maxTurns /\ r.execs <= r.maxExecs /\ r.execs <= r.attempted
          /\ seen'.turns = job.aiCalls + r.aiCalls /\ seen'.execs <= job.attempted + r.execs
      BY <1>1, <1>2, <1>3, <2>1, <2>2, Underway
    <2>4. PICK e \in Errors : e # "none" /\ run' = Ended(r, e)
      BY <1>6 DEF Failures, Errors
    <2> QED BY <1>1, <1>3, <2>1, <2>3, <2>4, Ends
  <1> QED BY <1>4, <1>5, <1>6 DEF PreloadWeather, r, q

\* The approved root that is opened before the first turn.
LEMMA PreopenInv == ASSUME IInv, PreopenRoot PROVE IInv'
  <1>1. /\ run.pc = "root" /\ Active /\ UNCHANGED <<settings, clock, job>>
    BY DEF PreopenRoot, Active
  <1>2. /\ run.config = NoOne /\ run.todo = <<>> /\ run.aiCalls = run.turn - 1
        /\ Len(run.todo) = 0
    BY <1>1 DEF IInv, ProviderInv, ExecsInv, TurnsInv, ExecsOK, TurnsOK
  <1> DEFINE q == [run EXCEPT !.attempted = @ + 1]
             r == Executed(q)
  <1>3. /\ r \in RunRow /\ SameTask(r, run) /\ SameDocs(r, run) /\ r.config = run.config
        /\ r.turn = run.turn /\ r.aiCalls = run.aiCalls /\ r.todo = <<>>
        /\ r.execs = run.execs + 1 /\ r.attempted = run.attempted + 1
    <2>1. Counts(q, run, run.aiCalls, run.attempted + 1, run.execs)
      BY <1>1, Countings, Underway, 1 \in Nat
    <2>2. Counts(Executed(q), q, q.aiCalls, q.attempted, q.execs + 1)
      <3> HIDE DEF q
      <3> QED BY <2>1, Countings, 1 \in Nat DEF Executed, Counts
    <2> HIDE DEF q
    <2> QED BY <1>2, <2>1, <2>2 DEF Counts, SameTask, SameDocs
  <1> HIDE DEF r
  <1>4. CASE run' = [run EXCEPT !.pc = "session"] /\ UNCHANGED seen
    <2>1. SameBut(run', run) /\ SameDocs(run', run) /\ run'.pc = "session"
      BY <1>1, <1>4, Underway, Moved DEF RunPcs
    <2>2. /\ TurnsOK(run') /\ ExecsOK(run')
      BY <1>1, <1>2, <2>1, Underway DEF TurnsOK, ExecsOK, SameBut, SameTask, SameCounts
    <2>3. Shape' /\ Staged' /\ TurnsInv' /\ ExecsInv'
      BY <1>1, <1>4, <2>1, <2>2, Underway, Books DEF SameBut, SameCounts
    <2>4. ProviderInv' /\ GroundInv'
      BY <1>1, <1>2, <1>4, <2>1, SameProvider, SameGround DEF SameBut, Proven
    <2> QED BY <2>3, <2>4 DEF IInv
  <1>5. CASE run' = Ended(run, "MONITOR_TOOL_LIMIT") /\ UNCHANGED seen
    <2>1. "MONITOR_TOOL_LIMIT" \in Errors
      BY DEF Errors
    <2>2. /\ run.aiCalls <= run.maxTurns /\ run.execs <= run.maxExecs
          /\ run.execs <= run.attempted
      BY <1>1, <1>2, Underway
    <2>3. SameTask(run, run) /\ SameDocs(run, run)
      BY DEF SameTask, SameDocs
    <2> QED BY <1>1, <1>5, <2>1, <2>2, <2>3, Underway, Ends
  <1>6. CASE run' = [Opened(r, Root) EXCEPT !.pc = "session"]
             /\ seen' = [seen EXCEPT !.execs = @ + 1] /\ run.execs < run.maxExecs
    <2> DEFINE f == Opened(r, Root)
    <2>1. /\ SameBut(f, r) /\ f.obtained = r.obtained \cup {Root}
          /\ f.allowed = r.allowed \cup {Root} \cup LinksOf[Root] /\ f.date = r.date
      BY <1>3, Gathered DEF Pages, Gathers
    <2> HIDE DEF f
    <2>2. SameBut(run', f) /\ SameDocs(run', f) /\ run'.pc = "session"
      BY <1>6, <2>1, Moved DEF RunPcs, SameBut, f
    <2>3. /\ run' \in RunRow /\ SameTask(run', run) /\ run'.config = run.config
          /\ run'.todo = <<>> /\ run'.turn = run.turn /\ run'.aiCalls = run.aiCalls
          /\ run'.execs = run.execs + 1 /\ run'.attempted = run.attempted + 1
      BY <1>3, <2>1, <2>2 DEF SameBut, SameTask, SameCounts
    <2>4. /\ run'.obtained = run.obtained \cup {Root} /\ run'.date = run.date
          /\ run'.allowed = run.allowed \cup {Root} \cup LinksOf[Root]
      BY <1>3, <2>1, <2>2 DEF SameDocs
    <2>5. TurnsOK(run')
      BY <1>1, <1>2, <2>2, <2>3, Underway DEF TurnsOK, SameTask
    <2>6. ExecsOK(run')
      <3>1. run'.maxExecs = run.maxExecs
        BY <2>3 DEF SameTask
      <3>2. run.execs + 1 <= run.maxExecs /\ run.execs + 1 <= run.attempted + 1
        BY <1>1, <1>2, <1>6, Underway
      <3> QED BY <1>1, <2>2, <2>3, <3>1, <3>2, Underway, NothingToDo
    <2>7. /\ seen' \in [turns : Nat, execs : Nat, asked : SUBSET Configurations]
          /\ seen'.turns = seen.turns /\ seen'.execs = seen.execs + 1 /\ seen'.asked = seen.asked
      BY <1>1, <1>6, Counted
    <2>8. /\ seen'.turns = job.aiCalls + run'.aiCalls
          /\ seen'.execs <= job.attempted + run'.execs
      BY <1>1, <1>2, <2>3, <2>7, Underway
    <2>9. Shape' /\ Staged' /\ TurnsInv' /\ ExecsInv'
      BY <1>1, <2>2, <2>3, <2>5, <2>6, <2>7, <2>8, Books
    <2>10. ProviderInv'
      BY <1>1, <1>2, <2>2, <2>3, <2>7, SameProvider
    <2>11. Root \in run.allowed
      BY <1>1 DEF IInv, GroundInv, Active
    <2>12. GroundInv'
      BY <1>1, <2>2, <2>3, <2>4, <2>11, MoreGround DEF Docs, Pages, Proven, Discloses
    <2> QED BY <2>9, <2>10, <2>12 DEF IInv
  <1>7. CASE /\ \E e \in Failures(Root \in run.seeds) : run' = Ended(r, e)
             /\ seen' = [seen EXCEPT !.execs = @ + 1] /\ run.execs < run.maxExecs
    <2>1. /\ seen' \in [turns : Nat, execs : Nat, asked : SUBSET Configurations]
          /\ seen'.turns = seen.turns /\ seen'.execs = seen.execs + 1 /\ seen'.asked = seen.asked
      BY <1>1, <1>7, Counted
    <2>2. r.maxExecs = run.maxExecs /\ r.maxTurns = run.maxTurns
      BY <1>3 DEF SameTask
    <2>3. /\ r.aiCalls <= r.maxTurns /\ r.execs <= r.maxExecs /\ r.execs <= r.attempted
          /\ seen'.turns = job.aiCalls + r.aiCalls /\ seen'.execs <= job.attempted + r.execs
      <3>1. run.execs + 1 <= run.maxExecs
        BY <1>1, <1>7, Underway
      <3>2. r.execs = run.execs + 1 /\ r.attempted = run.attempted + 1 /\ r.aiCalls = run.turn - 1
        BY <1>2, <1>3
      <3>3. /\ run.execs \in Nat /\ run.attempted \in Nat /\ run.turn \in Nat
            /\ run.maxTurns \in Nat /\ run.maxExecs \in Nat
            /\ job.aiCalls \in Nat /\ job.attempted \in Nat
            /\ seen.turns \in Nat /\ seen.execs \in Nat
        BY <1>1, Underway
      <3>4. /\ seen.turns = job.aiCalls + run.aiCalls /\ seen.execs <= job.attempted + run.execs
            /\ run.execs + Len(run.todo) <= run.attempted /\ run.turn <= run.maxTurns
        BY <1>1, Underway
      <3>5. Len(run.todo) = 0 /\ run.aiCalls = run.turn - 1
        BY <1>2
      <3>6. seen'.turns = seen.turns /\ seen'.execs = seen.execs + 1
        BY <2>1
      <3>7. r.aiCalls <= r.maxTurns
        BY <2>2, <3>2, <3>3, <3>4
      <3>8. r.execs <= r.maxExecs
        BY <2>2, <3>1, <3>2, <3>3
      <3>9. r.execs <= r.attempted
        BY <3>2, <3>3, <3>4, <3>5
      <3>10. seen'.turns = job.aiCalls + r.aiCalls
        BY <3>2, <3>3, <3>4, <3>5, <3>6
      <3>11. seen'.execs <= job.attempted + r.execs
        BY <3>2, <3>3, <3>4, <3>6
      <3> QED BY <3>7, <3>8, <3>9, <3>10, <3>11
    <2>4. PICK e \in Errors : e # "none" /\ run' = Ended(r, e)
      BY <1>7 DEF Failures, Errors
    <2> QED BY <1>1, <1>3, <2>1, <2>3, <2>4, Ends
  <1>8. run.execs < run.maxExecs \/ run.execs >= run.maxExecs
    BY <1>1, Underway
  <1> QED BY <1>4, <1>5, <1>6, <1>7, <1>8 DEF PreopenRoot, r, q

\* A session serves whom the run is pinned to, or the first whom the settings select.
LEMMA CreateSessionInv == ASSUME IInv, CreateSession PROVE IInv'
  <1>1. /\ run.pc \in {"session", "reformat"} /\ Active /\ UNCHANGED <<settings, clock, job, seen>>
    BY DEF CreateSession, Active
  <1>2. /\ run.todo = <<>> /\ Len(run.todo) = 0
        /\ seen \in [turns : Nat, execs : Nat, asked : SUBSET Configurations]
    BY <1>1, Underway DEF ExecsOK
  <1>3. /\ run.aiCalls <= run.maxTurns /\ run.execs <= run.maxExecs
        /\ run.execs <= run.attempted
    BY <1>1, <1>2, Underway DEF TurnsOK
  <1>4. CASE \E e \in {"AI_PROVIDER_UNAVAILABLE", "unexpected"} : run' = Ended(run, e)
    <2>1. PICK e \in Errors : e # "none" /\ run' = Ended(run, e)
      BY <1>4 DEF Errors
    <2>2. SameTask(run, run) /\ SameDocs(run, run)
      BY DEF SameTask, SameDocs
    <2> QED BY <1>1, <1>2, <1>3, <2>1, <2>2, Underway, Ends
  <1>5. ASSUME NEW pc \in {"turn", "final"}, NEW offered \in SUBSET Tools,
               run' = [run EXCEPT !.pc = pc, !.config = settings, !.offered = offered],
               IF pc = "turn" THEN run.pc = "session" ELSE run.pc = "reformat",
               settings # NoOne, Expected(run) \in {NoOne, Provider(settings)}
        PROVE  IInv'
    <2>1. settings \in Configurations /\ pc \in RunPcs
      BY <1>5 DEF IInv, Shape, RunPcs
    <2>2. /\ run' \in RunRow /\ SameTask(run', run) /\ SameDocs(run', run)
          /\ SameCounts(run', run) /\ run'.config = settings /\ run'.todo = run.todo
          /\ run'.pc = pc
      BY <1>1, <1>5, <2>1, Underway DEF RunRow, SameTask, SameDocs, SameCounts
    <2>3. TurnsOK(run') /\ ExecsOK(run')
      <3>1. /\ run'.turn = run.turn /\ run'.aiCalls = run.aiCalls
            /\ run'.maxTurns = run.maxTurns /\ run'.execs = run.execs
            /\ run'.attempted = run.attempted /\ run'.maxExecs = run.maxExecs
        BY <2>2 DEF SameTask, SameCounts
      <3>2. TurnsOK(run')
        BY <1>1, <1>5, <2>2, <3>1, Underway DEF TurnsOK
      <3>3. ExecsOK(run')
        BY <1>1, <1>2, <1>3, <1>5, <2>2, <3>1, Underway, NothingToDo
      <3> QED BY <3>2, <3>3
    <2>4. Shape' /\ Staged' /\ TurnsInv' /\ ExecsInv'
      BY <1>1, <1>2, <1>5, <2>2, <2>3, Underway, Books DEF SameCounts
    <2>5. ProviderInv'
      <3>1. Served \subseteq {Pinned} /\ Served \subseteq Providers /\ NoOne \notin Providers
        BY <1>1, Fields, ConfigurationAssumption DEF IInv, ProviderInv
      <3>2. Expected(run) = Pinned
        <4>1. CASE run.pc = "session"
          BY <1>1, <4>1 DEF IInv, ProviderInv, Expected, Pinned
        <4>2. CASE run.pc = "reformat"
          BY <1>1, <4>2 DEF IInv, ProviderInv, Expected, Pinned
        <4> QED BY <1>1, <4>1, <4>2
      <3>3. Served \subseteq {Provider(settings)}
        BY <1>5, <3>1, <3>2
      <3>4. Served' = Served /\ Pinned' = Provider(settings)
        BY <1>1, <1>5, <2>2 DEF Served, Pinned, Provider
      <3>5. pc \notin {"weather", "root", "session", "ended"}
        BY <1>5
      <3> QED BY <1>5, <2>2, <3>3, <3>4, <3>5 DEF ProviderInv
    <2>6. GroundInv'
      <3>1. Proven(run') => run.pc = "reformat"
        BY <1>1, <1>5, <2>2 DEF Proven
      <3>2. run.pc = "reformat" => ~SourceRequired(run)
        BY DEF IInv, GroundInv, SourceRequired
      <3> QED BY <1>1, <2>2, <3>1, <3>2, SameGround
    <2> QED BY <2>4, <2>5, <2>6 DEF IInv
  <1>6. PICK follow \in BOOLEAN : 
          \/ \E e \in {"AI_PROVIDER_UNAVAILABLE", "unexpected"} : run' = Ended(run, e)
          \/ /\ settings # NoOne /\ Expected(run) \in {NoOne, Provider(settings)}
             /\ run' = [run EXCEPT !.pc = IF run.pc = "session" THEN "turn" ELSE "final",
                          !.config = settings,
                          !.offered = IF ~(run.pc = "session") THEN {} ELSE
                            {t \in job.tools : \/ t \notin UsedTools(Evidence(run))
                                               \/ t = Web /\ follow}]
    <2>1. (PreopenApprovedRoot(run) /\ ~run.preload) \in BOOLEAN
      BY DEF PreopenApprovedRoot
    <2> QED BY <2>1, Zenon DEF CreateSession
  <1>7. {t \in job.tools : t \notin UsedTools(Evidence(run)) \/ (t = Web /\ follow)} \in SUBSET Tools
    BY Fields DEF IInv
  <1>8. CASE run.pc = "session"
    BY <1>4, <1>5, <1>6, <1>7, <1>8
  <1>9. CASE run.pc = "reformat"
    BY <1>4, <1>5, <1>6, <1>9
  <1> QED BY <1>1, <1>8, <1>9

\* A turn that is asked was still to be had, and is seen.
LEMMA Asking ==
  ASSUME IInv, run.pc \in {"turn", "final"}
  PROVE  /\ Active /\ run.todo = <<>> /\ run.config # NoOne
         /\ Counts(Asked(run), run, run.aiCalls + 1, run.attempted, run.execs)
         /\ run.pc = "turn" => run.aiCalls + 1 = run.turn
         /\ run.aiCalls + 1 <= run.maxTurns
         /\ run.execs <= run.maxExecs /\ run.execs <= run.attempted
         /\ SeeTurn \in [turns : Nat, execs : Nat, asked : SUBSET Configurations]
         /\ SeeTurn.turns = job.aiCalls + (run.aiCalls + 1)
         /\ SeeTurn.execs = seen.execs /\ SeeTurn.execs <= job.attempted + run.execs
         /\ SeeTurn.asked = seen.asked \cup {run.config}
  <1>1. Active
    BY DEF Active
  <1>2. run.todo = <<>> /\ Len(run.todo) = 0 /\ run.config # NoOne
    BY <1>1, Underway DEF ExecsOK, IInv, ProviderInv
  <1>3. Counts(Asked(run), run, run.aiCalls + 1, run.attempted, run.execs)
    BY <1>1, Underway, Countings, 1 \in Nat DEF Asked
  <1>4. /\ run.pc = "turn" => run.aiCalls + 1 = run.turn
        /\ run.aiCalls + 1 <= run.maxTurns
    BY <1>1, Underway DEF TurnsOK
  <1>5. run.execs <= run.maxExecs /\ run.execs <= run.attempted
    BY <1>1, <1>2, Underway
  <1>6. /\ SeeTurn \in [turns : Nat, execs : Nat, asked : SUBSET Configurations]
        /\ SeeTurn.turns = seen.turns + 1 /\ SeeTurn.execs = seen.execs
        /\ SeeTurn.asked = seen.asked \cup {run.config}
    BY <1>1, <1>2, Counted
  <1>7. /\ seen.turns = job.aiCalls + run.aiCalls /\ seen.execs <= job.attempted + run.execs
        /\ job.aiCalls \in Nat /\ run.aiCalls \in Nat
    BY <1>1, Underway
  <1>8. SeeTurn.turns = job.aiCalls + (run.aiCalls + 1)
    BY <1>6, <1>7
  <1> QED BY <1>1, <1>2, <1>3, <1>4, <1>5, <1>6, <1>7, <1>8

\* A turn that ends its run.
LEMMA LastTurn ==
  ASSUME IInv, run.pc \in {"turn", "final"}, UNCHANGED <<settings, clock, job>>,
         NEW r, NEW attempted \in Nat, run.attempted <= attempted,
         Counts(r, run, run.aiCalls + 1, attempted, run.execs),
         NEW error \in Errors, run' = Ended(r, error), seen' = SeeTurn,
         error = "none" => ~SourceRequired(run)
  PROVE  IInv'
  <1>1. /\ Active /\ run.todo = <<>> /\ run.config # NoOne
        /\ run.aiCalls + 1 <= run.maxTurns
        /\ run.execs <= run.maxExecs /\ run.execs <= run.attempted
        /\ SeeTurn \in [turns : Nat, execs : Nat, asked : SUBSET Configurations]
        /\ SeeTurn.turns = job.aiCalls + (run.aiCalls + 1)
        /\ SeeTurn.execs <= job.attempted + run.execs
        /\ SeeTurn.asked = seen.asked \cup {run.config}
    BY Asking
  <1>2. /\ r \in RunRow /\ SameTask(r, run) /\ SameDocs(r, run) /\ r.config = run.config
        /\ r.turn = run.turn
        /\ r.aiCalls = run.aiCalls + 1 /\ r.attempted = attempted /\ r.execs = run.execs
    BY DEF Counts
  <1>3. r.maxTurns = run.maxTurns /\ r.maxExecs = run.maxExecs
    BY <1>2 DEF SameTask
  <1>4. run.execs \in Nat /\ run.attempted \in Nat
    BY <1>1, Underway
  <1>5. r.aiCalls <= r.maxTurns /\ r.execs <= r.maxExecs
    BY <1>1, <1>2, <1>3
  <1>6. r.execs <= r.attempted
    BY <1>1, <1>2, <1>4
  <1>7. seen'.turns = job.aiCalls + r.aiCalls /\ seen'.execs <= job.attempted + r.execs
    BY <1>1, <1>2
  <1> QED BY <1>1, <1>2, <1>5, <1>6, <1>7, Ends

\* A turn that calls no tool.
LEMMA AnswerInv == ASSUME IInv, Answer PROVE IInv'
  <1> DEFINE r == Asked(run)
  <1>1. /\ run.pc \in {"turn", "final"} /\ UNCHANGED <<settings, clock, job>> /\ seen' = SeeTurn
    BY DEF Answer
  <1>2. /\ Active /\ run.todo = <<>> /\ run.config # NoOne
        /\ Counts(r, run, run.aiCalls + 1, run.attempted, run.execs)
        /\ run.pc = "turn" => run.aiCalls + 1 = run.turn
        /\ run.execs <= run.maxExecs /\ run.execs <= run.attempted
        /\ SeeTurn \in [turns : Nat, execs : Nat, asked : SUBSET Configurations]
        /\ SeeTurn.turns = job.aiCalls + (run.aiCalls + 1)
        /\ SeeTurn.execs <= job.attempted + run.execs
        /\ SeeTurn.asked = seen.asked \cup {run.config}
    BY <1>1, Asking
  <1>3. run.attempted \in Nat /\ run.attempted <= run.attempted
        /\ run.attempted + 1 \in Nat /\ run.attempted <= run.attempted + 1
    BY <1>2, Underway
  <1>4. r \in RunRow
    BY <1>2 DEF Counts
  <1> HIDE DEF r
  <1>5. ASSUME NEW error \in Errors, run' = Ended(r, error), error = "none" => ~SourceRequired(run)
        PROVE  IInv'
    BY <1>1, <1>2, <1>3, <1>5, LastTurn
  <1>6. CASE run' = Ended(r, IF run.pc = "turn" /\ SourceRequired(run)
                               THEN "AI_RESPONSE_INVALID" ELSE "none")
    <2>1. run.pc = "final" => ~SourceRequired(run)
      BY DEF IInv, GroundInv, SourceRequired
    <2>2. "AI_RESPONSE_INVALID" \in Errors /\ "none" \in Errors
      BY DEF Errors
    <2>3. CASE run.pc = "turn" /\ SourceRequired(run)
      BY <1>5, <1>6, <2>2, <2>3
    <2>4. CASE ~(run.pc = "turn" /\ SourceRequired(run))
      BY <1>1, <1>5, <1>6, <2>1, <2>2, <2>4
    <2> QED BY <2>3, <2>4
  <1>7. CASE run' = Ended(r, "AI_RESPONSE_INVALID") \/ run' = Ended(r, "provider")
    BY <1>5, <1>7 DEF Errors
  <1>8. CASE run' = Ended([r EXCEPT !.attempted = @ + 1], "MONITOR_TOOL_INVALID")
    <2> DEFINE q == [r EXCEPT !.attempted = @ + 1]
    <2>1. Counts(q, r, r.aiCalls, r.attempted + 1, r.execs)
      BY <1>4, Countings, 1 \in Nat
    <2> HIDE DEF q
    <2>2. Counts(q, run, run.aiCalls + 1, run.attempted + 1, run.execs)
      BY <1>2, <2>1 DEF Counts, SameTask, SameDocs
    <2>3. "MONITOR_TOOL_INVALID" \in Errors /\ "MONITOR_TOOL_INVALID" # "none"
      BY DEF Errors
    <2>4. run' = Ended(q, "MONITOR_TOOL_INVALID")
      BY <1>8 DEF q
    <2> QED BY <1>1, <1>3, <2>2, <2>3, <2>4, LastTurn
  <1>9. CASE run.pc = "turn" /\ CanRepair(run)
             /\ run' = [r EXCEPT !.pc = "reformat", !.reformatted = TRUE]
    <2>1. ~SourceRequired(run) /\ run.turn < run.maxTurns
      BY <1>9 DEF CanRepair
    <2>2. /\ run' \in RunRow /\ SameTask(run', r) /\ SameDocs(run', r) /\ SameCounts(run', r)
          /\ run'.config = r.config /\ run'.todo = r.todo /\ run'.pc = "reformat"
      BY <1>4, <1>9 DEF RunRow, RunPcs, SameTask, SameDocs, SameCounts
    <2>3. /\ SameTask(run', run) /\ SameDocs(run', run) /\ run'.config = run.config
          /\ run'.turn = run.turn /\ run'.aiCalls = run.aiCalls + 1 /\ run'.todo = <<>>
          /\ run'.execs = run.execs /\ run'.attempted = run.attempted
      BY <1>2, <2>2 DEF Counts, SameTask, SameDocs, SameCounts
    <2>4. run'.maxTurns = run.maxTurns /\ run'.maxExecs = run.maxExecs
      BY <2>3 DEF SameTask
    <2>5. TurnsOK(run')
      BY <1>2, <1>9, <2>1, <2>2, <2>3, <2>4, Underway DEF TurnsOK
    <2>6. ExecsOK(run')
      BY <1>2, <2>2, <2>3, <2>4, Underway, NothingToDo
    <2>7. Shape' /\ Staged' /\ TurnsInv' /\ ExecsInv'
      BY <1>1, <1>2, <2>2, <2>3, <2>5, <2>6, Books
    <2>8. ProviderInv'
      BY <1>1, <1>2, <2>2, <2>3, SameProvider
    <2>9. GroundInv'
      BY <1>1, <1>2, <2>1, <2>3, SameGround
    <2> QED BY <2>7, <2>8, <2>9 DEF IInv
  <1> QED BY <1>6, <1>7, <1>8, <1>9 DEF Answer, r

\* The deadline ends the turn in flight, or comes before it.
LEMMA TurnTimesOutInv == ASSUME IInv, TurnTimesOut PROVE IInv'
  <1>1. /\ run.pc \in {"turn", "final"} /\ UNCHANGED <<settings, clock, job>>
        /\ "AI_TIMEOUT" \in Errors /\ "AI_TIMEOUT" # "none"
    BY DEF TurnTimesOut, Errors
  <1>2. /\ Active /\ Counts(Asked(run), run, run.aiCalls + 1, run.attempted, run.execs)
        /\ run.aiCalls + 1 <= run.maxTurns
        /\ run.execs <= run.maxExecs /\ run.execs <= run.attempted
    BY <1>1, Asking
  <1>3. run.attempted \in Nat /\ run.attempted <= run.attempted /\ run.aiCalls <= run.maxTurns
    BY <1>2, Underway
  <1>4. CASE run' = Ended(Asked(run), "AI_TIMEOUT") /\ seen' = SeeTurn
    BY <1>1, <1>2, <1>3, <1>4, LastTurn
  <1>5. CASE run' = Ended(run, "AI_TIMEOUT") /\ UNCHANGED seen
    <2>1. SameTask(run, run) /\ SameDocs(run, run)
      BY DEF SameTask, SameDocs
    <2> QED BY <1>1, <1>2, <1>3, <1>5, <2>1, Underway, Ends
  <1> QED BY <1>4, <1>5 DEF TurnTimesOut

\* An error that nobody expects, before the turn is counted or after it was taken.
LEMMA TurnBreaksInv == ASSUME IInv, TurnBreaks PROVE IInv'
  <1>1. /\ run.pc \in {"turn", "final"} /\ UNCHANGED <<settings, clock, job>>
        /\ "unexpected" \in Errors /\ "unexpected" # "none"
    BY DEF TurnBreaks, Errors
  <1>2. /\ Active /\ Counts(Asked(run), run, run.aiCalls + 1, run.attempted, run.execs)
        /\ run.aiCalls + 1 <= run.maxTurns
        /\ run.execs <= run.maxExecs /\ run.execs <= run.attempted
    BY <1>1, Asking
  <1>3. run.attempted \in Nat /\ run.attempted <= run.attempted /\ run.aiCalls <= run.maxTurns
    BY <1>2, Underway
  <1>4. CASE run' = Ended(Asked(run), "unexpected") /\ seen' = SeeTurn
    BY <1>1, <1>2, <1>3, <1>4, LastTurn
  <1>5. CASE run' = Ended(run, "unexpected") /\ UNCHANGED seen
    <2>1. SameTask(run, run) /\ SameDocs(run, run)
      BY DEF SameTask, SameDocs
    <2> QED BY <1>1, <1>2, <1>3, <1>5, <2>1, Underway, Ends
  <1> QED BY <1>4, <1>5 DEF TurnBreaks

\* A run with calls at hand executes them; without any it goes on.
LEMMA BatchGoesOn ==
  ASSUME IInv, Active, run.config # NoOne, UNCHANGED <<settings, clock, job>>,
         NEW r \in RunRow, NEW finalize \in BOOLEAN,
         run' = IF r.todo = <<>> THEN NextTurn(r, finalize) ELSE r,
         r.todo # <<>> => r.pc = "calls",
         SameTask(r, run), r.config = run.config, r.turn = run.turn, r.aiCalls = r.turn,
         r.execs + Len(r.todo) <= r.maxExecs, r.execs + Len(r.todo) <= r.attempted,
         SameDocs(r, run) \/ \E doc \in Docs : Discloses(r, doc),
         seen' \in [turns : Nat, execs : Nat, asked : SUBSET Configurations],
         seen'.turns = job.aiCalls + r.aiCalls, seen'.execs <= job.attempted + r.execs,
         seen'.asked = seen.asked \/ seen'.asked = seen.asked \cup {run.config}
  PROVE  IInv'
  <1>1. r.turn \in 1..r.maxTurns /\ r.maxExecs >= 1
    <2>1. /\ r.turn = run.turn /\ r.maxTurns = run.maxTurns /\ r.maxExecs = run.maxExecs
      BY DEF SameTask
    <2> QED BY <2>1, Underway
  <1>2. /\ run' \in RunRow /\ SameTask(run', r) /\ SameDocs(run', r) /\ TurnsOK(run')
        /\ run'.aiCalls = r.aiCalls /\ run'.attempted = r.attempted /\ run'.execs = r.execs
        /\ run'.config = r.config /\ run'.todo = r.todo
        /\ IF r.todo = <<>> THEN run'.pc \in {"turn", "reformat", "ended"} ELSE run'.pc = "calls"
        /\ run'.pc = "reformat" => ~SourceRequired(r)
        /\ run'.pc = "ended" => run'.error # "none"
    <2>1. CASE r.todo = <<>>
      <3>1. GoesOn(NextTurn(r, finalize), r)
        BY <1>1, <2>1, NextTurns
      <3>2. GoesOn(run', r)
        BY <2>1, <3>1
      <3> QED BY <2>1, <3>2 DEF GoesOn
    <2>2. CASE r.todo # <<>>
      <3>1. run' = r /\ r.pc = "calls"
        BY <2>2
      <3>2. TurnsOK(r)
        BY <1>1, <3>1 DEF TurnsOK
      <3>3. SameTask(r, r) /\ SameDocs(r, r)
        BY DEF SameTask, SameDocs
      <3> QED BY <2>2, <3>1, <3>2, <3>3
    <2> QED BY <2>1, <2>2
  <1>3. SameTask(run', run) /\ run'.config = run.config /\ run'.maxExecs = r.maxExecs
    BY <1>2 DEF SameTask
  <1>4. ExecsOK(run')
    <2>1. run'.todo = <<>> <=> run'.pc # "calls"
      BY <1>2
    <2>2. run'.pc # "weather"
      BY <1>2
    <2>3. run'.execs + Len(run'.todo) <= run'.maxExecs /\ run'.execs + Len(run'.todo) <= run'.attempted
      BY <1>2, <1>3
    <2>4. run'.maxExecs >= 1
      BY <1>1, <1>3
    <2> QED BY <2>1, <2>2, <2>3, <2>4 DEF ExecsOK
  <1>5. run'.pc # "off"
    BY <1>2
  <1>6. seen'.turns = job.aiCalls + run'.aiCalls /\ seen'.execs <= job.attempted + run'.execs
    BY <1>2
  <1>7. Shape' /\ Staged' /\ TurnsInv' /\ ExecsInv'
    BY <1>2, <1>3, <1>4, <1>5, <1>6, Books
  <1>8. ProviderInv'
    <2>1. run'.pc \notin {"weather", "root", "session"}
      BY <1>2
    <2> QED BY <1>3, <2>1, SameProvider
  <1>9. GroundInv'
    <2>1. Proven(run') => run'.pc = "reformat"
      BY <1>2 DEF Proven
    <2>2. Proven(run') => ~SourceRequired(run')
      BY <1>2, <2>1 DEF SourceRequired, SameTask, SameDocs, Evidence
    <2>3. CASE SameDocs(r, run)
      <3>1. SameDocs(run', run)
        BY <1>2, <2>3 DEF SameDocs
      <3>2. Proven(run') => ~SourceRequired(run)
        BY <1>3, <2>2, <3>1 DEF SourceRequired, SameTask, SameDocs, Evidence
      <3> QED BY <1>3, <3>1, <3>2, SameGround
    <2>4. ASSUME NEW doc \in Docs, Discloses(r, doc) PROVE GroundInv'
      <3>1. Discloses(run', doc)
        BY <1>2, <2>4 DEF Discloses, SameDocs
      <3> QED BY <1>3, <2>2, <3>1, MoreGround
    <2> QED BY <2>3, <2>4
  <1> QED BY <1>7, <1>8, <1>9 DEF IInv

\* The calls of a batch, in whichever order, are as many calls.
LEMMA Ordered ==
  ASSUME NEW batch \in Batches, NEW r
  PROVE  /\ Len(batch) \in Nat /\ Len(batch) >= 1
         /\ \A order \in InOrder(r, batch) :
              order \in Seq(Calls) /\ Len(order) = Len(batch) /\ order # <<>>
  <1>1. PICK n \in 1..MaxBatch : batch \in [1..n -> Calls]
    BY DEF Batches
  <1>2. n \in Nat /\ n >= 1
    BY <1>1, BudgetAssumption
  <1>3. batch \in Seq(Calls) /\ Len(batch) = n /\ DOMAIN batch = 1..n
    BY <1>1, <1>2
  <1>4. ASSUME NEW order \in InOrder(r, batch)
        PROVE  order \in Seq(Calls) /\ Len(order) = Len(batch) /\ order # <<>>
    <2>1. PICK p \in [DOMAIN batch -> DOMAIN batch] : order = [i \in DOMAIN batch |-> batch[p[i]]]
      BY <1>4 DEF InOrder
    <2>2. order = [i \in 1..n |-> batch[p[i]]] /\ p \in [1..n -> 1..n]
      BY <1>3, <2>1
    <2>3. order \in [1..n -> Calls]
      BY <1>1, <2>2
    <2>4. order \in Seq(Calls) /\ Len(order) = n
      BY <1>2, <2>3
    <2> QED BY <1>2, <1>3, <2>4
  <1> QED BY <1>2, <1>3, <1>4

\* A turn that calls tools: over the limit, out of scope, or checked.
LEMMA CallToolsInv == ASSUME IInv, NEW batch \in Batches, CallTools(batch) PROVE IInv'
  <1> DEFINE n == Len(batch)
             a == Asked(run)
             r == [a EXCEPT !.attempted = @ + n]
             q == [r EXCEPT !.execs = @ + n]
  <1>1. /\ run.pc = "turn" /\ UNCHANGED <<settings, clock, job>>
    BY DEF CallTools
  <1>2. /\ Active /\ run.todo = <<>> /\ run.config # NoOne
        /\ Counts(a, run, run.aiCalls + 1, run.attempted, run.execs)
        /\ run.aiCalls + 1 = run.turn
        /\ run.execs <= run.maxExecs /\ run.execs <= run.attempted
        /\ SeeTurn \in [turns : Nat, execs : Nat, asked : SUBSET Configurations]
        /\ SeeTurn.turns = job.aiCalls + (run.aiCalls + 1)
        /\ SeeTurn.execs <= job.attempted + run.execs
        /\ SeeTurn.asked = seen.asked \cup {run.config}
    BY <1>1, Asking
  <1>3. /\ n \in Nat /\ n >= 1
        /\ \A order \in InOrder(run, batch) :
             order \in Seq(Calls) /\ Len(order) = n /\ order # <<>>
    BY Ordered
  <1>4. /\ run.execs \in Nat /\ run.attempted \in Nat /\ run.maxExecs \in Nat
        /\ job.attempted \in Nat
    BY <1>2, Underway
  <1> HIDE DEF n, a
  <1>5. Counts(r, run, run.aiCalls + 1, run.attempted + n, run.execs)
    <2>1. a \in RunRow
      BY <1>2 DEF Counts
    <2>2. Counts(r, a, a.aiCalls, a.attempted + n, a.execs)
      BY <1>3, <2>1, Countings
    <2> HIDE DEF r
    <2> QED BY <1>2, <2>2 DEF Counts, SameTask, SameDocs
  <1> HIDE DEF r
  <1>6. Counts(q, run, run.aiCalls + 1, run.attempted + n, run.execs + n)
    <2>1. r \in RunRow
      BY <1>5 DEF Counts
    <2>2. Counts(q, r, r.aiCalls, r.attempted, r.execs + n)
      BY <1>3, <2>1, Countings
    <2> HIDE DEF q
    <2> QED BY <1>5, <2>2 DEF Counts, SameTask, SameDocs
  <1> HIDE DEF q
  <1>7. ASSUME NEW k \in Nat, seen' = [SeeTurn EXCEPT !.execs = @ + k]
        PROVE  /\ seen' \in [turns : Nat, execs : Nat, asked : SUBSET Configurations]
               /\ seen'.turns = SeeTurn.turns /\ seen'.execs = SeeTurn.execs + k
               /\ seen'.asked = SeeTurn.asked
               /\ k = 0 => seen' = SeeTurn
    <2> DEFINE t == SeeTurn
    <2>1. t \in [turns : Nat, execs : Nat, asked : SUBSET Configurations]
      BY <1>2
    <2> HIDE DEF t
    <2>2. seen' = [t EXCEPT !.execs = t.execs + k]
      BY <1>7 DEF t
    <2>3. t.execs \in Nat /\ t.execs + k \in Nat /\ t.execs + 0 = t.execs
      BY <2>1
    <2>4. /\ seen' \in [turns : Nat, execs : Nat, asked : SUBSET Configurations]
          /\ seen'.turns = t.turns /\ seen'.execs = t.execs + k /\ seen'.asked = t.asked
      BY <2>1, <2>2, <2>3
    <2>5. k = 0 => seen' = t
      BY <2>1, <2>2, <2>3
    <2> QED BY <2>4, <2>5 DEF t
  <1>8. CASE /\ run' = Ended(r, "MONITOR_TOOL_LIMIT")
             /\ seen' = [SeeTurn EXCEPT !.execs = @ + 0]
    <2>1. "MONITOR_TOOL_LIMIT" \in Errors /\ "MONITOR_TOOL_LIMIT" # "none"
      BY DEF Errors
    <2>2. run.attempted + n \in Nat /\ run.attempted <= run.attempted + n
      BY <1>3, <1>4
    <2>3. seen' = SeeTurn
      BY <1>7, <1>8
    <2> QED BY <1>1, <1>5, <1>8, <2>1, <2>2, <2>3, LastTurn
  <1>9. CASE /\ run' = NextTurn(q, FALSE) /\ run.execs + n <= run.maxExecs
             /\ seen' = [SeeTurn EXCEPT !.execs = @ + n]
    <2>1. /\ q \in RunRow /\ SameTask(q, run) /\ SameDocs(q, run) /\ q.config = run.config
          /\ q.turn = run.turn /\ q.aiCalls = q.turn /\ q.todo = <<>>
          /\ q.attempted = run.attempted + n /\ q.execs = run.execs + n
          /\ q.maxExecs = run.maxExecs
      BY <1>2, <1>6 DEF Counts, SameTask
    <2>2. run' = IF q.todo = <<>> THEN NextTurn(q, FALSE) ELSE q
      BY <1>9, <2>1
    <2>3. Len(q.todo) = 0 /\ run.execs + n \in Nat
      BY <1>3, <1>4, <2>1
    <2>4. q.execs + Len(q.todo) <= q.maxExecs
      BY <1>9, <2>1, <2>3
    <2>5. q.execs + Len(q.todo) <= q.attempted
      BY <1>2, <1>3, <1>4, <2>1, <2>3
    <2>6. /\ seen' \in [turns : Nat, execs : Nat, asked : SUBSET Configurations]
          /\ seen'.turns = SeeTurn.turns /\ seen'.execs = SeeTurn.execs + n
          /\ seen'.asked = SeeTurn.asked
      BY <1>3, <1>7, <1>9
    <2>7. seen'.turns = job.aiCalls + q.aiCalls
      BY <1>2, <2>1, <2>6
    <2>8. seen'.execs <= job.attempted + q.execs
      BY <1>2, <1>3, <1>4, <2>1, <2>6
    <2>9. FALSE \in BOOLEAN
      OBVIOUS
    <2> QED BY <1>1, <1>2, <2>1, <2>2, <2>4, <2>5, <2>6, <2>7, <2>8, <2>9, BatchGoesOn
  <1>10. CASE /\ \E order \in InOrder(run, batch) :
                   run' = [r EXCEPT !.pc = "calls", !.todo = order]
              /\ run.execs + n <= run.maxExecs
              /\ seen' = [SeeTurn EXCEPT !.execs = @ + 0]
    <2>1. PICK order \in InOrder(run, batch) : run' = [r EXCEPT !.pc = "calls", !.todo = order]
      BY <1>10
    <2>2. order \in Seq(Calls) /\ Len(order) = n /\ order # <<>>
      BY <1>3
    <2>3. /\ r \in RunRow /\ SameTask(r, run) /\ SameDocs(r, run) /\ r.config = run.config
          /\ r.turn = run.turn /\ r.aiCalls = r.turn
          /\ r.attempted = run.attempted + n /\ r.execs = run.execs
          /\ r.maxExecs = run.maxExecs
      BY <1>2, <1>5 DEF Counts, SameTask
    <2>4. /\ run' \in RunRow /\ SameTask(run', r) /\ SameDocs(run', r) /\ SameCounts(run', r)
          /\ run'.config = r.config /\ run'.todo = order /\ run'.pc = "calls"
      BY <2>1, <2>2, <2>3 DEF RunRow, RunPcs, SameTask, SameDocs, SameCounts
    <2>5. /\ SameTask(run', run) /\ SameDocs(run', run) /\ run'.config = run.config
          /\ run'.turn = run.turn /\ run'.aiCalls = run'.turn
          /\ run'.attempted = run.attempted + n /\ run'.execs = run.execs
          /\ run'.maxExecs = run.maxExecs /\ Len(run'.todo) = n
      BY <2>2, <2>3, <2>4 DEF SameTask, SameDocs, SameCounts
    <2>6. run'.execs + Len(run'.todo) <= run'.maxExecs
      BY <1>10, <2>5
    <2>7. run'.execs + Len(run'.todo) <= run'.attempted
      BY <1>2, <1>3, <1>4, <2>5
    <2>8. seen' = SeeTurn
      BY <1>7, <1>10
    <2>9. seen'.turns = job.aiCalls + run'.aiCalls /\ seen'.execs <= job.attempted + run'.execs
      BY <1>2, <2>5, <2>8
    <2>10. FALSE \in BOOLEAN /\ run' = IF run'.todo = <<>> THEN NextTurn(run', FALSE) ELSE run'
      BY <2>2, <2>4
    <2> QED BY <1>1, <1>2, <2>4, <2>5, <2>6, <2>7, <2>8, <2>9, <2>10, BatchGoesOn
  <1>11. run.execs + n > run.maxExecs \/ run.execs + n <= run.maxExecs
    BY <1>3, <1>4
  <1> DEFINE refused == \E i \in DOMAIN batch : ~Authorized(run, batch[i])
                                                 /\ ~Deferred(run, batch, batch[i])
             k == IF run.execs + n <= run.maxExecs /\ refused THEN n ELSE 0
  <1>12. /\ IF run.execs + n > run.maxExecs
              THEN run' = Ended(r, "MONITOR_TOOL_LIMIT")
            ELSE IF refused THEN run' = NextTurn(q, FALSE)
            ELSE \E order \in InOrder(run, batch) :
                   run' = [r EXCEPT !.pc = "calls", !.todo = order]
         /\ seen' = [SeeTurn EXCEPT !.execs = @ + k]
    BY Zenon DEF CallTools, n, a, r, q
  <1>13. CASE run.execs + n > run.maxExecs
    <2>1. k = 0 /\ ~(run.execs + n <= run.maxExecs)
      BY <1>3, <1>4, <1>13
    <2>2. seen' = [SeeTurn EXCEPT !.execs = @ + 0]
      BY <1>12, <2>1
    <2> QED BY <1>8, <1>12, <1>13, <2>2, Zenon
  <1>14. CASE run.execs + n <= run.maxExecs /\ refused
    <2>1. k = n /\ ~(run.execs + n > run.maxExecs)
      BY <1>3, <1>4, <1>14
    <2>2. seen' = [SeeTurn EXCEPT !.execs = @ + n]
      BY <1>12, <2>1
    <2> QED BY <1>9, <1>12, <1>14, <2>1, <2>2, Zenon
  <1>15. CASE run.execs + n <= run.maxExecs /\ ~refused
    <2>1. k = 0 /\ ~(run.execs + n > run.maxExecs)
      BY <1>3, <1>4, <1>15
    <2>2. seen' = [SeeTurn EXCEPT !.execs = @ + 0]
      BY <1>12, <2>1
    <2> QED BY <1>10, <1>12, <1>15, <2>1, <2>2, Zenon
  <1> QED BY <1>11, <1>13, <1>14, <1>15, Zenon

\* One call of the batch: repeated or out of scope, refused, answered, or failed.
LEMMA ExecuteCallInv == ASSUME IInv, ExecuteCall PROVE IInv'
  <1> DEFINE call == Head(run.todo)
             q == [run EXCEPT !.todo = Tail(@)]
             r == Executed(q)
             Then(next) == IF next.todo = <<>> THEN NextTurn(next, TRUE) ELSE next
  <1>1. /\ run.pc = "calls" /\ Active /\ UNCHANGED <<settings, clock, job>>
        /\ seen' = [seen EXCEPT !.execs = @ + 1]
    BY DEF ExecuteCall, Active
  <1>2. /\ run.todo # <<>> /\ run.config # NoOne /\ run.aiCalls = run.turn
        /\ run.todo \in Seq(Calls) /\ run.allowed \in SUBSET Pages
    BY <1>1, Underway, Fields DEF IInv, ProviderInv, ExecsInv, TurnsInv, ExecsOK, TurnsOK
  <1>3. /\ call \in Calls /\ Tail(run.todo) \in Seq(Calls)
        /\ Len(run.todo) \in Nat /\ Len(run.todo) >= 1
        /\ Len(Tail(run.todo)) = Len(run.todo) - 1
    BY <1>2
  <1>4. /\ r \in RunRow /\ SameTask(r, run) /\ SameDocs(r, run) /\ r.config = run.config
        /\ r.turn = run.turn /\ r.aiCalls = run.aiCalls /\ r.todo = Tail(run.todo)
        /\ r.pc = "calls" /\ r.execs = run.execs + 1 /\ r.attempted = run.attempted
    <2>1. /\ q \in RunRow /\ SameTask(q, run) /\ SameDocs(q, run) /\ SameCounts(q, run)
          /\ q.config = run.config /\ q.todo = Tail(run.todo) /\ q.pc = "calls"
      BY <1>1, <1>3, Underway DEF RunRow, SameTask, SameDocs, SameCounts
    <2> HIDE DEF q
    <2>2. Counts(r, q, q.aiCalls, q.attempted, q.execs + 1)
      BY <2>1, Countings, 1 \in Nat DEF Executed
    <2> HIDE DEF r
    <2> QED BY <2>1, <2>2 DEF Counts, SameTask, SameDocs, SameCounts
  <1> HIDE DEF r, q
  <1>5. /\ seen' \in [turns : Nat, execs : Nat, asked : SUBSET Configurations]
        /\ seen'.turns = seen.turns /\ seen'.execs = seen.execs + 1 /\ seen'.asked = seen.asked
    BY <1>1, Counted
  <1>6. /\ run.execs \in Nat /\ run.attempted \in Nat /\ run.maxExecs \in Nat
        /\ job.attempted \in Nat /\ seen.execs \in Nat /\ seen.turns \in Nat
        /\ run.turn <= run.maxTurns
        /\ seen.turns = job.aiCalls + run.aiCalls /\ seen.execs <= job.attempted + run.execs
        /\ run.execs + Len(run.todo) <= run.maxExecs
        /\ run.execs + Len(run.todo) <= run.attempted
    BY <1>1, Underway
  <1>7. r.maxExecs = run.maxExecs /\ r.maxTurns = run.maxTurns
    BY <1>4 DEF SameTask
  <1>8. seen'.turns = job.aiCalls + r.aiCalls
    BY <1>4, <1>5, <1>6
  <1>9. seen'.execs <= job.attempted + r.execs
    BY <1>4, <1>5, <1>6
  <1>10. r.execs + Len(r.todo) = run.execs + Len(run.todo)
    <2>1. Len(r.todo) = Len(run.todo) - 1 /\ r.execs = run.execs + 1
      BY <1>3, <1>4
    <2>2. Len(run.todo) \in Nat /\ run.execs \in Nat
      BY <1>3, <1>6
    <2> HIDE DEF call
    <2> QED BY <2>1, <2>2
  <1>11. ASSUME NEW error \in Errors, error # "none", run' = Ended(r, error) PROVE IInv'
    <2>1. r.aiCalls <= r.maxTurns
      BY <1>2, <1>4, <1>6, <1>7
    <2>2. r.execs <= r.maxExecs
      BY <1>3, <1>4, <1>6, <1>7
    <2>3. r.execs <= r.attempted
      BY <1>3, <1>4, <1>6
    <2> QED BY <1>1, <1>4, <1>5, <1>8, <1>9, <1>11, <2>1, <2>2, <2>3, Ends
  <1>12. ASSUME NEW f \in RunRow, run' = Then(f), SameTask(f, r), SameCounts(f, r),
                f.config = r.config, f.todo = r.todo, f.pc = "calls",
                SameDocs(f, run) \/ \E doc \in Docs : Discloses(f, doc)
         PROVE  IInv'
    <2>1. /\ SameTask(f, run) /\ f.config = run.config /\ f.turn = run.turn
          /\ f.aiCalls = f.turn /\ f.execs = r.execs /\ f.attempted = run.attempted
          /\ f.aiCalls = r.aiCalls /\ f.maxExecs = run.maxExecs
      BY <1>2, <1>4, <1>12 DEF SameTask, SameCounts
    <2>2. f.execs + Len(f.todo) <= f.maxExecs /\ f.execs + Len(f.todo) <= f.attempted
      BY <1>6, <1>10, <1>12, <2>1
    <2>3. TRUE \in BOOLEAN
      OBVIOUS
    <2>4. seen'.turns = job.aiCalls + f.aiCalls /\ seen'.execs <= job.attempted + f.execs
      BY <1>8, <1>9, <2>1
    <2> QED BY <1>1, <1>2, <1>5, <1>12, <2>1, <2>2, <2>3, <2>4, BatchGoesOn
  <1>13. CASE run' = Then(r)
    <2>1. SameTask(r, r) /\ SameCounts(r, r)
      BY DEF SameTask, SameCounts
    <2> QED BY <1>4, <1>12, <1>13, <2>1
  <1>14. CASE /\ run' = Then(Forecasted(r, call[2])) /\ call[1] = Weather
              /\ Authorized(run, call)
    <2>1. call[2] \in Pages
      BY <1>3, <1>14 DEF Calls, Web, Weather
    <2> DEFINE f == Forecasted(r, call[2])
    <2>2. Gathers(f, r, r.obtained \cup {Forecast}, r.allowed, call[2])
      BY <1>4, <2>1, Gathered
    <2> HIDE DEF f
    <2>3. job.scope = "dynamic" => call[2] \in Evidence(run)
      BY <1>14 DEF Authorized, Web, Weather
    <2>4. Discloses(f, Forecast) /\ Forecast \in Docs
      BY <1>4, <2>2, <2>3 DEF Discloses, Gathers, SameDocs, Docs
    <2>5. /\ f \in RunRow /\ SameTask(f, r) /\ SameCounts(f, r) /\ f.config = r.config
          /\ f.todo = r.todo /\ f.pc = "calls"
      BY <1>4, <2>2 DEF Gathers, SameBut
    <2>6. run' = Then(f)
      BY <1>14 DEF f
    <2> HIDE DEF Then
    <2> QED BY <1>12, <2>4, <2>5, <2>6
  <1>15. CASE /\ run' = Then(Opened(r, call[2])) /\ call[1] = Web /\ Authorized(run, call)
    <2>1. call[2] \in run.allowed /\ call[2] \in Pages
      BY <1>2, <1>15 DEF Authorized
    <2> DEFINE f == Opened(r, call[2])
    <2>2. Gathers(f, r, r.obtained \cup {call[2]},
                  r.allowed \cup {call[2]} \cup LinksOf[call[2]], r.date)
      BY <1>4, <2>1, Gathered
    <2> HIDE DEF f
    <2>4. Discloses(f, call[2]) /\ call[2] \in Docs
      BY <1>4, <2>1, <2>2 DEF Discloses, Gathers, SameDocs, Docs
    <2>5. /\ f \in RunRow /\ SameTask(f, r) /\ SameCounts(f, r) /\ f.config = r.config
          /\ f.todo = r.todo /\ f.pc = "calls"
      BY <1>4, <2>2 DEF Gathers, SameBut
    <2>6. run' = Then(f)
      BY <1>15 DEF f
    <2> HIDE DEF Then
    <2> QED BY <1>12, <2>4, <2>5, <2>6
  <1>16. CASE \E e \in {"MONITOR_TOOL_INVALID"} \cup Failures(FALSE) : run' = Ended(r, e)
    BY <1>11, <1>16 DEF Errors, Failures
  <1>18. Failures(call[2] \in run.seeds) \subseteq Failures(FALSE) /\ "MONITOR_TOOL_LIMIT" \in Failures(FALSE)
    BY DEF Failures
  <1> HIDE DEF Then
  <1>17. \/ run' = Then(r)
         \/ \E e \in {"MONITOR_TOOL_INVALID"} \cup Failures(FALSE) : run' = Ended(r, e)
         \/ Authorized(run, call) /\ call[1] = Weather /\ run' = Then(Forecasted(r, call[2]))
         \/ Authorized(run, call) /\ call[1] = Web /\ run' = Then(Opened(r, call[2]))
    BY <1>18, Zenon DEF ExecuteCall, r, q, Then
  <1> QED BY <1>13, <1>14, <1>15, <1>16, <1>17, Zenon

-----------------------------------------------------------------------------
(* The steps of the caller *)

\* What the caller has in hand when a run has ended.
LEMMA InHand ==
  ASSUME IInv, run.pc = "ended"
  PROVE  /\ Active /\ job \in JobRow /\ run \in RunRow /\ job.result = "none"
         /\ job.stage \notin Unbegun \cup {"done"}
         /\ Charged \in JobRow /\ Charged.stage = job.stage /\ Charged.kind = job.kind
         /\ Charged.tools = job.tools /\ Charged.scope = job.scope /\ Charged.tier = job.tier
         /\ Charged.result = "none"
         /\ Charged.aiCalls \in Nat /\ Charged.attempted \in Nat
         /\ seen.turns = job.aiCalls + run.aiCalls
         /\ IF run.error = "unexpected" THEN Charged.aiCalls = job.aiCalls
            ELSE seen.turns = Charged.aiCalls /\ seen.execs <= Charged.attempted
         /\ job.kind # "setup" =>
              seen.turns <= MaxProviderTurns /\ seen.execs <= MaxToolExecutions
         /\ Served \subseteq {Pinned}
         /\ run.error = "none" =>
              run.config # NoOne /\ Required \subseteq UsedTools(Evidence(run))
  <1>1. Active
    BY DEF Active
  <1>2. /\ job \in JobRow /\ run \in RunRow /\ job.result = "none"
        /\ job.stage \notin Unbegun \cup {"done"}
    BY <1>1 DEF IInv, Shape, Staged
  <1>3. /\ job.aiCalls \in Nat /\ job.attempted \in Nat /\ run.aiCalls \in Nat
        /\ run.attempted \in Nat /\ run.execs \in Nat /\ Len(run.todo) = 0
        /\ run.execs + Len(run.todo) <= run.attempted
        /\ seen.turns = job.aiCalls + run.aiCalls /\ seen.execs <= job.attempted + run.execs
        /\ seen.execs \in Nat
    <2>1. run.todo = <<>>
      BY <1>1, Underway DEF ExecsOK
    <2>2. Len(run.todo) = 0
      BY <2>1
    <2> QED BY <1>1, <2>2, Underway
  <1>4. ASSUME run.error # "unexpected"
        PROVE  /\ Charged \in JobRow /\ Charged.stage = job.stage /\ Charged.kind = job.kind
               /\ Charged.tools = job.tools /\ Charged.scope = job.scope
               /\ Charged.tier = job.tier /\ Charged.result = "none"
               /\ Charged.aiCalls = job.aiCalls + run.aiCalls
               /\ Charged.attempted = job.attempted + run.attempted
    <2>1. Charged = [job EXCEPT !.aiCalls = job.aiCalls + run.aiCalls,
                                !.attempted = job.attempted + run.attempted]
      BY <1>2, <1>4 DEF Charged, JobRow
    <2>2. job.aiCalls + run.aiCalls \in Nat /\ job.attempted + run.attempted \in Nat
      BY <1>3
    <2> QED BY <1>2, <2>1, <2>2 DEF JobRow
  <1>5. run.error = "unexpected" => Charged = job
    BY DEF Charged
  <1>6. /\ Charged \in JobRow /\ Charged.stage = job.stage /\ Charged.kind = job.kind
        /\ Charged.tools = job.tools /\ Charged.scope = job.scope /\ Charged.tier = job.tier
        /\ Charged.result = "none"
    BY <1>2, <1>4, <1>5
  <1>7. Charged.aiCalls \in Nat /\ Charged.attempted \in Nat
    BY <1>6 DEF JobRow
  <1>8. IF run.error = "unexpected" THEN Charged.aiCalls = job.aiCalls
        ELSE seen.turns = Charged.aiCalls /\ seen.execs <= Charged.attempted
    BY <1>3, <1>4, <1>5
  <1>9. job.kind # "setup" =>
          seen.turns <= MaxProviderTurns /\ seen.execs <= MaxToolExecutions
    BY DEF IInv, TurnsInv, ExecsInv
  <1>10. Served \subseteq {Pinned}
    BY <1>1 DEF IInv, ProviderInv
  <1>11. ASSUME run.error = "none"
         PROVE  run.config # NoOne /\ Required \subseteq UsedTools(Evidence(run))
    <2>1. run.config # NoOne
      BY <1>1, <1>11 DEF IInv, ProviderInv
    <2>2. run.required \subseteq UsedTools(Evidence(run))
      BY <1>11 DEF IInv, GroundInv
    <2>3. CASE Required \subseteq run.required
      BY <2>1, <2>2, <2>3
    <2>4. CASE run.preload /\ Required \subseteq UsedTools(run.seeds)
      <3>1. run.seeds \subseteq Evidence(run)
        BY <2>4 DEF Evidence
      <3>2. UsedTools(run.seeds) \subseteq UsedTools(Evidence(run))
        BY <3>1, UsedToolsGrow
      <3> QED BY <2>1, <2>4, <3>2
    <2> QED BY <1>1, <2>3, <2>4 DEF IInv, GroundInv
  <1> QED BY <1>1, <1>2, <1>3, <1>6, <1>7, <1>8, <1>9, <1>10, <1>11

\* A request that is closed keeps what its last run gathered.
LEMMA Closes ==
  ASSUME IInv, run.pc = "ended", UNCHANGED <<settings, clock, seen>>,
         run' = [run EXCEPT !.pc = "off"],
         job' \in JobRow, job'.stage = "done", job'.kind = job.kind,
         job'.tools = job.tools, job'.scope = job.scope,
         job'.result = "answer" => Required \subseteq UsedTools(Evidence(run)),
         run'.aiCalls = run.aiCalls => CallsAccounted'
  PROVE  IInv'
  <1>1. /\ Active /\ run \in RunRow
        /\ job.kind # "setup" =>
              seen.turns <= MaxProviderTurns /\ seen.execs <= MaxToolExecutions
    BY InHand
  <1>3. SameBut(run', run) /\ SameDocs(run', run) /\ run'.pc = "off"
    BY <1>1, Moved DEF RunPcs
  <1>4. Evidence(run') = Evidence(run)
    BY <1>3 DEF Evidence, SameBut, SameTask, SameDocs
  <1>5. Required' = Required
    BY DEF Required, IsSetup
  <1>6. ~Active' /\ run' \in RunRow
    BY <1>3 DEF Active, SameBut
  <1>7. /\ run'.obtained = run.obtained /\ run'.allowed = run.allowed /\ run'.date = run.date
    BY <1>3 DEF SameDocs
  <1>8. job'.scope = "dynamic" /\ Forecast \in run'.obtained => run'.date \in Evidence(run)'
    BY <1>4, <1>7 DEF IInv, GroundInv
  <1>9. job'.result = "answer" => Required' \subseteq UsedTools(Evidence(run)')
    BY <1>4, <1>5
  <1>10. seen' = seen /\ seen \in [turns : Nat, execs : Nat, asked : SUBSET Configurations]
    BY DEF IInv, Shape
  <1>11. job'.stage \notin Unbegun
    BY DEF Unbegun
  <1>12. CallsAccounted'
    BY <1>3 DEF SameBut, SameCounts
  <1> QED BY <1>1, <1>6, <1>7, <1>8, <1>9, <1>10, <1>11, <1>12, Rests

\* A request that ends with what its last run gave it.
LEMMA Finishes ==
  ASSUME IInv, run.pc = "ended", UNCHANGED <<settings, clock, seen>>,
         NEW result \in Results \ {"lost"}, Finish(result),
         result = "unexpected" <=> run.error = "unexpected",
         result = "answer" => Required \subseteq UsedTools(Evidence(run))
  PROVE  IInv'
  <1> DEFINE c == Charged
  <1>1. /\ c \in JobRow /\ c.kind = job.kind /\ c.tools = job.tools /\ c.scope = job.scope
        /\ seen.turns = job.aiCalls + run.aiCalls
        /\ IF run.error = "unexpected" THEN c.aiCalls = job.aiCalls ELSE seen.turns = c.aiCalls
        /\ job.aiCalls \in Nat /\ run.aiCalls \in Nat
    BY InHand, Underway
  <1>2. job' = [c EXCEPT !.stage = "done", !.result = result]
    BY DEF Finish
  <1> HIDE DEF c
  <1>3. /\ job' \in JobRow /\ job'.stage = "done" /\ job'.result = result
        /\ job'.kind = c.kind /\ job'.tools = c.tools /\ job'.scope = c.scope
        /\ job'.aiCalls = c.aiCalls
    BY <1>1, <1>2 DEF JobRow, Stages
  <1>4. run'.aiCalls = run.aiCalls => CallsAccounted'
    BY <1>1, <1>3 DEF CallsAccounted
  <1>5. run' = [run EXCEPT !.pc = "off"]
    BY DEF Finish
  <1> QED BY <1>1, <1>3, <1>4, <1>5, Closes

\* A request that fails says whether its run ended in an error that nobody expects.
LEMMA Fails ==
  ASSUME IInv, run.pc = "ended", UNCHANGED <<settings, clock, seen>>, Fail
  PROVE  IInv'
  <1>1. CASE run.error = "unexpected"
    BY <1>1, Finishes DEF Fail, Results
  <1>2. CASE run.error # "unexpected"
    BY <1>2, Finishes DEF Fail, Results
  <1> QED BY <1>1, <1>2

\* A request that starts another run on what it has left.
LEMMA Restarts ==
  ASSUME IInv, run.pc = "ended", run.error # "unexpected", UNCHANGED <<settings, clock, seen>>,
         job' \in JobRow, job'.stage \in {"strong", "better", "retry", "repair"},
         job'.kind = job.kind, job'.tools = job.tools, job'.result = "none",
         job'.aiCalls = Charged.aiCalls, job'.attempted = Charged.attempted,
         NEW tier \in Tiers, NEW seeds \in SUBSET Docs, NEW preload \in BOOLEAN,
         NEW turns \in Int, NEW execs \in Int, NEW required \in SUBSET Tools,
         run' = NewRun(tier, seeds, preload, turns, execs, required, Pinned),
         job.kind # "setup" =>
           /\ turns >= 1 /\ turns <= MaxProviderTurns - Charged.aiCalls
           /\ execs >= 1 /\ execs <= MaxToolExecutions - Charged.attempted,
         Required \subseteq required \/ (preload /\ Required \subseteq UsedTools(seeds))
  PROVE  IInv'
  <1>1. Pinned \in Providers \cup {NoOne}
    BY Fields DEF IInv
  <1>2. Fresh(run', seeds, preload, turns, execs, required, Pinned)
    <2>1. Fresh(NewRun(tier, seeds, preload, turns, execs, required, Pinned),
                seeds, preload, turns, execs, required, Pinned)
      BY <1>1, NewRuns, Zenon
    <2> QED BY <2>1, Zenon
  <1>3. /\ seen.turns = Charged.aiCalls /\ seen.execs <= Charged.attempted
        /\ Served \subseteq {Pinned}
    BY InHand
  <1>5. /\ job'.stage \notin Unbegun \cup {"done"} 
    BY DEF Unbegun
  <1>6. Required' = Required
    BY DEF Required, IsSetup
  <1>7. seen.turns = job'.aiCalls /\ seen.execs <= job'.attempted
    BY <1>3
  <1> QED BY <1>2, <1>3, <1>5, <1>6, <1>7, Starts

\* One more attempt, with the strong model, within the budget.
LEMMA Escalates ==
  ASSUME IInv, run.pc = "ended", run.error # "unexpected", UNCHANGED <<settings, clock, seen>>,
         NEW stage \in {"strong", "better"}, NEW tier \in Tiers, NEW seeds \in SUBSET Docs,
         Escalate(stage, tier, seeds), HasBudget(Charged)
  PROVE  IInv'
  <1> DEFINE c == Charged
  <1>1. c \in JobRow /\ c.kind = job.kind /\ c.tools = job.tools /\ c.result = "none"
    BY InHand
  <1>2. c.aiCalls \in Nat /\ c.attempted \in Nat
    BY InHand
  <1>3. job' = [c EXCEPT !.stage = stage, !.tier = tier]
    BY DEF Escalate
  <1>4. Left(c).turns = MaxProviderTurns - c.aiCalls /\ Left(c).execs = MaxToolExecutions - c.attempted
    BY DEF Left
  <1>5. /\ run' = NewRun("strong", seeds, FALSE, Left(c).turns, Left(c).execs, Required, Pinned)
        /\ Left(c).turns >= 1 /\ Left(c).execs >= 1
    BY Zenon DEF Escalate, HasBudget
  <1> HIDE DEF c
  <1>6. /\ job' \in JobRow /\ job'.stage = stage /\ job'.kind = c.kind /\ job'.tools = c.tools
        /\ job'.result = c.result /\ job'.aiCalls = c.aiCalls /\ job'.attempted = c.attempted
    BY <1>1, <1>3 DEF JobRow, Stages
  <1>7. /\ Left(c).turns \in Int /\ Left(c).execs \in Int
        /\ Left(c).turns <= MaxProviderTurns - c.aiCalls
        /\ Left(c).execs <= MaxToolExecutions - c.attempted
    BY <1>2, <1>4, BudgetAssumption
  <1>8. /\ "strong" \in Tiers /\ FALSE \in BOOLEAN /\ Required \in SUBSET Tools
        /\ Required \subseteq Required
    BY Fields DEF IInv, Tiers
  <1>9. c = Charged
    BY DEF c
  <1>10. job'.stage \in {"strong", "better", "retry", "repair"}
    BY <1>6
  <1> QED BY <1>1, <1>5, <1>6, <1>7, <1>8, <1>9, <1>10, Restarts

\* A failed run: escalated once, completed from verified weather, or the end.
LEMMA RunFailedInv == ASSUME IInv, RunFailed PROVE IInv'
  <1>1. run.pc = "ended" /\ UNCHANGED <<settings, clock, seen>>
    BY DEF RunFailed
  <1>2. CASE Fail
    BY <1>1, <1>2, Fails
  <1>3. CASE EscalationDue /\ Escalate("strong", "strong", {})
    BY <1>1, <1>3, Escalates DEF Tiers, EscalationDue
  <1>4. CASE FallbackOrFail
    BY <1>1, <1>2, <1>4, Finishes DEF FallbackOrFail, Results
  <1> QED BY <1>2, <1>3, <1>4 DEF RunFailed

\* Bookkeeping that fails closes the request.
LEMMA BookkeepingInv == ASSUME IInv, BookkeepingFails PROVE IInv'
  <1>1. /\ run.pc = "ended" /\ UNCHANGED <<settings, clock, seen>> /\ job \in JobRow
        /\ seen.turns = job.aiCalls + run.aiCalls
        /\ job.aiCalls \in Nat /\ run.aiCalls \in Nat
    BY InHand, Underway DEF BookkeepingFails
  <1>2. CASE Fail
    BY <1>1, <1>2, Fails
  <1>3. CASE /\ job' = [job EXCEPT !.stage = "done", !.result = "lost",
                                   !.aiCalls = 0, !.attempted = 0]
             /\ run' = [run EXCEPT !.pc = "off"]
    <2>1. /\ job' \in JobRow /\ job'.stage = "done" /\ job'.result = "lost"
          /\ job'.kind = job.kind /\ job'.tools = job.tools /\ job'.scope = job.scope
          /\ job'.aiCalls = 0
      BY <1>1, <1>3 DEF JobRow, Stages, Results
    <2>2. CallsAccounted'
      BY <2>1 DEF CallsAccounted
    <2> QED BY <1>1, <1>3, <2>1, <2>2, Closes
  <1>4. CASE /\ job' = [job EXCEPT !.stage = "done", !.result = "unexpected"]
             /\ run' = [run EXCEPT !.pc = "off"]
    <2>1. /\ job' \in JobRow /\ job'.stage = "done" /\ job'.result = "unexpected"
          /\ job'.kind = job.kind /\ job'.tools = job.tools /\ job'.scope = job.scope
          /\ job'.aiCalls = job.aiCalls
      BY <1>1, <1>4 DEF JobRow, Stages, Results
    <2>2. run'.aiCalls = run.aiCalls => CallsAccounted'
      BY <1>1, <2>1 DEF CallsAccounted
    <2> QED BY <1>1, <1>4, <2>1, <2>2, Closes
  <1> QED BY <1>2, <1>3, <1>4 DEF BookkeepingFails

\* A strong answer that is repaired in a turn of its own.
LEMMA Repairs ==
  ASSUME IInv, run.pc = "ended", run.error = "none", UNCHANGED <<settings, clock, seen>>,
         Repair, CanRepairAnswer
  PROVE  IInv'
  <1> DEFINE c == Charged
  <1>1. c \in JobRow /\ c.kind = job.kind /\ c.tools = job.tools /\ c.result = "none"
    BY InHand
  <1>2. c.aiCalls \in Nat /\ c.attempted \in Nat
    BY InHand
  <1>3. job' = [c EXCEPT !.stage = "repair"]
    BY DEF Repair
  <1>4. Left(c).turns = MaxProviderTurns - c.aiCalls /\ Left(c).execs = MaxToolExecutions - c.attempted
    BY DEF Left
  <1> DEFINE required == IF IsSetup THEN {} ELSE job.tools
  <1>5. /\ run' = NewRun("strong", Evidence(run), TRUE, 1, Left(c).execs, required, Pinned)
        /\ Left(c).turns >= 1 /\ Left(c).execs >= 1
    BY Zenon DEF Repair, CanRepairAnswer, HasBudget
  <1> HIDE DEF c
  <1>6. /\ job' \in JobRow /\ job'.stage = "repair" /\ job'.kind = c.kind /\ job'.tools = c.tools
        /\ job'.result = c.result /\ job'.aiCalls = c.aiCalls /\ job'.attempted = c.attempted
    BY <1>1, <1>3 DEF JobRow, Stages
  <1>7. /\ 1 \in Int /\ Left(c).execs \in Int
        /\ 1 <= MaxProviderTurns - c.aiCalls
        /\ Left(c).execs <= MaxToolExecutions - c.attempted
    BY <1>2, <1>4, <1>5, BudgetAssumption
  <1>8. /\ "strong" \in Tiers /\ TRUE \in BOOLEAN /\ required \in SUBSET Tools
        /\ Evidence(run) \in SUBSET Docs
    BY Fields DEF IInv, Tiers
  <1>9. run.config # NoOne /\ Required \subseteq UsedTools(Evidence(run))
    BY InHand
  <1>10. c = Charged
    BY DEF c
  <1>11. job'.stage \in {"strong", "better", "retry", "repair"}
    BY <1>6
  <1> HIDE DEF required
  <1>12. /\ job'.kind = job.kind /\ job'.tools = job.tools /\ job'.result = "none"
         /\ job'.aiCalls = Charged.aiCalls /\ job'.attempted = Charged.attempted
         /\ 1 >= 1 /\ 1 <= MaxProviderTurns - Charged.aiCalls
         /\ Left(c).execs >= 1 /\ Left(c).execs <= MaxToolExecutions - Charged.attempted
    BY <1>1, <1>5, <1>6, <1>7, <1>10
  <1>13. Required \subseteq required \/ (TRUE /\ Required \subseteq UsedTools(Evidence(run)))
    BY <1>9
  <1> QED BY <1>5, <1>6, <1>7, <1>8, <1>9, <1>11, <1>12, <1>13, Restarts, Zenon

\* An answer that was given without any source is asked for again.
LEMMA Retries ==
  ASSUME IInv, run.pc = "ended", run.error = "none", IsSetup, UNCHANGED <<settings, clock, seen>>,
         job' = [Charged EXCEPT !.stage = "retry"],
         run' = NewRun(job.tier, Evidence(run), FALSE, MaxProviderTurns - 1,
                       MaxToolExecutions, job.tools, Pinned)
  PROVE  IInv'
  <1> DEFINE c == Charged
  <1>1. /\ c \in JobRow /\ c.kind = job.kind /\ c.tools = job.tools /\ c.result = "none"
        /\ job \in JobRow
    BY InHand
  <1>2. job' = [c EXCEPT !.stage = "retry"]
    OBVIOUS
  <1> HIDE DEF c
  <1>3. /\ job' \in JobRow /\ job'.stage = "retry" /\ job'.kind = c.kind /\ job'.tools = c.tools
        /\ job'.result = c.result /\ job'.aiCalls = c.aiCalls /\ job'.attempted = c.attempted
    BY <1>1, <1>2 DEF JobRow, Stages
  <1>4. MaxProviderTurns - 1 \in Int /\ MaxToolExecutions \in Int
    BY BudgetAssumption
  <1>5. /\ job.tier \in Tiers /\ FALSE \in BOOLEAN /\ job.tools \in SUBSET Tools
        /\ Evidence(run) \in SUBSET Docs /\ Required \subseteq job.tools
    BY <1>1, Fields DEF IInv, JobRow
  <1>6. run.config # NoOne /\ job.kind = "setup"
    BY InHand DEF IsSetup
  <1>7. c = Charged
    BY DEF c
  <1>8. job'.stage \in {"strong", "better", "retry", "repair"}
    BY <1>3
  <1> QED BY <1>1, <1>3, <1>4, <1>5, <1>6, <1>7, <1>8, Restarts

\* The verdict on an answer.
LEMMA JudgeInv == ASSUME IInv, NEW v \in {"good", "low", "invalid", "refused"}, Judge(v) PROVE IInv'
  <1>1. run.pc = "ended" /\ run.error = "none" /\ UNCHANGED <<settings, clock, seen>>
    BY DEF Judge
  <1>2. run.config # NoOne /\ Required \subseteq UsedTools(Evidence(run))
    BY <1>1, InHand
  <1>3. ASSUME NEW result \in {"answer", "fallback"}, Finish(result) PROVE IInv'
    BY <1>1, <1>2, <1>3, Finishes DEF Results
  <1>10. CASE Fail
    BY <1>1, <1>10, Fails
  <1>4. ASSUME NEW tier \in Tiers, Escalate("better", tier, Evidence(run)), HasBudget(Charged)
        PROVE  IInv'
    BY <1>1, <1>2, <1>4, Fields, Escalates DEF IInv
  <1>5. CASE Repair /\ CanRepairAnswer
    BY <1>1, <1>5, Repairs
  <1>6. CASE FallbackOrFail
    BY <1>3, <1>6, <1>10 DEF FallbackOrFail
  <1>7. "routine" \in Tiers /\ "strong" \in Tiers
    BY DEF Tiers
  <1>8. CASE IsSetup
    <2>1. SetupJudges(v)
      BY <1>8 DEF Judge
    <2>2. CASE /\ job' = [Charged EXCEPT !.stage = "retry"]
               /\ run' = NewRun(job.tier, Evidence(run), FALSE, MaxProviderTurns - 1,
                                MaxToolExecutions, job.tools, Pinned)
      BY <1>1, <1>8, <2>2, Retries
    <2> QED BY <1>3, <1>4, <1>5, <1>6, <1>7, <1>10, <2>1, <2>2, Zenon DEF SetupJudges
  <1>9. CASE ~IsSetup
    <2>1. EngineJudges(v)
      BY <1>9 DEF Judge
    <2> QED BY <1>3, <1>4, <1>5, <1>7, <1>10, <2>1, Zenon DEF EngineJudges
  <1> QED BY <1>8, <1>9

\* A weather condition is decided without a run.
LEMMA DecideInv == ASSUME IInv, DecideCondition PROVE IInv'
  <1>1. PICK result \in {"decided", "failed"} :
          job' = [job EXCEPT !.stage = "done", !.result = result, !.attempted = 1]
    BY DEF DecideCondition
  <1>2. /\ job.stage = "condition" /\ UNCHANGED <<settings, clock, run>>
        /\ seen' = [seen EXCEPT !.execs = 1]
    BY DEF DecideCondition
  <1>3. /\ job \in JobRow /\ run \in RunRow /\ ~Active /\ job.aiCalls = 0
        /\ seen.turns = 0 /\ seen \in [turns : Nat, execs : Nat, asked : SUBSET Configurations]
    BY <1>2 DEF IInv, Shape, Staged, Unbegun
  <1>4. /\ job' \in JobRow /\ job'.stage = "done" /\ job'.aiCalls = 0
        /\ job'.result \notin {"answer", "unexpected", "lost"}
        /\ job'.scope = job.scope /\ job'.stage \notin Unbegun
    BY <1>1, <1>3 DEF JobRow, Stages, Unbegun, Results
  <1>5. /\ seen' \in [turns : Nat, execs : Nat, asked : SUBSET Configurations]
        /\ seen'.turns = 0 /\ seen'.execs = 1 /\ seen'.asked = seen.asked
    BY <1>2, <1>3
  <1>6. 0 <= MaxProviderTurns /\ 1 <= MaxToolExecutions
    BY BudgetAssumption
  <1>7. ~Active' /\ run' = run
    BY <1>2, <1>3 DEF Active
  <1>8. job'.scope = "dynamic" /\ Forecast \in run'.obtained => run'.date \in Evidence(run)'
    BY <1>4, <1>7 DEF IInv, GroundInv, Evidence
  <1>9. CallsAccounted' /\ seen'.turns <= MaxProviderTurns /\ seen'.execs <= MaxToolExecutions
    BY <1>4, <1>5, <1>6 DEF CallsAccounted
  <1> QED BY <1>2, <1>3, <1>4, <1>5, <1>7, <1>8, <1>9, Rests

-----------------------------------------------------------------------------
(* The theorems *)

\* Every step of a request keeps the invariant.
LEMMA Inductive == IInv /\ [Next]_vars => IInv'
  <1> SUFFICES ASSUME IInv, [Next]_vars PROVE IInv'
    OBVIOUS
  <1>1. ASSUME UNCHANGED <<job, run, seen>>, settings' \in Configurations \cup {NoOne},
               clock' \in {"ample", "short", "over"}
        PROVE  IInv'
    BY <1>1 DEF IInv, Shape, Staged, TurnsInv, ExecsInv, ProviderInv, GroundInv, Active,
       Evidence, Required, IsSetup, CallsAccounted, Served, Pinned
  <1>2. CASE UNCHANGED vars
    BY <1>1, <1>2 DEF vars, IInv, Shape
  <1>3. ASSUME NEW c \in Configurations \cup {NoOne}, EditSettings(c) PROVE IInv'
    BY <1>1, <1>3 DEF EditSettings, IInv, Shape
  <1>4. CASE Tick
    BY <1>1, <1>4 DEF Tick, IInv, Shape
  <1>5. CASE \E q \in Requests : Begin(q.kind, q.tools, q.scope, q.tier)
    BY <1>5, BeginInv
  <1>6. CASE ProviderAnswers
    BY <1>6, AnswerInv, CallToolsInv DEF ProviderAnswers
  <1>7. CASE Proceed
    BY <1>7, PreloadInv, PreopenInv, CreateSessionInv, ExecuteCallInv, TurnTimesOutInv,
       DecideInv, BeginInv, RunFailedInv, JudgeInv DEF Proceed
  <1>8. CASE Breaks
    BY <1>8, TurnBreaksInv, BookkeepingInv DEF Breaks
  <1> QED BY <1>2, <1>3, <1>4, <1>5, <1>6, <1>7, <1>8 DEF Next

LEMMA Invariance == Spec => []IInv
  <1> QED BY InitInv, Inductive, PTL DEF Spec

\* The run of an approved task, with its escalation and its repair, stays within
\* MAX_PROVIDER_TURNS turns and MAX_TOOL_EXECUTIONS tool executions, whatever the
\* two limits are.
THEOREM RunBudgetHolds == Spec => []RunBudget
  <1>1. IInv => RunBudget
    BY DEF IInv, TurnsInv, ExecsInv, RunBudget
  <1> QED BY <1>1, Invariance, PTL

\* Whatever the settings hold as each session of a request is made, all of its turns
\* go to the one provider that its first turn went to, though perhaps to another
\* address or model of it.
THEOREM OneProviderHolds == Spec => []OneProvider
  <1>1. ASSUME IInv PROVE OneProvider
    <2>1. CASE Served = {}
      BY <2>1, FS_EmptySet DEF OneProvider
    <2>2. CASE Served # {}
      <3>1. PICK p \in Served : Served = {p}
        BY <1>1, <2>2 DEF IInv, ProviderInv
      <3> QED BY <3>1, FS_Singleton DEF OneProvider
    <2> QED BY <2>1, <2>2
  <1>2. IInv => OneProvider
    BY <1>1
  <1> QED BY <1>2, Invariance, PTL

\* What was opened was disclosed by what was opened before, a forecast's date comes
\* from the evidence, and an accepted answer used every required tool.
THEOREM AnswersGroundedHolds == Spec => []AnswersGrounded
  <1>1. IInv => AnswersGrounded
    BY DEF IInv, GroundInv, AnswersGrounded
  <1> QED BY <1>1, Invariance, PTL

\* The audit of a finished request counts the turns of all of its runs, but for the
\* last one when what ended it is no DomainError, and for all of them when such an
\* error comes between the runs of the engine.
THEOREM CallsAccountedHolds == Spec => []CallsAccounted
  <1>1. IInv => CallsAccounted
    BY DEF IInv, TurnsInv
  <1> QED BY <1>1, Invariance, PTL

-----------------------------------------------------------------------------
(* The session with a provider.  A turn that is under way or being recorded *)
(* may owe one row; every other turn has left its row.                     *)

Usage == [turns : Nat, rows : Nat, lost : Nat]
Owing == turn \in {"waiting", "recording"}

UsageInv ==
  /\ usage \in Usage
  /\ usage.rows + usage.lost + 1 >= usage.turns
  /\ ~Owing => usage.rows + usage.lost >= usage.turns

\* One more request, and one more row or one that is given up.
LEMMA UsageCounts ==
  ASSUME usage \in Usage
  PROVE  /\ LET u == [usage EXCEPT !.turns = @ + 1] IN
              u \in Usage /\ u.turns = usage.turns + 1 /\ u.rows = usage.rows /\ u.lost = usage.lost
         /\ \A r, l \in {0, 1} :
              LET u == [usage EXCEPT !.rows = @ + r, !.lost = @ + l] IN
                u \in Usage /\ u.turns = usage.turns /\ u.rows = usage.rows + r
                /\ u.lost = usage.lost + l
<1>1. usage.turns + 1 \in Nat
  BY DEF Usage
<1>2. ASSUME NEW r \in {0, 1}, NEW l \in {0, 1}
      PROVE  usage.rows + r \in Nat /\ usage.lost + l \in Nat
  BY DEF Usage
<1> QED BY <1>1, <1>2 DEF Usage

LEMMA UsageStep ==
  ASSUME UsageInv, [Session!SessionNext]_SessionVars
  PROVE  UsageInv'
<1>1. /\ usage \in Usage /\ usage.turns \in Nat /\ usage.rows \in Nat /\ usage.lost \in Nat
  BY DEF UsageInv, Usage
<1>2. ASSUME usage' = usage, Owing' \/ ~Owing
      PROVE  UsageInv'
  BY <1>2 DEF UsageInv
<1>3. CASE UNCHANGED SessionVars
  BY <1>2, <1>3 DEF SessionVars, Owing
<1>4. CASE Session!CreateTaskSession
  <2>1. CASE turn' = "ready" \/ turn' = "gone"
    BY <1>2, <1>4, <2>1 DEF Session!CreateTaskSession, Owing
  <2>2. CASE turn' = "recording"
    <3>1. usage' = usage \/ usage' = [usage EXCEPT !.turns = 1]
      BY <1>4 DEF Session!CreateTaskSession
    <3>2. CASE usage' = [usage EXCEPT !.turns = 1]
      <4>1. usage' \in Usage /\ usage'.turns = 1 /\ usage'.rows \in Nat /\ usage'.lost \in Nat
        BY <1>1, <3>2 DEF Usage
      <4> QED BY <2>2, <4>1 DEF UsageInv, Owing
    <3> QED BY <1>2, <2>2, <3>1, <3>2 DEF Owing
  <2> QED BY <1>4, <2>1, <2>2 DEF Session!CreateTaskSession
<1>5. ASSUME NEW results \in SUBSET CallIds, Session!Next_(results)
      PROVE  UsageInv'
  <2>1. turn = "ready" /\ turn' \in {"waiting", "recording"}
        /\ usage' = [usage EXCEPT !.turns = @ + 1]
    BY <1>5 DEF Session!Next_
  <2>2. /\ usage' \in Usage /\ usage'.turns = usage.turns + 1 /\ usage'.rows = usage.rows
        /\ usage'.lost = usage.lost
    BY <1>1, <2>1, UsageCounts
  <2> QED BY <1>1, <2>1, <2>2 DEF UsageInv, Owing
<1>6. CASE Session!Resolved \/ Session!Responds \/ Session!TurnAborted
  <2>1. usage' = usage /\ (turn' = turn \/ turn' = "recording")
    BY <1>6 DEF Session!Resolved, Session!Responds, Session!TurnAborted
  <2> QED BY <1>2, <2>1 DEF Owing
<1>7. CASE Session!Abort \/ Session!Close
  <2>1. usage' = usage /\ (turn' = turn \/ turn \in {"ready", "gone"})
    BY <1>7 DEF Session!Abort, Session!Close
  <2> QED BY <1>2, <2>1 DEF Owing
<1>8. CASE Session!RecordUsage
  <2>1. PICK stored \in BOOLEAN, confirmed \in BOOLEAN :
          /\ confirmed => stored
          /\ usage' = [usage EXCEPT !.rows = @ + (IF stored THEN 1 ELSE 0),
                         !.lost = @ + (IF ~stored /\ answer # "turn" THEN 1 ELSE 0)]
          /\ IF answer = "turn" /\ ~confirmed
               THEN turn' = "recording"
             ELSE turn' = (IF answer = "turn" THEN "ready" ELSE "gone")
    BY <1>8 DEF Session!RecordUsage
  <2> DEFINE r == IF stored THEN 1 ELSE 0
             l == IF ~stored /\ answer # "turn" THEN 1 ELSE 0
  <2>2. /\ r \in {0, 1} /\ l \in {0, 1}
        /\ usage' = [usage EXCEPT !.rows = @ + r, !.lost = @ + l]
    BY <2>1
  <2>3. turn' = "recording" \/ r = 1 \/ l = 1
    BY <2>1
  <2> HIDE DEF r, l
  <2>4. /\ usage' \in Usage /\ usage'.turns = usage.turns
        /\ usage'.rows = usage.rows + r /\ usage'.lost = usage.lost + l
    BY <1>1, <2>2, UsageCounts
  <2>5. r \in Nat /\ l \in Nat
    BY <2>2
  <2> QED BY <1>1, <2>3, <2>4, <2>5 DEF UsageInv, Owing
<1> QED BY <1>3, <1>4, <1>5, <1>6, <1>7, <1>8 DEF Session!SessionNext

LEMMA UsageBegins == Session!SessionInit => UsageInv
BY DEF Session!SessionInit, UsageInv, Usage, Owing

-----------------------------------------------------------------------------
(* The weather client.  A request on the map is for the place of the caller *)
(* that started it; who waits for it asked for the same place; and while    *)
(* the request is not answered its caller waits and it is on the map.       *)

Lookup == [pc : {"idle", "locating", "waiting", "done"}, place : Places \cup {Nobody},
           on : Callers \cup {Nobody}, aborted : BOOLEAN,
           result : {"none", "timeout", "location", "failed", "forecast", "date"}]
Fetch  == [state : {"none", "asked", "settled", "failed"}, cached : BOOLEAN]

LookupShape ==
  /\ inFlight \in [Places -> Callers \cup {Nobody}]
  /\ lookup \in [Callers -> Lookup] /\ fetch \in [Callers -> Fetch]

Started(c) == lookup[c].pc \in {"waiting", "done"}

Waiting(c) == lookup[c].pc = "waiting" =>
  /\ lookup[c].on \in Callers /\ Started(lookup[c].on)
  /\ lookup[lookup[c].on].place = lookup[c].place
Unanswered(c) == fetch[c].state = "asked" =>
  /\ lookup[c].pc = "waiting" /\ lookup[c].on = c
  /\ inFlight[lookup[c].place] = c
OnMap(p) == inFlight[p] # Nobody =>
  /\ Started(inFlight[p]) /\ lookup[inFlight[p]].place = p
  /\ \E c \in Callers : lookup[c].pc = "waiting" /\ lookup[c].on = inFlight[p]

PlaceInv ==
  /\ LookupShape
  /\ \A c \in Callers : /\ lookup[c].pc # "idle" => lookup[c].place \in Places
                        /\ Waiting(c) /\ Unanswered(c)
  /\ \A p \in Places : OnMap(p)

LEMMA PlaceBegins == Forecasts!WeatherInit => PlaceInv
<1> SUFFICES ASSUME Forecasts!WeatherInit PROVE PlaceInv
  OBVIOUS
<1>1. LookupShape
  BY DEF Forecasts!WeatherInit, Forecasts!NoFetch, LookupShape, Lookup, Fetch
<1>2. \A c \in Callers : lookup[c].pc = "idle" /\ fetch[c].state = "none"
  BY DEF Forecasts!WeatherInit, Forecasts!NoFetch
<1>3. \A p \in Places : inFlight[p] = Nobody
  BY DEF Forecasts!WeatherInit
<1> QED BY <1>1, <1>2, <1>3 DEF PlaceInv, Waiting, Unanswered, OnMap

\* A caller that does not wait is nobody's concern, as long as it keeps its place.
LEMMA AsideStep ==
  ASSUME PlaceInv, UNCHANGED <<inFlight, fetch>>, NEW c \in Callers, NEW l \in Lookup,
         lookup' = [lookup EXCEPT ![c] = l],
         l.pc # "idle" => l.place \in Places,
         \/ lookup[c].pc = "idle" /\ l.pc = "locating"
         \/ lookup[c].pc = "locating" /\ l.pc = "done"
         \/ l.pc = lookup[c].pc /\ l.on = lookup[c].on /\ l.place = lookup[c].place
  PROVE  PlaceInv'
<1>1. LookupShape' /\ lookup'[c] = l /\ \A d \in Callers \ {c} : lookup'[d] = lookup[d]
  BY DEF PlaceInv, LookupShape
<1>2. ASSUME NEW d \in Callers PROVE Started(d) => Started(d)' /\ lookup'[d].place = lookup[d].place
  BY <1>1 DEF Started
<1>3. ASSUME NEW d \in Callers
      PROVE  /\ lookup'[d].pc = "waiting" <=> lookup[d].pc = "waiting"
             /\ lookup[d].pc = "waiting" => lookup'[d].on = lookup[d].on
                                            /\ lookup'[d].place = lookup[d].place
  BY <1>1
<1>4. ASSUME NEW d \in Callers
      PROVE  /\ lookup'[d].pc # "idle" => lookup'[d].place \in Places
             /\ Waiting(d)' /\ Unanswered(d)'
  <2>1. lookup'[d].pc # "idle" => lookup'[d].place \in Places
    BY <1>1 DEF PlaceInv
  <2>2. Waiting(d)'
    BY <1>2, <1>3 DEF PlaceInv, Waiting
  <2>3. Unanswered(d)'
    BY <1>3 DEF PlaceInv, Unanswered
  <2> QED BY <2>1, <2>2, <2>3
<1>5. ASSUME NEW p \in Places PROVE OnMap(p)'
  <2>1. inFlight[p] # Nobody => inFlight[p] \in Callers
    BY DEF PlaceInv, LookupShape
  <2> QED BY <1>2, <1>3, <2>1 DEF PlaceInv, OnMap
<1> QED BY <1>1, <1>4, <1>5 DEF PlaceInv

LEMMA LookupSteps ==
  ASSUME PlaceInv, NEW c \in Callers,
         \/ \E p \in Places : Forecasts!Ask(c, p)
         \/ Forecasts!Aborts(c) \/ Forecasts!NotLocated(c)
  PROVE  PlaceInv'
<1>1. lookup[c] \in Lookup /\ UNCHANGED <<inFlight, fetch>> /\ lookup \in [Callers -> Lookup]
  BY DEF PlaceInv, LookupShape, Forecasts!Ask, Forecasts!Aborts, Forecasts!NotLocated
<1>2. ASSUME NEW p \in Places, Forecasts!Ask(c, p) PROVE PlaceInv'
  <2> DEFINE l == [lookup[c] EXCEPT !.pc = "locating", !.place = p]
  <2>1. l \in Lookup /\ l.pc = "locating" /\ l.place = p
    BY <1>1 DEF Lookup
  <2>2. lookup' = [lookup EXCEPT ![c] = l] /\ lookup[c].pc = "idle"
    BY <1>1, <1>2 DEF Forecasts!Ask
  <2> HIDE DEF l
  <2> QED BY <1>1, <2>1, <2>2, AsideStep
<1>3. CASE Forecasts!Aborts(c)
  <2> DEFINE l == [lookup[c] EXCEPT !.aborted = TRUE]
  <2>1. l \in Lookup /\ l.pc = lookup[c].pc /\ l.on = lookup[c].on /\ l.place = lookup[c].place
    BY <1>1 DEF Lookup
  <2>2. lookup' = [lookup EXCEPT ![c] = l]
    BY <1>1, <1>3 DEF Forecasts!Aborts
  <2>3. l.pc # "idle" => l.place \in Places
    BY <2>1 DEF PlaceInv
  <2> HIDE DEF l
  <2> QED BY <1>1, <2>1, <2>2, <2>3, AsideStep
<1>4. CASE Forecasts!NotLocated(c)
  <2> DEFINE result == IF lookup[c].aborted THEN "timeout" ELSE "location"
             l == [lookup[c] EXCEPT !.pc = "done", !.result = result]
  <2>0. result \in {"timeout", "location"}
    OBVIOUS
  <2>1. l \in Lookup /\ l.pc = "done" /\ l.place = lookup[c].place
    BY <1>1, <2>0 DEF Lookup
  <2>2. lookup' = [lookup EXCEPT ![c] = l] /\ lookup[c].pc = "locating"
    BY <1>1, <1>4 DEF Forecasts!NotLocated, Forecasts!Done
  <2>3. l.place \in Places
    BY <2>1, <2>2 DEF PlaceInv
  <2> HIDE DEF l
  <2> QED BY <1>1, <2>1, <2>2, <2>3, AsideStep
<1> QED BY <1>2, <1>3, <1>4

LEMMA LocatedStep ==
  ASSUME PlaceInv, NEW c \in Callers, Forecasts!Located(c)
  PROVE  PlaceInv'
<1> DEFINE p == lookup[c].place
           owner == IF inFlight[p] = Nobody THEN c ELSE inFlight[p]
           f == [state |-> IF Forecasts!Fresh(p) THEN "settled" ELSE "asked",
                 cached |-> Forecasts!Cached(p) # {}]
           l == [lookup[c] EXCEPT !.pc = "waiting", !.on = owner]
<1>1. /\ lookup[c].pc = "locating" /\ p \in Places /\ LookupShape
      /\ inFlight' = [inFlight EXCEPT ![p] = owner]
      /\ fetch' = IF owner # c THEN fetch ELSE [fetch EXCEPT ![c] = f]
      /\ lookup' = [lookup EXCEPT ![c] = l]
  BY DEF Forecasts!Located, PlaceInv, LookupShape
<1>2. /\ inFlight[p] \in Callers \cup {Nobody} /\ owner \in Callers
      /\ owner # c => inFlight[p] = owner
  BY <1>1 DEF LookupShape
<1>3. inFlight[p] # c
  BY <1>1, NobodyIsApart DEF PlaceInv, OnMap, Started
<1>4. owner = c <=> inFlight[p] = Nobody
  BY <1>2, <1>3, NobodyIsApart
<1>5. f \in Fetch
  BY DEF Fetch
<1>6. l \in Lookup /\ l.pc = "waiting" /\ l.on = owner /\ l.place = p
  BY <1>1, <1>2 DEF LookupShape, Lookup
<1>7. owner # c => Started(owner) /\ lookup[owner].place = p
  BY <1>1, <1>2, <1>4 DEF PlaceInv, OnMap
<1> HIDE DEF owner, f, l, p
<1>8. /\ LookupShape' /\ lookup'[c] = l /\ inFlight'[p] = owner
      /\ \A d \in Callers \ {c} : lookup'[d] = lookup[d] /\ fetch'[d] = fetch[d]
      /\ \A q \in Places \ {p} : inFlight'[q] = inFlight[q]
      /\ fetch'[c].state = "asked" => fetch[c].state = "asked" \/ owner = c
  BY <1>1, <1>2, <1>5, <1>6 DEF LookupShape
<1>9. Started(c)' /\ \A d \in Callers : Started(d) =>
        Started(d)' /\ lookup'[d].place = lookup[d].place
  BY <1>1, <1>6, <1>8 DEF Started
<1>10. ASSUME NEW d \in Callers
       PROVE  /\ lookup'[d].pc # "idle" => lookup'[d].place \in Places
              /\ Waiting(d)' /\ Unanswered(d)'
  <2>1. CASE d = c
    <3>1. Waiting(c)'
      BY <1>2, <1>6, <1>7, <1>8, <1>9 DEF Waiting
    <3>2. Unanswered(c)'
      BY <1>1, <1>6, <1>8 DEF Unanswered, PlaceInv
    <3> QED BY <1>1, <1>6, <1>8, <2>1, <3>1, <3>2
  <2>2. CASE d # c
    <3>1. Waiting(d)'
      BY <1>8, <1>9, <2>2 DEF Waiting, PlaceInv
    <3>2. fetch[d].state = "asked" /\ lookup[d].place = p => owner = d
      BY <1>2, <1>4, NobodyIsApart DEF PlaceInv, Unanswered
    <3>3. fetch[d].state = "asked" => lookup[d].place \in Places
      BY DEF PlaceInv, Unanswered
    <3>4. Unanswered(d)'
      BY <1>8, <2>2, <3>2, <3>3 DEF Unanswered, PlaceInv
    <3> QED BY <1>8, <2>2, <3>1, <3>4 DEF PlaceInv
  <2> QED BY <2>1, <2>2
<1>11. ASSUME NEW q \in Places PROVE OnMap(q)'
  <2>1. CASE q = p
    <3>1. lookup'[owner].pc \in {"waiting", "done"} /\ lookup'[owner].place = p
      BY <1>2, <1>6, <1>7, <1>8 DEF Started
    <3>2. lookup'[c].pc = "waiting" /\ lookup'[c].on = owner
      BY <1>6, <1>8
    <3> QED BY <1>8, <2>1, <3>1, <3>2 DEF OnMap, Started
  <2>2. CASE q # p
    <3>1. inFlight'[q] = inFlight[q] /\ (inFlight[q] # Nobody => inFlight[q] \in Callers)
      BY <1>1, <1>8, <2>2 DEF LookupShape
    <3>2. \A d \in Callers : lookup[d].pc = "waiting" =>
            lookup'[d].pc = "waiting" /\ lookup'[d].on = lookup[d].on
      BY <1>1, <1>8
    <3> QED BY <1>9, <3>1, <3>2 DEF OnMap, PlaceInv
  <2> QED BY <2>1, <2>2
<1> QED BY <1>8, <1>10, <1>11 DEF PlaceInv

\* An answer, or the end of the deadline of whoever asked.
LEMMA AnsweredStep ==
  ASSUME PlaceInv, NEW c \in Callers, Forecasts!Responds(c) \/ Forecasts!FetchAborted(c)
  PROVE  PlaceInv'
<1>1. UNCHANGED <<inFlight, lookup>> /\ fetch[c] \in Fetch /\ fetch \in [Callers -> Fetch]
  BY DEF Forecasts!Responds, Forecasts!FetchAborted, PlaceInv, LookupShape
<1>2. PICK state \in {"settled", "failed"} : fetch' = [fetch EXCEPT ![c].state = state]
  BY DEF Forecasts!Responds, Forecasts!FetchAborted
<1>3. [fetch[c] EXCEPT !.state = state] \in Fetch
      /\ [fetch[c] EXCEPT !.state = state].state = state
  BY <1>1 DEF Fetch
<1>4. /\ fetch' \in [Callers -> Fetch] /\ fetch'[c].state # "asked"
      /\ \A d \in Callers \ {c} : fetch'[d] = fetch[d]
  BY <1>1, <1>2, <1>3
<1> QED BY <1>1, <1>4 DEF PlaceInv, LookupShape, Waiting, Unanswered, OnMap, Started

LEMMA CollectStep ==
  ASSUME PlaceInv, NEW c \in Callers, Forecasts!Collect(c)
  PROVE  PlaceInv'
<1> DEFINE p == lookup[c].place
           o == lookup[c].on
<1>1. /\ lookup[c].pc = "waiting" /\ p \in Places /\ o \in Callers /\ LookupShape
      /\ fetch[o].state # "asked" /\ lookup[o].place = p /\ fetch' = fetch
      /\ inFlight' = IF inFlight[p] = o THEN [inFlight EXCEPT ![p] = Nobody] ELSE inFlight
  BY DEF Forecasts!Collect, PlaceInv, Waiting
<1>2. PICK result \in {"failed", "forecast", "date"} :
        lookup' = [lookup EXCEPT ![c] = [lookup[c] EXCEPT !.pc = "done", !.result = result]]
  BY <1>1 DEF Forecasts!Collect, Forecasts!Done, LookupShape
<1> DEFINE l == [lookup[c] EXCEPT !.pc = "done", !.result = result]
<1>3. l \in Lookup /\ l.pc = "done" /\ l.on = o /\ l.place = p
  BY <1>1 DEF LookupShape, Lookup
<1> HIDE DEF l
<1>4. /\ LookupShape' /\ lookup'[c] = l
      /\ \A d \in Callers \ {c} : lookup'[d] = lookup[d]
  BY <1>1, <1>2, <1>3 DEF LookupShape, l
<1>5. \A q \in Places : inFlight'[q] # Nobody => inFlight'[q] = inFlight[q]
  BY <1>1 DEF LookupShape
<1>6. inFlight[p] = o => inFlight'[p] = Nobody
  BY <1>1 DEF LookupShape
<1> HIDE DEF p, o
<1>7. \A d \in Callers : Started(d) => Started(d)' /\ lookup'[d].place = lookup[d].place
  BY <1>3, <1>4 DEF Started, p
<1>8. ASSUME NEW d \in Callers
      PROVE  /\ lookup'[d].pc # "idle" => lookup'[d].place \in Places
             /\ Waiting(d)' /\ Unanswered(d)'
  <2>1. fetch[d].state = "asked" => d # c /\ inFlight'[lookup[d].place] = d
    <3> SUFFICES ASSUME fetch[d].state = "asked"
                 PROVE  d # c /\ inFlight'[lookup[d].place] = d
      OBVIOUS
    <3>1. lookup[d].on = d /\ inFlight[lookup[d].place] = d /\ lookup[d].place \in Places
      BY DEF PlaceInv, Unanswered
    <3>2. d # o
      BY <1>1
    <3> QED BY <1>1, <3>1, <3>2 DEF o, LookupShape
  <2>2. Unanswered(d)'
    BY <1>1, <1>4, <2>1 DEF PlaceInv, Unanswered
  <2>3. Waiting(d)'
    <3>1. CASE d = c
      BY <1>3, <1>4, <3>1 DEF Waiting
    <3>2. CASE d # c
      BY <1>4, <1>7, <3>2 DEF PlaceInv, Waiting
    <3> QED BY <3>1, <3>2
  <2>4. lookup'[d].pc # "idle" => lookup'[d].place \in Places
    BY <1>1, <1>3, <1>4 DEF PlaceInv
  <2> QED BY <2>2, <2>3, <2>4
<1>9. ASSUME NEW q \in Places PROVE OnMap(q)'
  <2> SUFFICES ASSUME inFlight'[q] # Nobody PROVE OnMap(q)'
    BY DEF OnMap
  <2>1. inFlight'[q] = inFlight[q] /\ inFlight[q] \in Callers
    BY <1>1, <1>5 DEF LookupShape
  <2>2. PICK d \in Callers : lookup[d].pc = "waiting" /\ lookup[d].on = inFlight[q]
    BY <2>1 DEF PlaceInv, OnMap
  <2>3. Started(inFlight[q]) /\ lookup[inFlight[q]].place = q
    BY <2>1 DEF PlaceInv, OnMap
  <2>4. d # c
    <3>1. inFlight[q] = o => q = p
      BY <1>1, <2>3
    <3> QED BY <1>6, <2>1, <2>2, <3>1 DEF o
  <2> QED BY <1>4, <1>7, <2>1, <2>2, <2>3, <2>4 DEF OnMap
<1> QED BY <1>4, <1>8, <1>9 DEF PlaceInv

LEMMA PlaceStep ==
  ASSUME PlaceInv, [Forecasts!WeatherNext]_WeatherVars
  PROVE  PlaceInv'
<1>1. ASSUME UNCHANGED <<inFlight, lookup, fetch>> PROVE PlaceInv'
  BY <1>1 DEF PlaceInv, LookupShape, Waiting, Unanswered, OnMap, Started
<1>2. CASE UNCHANGED WeatherVars
  BY <1>1, <1>2 DEF WeatherVars
<1>3. CASE Forecasts!HourPasses
  BY <1>1, <1>3 DEF Forecasts!HourPasses
<1> QED BY <1>2, <1>3, LookupSteps, LocatedStep, AnsweredStep, CollectStep
        DEF Forecasts!WeatherNext

-----------------------------------------------------------------------------
LEMMA PartsInvariance == MCSpec => [](UsageInv /\ PlaceInv)
<1>1. MCInit => UsageInv /\ PlaceInv
  BY UsageBegins, PlaceBegins DEF MCInit
<1>2. UsageInv /\ PlaceInv /\ [MCNext]_MCVars => (UsageInv /\ PlaceInv)'
  <2> SUFFICES ASSUME UsageInv, PlaceInv, [MCNext]_MCVars PROVE (UsageInv /\ PlaceInv)'
    OBVIOUS
  <2>1. [Session!SessionNext]_SessionVars /\ [Forecasts!WeatherNext]_WeatherVars
    BY DEF MCNext, MCVars
  <2> QED BY <2>1, UsageStep, PlaceStep
<1> QED BY <1>1, <1>2, PTL DEF MCSpec

\* Every request that was made of a provider has left its usage row, also one that
\* failed or was cut off, unless the database refused the last attempt (provider.ts,
\* recordUsage).
THEOREM UsageAccountedHolds == MCSpec => []UsageAccounted
<1>1. UsageInv => UsageAccounted
  BY DEF UsageInv, Owing, UsageAccounted, Session!UsageAccounted
<1> QED BY <1>1, PartsInvariance, PTL

\* Callers that ask for one place share one request, and a request that nobody waits
\* for does not stay on the map (weather.ts), for any number of callers and places.
THEOREM OneRequestPerPlaceHolds == MCSpec => []OneRequestPerPlace
<1>1. PlaceInv => OneRequestPerPlace
  <2> SUFFICES ASSUME PlaceInv PROVE Forecasts!OneRequestPerPlace
    BY DEF OneRequestPerPlace
  <2>1. ASSUME NEW c \in Callers, NEW d \in Callers, c # d,
               fetch[c].state = "asked", fetch[d].state = "asked"
        PROVE  lookup[c].place # lookup[d].place
    BY <2>1 DEF PlaceInv, Unanswered
  <2> QED BY <2>1 DEF PlaceInv, OnMap, Forecasts!OneRequestPerPlace
<1> QED BY <1>1, PartsInvariance, PTL
=============================================================================
