--------------------------- MODULE ProviderSession ---------------------------
(***************************************************************************)
(* One wire session with an AI provider, as createTaskSession hands it to  *)
(* the agent run: the two adapters (openai-provider.ts and                 *)
(* openai-compatible-provider.ts under services/api/src/ai) and the usage  *)
(* row that every turn leaves.  The compatible adapter resolves its server *)
(* at the first turn; the other one is open from the start.                *)
(*                                                                         *)
(* Tool calls that were returned stay pending until the next turn answers  *)
(* all of them.  The conversation itself is left out.                      *)
(***************************************************************************)
EXTENDS Integers

CONSTANTS CallIds,      \* ids that the provider gives its tool calls
          ToolNames,    \* tools the run has offered
          MaxSessionTurns  \* bound: turns that the run asks for

VARIABLES wire,    \* the adapter: phase and pending calls
          signal,  \* the run's deadline: "armed" or "aborted"
          turn,    \* the caller: "new", "ready", "waiting", "recording", "gone"
          answer,  \* what became of the turn that is being recorded
          usage    \* requests made, rows written, rows the database refused for good

session == <<wire, signal, turn, answer, usage>>

SessionInit ==
  /\ wire = [phase |-> "none", pending |-> {}]
  /\ signal = "armed" /\ turn = "new" /\ answer = "none"
  /\ usage = [turns |-> 0, rows |-> 0, lost |-> 0]

\* The settings select an adapter; AI that is disabled leaves a usage row although
\* nothing is asked; settings that do not serve the task leave none.
CreateTaskSession ==
  /\ turn = "new"
  /\ \/ /\ wire' \in {[wire EXCEPT !.phase = p] : p \in {"open", "fresh"}}
        /\ turn' = "ready" /\ UNCHANGED <<answer, usage>>
     \/ /\ turn' = "recording" /\ answer' = "AI_DISABLED"
        /\ usage' = [usage EXCEPT !.turns = 1] /\ UNCHANGED wire
     \/ turn' = "gone" /\ UNCHANGED <<wire, answer, usage>>
  /\ UNCHANGED signal

Closed(w) == [w EXCEPT !.phase = "closed"]

\* clear what was pending, put the conversation with its results on the wire
Sent(w) == [w EXCEPT !.phase = "asking", !.pending = {}]

\* next(): refused by a closed session, and by one whose pending calls are not
\* exactly the ones answered
Next_(results) ==
  /\ turn = "ready" /\ usage.turns < MaxSessionTurns
  /\ usage' = [usage EXCEPT !.turns = @ + 1]
  /\ IF wire.phase = "closed" \/ wire.pending # results
       THEN /\ wire' = Closed(wire) /\ turn' = "recording"
            /\ answer' = "AI_RESPONSE_INVALID"
     ELSE /\ wire' = IF wire.phase = "fresh" THEN [wire EXCEPT !.phase = "resolving"]
                     ELSE Sent(wire)
          /\ turn' = "waiting" /\ answer' = "none"
  /\ UNCHANGED signal

\* the compatible adapter's server name was looked up, for this and later turns
Resolved ==
  /\ wire.phase = "resolving" /\ signal = "armed"
  /\ \/ wire' = Sent(wire) /\ UNCHANGED <<turn, answer>>
     \/ /\ wire' = Closed(wire) /\ turn' = "recording"
        /\ answer' \in {"AI_UPSTREAM_ERROR", "AI_ENDPOINT_BLOCKED"}
  /\ UNCHANGED <<signal, usage>>

\* The provider responds: an output or calls of offered tools; anything else, a
\* repeated id or an unknown alias among it, closes the session.
Responds ==
  /\ wire.phase = "asking" /\ signal = "armed"
  /\ turn' = "recording"
  /\ \/ \E ids \in SUBSET CallIds :
          /\ ids # {} => ToolNames # {}
          /\ wire' = [wire EXCEPT !.phase = "open", !.pending = ids]
          /\ answer' = "turn"
     \/ wire' = Closed(wire) /\ answer' \in {"AI_RESPONSE_INVALID", "AI_UPSTREAM_ERROR"}
  /\ UNCHANGED <<signal, usage>>

\* the deadline of the run, or the adapter's own
Abort ==
  /\ signal = "armed" /\ signal' = "aborted"
  /\ UNCHANGED <<wire, turn, answer, usage>>

TurnAborted ==
  /\ wire.phase \in {"resolving", "asking"} /\ signal = "aborted"
  /\ wire' = Closed(wire) /\ turn' = "recording" /\ answer' = "AI_TIMEOUT"
  /\ UNCHANGED <<signal, usage>>

\* Faulty variant: only a turn that was answered leaves a row.
RecordUsageAnswered ==
  /\ turn = "recording"
  /\ usage' = [usage EXCEPT !.rows = @ + (IF answer = "turn" THEN 1 ELSE 0)]
  /\ turn' = (IF answer = "turn" THEN "ready" ELSE "gone") /\ answer' = "none"
  /\ UNCHANGED <<wire, signal>>

\* recordUsage, before the turn goes back to the run.  A good turn whose row is not
\* confirmed fails, and the failure is written as well: the row may be there, its
\* confirmation lost, and then the turn has two.
RecordUsage ==
  /\ turn = "recording"
  /\ \E stored, confirmed \in BOOLEAN :
       /\ confirmed => stored
       /\ usage' = [usage EXCEPT !.rows = @ + (IF stored THEN 1 ELSE 0),
            !.lost = @ + (IF ~stored /\ answer # "turn" THEN 1 ELSE 0)]
       /\ IF answer = "turn" /\ ~confirmed
            THEN turn' = "recording" /\ answer' = "AI_UPSTREAM_ERROR"
          ELSE turn' = (IF answer = "turn" THEN "ready" ELSE "gone") /\ answer' = "none"
  /\ UNCHANGED <<wire, signal>>

\* the run is over with this session, in its finally or before a fresh one
Close ==
  /\ turn \in {"ready", "gone"} /\ wire.phase \notin {"none", "closed"}
  /\ wire' = Closed(wire) /\ turn' = "gone"
  /\ UNCHANGED <<signal, answer, usage>>

SessionNext == \/ CreateTaskSession \/ Resolved \/ Responds \/ Abort \/ TurnAborted
               \/ RecordUsage \/ Close
               \/ \E results \in SUBSET CallIds : Next_(results)

\* Every request that was made leaves a usage row, whatever became of it, unless
\* the database refused the last attempt to write it.
UsageAccounted == turn \in {"ready", "gone"} => usage.rows + usage.lost >= usage.turns

=============================================================================
