---------------------------- MODULE MCAgentRuns ----------------------------
(***************************************************************************)
(* AI requests for model checking: the agent run, the session with its     *)
(* provider and the weather client that all runs share.  Their interfaces  *)
(* are the outcomes that MonitorAgent allows a turn and a forecast, so a   *)
(* behaviour moves one of them.                                            *)
(***************************************************************************)
EXTENDS MCMonitorAgent

CONSTANTS CallIds, ToolNames, MaxSessionTurns,
          Callers, Places, Nobody, MaxCacheEntries, MaxTime

\* no request under way for a place
ASSUME NobodyIsApart == Nobody \notin Callers

VARIABLES part, wire, signal, turn, answer, usage, hour, cache, inFlight, lookup, fetch

Session   == INSTANCE ProviderSession
Forecasts == INSTANCE WeatherSource

SessionVars == <<wire, signal, turn, answer, usage>>
WeatherVars == <<hour, cache, inFlight, lookup, fetch>>

MCInit == /\ part \in {"agent", "session", "weather"} /\ (part # "agent" => settings = own)
          /\ Init /\ Session!SessionInit /\ Forecasts!WeatherInit

MCNext ==
  /\ UNCHANGED part
  /\ \/ part = "agent" /\ Next /\ UNCHANGED <<SessionVars, WeatherVars>>
     \/ part = "session" /\ Session!SessionNext /\ UNCHANGED <<vars, WeatherVars>>
     \/ part = "weather" /\ Forecasts!WeatherNext /\ UNCHANGED <<vars, SessionVars>>

MCVars == <<part, vars, SessionVars, WeatherVars>>

\* the fairness of Spec: nothing of the agent is enabled in the other parts
MCSpec == MCInit /\ [][MCNext]_MCVars /\ WF_vars(part = "agent" /\ Proceed)
            /\ WF_vars(part = "agent" /\ Tick)

UsageAccounted     == Session!UsageAccounted
OneRequestPerPlace == Forecasts!OneRequestPerPlace
=============================================================================
