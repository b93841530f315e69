---------------------------- MODULE WeatherSource ----------------------------
(***************************************************************************)
(* The weather client that the runs of one process share                   *)
(* (services/api/src/monitor/weather.ts): a place is looked up, then its   *)
(* forecast comes from the cache, from a request that another caller has   *)
(* in flight, or from a request of its own.  The request runs under the    *)
(* deadline of the caller that started it.                                 *)
(***************************************************************************)
EXTENDS Integers, Sequences

CONSTANTS Callers, Places, Nobody,
          MaxCacheEntries,  \* MAX_CACHE_ENTRIES, 256
          MaxTime           \* bound: hours that pass

VARIABLES hour,      \* the clock that Expires is compared with
          cache,     \* entries [place, expires], oldest first
          inFlight,  \* for each place, the caller whose request is under way
          lookup,    \* each caller's forecast()
          fetch      \* the request that a caller started

weather == <<hour, cache, inFlight, lookup, fetch>>

NoFetch == [state |-> "none", cached |-> FALSE]

WeatherInit ==
  /\ hour = 0 /\ cache = <<>>
  /\ inFlight = [p \in Places |-> Nobody]
  /\ lookup = [c \in Callers |-> [pc |-> "idle", place |-> Nobody, on |-> Nobody,
                                  aborted |-> FALSE, result |-> "none"]]
  /\ fetch = [c \in Callers |-> NoFetch]

Cached(p) == {i \in DOMAIN cache : cache[i].place = p}
Fresh(p)  == \E i \in Cached(p) : cache[i].expires > hour

\* Map.set: an entry that exists keeps its position
Stored(entries, p, expires) ==
  IF \E i \in DOMAIN entries : entries[i].place = p
  THEN [i \in DOMAIN entries |-> IF entries[i].place = p
                                   THEN [place |-> p, expires |-> expires] ELSE entries[i]]
  ELSE Append(entries, [place |-> p, expires |-> expires])
\* a new place pushes the oldest entry out of a full cache
Evicted(p) == IF Cached(p) = {} /\ Len(cache) >= MaxCacheEntries THEN Tail(cache) ELSE cache

Ask(c, p) ==
  /\ lookup[c].pc = "idle"
  /\ lookup' = [lookup EXCEPT ![c].pc = "locating", ![c].place = p]
  /\ UNCHANGED <<hour, cache, inFlight, fetch>>

Done(c, result) == [lookup EXCEPT ![c].pc = "done", ![c].result = result]

\* the deadline of a caller, or an abort of the run it works for
Aborts(c) ==
  /\ lookup[c].pc \in {"locating", "waiting"} /\ ~lookup[c].aborted
  /\ lookup' = [lookup EXCEPT ![c].aborted = TRUE]
  /\ UNCHANGED <<hour, cache, inFlight, fetch>>

NotLocated(c) ==
  /\ lookup[c].pc = "locating"
  /\ lookup' = Done(c, IF lookup[c].aborted THEN "timeout" ELSE "location")
  /\ UNCHANGED <<hour, cache, inFlight, fetch>>

\* Joining or starting a request is one step: nothing is awaited between the
\* look at the map and the entry in it.
Located(c) ==
  /\ lookup[c].pc = "locating" /\ ~lookup[c].aborted
  /\ LET p == lookup[c].place
         owner == IF inFlight[p] = Nobody THEN c ELSE inFlight[p]
     IN /\ inFlight' = [inFlight EXCEPT ![p] = owner]
        /\ fetch' = IF owner # c THEN fetch ELSE
             [fetch EXCEPT ![c] = [state |-> IF Fresh(p) THEN "settled" ELSE "asked",
                                   cached |-> Cached(p) # {}]]
        /\ lookup' = [lookup EXCEPT ![c].pc = "waiting", ![c].on = owner]
  /\ UNCHANGED <<hour, cache>>

\* MET answers: a forecast, "not modified" for the entry that was read when the
\* request started, or an error.
Responds(c) ==
  /\ fetch[c].state = "asked" /\ ~lookup[c].aborted
  /\ LET p == lookup[c].place IN
     \/ /\ cache' = Stored(Evicted(p), p, hour + 1)
        /\ fetch' = [fetch EXCEPT ![c].state = "settled"]
     \/ /\ fetch[c].cached
        /\ cache' = Stored(cache, p, hour + 1)
        /\ fetch' = [fetch EXCEPT ![c].state = "settled"]
     \/ fetch' = [fetch EXCEPT ![c].state = "failed"] /\ UNCHANGED cache
  /\ UNCHANGED <<hour, inFlight, lookup>>

FetchAborted(c) ==
  /\ fetch[c].state = "asked" /\ lookup[c].aborted
  /\ fetch' = [fetch EXCEPT ![c].state = "failed"]
  /\ UNCHANGED <<hour, cache, inFlight, lookup>>

\* Faulty variant: only a request that failed comes off the map.
CollectFailed(c) ==
  /\ lookup[c].pc = "waiting" /\ fetch[lookup[c].on].state \in {"settled", "failed"}
  /\ inFlight' = IF fetch[lookup[c].on].state = "failed"
                   THEN [inFlight EXCEPT ![lookup[c].place] = Nobody] ELSE inFlight
  /\ lookup' = Done(c, "forecast")
  /\ UNCHANGED <<hour, cache, fetch>>

\* Whoever resumes first takes the request off the map, unless a later one is
\* there already; a forecast may still lack the day that was asked for.
Collect(c) ==
  /\ lookup[c].pc = "waiting" /\ fetch[lookup[c].on].state \in {"settled", "failed"}
  /\ LET p == lookup[c].place IN
     inFlight' = IF inFlight[p] = lookup[c].on THEN [inFlight EXCEPT ![p] = Nobody]
                 ELSE inFlight
  /\ \E result \in IF fetch[lookup[c].on].state = "failed" THEN {"failed"}
                   ELSE {"forecast", "date"} : lookup' = Done(c, result)
  /\ UNCHANGED <<hour, cache, fetch>>

HourPasses ==
  /\ hour < MaxTime /\ hour' = hour + 1
  /\ UNCHANGED <<cache, inFlight, lookup, fetch>>

WeatherNext ==
  \/ HourPasses
  \/ \E c \in Callers : \/ \E p \in Places : Ask(c, p)
                        \/ Aborts(c) \/ NotLocated(c) \/ Located(c) \/ Responds(c)
                        \/ FetchAborted(c) \/ Collect(c)

\* One request per place: callers that ask for a place while its forecast is being
\* fetched share that request (docs/decisions/0016, "deduplicated"), and a request
\* that nobody waits for any more does not stay on the map to answer later ones.
OneRequestPerPlace ==
  /\ \A c, d \in Callers : c # d /\ fetch[c].state = "asked" /\ fetch[d].state = "asked"
                             => lookup[c].place # lookup[d].place
  /\ \A p \in Places : inFlight[p] # Nobody =>
       \E c \in Callers : lookup[c].pc = "waiting" /\ lookup[c].on = inFlight[p]
=============================================================================
