---------------------------- MODULE DisplayStream ----------------------------
(***************************************************************************)
(* How a display learns that its projection changed: the listener          *)
(* connection and the subscriptions of ProjectionEventFanout               *)
(* (services/api/src/projection-events.ts), the event stream handler of    *)
(* services/api/src/app.ts, and the client that decides whether it may     *)
(* call itself live (apps/web/src/display.tsx, stream-health.ts).          *)
(*                                                                         *)
(* The projection is a version number.  The client's epoch and generation  *)
(* are only compared with the values a request started with, so a request  *)
(* carries two flags instead: fresh (no stream signal since) and valid     *)
(* (the display was not cleared since).                                    *)
(***************************************************************************)
EXTENDS Integers, Sequences, FiniteSets

CONSTANTS
  MaxStreams,   \* SAMVEV_SSE_MAX_PER_DISPLAY
  MaxVersion,   \* bound: changes of the projection
  MaxFaults,    \* bound: connections, requests and checks that fail
  MaxQueue      \* bound: events of one stream that are under way

ASSUME StreamBounds ==
  /\ MaxStreams \in Nat \ {0} /\ MaxVersion \in Nat \ {0}
  /\ MaxFaults \in Nat /\ MaxQueue \in Nat \ {0}

VARIABLES
  version,   \* the display's projection in the database, and the credential
  listener,  \* the fan-out's connection to PostgreSQL
  stream,    \* event stream requests, as the API knows them
  client,    \* the display's page
  faults     \* faults so far

vars == <<version, listener, stream, client, faults>>

\* Each fault costs the client at most one stream.
Streams == 1..(MaxFaults + 1)
None == 0
Shut == -1     \* an EventSource that does not reconnect by itself

Signals == {"ready", "ready-degraded", "heartbeat", "heartbeat-degraded",
            "degraded", "restored", "invalidated", "revoked"}

\* listener: "none", "connecting", "listening" (LISTEN sent) or "up"; a timer for
\* the next connection, a failure nobody noticed yet, a notification under way.
\* stream: "new", "auth", "open" or "over"; dead for the client, closed for the
\* API.  client: the projection shown and the one its request read (0 for none),
\* what it says of itself, its EventSource, and its request: "none", "sent",
\* "read" or "denied"; fresh: no signal came since it was sent, valid: the
\* credential was not dropped since, again: another one was asked for.
NewStream == [phase |-> "new", subscribed |-> FALSE, dead |-> FALSE,
              closed |-> FALSE, unchecked |-> FALSE, queue |-> <<>>]

\* A paired display opens its page; the API is connecting its listener.
Init ==
  /\ version = [number |-> 1, revoked |-> FALSE]
  /\ listener = [phase |-> "connecting", timer |-> FALSE, broken |-> FALSE,
                 pending |-> FALSE]
  /\ stream = [s \in Streams |-> NewStream]
  /\ client = [shown |-> 0, online |-> FALSE, net |-> TRUE,
               phase |-> "disconnected", needsPair |-> FALSE, source |-> None,
               request |-> "sent", seen |-> 0, fresh |-> TRUE, valid |-> TRUE,
               again |-> FALSE]
  /\ faults = 0

Fault == faults < MaxFaults /\ faults' = faults + 1

-----------------------------------------------------------------------------
(* The client: refresh and stream signals *)

Started(c) == [c EXCEPT !.request = "sent", !.seen = 0, !.fresh = TRUE,
                        !.valid = TRUE, !.again = FALSE]

\* Faulty variant: a refresh that meets a running request is dropped.
RefreshDropped(c) == IF c.request = "none" THEN Started(c) ELSE c

Refresh(c) == IF c.request = "none" THEN Started(c) ELSE [c EXCEPT !.again = TRUE]

\* The end of refresh: a request that was asked for meanwhile starts at once.
Finished(c) == IF c.again THEN Started(c)
               ELSE [c EXCEPT !.request = "none", !.seen = 0]

\* streamSignal; every case but the healthy heartbeat starts a new epoch.
Turn(c, phase) == [c EXCEPT !.phase = phase, !.fresh = FALSE]

\* clear: the credential was refused.
Cleared(c) ==
  [Turn(c, "disconnected") EXCEPT !.shown = 0, !.online = FALSE,
     !.needsPair = TRUE, !.source = None, !.valid = FALSE]

Signalled(c, event) ==
  CASE event \in {"ready", "restored"} -> Refresh(Turn(c, "refreshing"))
    [] event = "ready-degraded"        -> Refresh(Turn(c, "degraded"))
    [] event \in {"degraded", "heartbeat-degraded"} -> Turn(c, "degraded")
    [] event = "heartbeat"             -> c
    [] event = "invalidated"           -> Refresh(c)
    [] event = "revoked"               -> Cleared(c)

\* The stream a client leaves is dead, and what is under way on it is lost.
Abandoned(s) == [s EXCEPT !.dead = TRUE, !.queue = <<>>]
Left == IF client.source \in Streams
        THEN [stream EXCEPT ![client.source] = Abandoned(@)] ELSE stream

\* The effect that opens an EventSource, and the browser's reconnection.
OpenSource(s) ==
  /\ client.source = None /\ client.shown # 0 /\ client.net
  /\ stream[s].phase = "new" /\ \A r \in Streams : r < s => stream[r].phase # "new"
  /\ client' = [client EXCEPT !.source = s]
  /\ stream' = [stream EXCEPT ![s].phase = "auth"]
  /\ UNCHANGED <<version, listener, faults>>

Deliver(s) ==
  LET event == Head(stream[s].queue)
  IN  /\ client.source = s /\ stream[s].queue # <<>>
      /\ client' = Signalled(client, event)
      /\ stream' = IF event = "revoked" THEN [stream EXCEPT ![s] = Abandoned(@)]
                   ELSE [stream EXCEPT ![s].queue = Tail(@)]
      /\ UNCHANGED <<version, listener, faults>>

\* onerror after a lost connection.
StreamError(s) ==
  /\ client.source = s /\ stream[s].dead
  /\ client' = Refresh([Turn(client, "disconnected") EXCEPT !.source = None])
  /\ UNCHANGED <<version, listener, stream, faults>>

\* onerror after a status other than 200.
Refused(c) == Refresh([Turn(c, "disconnected") EXCEPT !.source = Shut])

Poll ==
  /\ client.net
  /\ client' = Refresh(client)
  /\ UNCHANGED <<version, listener, stream, faults>>

-----------------------------------------------------------------------------
(* The client: the projection request *)

ReadProjection ==
  /\ client.request = "sent" /\ client.net
  /\ client' = IF version.revoked THEN [client EXCEPT !.request = "denied"]
               ELSE [client EXCEPT !.request = "read", !.seen = version.number]
  /\ UNCHANGED <<version, listener, stream, faults>>

\* projectionRecovered.
Recovered(c) == IF c.phase = "refreshing" /\ c.fresh THEN "live" ELSE c.phase

Receive ==
  /\ client.request = "read" /\ client.net
  /\ client' = Finished(
       IF ~client.valid THEN client
       ELSE [client EXCEPT !.shown = client.seen, !.phase = Recovered(client),
                           !.online = TRUE, !.needsPair = FALSE])
  /\ UNCHANGED <<version, listener, stream, faults>>

\* Faulty variant: a refused credential is taken for a lost connection.
DeniedAsOffline(c) == IF ~c.valid THEN c ELSE [c EXCEPT !.online = FALSE]

Denied(c) == IF ~c.valid THEN c ELSE Cleared(c)

ReceiveDenied ==
  /\ client.request = "denied" /\ client.net
  /\ client' = Finished(Denied(client))
  /\ stream' = IF Denied(client).source = None THEN Left ELSE stream
  /\ UNCHANGED <<version, listener, faults>>

RequestFails ==
  /\ client.request # "none"
  /\ IF client.net THEN Fault ELSE UNCHANGED faults
  /\ client' = Finished(IF ~client.valid THEN client
                        ELSE [client EXCEPT !.online = FALSE])
  /\ UNCHANGED <<version, listener, stream>>

-----------------------------------------------------------------------------
(* The client: losing the network and the cache *)

GoOffline ==
  /\ client.net /\ Fault
  /\ client' = [Turn(client, "disconnected") EXCEPT !.net = FALSE,
       !.online = FALSE,
       !.source = IF client.needsPair \/ client.shown = 0 THEN None ELSE Shut]
  /\ stream' = Left
  /\ UNCHANGED <<version, listener>>

GoOnline ==
  /\ ~client.net
  /\ client' = Refresh([Turn(client, "disconnected") EXCEPT !.net = TRUE,
                                                            !.source = None])
  /\ UNCHANGED <<version, listener, stream, faults>>

\* No answer for fifteen minutes.
CacheExpires ==
  /\ client.shown # 0 /\ Fault
  /\ client' = [Turn(client, "disconnected") EXCEPT !.shown = 0,
                  !.online = FALSE, !.source = None]
  /\ stream' = Left
  /\ UNCHANGED <<version, listener>>

-----------------------------------------------------------------------------
(* The API: event stream handlers *)

Send(s, events) ==
  IF s.dead THEN s ELSE [s EXCEPT !.queue = @ \o events]
Room == \A s \in Streams : Len(stream[s].queue) < MaxQueue
Broadcast(event) ==
  [s \in Streams |-> IF stream[s].subscribed THEN Send(stream[s], <<event>>)
                     ELSE stream[s]]

Up == listener.phase = "up"
Subscribed == {s \in Streams : stream[s].subscribed}

\* The listener that a subscription asks for, unless one is there or coming.
Ensured(l) == IF l.phase = "none" THEN [l EXCEPT !.phase = "connecting"] ELSE l

\* The handler after displayAuth, whether or not the request is still there.
Subscribe(s) ==
  /\ stream[s].phase = "auth" /\ ~version.revoked
  /\ Cardinality(Subscribed) < MaxStreams
  /\ stream' = [stream EXCEPT ![s] = Send(
       [@ EXCEPT !.phase = "open", !.subscribed = TRUE],
       IF Up THEN <<"ready">> ELSE <<"ready-degraded", "degraded">>)]
  /\ listener' = Ensured(listener)
  /\ UNCHANGED <<version, client, faults>>

\* 429, 401, or 500 when the database does not answer.
Refusal(s) ==
  /\ stream[s].phase = "auth"
  /\ stream' = [stream EXCEPT ![s] = [@ EXCEPT !.phase = "over", !.queue = <<>>]]
  /\ client' = IF client.source = s /\ ~stream[s].dead THEN Refused(client)
               ELSE client
  /\ UNCHANGED <<version, listener>>

RefuseStream(s) ==
  /\ Cardinality(Subscribed) >= MaxStreams \/ version.revoked
  /\ Refusal(s)
  /\ UNCHANGED faults

FailStream(s) == Fault /\ Refusal(s)

\* The close event, which only an open stream waits for.
Close(s) ==
  /\ stream[s].dead /\ ~stream[s].closed
  /\ stream' = [stream EXCEPT ![s] =
       IF @.phase = "open" THEN [@ EXCEPT !.closed = TRUE, !.subscribed = FALSE,
                                          !.phase = "over"]
       ELSE [@ EXCEPT !.closed = TRUE]]
  /\ UNCHANGED <<version, listener, client, faults>>

\* The timer of a stream: the credential is checked again.  (A stream whose
\* connection is gone has no reader for what the timer writes.)
Checks(s) == /\ stream[s].subscribed /\ ~stream[s].dead
             /\ stream[s].queue = <<>>

Revalidate(s) ==
  /\ Checks(s)
  /\ stream' = [stream EXCEPT ![s] =
       IF version.revoked THEN Send(@, <<"revoked">>)
       ELSE Send([@ EXCEPT !.unchecked = FALSE],
              (IF @.unchecked /\ Up THEN <<"restored">> ELSE <<>>)
                \o IF Up THEN <<"heartbeat">> ELSE <<"heartbeat-degraded">>)]
  /\ UNCHANGED <<version, listener, client, faults>>

\* The database does not answer.  Only the first failure is told.
RevalidateFails(s) ==
  /\ Checks(s) /\ ~stream[s].unchecked /\ Fault
  /\ stream' = [stream EXCEPT ![s] = Send([@ EXCEPT !.unchecked = TRUE],
                                         <<"degraded">>)]
  /\ UNCHANGED <<version, listener, client>>

Drop(s) ==
  /\ stream[s].phase \in {"auth", "open"} /\ ~stream[s].dead /\ Fault
  /\ stream' = [stream EXCEPT ![s] = Abandoned(@)]
  /\ UNCHANGED <<version, listener, client>>

-----------------------------------------------------------------------------
(* The API: the listener connection *)

ListenerStep(l) ==
  /\ listener' = l
  /\ UNCHANGED <<version, client>>

Listen ==
  /\ listener.phase = "connecting"
  /\ ListenerStep([listener EXCEPT !.phase = "listening"])
  /\ UNCHANGED <<stream, faults>>

\* Faulty variant: a listener that comes back is not announced.
ListenerUpSilent ==
  /\ listener.phase = "listening" /\ Room
  /\ ListenerStep([listener EXCEPT !.phase = "up"])
  /\ UNCHANGED <<stream, faults>>

\* Notifications before this step found no handler.
ListenerUp ==
  /\ listener.phase = "listening" /\ Room
  /\ ListenerStep([listener EXCEPT !.phase = "up"])
  /\ stream' = Broadcast("restored")
  /\ UNCHANGED faults

ConnectFails ==
  /\ listener.phase \in {"connecting", "listening"} /\ Fault
  /\ ListenerStep([listener EXCEPT !.phase = "none", !.timer = TRUE])
  /\ UNCHANGED stream

Break ==
  /\ Up /\ ~listener.broken /\ Fault
  /\ ListenerStep([listener EXCEPT !.broken = TRUE, !.pending = FALSE])
  /\ UNCHANGED stream

ListenerFailed ==
  /\ Up /\ listener.broken /\ Room
  /\ ListenerStep([listener EXCEPT !.phase = "none", !.broken = FALSE,
                                   !.timer = TRUE])
  /\ stream' = Broadcast("degraded")
  /\ UNCHANGED faults

Reconnect ==
  /\ listener.timer
  /\ ListenerStep([Ensured(listener) EXCEPT !.timer = FALSE])
  /\ UNCHANGED <<stream, faults>>

Notify ==
  /\ Up /\ listener.pending /\ Room
  /\ ListenerStep([listener EXCEPT !.pending = FALSE])
  /\ stream' = Broadcast("invalidated")
  /\ UNCHANGED faults

-----------------------------------------------------------------------------
(* Changes in the database, each of which a trigger announces *)

Announced(l) == IF Up /\ ~l.broken THEN [l EXCEPT !.pending = TRUE] ELSE l

Change ==
  /\ version.number < MaxVersion /\ ~version.revoked
  /\ version' = [version EXCEPT !.number = @ + 1]
  /\ listener' = Announced(listener)
  /\ UNCHANGED <<stream, client, faults>>

Revoke ==
  /\ ~version.revoked
  /\ version' = [version EXCEPT !.revoked = TRUE]
  /\ listener' = Announced(listener)
  /\ UNCHANGED <<stream, client, faults>>

-----------------------------------------------------------------------------
ClientNext ==
  \/ Poll \/ ReadProjection \/ Receive \/ ReceiveDenied \/ RequestFails
  \/ GoOffline \/ GoOnline \/ CacheExpires
  \/ \E s \in Streams : OpenSource(s) \/ Deliver(s) \/ StreamError(s)

ApiNext ==
  \/ \E s \in Streams : \/ Subscribe(s) \/ RefuseStream(s) \/ FailStream(s)
                        \/ Close(s) \/ Drop(s)
                        \/ Revalidate(s) \/ RevalidateFails(s)
  \/ Listen \/ ListenerUp \/ ConnectFails \/ Break \/ ListenerFailed
  \/ Reconnect \/ Notify

Next == ClientNext \/ ApiNext \/ Change \/ Revoke

Spec == Init /\ [][Next]_vars

(***************************************************************************)
(* Timers fire, handlers go on, what is sent arrives unless its connection *)
(* fails, and the network comes back.  Faults are never required.          *)
(***************************************************************************)
FairSpec ==
  /\ Spec
  /\ WF_vars(Poll) /\ WF_vars(ReadProjection) /\ WF_vars(Receive)
  /\ WF_vars(ReceiveDenied) /\ WF_vars(GoOnline)
  /\ WF_vars(~client.net /\ RequestFails)
  /\ \A s \in Streams :
       /\ WF_vars(OpenSource(s)) /\ WF_vars(Deliver(s)) /\ WF_vars(StreamError(s))
       /\ WF_vars(Subscribe(s)) /\ WF_vars(RefuseStream(s))
       /\ WF_vars(Close(s)) /\ WF_vars(Revalidate(s))
  /\ WF_vars(Listen) /\ SF_vars(ListenerUp) /\ SF_vars(ListenerFailed)
  /\ WF_vars(Reconnect) /\ SF_vars(Notify)

-----------------------------------------------------------------------------
(* Properties *)

\* What the page shows as "live".
IsLive == client.online /\ client.phase = "live"

\* The client has a stream that can still bring it a signal.
OnStream(Kinds) ==
  /\ client.source \in Streams
  /\ \/ stream[client.source].dead
     \/ \E i \in 1..Len(stream[client.source].queue) :
          stream[client.source].queue[i] \in Kinds

LiveIsCurrent ==
  IsLive /\ client.shown # version.number =>
    \/ client.request \in {"sent", "denied"} \/ client.again
    \/ client.request = "read" /\ client.seen = version.number
    \/ OnStream(Signals \ {"heartbeat"})
    \/ Up /\ (listener.broken \/ listener.pending)

LiveIsTruthful ==
  client.phase = "live" => Up \/ OnStream({"degraded", "heartbeat-degraded"})

(***************************************************************************)
(* What a screen shows is true.  A display that calls itself live and      *)
(* shows an old projection will hear of it: a notification, a signal or a  *)
(* request that reads the new one is under way, or a connection was lost   *)
(* and nobody noticed yet; no change falls between two requests, two       *)
(* streams or two listeners.  It only calls itself live while the API has  *)
(* its listener, or the news that it lost it is under way.  And a display  *)
(* that dropped its credential shows nothing, however late the answer to a *)
(* request from before.                                                    *)
(***************************************************************************)
ScreenTruthful ==
  LiveIsCurrent /\ LiveIsTruthful /\ (client.needsPair => client.shown = 0)

\* A revoked display ends up empty, with its stream and without.
RevokedCleared == version.revoked ~> client.needsPair /\ client.shown = 0

\* Once faults cease, a display shows the current projection, also when its
\* stream was refused for good, and is live again unless it was.
EventuallyCurrent ==
  <>[](version.revoked
       \/ /\ client.online /\ client.shown = version.number
          /\ client.source # Shut => IsLive)

\* The API gives the slot of a stream back after its connection closed.
SlotsReleased ==
  \A s \in Streams : stream[s].subscribed /\ stream[s].closed ~> ~stream[s].subscribed
=============================================================================
