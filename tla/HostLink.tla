------------------------------ MODULE HostLink ------------------------------
(***************************************************************************)
(* The daemon's life from start to stop and the one connection it keeps:   *)
(* HostRuntime and runHost, the tunnel WsCloudConnection with the          *)
(* questions it carries, the external Postgres provider whose retry loop   *)
(* runs behind both, and the queue through which all of them rewrite       *)
(* status.json.  Every piece is an asynchronous callback of one process:   *)
(* what a handler checked before an await may no longer hold after it.     *)
(*                                                                         *)
(* The hub and the network are external: sockets drop, a greeting is       *)
(* answered, refused, or answered in an unknown protocol version, and a    *)
(* question may never be answered at all.                                  *)
(***************************************************************************)
EXTENDS Naturals, Sequences, FiniteSets

CONSTANTS
    MaxDials,     \* sockets one boot opens
    MaxQueries,   \* questions asked of the hub
    InFlight,     \* MAX_IN_FLIGHT_QUERIES
    MaxAttempts,  \* Postgres attempts after the first
    LoadFails,    \* may credentials.json be unreadable at a dial?
    FirstDrops    \* may the first socket close before its greeting is answered?

ASSUME HostLinkAssumption ==
    /\ MaxDials \in Nat \ {0} /\ MaxQueries \in Nat /\ InFlight \in Nat \ {0}
    /\ MaxAttempts \in Nat /\ LoadFails \in BOOLEAN /\ FirstDrops \in BOOLEAN

Dials == 1..MaxDials
Queries == 1..MaxQueries

VARIABLES
    host,       \* how far runHost and HostRuntime have come
    signalled,  \* a SIGTERM or SIGINT arrived
    modules,    \* the supervised modules
    link,       \* the fields of WsCloudConnection
    dial,       \* every socket: its readyState, greeting and handler
    beats,      \* heartbeat intervals: the referenced one and lost ones
    asked,      \* FortressQueryRegistry and what became of each question
    posture,    \* runtime/routing-posture.json
    pg,         \* the external Postgres provider
    queue,      \* writes waiting in statusQueue, by who asked
    status      \* status.json

vars == <<host, signalled, modules, link, dial, beats, asked, posture, pg,
          queue, status>>
linkVars == <<link, dial, beats, asked, posture>>
hostVars == <<host, signalled, modules>>
statusVars == <<queue, status>>

\* The state HostRuntime reports while runHost is at a given point.
HostState(pc) ==
    CASE pc \in {"boot", "postgres", "opening", "aborting"} -> "starting"
      [] pc = "running" -> "running"
      [] pc = "failed" -> "failed"
      [] pc \in {"draining", "closing"} -> "draining"
      [] pc \in {"final", "done"} -> "stopped"

\* What of the snapshot is told apart: the lifecycle and the provider's phase.
Snapshot == [host |-> HostState(host), postgres |-> pg.phase]

HostPhase == {"boot", "postgres", "opening", "running", "aborting", "failed",
              "draining", "closing", "final", "done"}
ModuleState == {"stopped", "running", "failed"}
Connection == [state : {"offline", "connecting", "connected", "closing"},
               stopped : BOOLEAN, ws : 0..MaxDials, timer : BOOLEAN,
               token : BOOLEAN, cred : BOOLEAN,
               opened : {"no", "pending", "ok", "failed"},
               closed : {"no", "pending", "resolved"}]
Socket == [sock : {"unused", "loading", "connecting", "open", "closing",
                   "closed", "abandoned"},
           greet : {"no", "identity", "sent", "answered"},
           handler : {"none", "welcome", "enrolled", "saving"}]
Question == {"idle", "pending", "answered", "unavailable"}
RoutingPosture == {"never-fetched", "data", "unavailable"}
Provider == [phase : {"initializing", "retrying", "ready"}, busy : BOOLEAN,
             timer : BOOLEAN, stopped : BOOLEAN, attempts : 0..(MaxAttempts + 1)]

TypeOK ==
    /\ host \in HostPhase /\ signalled \in BOOLEAN /\ modules \in ModuleState
    /\ link \in Connection /\ dial \in [Dials -> Socket]
    /\ beats \in [cur : 0..MaxDials, lost : SUBSET Dials]
    /\ asked \in [Queries -> Question] /\ posture \in RoutingPosture
    /\ pg \in Provider
    /\ queue \in Seq({"host", "postgres", "heartbeat"})

Init ==
    /\ host = "boot" /\ signalled = FALSE /\ modules = "stopped"
    /\ \E token, cred \in BOOLEAN :
         link = [state |-> "offline", stopped |-> FALSE, ws |-> 0, timer |-> FALSE,
                 token |-> token, cred |-> cred, opened |-> "no", closed |-> "no"]
    /\ dial = [d \in Dials |->
                 [sock |-> "unused", greet |-> "no", handler |-> "none"]]
    /\ beats = [cur |-> 0, lost |-> {}]
    /\ asked = [q \in Queries |-> "idle"]
    /\ posture = "never-fetched"
    /\ pg = [phase |-> "initializing", busy |-> FALSE, timer |-> FALSE,
             stopped |-> FALSE, attempts |-> 0]
    /\ queue = <<"host">>
    /\ status = [host |-> "stopped", postgres |-> "initializing"]

-----------------------------------------------------------------------------
(* status.json                                                             *)

\* HostRuntime.writeStatus: chained behind every write already asked for.
WriteStatus(who) == queue' = Append(queue, who)

\* The write the lifecycle is awaiting has settled.
Written == \A i \in 1..Len(queue) : queue[i] # "host"

\* writeStatusNow: the snapshot is of its own turn, not of when it was asked
\* for.  It lands before the next write starts, or fails and is only logged.
WriteStatusNow ==
    /\ queue # <<>>
    /\ status' \in {status, Snapshot}
    /\ queue' = Tail(queue)
    /\ UNCHANGED <<hostVars, linkVars, pg>>

\* HostRuntime.startHeartbeat: only while running, cleared by the stop.
StatusHeartbeat ==
    /\ host = "running" /\ queue = <<>>
    /\ WriteStatus("heartbeat")
    /\ UNCHANGED <<hostVars, linkVars, pg, status>>

-----------------------------------------------------------------------------
(* The external Postgres provider                                          *)

EmitsAlways == TRUE
\* setPhase: nothing is emitted once the provider is stopped.
Emits == ~pg.stopped

\* runAttempt's end: probe and migrations within their deadline, or a retry.
PostgresAttempt(ok) ==
    /\ pg.busy
    /\ pg' = [pg EXCEPT !.phase = IF ok THEN "ready" ELSE "retrying",
                        !.busy = FALSE,
                        !.timer = ~ok /\ ~pg.stopped /\ pg.attempts <= MaxAttempts]
    /\ IF Emits THEN WriteStatus("postgres") ELSE UNCHANGED queue
    /\ UNCHANGED <<hostVars, linkVars, status>>

\* scheduleRetry's timer fires.
PostgresRetry ==
    /\ pg.timer
    /\ pg' = [pg EXCEPT !.timer = FALSE, !.busy = TRUE, !.attempts = @ + 1]
    /\ UNCHANGED <<hostVars, linkVars, statusVars>>

-----------------------------------------------------------------------------
(* The tunnel                                                              *)

\* FortressQueryRegistry.drain: every open question is answered "unavailable".
Drained == [q \in Queries |-> IF asked[q] = "pending" THEN "unavailable" ELSE asked[q]]

\* refreshPosture records what its own question (the first) came to; the
\* others are the audit witness's.
PostureAfter(outcomes) ==
    IF 1 \notin Queries \/ outcomes[1] = asked[1] \/ outcomes[1] = "pending"
    THEN posture
    ELSE IF outcomes[1] = "answered" THEN "data" ELSE "unavailable"
Drain == asked' = Drained /\ posture' = PostureAfter(Drained)

Live(d) == dial[d].sock \in {"connecting", "open"}

\* settle: only the promise of open() is anyone's, and only its first dial's.
Settled(l, d, outcome) ==
    IF d = 1 /\ l.opened = "pending" THEN [l EXCEPT !.opened = outcome] ELSE l

\* dial(): refused outright once stopped, otherwise it reads the credential.
NextDial(l) ==
    IF l.stopped
    THEN /\ link' = [l EXCEPT !.state = "offline"]
         /\ UNCHANGED dial
    ELSE \E d \in Dials :
           /\ dial[d].sock = "unused" /\ \A e \in 1..(d - 1) : dial[e].sock # "unused"
           /\ dial' = [dial EXCEPT ![d].sock = "loading"]
           /\ link' = l

StillWantedAlways == TRUE
\* close() may have landed during the load: the second look at `stopped`.
StillWanted == ~link.stopped

\* The credential is loaded: the socket is opened, or the dial ends there.
CredentialLoaded(d) ==
    /\ dial[d].sock = "loading"
    /\ \E readable \in {TRUE, ~LoadFails} :
         IF readable /\ (link.cred \/ link.token) /\ StillWanted
         THEN /\ dial' = [dial EXCEPT ![d].sock = "connecting"]
              /\ link' = [link EXCEPT !.ws = d]
         ELSE /\ dial' = [dial EXCEPT ![d].sock = "abandoned"]
              /\ link' = IF readable /\ (link.cred \/ link.token)
                         THEN [link EXCEPT !.state = "offline"]
                         ELSE Settled([link EXCEPT !.state = "offline"], d, "failed")
    /\ UNCHANGED <<hostVars, beats, asked, posture, pg, statusVars>>

\* The "open" event: the greeting waits for the identity to be composed.
SocketOpen(d) ==
    /\ dial[d].sock = "connecting"
    /\ dial' = [dial EXCEPT ![d].sock = "open", ![d].greet = "identity"]
    /\ UNCHANGED <<hostVars, link, beats, asked, posture, pg, statusVars>>

\* The identity (or its degraded form) is there: the greeting goes out if the
\* socket is still open, and the heartbeat starts either way.
Greet(d) ==
    /\ dial[d].greet = "identity"
    /\ dial' = [dial EXCEPT ![d].greet =
                   IF dial[d].sock = "open" /\ (link.token \/ link.cred)
                   THEN "sent" ELSE "answered"]
    /\ beats' = [cur |-> d,
                 lost |-> IF beats.cur = 0 THEN beats.lost ELSE beats.lost \cup {beats.cur}]
    /\ UNCHANGED <<hostVars, link, asked, posture, pg, statusVars>>

Greeted(d) == dial[d].sock = "open" /\ dial[d].greet = "sent"

\* The hub answers the greeting.
HubAnswer(d) ==
    /\ Greeted(d)
    /\ dial' = [dial EXCEPT ![d].greet = "answered",
                            ![d].handler = IF link.token THEN "enrolled" ELSE "welcome"]
    /\ UNCHANGED <<hostVars, link, beats, asked, posture, pg, statusVars>>

\* A fatal frame, or an answer in an unknown protocol version, stops the
\* connection for good.
HubRefuse(d) ==
    /\ Greeted(d)
    /\ link' = Settled([link EXCEPT !.stopped = TRUE], d, "failed")
    /\ dial' = [dial EXCEPT ![d].greet = "answered", ![link.ws].sock = "closing"]
    /\ UNCHANGED <<hostVars, beats, asked, posture, pg, statusVars>>

\* The signing key is persisted and the handler goes on, whatever became of
\* its socket meanwhile.  A welcome ends here.
KeyPersisted(d) ==
    /\ dial[d].handler \in {"welcome", "enrolled"}
    /\ IF dial[d].handler = "enrolled"
       THEN /\ dial' = [dial EXCEPT ![d].handler = "saving"]
            /\ link' = [link EXCEPT !.token = FALSE]
       ELSE /\ dial' = [dial EXCEPT ![d].handler = "none"]
            /\ link' = Settled([link EXCEPT !.state = "connected"], d, "ok")
    /\ UNCHANGED <<hostVars, beats, asked, posture, pg, statusVars>>

\* The rest of "enrolled": the credential is saved, or the failure logged, and
\* onEnrolled clears the token on disk.
CredentialSaved(d) ==
    /\ dial[d].handler = "saving"
    /\ dial' = [dial EXCEPT ![d].handler = "none"]
    /\ \E saved \in {TRUE, ~LoadFails} :
         link' = Settled([link EXCEPT !.state = "connected", !.cred = @ \/ saved], d, "ok")
    /\ UNCHANGED <<hostVars, beats, asked, posture, pg, statusVars>>

RearmsFirst(d) == link.opened = "pending"
\* The "close" event's reconnect timer.
Rearms(d) == TRUE

\* The "close" event: the socket was dropped, refused, or closed by us.
SocketClosed(d) ==
    /\ Live(d) \/ dial[d].sock = "closing"
    /\ FirstDrops \/ d > 1 \/ link.opened # "pending" \/ dial[d].sock = "closing"
    /\ d < MaxDials \/ link.stopped
    /\ dial' = [dial EXCEPT ![d].sock = "closed"]
    /\ beats' = [beats EXCEPT !.cur = 0]
    /\ Drain
    /\ link' = IF link.stopped
               THEN Settled([link EXCEPT !.state = "offline",
                                !.closed = IF @ = "pending" THEN "resolved" ELSE @],
                            d, "failed")
               ELSE [link EXCEPT !.state = "connecting", !.timer = Rearms(d)]
    /\ UNCHANGED <<hostVars, pg, statusVars>>

Reconnect ==
    /\ link.timer
    /\ NextDial([link EXCEPT !.timer = FALSE])
    /\ UNCHANGED <<hostVars, beats, asked, posture, pg, statusVars>>

\* WsCloudConnection.close: l is the connection, ds its sockets afterwards.
Closing(after) ==
    LET open == link.ws # 0 /\ Live(link.ws)
    IN  /\ link' = [link EXCEPT !.stopped = TRUE, !.timer = FALSE,
                                !.state = IF open THEN "closing" ELSE "offline",
                                !.closed = IF open THEN "pending" ELSE "resolved"]
        /\ dial' = IF open THEN [dial EXCEPT ![link.ws].sock = "closing"] ELSE dial
        /\ beats' = [beats EXCEPT !.cur = 0]
        /\ Drain
        /\ host' = after

-----------------------------------------------------------------------------
(* Questions                                                               *)

Pending == {q \in Queries : asked[q] = "pending"}

\* request(): refreshPosture and the audit witness ask when there is a socket;
\* with none, or with the registry full, the answer is "unavailable" at once.
Ask(q) ==
    /\ asked[q] = "idle" /\ host \in {"running", "draining", "closing"}
    /\ asked' = [asked EXCEPT ![q] =
                   IF link.ws # 0 /\ dial[link.ws].sock = "open"
                      /\ Cardinality(Pending) < InFlight
                   THEN "pending" ELSE "unavailable"]
    /\ posture' = PostureAfter(asked')
    /\ UNCHANGED <<hostVars, link, dial, beats, pg, statusVars>>

\* The hub's answer, delivered by its id.
HubReply(q) ==
    /\ asked[q] = "pending" /\ \E d \in Dials : dial[d].sock = "open"
    /\ \E outcome \in {"answered", "unavailable"} :
         asked' = [asked EXCEPT ![q] = outcome]
    /\ posture' = PostureAfter(asked')
    /\ UNCHANGED <<hostVars, link, dial, beats, pg, statusVars>>

TimedOutOffline(q) == asked[q] = "pending" /\ link.state # "connected"
\* The timer of one question: an old hub says nothing, so this is what ends it.
TimedOut(q) == asked[q] = "pending"
QueryTimeout(q) ==
    /\ TimedOut(q)
    /\ asked' = [asked EXCEPT ![q] = "unavailable"]
    /\ posture' = PostureAfter(asked')
    /\ UNCHANGED <<hostVars, link, dial, beats, pg, statusVars>>

-----------------------------------------------------------------------------
(* HostRuntime and runHost                                                 *)

\* After the first status write the configuration is loaded and Postgres
\* started; an unreadable configuration ends the start.
StartPostgres ==
    /\ host = "boot" /\ Written
    /\ \/ host' = "postgres" /\ pg' = [pg EXCEPT !.busy = TRUE, !.attempts = 1]
       \/ host' = "aborting" /\ UNCHANGED pg
    /\ UNCHANGED <<signalled, modules, linkVars, statusVars>>

\* start() of the provider returns after the first attempt, either way.
OpenLink ==
    /\ host = "postgres" /\ pg.phase # "initializing"
    /\ host' = "opening"
    /\ NextDial([link EXCEPT !.state = "connecting", !.stopped = FALSE,
                             !.opened = "pending"])
    /\ UNCHANGED <<signalled, modules, beats, asked, posture, pg, statusVars>>

\* startAll: a module that fails to start is recorded, not fatal.
StartAll == {"running", "failed"}

\* stopAll: only what runs is stopped; a failing stop is recorded.
StopAll == IF modules = "running" THEN {"stopped", "failed"} ELSE {modules}

\* open() settled: the modules are started with the identity just learnt, or
\* the start fails.
LinkOpened ==
    /\ host = "opening" /\ link.opened = "ok"
    /\ host' = "running"
    /\ modules' \in StartAll
    /\ WriteStatus("host")
    /\ UNCHANGED <<signalled, linkVars, pg, status>>

LinkRefused ==
    /\ host = "opening" /\ link.opened = "failed"
    /\ host' = "aborting"
    /\ UNCHANGED <<signalled, modules, linkVars, pg, statusVars>>

\* closeConnectionAfterFailedStart.
AbortStart ==
    /\ host = "aborting" /\ link.closed = "no" /\ link.state # "offline"
    /\ Closing("aborting")
    /\ UNCHANGED <<signalled, modules, pg, statusVars>>

StartFailed ==
    /\ host = "aborting" /\ (link.state = "offline" \/ link.closed = "resolved")
    /\ host' = "failed"
    /\ WriteStatus("host")
    /\ UNCHANGED <<signalled, modules, linkVars, pg, status>>

\* A signal that comes before open() is called waits exactly like one during it.
Signal ==
    /\ ~signalled /\ host \in {"opening", "running"}
    /\ signalled' = TRUE
    /\ UNCHANGED <<host, modules, linkVars, pg, statusVars>>

\* runHost turns to the signal only once start() has settled.
Stop ==
    /\ (host = "running" /\ signalled) \/ host = "failed"
    /\ Written
    /\ host' = "draining"
    /\ WriteStatus("host")
    /\ UNCHANGED <<signalled, modules, linkVars, pg, status>>

\* stopAll, then close() unless the connection is offline already.
StopModules ==
    /\ host = "draining" /\ Written
    /\ modules' \in StopAll
    /\ IF link.state # "offline"
       THEN Closing("closing")
       ELSE host' = "closing" /\ UNCHANGED linkVars
    /\ UNCHANGED <<signalled, pg, statusVars>>

StopPostgres ==
    /\ host = "closing" /\ link.closed # "pending"
    /\ host' = "final"
    /\ pg' = [pg EXCEPT !.stopped = TRUE, !.timer = FALSE]
    /\ WriteStatus("host")
    /\ UNCHANGED <<signalled, modules, linkVars, status>>

Stopped ==
    /\ host = "final" /\ Written
    /\ host' = "done"
    /\ UNCHANGED <<signalled, modules, linkVars, pg, statusVars>>

-----------------------------------------------------------------------------

DialStep(d) == CredentialLoaded(d) \/ SocketOpen(d) \/ Greet(d) \/ KeyPersisted(d)
               \/ CredentialSaved(d)
HostStep == StartPostgres \/ OpenLink \/ LinkOpened \/ LinkRefused \/ AbortStart
            \/ StartFailed \/ Stop \/ StopModules \/ StopPostgres \/ Stopped

Next ==
    \/ HostStep \/ Signal \/ WriteStatusNow \/ StatusHeartbeat
    \/ PostgresAttempt(TRUE) \/ PostgresAttempt(FALSE) \/ PostgresRetry
    \/ Reconnect
    \/ \E d \in Dials : DialStep(d) \/ HubAnswer(d) \/ HubRefuse(d) \/ SocketClosed(d)
    \/ \E q \in Queries : Ask(q) \/ HubReply(q) \/ QueryTimeout(q)

(* Promises settle and timers fire; a reachable hub answers a greeting; a    *)
(* socket that is closing closes.  Nobody is obliged to answer a question,   *)
(* to send a signal, or to drop a socket.                                    *)
Fairness ==
    /\ WF_vars(HostStep) /\ WF_vars(WriteStatusNow)
    /\ WF_vars(PostgresAttempt(TRUE)) /\ WF_vars(PostgresRetry) /\ WF_vars(Reconnect)
    /\ \A d \in Dials : /\ WF_vars(DialStep(d)) /\ WF_vars(HubAnswer(d) \/ HubRefuse(d))
                        /\ WF_vars(dial[d].sock = "closing" /\ SocketClosed(d))
    /\ \A q \in Queries : WF_vars(QueryTimeout(q))

Spec == Init /\ [][Next]_vars /\ Fairness

-----------------------------------------------------------------------------

\* Once close() has told its caller the connection is closed, and whenever the
\* stopping host is past it, no socket is open or being opened and no timer is
\* left to open one: a reconnect that was reading the credential when close()
\* came must not open a socket nobody will close.
ClosedForGood ==
    (link.closed = "resolved" \/ host \in {"final", "done"}) =>
        ~link.timer /\ \A d \in Dials : ~Live(d)

\* A question to the hub always ends: answered, or unavailable by timeout,
\* closing or reconnecting, even for a hub that never says anything.
QueriesSettle == \A q \in Queries : asked[q] = "pending" ~> asked[q] # "pending"

\* A lost tunnel comes back, or the connection was stopped, or there was no
\* credential to dial with (an unreadable credentials.json ends the redialling).
LinkRecovers ==
    link.opened = "ok" /\ link.state = "connecting"
        ~> link.state = "connected" \/ link.stopped
           \/ \E d \in Dials : dial[d].sock = "abandoned"

\* Nobody waits on the hub for ever (connection.ts, fortress-query.ts).
LinkLive == QueriesSettle /\ LinkRecovers

\* The "stopped" snapshot is the last one: no late Postgres flip, heartbeat or
\* queued write changes status.json after the host is done.
FinalStatusKept == [][host = "done" => UNCHANGED status]_vars

\* open() settles on enrolled, welcome, fatal or close: a first socket that
\* closes leaves nobody waiting on open() for good.
OpenSettlesOnClose == dial[1].sock = "closed" ~> link.opened # "pending"
=============================================================================
