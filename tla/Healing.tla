------------------------------ MODULE Healing ------------------------------
(***************************************************************************)
(* The two healers of the daemon, and the exit they share.                 *)
(*                                                                         *)
(* GuardedStore puts a deadline on every storage call, rebuilds the client *)
(* after consecutive breaches of write-class calls, and escalates when     *)
(* rebuilding does not help.  Guarded-db owns the Postgres pools: a canary *)
(* on its own connection and a detector that watches the real write pool   *)
(* both lead to a rebuild, which also ends whatever is stuck on the old    *)
(* pool.  racePgPhase is the caller's side: it abandons a transaction at   *)
(* the deadline and has its statement cancelled.                           *)
(*                                                                         *)
(* A behaviour is about one layer.  What goes wrong is external: a client  *)
(* whose sockets hang, a process whose sockets hang, a server that is      *)
(* away, a pool that no longer hands out transactions.                     *)
(*                                                                         *)
(* Two assumptions: a healthy backend answers within every deadline, and a *)
(* caller's deadline (25 s) passes between two probe ticks (one a minute,  *)
(* each of at most two 10 s waits).                                        *)
(***************************************************************************)
EXTENDS Naturals, FiniteSets

CONSTANTS
    Calls,               \* storage calls or transactions in flight
    SelfTest,            \* the caller that runs the store's self-test
    RebuildAfter,        \* rebuildAfter, breachThreshold
    ExhaustAfter,        \* exhaustAfterRebuilds, futileRebuildThreshold
    StallAfter,          \* stallBreachThreshold
    MaxGenerations       \* clients or pools built in one behaviour

ASSUME HealingAssumption ==
    /\ IsFiniteSet(Calls) /\ SelfTest \in Calls
    /\ {RebuildAfter, ExhaustAfter, StallAfter, MaxGenerations} \subseteq Nat \ {0}

VARIABLES
    layer,     \* "store", "database", or "off": no healer in this behaviour
    ill,       \* what is wrong outside
    call,      \* the calls in flight
    guard,     \* GuardedStore's and guarded-db's fields
    tick,      \* the probe tick in progress
    exited,    \* the escalation ended the process
    hurt       \* was the current client or pool ever given a reason?

healVars == <<layer, ill, call, guard, tick, exited, hurt>>

-----------------------------------------------------------------------------
(* State                                                                   *)

StoreIllness == {"none", "client", "process"}
PoolIllness == {"none", "wedged", "down"}

Call == [gen : 0..MaxGenerations, stage : {"idle", "queued", "running"},
         counted : BOOLEAN, waiting : BOOLEAN, old : BOOLEAN, retried : BOOLEAN]
NoCall == [gen |-> 0, stage |-> "idle", counted |-> FALSE, waiting |-> FALSE, old |-> FALSE,
           retried |-> FALSE]

Guard == [gen : 1..MaxGenerations, built : BOOLEAN,
          breaches : 0..RebuildAfter, futile : 0..ExhaustAfter, worked : BOOLEAN,
          escalated : BOOLEAN, recovering : BOOLEAN, stalls : 0..StallAfter,
          served : BOOLEAN, missed : BOOLEAN]

TickRecord == [at : {"idle", "canary", "live"}, served : BOOLEAN, missed : BOOLEAN]
NoTick == [at |-> "idle", served |-> FALSE, missed |-> FALSE]

HealTypeOK ==
    /\ layer \in {"store", "database", "off"}
    /\ ill \in StoreIllness \cup PoolIllness
    /\ call \in [Calls -> Call] /\ guard \in Guard /\ tick \in TickRecord
    /\ exited \in BOOLEAN /\ hurt \in BOOLEAN

HealInit(layers) ==
    /\ layer \in layers
    /\ ill = "none" /\ hurt = FALSE /\ exited = FALSE
    /\ call = [c \in Calls |-> NoCall]
    /\ guard = [gen |-> 1, built |-> FALSE, breaches |-> 0, futile |-> 0, worked |-> FALSE,
                escalated |-> FALSE, recovering |-> FALSE, stalls |-> 0,
                served |-> FALSE, missed |-> FALSE]
    /\ tick = NoTick

Store == layer = "store" /\ ~exited
Database == layer = "database" /\ ~exited

-----------------------------------------------------------------------------
(* External: things break and recover                                      *)

FallIll(what) ==
    /\ ill = "none" /\ ~hurt /\ (Store \/ Database)
    /\ what \in IF layer = "store" THEN StoreIllness ELSE PoolIllness
    /\ ill' = what /\ hurt' = (what # "none")
    /\ UNCHANGED <<layer, call, guard, tick, exited>>

ServerBack ==
    /\ ill = "down" /\ Database
    /\ ill' = "none"
    /\ UNCHANGED <<layer, call, guard, tick, exited, hurt>>

-----------------------------------------------------------------------------
(* Escalation                                                              *)

\* createWedgeEscalation: a process whose write path never worked does not
\* restart, and neither does one nobody supervises.
EscalatedExit(worked) == worked

-----------------------------------------------------------------------------
(* GuardedStore                                                            *)

\* BREACH_METHODS: reads and signatures neither charge nor absolve.
CountedAny(c) == TRUE
Counted(c) == call[c].counted

\* A success or a breach of a client that was discarded says nothing.
Current(c) == call[c].gen = guard.gen

StoreCall(c, counted) ==
    /\ Store /\ call[c].stage = "idle" /\ (c = SelfTest => counted)
    /\ call' = [call EXCEPT ![c] = [NoCall EXCEPT !.gen = guard.gen, !.stage = "running",
                                                  !.counted = counted, !.waiting = TRUE]]
    /\ UNCHANGED <<layer, ill, guard, tick, exited, hurt>>

\* Only write-class calls hang, on the client or on every client.
Hangs(c) ==
    call[c].counted /\ (ill = "process" \/ (ill = "client" /\ call[c].gen = 1))

StoreAnswer(c) ==
    /\ Store /\ call[c].stage = "running" /\ ~Hangs(c)
    /\ guard' = IF Counted(c) /\ Current(c)
                THEN [guard EXCEPT !.breaches = 0, !.futile = 0, !.worked = TRUE]
                ELSE guard
    /\ call' = [call EXCEPT ![c] = NoCall]
    /\ UNCHANGED <<layer, ill, tick, exited, hurt>>

\* The deadline: the call is detached, charged, and may rebuild the client.
StoreDeadline(c) ==
    LET charged == Counted(c) /\ Current(c)
        rebuilds == charged /\ guard.breaches + 1 >= RebuildAfter
        wedged == rebuilds /\ guard.futile + 1 >= ExhaustAfter
    IN  /\ Store /\ call[c].stage = "running" /\ Hangs(c)
        /\ rebuilds => guard.gen < MaxGenerations
        /\ call' = [call EXCEPT ![c] = NoCall]
        /\ guard' = [guard EXCEPT
                       !.breaches = IF rebuilds THEN 0 ELSE IF charged THEN @ + 1 ELSE @,
                       !.gen = IF rebuilds THEN @ + 1 ELSE @,
                       !.futile = IF wedged THEN 0 ELSE IF rebuilds THEN @ + 1 ELSE @]
        /\ exited' = (wedged /\ EscalatedExit(guard.worked))
        /\ UNCHANGED <<layer, ill, tick, hurt>>

-----------------------------------------------------------------------------
(* racePgPhase: a transaction against its caller's deadline                *)

\* The resolver builds the pool on first use.
TxStart(c) ==
    /\ Database /\ call[c].stage = "idle"
    /\ call' = [call EXCEPT ![c] = [NoCall EXCEPT !.gen = guard.gen, !.stage = "queued",
                                                  !.waiting = TRUE]]
    /\ guard' = [guard EXCEPT !.built = TRUE]
    /\ UNCHANGED <<layer, ill, tick, exited, hurt>>

PoolServes(gen) == ill # "down" /\ ~(ill = "wedged" /\ gen = 1)

\* A transaction gets its connection and attaches its backend; one whose
\* caller has gone is cancelled on arrival.
TxReserve(c) ==
    /\ Database /\ call[c].stage = "queued" /\ PoolServes(call[c].gen)
    /\ call' = [call EXCEPT ![c] = IF @.waiting THEN [@ EXCEPT !.stage = "running"]
                                                ELSE NoCall]
    /\ UNCHANGED <<layer, ill, guard, tick, exited, hurt>>

\* It commits, fails, or (its caller gone) its statement is cancelled.
TxSettle(c) ==
    /\ Database /\ call[c].stage = "running" /\ ill # "down"
    /\ call' = [call EXCEPT ![c] = NoCall]
    /\ guard' = [guard EXCEPT !.served = @ \/ call[c].waiting]
    /\ UNCHANGED <<layer, ill, tick, exited, hurt>>

\* The caller's deadline passes: reported, cancelled, abandoned.
TxDeadline(c) ==
    /\ Database /\ call[c].waiting
    /\ hurt \/ call[c].gen < guard.gen \/ call[c].retried
    /\ call' = [call EXCEPT ![c].waiting = FALSE]
    /\ guard' = [guard EXCEPT !.missed = TRUE]
    /\ UNCHANGED <<layer, ill, tick, exited, hurt>>

\* closeRetired: within five seconds everything in flight or queued on a
\* retired pool is rejected.  The retry wrapper tries once more on the new
\* pool, unless the phase was abandoned.
TxClosed(c) ==
    /\ Database /\ call[c].stage # "idle" /\ call[c].gen < guard.gen
    /\ IF call[c].waiting /\ ~call[c].retried
       THEN /\ call' = [call EXCEPT ![c].gen = guard.gen, ![c].stage = "queued",
                                    ![c].retried = TRUE]
            /\ guard' = [guard EXCEPT !.built = TRUE]
       ELSE call' = [call EXCEPT ![c] = NoCall] /\ UNCHANGED guard
    /\ UNCHANGED <<layer, ill, tick, exited, hurt>>

-----------------------------------------------------------------------------
(* guarded-db                                                              *)

\* rebuild's bookkeeping of the stall streak.
StallsAfterRebuildKept(streak) == streak
StallsAfterRebuild(streak) == 0

\* rebuild(): swap first; the detached close is TxClosed.
Rebuilt(g) ==
    [g EXCEPT !.gen = @ + 1, !.built = FALSE, !.recovering = TRUE,
              !.stalls = StallsAfterRebuild(@),
              !.futile = IF @ = ExhaustAfter THEN @ ELSE @ + 1,
              !.escalated = @ \/ g.futile + 1 >= ExhaustAfter]

\* The callers still waiting when a tick ends.
Aged(calls) == [c \in Calls |-> [calls[c] EXCEPT !.old = calls[c].waiting]]

Rebuild(g) ==
    /\ g.gen < MaxGenerations
    /\ guard' = Rebuilt(g)
    /\ call' = Aged(call)
    /\ exited' = (g.futile + 1 >= ExhaustAfter /\ ~g.escalated /\ EscalatedExit(g.worked))
    /\ hurt' = (ill = "down")

\* probeTick: one at a time; whoever waited at the end of the last tick has
\* been answered or has missed its deadline.
TickStart ==
    /\ Database /\ tick.at = "idle"
    /\ \A c \in Calls : ~(call[c].waiting /\ call[c].old)
    /\ tick' = [NoTick EXCEPT !.at = "canary"]
    /\ UNCHANGED <<layer, ill, call, guard, exited, hurt>>


\* evaluateLivePool takes the counters and clears them.
Counters(g) == [g EXCEPT !.served = FALSE, !.missed = FALSE]
Looked == [at |-> "live", served |-> guard.served, missed |-> guard.missed]

\* The canary answers: the streak and the episode are over.
CanaryOk ==
    /\ Database /\ tick.at = "canary" /\ ill # "down"
    /\ guard' = Counters([guard EXCEPT !.breaches = 0, !.worked = TRUE, !.futile = 0,
                                       !.escalated = FALSE, !.recovering = FALSE])
    /\ tick' = Looked
    /\ UNCHANGED <<layer, ill, call, exited, hurt>>

\* It does not: a breach, at the threshold a rebuild, and no verdict on the
\* live pool while the server itself is away.
CanaryFails ==
    LET g == Counters([guard EXCEPT !.breaches = @ + 1, !.stalls = 0])
    IN  /\ Database /\ tick.at = "canary" /\ ill = "down"
        /\ IF g.breaches >= RebuildAfter
           THEN Rebuild([g EXCEPT !.breaches = 0])
           ELSE guard' = g /\ call' = Aged(call) /\ UNCHANGED <<exited, hurt>>
        /\ tick' = NoTick
        /\ UNCHANGED <<layer, ill>>

\* Nothing served, and the transaction probe failed or callers missed their
\* deadline: only then is a tick a stall.
StalledBoth(txOk) == ~tick.served /\ ~txOk /\ tick.missed
Stalled(txOk) == ~tick.served /\ (~txOk \/ tick.missed)

LiveVerdict ==
    LET txOk == guard.built => PoolServes(guard.gen)
    IN  /\ Database /\ tick.at = "live"
        /\ tick' = NoTick
        /\ IF ~Stalled(txOk)
           THEN guard' = [guard EXCEPT !.stalls = 0] /\ call' = Aged(call) /\ UNCHANGED <<exited, hurt>>
           ELSE IF guard.stalls + 1 < StallAfter
           THEN guard' = [guard EXCEPT !.stalls = @ + 1] /\ call' = Aged(call) /\ UNCHANGED <<exited, hurt>>
           ELSE Rebuild([guard EXCEPT !.stalls = @ + 1])
        /\ UNCHANGED <<layer, ill>>

-----------------------------------------------------------------------------

HealNext ==
    \/ \E what \in {"client", "process", "wedged", "down"} : FallIll(what)
    \/ ServerBack
    \/ \E c \in Calls :
         \/ StoreCall(c, TRUE) \/ StoreCall(c, FALSE) \/ StoreAnswer(c) \/ StoreDeadline(c)
         \/ TxStart(c) \/ TxReserve(c) \/ TxSettle(c) \/ TxDeadline(c) \/ TxClosed(c)
    \/ TickStart \/ CanaryOk \/ CanaryFails \/ LiveVerdict

(* The store's self-test writes an object every minute; timers fire; a running *)
(* statement ends.                                                             *)
HealFairness ==
    /\ WF_healVars(StoreCall(SelfTest, TRUE))
    /\ \A c \in Calls :
         /\ WF_healVars(StoreAnswer(c))
         /\ WF_healVars(StoreDeadline(c))
         /\ WF_healVars(TxReserve(c)) /\ WF_healVars(TxSettle(c)) /\ WF_healVars(TxDeadline(c))
         /\ WF_healVars(TxClosed(c))
    /\ WF_healVars(TickStart) /\ WF_healVars(CanaryOk) /\ WF_healVars(CanaryFails)
    /\ WF_healVars(LiveVerdict)

HealSpec == HealInit({"store", "database"}) /\ [][HealNext]_healVars /\ HealFairness

-----------------------------------------------------------------------------

\* A storage wedge no rebuild cures is escalated although reads keep
\* succeeding: their successes do not absolve the write path.
WedgeEscalates ==
    []<>(layer = "store" /\ ill = "process" /\ guard.worked
             => exited \/ guard.gen = MaxGenerations)

\* A pool is retired only if it, or the server behind it, gave a reason since
\* it was built: what callers of its predecessor report is not its fault.
HealthyPoolKept ==
    [][layer = "database" /\ guard'.gen # guard.gen => hurt]_healVars

\* A transaction whose caller gave up does not keep its connection or its
\* place in the queue for good, even on a pool that will never serve it.
AbandonedEnds ==
    \A c \in Calls :
        []<>(call[c].stage = "idle" \/ call[c].waiting \/ exited \/ guard.gen = MaxGenerations)

\* The healers heal: a wedge is rebuilt or escalated, a healthy pool is left
\* alone, and no abandoned call holds its place for good (guarded-store.ts,
\* guarded-db.ts).
Heals == WedgeEscalates /\ HealthyPoolKept /\ AbandonedEnds
=============================================================================
