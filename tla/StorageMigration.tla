-------------------------- MODULE StorageMigration --------------------------
(***************************************************************************)
(* Moving a fortress to another bucket while clients write: the migration  *)
(* engine (console/migration.ts) and its runner and records                *)
(* (console/migration-runner.ts, console/migration-store.ts), the pause    *)
(* plane it holds writes off with (console/ingest-control.ts,              *)
(* console/ingest-control-db.ts, refreshPause in host/main.ts), the gated  *)
(* store and its in-flight accounting (console/pause-gate.ts) and the      *)
(* clients' requests against it (gateway/server.ts, the deleteSession RPC).*)
(*                                                                         *)
(* Every await of the engine is a step boundary: client calls land, the    *)
(* clock advances and the five-second pause timer fires between any two.   *)
(* Time is counted in half heartbeats (30 s).                              *)
(*                                                                         *)
(* Abstractions.  A session is the length of its canonical log and the     *)
(* version of its sidecars, which is what the size and hash comparisons    *)
(* tell apart.  The pause cap (15 min) never binds an episode this engine  *)
(* arms (at most one heartbeat long) and is left out.  A failed store call *)
(* of the engine is the Fail action.                                       *)
(***************************************************************************)
EXTENDS Naturals, FiniteSets

CONSTANTS
  Sessions,              \* session keys
  Preloaded,             \* the sessions the source holds at the start
  Beat,                  \* PAUSE_HEARTBEAT_MS: the longest single episode
  Budget,                \* SWAP_PAUSE_MS: the longest pause over all heartbeats
  Barrier,               \* BARRIER_MS
  Margin,                \* FENCE_MARGIN_MS
  LongTTL, ShortTTL,     \* staging signature lifetimes, normal and drain-armed
  MaxPasses,             \* MAX_DELTA_PASSES
  MaxTime, MaxReqs, MaxReads, MaxRuns, MaxMishaps   \* bounds of the model

ASSUME SessionsAssumption == IsFiniteSet(Sessions) /\ Preloaded \subseteq Sessions
ASSUME TimesAssumption == {Beat, Budget, Barrier, Margin, LongTTL, ShortTTL, MaxPasses} \subseteq Nat \ {0}
ASSUME LimitsAssumption == {MaxTime, MaxReqs, MaxReads, MaxRuns, MaxMishaps} \subseteq Nat

VARIABLES
  bucket,   \* ["source", "target" -> [Sessions -> Objects]]
  tomb,     \* hx.deleted_sessions
  oldTomb,  \* the tombstones stamped before the run's started_at
  runOpen, record,   \* the resumable run row and its hx.migration_objects
  row,      \* the newest hx.ingest_control row: its deadline, 0 once it is resumed
  creds,    \* the bucket credentials.json names
  live,     \* the bucket the serving store is bound to
  gate,     \* PauseState: the cached deadline (0 is open)
  timer,    \* timer refreshes between their read and their observe: the deadlines they read
  drain,    \* drainArmed
  floor,    \* quiesce.signatureFloor
  reqs,     \* client requests that resolved a store
  eng,      \* the engine's locals
  now, crashes, faults, runs, nreq, nread,
  (* History: no guard reads these (a sidecar takes its next version from acked). *)
  sig,      \* when the last signature ever issued really expires
  acked,    \* what clients were told is stored
  slipped,  \* sessions a call was admitted for behind the run's back (see Slips)
  lateSign  \* a signature was issued while the run held its pause

pgVars   == <<tomb, oldTomb, runOpen, record>>
memVars  == <<timer, drain, floor>>
history  == <<sig, acked, slipped, lateSign>>
runVars  == <<now, crashes, faults, runs, nreq, nread>>
vars     == <<bucket, tomb, oldTomb, runOpen, record, row, creds, live, gate, timer, drain, floor,
              reqs, eng, now, crashes, faults, runs, nreq, nread, sig, acked, slipped, lateSign>>

Buckets == {"source", "target"}
Objects == [log : 0..(MaxReqs + 1), side : 0..(MaxReqs + 1)]
Absent  == [log |-> 0, side |-> 0]
Whole   == [log |-> 1, side |-> 1]
Deadlines == 0..(MaxTime + Beat)
Requests == [key : Sessions, kind : {"append", "side", "delete"}, on : Buckets, pc : {"held", "flight"}]

Minimum(a, b) == IF a < b THEN a ELSE b
Maximum(a, b) == IF a > b THEN a ELSE b

Held(b) == {s \in Sessions : bucket[b][s].log > 0}

(* runStorageMigration's locals; `key` is the session in hand, as a set of at
   most one, `stage` the part of the run a copy or a delta pass belongs to,
   `episode` whether the run would release the newest pause row or an older one
   (only this engine arms rows while it runs). *)
Idle == [pc |-> "idle", mode |-> "copy", stage |-> "bulk", todo |-> {}, behind |-> {}, key |-> {},
         buf |-> Absent, done |-> {}, passes |-> 0, runOff |-> 0, budget |-> 0, deadline |-> 0,
         armed |-> 0, episode |-> "none", lapsed |-> FALSE, switched |-> FALSE, missing |-> {}]

EnginePcs == {"idle", "copy", "read", "write", "side", "record", "check", "drain", "runoff", "arm",
              "confirm", "barrier", "tombs", "replay", "swap", "rebind", "verify", "resume",
              "finish"}
Stages == {"bulk", "delta", "drain", "quiesce", "final", "fence", "cut"}

TypeOK ==
  /\ bucket \in [Buckets -> [Sessions -> Objects]]
  /\ tomb \subseteq Sessions /\ oldTomb \subseteq Sessions /\ record \subseteq Sessions
  /\ runOpen \in BOOLEAN /\ drain \in BOOLEAN /\ slipped \subseteq Sessions /\ lateSign \in BOOLEAN
  /\ row \in Deadlines /\ timer \subseteq Deadlines /\ gate \in Deadlines
  /\ creds \in Buckets /\ live \in Buckets
  /\ floor \in Nat /\ sig \in Nat
  /\ reqs \subseteq Requests
  /\ eng \in [pc : EnginePcs, mode : {"copy", "switch"}, stage : Stages, todo : SUBSET Sessions,
              behind : SUBSET Sessions, key : SUBSET Sessions, buf : Objects, done : SUBSET Sessions,
              passes : 0..MaxPasses, runOff : Nat, budget : Nat, deadline : Nat, armed : Nat,
              episode : {"none", "newest", "older"}, lapsed : BOOLEAN, switched : BOOLEAN, missing : SUBSET Sessions]
  /\ acked \in [Sessions -> Objects]
  /\ now \in 0..MaxTime
  /\ crashes \in 0..MaxMishaps /\ faults \in 0..MaxMishaps /\ runs \in 0..MaxRuns
  /\ nreq \in 0..MaxReqs /\ nread \in 0..MaxReads

Init ==
  /\ bucket = [b \in Buckets |-> [s \in Sessions |-> IF b = "source" /\ s \in Preloaded THEN Whole ELSE Absent]]
  /\ acked = bucket["source"]
  /\ tomb = {} /\ oldTomb = {} /\ runOpen = FALSE /\ record = {}
  /\ row = 0 /\ creds = "source" /\ live = "source" /\ gate = 0 /\ timer = {} /\ drain = FALSE /\ floor = 0
  /\ reqs = {} /\ eng = Idle /\ sig = 0 /\ slipped = {} /\ lateSign = FALSE
  /\ now = 0 /\ crashes = 0 /\ faults = 0 /\ runs = 0 /\ nreq = 0 /\ nread = 0

-----------------------------------------------------------------------------
(* The pause plane.                                                        *)

GateShut == gate > now

(* effectivePause for an episode this engine armed. *)
Effective(until) == IF until > now THEN until ELSE 0

(* refreshPause from the five-second timer: read the newest row, then - after
   the anchor file was stamped or cleared - observe it.  Nothing keeps two
   refreshes, or a refresh and an arm, from overlapping, so an old row may be
   observed late; a row resumed or run out when it was read only opens the gate. *)
TimerRead ==
  /\ nread < MaxReads
  /\ timer' = timer \union {Effective(row)}
  /\ nread' = nread + 1
  /\ UNCHANGED <<bucket, pgVars, row, creds, live, gate, drain, floor, reqs, eng, now, crashes, faults, runs,
                 nreq, history>>

TimerObserve ==
  /\ \E until \in timer : gate' = Effective(until) /\ timer' = timer \ {until}
  /\ UNCHANGED <<bucket, pgVars, row, creds, live, drain, floor, reqs, eng, runVars, history>>

Tick ==
  /\ now < MaxTime
  /\ now' = now + 1
  /\ UNCHANGED <<bucket, pgVars, row, creds, live, gate, memVars, reqs, eng, crashes, faults, runs, nreq,
                 nread, history>>

-----------------------------------------------------------------------------
(* Clients.                                                                *)

(* noteSignature.  The mutant does not raise the floor. *)
FloorUnraised(ttl) == floor
FloorRaised(ttl) == Maximum(floor, now + ttl)

(* The run holds its pause: from the barrier it passed until it cuts or gives up. *)
Pausing(e) == e.stage \in {"final", "fence"} /\ e.pc \notin {"resume", "finish"}

(* signStagingUpload. *)
Sign ==
  /\ ~GateShut /\ nreq < MaxReqs
  /\ LET ttl == IF drain THEN ShortTTL ELSE LongTTL
     IN  floor' = FloorRaised(ttl) /\ sig' = Maximum(sig, now + ttl)
  /\ nreq' = nreq + 1 /\ lateSign' = (lateSign \/ Pausing(eng))
  /\ UNCHANGED <<bucket, pgVars, row, creds, live, gate, timer, drain, reqs, eng, now, crashes, faults, runs,
                 nread, acked, slipped>>

(* The tombstone half of a permanent delete.  Its own gate check is followed by
   awaits, so the row may land in a pause; the bucket half is gated again. *)
MarkSessionDeleted(s) ==
  /\ s \notin tomb /\ nreq < MaxReqs
  /\ tomb' = tomb \union {s}
  /\ nreq' = nreq + 1
  /\ UNCHANGED <<bucket, oldTomb, runOpen, record, row, creds, live, gate, memVars, reqs, eng, now, crashes,
                 faults, runs, nread, history>>

(* A commit, a sidecar write or the bucket half of a delete resolves the live
   store, after the tombstone check; it reaches the gate some awaits later. *)
Request(s, kind) ==
  /\ nreq < MaxReqs
  /\ kind = "delete" <=> s \in tomb
  /\ kind = "append" \/ s \in Held(live)
  /\ reqs' = reqs \union {[key |-> s, kind |-> kind, on |-> live, pc |-> "held"]}
  /\ nreq' = nreq + 1
  /\ UNCHANGED <<bucket, pgVars, row, creds, live, gate, memVars, eng, now, crashes, faults, runs, nread, history>>

(* The gate stands open for a call to the source although the run holds its pause,
   or although the credentials already name the target: the gate has not seen an
   extension yet, or was opened by a refresh that read before the arm, or ran out
   under the swap, or the call had resolved its store before the cut. *)
Slips(r) == r.on = "source" /\ (Pausing(eng) \/ creds = "target")

(* gated: refused while the gate is shut, counted in flight otherwise. *)
Gated(r) ==
  /\ r.pc = "held"
  /\ reqs' = IF GateShut THEN reqs \ {r} ELSE (reqs \ {r}) \union {[r EXCEPT !.pc = "flight"]}
  /\ slipped' = IF ~GateShut /\ Slips(r) THEN slipped \union {r.key} ELSE slipped
  /\ UNCHANGED <<bucket, pgVars, row, creds, live, gate, memVars, eng, runVars, sig, acked, lateSign>>

(* The call lands in the bucket its store is bound to and is acknowledged. *)
Land(r) ==
  /\ r.pc = "flight"
  /\ LET stored == CASE r.kind = "append" -> [bucket[r.on][r.key] EXCEPT !.log = @ + 1]
                     [] r.kind = "side"   -> [bucket[r.on][r.key] EXCEPT !.side = acked[r.key].side + 1]
                     [] r.kind = "delete" -> Absent
         told   == CASE r.kind = "append" -> [acked[r.key] EXCEPT !.log = @ + 1]
                     [] r.kind = "side"   -> [acked[r.key] EXCEPT !.side = @ + 1]
                     [] r.kind = "delete" -> Absent
     IN  /\ bucket' = [bucket EXCEPT ![r.on][r.key] = stored]
         /\ acked' = [acked EXCEPT ![r.key] = told]
  /\ reqs' = reqs \ {r}
  /\ UNCHANGED <<pgVars, row, creds, live, gate, memVars, eng, runVars, sig, slipped, lateSign>>

-----------------------------------------------------------------------------
(* The engine: copying and narrowing.                                      *)

Source(s) == bucket["source"][s]
Target(s) == bucket["target"][s]

(* armPause: one heartbeat, inside the budget.  The mutants drop one bound each. *)
ArmWholeBudget(e) == e.budget
ArmFullBeat(e) == now + Beat
ArmUntil(e) == Minimum(e.budget, now + Beat)

(* The heartbeat extends when at most half an episode is left, and remembers the
   new episode as the one to release; the gate itself is NOT refreshed.  The
   mutant still names the first episode. *)
EpisodeKept(e) == "older"
EpisodeNamed(e) == "newest"

Extends(e) == now < e.budget /\ 2 * e.armed <= 2 * now + Beat

Beaten(e) ==
  LET seen == [e EXCEPT !.lapsed = @ \/ e.armed <= now]
  IN  IF Extends(e) THEN [seen EXCEPT !.armed = ArmUntil(e), !.episode = EpisodeNamed(e)] ELSE seen

(* inPauseBeat: armed only while the final delta and the tombstone replay run. *)
InPause(e) == e.stage = "final"
Pulsed(e) == IF InPause(e) THEN Beaten(e) ELSE e
Pulse(e) ==
  IF InPause(e) /\ Extends(e) THEN row' = ArmUntil(e) ELSE UNCHANGED row

(* targetIsCurrent.  The mutant compares the canonical only. *)
CurrentByLog(s, alsoSidecars) == s \notin Held("source") \/ Source(s).log = Target(s).log
Current(s, alsoSidecars) ==
  \/ s \notin Held("source")
  \/ /\ Source(s).log = Target(s).log
     /\ alsoSidecars /\ Source(s).side > 0 => Source(s).side = Target(s).side

CheckAll(e) == [e EXCEPT !.pc = "check", !.todo = Held("source"), !.behind = {}]

(* What follows a delta pass; `behind` is what the pass had to carry. *)
AfterPass(e) ==
  IF e.stage = "drain" THEN [e EXCEPT !.pc = "runoff"]
  ELSE IF e.stage = "final" THEN [e EXCEPT !.pc = "tombs"]
  ELSE IF e.behind # {} /\ e.passes + 1 < MaxPasses THEN CheckAll([e EXCEPT !.passes = @ + 1])
  ELSE [e EXCEPT !.passes = 0, !.pc = IF e.mode = "copy" THEN "finish" ELSE "drain"]

(* A crash or a failed call, of which the model allows MaxMishaps; a rebind that
   throws ends the run and is not counted. *)
Mishap == crashes + faults < MaxMishaps

engineFrame == <<creds, live, gate, memVars, reqs, runVars, history>>

(* An arm or a swap command.  The run row is the open one of this bucket pair,
   or a new one; its copy records are what the run may skip. *)
Start(mode) ==
  /\ eng.pc = "idle" /\ creds = "source" /\ runs < MaxRuns
  /\ runOpen' = TRUE
  /\ oldTomb' = IF runOpen THEN oldTomb ELSE tomb
  /\ record' = IF runOpen THEN record ELSE {}
  /\ eng' = [Idle EXCEPT !.pc = "copy", !.mode = mode, !.todo = Held("source"), !.done = record']
  /\ runs' = runs + 1
  /\ UNCHANGED <<bucket, tomb, row, creds, live, gate, memVars, reqs, now, crashes, faults, nreq, nread, history>>

(* The resume command: only between runs, which the poll pass serialises. *)
ResumeCommand ==
  /\ eng.pc = "idle" /\ (drain \/ row # 0)
  /\ drain' = FALSE
  /\ row' = 0
  /\ UNCHANGED <<bucket, pgVars, creds, live, gate, timer, floor, reqs, eng, runVars, history>>

CopyNext(s) ==
  /\ eng.pc = "copy" /\ s \in eng.todo
  /\ Pulse(eng)
  /\ eng' = LET e == [Pulsed(eng) EXCEPT !.todo = @ \ {s}]
            IN  IF s \in eng.done /\ Current(s, FALSE) THEN e ELSE [e EXCEPT !.pc = "read", !.key = {s}]
  /\ UNCHANGED <<bucket, pgVars, engineFrame>>

(* copySession: a canonical that is gone by now throws. *)
CopyRead(s) ==
  /\ eng.pc = "read" /\ eng.key = {s} /\ s \in Held("source")
  /\ eng' = [eng EXCEPT !.pc = "write", !.buf = [Absent EXCEPT !.log = Source(s).log]]
  /\ UNCHANGED <<bucket, pgVars, row, engineFrame>>

CopyWrite(s) ==
  /\ eng.pc = "write" /\ eng.key = {s}
  /\ bucket' = [bucket EXCEPT !["target"][s].log = eng.buf.log]
  /\ Pulse(eng)
  /\ eng' = [Pulsed(eng) EXCEPT !.pc = "side", !.buf.side = Source(s).side]
  /\ UNCHANGED <<pgVars, engineFrame>>

CopySide(s) ==
  /\ eng.pc = "side" /\ eng.key = {s}
  /\ bucket' = IF eng.buf.side = 0 THEN bucket ELSE [bucket EXCEPT !["target"][s].side = eng.buf.side]
  /\ eng' = [eng EXCEPT !.pc = "record", !.done = @ \union {s}]
  /\ UNCHANGED <<pgVars, row, engineFrame>>

RecordCopied(s) ==
  /\ eng.pc = "record" /\ eng.key = {s}
  /\ record' = record \union {s}
  /\ eng' = [eng EXCEPT !.pc = "copy", !.key = {}, !.buf = Absent]
  /\ UNCHANGED <<bucket, tomb, oldTomb, runOpen, row, engineFrame>>

(* The bulk copy is followed by the first delta pass. *)
CopyEnd ==
  /\ eng.pc = "copy" /\ eng.todo = {}
  /\ eng' = IF eng.stage = "bulk" THEN CheckAll([eng EXCEPT !.stage = "delta"]) ELSE AfterPass(eng)
  /\ UNCHANGED <<bucket, pgVars, row, engineFrame>>

DeltaCheck(s) ==
  /\ eng.pc = "check" /\ s \in eng.todo
  /\ Pulse(eng)
  /\ eng' = [Pulsed(eng) EXCEPT !.todo = @ \ {s},
               !.behind = IF Current(s, InPause(eng)) THEN @ ELSE @ \union {s}]
  /\ UNCHANGED <<bucket, pgVars, engineFrame>>

DeltaCheckEnd ==
  /\ eng.pc = "check" /\ eng.todo = {}
  /\ eng' = IF eng.behind = {} THEN AfterPass(eng)
            ELSE [eng EXCEPT !.pc = "copy", !.todo = eng.behind, !.done = @ \ eng.behind]
  /\ UNCHANGED <<bucket, pgVars, row, engineFrame>>

-----------------------------------------------------------------------------
(* The engine: drain, pause, barrier, fence, cut.                          *)

Abort(e) == [e EXCEPT !.pc = "resume", !.key = {}, !.buf = Absent, !.todo = {}, !.deadline = 0]

ArmDrain ==
  /\ eng.pc = "drain"
  /\ drain' = TRUE
  /\ eng' = [eng EXCEPT !.pc = "runoff", !.stage = "drain", !.runOff = floor]
  /\ UNCHANGED <<bucket, pgVars, row, creds, live, gate, timer, floor, reqs, runVars, history>>

RunOff ==
  /\ eng.pc = "runoff"
  /\ eng' = IF now < eng.runOff THEN CheckAll(eng)
            ELSE [eng EXCEPT !.pc = "arm", !.stage = "quiesce", !.budget = now + Budget, !.runOff = 0]
  /\ UNCHANGED <<bucket, pgVars, row, engineFrame>>

(* Arm, or extend before the fence: a new row, then wait for the gate. *)
ArmPause ==
  /\ eng.pc = "arm"
  /\ row' = ArmUntil(eng)
  /\ eng' = [eng EXCEPT !.pc = "confirm", !.armed = ArmUntil(eng), !.episode = "newest"]
  /\ UNCHANGED <<bucket, pgVars, engineFrame>>

(* awaitInForce: refresh the gate and ask it.  Not in force in time, or nearly
   spent at the fence, aborts. *)
InForce(e, until) == until > now /\ until >= e.armed

ConfirmGate ==
  /\ eng.pc = "confirm"
  /\ gate' = Effective(row)
  /\ eng' = IF ~InForce(eng, gate') THEN Abort(eng)
            ELSE IF eng.stage = "quiesce"
              THEN [eng EXCEPT !.pc = "barrier", !.deadline = Minimum(eng.budget, now + Barrier)]
            ELSE IF gate' - now < Margin THEN Abort(eng) ELSE [eng EXCEPT !.pc = "swap"]
  /\ UNCHANGED <<bucket, pgVars, row, creds, live, memVars, reqs, runVars, history>>

(* isQuiesced: no counted call and no signature the floor knows of.  The mutant
   asks for the signatures only. *)
QuietSignatures == now >= floor
Quiet == now >= floor /\ \A r \in reqs : r.pc # "flight"

AwaitQuiesced ==
  /\ eng.pc = "barrier"
  /\ \/ /\ Quiet
        /\ eng' = CheckAll([eng EXCEPT !.stage = "final", !.deadline = 0])
        /\ slipped' = {} /\ lateSign' = FALSE
        /\ UNCHANGED row
     \/ /\ ~Quiet /\ now >= eng.deadline
        /\ eng' = Abort(eng)
        /\ UNCHANGED <<row, slipped, lateSign>>
     \/ /\ ~Quiet /\ now < eng.deadline
        /\ eng' = Beaten(eng)
        /\ IF Extends(eng) THEN row' = ArmUntil(eng) ELSE UNCHANGED row
        /\ UNCHANGED <<slipped, lateSign>>
  /\ UNCHANGED <<bucket, pgVars, creds, live, gate, memVars, reqs, runVars, sig, acked>>

(* migrationTombstones: stamped since the run began, or copied by this run.  The
   mutant asks the first question only. *)
RecentTombstones == tomb \ oldTomb
Tombstones == (tomb \ oldTomb) \union (tomb \intersect record)

ReadTombstones ==
  /\ eng.pc = "tombs"
  /\ Pulse(eng)
  /\ eng' = [Pulsed(eng) EXCEPT !.pc = "replay", !.todo = Tombstones]
  /\ UNCHANGED <<bucket, pgVars, engineFrame>>

ReplayTombstone(s) ==
  /\ eng.pc = "replay" /\ s \in eng.todo
  /\ bucket' = [bucket EXCEPT !["target"][s] = Absent]
  /\ Pulse(eng)
  /\ eng' = [Pulsed(eng) EXCEPT !.todo = @ \ {s}]
  /\ UNCHANGED <<pgVars, engineFrame>>

(* A lapse the run can see refuses the cut; otherwise re-arm for the fence. *)
RefuseLapse ==
  /\ eng.pc = "replay" /\ eng.todo = {}
  /\ eng' = IF eng.lapsed \/ eng.armed <= now THEN Abort(eng)
            ELSE [eng EXCEPT !.pc = "arm", !.stage = "fence"]
  /\ UNCHANGED <<bucket, pgVars, row, engineFrame>>

SwapCredentials ==
  /\ eng.pc = "swap"
  /\ creds' = "target"
  /\ eng' = [eng EXCEPT !.pc = "rebind"]
  /\ UNCHANGED <<bucket, pgVars, row, live, gate, memVars, reqs, runVars, history>>

(* rebindStore; one that throws leaves the process on the source. *)
RebindStore ==
  /\ eng.pc = "rebind"
  /\ \/ /\ live' = "target"
        /\ eng' = [eng EXCEPT !.pc = "verify", !.stage = "cut", !.switched = TRUE, !.todo = Held("source")]
     \/ /\ eng' = [Abort(eng) EXCEPT !.switched = TRUE]
        /\ UNCHANGED live
  /\ UNCHANGED <<bucket, pgVars, row, creds, gate, memVars, reqs, runVars, history>>

(* verifyTarget: a missing or shorter canonical, or a sidecar that is not there. *)
VerifyTarget(s) ==
  /\ eng.pc = "verify" /\ s \in eng.todo
  /\ LET lost == Target(s).log < Source(s).log \/ (Source(s).side > 0 /\ Target(s).side = 0)
     IN  eng' = [eng EXCEPT !.todo = @ \ {s}, !.missing = IF lost THEN @ \union {s} ELSE @]
  /\ UNCHANGED <<bucket, pgVars, row, engineFrame>>

VerifyEnd ==
  /\ eng.pc = "verify" /\ eng.todo = {}
  /\ eng' = Abort(eng)
  /\ UNCHANGED <<bucket, pgVars, row, engineFrame>>

(* The finally arm: release the episode in hand.  A release that throws is
   reported, and the pause lapses by itself. *)
ResumeIngest ==
  /\ eng.pc = "resume"
  /\ \/ /\ row' = IF eng.episode = "newest" THEN 0 ELSE row
        /\ UNCHANGED faults
     \/ /\ Mishap /\ faults' = faults + 1
        /\ UNCHANGED row
  /\ eng' = [eng EXCEPT !.pc = "finish"]
  /\ UNCHANGED <<bucket, pgVars, creds, live, gate, memVars, reqs, now, crashes, runs, nreq, nread, history>>

(* driveMigrationCommand's tail: an arm leaves the drain up, a cut takes it down
   and closes the run; anything else leaves both for the next command. *)
FinishRun ==
  /\ eng.pc = "finish"
  /\ drain' = IF eng.switched THEN FALSE ELSE IF eng.mode = "copy" THEN TRUE ELSE drain
  /\ runOpen' = ~eng.switched
  /\ eng' = Idle
  /\ UNCHANGED <<bucket, tomb, oldTomb, record, row, creds, live, gate, timer, floor, reqs, runVars, history>>

(* A store or database call of the engine throws: before the pause the run just
   ends, inside it the finally arm still resumes.  Reading a canonical that a
   client deleted under the copy throws too. *)
Fail ==
  /\ eng.pc \notin {"idle", "rebind", "verify", "resume", "finish"}
  /\ \/ eng.pc = "read" /\ eng.key \intersect Held("source") = {} /\ UNCHANGED faults
     \/ Mishap /\ faults' = faults + 1
  /\ eng' = IF eng.stage \in {"quiesce", "final", "fence"} /\ eng.episode # "none" THEN Abort(eng) ELSE Idle
  /\ UNCHANGED <<bucket, pgVars, row, creds, live, gate, memVars, reqs, now, crashes, runs, nreq, nread, history>>

(* The process restarts: its memory - the gate, the drain latch, the signature
   floor, every call in flight - is gone, and the store is bound to whatever
   credentials.json names. *)
Crash ==
  /\ Mishap
  /\ crashes' = crashes + 1
  /\ eng' = Idle /\ reqs' = {} /\ gate' = 0 /\ timer' = {} /\ drain' = FALSE /\ floor' = 0
  /\ live' = creds
  /\ UNCHANGED <<bucket, pgVars, row, creds, now, faults, runs, nreq, nread, history>>

-----------------------------------------------------------------------------
Engine ==
  \/ \E mode \in {"copy", "switch"} : Start(mode)
  \/ ResumeCommand \/ CopyEnd \/ DeltaCheckEnd \/ ArmDrain \/ RunOff \/ ArmPause \/ ConfirmGate
  \/ AwaitQuiesced \/ ReadTombstones \/ RefuseLapse \/ SwapCredentials \/ RebindStore \/ VerifyEnd
  \/ ResumeIngest \/ FinishRun \/ Fail
  \/ \E s \in Sessions :
       \/ CopyNext(s) \/ CopyRead(s) \/ CopyWrite(s) \/ CopySide(s) \/ RecordCopied(s)
       \/ DeltaCheck(s) \/ ReplayTombstone(s) \/ VerifyTarget(s)

Clients ==
  \/ Sign
  \/ \E s \in Sessions : \/ MarkSessionDeleted(s)
                         \/ \E kind \in {"append", "side", "delete"} : Request(s, kind)
  \/ \E r \in reqs : Gated(r) \/ Land(r)

Next == TimerRead \/ TimerObserve \/ Tick \/ Clients \/ Engine \/ Crash

Spec == Init /\ [][Next]_vars
-----------------------------------------------------------------------------
(* Properties.                                                             *)

(* migration.ts "The final delta and the tombstone replay run INSIDE the pause,
   where the source cannot change under them": from the first object the final
   delta compares until the store is rebound, no client call lands in the source
   but those the gate let through meanwhile; a call counted in flight before the
   barrier never does. *)
SourceFrozen ==
  [][Pausing(eng) => \A s \in Sessions \ slipped : bucket'["source"][s] = Source(s)]_vars

(* The gate can only let a call through meanwhile because it has not seen the newest
   row: however often the heartbeat extended it, that row is the episode the run
   counts on, it is in force, and the next refresh shuts the gate - unless the run has
   noticed a lapse, which aborts it. *)
HoldsPause(e) == Pausing(e) /\ ~e.lapsed /\ e.armed > now
PauseInForce == HoldsPause(eng) => Effective(row) = eng.armed

(* migration.ts "Moving a fortress's object storage to another bucket, without
   losing a write": once the fortress serves from the target, the target holds
   every acknowledged append and the newest acknowledged sidecar of every
   session that is not being deleted, except the sessions one of whose calls the gate
   let through to the source behind the run's back. *)
LiveHoldsAcked ==
  live = "target" => \A s \in Sessions \ (tomb \union slipped) : Target(s) = acked[s]

(* migration.ts "A session deleted after its copy was made is present in the
   target and absent from the source, which is a resurrection": the cut makes no
   session appear that the source no longer holds, over every ordering of the
   copy and the delete's two halves, as long as no call failed and the process
   has not died (the record of a copy is written after the copy). *)
CutAddsNothing ==
  [][(live = "source" /\ live' = "target" /\ crashes + faults = 0) =>
       \A s \in Held("target") \ slipped : s \in Held("source")]_vars

(* pause-gate.ts "The earliest moment at which no outstanding signature can still
   write": when the credentials are swapped no staging signature this fortress
   issued since it started is still honoured by the old bucket (the floor is in
   memory, so a restart forgets it), unless it was issued after the barrier. *)
CutAfterSignatures == (eng.pc = "swap" /\ crashes = 0 /\ ~lateSign) => sig <= now

(* What the pause is for: while the run holds it nothing moves in the source but what
   an outdated gate lets through, the cut brings nothing deleted back, and no
   signature outlives it (migration.ts, pause-gate.ts). *)
CutIsClean == SourceFrozen /\ CutAddsNothing /\ [](PauseInForce /\ CutAfterSignatures)

(* migration.ts SWAP_PAUSE_MS "The whole budget the cut may hold writes off for,
   across every heartbeat": no extension, and no gate that observed one, ever
   reaches past the budget fixed when the first episode was armed. *)
PauseWithinBudget ==
  (eng.episode # "none") => row <= eng.budget /\ gate <= eng.budget

(* The run releases the pause it holds: however often the heartbeat extended it,
   a run whose calls did not fail leaves no episode in force behind. *)
PauseReleased == (eng.pc = "idle" /\ faults = 0 /\ crashes = 0) => row = 0
=============================================================================
