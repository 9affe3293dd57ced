----------------------------- MODULE ParkReplay -----------------------------
(***************************************************************************)
(* Session sidecars refused by a pause: the gateway acknowledges a commit, *)
(* then composes and writes session.json in a per-session chain; a chain   *)
(* that meets the closed gate parks its composition in a file.  The 5 s    *)
(* pause refresh replays the park once the gate is open, merging each      *)
(* composition with what the sidecar holds, and remembers on disk which    *)
(* sessions it rewrote, because a storage migration resumed under its id   *)
(* would not carry them again.                                             *)
(*                                                                         *)
(* A composition, and a sidecar, is the set of commits it reflects.  The   *)
(* replay sorts what it reads by time and its merge absorbs a repetition,  *)
(* so the files are sets.                                                  *)
(***************************************************************************)
EXTENDS Naturals, FiniteSets

CONSTANTS
    Sessions,
    MaxCommits, MaxPauses, MaxDrops, MaxDeaths, MaxMigrations     \* bounds of the model

ASSUME ParkAssumption ==
    /\ IsFiniteSet(Sessions)
    /\ {MaxCommits, MaxPauses, MaxDrops, MaxDeaths, MaxMigrations} \subseteq Nat

VARIABLES
    gate,       \* the pause plane: closed or not, and how often it may close
    chain,      \* each session's post-commit closure
    disk,       \* the park, .draining, the pending forgets and the markers
    sidecar,    \* each session's sidecar
    gone,       \* permanently deleted sessions
    latch,      \* ParkReplayLatch.owed
    replay,     \* replayParkedOnce
    run,        \* the storage migration as the replay sees it
    commits, drops, deaths,       \* spent bounds
    raced,      \* sessions whose sidecar two writers had in hand at once
    stranded    \* a drain cleared the latch of a pause that began after it did

parkVars == <<gate, chain, disk, sidecar, gone, latch, replay, run, commits, drops, deaths,
              raced, stranded>>

-----------------------------------------------------------------------------
(* State                                                                   *)

Commits == 1..MaxCommits

\* ParkedArtifact: the session, when it was parked, and the composition.
Parked == [s : Sessions, at : Commits, text : SUBSET Commits]

Chain == [at : 0..MaxCommits, text : SUBSET Commits]
NoChain == [at |-> 0, text |-> {}]

ReplayStep == {"idle", "orphans", "unlink", "rename", "loop", "merge", "repark", "finish",
               "pend", "clear", "settle", "forget"}
NoReplay == [pc |-> "idle", todo |-> {}, seen |-> {}, failed |-> {}, rewrote |-> {},
             raised |-> FALSE]

ParkTypeOK ==
    /\ gate \in [closed : BOOLEAN, left : 0..MaxPauses]
    /\ chain \in [Sessions -> Chain]
    /\ disk.park \subseteq Parked /\ disk.draining \subseteq Parked
    /\ disk.forget \subseteq Sessions /\ disk.markers \in 0..(MaxDeaths + MaxDrops + 1)
    /\ sidecar \in [Sessions -> SUBSET Commits] /\ gone \subseteq Sessions
    /\ replay.pc \in ReplayStep /\ latch \in BOOLEAN
    /\ run.phase \in {"none", "held", "running"}
    /\ raced \subseteq Sessions /\ stranded \in BOOLEAN

ParkInit(on) ==
    /\ gate = [closed |-> FALSE, left |-> IF on THEN MaxPauses ELSE 0]
    /\ chain = [s \in Sessions |-> NoChain]
    /\ disk = [park |-> {}, draining |-> {}, forget |-> {}, markers |-> 0]
    /\ sidecar = [s \in Sessions |-> {}] /\ gone = IF on THEN {} ELSE Sessions
    /\ latch = on
    /\ replay = NoReplay
    /\ run = [phase |-> "none", copied |-> {}, stale |-> {},
              left |-> IF on THEN MaxMigrations ELSE 0]
    /\ commits = (IF on THEN 0 ELSE MaxCommits) /\ drops = 0
    /\ deaths = IF on THEN 0 ELSE MaxDeaths
    /\ raced = {} /\ stranded = FALSE

-----------------------------------------------------------------------------
(* The gateway's post-commit chain                                         *)

\* The deferred closure begins: it reads the sidecar and composes the next.
\* One at a time per session (postCommitChains).
Compose(s) ==
    /\ chain[s] = NoChain /\ s \notin gone /\ commits < MaxCommits
    /\ commits' = commits + 1
    /\ chain' = [chain EXCEPT ![s] = [at |-> commits + 1, text |-> sidecar[s] \cup {commits + 1}]]
    /\ raced' = IF \E e \in replay.todo : e.s = s /\ replay.pc = "merge" THEN raced \cup {s} ELSE raced
    /\ UNCHANGED <<gate, disk, sidecar, gone, latch, replay, run, drops, deaths, stranded>>

\* writeArtifact through the open gate ...
ChainWrites(s) ==
    /\ chain[s] # NoChain /\ ~gate.closed
    /\ sidecar' = [sidecar EXCEPT ![s] = chain[s].text]
    /\ chain' = [chain EXCEPT ![s] = NoChain]
    /\ UNCHANGED <<gate, disk, gone, latch, replay, run, commits, drops, deaths, raced, stranded>>

\* ... or refused by the closed one: parked, and the chain resolves.
ChainParks(s) ==
    /\ chain[s] # NoChain /\ gate.closed
    /\ disk' = [disk EXCEPT !.park = @ \cup {[s |-> s, at |-> chain[s].at, text |-> chain[s].text]}]
    /\ chain' = [chain EXCEPT ![s] = NoChain]
    /\ UNCHANGED <<gate, sidecar, gone, latch, replay, run, commits, drops, deaths, raced, stranded>>

\* ParkReplayLatch.due: any look at a closed gate owes a drain.
OwedOnEdge(closed) == closed /\ gate.closed
Owed(closed) == closed

\* refreshPause finds a pause armed: the gate closes and the drain is owed.
PauseOn ==
    /\ ~gate.closed /\ gate.left > 0
    /\ gate' = [closed |-> TRUE, left |-> gate.left - 1]
    /\ latch' = (latch \/ Owed(TRUE)) /\ stranded' = FALSE
    /\ UNCHANGED <<chain, disk, sidecar, gone, replay, run, commits, drops, deaths, raced>>

\* It is lifted, or lapses against the clock with nobody looking.
PauseOff ==
    /\ gate.closed
    /\ gate' = [gate EXCEPT !.closed = FALSE]
    /\ UNCHANGED <<chain, disk, sidecar, gone, latch, replay, run, commits, drops, deaths, raced, stranded>>

\* A member deletes a session for good.
Delete(s) ==
    /\ s \notin gone /\ chain[s] = NoChain /\ ~gate.closed
    /\ gone' = gone \cup {s}
    /\ sidecar' = [sidecar EXCEPT ![s] = {}]
    /\ raced' = IF replay.pc = "merge" THEN raced \cup {s} ELSE raced
    /\ UNCHANGED <<gate, chain, disk, latch, replay, run, commits, drops, deaths, stranded>>

-----------------------------------------------------------------------------
(* refreshPause and replayParkedOnce                                       *)

\* A replay starts unless one is in flight or a migration holds the store.
RefreshPause ==
    /\ latch' = (latch \/ Owed(gate.closed))
    /\ stranded' = (stranded /\ ~gate.closed)
    /\ IF ~gate.closed /\ latch /\ replay.pc = "idle" /\ run.phase = "none"
       THEN replay' = [NoReplay EXCEPT !.pc = "orphans"]
       ELSE UNCHANGED replay
    /\ <<latch', stranded', replay'>> # <<latch, stranded, replay>>
    /\ UNCHANGED <<gate, chain, disk, sidecar, gone, run, commits, drops, deaths, raced>>

\* What a drain that died left in .draining goes back to the park file first.
WriteBack == disk.park \cup disk.draining

ReplayOrphans ==
    /\ replay.pc = "orphans"
    /\ disk' = [disk EXCEPT !.park = WriteBack]
    /\ replay' = [replay EXCEPT !.pc = IF disk.draining = {} THEN "rename" ELSE "unlink"]
    /\ UNCHANGED <<gate, chain, sidecar, gone, latch, run, commits, drops, deaths, raced, stranded>>

ReplayUnlink ==
    /\ replay.pc = "unlink"
    /\ disk' = [disk EXCEPT !.draining = {}]
    /\ replay' = [replay EXCEPT !.pc = "rename"]
    /\ UNCHANGED <<gate, chain, sidecar, gone, latch, run, commits, drops, deaths, raced, stranded>>

\* The park file is moved aside: later parkings go to a fresh one.
ReplayRename ==
    /\ replay.pc = "rename"
    /\ disk' = [disk EXCEPT !.park = {}, !.draining = disk.park]
    /\ replay' = [replay EXCEPT !.pc = IF disk.park = {} THEN "pend" ELSE "loop", !.todo = disk.park]
    /\ UNCHANGED <<gate, chain, sidecar, gone, latch, run, commits, drops, deaths, raced, stranded>>

Oldest(es) == CHOOSE e \in es : \A f \in es : e.at <= f.at
Done(e) == replay.todo \ {e}

\* The first entry raises this drain's marker; a deleted session's entry is
\* dropped; otherwise the sidecar is read.
ReplayReads ==
    LET e == Oldest(replay.todo)
        alive == e.s \notin gone
    IN  /\ replay.pc = "loop" /\ replay.todo # {}
        /\ disk' = [disk EXCEPT !.markers = IF replay.raised THEN @ ELSE @ + 1]
        /\ replay' = IF alive
                     THEN [replay EXCEPT !.pc = "merge", !.raised = TRUE, !.seen = sidecar[e.s]]
                     ELSE [replay EXCEPT !.raised = TRUE, !.todo = Done(e)]
        /\ raced' = IF alive /\ chain[e.s] # NoChain THEN raced \cup {e.s} ELSE raced
        /\ UNCHANGED <<gate, chain, sidecar, gone, latch, run, commits, drops, deaths, stranded>>

Merged(current, text) == current \cup text

ReplayWrites ==
    LET e == Oldest(replay.todo)
    IN  /\ replay.pc = "merge" /\ ~gate.closed
        /\ sidecar' = [sidecar EXCEPT ![e.s] = Merged(replay.seen, e.text)]
        /\ replay' = [replay EXCEPT !.pc = "loop", !.todo = Done(e), !.rewrote = @ \cup {e.s}]
        /\ run' = [run EXCEPT !.stale = @ \cup ({e.s} \cap run.copied)]
        /\ UNCHANGED <<gate, chain, disk, gone, latch, commits, drops, deaths, raced, stranded>>

\* The gate closed again, or the database or the bucket did not answer.
ReplayFails ==
    LET e == Oldest(replay.todo)
    IN  /\ replay.pc \in {"loop", "merge"} /\ replay.todo # {}
        /\ \/ replay.pc = "merge" /\ gate.closed /\ UNCHANGED drops
           \/ ~gate.closed /\ drops < MaxDrops /\ drops' = drops + 1
        /\ replay' = [replay EXCEPT !.pc = "loop", !.todo = Done(e), !.failed = @ \cup {e}]
        /\ UNCHANGED <<gate, chain, disk, sidecar, gone, latch, run, commits, deaths, raced, stranded>>

\* What failed is parked again before the drained file goes.
ReplayReparks ==
    /\ replay.pc = "loop" /\ replay.todo = {}
    /\ disk' = [disk EXCEPT !.park = @ \cup replay.failed]
    /\ replay' = [replay EXCEPT !.pc = "finish"]
    /\ UNCHANGED <<gate, chain, sidecar, gone, latch, run, commits, drops, deaths, raced, stranded>>

ReplayFinishes ==
    /\ replay.pc = "finish"
    /\ disk' = [disk EXCEPT !.draining = {}]
    /\ replay' = [replay EXCEPT !.pc = "pend"]
    /\ UNCHANGED <<gate, chain, sidecar, gone, latch, run, commits, drops, deaths, raced, stranded>>

\* addForgetPending; a failure here ends the replay with its marker raised.
ReplayPends ==
    /\ replay.pc = "pend"
    /\ \/ /\ disk' = [disk EXCEPT !.forget = @ \cup replay.rewrote]
          /\ replay' = [replay EXCEPT !.pc = "clear"]
          /\ UNCHANGED drops
       \/ /\ replay.rewrote # {} /\ drops < MaxDrops /\ drops' = drops + 1
          /\ replay' = NoReplay /\ UNCHANGED disk
    /\ UNCHANGED <<gate, chain, sidecar, gone, latch, run, commits, deaths, raced, stranded>>

\* Its own marker, if it raised one.
OwnMarkerAny == disk.markers > 0
OwnMarker == replay.raised

ReplayClears ==
    /\ replay.pc = "clear"
    /\ disk' = [disk EXCEPT !.markers = IF OwnMarker THEN @ - 1 ELSE @]
    /\ replay' = [replay EXCEPT !.pc = "settle"]
    /\ UNCHANGED <<gate, chain, sidecar, gone, latch, run, commits, drops, deaths, raced, stranded>>

ReplaySettles ==
    /\ replay.pc = "settle"
    /\ latch' = (latch /\ replay.failed # {})
    /\ stranded' = (latch /\ ~latch' /\ (gate.closed \/ disk.park # {}))
    /\ replay' = [replay EXCEPT !.pc = "forget"]
    /\ UNCHANGED <<gate, chain, disk, sidecar, gone, run, commits, drops, deaths, raced>>

\* forgetCopiedSessions, when the database answers.
ReplayForgets ==
    /\ replay.pc = "forget"
    /\ \/ /\ run' = [run EXCEPT !.copied = @ \ disk.forget, !.stale = @ \ disk.forget]
          /\ disk' = [disk EXCEPT !.forget = {}]
          /\ UNCHANGED drops
       \/ /\ disk.forget # {} /\ drops < MaxDrops /\ drops' = drops + 1
          /\ UNCHANGED <<run, disk>>
    /\ replay' = NoReplay
    /\ UNCHANGED <<gate, chain, sidecar, gone, latch, commits, deaths, raced, stranded>>

-----------------------------------------------------------------------------
(* runMigration's preamble, and the run as far as the replay is concerned  *)

\* The hold is taken before the first await.
RunHeld ==
    /\ run.phase = "none" /\ run.left > 0
    /\ run' = [run EXCEPT !.phase = "held", !.left = @ - 1]
    /\ UNCHANGED <<gate, chain, disk, sidecar, gone, latch, replay, commits, drops, deaths, raced, stranded>>

\* A replay in flight is waited for; an outstanding marker refuses the run.
RunStarts ==
    /\ run.phase = "held" /\ replay.pc = "idle"
    /\ IF disk.markers = 0
       THEN /\ run' = [run EXCEPT !.phase = "running", !.copied = @ \ disk.forget,
                                  !.stale = @ \ disk.forget]
            /\ disk' = [disk EXCEPT !.forget = {}]
       ELSE /\ run' = [run EXCEPT !.phase = "none"] /\ UNCHANGED disk
    /\ UNCHANGED <<gate, chain, sidecar, gone, latch, replay, commits, drops, deaths, raced, stranded>>

\* copyMissing carries a session that has no copy record.
RunCopies(s) ==
    /\ run.phase = "running" /\ s \notin run.copied
    /\ run' = [run EXCEPT !.copied = @ \cup {s}]
    /\ UNCHANGED <<gate, chain, disk, sidecar, gone, latch, replay, commits, drops, deaths, raced, stranded>>

MigrationEnds ==
    /\ run.phase = "running"
    /\ run' = [run EXCEPT !.phase = "none"]
    /\ UNCHANGED <<gate, chain, disk, sidecar, gone, latch, replay, commits, drops, deaths, raced, stranded>>

\* The daemon dies: closures, the replay and the hold are gone; the latch
\* starts owed.
Dies ==
    /\ deaths < MaxDeaths /\ deaths' = deaths + 1
    /\ chain' = [s \in Sessions |-> NoChain]
    /\ replay' = NoReplay /\ latch' = TRUE /\ stranded' = FALSE
    /\ run' = [run EXCEPT !.phase = "none"]
    /\ UNCHANGED <<gate, disk, sidecar, gone, commits, drops, raced>>

-----------------------------------------------------------------------------

Replaying ==
    \/ ReplayOrphans \/ ReplayUnlink \/ ReplayRename \/ ReplayReads \/ ReplayWrites
    \/ ReplayFails \/ ReplayReparks \/ ReplayFinishes \/ ReplayPends \/ ReplayClears
    \/ ReplaySettles \/ ReplayForgets

ParkNext ==
    \/ \E s \in Sessions : Compose(s) \/ ChainWrites(s) \/ ChainParks(s) \/ Delete(s) \/ RunCopies(s)
    \/ PauseOn \/ PauseOff
    \/ RefreshPause \/ Replaying
    \/ RunHeld \/ RunStarts \/ MigrationEnds \/ Dies

(* The refresh is a timer, a pause has a deadline, and a migration ends.    *)
ParkFairness ==
    /\ WF_parkVars(RefreshPause) /\ WF_parkVars(Replaying) /\ WF_parkVars(PauseOff)
    /\ WF_parkVars(RunStarts) /\ WF_parkVars(MigrationEnds)

ParkSpec == ParkInit(TRUE) /\ [][ParkNext]_parkVars /\ ParkFairness

-----------------------------------------------------------------------------

\* A commit whose sidecar was parked stays on disk until the sidecar reflects
\* it, and stays there then, whatever dies or fails in between, unless
\* the session is deleted.  A live commit that composes while the replay is
\* rewriting the same sidecar is the exception: nothing orders the two.
ReplayLosesNothing ==
    [][/\ \A e \in disk.park \cup disk.draining :
            \/ e \in (disk.park \cup disk.draining)'
            \/ e.at \in sidecar'[e.s] \/ e.s \in gone' \cup raced'
       /\ \A s \in Sessions \ (gone' \cup raced') : sidecar[s] \subseteq sidecar'[s]]_parkVars

\* A migration never runs over a copy record older than the sidecar a replay
\* rewrote: replay and run are exclusive, and a rewrite nobody could record
\* refuses the run.
NoStaleRecord == run.phase = "running" => run.stale = {}

\* The park empties once the gate stays open, unless its entries were parked
\* behind a drain that then cleared the latch, in a pause no refresh saw again.
ParkDrains == []<>(disk.park = {} \/ stranded)

=============================================================================
