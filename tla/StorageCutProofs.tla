-------------------------- MODULE StorageCutProofs --------------------------
(***************************************************************************)
(* The cut of StorageMigration: while a run holds its pause nothing moves  *)
(* in the source but what an outdated gate let through, no staging         *)
(* signature of before the barrier is left, nothing deleted comes back,    *)
(* and the target holds everything a client was told is stored.            *)
(*                                                                         *)
(* The argument goes in three layers.  HoldInv: from the barrier on the    *)
(* row the run armed is the newest, no signature of before outlives it,    *)
(* and a call in flight to the source is one that slipped.  DataInv, for a *)
(* session nobody deletes and none of whose calls slipped: the target      *)
(* never holds more than the source, and what the final delta is done with *)
(* is equal in both, until the store is rebound.  StrayHeld: what the      *)
(* target holds beyond the source is stamped as deleted and recorded as    *)
(* copied, so the tombstone replay removes it.                             *)
(***************************************************************************)
EXTENDS StorageMigrationProofs

(* The steps at which the run counts on the row it armed. *)
Watched == Pausing(eng) \/ (eng.stage = "quiesce" /\ eng.pc = "barrier")

RowHeld == Watched \/ eng.pc = "confirm" => row = eng.armed

SigHeld == crashes = 0 => /\ sig <= floor
                          /\ Pausing(eng) /\ ~lateSign => sig <= now

ReqsHeld == \A r \in reqs : /\ r.kind = "delete" => r.key \in tomb
                            /\ r.on = "target" => live = "target"
                            /\ r.pc = "flight" /\ Slips(r) => r.key \in slipped

HoldInv == RowHeld /\ SigHeld /\ ReqsHeld

-----------------------------------------------------------------------------
(* Where the run is in its pause.                                          *)

(* The barrier it passes with no call in flight and no signature left. *)
Passes == AwaitQuiesced /\ Quiet /\ slipped' = {} /\ lateSign' = FALSE

(* What no engine step touches, but for the barrier's two history variables. *)
LEMMA EngineFrame ==
  ASSUME Engine
  PROVE  /\ now' = now /\ timer' = timer /\ reqs' = reqs /\ floor' = floor /\ sig' = sig
         /\ crashes' = crashes /\ tomb' = tomb /\ acked' = acked
         /\ Passes \/ (slipped' = slipped /\ lateSign' = lateSign)
  BY DEF Engine, Start, ResumeCommand, CopyEnd, DeltaCheckEnd, ArmDrain, RunOff, ArmPause,
         ConfirmGate, AwaitQuiesced, ReadTombstones, RefuseLapse, SwapCredentials, RebindStore,
         VerifyEnd, ResumeIngest, FinishRun, Fail, CopyNext, CopyRead, CopyWrite, CopySide,
         RecordCopied, DeltaCheck, ReplayTombstone, VerifyTarget, engineFrame, memVars, runVars,
         pgVars, history, Passes

(* Only the barrier begins a pause. *)
LEMMA CopyPausing ==
  ASSUME MigTypes, Course(eng), NEW s \in Sessions,
         \/ CopyNext(s) \/ CopyRead(s) \/ CopyWrite(s) \/ CopySide(s) \/ RecordCopied(s)
         \/ DeltaCheck(s) \/ ReplayTombstone(s) \/ VerifyTarget(s)
  PROVE  /\ eng'.stage = eng.stage /\ eng'.pc \notin {"resume", "finish", "confirm", "barrier"}
         /\ Pausing(eng') = Pausing(eng)
<1>1. CASE CopyNext(s)
  BY <1>1, CopyNextDoes DEF CopyNext, Works, Pausing
<1>2. CASE CopyRead(s)
  BY <1>2, CopyReadDoes DEF CopyRead, Works, Pausing
<1>3. CASE CopyWrite(s)
  BY <1>3, CopyWriteDoes DEF CopyWrite, Works, Pausing
<1>4. CASE CopySide(s)
  BY <1>4, CopySideDoes DEF CopySide, Works, Pausing
<1>5. CASE RecordCopied(s)
  BY <1>5, RecordCopiedDoes DEF RecordCopied, Works, Pausing
<1>6. CASE DeltaCheck(s)
  BY <1>6, DeltaCheckDoes DEF DeltaCheck, Works, Pausing
<1>7. CASE ReplayTombstone(s)
  BY <1>7, ReplayTombstoneDoes DEF ReplayTombstone, Works, Pausing
<1>8. CASE VerifyTarget(s)
  BY <1>8, VerifyDoes DEF VerifyTarget, Works, Pausing
<1> QED
  BY <1>1, <1>2, <1>3, <1>4, <1>5, <1>6, <1>7, <1>8

LEMMA PausingBegins ==
  ASSUME MigTypes, Course(eng), Engine, Pausing(eng')
  PROVE  Pausing(eng) \/ Passes
<1>0. ~Pausing(Idle)
  BY DEF Idle, Pausing
<1>1. ASSUME NEW mode \in {"copy", "switch"}, Start(mode) PROVE FALSE
  BY <1>1, StartDoes DEF Works, Pausing
<1>2. CASE ResumeCommand
  BY <1>2 DEF ResumeCommand
<1>3. CASE CopyEnd
  BY <1>3, CopyEndDoes DEF CopyEnd, Course, Pausing
<1>4. CASE DeltaCheckEnd
  BY <1>4, DeltaCheckEndDoes DEF DeltaCheckEnd, Course, Pausing
<1>5. CASE ArmDrain \/ RunOff
  BY <1>5, ArmDrainDoes, RunOffDoes DEF RunOff, Course, Works, Pausing
<1>6. CASE ArmPause \/ ConfirmGate
  BY <1>6, ArmPauseDoes, ConfirmGateDoes DEF ArmPause, ConfirmGate, Course, Works, AbortOf, Pausing
<1>7. CASE AwaitQuiesced
  <2>1. eng.stage = "quiesce"
    BY <1>7 DEF AwaitQuiesced, Course
  <2>2. ~(AbortOf(eng, eng')) /\ ~Works(eng', eng.pc, eng.stage, eng.todo, eng.key)
    BY <2>1 DEF AbortOf, Works, Pausing
  <2>3. eng' # Abort(eng) /\ eng' # Beaten(eng)
    BY <2>1, AbortDoes, BeatenDoes DEF AbortOf, SameWork, Pausing
  <2> QED
    BY <1>7, <2>3 DEF AwaitQuiesced, Passes
<1>8. CASE ReadTombstones
  BY <1>8, ReadTombstonesDoes DEF ReadTombstones, Course, Works, Pausing
<1>9. CASE RefuseLapse
  BY <1>9 DEF RefuseLapse, Course, Pausing
<1>10. CASE SwapCredentials
  BY <1>10 DEF SwapCredentials, Course, Pausing
<1>11. CASE RebindStore \/ VerifyEnd \/ ResumeIngest
  BY <1>11, RebindStoreDoes, VerifyEndDoes, ResumeIngestDoes DEF Works, AbortOf, Pausing
<1>12. CASE FinishRun
  BY <1>0, <1>12 DEF FinishRun
<1>13. CASE Fail
  BY <1>0, <1>13, FailDoes DEF AbortOf, Pausing
<1>14. ASSUME NEW s \in Sessions,
              \/ CopyNext(s) \/ CopyRead(s) \/ CopyWrite(s) \/ CopySide(s) \/ RecordCopied(s)
              \/ DeltaCheck(s) \/ ReplayTombstone(s) \/ VerifyTarget(s)
       PROVE  Pausing(eng)
  BY <1>14, CopyPausing
<1> QED
  BY <1>1, <1>2, <1>3, <1>4, <1>5, <1>6, <1>7, <1>8, <1>9, <1>10, <1>11, <1>12, <1>13, <1>14
     DEF Engine

-----------------------------------------------------------------------------
(* The row.                                                                *)

(* A beat arms the row and remembers what it armed. *)
LEMMA BeatRow ==
  ASSUME BeatOf(eng, eng') \/ (SamePause(eng, eng') /\ row' = row), row = eng.armed
  PROVE  row' = eng'.armed
BY DEF BeatOf, SamePause

LEMMA CopyRow ==
  ASSUME MigTypes, Course(eng), RowHeld, NEW s \in Sessions,
         \/ CopyNext(s) \/ CopyRead(s) \/ CopyWrite(s) \/ CopySide(s) \/ RecordCopied(s)
         \/ DeltaCheck(s) \/ ReplayTombstone(s) \/ VerifyTarget(s)
  PROVE  RowHeld'
<1>1. /\ eng'.pc \notin {"confirm", "barrier"} /\ (Pausing(eng') = Pausing(eng))
  BY CopyPausing
<1> SUFFICES ASSUME Pausing(eng) PROVE row' = eng'.armed
  BY <1>1 DEF RowHeld, Watched
<1>2. row = eng.armed
  BY DEF RowHeld, Watched
<1>3. CASE CopyRead(s) \/ CopySide(s) \/ RecordCopied(s) \/ VerifyTarget(s)
  <2>1. row' = row
    BY <1>3 DEF CopyRead, CopySide, RecordCopied, VerifyTarget
  <2>2. SamePause(eng, eng')
    BY <1>3, CopyReadDoes, CopySideDoes, RecordCopiedDoes, VerifyDoes
  <2> QED
    BY <1>2, <2>1, <2>2, BeatRow
<1>4. CASE CopyNext(s) \/ CopyWrite(s) \/ DeltaCheck(s) \/ ReplayTombstone(s)
  <2>1. PulseOf(eng, eng')
    BY <1>4, CopyNextDoes, CopyWriteDoes, DeltaCheckDoes, ReplayTombstoneDoes
  <2> QED
    BY <1>2, <2>1, BeatRow DEF PulseOf
<1> QED
  BY <1>3, <1>4

LEMMA EngineRow ==
  ASSUME MigTypes, Course(eng), RowHeld, Engine
  PROVE  RowHeld'
<1>0. Idle.pc = "idle" /\ Idle.stage = "bulk"
  BY DEF Idle
<1> SUFFICES ASSUME Watched' \/ eng'.pc = "confirm" PROVE row' = eng'.armed
  BY DEF RowHeld
<1>1. ASSUME NEW mode \in {"copy", "switch"}, Start(mode) PROVE FALSE
  BY <1>1, StartDoes DEF Works, Watched, Pausing
<1>2. ~ResumeCommand
  BY <1>0 DEF ResumeCommand, Course, Watched, Pausing
<1>3. CASE CopyEnd
  <2>1. Pausing(eng) /\ SamePause(eng, eng') /\ row' = row
    BY <1>3, CopyEndDoes DEF CopyEnd, Course, Watched, Pausing
  <2> QED
    BY <2>1, BeatRow DEF RowHeld, Watched
<1>4. CASE DeltaCheckEnd
  <2>1. Pausing(eng) /\ SamePause(eng, eng') /\ row' = row
    BY <1>4, DeltaCheckEndDoes DEF DeltaCheckEnd, Course, Watched, Pausing
  <2> QED
    BY <2>1, BeatRow DEF RowHeld, Watched
<1>5. ~ArmDrain /\ ~RunOff
  BY ArmDrainDoes, RunOffDoes DEF RunOff, Course, Works, Watched, Pausing
<1>6. CASE ArmPause
  BY <1>6, ArmPauseDoes
<1>7. CASE ConfirmGate
  <2>1. eng.pc = "confirm" /\ row' = row /\ SamePause(eng, eng')
    BY <1>7, ConfirmGateDoes DEF ConfirmGate, AbortOf
  <2> QED
    BY <2>1, BeatRow DEF RowHeld
<1>8. CASE AwaitQuiesced
  <2>1. Watched
    BY <1>8 DEF AwaitQuiesced, Course, Watched
  <2>2. BeatOf(eng, eng') \/ (SamePause(eng, eng') /\ row' = row)
    BY <1>8, AwaitQuiescedDoes DEF AbortOf
  <2> QED
    BY <2>1, <2>2, BeatRow DEF RowHeld
<1>9. CASE ReadTombstones
  <2>1. Watched
    BY <1>9 DEF ReadTombstones, Course, Watched, Pausing
  <2>2. PulseOf(eng, eng')
    BY <1>9, ReadTombstonesDoes
  <2> QED
    BY <2>1, <2>2, BeatRow DEF RowHeld, PulseOf
<1>10. CASE RefuseLapse
  <2>1. Watched /\ row' = row
    BY <1>10 DEF RefuseLapse, Course, Watched, Pausing
  <2> QED
    BY <1>10, <2>1, RefuseLapseDoes, BeatRow DEF RowHeld
<1>11. CASE SwapCredentials
  <2>1. Watched /\ row' = row
    BY <1>11 DEF SwapCredentials, Course, Watched, Pausing
  <2> QED
    BY <1>11, <2>1, SwapCredentialsDoes, BeatRow DEF RowHeld
<1>12. ~RebindStore /\ ~VerifyEnd /\ ~ResumeIngest
  BY RebindStoreDoes, VerifyEndDoes, ResumeIngestDoes DEF Works, AbortOf, Watched, Pausing
<1>13. ~FinishRun
  BY <1>0 DEF FinishRun, Watched, Pausing
<1>14. ~Fail
  BY <1>0, FailDoes DEF AbortOf, Watched, Pausing
<1>15. ASSUME NEW s \in Sessions,
              \/ CopyNext(s) \/ CopyRead(s) \/ CopyWrite(s) \/ CopySide(s) \/ RecordCopied(s)
              \/ DeltaCheck(s) \/ ReplayTombstone(s) \/ VerifyTarget(s)
       PROVE  row' = eng'.armed
  BY <1>15, CopyRow DEF RowHeld
<1> QED
  BY <1>1, <1>2, <1>3, <1>4, <1>5, <1>6, <1>7, <1>8, <1>9, <1>10, <1>11, <1>12, <1>13, <1>14,
     <1>15 DEF Engine

LEMMA RowKept ==
  ASSUME MigTypes, Course(eng), RowHeld, [Next]_vars
  PROVE  RowHeld'
<1>1. CASE Clients \/ TimerRead \/ TimerObserve \/ Tick \/ UNCHANGED vars
  <2>1. eng' = eng /\ row' = row
    BY <1>1 DEF Clients, Sign, MarkSessionDeleted, Request, Gated, Land, TimerRead, TimerObserve,
                Tick, vars
  <2> QED
    BY <2>1 DEF RowHeld, Watched
<1>2. CASE Crash
  BY <1>2 DEF Crash, Idle, RowHeld, Watched, Pausing
<1> QED
  BY <1>1, <1>2, EngineRow DEF Next

-----------------------------------------------------------------------------
(* The signatures.                                                         *)

LEMMA SigKept ==
  ASSUME MigTypes, Course(eng), SigHeld, [Next]_vars
  PROVE  SigHeld'
<1>0. /\ now \in Nat /\ floor \in Nat /\ sig \in Nat /\ crashes \in Nat
  BY DEF MigTypes
<1>1. CASE Engine
  <2>1. /\ now' = now /\ floor' = floor /\ sig' = sig /\ crashes' = crashes
        /\ Passes \/ (slipped' = slipped /\ lateSign' = lateSign)
    BY <1>1, EngineFrame
  <2>2. CASE Passes
    <3>1. floor <= now
      BY <1>0, <2>2 DEF Passes, Quiet
    <3> QED
      BY <1>0, <2>1, <3>1 DEF SigHeld
  <2>3. CASE ~Passes
    <3>1. Pausing(eng') => Pausing(eng)
      BY <1>1, <2>3, PausingBegins
    <3> QED
      BY <2>1, <2>3, <3>1 DEF SigHeld
  <2> QED
    BY <2>2, <2>3
<1>2. CASE Crash
  <2>1. crashes' = crashes + 1
    BY <1>2 DEF Crash
  <2> QED
    BY <1>0, <2>1 DEF SigHeld
<1>3. CASE Sign
  <2>1. PICK ttl \in Nat : floor' = FloorRaised(ttl) /\ sig' = Maximum(sig, now + ttl)
    BY <1>3, ConstantsTyped DEF Sign
  <2> DEFINE n == now + ttl
  <2>2. n \in Nat
    BY <1>0
  <2>3. floor' = Maximum(floor, n) /\ sig' = Maximum(sig, n)
    BY <2>1 DEF FloorRaised
  <2> HIDE DEF n
  <2>4. sig <= floor => sig' <= floor'
    BY <1>0, <2>2, <2>3 DEF Maximum
  <2>5. crashes' = crashes /\ eng' = eng /\ lateSign' = (lateSign \/ Pausing(eng))
    BY <1>3 DEF Sign
  <2>6. ~(Pausing(eng') /\ ~lateSign')
    BY <2>5, Zenon
  <2> QED
    BY <2>4, <2>5, <2>6 DEF SigHeld
<1>4. CASE Tick
  <2>1. /\ now' = now + 1 /\ floor' = floor /\ sig' = sig /\ crashes' = crashes /\ eng' = eng
        /\ lateSign' = lateSign
    BY <1>4 DEF Tick, memVars, history
  <2> QED
    BY <1>0, <2>1 DEF SigHeld
<1>5. ASSUME \/ TimerRead \/ TimerObserve \/ UNCHANGED vars
             \/ \E s \in Sessions : MarkSessionDeleted(s)
             \/ \E s \in Sessions, kind \in {"append", "side", "delete"} : Request(s, kind)
             \/ \E r \in reqs : Gated(r) \/ Land(r)
      PROVE  SigHeld'
  <2>1. /\ now' = now /\ floor' = floor /\ sig' = sig /\ crashes' = crashes /\ eng' = eng
        /\ lateSign' = lateSign
    BY <1>5 DEF TimerRead, TimerObserve, vars, MarkSessionDeleted, Request, Gated, Land, memVars,
                runVars, history
  <2> QED
    BY <2>1 DEF SigHeld
<1> QED
  BY <1>1, <1>2, <1>3, <1>4, <1>5 DEF Next, Clients

-----------------------------------------------------------------------------
(* The clients' calls.                                                     *)

LEMMA EngineReqs ==
  ASSUME MigTypes, Course(eng), ReqsHeld, Engine
  PROVE  ReqsHeld'
<1>1. /\ reqs' = reqs /\ tomb' = tomb
      /\ Passes \/ slipped' = slipped
  BY EngineFrame
<1>2. live' = live \/ live' = "target"
  BY DEF Engine, Start, ResumeCommand, CopyEnd, DeltaCheckEnd, ArmDrain, RunOff, ArmPause,
         ConfirmGate, AwaitQuiesced, ReadTombstones, RefuseLapse, SwapCredentials, RebindStore,
         VerifyEnd, ResumeIngest, FinishRun, Fail, CopyNext, CopyRead, CopyWrite, CopySide,
         RecordCopied, DeltaCheck, ReplayTombstone, VerifyTarget, engineFrame
<1>3. CASE Passes
  <2>1. \A r \in reqs : r.pc # "flight"
    BY <1>3 DEF Passes, Quiet
  <2> QED
    BY <1>1, <1>2, <2>1 DEF ReqsHeld
<1>4. CASE ~Passes
  <2>1. Pausing(eng') => Pausing(eng)
    BY <1>4, PausingBegins
  <2>2. creds' = "target" => creds = "target" \/ Pausing(eng)
    <3>1. CASE SwapCredentials
      BY <3>1 DEF SwapCredentials, Course, Pausing
    <3>2. CASE ~SwapCredentials
      <4>1. creds' = creds
        BY <3>2 DEF Engine, Start, ResumeCommand, CopyEnd, DeltaCheckEnd, ArmDrain, RunOff, ArmPause,
         ConfirmGate, AwaitQuiesced, ReadTombstones, RefuseLapse, RebindStore,
         VerifyEnd, ResumeIngest, FinishRun, Fail, CopyNext, CopyRead, CopyWrite, CopySide,
         RecordCopied, DeltaCheck, ReplayTombstone, VerifyTarget, engineFrame
      <4> QED
        BY <4>1
    <3> QED
      BY <3>1, <3>2
  <2>3. \A r \in reqs : Slips(r)' => Slips(r)
    BY <2>1, <2>2 DEF Slips
  <2> QED
    BY <1>1, <1>2, <1>4, <2>3 DEF ReqsHeld
<1> QED
  BY <1>3, <1>4

LEMMA ClientReqs ==
  ASSUME MigTypes, ReqsHeld, Clients
  PROVE  ReqsHeld'
<1>1. eng' = eng /\ creds' = creds /\ live' = live
  BY DEF Clients, Sign, MarkSessionDeleted, Request, Gated, Land
<1>2. \A r : Slips(r)' = Slips(r)
  BY <1>1 DEF Slips
<1>3. ASSUME NEW s \in Sessions, NEW kind \in {"append", "side", "delete"}, Request(s, kind)
      PROVE  ReqsHeld'
  <2>1. /\ tomb' = tomb /\ slipped' = slipped /\ (kind = "delete" => s \in tomb)
        /\ reqs' = reqs \union {[key |-> s, kind |-> kind, on |-> live, pc |-> "held"]}
    BY <1>3 DEF Request, pgVars, history
  <2> QED
    BY <1>1, <1>2, <2>1 DEF ReqsHeld
<1>4. ASSUME NEW r \in reqs, Gated(r) PROVE ReqsHeld'
  <2>1. /\ tomb' = tomb /\ slipped \subseteq slipped'
        /\ GateShut => reqs' = reqs \ {r}
        /\ ~GateShut => /\ reqs' = (reqs \ {r}) \union {[r EXCEPT !.pc = "flight"]}
                        /\ Slips(r) => r.key \in slipped'
    BY <1>4 DEF Gated, pgVars
  <2>2. CASE GateShut
    BY <1>1, <1>2, <2>1, <2>2 DEF ReqsHeld
  <2>3. CASE ~GateShut
    <3>1. PICK f : f = [r EXCEPT !.pc = "flight"]
      OBVIOUS
    <3>2. f.key = r.key /\ f.kind = r.kind /\ f.on = r.on
      BY <3>1 DEF MigTypes, Requests
    <3>3. Slips(f) => Slips(r)
      BY <3>2 DEF Slips
    <3>4. /\ f.kind = "delete" => f.key \in tomb'
          /\ f.on = "target" => live' = "target"
          /\ Slips(f)' => f.key \in slipped'
      BY <1>1, <1>2, <2>1, <2>3, <3>2, <3>3 DEF ReqsHeld
    <3>5. \A q \in reqs : /\ q.kind = "delete" => q.key \in tomb'
                          /\ q.on = "target" => live' = "target"
                          /\ q.pc = "flight" /\ Slips(q)' => q.key \in slipped'
      BY <1>1, <1>2, <2>1 DEF ReqsHeld
    <3>6. \A q \in reqs' : q \in reqs \/ q = f
      BY <2>1, <2>3, <3>1
    <3> QED
      BY <3>4, <3>5, <3>6 DEF ReqsHeld
  <2> QED
    BY <2>2, <2>3
<1>5. ASSUME Sign \/ (\E s \in Sessions : MarkSessionDeleted(s)) \/ \E r \in reqs : Land(r)
      PROVE  ReqsHeld'
  <2>1. reqs' \subseteq reqs /\ tomb \subseteq tomb' /\ slipped' = slipped
    BY <1>5 DEF Sign, MarkSessionDeleted, Land, pgVars, history
  <2> QED
    BY <1>1, <1>2, <2>1 DEF ReqsHeld
<1> QED
  BY <1>3, <1>4, <1>5 DEF Clients

LEMMA HoldKept ==
  ASSUME MigTypes, Course(eng), HoldInv, [Next]_vars
  PROVE  HoldInv'
<1>1. RowHeld' /\ SigHeld'
  BY RowKept, SigKept DEF HoldInv
<1>2. ReqsHeld'
  <2>1. CASE Crash
    BY <2>1 DEF Crash, ReqsHeld
  <2>2. CASE TimerRead \/ TimerObserve \/ Tick \/ UNCHANGED vars
    <3>1. /\ eng' = eng /\ creds' = creds /\ live' = live /\ reqs' = reqs /\ tomb' = tomb
          /\ slipped' = slipped
      BY <2>2 DEF TimerRead, TimerObserve, Tick, vars, pgVars, history
    <3> QED
      BY <3>1 DEF HoldInv, ReqsHeld, Slips
  <2> QED
    BY <2>1, <2>2, ClientReqs, EngineReqs DEF Next, HoldInv
<1> QED
  BY <1>1, <1>2 DEF HoldInv

-----------------------------------------------------------------------------
(* Which bucket the process serves from, and when it may differ from the one   *)
(* credentials.json names.                                                     *)

BindHeld ==
  /\ live = "target" \/ eng.switched => creds = "target"
  /\ creds = "target" => eng.pc \in {"rebind", "verify", "resume", "finish", "idle"}
  /\ eng.pc = "rebind" => creds = "target" /\ live = "source"

LEMMA CopyBind ==
  ASSUME MigTypes, Course(eng), BindHeld, NEW s \in Sessions,
         \/ CopyNext(s) \/ CopyRead(s) \/ CopyWrite(s) \/ CopySide(s) \/ RecordCopied(s)
         \/ DeltaCheck(s) \/ ReplayTombstone(s) \/ VerifyTarget(s)
  PROVE  BindHeld'
<1>0. creds' = creds /\ live' = live
  BY DEF CopyNext, CopyRead, CopyWrite, CopySide, RecordCopied, DeltaCheck, ReplayTombstone,
         VerifyTarget, engineFrame
<1>1. eng'.switched = eng.switched /\ eng'.pc # "rebind"
  <2>1. CASE CopyNext(s)
    BY <2>1, CopyNextDoes DEF Works, PulseOf, BeatOf, SamePause
  <2>2. CASE CopyRead(s)
    BY <2>2, CopyReadDoes DEF Works, SamePause
  <2>3. CASE CopyWrite(s)
    BY <2>3, CopyWriteDoes DEF Works, PulseOf, BeatOf, SamePause
  <2>4. CASE CopySide(s)
    BY <2>4, CopySideDoes DEF Works, SamePause
  <2>5. CASE RecordCopied(s)
    BY <2>5, RecordCopiedDoes DEF Works, SamePause
  <2>6. CASE DeltaCheck(s)
    BY <2>6, DeltaCheckDoes DEF Works, PulseOf, BeatOf, SamePause
  <2>7. CASE ReplayTombstone(s)
    BY <2>7, ReplayTombstoneDoes DEF Works, PulseOf, BeatOf, SamePause
  <2>8. CASE VerifyTarget(s)
    BY <2>8, VerifyDoes DEF VerifyTarget, Works, SamePause
  <2> QED
    BY <2>1, <2>2, <2>3, <2>4, <2>5, <2>6, <2>7, <2>8
<1>2. CASE VerifyTarget(s)
  BY <1>0, <1>1, <1>2, VerifyDoes DEF VerifyTarget, Works, BindHeld
<1>3. CASE ~VerifyTarget(s)
  <2>1. creds # "target"
    BY <1>3 DEF BindHeld, CopyNext, CopyRead, CopyWrite, CopySide, RecordCopied, DeltaCheck,
                ReplayTombstone
  <2> QED
    BY <1>0, <1>1, <2>1 DEF BindHeld
<1> QED
  BY <1>2, <1>3

(* A step that neither swaps nor rebinds. *)
LEMMA BindStays ==
  ASSUME BindHeld, creds' = creds, live' = live,
         eng'.switched => eng.switched, eng'.pc # "rebind",
         creds = "target" => /\ eng.pc # "rebind"
                             /\ eng'.pc \in {"verify", "resume", "finish", "idle"}
  PROVE  BindHeld'
BY DEF BindHeld

LEMMA EngineBind ==
  ASSUME MigTypes, Course(eng), BindHeld, Engine
  PROVE  BindHeld'
<1>0. Idle.pc = "idle" /\ Idle.switched = FALSE
  BY DEF Idle
<1>1. ASSUME NEW mode \in {"copy", "switch"}, Start(mode) PROVE BindHeld'
  <2>1. creds' = creds /\ live' = live /\ creds # "target"
    BY <1>1 DEF Start
  <2> QED
    BY <1>1, <2>1, StartDoes, BindStays DEF Works
<1>2. CASE ResumeCommand
  BY <1>2 DEF ResumeCommand, BindHeld
<1>3. ASSUME \/ CopyEnd \/ DeltaCheckEnd \/ ArmDrain \/ RunOff \/ ArmPause \/ ConfirmGate
             \/ AwaitQuiesced \/ ReadTombstones \/ RefuseLapse
      PROVE  BindHeld'
  <2>1. creds' = creds /\ live' = live
    BY <1>3 DEF CopyEnd, DeltaCheckEnd, ArmDrain, RunOff, ArmPause, ConfirmGate, AwaitQuiesced,
                ReadTombstones, RefuseLapse, engineFrame
  <2>2. creds # "target"
    BY <1>3 DEF BindHeld, CopyEnd, DeltaCheckEnd, ArmDrain, RunOff, ArmPause, ConfirmGate,
                AwaitQuiesced, ReadTombstones, RefuseLapse
  <2>3. eng'.switched = eng.switched /\ eng'.pc # "rebind"
    <3>1. CASE CopyEnd
      BY <3>1, CopyEndDoes DEF CopyEnd, Course, SamePause
    <3>2. CASE DeltaCheckEnd
      BY <3>2, DeltaCheckEndDoes DEF DeltaCheckEnd, Course, SamePause
    <3>3. CASE ArmDrain
      BY <3>3, ArmDrainDoes DEF Works, SamePause
    <3>4. CASE RunOff
      BY <3>4, RunOffDoes DEF SamePause
    <3>5. CASE ArmPause
      BY <3>5, ArmPauseDoes DEF Works
    <3>6. CASE ConfirmGate
      BY <3>6, ConfirmGateDoes DEF Works, AbortOf, SamePause
    <3>7. CASE AwaitQuiesced
      BY <3>7, AwaitQuiescedDoes DEF AwaitQuiesced, Works, AbortOf, SamePause, BeatOf
    <3>8. CASE ReadTombstones
      BY <3>8, ReadTombstonesDoes DEF Works, PulseOf, BeatOf, SamePause
    <3>9. CASE RefuseLapse
      BY <3>9, RefuseLapseDoes DEF Works, AbortOf, SamePause
    <3> QED
      BY <1>3, <3>1, <3>2, <3>3, <3>4, <3>5, <3>6, <3>7, <3>8, <3>9
  <2> QED
    BY <2>1, <2>2, <2>3, BindStays
<1>4. CASE SwapCredentials
  <2>1. creds # "target" /\ live = "source"
    BY <1>4 DEF SwapCredentials, BindHeld, MigTypes, Buckets
  <2> QED
    BY <1>4, <2>1, SwapCredentialsDoes DEF SwapCredentials, Works, BindHeld
<1>5. CASE RebindStore
  <2>1. creds' = "target"
    BY <1>5 DEF RebindStore, BindHeld
  <2> QED
    BY <1>5, <2>1, RebindStoreDoes DEF BindHeld
<1>6. CASE VerifyEnd
  <2>1. creds' = creds /\ live' = live /\ eng.pc = "verify"
    BY <1>6 DEF VerifyEnd, engineFrame
  <2> QED
    BY <1>6, <2>1, VerifyEndDoes, BindStays DEF AbortOf, SamePause
<1>7. CASE ResumeIngest
  <2>1. creds' = creds /\ live' = live /\ eng.pc = "resume"
    BY <1>7 DEF ResumeIngest
  <2> QED
    BY <1>7, <2>1, ResumeIngestDoes, BindStays DEF Works, SamePause
<1>8. CASE FinishRun
  <2>1. /\ creds' = creds /\ live' = live /\ eng.pc = "finish"
        /\ eng' = Idle
    BY <1>8 DEF FinishRun
  <2> QED
    BY <1>0, <2>1, BindStays
<1>9. CASE Fail
  <2>1. /\ creds' = creds /\ live' = live
        /\ eng.pc \notin {"idle", "rebind", "verify", "resume", "finish"}
    BY <1>9 DEF Fail
  <2>2. creds # "target"
    BY <2>1 DEF BindHeld
  <2> QED
    BY <1>0, <1>9, <2>1, <2>2, FailDoes, BindStays DEF AbortOf, SamePause
<1>10. ASSUME NEW s \in Sessions,
              \/ CopyNext(s) \/ CopyRead(s) \/ CopyWrite(s) \/ CopySide(s) \/ RecordCopied(s)
              \/ DeltaCheck(s) \/ ReplayTombstone(s) \/ VerifyTarget(s)
       PROVE  BindHeld'
  BY <1>10, CopyBind
<1> QED
  BY <1>1, <1>2, <1>3, <1>4, <1>5, <1>6, <1>7, <1>8, <1>9, <1>10 DEF Engine

LEMMA BindKept ==
  ASSUME MigTypes, Course(eng), BindHeld, [Next]_vars
  PROVE  BindHeld'
<1>1. CASE Clients \/ TimerRead \/ TimerObserve \/ Tick
  <2>1. eng' = eng /\ creds' = creds /\ live' = live
    BY <1>1 DEF Clients, Sign, MarkSessionDeleted, Request, Gated, Land, TimerRead, TimerObserve, Tick
  <2> QED
    BY <2>1 DEF BindHeld
<1>2. CASE Crash
  <2>1. eng' = Idle /\ creds' = creds /\ live' = creds
    BY <1>2 DEF Crash
  <2> QED
    BY <2>1 DEF BindHeld, Idle
<1>3. CASE UNCHANGED vars
  BY <1>3 DEF vars, BindHeld
<1> QED
  BY <1>1, <1>2, <1>3, EngineBind DEF Next

-----------------------------------------------------------------------------
(* The data, session by session.  Source and target hold one object of each    *)
(* session; only client calls write where the process serves from, and only    *)
(* the engine writes to the target before the cut.                             *)

Same(s) == Target(s) = Source(s)

(* Before the cut the source is what clients were told, and no copy is ahead of
   it. *)
Below(s) ==
  live = "source" =>
    /\ Source(s) = acked[s]
    /\ Source(s).log = 0 => Source(s).side = 0
    /\ \A r \in reqs : r.key = s /\ r.kind = "side" => Source(s).log > 0
    /\ Target(s).log <= Source(s).log /\ Target(s).side <= Source(s).side
    /\ s \in eng.key => /\ eng.pc = "write" => eng.buf.log <= Source(s).log
                        /\ eng.pc = "side" => eng.buf.side <= Source(s).side

(* What the final delta still has to carry, and that everything else is equal in
   both buckets. *)
Carried(s) ==
  Pausing(eng) =>
    /\ eng.pc = "check" => s \in eng.todo \union eng.behind \/ Same(s)
    /\ eng.pc \in {"copy"} \union InHand => s \in eng.todo \union eng.key \/ Same(s)
    /\ s \in eng.key => /\ eng.pc = "write" => eng.buf.log = Source(s).log
                        /\ eng.pc = "side" => /\ Target(s).log = Source(s).log
                                              /\ eng.buf.side = Source(s).side
                        /\ eng.pc = "record" => Same(s)
    /\ eng.pc \in {"tombs", "replay", "arm", "confirm", "swap", "rebind"} => Same(s)

(* What is swapped to is equal in both, until the store is rebound, by this
   process or by the next one. *)
Swapped(s) == creds = "target" /\ live = "source" => Same(s)

(* After the cut the target is what clients were told. *)
Served(s) == live = "target" => Target(s) = acked[s]

(* A session the final delta found behind is copied again, whatever an earlier
   run recorded of it; and only deleted sessions are replayed. *)
TodoHeld ==
  /\ eng.stage = "final" /\ eng.pc \in {"copy"} \union InHand =>
       eng.todo \intersect eng.done = {} /\ eng.key \intersect eng.todo = {}
  /\ eng.pc = "replay" => eng.todo \subseteq tomb

DataInv ==
  /\ TodoHeld
  /\ \A s \in Sessions \ tomb : Below(s)
  /\ \A s \in Sessions \ (tomb \union slipped) : Carried(s) /\ Swapped(s) /\ Served(s)

LEMMA ContentEqual ==
  ASSUME NEW a \in Content, NEW b \in Content, a.log = b.log, a.side = b.side
  PROVE  a = b
BY DEF Content

LEMMA ObjectsTyped ==
  ASSUME MigTypes, NEW s \in Sessions
  PROVE  /\ Source(s) \in Content /\ Target(s) \in Content /\ acked[s] \in Content
         /\ Source(s).log \in Nat /\ Source(s).side \in Nat
         /\ Target(s).log \in Nat /\ Target(s).side \in Nat
         /\ eng.buf.log \in Nat /\ eng.buf.side \in Nat
<1>1. Source(s) \in Content /\ Target(s) \in Content /\ acked[s] \in Content /\ eng.buf \in Content
  BY DEF MigTypes, Source, Target, Buckets, Locals
<1> QED
  BY <1>1 DEF Content

(* The steps of the engine that neither read nor write an object. *)
Apart ==
  \/ \E mode \in {"copy", "switch"} : Start(mode)
  \/ ResumeCommand \/ CopyEnd \/ DeltaCheckEnd \/ ArmDrain \/ RunOff \/ ArmPause \/ ConfirmGate
  \/ AwaitQuiesced \/ ReadTombstones \/ RefuseLapse \/ SwapCredentials \/ RebindStore \/ VerifyEnd
  \/ ResumeIngest \/ FinishRun \/ Fail
  \/ \E s \in Sessions : CopyNext(s) \/ RecordCopied(s) \/ DeltaCheck(s) \/ VerifyTarget(s)

LEMMA EngineSplit ==
  ASSUME Engine
  PROVE  Apart \/ \E s \in Sessions : CopyRead(s) \/ CopyWrite(s) \/ CopySide(s) \/ ReplayTombstone(s)
BY DEF Engine, Apart

LEMMA ApartDoes ==
  ASSUME MigTypes, Course(eng), BindHeld, Apart
  PROVE  /\ bucket' = bucket /\ acked' = acked /\ reqs' = reqs /\ tomb' = tomb
         /\ live' = "source" => live = "source"
         /\ eng'.pc \notin {"write", "side"}
<1>1. /\ bucket' = bucket /\ acked' = acked /\ reqs' = reqs /\ tomb' = tomb
      /\ live' = live \/ live' = "target"
  BY DEF Apart, Start, ResumeCommand, CopyEnd, DeltaCheckEnd, ArmDrain, RunOff, ArmPause,
         ConfirmGate, AwaitQuiesced, ReadTombstones, RefuseLapse, SwapCredentials, RebindStore,
         VerifyEnd, ResumeIngest, FinishRun, Fail, CopyNext, RecordCopied, DeltaCheck, VerifyTarget,
         engineFrame, pgVars, runVars, history
<1>0. Idle.pc = "idle"
  BY DEF Idle
<1>2. CASE \E mode \in {"copy", "switch"} : Start(mode)
  <2>1. PICK mode \in {"copy", "switch"} : Start(mode)
    BY <1>2
  <2> QED
    BY <1>1, <2>1, StartDoes DEF Works
<1>3. CASE ResumeCommand \/ FinishRun
  BY <1>0, <1>1, <1>3 DEF ResumeCommand, FinishRun
<1>4. CASE CopyEnd \/ DeltaCheckEnd
  BY <1>1, <1>4, CopyEndDoes, DeltaCheckEndDoes DEF CopyEnd, DeltaCheckEnd, Course
<1>5. CASE ArmDrain \/ RunOff \/ ArmPause \/ ConfirmGate
  BY <1>1, <1>5, ArmDrainDoes, RunOffDoes, ArmPauseDoes, ConfirmGateDoes DEF Works, AbortOf
<1>6. CASE AwaitQuiesced \/ ReadTombstones \/ RefuseLapse
  BY <1>1, <1>6, AwaitQuiescedDoes, ReadTombstonesDoes, RefuseLapseDoes
     DEF AwaitQuiesced, Works, AbortOf
<1>7. CASE SwapCredentials \/ RebindStore \/ VerifyEnd \/ ResumeIngest
  BY <1>1, <1>7, SwapCredentialsDoes, RebindStoreDoes, VerifyEndDoes, ResumeIngestDoes
     DEF Works, AbortOf
<1>8. CASE Fail
  BY <1>0, <1>1, <1>8, FailDoes DEF AbortOf
<1>9. ASSUME NEW s \in Sessions, CopyNext(s) \/ RecordCopied(s) \/ DeltaCheck(s) \/ VerifyTarget(s)
      PROVE  eng'.pc \notin {"write", "side"}
  BY <1>9, CopyNextDoes, RecordCopiedDoes, DeltaCheckDoes, VerifyDoes DEF VerifyTarget, Works
<1> QED
  BY <1>1, <1>2, <1>3, <1>4, <1>5, <1>6, <1>7, <1>8, <1>9 DEF Apart

(* A step that moves no object and puts none in hand. *)
LEMMA BelowStays ==
  ASSUME NEW s \in Sessions, Below(s), bucket' = bucket, acked' = acked, reqs' \subseteq reqs,
         live' = "source" => live = "source",
         eng' = eng \/ eng'.pc \notin {"write", "side"}
  PROVE  Below(s)'
BY DEF Below, Source, Target

LEMMA ClientBelow ==
  ASSUME MigTypes, HoldInv, Clients, NEW s \in Sessions, s \notin tomb', Below(s)
  PROVE  Below(s)'
<1>0. live' = live /\ eng' = eng /\ s \notin tomb
  BY DEF Clients, Sign, MarkSessionDeleted, Request, Gated, Land, pgVars
<1>1. CASE Sign
  BY <1>0, <1>1, BelowStays DEF Sign
<1>2. ASSUME NEW t \in Sessions, MarkSessionDeleted(t) PROVE Below(s)'
  BY <1>0, <1>2, BelowStays DEF MarkSessionDeleted, history
<1>3. ASSUME NEW t \in Sessions, NEW kind \in {"append", "side", "delete"}, Request(t, kind)
      PROVE  Below(s)'
  <2>1. /\ bucket' = bucket /\ acked' = acked
        /\ reqs' = reqs \union {[key |-> t, kind |-> kind, on |-> live, pc |-> "held"]}
        /\ kind = "side" => t \in Held(live)
    BY <1>3 DEF Request, history
  <2>2. live = "source" /\ kind = "side" => Source(t).log > 0
    BY <2>1 DEF Held, Source
  <2>3. /\ live = "source" =>
             \A r \in reqs' : r.key = s /\ r.kind = "side" => Source(s).log > 0
    BY <2>1, <2>2 DEF Below
  <2> QED
    BY <1>0, <2>1, <2>3 DEF Below, Source, Target
<1>4. ASSUME NEW r \in reqs, Gated(r) PROVE Below(s)'
  <2>1. /\ bucket' = bucket /\ acked' = acked
        /\ \A q \in reqs' : \E p \in reqs : q.key = p.key /\ q.kind = p.kind
    <3>1. [r EXCEPT !.pc = "flight"].key = r.key /\ [r EXCEPT !.pc = "flight"].kind = r.kind
      BY DEF MigTypes, Requests
    <3> QED
      BY <1>4, <3>1 DEF Gated
  <2> QED
    BY <1>0, <2>1 DEF Below, Source, Target
<1>5. ASSUME NEW r \in reqs, Land(r) PROVE Below(s)'
  <2>0. /\ reqs' = reqs \ {r} /\ (r.kind = "delete" => r.key \in tomb)
        /\ (live = "source" => r.on = "source")
        /\ r.key \in Sessions /\ r.on \in Buckets /\ r.kind \in {"append", "side", "delete"}
    BY <1>5 DEF Land, HoldInv, ReqsHeld, MigTypes, Requests, Buckets
  <2>1. CASE r.key # s
    <3>1. bucket'["source"][s] = bucket["source"][s] /\ bucket'["target"][s] = bucket["target"][s]
          /\ acked'[s] = acked[s]
      BY <1>5, <2>1, LandDoes DEF Buckets
    <3> QED
      BY <1>0, <2>0, <3>1 DEF Below, Source, Target
  <2>2. CASE r.key = s
    <3> SUFFICES ASSUME live = "source" PROVE Below(s)'
      BY <1>0 DEF Below
    <3>1. /\ Target(s)' = Target(s)
          /\ Source(s)' \in Content /\ acked'[s] \in Content
      BY <1>5, <2>0, LandDoes DEF Source, Target, Buckets
    <3>2. /\ Source(s) = acked[s] /\ (Source(s).log = 0 => Source(s).side = 0)
          /\ (r.kind = "side" => Source(s).log > 0)
          /\ Target(s).log <= Source(s).log /\ Target(s).side <= Source(s).side
      BY <2>2 DEF Below
    <3>3. \/ /\ Source(s)'.log = Source(s).log + 1 /\ Source(s)'.side = Source(s).side
             /\ acked'[s].log = acked[s].log + 1 /\ acked'[s].side = acked[s].side
          \/ /\ r.kind = "side"
             /\ Source(s)'.log = Source(s).log /\ Source(s)'.side = acked[s].side + 1
             /\ acked'[s].log = acked[s].log /\ acked'[s].side = acked[s].side + 1
      BY <1>0, <1>5, <2>0, <2>2, LandDoes DEF Source
    <3>4. Source(s)' = acked'[s]
      BY <3>1, <3>2, <3>3, ContentEqual
    <3>5. /\ Source(s).log <= Source(s)'.log /\ Source(s).side <= Source(s)'.side
          /\ Source(s)'.log > 0 /\ Source(s)'.log \in Nat /\ Source(s)'.side \in Nat
      BY <3>2, <3>3, ObjectsTyped
    <3>6. Target(s)'.log <= Source(s)'.log /\ Target(s)'.side <= Source(s)'.side
      BY <3>1, <3>2, <3>5, ObjectsTyped
    <3>7. s \in eng.key => /\ eng.pc = "write" => eng.buf.log <= Source(s)'.log
                           /\ eng.pc = "side" => eng.buf.side <= Source(s)'.side
      BY <3>5, ObjectsTyped DEF Below
    <3> QED
      BY <1>0, <3>4, <3>5, <3>6, <3>7 DEF Below
  <2> QED
    BY <2>1, <2>2
<1> QED
  BY <1>1, <1>2, <1>3, <1>4, <1>5 DEF Clients

(* A step of the copy: the source, and what clients were told, stay. *)
LEMMA CopyFrame ==
  ASSUME NEW t \in Sessions, CopyRead(t) \/ CopyWrite(t) \/ CopySide(t) \/ ReplayTombstone(t)
  PROVE  /\ acked' = acked /\ reqs' = reqs /\ live' = live /\ tomb' = tomb
         /\ creds' = creds /\ now' = now
BY DEF CopyRead, CopyWrite, CopySide, ReplayTombstone, engineFrame, pgVars, runVars, history

LEMMA CopyBelow ==
  ASSUME MigTypes, NEW t \in Sessions, CopyRead(t) \/ CopyWrite(t) \/ CopySide(t) \/ ReplayTombstone(t),
         TodoHeld, NEW s \in Sessions, s \notin tomb, Below(s)
  PROVE  Below(s)'
<1>0. acked' = acked /\ reqs' = reqs /\ live' = live
  BY CopyFrame
<1> SUFFICES ASSUME live = "source" PROVE Below(s)'
  BY <1>0 DEF Below
<1>1. /\ Source(s) = acked[s] /\ (Source(s).log = 0 => Source(s).side = 0)
      /\ Target(s).log <= Source(s).log /\ Target(s).side <= Source(s).side
      /\ Source(s).log \in Nat /\ Source(s).side \in Nat
  BY ObjectsTyped DEF Below
<1>2. CASE CopyRead(t)
  <2>1. bucket' = bucket
    BY <1>2 DEF CopyRead
  <2>2. /\ eng'.pc = "write" /\ eng'.key = {t} /\ eng'.buf.log = Source(t).log
    <3>1. eng.key = {t}
      BY <1>2 DEF CopyRead
    <3>2. eng'.pc = "write" /\ eng'.key = eng.key /\ eng'.buf = [log |-> Source(t).log, side |-> 0]
      BY <1>2, CopyReadDoes DEF Works
    <3> QED
      BY <3>1, <3>2
  <2>3. s \in eng'.key => eng'.buf.log <= Source(s).log
    BY <1>1, <2>2
  <2>4. Source(s)' = Source(s) /\ Target(s)' = Target(s)
    BY <2>1 DEF Source, Target
  <2>5. \A r \in reqs : r.key = s /\ r.kind = "side" => Source(s).log > 0
    BY DEF Below
  <2> QED
    BY <1>0, <1>1, <2>2, <2>3, <2>4, <2>5 DEF Below
<1>3. CASE CopyWrite(t)
  <2>1. /\ eng'.pc = "side" /\ eng'.key = {t} /\ eng'.buf.side = Source(t).side
        /\ eng.pc = "write" /\ eng.key = {t}
    <3>1. eng.pc = "write" /\ eng.key = {t}
      BY <1>3 DEF CopyWrite
    <3>2. /\ eng'.pc = "side" /\ eng'.key = eng.key
          /\ eng'.buf = [log |-> eng.buf.log, side |-> Source(t).side]
      BY <1>3, CopyWriteDoes DEF Works
    <3> QED
      BY <3>1, <3>2
  <2>2. bucket'["source"] = bucket["source"]
    BY <1>3, CopyWriteStores
  <2>3. Target(s)'.log <= Source(s).log /\ Target(s)'.side <= Source(s).side
    BY <1>1, <1>3, <2>1, CopyWriteStores DEF Below
  <2>4. s \in eng'.key => eng'.buf.side <= Source(s).side
    BY <1>1, <2>1
  <2>5. Source(s)' = Source(s)
    BY <2>2 DEF Source
  <2>6. \A r \in reqs : r.key = s /\ r.kind = "side" => Source(s).log > 0
    BY DEF Below
  <2> QED
    BY <1>0, <1>1, <2>1, <2>3, <2>4, <2>5, <2>6 DEF Below
<1>4. CASE CopySide(t)
  <2>1. eng'.pc = "record" /\ eng.pc = "side" /\ eng.key = {t}
    BY <1>4, CopySideDoes DEF CopySide, Works
  <2>2. bucket'["source"] = bucket["source"]
    BY <1>4, CopySideStores
  <2>3. Target(s)'.log <= Source(s).log /\ Target(s)'.side <= Source(s).side
    BY <1>1, <1>4, <2>1, CopySideStores DEF Below
  <2> QED
    BY <1>0, <2>1, <2>2, <2>3 DEF Below, Source
<1>5. CASE ReplayTombstone(t)
  <2>1. t # s /\ eng'.pc = "replay"
    BY <1>5, ReplayTombstoneDoes DEF ReplayTombstone, TodoHeld, Works
  <2>2. bucket'["source"] = bucket["source"] /\ Target(s)' = Target(s)
    BY <1>5, <2>1, ReplayStores
  <2> QED
    BY <1>0, <2>1, <2>2 DEF Below, Source
<1> QED
  BY <1>2, <1>3, <1>4, <1>5

LEMMA BelowKept ==
  ASSUME MigTypes, Course(eng), HoldInv, BindHeld, TodoHeld, [Next]_vars,
         NEW s \in Sessions, s \notin tomb', s \notin tomb, Below(s)
  PROVE  Below(s)'
<1>1. CASE TimerRead \/ TimerObserve \/ Tick
  BY <1>1, BelowStays DEF TimerRead, TimerObserve, Tick, history
<1>2. CASE Clients
  BY <1>2, ClientBelow
<1>3. CASE Engine
  <2>1. CASE Apart
    BY <2>1, ApartDoes, BelowStays
  <2>2. ASSUME NEW t \in Sessions, CopyRead(t) \/ CopyWrite(t) \/ CopySide(t) \/ ReplayTombstone(t)
        PROVE  Below(s)'
    BY <2>2, CopyBelow
  <2> QED
    BY <1>3, <2>1, <2>2, EngineSplit
<1>4. CASE Crash
  <2>1. /\ bucket' = bucket /\ acked' = acked /\ reqs' = {} /\ eng' = Idle /\ live' = creds
    BY <1>4 DEF Crash, history
  <2>2. live' = "source" => live = "source"
    BY <2>1 DEF BindHeld, MigTypes, Buckets
  <2>3. eng'.pc \notin {"write", "side"}
    BY <2>1 DEF Idle
  <2> QED
    BY <2>1, <2>2, <2>3, BelowStays
<1>5. CASE UNCHANGED vars
  BY <1>5, BelowStays DEF vars
<1> QED
  BY <1>1, <1>2, <1>3, <1>4, <1>5 DEF Next

-----------------------------------------------------------------------------
(* What is left to carry.                                                      *)

LEMMA CopyTodo ==
  ASSUME MigTypes, Course(eng), TodoHeld, NEW s \in Sessions,
         \/ CopyNext(s) \/ CopyRead(s) \/ CopyWrite(s) \/ CopySide(s) \/ RecordCopied(s)
         \/ DeltaCheck(s) \/ ReplayTombstone(s) \/ VerifyTarget(s)
  PROVE  TodoHeld'
<1>0. tomb' = tomb
  BY DEF CopyNext, CopyRead, CopyWrite, CopySide, RecordCopied, DeltaCheck, ReplayTombstone,
         VerifyTarget, pgVars
<1>1. CASE CopyNext(s)
  <2>1. eng.pc = "copy" /\ eng'.stage = eng.stage /\ eng'.done = eng.done
        /\ eng'.todo = eng.todo \ {s}
        /\ (eng'.key = {s} \/ eng'.key = eng.key) /\ eng'.pc # "replay"
    BY <1>1, CopyNextDoes DEF CopyNext, Works
  <2> QED
    BY <2>1 DEF TodoHeld
<1>2. CASE CopyRead(s)
  <2>1. eng.pc = "read"
    BY <1>2 DEF CopyRead
  <2> QED
    BY <1>2, <2>1, CopyReadDoes DEF Works, TodoHeld, InHand
<1>3. CASE CopyWrite(s)
  <2>1. eng.pc = "write"
    BY <1>3 DEF CopyWrite
  <2> QED
    BY <1>3, <2>1, CopyWriteDoes DEF Works, TodoHeld, InHand
<1>4. CASE CopySide(s)
  <2>1. eng.pc = "side" /\ eng.key = {s}
    BY <1>4 DEF CopySide
  <2> QED
    BY <1>4, <2>1, CopySideDoes DEF Works, TodoHeld, InHand
<1>5. CASE RecordCopied(s)
  <2>1. eng.pc = "record"
    BY <1>5 DEF RecordCopied
  <2> QED
    BY <1>5, <2>1, RecordCopiedDoes DEF Works, TodoHeld, InHand
<1>6. CASE DeltaCheck(s)
  BY <1>6, DeltaCheckDoes DEF Works, TodoHeld, InHand
<1>7. CASE ReplayTombstone(s)
  <2>1. eng.pc = "replay"
    BY <1>7 DEF ReplayTombstone
  <2> QED
    BY <1>0, <1>7, <2>1, ReplayTombstoneDoes DEF Works, TodoHeld, InHand
<1>8. CASE VerifyTarget(s)
  <2>1. eng.pc = "verify"
    BY <1>8 DEF VerifyTarget
  <2> QED
    BY <1>8, <2>1, VerifyDoes DEF Works, TodoHeld, InHand
<1> QED
  BY <1>1, <1>2, <1>3, <1>4, <1>5, <1>6, <1>7, <1>8

LEMMA TodoKept ==
  ASSUME MigTypes, Course(eng), TodoHeld, [Next]_vars
  PROVE  TodoHeld'
<1>0. Idle.pc = "idle"
  BY DEF Idle
<1>1. eng' = eng /\ tomb \subseteq tomb' => TodoHeld'
  BY DEF TodoHeld
<1>2. /\ eng'.pc \notin {"copy", "replay", "read", "write", "side", "record"} => TodoHeld'
      /\ eng'.pc = "copy" /\ eng'.stage # "final" => TodoHeld'
  BY DEF TodoHeld, InHand
<1>3. CASE Engine
  <2>1. ASSUME NEW mode \in {"copy", "switch"}, Start(mode) PROVE TodoHeld'
    BY <1>2, <2>1, StartDoes DEF Works
  <2>2. CASE ResumeCommand
    BY <1>1, <2>2 DEF ResumeCommand, pgVars
  <2>3. CASE CopyEnd
    BY <1>2, <2>3, CopyEndDoes DEF CopyEnd, Course
  <2>4. CASE DeltaCheckEnd
    <3>1. CASE eng.behind = {}
      BY <1>2, <2>4, <3>1, DeltaCheckEndDoes DEF DeltaCheckEnd, Course, InHand
    <3>2. CASE eng.behind # {}
      <4>1. eng.key = {}
        BY <2>4 DEF DeltaCheckEnd, Course, InHand
      <4>2. eng'.pc = "copy" /\ eng'.key = {} /\ eng'.todo \intersect eng'.done = {}
        BY <2>4, <3>2, <4>1, DeltaCheckEndDoes
      <4> QED
        BY <4>2 DEF TodoHeld
    <3> QED
      BY <3>1, <3>2
  <2>5. CASE ArmDrain \/ RunOff \/ ArmPause \/ ConfirmGate
    BY <1>2, <2>5, ArmDrainDoes, RunOffDoes, ArmPauseDoes, ConfirmGateDoes DEF Works, AbortOf, InHand
  <2>6. CASE AwaitQuiesced \/ RefuseLapse
    BY <1>2, <2>6, AwaitQuiescedDoes, RefuseLapseDoes DEF AwaitQuiesced, Works, AbortOf, InHand
  <2>7. CASE ReadTombstones
    <3>1. tomb' = tomb /\ eng'.pc = "replay" /\ eng'.todo = Tombstones
      BY <2>7, ReadTombstonesDoes DEF ReadTombstones, Works, pgVars
    <3> QED
      BY <3>1 DEF TodoHeld, InHand, Tombstones
  <2>8. CASE SwapCredentials \/ RebindStore \/ VerifyEnd \/ ResumeIngest
    BY <1>2, <2>8, SwapCredentialsDoes, RebindStoreDoes, VerifyEndDoes, ResumeIngestDoes
       DEF Works, AbortOf, InHand
  <2>9. CASE FinishRun
    BY <1>0, <1>2, <2>9 DEF FinishRun, InHand
  <2>10. CASE Fail
    BY <1>0, <1>2, <2>10, FailDoes DEF AbortOf, InHand
  <2>11. ASSUME NEW s \in Sessions,
              \/ CopyNext(s) \/ CopyRead(s) \/ CopyWrite(s) \/ CopySide(s) \/ RecordCopied(s)
              \/ DeltaCheck(s) \/ ReplayTombstone(s) \/ VerifyTarget(s)
         PROVE  TodoHeld'
    BY <2>11, CopyTodo
  <2> QED
    BY <1>3, <2>1, <2>2, <2>3, <2>4, <2>5, <2>6, <2>7, <2>8, <2>9, <2>10, <2>11 DEF Engine
<1>4. CASE Clients \/ TimerRead \/ TimerObserve \/ Tick
  BY <1>1, <1>4 DEF Clients, Sign, MarkSessionDeleted, Request, Gated, Land, TimerRead, TimerObserve,
                    Tick, pgVars
<1>5. CASE Crash
  BY <1>0, <1>2, <1>5 DEF Crash, InHand
<1>6. CASE UNCHANGED vars
  BY <1>1, <1>6 DEF vars, pgVars
<1> QED
  BY <1>3, <1>4, <1>5, <1>6 DEF Next

(* While the engine works, the process serves from the source. *)
LEMMA WorkingServes ==
  ASSUME MigTypes, BindHeld, eng.pc \notin {"rebind", "verify", "resume", "finish", "idle"}
  PROVE  live = "source"
BY DEF BindHeld, MigTypes, Buckets

(* What targetIsCurrent answers inside the pause. *)
LEMMA CurrentIsSame ==
  ASSUME MigTypes, NEW s \in Sessions, Below(s), live = "source",
         s \notin Held("source") \/ Current(s, TRUE)
  PROVE  Same(s)
<1>1. /\ Source(s).log = 0 => Source(s).side = 0
      /\ Target(s).log <= Source(s).log /\ Target(s).side <= Source(s).side
      /\ Source(s).log \in Nat /\ Source(s).side \in Nat
      /\ Target(s).log \in Nat /\ Target(s).side \in Nat
  BY ObjectsTyped DEF Below
<1>2. s \notin Held("source") => Source(s).log = 0
  BY <1>1 DEF Held, Source
<1>3. CASE Source(s).log = 0
  BY <1>1, <1>3, ObjectsTyped, ContentEqual DEF Same
<1>4. CASE /\ Source(s).log = Target(s).log
           /\ Source(s).side > 0 => Source(s).side = Target(s).side
  BY <1>1, <1>4, ObjectsTyped, ContentEqual DEF Same
<1> QED
  BY <1>2, <1>3, <1>4 DEF Current

(* From the tombstones to the rebinding nothing touches a session that is not
   deleted. *)
Equal == {"tombs", "replay", "arm", "confirm", "swap", "rebind"}

LEMMA CarriedStays ==
  ASSUME NEW s \in Sessions, Carried(s), Pausing(eng') => Pausing(eng),
         Source(s)' = Source(s), Target(s)' = Target(s),
         eng' = eng \/ (eng.pc \in Equal /\ eng'.pc \in Equal)
  PROVE  Carried(s)'
BY DEF Carried, Same, Equal, InHand

(* A run that gives up, and one that has not begun its final delta, hold nothing. *)
LEMMA CarriedLeft ==
  ASSUME NEW s \in Sessions, ~Pausing(eng')
  PROVE  Carried(s)'
BY DEF Carried

LEMMA CopyCarried ==
  ASSUME MigTypes, Course(eng), BindHeld, TodoHeld, NEW s \in Sessions, s \notin tomb,
         Below(s), Carried(s), NEW t \in Sessions,
         \/ CopyNext(t) \/ CopyRead(t) \/ CopyWrite(t) \/ CopySide(t) \/ RecordCopied(t)
         \/ DeltaCheck(t) \/ ReplayTombstone(t) \/ VerifyTarget(t)
  PROVE  Carried(s)'
<1>0. Pausing(eng') = Pausing(eng)
  BY CopyPausing
<1> SUFFICES ASSUME Pausing(eng) PROVE Carried(s)'
  BY <1>0 DEF Carried
<1>1. CASE CopyNext(t)
  <2>1. eng.pc = "copy" /\ t \in eng.todo /\ eng'.stage = eng.stage /\ bucket' = bucket
    BY <1>1, CopyNextDoes DEF CopyNext, Works
  <2>2. eng.stage = "final"
    BY <2>1 DEF Pausing, Course
  <2>3. eng.key = {} /\ t \notin eng.done
    BY <2>1, <2>2 DEF Course, InHand, TodoHeld
  <2>4. eng'.pc = "read" /\ eng'.todo = eng.todo \ {t} /\ eng'.key = {t}
    BY <1>1, <2>3, CopyNextDoes DEF Works
  <2>5. s \in eng.todo \/ Same(s)
    BY <2>1, <2>2, <2>3 DEF Carried
  <2> QED
    BY <2>1, <2>4, <2>5 DEF Carried, Same, Source, Target, InHand
<1>2. CASE CopyRead(t)
  <2>1. eng.pc = "read" /\ eng.key = {t} /\ bucket' = bucket
    BY <1>2 DEF CopyRead
  <2>2. /\ SamePause(eng, eng') /\ eng'.pc = "write" /\ eng'.stage = eng.stage
        /\ eng'.todo = eng.todo /\ eng'.key = eng.key
        /\ eng'.buf = [log |-> Source(t).log, side |-> 0]
    BY <1>2, CopyReadDoes DEF Works
  <2>4. s \in eng.todo \union eng.key \/ Same(s)
    BY <2>1 DEF Carried, InHand
  <2>5. Source(s)' = Source(s) /\ Same(s)' = Same(s)
    BY <2>1 DEF Source, Same, Target
  <2>6. s \in eng.key => eng'.buf.log = Source(s).log
    BY <2>1, <2>2
  <2> QED
    BY <2>2, <2>4, <2>5, <2>6 DEF Carried
<1>3. CASE CopyWrite(t)
  <2>1. eng.pc = "write" /\ eng.key = {t}
    BY <1>3 DEF CopyWrite
  <2>2. /\ PulseOf(eng, eng') /\ eng'.pc = "side" /\ eng'.stage = eng.stage
        /\ eng'.todo = eng.todo /\ eng'.key = eng.key
        /\ eng'.buf = [log |-> eng.buf.log, side |-> Source(t).side]
    BY <1>3, CopyWriteDoes DEF Works
  <2>4. /\ s \in eng.todo \union eng.key \/ Same(s)
        /\ s = t => eng.buf.log = Source(s).log
    BY <2>1 DEF Carried, InHand
  <2>5. Source(s)' = Source(s)
    BY <1>3, CopyWriteStores DEF Source
  <2>6. s # t => Same(s)' = Same(s)
    BY <1>3, <2>5, CopyWriteStores DEF Same
  <2>7. s = t => Target(s)'.log = Source(s).log /\ eng'.buf.side = Source(s).side
    BY <1>3, <2>2, <2>4, CopyWriteStores
  <2> QED
    BY <2>1, <2>2, <2>4, <2>5, <2>6, <2>7 DEF Carried
<1>4. CASE CopySide(t)
  <2>1. eng.pc = "side" /\ eng.key = {t}
    BY <1>4 DEF CopySide
  <2>2. /\ SamePause(eng, eng') /\ eng'.pc = "record" /\ eng'.stage = eng.stage
        /\ eng'.todo = eng.todo /\ eng'.key = eng.key
    BY <1>4, CopySideDoes DEF Works
  <2>4. /\ s \in eng.todo \union eng.key \/ Same(s)
        /\ s = t => Target(s).log = Source(s).log /\ eng.buf.side = Source(s).side
    BY <2>1 DEF Carried, InHand
  <2>5. Source(s)' = Source(s)
    BY <1>4, CopySideStores DEF Source
  <2>6. s # t => Same(s)' = Same(s)
    BY <1>4, <2>5, CopySideStores DEF Same
  <2>7. s = t => Same(s)'
    <3> SUFFICES ASSUME s = t PROVE Target(s)' = Source(s)
      BY <2>5 DEF Same
    <3>1. Target(s)'.log = Source(s).log
      BY <1>4, <2>4, CopySideStores
    <3>2. Target(s)'.side = Source(s).side
      <4>1. live = "source"
        BY <2>1, WorkingServes
      <4>2. Target(s).side <= Source(s).side /\ Target(s).side \in Nat
        BY <4>1, ObjectsTyped DEF Below
      <4> QED
        BY <1>4, <2>4, <4>2, CopySideStores
    <3>3. Target(s)' \in Content
      BY <1>4, CopySideStores DEF Target, Buckets
    <3> QED
      BY <3>1, <3>2, <3>3, ObjectsTyped, ContentEqual
  <2> QED
    BY <2>1, <2>2, <2>4, <2>6, <2>7 DEF Carried
<1>5. CASE RecordCopied(t)
  <2>1. eng.pc = "record" /\ eng.key = {t} /\ bucket' = bucket
    BY <1>5 DEF RecordCopied
  <2>2. /\ SamePause(eng, eng') /\ eng'.pc = "copy" /\ eng'.stage = eng.stage
        /\ eng'.todo = eng.todo /\ eng'.key = {}
    BY <1>5, RecordCopiedDoes DEF Works
  <2>4. s \in eng.todo \/ Same(s)
    BY <2>1 DEF Carried, InHand
  <2> QED
    BY <2>1, <2>2, <2>4 DEF Carried, Same, Source, Target
<1>6. CASE DeltaCheck(t)
  <2>1. eng.pc = "check" /\ bucket' = bucket
    BY <1>6 DEF DeltaCheck
  <2>2. /\ PulseOf(eng, eng') /\ eng'.pc = "check" /\ eng'.stage = eng.stage
        /\ eng'.todo = eng.todo \ {t} /\ eng'.key = eng.key
        /\ \/ Current(t, InPause(eng)) /\ eng'.behind = eng.behind
           \/ eng'.behind = eng.behind \union {t}
    BY <1>6, DeltaCheckDoes DEF Works
  <2>3. InPause(eng)
    BY <2>1 DEF InPause, Pausing, Course
  <2>4. live = "source"
    BY <2>1, WorkingServes
  <2>5. s \in eng.todo \union eng.behind \/ Same(s)
    BY <2>1, <2>3 DEF Carried
  <2>6. InPause(eng) = TRUE
    BY <2>3 DEF InPause
  <2>7. s \in eng'.todo \union eng'.behind \/ Same(s)
    BY <2>2, <2>4, <2>5, <2>6, CurrentIsSame
  <2> QED
    BY <2>1, <2>2, <2>7 DEF Carried, Same, Source, Target, InHand
<1>7. CASE ReplayTombstone(t)
  <2>1. eng.pc = "replay" /\ t \in eng.todo
    BY <1>7 DEF ReplayTombstone
  <2>2. PulseOf(eng, eng') /\ eng'.pc = "replay" /\ eng'.stage = eng.stage
    BY <1>7, ReplayTombstoneDoes DEF Works, ReplayTombstone
  <2>4. t # s
    BY <2>1 DEF TodoHeld
  <2>5. Source(s)' = Source(s) /\ Target(s)' = Target(s)
    BY <1>7, <2>4, ReplayStores DEF Source
  <2> QED
    BY <1>0, <2>1, <2>2, <2>5, CarriedStays DEF Equal
<1>8. CASE VerifyTarget(t)
  <2>1. eng.pc = "verify" /\ eng'.stage = eng.stage
    BY <1>8, VerifyDoes DEF VerifyTarget, Works
  <2> QED
    BY <2>1 DEF Course, Pausing
<1> QED
  BY <1>1, <1>2, <1>3, <1>4, <1>5, <1>6, <1>7, <1>8

LEMMA EngineCarried ==
  ASSUME MigTypes, Course(eng), BindHeld, TodoHeld, Engine,
         NEW s \in Sessions, s \notin tomb, Below(s), Passes \/ Carried(s)
  PROVE  Carried(s)'
<1> SUFFICES ASSUME Pausing(eng') PROVE Carried(s)'
  BY DEF Carried
<1>0. Apart => bucket' = bucket
  BY ApartDoes
<1>1. CASE Passes
  <2>1. eng.pc = "barrier" /\ eng.stage = "quiesce" /\ bucket' = bucket
    BY <1>0, <1>1 DEF Passes, AwaitQuiesced, Course, Apart
  <2>2. eng'.pc = "check" /\ eng'.todo = Held("source") /\ eng'.key = eng.key
    BY <1>1, <2>1, AwaitQuiescedDoes DEF Passes, Works, AbortOf, Pausing
  <2>3. live = "source"
    BY <2>1, WorkingServes
  <2>4. s \in Held("source") \/ Same(s)
    BY <2>3, CurrentIsSame
  <2> QED
    BY <2>1, <2>2, <2>4 DEF Carried, Same, Source, Target, InHand
<1> SUFFICES ASSUME ~Passes, Pausing(eng), Carried(s) PROVE Carried(s)'
  BY <1>1, PausingBegins
<1>2. CASE CopyEnd
  <2>1. eng.pc = "copy" /\ eng.todo = {} /\ bucket' = bucket /\ eng.key = {}
    BY <1>2 DEF CopyEnd, Course, InHand
  <2>2. eng.stage = "final" /\ eng'.pc = "tombs"
    BY <1>2, <2>1, CopyEndDoes DEF Pausing, Course
  <2>3. Same(s)
    BY <2>1 DEF Carried
  <2> QED
    BY <2>1, <2>2, <2>3 DEF Carried, Same, Source, Target, InHand
<1>3. CASE DeltaCheckEnd
  <2>1. eng.pc = "check" /\ eng.todo = {} /\ bucket' = bucket /\ eng.key = {}
    BY <1>3 DEF DeltaCheckEnd, Course, InHand
  <2>2. eng.stage = "final" /\ eng'.key = {}
    BY <1>3, <2>1, DeltaCheckEndDoes DEF Pausing, Course
  <2>3. s \in eng.behind \/ Same(s)
    BY <2>1 DEF Carried
  <2>4. CASE eng.behind = {}
    <3>1. eng'.pc = "tombs"
      BY <1>3, <2>2, <2>4, DeltaCheckEndDoes
    <3> QED
      BY <2>1, <2>3, <2>4, <3>1 DEF Carried, Same, Source, Target, InHand
  <2>5. CASE eng.behind # {}
    <3>1. eng'.pc = "copy" /\ eng'.todo = eng.behind
      BY <1>3, <2>5, DeltaCheckEndDoes
    <3> QED
      BY <2>1, <2>2, <2>3, <3>1 DEF Carried, Same, Source, Target, InHand
  <2> QED
    BY <2>4, <2>5
<1>4. ASSUME ArmPause \/ ConfirmGate \/ ReadTombstones \/ RefuseLapse \/ SwapCredentials
      PROVE  Carried(s)'
  <2>1. bucket' = bucket /\ eng.pc \in Equal
    BY <1>0, <1>4 DEF Apart, Equal, ArmPause, ConfirmGate, ReadTombstones, RefuseLapse, SwapCredentials
  <2>2. eng'.pc \in Equal
    <3>1. CASE ConfirmGate
      BY <3>1, ConfirmGateDoes DEF ConfirmGate, Course, Works, AbortOf, Pausing, Equal
    <3>2. CASE RefuseLapse
      BY <3>2, RefuseLapseDoes DEF Works, AbortOf, Pausing, Equal
    <3> QED
      BY <1>4, <3>1, <3>2, ArmPauseDoes, ReadTombstonesDoes, SwapCredentialsDoes DEF Works, Equal
  <2> QED
    BY <2>1, <2>2, CarriedStays DEF Source, Target
<1>5. ~AwaitQuiesced /\ ~ArmDrain /\ ~RunOff /\ ~ResumeCommand
  BY DEF AwaitQuiesced, ArmDrain, RunOff, ResumeCommand, Course, Pausing, Idle
<1>6. ASSUME NEW mode \in {"copy", "switch"}, Start(mode) PROVE FALSE
  BY <1>6, StartDoes DEF Works, Pausing
<1>7. ~RebindStore /\ ~VerifyEnd /\ ~ResumeIngest
  BY RebindStoreDoes, VerifyEndDoes, ResumeIngestDoes DEF Works, AbortOf, Pausing
<1>8. ~FinishRun /\ ~Fail
  <2>1. eng' # Idle
    BY DEF Idle, Pausing
  <2> QED
    BY <2>1, FailDoes DEF FinishRun, AbortOf, Pausing
<1>9. ASSUME NEW t \in Sessions,
              \/ CopyNext(t) \/ CopyRead(t) \/ CopyWrite(t) \/ CopySide(t) \/ RecordCopied(t)
              \/ DeltaCheck(t) \/ ReplayTombstone(t) \/ VerifyTarget(t)
      PROVE  Carried(s)'
  BY <1>9, CopyCarried
<1> QED
  BY <1>2, <1>3, <1>4, <1>5, <1>6, <1>7, <1>8, <1>9 DEF Engine

LEMMA PausingServes ==
  ASSUME MigTypes, Course(eng), BindHeld, Pausing(eng)
  PROVE  live = "source"
<1>1. Idle.stage = "bulk"
  BY DEF Idle
<1>2. eng.pc \notin {"idle", "verify", "resume", "finish"}
  BY <1>1 DEF Pausing, Course
<1> QED
  BY <1>2 DEF BindHeld, MigTypes, Buckets

(* While the run holds its pause, and from the swap on, a client call that lands in
   the source is one of a session noted as slipped. *)
LEMMA ClientsSpare ==
  ASSUME MigTypes, HoldInv, Clients, live = "source", Pausing(eng) \/ creds = "target",
         NEW s \in Sessions, s \notin slipped
  PROVE  Source(s)' = Source(s) /\ Target(s)' = Target(s)
<1>1. ASSUME NEW r \in reqs, Land(r) PROVE Source(s)' = Source(s) /\ Target(s)' = Target(s)
  <2>1. r.pc = "flight" /\ r.on = "source"
    BY <1>1 DEF Land, HoldInv, ReqsHeld, MigTypes, Requests, Buckets
  <2>2. r.key # s
    BY <2>1 DEF HoldInv, ReqsHeld, Slips
  <2> QED
    BY <1>1, <2>2, LandDoes DEF Source, Target, Buckets
<1>2. CASE bucket' = bucket
  BY <1>2 DEF Source, Target
<1> QED
  BY <1>1, <1>2 DEF Clients, Sign, MarkSessionDeleted, Request, Gated

(* The history of slipped calls begins anew at the barrier only. *)
LEMMA SlippedStay ==
  ASSUME [Next]_vars
  PROVE  Passes \/ slipped \subseteq slipped'
<1>1. CASE Engine
  BY <1>1, EngineFrame
<1>2. CASE Clients \/ TimerRead \/ TimerObserve \/ Tick \/ Crash
  BY <1>2 DEF Clients, Sign, MarkSessionDeleted, Request, Gated, Land, TimerRead, TimerObserve, Tick,
              Crash, history
<1> QED
  BY <1>1, <1>2 DEF Next, vars, history

LEMMA CarriedKept ==
  ASSUME MigTypes, Course(eng), HoldInv, BindHeld, TodoHeld, [Next]_vars,
         NEW s \in Sessions, s \notin tomb, s \notin slipped', Below(s),
         s \notin slipped => Carried(s)
  PROVE  Carried(s)'
<1>0. Passes \/ (s \notin slipped /\ Carried(s))
  BY SlippedStay
<1>1. CASE Engine
  BY <1>0, <1>1, EngineCarried
<1>2. CASE Crash
  BY <1>2, CarriedLeft DEF Crash, Idle, Pausing
<1>3. CASE TimerRead \/ TimerObserve \/ Tick \/ UNCHANGED vars
  <2>1. bucket' = bucket /\ eng' = eng /\ slipped' = slipped
    BY <1>3 DEF TimerRead, TimerObserve, Tick, vars, history
  <2> QED
    BY <2>1, CarriedStays DEF Source, Target
<1>4. CASE Clients
  <2>1. eng' = eng /\ slipped \subseteq slipped'
    BY <1>4 DEF Clients, Sign, MarkSessionDeleted, Request, Gated, Land, history
  <2>2. CASE Pausing(eng)
    <3>1. live = "source"
      BY <2>2, PausingServes
    <3>2. Source(s)' = Source(s) /\ Target(s)' = Target(s)
      BY <1>4, <2>1, <2>2, <3>1, ClientsSpare
    <3> QED
      BY <2>1, <3>2, CarriedStays
  <2>3. CASE ~Pausing(eng)
    BY <2>1, <2>3, CarriedLeft
  <2> QED
    BY <2>2, <2>3
<1> QED
  BY <1>1, <1>2, <1>3, <1>4 DEF Next

LEMMA SwappedKept ==
  ASSUME MigTypes, Course(eng), HoldInv, BindHeld, [Next]_vars,
         NEW s \in Sessions, s \notin slipped', s \notin slipped => Carried(s) /\ Swapped(s)
  PROVE  Swapped(s)'
<1> SUFFICES ASSUME creds' = "target", live' = "source" PROVE Same(s)'
  BY DEF Swapped
<1>1. ~Crash
  BY DEF Crash
<1>2. CASE Engine
  <2>1. CASE SwapCredentials
    <3>1. /\ eng.pc = "swap" /\ Pausing(eng) /\ bucket' = bucket /\ slipped' = slipped
      BY <2>1 DEF SwapCredentials, Course, Pausing, history
    <3> QED
      BY <3>1 DEF Carried, Same, Source, Target
  <2>2. CASE ~SwapCredentials
    <3>1. creds = "target"
      BY <1>2, <2>2 DEF Engine, Start, ResumeCommand, CopyEnd, DeltaCheckEnd, ArmDrain, RunOff, ArmPause,
         ConfirmGate, AwaitQuiesced, ReadTombstones, RefuseLapse, RebindStore,
         VerifyEnd, ResumeIngest, FinishRun, Fail, CopyNext, CopyRead, CopyWrite, CopySide,
         RecordCopied, DeltaCheck, ReplayTombstone, VerifyTarget, engineFrame
    <3>2. Apart
      BY <1>2, <3>1, EngineSplit DEF BindHeld, CopyRead, CopyWrite, CopySide, ReplayTombstone
    <3>3. bucket' = bucket /\ live = "source"
      BY <3>2, ApartDoes
    <3>4. ~Passes
      BY <3>1 DEF BindHeld, Passes, AwaitQuiesced
    <3>5. slipped' = slipped
      BY <1>2, <3>4, EngineFrame
    <3> QED
      BY <3>1, <3>3, <3>5 DEF Swapped, Same, Source, Target
  <2> QED
    BY <2>1, <2>2
<1>3. CASE Clients
  <2>1. creds' = creds /\ live' = live /\ slipped \subseteq slipped'
    BY <1>3 DEF Clients, Sign, MarkSessionDeleted, Request, Gated, Land, history
  <2>2. s \notin slipped
    BY <2>1
  <2>3. Source(s)' = Source(s) /\ Target(s)' = Target(s)
    BY <1>3, <2>1, <2>2, ClientsSpare
  <2> QED
    BY <2>1, <2>2, <2>3 DEF Swapped, Same
<1>4. CASE TimerRead \/ TimerObserve \/ Tick \/ UNCHANGED vars
  <2>1. bucket' = bucket /\ creds' = creds /\ live' = live /\ slipped' = slipped
    BY <1>4 DEF TimerRead, TimerObserve, Tick, vars, history
  <2> QED
    BY <2>1 DEF Swapped, Same, Source, Target
<1> QED
  BY <1>1, <1>2, <1>3, <1>4 DEF Next

(* What a process that serves from the source finds in the target it was told of. *)
LEMMA CutIsSame ==
  ASSUME creds = "target", live = "source", NEW s \in Sessions, Below(s), Swapped(s)
  PROVE  Target(s) = acked[s]
BY DEF Below, Swapped, Same

LEMMA ServedKept ==
  ASSUME MigTypes, Course(eng), HoldInv, BindHeld, TodoHeld, [Next]_vars,
         NEW s \in Sessions, s \notin tomb, s \notin slipped', Below(s),
         s \notin slipped => Swapped(s) /\ Served(s)
  PROVE  Served(s)'
<1>1. CASE Passes
  <2>1. eng.pc = "barrier" /\ live' = live
    BY <1>1 DEF Passes, AwaitQuiesced
  <2>2. live = "source"
    BY <2>1, WorkingServes
  <2> QED
    BY <2>1, <2>2 DEF Served
<1> SUFFICES ASSUME ~Passes PROVE Served(s)'
  BY <1>1
<1>2. s \notin slipped /\ Swapped(s) /\ Served(s)
  BY SlippedStay
<1>3. bucket' = bucket /\ acked' = acked /\ live' = live => Served(s)'
  BY <1>2 DEF Served, Target
<1>4. CASE TimerRead \/ TimerObserve \/ Tick \/ UNCHANGED vars
  BY <1>3, <1>4 DEF TimerRead, TimerObserve, Tick, vars, history
<1>5. CASE Crash
  <2>1. bucket' = bucket /\ acked' = acked /\ live' = creds
    BY <1>5 DEF Crash, history
  <2>2. creds = "target" /\ live = "source" => Target(s) = acked[s]
    BY <1>2, CutIsSame
  <2> QED
    BY <1>2, <2>1, <2>2 DEF Served, Target, MigTypes, Buckets
<1>6. CASE Clients
  <2>1. live' = live
    BY <1>6 DEF Clients, Sign, MarkSessionDeleted, Request, Gated, Land
  <2> SUFFICES ASSUME live = "target" PROVE Target(s)' = acked'[s]
    BY <2>1 DEF Served
  <2>2. ASSUME NEW r \in reqs, Land(r) PROVE Target(s)' = acked'[s]
    <3>0. /\ r.pc = "flight" /\ (r.kind = "delete" => r.key \in tomb)
          /\ r.key \in Sessions /\ r.on \in Buckets /\ r.kind \in {"append", "side", "delete"}
      BY <2>2 DEF Land, HoldInv, ReqsHeld, MigTypes, Requests
    <3>1. Target(s) = acked[s]
      BY <1>2 DEF Served
    <3>2. Target(s)' \in Content /\ acked'[s] \in Content
      BY <2>2, LandDoes DEF Target, Buckets
    <3>3. CASE r.key # s
      BY <2>2, <3>0, <3>1, <3>3, LandDoes DEF Target, Buckets
    <3>4. CASE r.key = s
      <4>1. r.on = "target"
        BY <1>2, <3>0, <3>4 DEF HoldInv, ReqsHeld, Slips, BindHeld, Buckets
      <4>2. Target(s)'.log = acked'[s].log /\ Target(s)'.side = acked'[s].side
        BY <2>2, <3>0, <3>1, <3>4, <4>1, LandDoes DEF Target
      <4> QED
        BY <3>2, <4>2, ContentEqual
    <3> QED
      BY <3>3, <3>4
  <2>3. CASE bucket' = bucket /\ acked' = acked
    BY <1>2, <2>3 DEF Served, Target
  <2> QED
    BY <1>6, <2>2, <2>3 DEF Clients, Sign, MarkSessionDeleted, Request, Gated, history
<1>7. CASE Engine
  <2>1. ASSUME NEW t \in Sessions, CopyRead(t) \/ CopyWrite(t) \/ CopySide(t) \/ ReplayTombstone(t)
        PROVE  Served(s)'
    <3>1. live' = live /\ eng.pc \in {"read", "write", "side", "replay"}
      BY <2>1, CopyFrame DEF CopyRead, CopyWrite, CopySide, ReplayTombstone
    <3>2. live = "source"
      BY <3>1, WorkingServes
    <3> QED
      BY <3>1, <3>2 DEF Served
  <2>2. CASE RebindStore
    <3>1. bucket' = bucket /\ acked' = acked /\ eng.pc = "rebind"
      BY <2>2 DEF RebindStore, history
    <3>2. Target(s) = acked[s]
      BY <1>2, <3>1, CutIsSame DEF BindHeld
    <3> QED
      BY <3>1, <3>2 DEF Served, Target
  <2>3. CASE Apart /\ ~RebindStore
    <3>1. bucket' = bucket /\ acked' = acked
      BY <2>3, ApartDoes
    <3>2. live' = live
      BY <2>3 DEF Apart, Start, ResumeCommand, CopyEnd, DeltaCheckEnd, ArmDrain, RunOff, ArmPause,
         ConfirmGate, AwaitQuiesced, ReadTombstones, RefuseLapse, SwapCredentials, VerifyEnd,
         ResumeIngest, FinishRun, Fail, CopyNext, RecordCopied, DeltaCheck, VerifyTarget, engineFrame
    <3> QED
      BY <1>3, <3>1, <3>2
  <2> QED
    BY <1>7, <2>1, <2>2, <2>3, EngineSplit
<1> QED
  BY <1>4, <1>5, <1>6, <1>7 DEF Next

LEMMA TombstonesStay ==
  ASSUME [Next]_vars
  PROVE  tomb \subseteq tomb'
<1>1. CASE Engine
  BY <1>1, EngineFrame
<1>2. CASE Clients \/ TimerRead \/ TimerObserve \/ Tick \/ Crash
  BY <1>2 DEF Clients, Sign, MarkSessionDeleted, Request, Gated, Land, TimerRead, TimerObserve, Tick,
              Crash, pgVars
<1> QED
  BY <1>1, <1>2 DEF Next, vars, pgVars

LEMMA DataKept ==
  ASSUME MigTypes, Course(eng), HoldInv, BindHeld, DataInv, [Next]_vars
  PROVE  DataInv'
<1>1. TodoHeld /\ TodoHeld'
  BY TodoKept DEF DataInv
<1>2. ASSUME NEW s \in Sessions, s \notin tomb' PROVE s \notin tomb /\ Below(s) /\ Below(s)'
  <2>1. s \notin tomb
    BY <1>2, TombstonesStay
  <2>2. Below(s)
    BY <2>1 DEF DataInv
  <2> QED
    BY <1>1, <1>2, <2>1, <2>2, BelowKept
<1>3. ASSUME NEW s \in Sessions, s \notin tomb', s \notin slipped'
      PROVE  Carried(s)' /\ Swapped(s)' /\ Served(s)'
  <2>1. s \notin tomb /\ Below(s)
    BY <1>2, <1>3
  <2>2. s \notin slipped => Carried(s) /\ Swapped(s) /\ Served(s)
    BY <2>1 DEF DataInv
  <2>3. Carried(s)'
    BY <1>1, <1>3, <2>1, <2>2, CarriedKept
  <2>4. Swapped(s)'
    BY <1>3, <2>2, SwappedKept
  <2>5. Served(s)'
    BY <1>1, <1>3, <2>1, <2>2, ServedKept
  <2> QED
    BY <2>3, <2>4, <2>5
<1> QED
  BY <1>1, <1>2, <1>3 DEF DataInv

-----------------------------------------------------------------------------
(* What the target holds and the source does not, as long as no call failed    *)
(* and nothing crashed.                                                        *)

Strays == Held("target") \ (Held("source") \union slipped)
Clean == faults = 0 /\ crashes = 0

(* A run row is open from the first copy to the end of the cut. *)
OpenHeld == creds = "source" /\ ~runOpen => eng.pc = "idle" /\ Held("target") = {}

(* What the target holds is recorded as copied, or about to be. *)
RecordHeld ==
  live = "source" =>
    Held("target") \subseteq record \union (IF eng.pc \in {"side", "record"} THEN eng.key ELSE {})

(* The replay has in hand whatever of it the source no longer holds. *)
ReplayHeld ==
  /\ Pausing(eng) => /\ eng.pc = "replay" => Strays \subseteq eng.todo
                     /\ eng.stage = "fence" => Strays = {}
  /\ creds = "target" /\ live = "source" => Strays = {}

StrayHeld == Clean => OpenHeld /\ RecordHeld /\ ReplayHeld

LEMMA StraysDeleted ==
  ASSUME MigTypes, DataInv, live = "source"
  PROVE  Strays \subseteq tomb
<1> SUFFICES ASSUME NEW s \in Sessions, s \in Strays, s \notin tomb PROVE FALSE
  BY DEF Strays, Held
<1>1. Target(s).log > 0 /\ ~(Source(s).log > 0)
  BY DEF Strays, Held, Target, Source
<1>2. Target(s).log <= Source(s).log
  BY DEF DataInv, Below
<1> QED
  BY <1>1, <1>2, ObjectsTyped

(* A client call lands where the process serves from. *)
LEMMA ClientsSpareTarget ==
  ASSUME MigTypes, HoldInv, Clients, live = "source"
  PROVE  Held("target")' = Held("target")
<1>1. ASSUME NEW r \in reqs, Land(r) PROVE bucket'["target"] = bucket["target"]
  <2>1. r.on = "source"
    BY <1>1 DEF Land, HoldInv, ReqsHeld, MigTypes, Requests, Buckets
  <2> QED
    BY <1>1, <2>1, LandDoes DEF Buckets
<1>2. bucket'["target"] = bucket["target"]
  BY <1>1 DEF Clients, Sign, MarkSessionDeleted, Request, Gated
<1> QED
  BY <1>2 DEF Held

LEMMA CleanBefore ==
  ASSUME MigTypes, [Next]_vars, Clean'
  PROVE  Clean /\ ~Crash
<1>1. faults \in Nat /\ crashes \in Nat
  BY DEF MigTypes
<1>2. (faults' = faults \/ faults' = faults + 1) /\ (Crash \/ crashes' = crashes)
  <2>1. CASE Engine
    <3>1. crashes' = crashes
      BY <2>1, EngineFrame
    <3>2. faults' = faults \/ faults' = faults + 1
      BY <2>1 DEF Engine, Start, ResumeCommand, CopyEnd, DeltaCheckEnd, ArmDrain, RunOff, ArmPause,
         ConfirmGate, AwaitQuiesced, ReadTombstones, RefuseLapse, SwapCredentials, RebindStore,
         VerifyEnd, ResumeIngest, FinishRun, Fail, CopyNext, CopyRead, CopyWrite, CopySide,
         RecordCopied, DeltaCheck, ReplayTombstone, VerifyTarget, engineFrame, runVars
    <3> QED
      BY <3>1, <3>2
  <2>2. CASE Crash
    BY <2>2 DEF Crash
  <2>3. CASE Clients \/ TimerRead \/ TimerObserve \/ Tick
    BY <2>3 DEF Clients, Sign, MarkSessionDeleted, Request, Gated, Land, TimerRead, TimerObserve,
                Tick, runVars
  <2> QED
    BY <2>1, <2>2, <2>3 DEF Next, vars, runVars
<1>3. Crash => crashes' = crashes + 1
  BY DEF Crash
<1> QED
  BY <1>1, <1>2, <1>3 DEF Clean

LEMMA OpenKept ==
  ASSUME MigTypes, Course(eng), HoldInv, BindHeld, OpenHeld, [Next]_vars, ~Crash
  PROVE  OpenHeld'
<1> SUFFICES ASSUME creds' = "source", ~runOpen' PROVE eng'.pc = "idle" /\ Held("target")' = {}
  BY DEF OpenHeld
<1>1. creds = "source" /\ live = "source"
  <2>1. creds' = creds \/ creds' = "target"
    BY DEF Next, vars, Clients, Sign, MarkSessionDeleted, Request, Gated, Land, TimerRead, TimerObserve,
         Tick, Engine, Start, ResumeCommand, CopyEnd, DeltaCheckEnd, ArmDrain, RunOff, ArmPause,
         ConfirmGate, AwaitQuiesced, ReadTombstones, RefuseLapse, SwapCredentials, RebindStore,
         VerifyEnd, ResumeIngest, FinishRun, Fail, CopyNext, CopyRead, CopyWrite, CopySide,
         RecordCopied, DeltaCheck, ReplayTombstone, VerifyTarget, engineFrame
  <2> QED
    BY <2>1 DEF BindHeld, MigTypes, Buckets
<1>2. CASE Clients
  <2>1. eng' = eng /\ runOpen' = runOpen
    BY <1>2 DEF Clients, Sign, MarkSessionDeleted, Request, Gated, Land, pgVars
  <2> QED
    BY <1>1, <1>2, <2>1, ClientsSpareTarget DEF OpenHeld
<1>3. CASE TimerRead \/ TimerObserve \/ Tick \/ ResumeCommand \/ UNCHANGED vars
  <2>1. eng' = eng /\ runOpen' = runOpen /\ bucket' = bucket
    BY <1>3 DEF TimerRead, TimerObserve, Tick, ResumeCommand, vars, pgVars
  <2> QED
    BY <1>1, <2>1 DEF OpenHeld, Held
<1>4. ASSUME NEW mode \in {"copy", "switch"}, Start(mode) PROVE FALSE
  BY <1>4 DEF Start
<1>5. CASE FinishRun
  <2>1. eng.switched
    BY <1>5 DEF FinishRun, MigTypes, Locals
  <2> QED
    BY <1>1, <2>1 DEF BindHeld
<1>6. CASE Engine /\ ~FinishRun /\ ~ResumeCommand /\ ~(\E mode \in {"copy", "switch"} : Start(mode))
  <2>1. runOpen' = runOpen /\ eng.pc # "idle"
    BY <1>6 DEF Engine, CopyEnd, DeltaCheckEnd, ArmDrain, RunOff, ArmPause,
         ConfirmGate, AwaitQuiesced, ReadTombstones, RefuseLapse, SwapCredentials, RebindStore,
         VerifyEnd, ResumeIngest, Fail, CopyNext, CopyRead, CopyWrite, CopySide,
         RecordCopied, DeltaCheck, ReplayTombstone, VerifyTarget, pgVars
  <2> QED
    BY <1>1, <2>1 DEF OpenHeld
<1> QED
  BY <1>2, <1>3, <1>4, <1>5, <1>6 DEF Next

(* Held in the target after a step of the engine that moves objects. *)
LEMMA CopyHeld ==
  ASSUME MigTypes, NEW t \in Sessions, CopyRead(t) \/ CopyWrite(t) \/ CopySide(t) \/ ReplayTombstone(t)
  PROVE  /\ Held("source")' = Held("source")
         /\ CopyWrite(t) => Held("target")' \subseteq Held("target") \union {t}
         /\ ~CopyWrite(t) => Held("target")' \subseteq Held("target")
         /\ ReplayTombstone(t) => t \notin Held("target")'
<1>1. bucket'["source"] = bucket["source"]
  BY CopyWriteStores, CopySideStores, ReplayStores DEF CopyRead
<1>2. \A s \in Sessions \ {t} : Target(s)' = Target(s)
  BY CopyWriteStores, CopySideStores, ReplayStores DEF CopyRead, Target
<1>3. CopyRead(t) \/ CopySide(t) => Target(t)'.log = Target(t).log
  BY CopySideStores DEF CopyRead, Target
<1>4. ReplayTombstone(t) => ~(Target(t)'.log > 0)
  BY ReplayStores DEF Absent
<1> QED
  BY <1>1, <1>2, <1>3, <1>4 DEF Held, Target

LEMMA RecordKept ==
  ASSUME MigTypes, Course(eng), HoldInv, BindHeld, OpenHeld, RecordHeld, [Next]_vars, ~Crash,
         Clean, Clean'
  PROVE  RecordHeld'
<1> DEFINE pending(e) == IF e.pc \in {"side", "record"} THEN e.key ELSE {}
<1>0. Idle.pc = "idle"
  BY DEF Idle
<1>1. CASE Clients
  <2>1. eng' = eng /\ live' = live /\ record' = record
    BY <1>1 DEF Clients, Sign, MarkSessionDeleted, Request, Gated, Land, pgVars
  <2> QED
    BY <1>1, <2>1, ClientsSpareTarget DEF RecordHeld
<1>2. CASE TimerRead \/ TimerObserve \/ Tick \/ ResumeCommand \/ UNCHANGED vars
  <2>1. eng' = eng /\ live' = live /\ record' = record /\ bucket' = bucket
    BY <1>2 DEF TimerRead, TimerObserve, Tick, ResumeCommand, vars, pgVars
  <2> QED
    BY <2>1 DEF RecordHeld, Held
<1>3. ASSUME NEW mode \in {"copy", "switch"}, Start(mode) PROVE RecordHeld'
  <2>1. eng.pc = "idle" /\ live' = live /\ creds = "source" /\ bucket' = bucket
    BY <1>3 DEF Start
  <2>2. (runOpen /\ record' = record) \/ (~runOpen /\ record' = {})
    BY <1>3, StartDoes
  <2>3. live = "source" => Held("target") \subseteq record'
    BY <2>1, <2>2 DEF OpenHeld, RecordHeld
  <2> QED
    BY <2>1, <2>3 DEF RecordHeld, Held
<1>4. ASSUME NEW t \in Sessions, CopyRead(t) \/ CopyWrite(t) \/ CopySide(t) \/ ReplayTombstone(t)
      PROVE  RecordHeld'
  <2>1. live' = live /\ record' = record
    BY <1>4 DEF CopyRead, CopyWrite, CopySide, ReplayTombstone, engineFrame, pgVars
  <2> SUFFICES ASSUME live = "source" PROVE Held("target")' \subseteq record \union pending(eng')
    BY <2>1 DEF RecordHeld
  <2>2. Held("target") \subseteq record \union pending(eng)
    BY DEF RecordHeld
  <2>3. CASE CopyWrite(t)
    <3>1. eng.pc = "write" /\ eng.key = {t}
      BY <2>3 DEF CopyWrite
    <3>2. eng'.pc = "side" /\ eng'.key = eng.key
      BY <2>3, CopyWriteDoes DEF Works
    <3> QED
      BY <2>2, <2>3, <3>1, <3>2, CopyHeld
  <2>4. CASE CopySide(t)
    <3>1. eng.pc = "side" /\ eng.key = {t}
      BY <2>4 DEF CopySide
    <3>2. eng'.pc = "record" /\ eng'.key = eng.key
      BY <2>4, CopySideDoes DEF Works
    <3>3. Held("target")' \subseteq Held("target")
      BY <2>4, <3>1, CopyHeld DEF CopyWrite
    <3> QED
      BY <2>2, <3>1, <3>2, <3>3
  <2>5. CASE CopyRead(t) \/ ReplayTombstone(t)
    <3>1. eng.pc \in {"read", "replay"}
      BY <2>5 DEF CopyRead, ReplayTombstone
    <3>2. Held("target")' \subseteq Held("target")
      BY <2>5, <3>1, CopyHeld DEF CopyWrite
    <3> QED
      BY <2>2, <3>1, <3>2
  <2> QED
    BY <1>4, <2>3, <2>4, <2>5
<1>5. ASSUME NEW t \in Sessions, RecordCopied(t) PROVE RecordHeld'
  <2>1. /\ live' = live /\ record' = record \union {t} /\ bucket' = bucket
        /\ eng.pc = "record" /\ eng.key = {t}
    BY <1>5 DEF RecordCopied, engineFrame
  <2>2. eng'.pc = "copy"
    BY <1>5, RecordCopiedDoes DEF Works
  <2>3. live = "source" => Held("target") \subseteq record'
    BY <2>1 DEF RecordHeld
  <2> QED
    BY <2>1, <2>2, <2>3 DEF RecordHeld, Held
<1>6. CASE /\ Apart /\ ~ResumeCommand /\ ~(\E mode \in {"copy", "switch"} : Start(mode))
           /\ ~(\E t \in Sessions : RecordCopied(t))
  <2>1. bucket' = bucket /\ (live' = "source" => live = "source")
    BY <1>6, ApartDoes
  <2>2. record' = record
    BY <1>6 DEF Apart, CopyEnd, DeltaCheckEnd, ArmDrain, RunOff, ArmPause,
         ConfirmGate, AwaitQuiesced, ReadTombstones, RefuseLapse, SwapCredentials, RebindStore,
         VerifyEnd, ResumeIngest, FinishRun, Fail, CopyNext, DeltaCheck, VerifyTarget, pgVars
  <2>3. eng.pc \notin {"side", "record"}
    <3>1. Fail => eng.pc \notin {"side", "record"}
      <4>1. faults \in Nat /\ faults' = faults
        BY DEF Clean, MigTypes
      <4>2. Fail => faults' = faults + 1 \/ eng.pc = "read"
        BY DEF Fail
      <4>3. faults + 1 # faults
        BY <4>1
      <4> QED
        BY <4>1, <4>2, <4>3
    <3>2. ~Fail => eng.pc \notin {"side", "record"}
      BY <1>6 DEF Apart, CopyEnd, DeltaCheckEnd, ArmDrain, RunOff, ArmPause,
         ConfirmGate, AwaitQuiesced, ReadTombstones, RefuseLapse, SwapCredentials, RebindStore,
         VerifyEnd, ResumeIngest, FinishRun, CopyNext, DeltaCheck, VerifyTarget
    <3> QED
      BY <3>1, <3>2
  <2>4. live = "source" => Held("target") \subseteq record
    BY <2>3 DEF RecordHeld
  <2> QED
    BY <2>1, <2>2, <2>4 DEF RecordHeld, Held
<1> QED
  BY <1>1, <1>2, <1>3, <1>4, <1>5, <1>6, EngineSplit DEF Next

(* No step adds a stray but the engine's write of a copy, and the barrier, which
   forgets the calls that slipped. *)
LEMMA StraysShrink ==
  ASSUME MigTypes, Course(eng), HoldInv, BindHeld, [Next]_vars, live = "source",
         Pausing(eng) \/ creds = "target", \A t \in Sessions : ~CopyWrite(t)
  PROVE  Strays' \subseteq Strays
<1>0. ~Passes
  BY DEF Passes, AwaitQuiesced, Course, Pausing, BindHeld
<1>1. slipped \subseteq slipped'
  BY <1>0, SlippedStay
<1>2. CASE Clients
  <2>1. Held("target")' = Held("target")
    BY <1>2, ClientsSpareTarget
  <2>2. \A s \in Sessions \ slipped : Source(s)' = Source(s)
    BY <1>2, ClientsSpare
  <2> QED
    BY <1>1, <2>1, <2>2 DEF Strays, Held, Source
<1>3. ASSUME NEW t \in Sessions, CopyRead(t) \/ CopySide(t) \/ ReplayTombstone(t)
      PROVE  Strays' \subseteq Strays
  BY <1>1, <1>3, CopyHeld DEF Strays
<1>4. CASE Apart \/ TimerRead \/ TimerObserve \/ Tick \/ Crash \/ UNCHANGED vars
  <2>1. bucket' = bucket
    BY <1>4, ApartDoes DEF TimerRead, TimerObserve, Tick, Crash, vars
  <2> QED
    BY <1>1, <2>1 DEF Strays, Held
<1> QED
  BY <1>2, <1>3, <1>4, EngineSplit DEF Next

LEMMA ReplayKept ==
  ASSUME MigTypes, Course(eng), HoldInv, BindHeld, DataInv, RecordHeld, ReplayHeld, [Next]_vars,
         ~Crash
  PROVE  ReplayHeld'
<1>0. Idle.pc = "idle" /\ Idle.stage = "bulk"
  BY DEF Idle
<1>1. Pausing(eng) => live = "source"
  BY PausingServes
<1>2. ASSUME Pausing(eng'), eng'.pc = "replay" \/ eng'.stage = "fence"
      PROVE  /\ Pausing(eng) /\ \A t \in Sessions : ~CopyWrite(t)
             /\ eng.pc \in {"tombs", "replay", "arm", "confirm", "swap"} \/ eng' = eng
             /\ eng.pc = "replay" => eng.stage = "final"
  <2>1. CASE eng' = eng
    <3>1. \A t \in Sessions : ~CopyWrite(t)
      BY <1>2, <2>1 DEF CopyWrite, Course, Pausing, InHand
    <3> QED
      BY <1>2, <2>1, <3>1 DEF Course
  <2>2. CASE eng' # eng
    <3>1. Engine
      BY <2>2, ClientsLeaveEngine DEF Next, vars
    <3>2. ~Passes
      BY <1>2, AwaitQuiescedDoes DEF Passes, AwaitQuiesced, Course, Works, AbortOf, Pausing
    <3>3. Pausing(eng)
      BY <1>2, <3>1, <3>2, PausingBegins
    <3>4. eng.pc \in {"tombs", "replay", "arm", "confirm", "swap"}
      <4>1. ~ResumeCommand
        BY <2>2 DEF ResumeCommand
      <4>2. ~(\E mode \in {"copy", "switch"} : Start(mode)) /\ ~FinishRun
        BY <1>0, <3>3 DEF Start, FinishRun, Course, Pausing
      <4>3. ~CopyEnd /\ ~DeltaCheckEnd
        BY <1>2, <3>3, CopyEndDoes, DeltaCheckEndDoes DEF CopyEnd, DeltaCheckEnd, Course, Pausing
      <4>4. ~ArmDrain /\ ~RunOff /\ ~AwaitQuiesced /\ ~VerifyEnd /\ ~ResumeIngest
        BY <3>3 DEF ArmDrain, RunOff, AwaitQuiesced, VerifyEnd, ResumeIngest, Course, Pausing
      <4>5. ~RebindStore
        BY <1>2, RebindStoreDoes DEF Pausing
      <4>6. ~Fail
        BY <1>0, <1>2, FailDoes DEF AbortOf, Pausing
      <4>7. ASSUME NEW t \in Sessions, CopyNext(t) \/ CopyRead(t) \/ CopyWrite(t) \/ CopySide(t)
                     \/ RecordCopied(t) \/ DeltaCheck(t) \/ VerifyTarget(t)
            PROVE  FALSE
        <5>1. eng'.stage = eng.stage
          BY <4>7, CopyPausing
        <5>2. eng.pc \in {"copy", "check", "verify"} \union InHand
          BY <4>7 DEF CopyNext, CopyRead, CopyWrite, CopySide, RecordCopied, DeltaCheck, VerifyTarget,
                      InHand
        <5>3. eng'.pc # "replay"
          BY <4>7, CopyNextDoes, CopyReadDoes, CopyWriteDoes, CopySideDoes, RecordCopiedDoes,
             DeltaCheckDoes, VerifyDoes DEF VerifyTarget, Works
        <5> QED
          BY <1>2, <5>1, <5>2, <5>3 DEF Course, InHand
      <4> QED
        BY <3>1, <4>1, <4>2, <4>3, <4>4, <4>5, <4>6, <4>7
           DEF Engine, ArmPause, ConfirmGate, ReadTombstones, RefuseLapse, SwapCredentials,
               ReplayTombstone
    <3> QED
      BY <3>3, <3>4 DEF CopyWrite, Course
  <2> QED
    BY <2>1, <2>2
<1>3. ASSUME Pausing(eng'), eng'.stage = "fence" PROVE Strays' = {}
  <2>1. Strays' \subseteq Strays /\ Pausing(eng)
    BY <1>1, <1>2, <1>3, StraysShrink
  <2>2. CASE eng.stage = "fence"
    BY <2>1, <2>2 DEF ReplayHeld
  <2>3. CASE eng.stage # "fence"
    <3>1. Engine
      BY <1>3, <2>3, ClientsLeaveEngine DEF Next, vars
    <3>2. RefuseLapse
      <4>1. eng.pc \in {"tombs", "replay"}
        BY <1>2, <1>3, <2>1, <2>3 DEF Course, Pausing
      <4>2. ~ReadTombstones /\ \A t \in Sessions : ~ReplayTombstone(t)
        BY <1>3, <2>3, ReadTombstonesDoes, ReplayTombstoneDoes DEF Works
      <4>3. ~Fail
        BY <1>0, <1>3, FailDoes DEF AbortOf, Pausing
      <4> QED
        BY <3>1, <4>1, <4>2, <4>3 DEF Engine, Start, ResumeCommand, CopyEnd, DeltaCheckEnd, ArmDrain,
           RunOff, ArmPause, ConfirmGate, AwaitQuiesced, SwapCredentials, RebindStore, VerifyEnd,
           ResumeIngest, FinishRun, CopyNext, CopyRead, CopyWrite, CopySide, RecordCopied,
           DeltaCheck, VerifyTarget
    <3>3. eng.pc = "replay" /\ eng.todo = {}
      BY <3>2 DEF RefuseLapse
    <3> QED
      BY <2>1, <3>3 DEF ReplayHeld
  <2> QED
    BY <2>2, <2>3
<1>4. ASSUME Pausing(eng'), eng'.pc = "replay" PROVE Strays' \subseteq eng'.todo
  <2>1. Strays' \subseteq Strays /\ Pausing(eng) /\ live = "source"
    BY <1>1, <1>2, <1>4, StraysShrink
  <2>2. CASE eng' = eng
    BY <1>4, <2>1, <2>2 DEF ReplayHeld
  <2>3. CASE eng' # eng
    <3>1. Engine
      BY <2>3, ClientsLeaveEngine DEF Next, vars
    <3>2. ReadTombstones \/ \E t \in Sessions : ReplayTombstone(t)
      <4>1. eng.pc \in {"tombs", "replay", "arm", "confirm", "swap"}
        BY <1>2, <1>4, <2>3
      <4>2. ~ArmPause /\ ~ConfirmGate /\ ~SwapCredentials /\ ~RefuseLapse
        BY <1>4, ArmPauseDoes, ConfirmGateDoes, SwapCredentialsDoes, RefuseLapseDoes
           DEF Works, AbortOf
      <4>3. ~Fail
        BY <1>0, <1>4, FailDoes DEF AbortOf
      <4> QED
        BY <3>1, <4>1, <4>2, <4>3 DEF Engine, Start, ResumeCommand, CopyEnd, DeltaCheckEnd, ArmDrain,
           RunOff, AwaitQuiesced, RebindStore, VerifyEnd,
           ResumeIngest, FinishRun, CopyNext, CopyRead, CopyWrite, CopySide, RecordCopied,
           DeltaCheck, VerifyTarget
    <3>3. CASE ReadTombstones
      <4>1. eng'.todo = Tombstones /\ eng.pc = "tombs"
        BY <3>3, ReadTombstonesDoes DEF ReadTombstones, Works
      <4>2. Strays \subseteq tomb \intersect record
        BY <2>1, <4>1, StraysDeleted DEF RecordHeld, Strays
      <4> QED
        BY <2>1, <4>1, <4>2 DEF Tombstones
    <3>4. ASSUME NEW t \in Sessions, ReplayTombstone(t) PROVE Strays' \subseteq eng'.todo
      <4>1. eng.pc = "replay" /\ eng'.todo = eng.todo \ {t}
        BY <3>4, ReplayTombstoneDoes DEF ReplayTombstone, Works
      <4>2. t \notin Held("target")'
        BY <3>4, CopyHeld
      <4>3. Strays \subseteq eng.todo
        BY <2>1, <4>1 DEF ReplayHeld
      <4> QED
        BY <2>1, <4>1, <4>2, <4>3 DEF Strays
    <3> QED
      BY <3>2, <3>3, <3>4
  <2> QED
    BY <2>2, <2>3
<1>5. ASSUME creds' = "target", live' = "source" PROVE Strays' = {}
  <2>1. live = "source"
    <3>1. CASE Engine
      <4>1. live' = live \/ live' = "target"
        BY <3>1 DEF Engine, Start, ResumeCommand, CopyEnd, DeltaCheckEnd, ArmDrain, RunOff, ArmPause,
         ConfirmGate, AwaitQuiesced, ReadTombstones, RefuseLapse, SwapCredentials, RebindStore,
         VerifyEnd, ResumeIngest, FinishRun, Fail, CopyNext, CopyRead, CopyWrite, CopySide,
         RecordCopied, DeltaCheck, ReplayTombstone, VerifyTarget, engineFrame
      <4> QED
        BY <1>5, <4>1
    <3>2. CASE ~Engine
      <4>1. live' = live
        BY <3>2 DEF Next, vars, Clients, Sign, MarkSessionDeleted, Request, Gated, Land, TimerRead,
                    TimerObserve, Tick
      <4> QED
        BY <1>5, <4>1
    <3> QED
      BY <3>1, <3>2
  <2>2. CASE creds = "target"
    <3>1. \A t \in Sessions : ~CopyWrite(t)
      BY <2>2 DEF BindHeld, CopyWrite
    <3> QED
      BY <2>1, <2>2, <3>1, StraysShrink DEF ReplayHeld
  <2>3. CASE creds # "target"
    <3>1. SwapCredentials
      BY <1>5, <2>3 DEF Next, vars, Clients, Sign, MarkSessionDeleted, Request, Gated, Land, TimerRead,
         TimerObserve, Tick, Engine, Start, ResumeCommand, CopyEnd, DeltaCheckEnd, ArmDrain, RunOff,
         ArmPause, ConfirmGate, AwaitQuiesced, ReadTombstones, RefuseLapse, RebindStore,
         VerifyEnd, ResumeIngest, FinishRun, Fail, CopyNext, CopyRead, CopyWrite, CopySide,
         RecordCopied, DeltaCheck, ReplayTombstone, VerifyTarget, engineFrame
    <3>2. Pausing(eng) /\ eng.stage = "fence" /\ \A t \in Sessions : ~CopyWrite(t)
      BY <3>1 DEF SwapCredentials, CopyWrite, Course, Pausing
    <3> QED
      BY <2>1, <3>2, StraysShrink DEF ReplayHeld
  <2> QED
    BY <2>2, <2>3
<1> QED
  BY <1>3, <1>4, <1>5 DEF ReplayHeld

LEMMA StrayKept ==
  ASSUME MigTypes, Course(eng), HoldInv, BindHeld, DataInv, StrayHeld, [Next]_vars
  PROVE  StrayHeld'
<1> SUFFICES ASSUME Clean' PROVE (OpenHeld /\ RecordHeld /\ ReplayHeld)'
  BY DEF StrayHeld
<1>1. Clean /\ ~Crash
  BY CleanBefore
<1>2. OpenHeld /\ RecordHeld /\ ReplayHeld
  BY <1>1 DEF StrayHeld
<1>3. OpenHeld'
  BY <1>1, <1>2, OpenKept
<1>4. RecordHeld'
  BY <1>1, <1>2, RecordKept
<1>5. ReplayHeld'
  BY <1>1, <1>2, ReplayKept
<1> QED
  BY <1>3, <1>4, <1>5

-----------------------------------------------------------------------------
(* The cut.                                                                    *)

CutInv == PauseInv /\ HoldInv /\ BindHeld /\ DataInv /\ StrayHeld

LEMMA CutStarts == Init => CutInv
<1> SUFFICES ASSUME Init PROVE CutInv
  OBVIOUS
<1>1. MigTypes
  BY MigStarts
<1>2. /\ eng = Idle /\ reqs = {} /\ timer = {} /\ gate = 0 /\ sig = 0 /\ floor = 0 /\ now = 0
      /\ creds = "source" /\ live = "source" /\ row = 0
  BY DEF Init
<1>3. /\ Idle.pc = "idle" /\ Idle.stage = "bulk" /\ Idle.switched = FALSE /\ Idle.key = {}
      /\ Idle.episode = "none" /\ Idle.todo = {}
  BY DEF Idle
<1>4. PauseInv
  BY PauseStarts
<1>5. HoldInv
  BY <1>2, <1>3 DEF HoldInv, RowHeld, SigHeld, ReqsHeld, Watched, Pausing
<1>6. BindHeld
  BY <1>2, <1>3 DEF BindHeld
<1>7. \A s \in Sessions : /\ Target(s) = Absent /\ Source(s) = acked[s]
                          /\ (Source(s) = Absent \/ Source(s) = Whole)
  BY DEF Init, Source, Target, Buckets
<1>8. DataInv
  <2>1. TodoHeld
    BY <1>2, <1>3 DEF TodoHeld, InHand
  <2>2. ASSUME NEW s \in Sessions PROVE Below(s) /\ Carried(s) /\ Swapped(s) /\ Served(s)
    <3>1. /\ Target(s).log <= Source(s).log /\ Target(s).side <= Source(s).side
          /\ (Source(s).log = 0 => Source(s).side = 0)
      BY <1>7 DEF Absent, Whole
    <3>2. Below(s)
      BY <1>2, <1>3, <1>7, <3>1 DEF Below
    <3>3. Carried(s) /\ Swapped(s) /\ Served(s)
      BY <1>2, <1>3 DEF Carried, Pausing, Swapped, Served
    <3> QED
      BY <3>2, <3>3
  <2> QED
    BY <2>1, <2>2 DEF DataInv
<1>9. StrayHeld
  <2>1. Held("target") = {}
    BY <1>7 DEF Held, Target, Absent
  <2> QED
    BY <1>2, <1>3, <2>1 DEF StrayHeld, OpenHeld, RecordHeld, ReplayHeld, Pausing
<1> QED
  BY <1>4, <1>5, <1>6, <1>8, <1>9 DEF CutInv

LEMMA CutKept ==
  ASSUME CutInv, [Next]_vars
  PROVE  CutInv'
<1>1. /\ MigTypes /\ Course(eng)
      /\ HoldInv /\ BindHeld /\ DataInv /\ StrayHeld
  BY DEF CutInv, PauseInv
<1>2. PauseInv'
  BY PauseKept DEF CutInv
<1>3. HoldInv' /\ BindHeld'
  BY <1>1, HoldKept, BindKept
<1>4. DataInv'
  BY <1>1, DataKept
<1>5. StrayHeld'
  BY <1>1, StrayKept
<1> QED
  BY <1>2, <1>3, <1>4, <1>5 DEF CutInv

LEMMA CutInvariant == Spec => []CutInv
<1>1. CutInv /\ [Next]_vars => CutInv'
  BY CutKept
<1> QED
  BY <1>1, CutStarts, PTL DEF Spec

(* migration.ts, "moving a fortress's object storage to another bucket, without
   losing a write": once the process serves from the target the target holds, for
   every session that is not deleted and none of whose calls slipped past the pause,
   exactly what its clients were told is stored - whenever a refresh, an extension or
   a held call comes late, however often a run failed, crashed or was begun again, and
   whatever landed between the passes. *)
THEOREM LiveHoldsAckedHolds == Spec => []LiveHoldsAcked
<1>1. CutInv => LiveHoldsAcked
  BY DEF CutInv, DataInv, Served, LiveHoldsAcked
<1> QED
  BY <1>1, CutInvariant, PTL

(* Nothing but a client call writes to the source. *)
LEMMA EngineSparesSource ==
  ASSUME MigTypes, Course(eng), BindHeld, Engine
  PROVE  bucket'["source"] = bucket["source"]
<1>1. CASE Apart
  BY <1>1, ApartDoes
<1>2. ASSUME NEW t \in Sessions, CopyRead(t) \/ CopyWrite(t) \/ CopySide(t) \/ ReplayTombstone(t)
      PROVE  bucket'["source"] = bucket["source"]
  BY <1>2, CopyWriteStores, CopySideStores, ReplayStores DEF CopyRead
<1> QED
  BY <1>1, <1>2, EngineSplit

(* migration.ts, "the final delta and the tombstone replay run INSIDE the pause",
   and pause-gate.ts: while a run holds its pause the newest row is the one it armed
   and no client call lands in the source but those an outdated gate let through; the
   cut makes no other session appear that the source no longer holds (as long as no
   call failed and nothing crashed); and at the swap no signature this process issued
   before the barrier is still honoured. *)
THEOREM CutIsCleanHolds == Spec => CutIsClean
<1>1. CutInv /\ [Next]_vars =>
        [Pausing(eng) => \A s \in Sessions \ slipped : bucket'["source"][s] = Source(s)]_vars
  <2> SUFFICES ASSUME CutInv, Next, Pausing(eng), NEW s \in Sessions \ slipped
               PROVE  bucket'["source"][s] = Source(s)
    OBVIOUS
  <2>1. MigTypes /\ Course(eng) /\ HoldInv /\ BindHeld
    BY DEF CutInv, PauseInv
  <2>2. CASE Clients
    BY <2>1, <2>2, PausingServes, ClientsSpare DEF Source
  <2>3. CASE Engine
    BY <2>1, <2>3, EngineSparesSource DEF Source
  <2> QED
    BY <2>2, <2>3 DEF Next, TimerRead, TimerObserve, Tick, Crash, Source
<1>2. CutInv /\ [Next]_vars =>
        [(live = "source" /\ live' = "target" /\ crashes + faults = 0) =>
           \A s \in Held("target") \ slipped : s \in Held("source")]_vars
  <2> SUFFICES ASSUME CutInv, Next, live = "source", live' = "target", crashes + faults = 0
               PROVE  Strays = {}
    BY DEF Strays
  <2>1. MigTypes /\ BindHeld /\ StrayHeld
    BY DEF CutInv, PauseInv
  <2>2. Clean
    BY <2>1 DEF Clean, MigTypes
  <2>3. ReplayHeld
    BY <2>1, <2>2 DEF StrayHeld
  <2>4. creds = "target"
    <3>1. CASE Crash
      BY <3>1 DEF Crash
    <3>2. CASE RebindStore
      BY <2>1, <3>2 DEF RebindStore, BindHeld
    <3>3. CASE ~Crash /\ ~RebindStore
      <4>1. live' = live
        BY <3>3 DEF Next, Clients, Sign, MarkSessionDeleted, Request, Gated, Land, TimerRead,
         TimerObserve, Tick, Engine, Start, ResumeCommand, CopyEnd, DeltaCheckEnd, ArmDrain, RunOff,
         ArmPause, ConfirmGate, AwaitQuiesced, ReadTombstones, RefuseLapse, SwapCredentials,
         VerifyEnd, ResumeIngest, FinishRun, Fail, CopyNext, CopyRead, CopyWrite,
         CopySide, RecordCopied, DeltaCheck, ReplayTombstone, VerifyTarget, engineFrame
      <4> QED
        BY <4>1
    <3> QED
      BY <3>1, <3>2, <3>3
  <2> QED
    BY <2>3, <2>4 DEF ReplayHeld
<1>3. CutInv => CutAfterSignatures
  <2> SUFFICES ASSUME CutInv, eng.pc = "swap", crashes = 0, ~lateSign PROVE sig <= now
    BY DEF CutAfterSignatures
  <2>1. Pausing(eng)
    BY DEF CutInv, PauseInv, Course, Pausing
  <2> QED
    BY <2>1 DEF CutInv, HoldInv, SigHeld
<1>4. CutInv => PauseInForce
  <2> SUFFICES ASSUME CutInv, HoldsPause(eng) PROVE Effective(row) = eng.armed
    BY DEF PauseInForce
  <2>1. row = eng.armed /\ eng.armed > now
    BY DEF CutInv, HoldInv, RowHeld, Watched, HoldsPause
  <2> QED
    BY <2>1 DEF Effective
<1>5. Spec => SourceFrozen
  BY <1>1, CutInvariant, PTL DEF Spec, SourceFrozen
<1>6. Spec => CutAddsNothing
  BY <1>2, CutInvariant, PTL DEF Spec, CutAddsNothing
<1>7. Spec => [](PauseInForce /\ CutAfterSignatures)
  BY <1>3, <1>4, CutInvariant, PTL
<1> QED
  BY <1>5, <1>6, <1>7, PTL DEF CutIsClean
=============================================================================
