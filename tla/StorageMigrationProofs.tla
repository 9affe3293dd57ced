----------------------- MODULE StorageMigrationProofs -----------------------
(***************************************************************************)
(* What is proved of StorageMigration, for any number of sessions, client  *)
(* calls, runs, faults and crashes, and for every length of the beat, the  *)
(* budget, the barrier and the margin: how long a pause may be and that it *)
(* is released.  StorageCutProofs goes on from here to what the cut keeps. *)
(***************************************************************************)
EXTENDS StorageMigration, TLAPS

Content == [log : Nat, side : Nat]
Locals == [pc : EnginePcs, mode : {"copy", "switch"}, stage : Stages, todo : SUBSET Sessions,
           behind : SUBSET Sessions, key : SUBSET Sessions, buf : Content, done : SUBSET Sessions,
           passes : Nat, runOff : Nat, budget : Nat, deadline : Nat, armed : Nat,
           episode : {"none", "newest", "older"}, lapsed : BOOLEAN, switched : BOOLEAN,
           missing : SUBSET Sessions]

(* What of TypeOK the proofs use: how long a log or how late the clock gets does
   not matter to them. *)
MigTypes ==
  /\ bucket \in [Buckets -> [Sessions -> Content]] /\ acked \in [Sessions -> Content]
  /\ tomb \subseteq Sessions /\ record \subseteq Sessions
  /\ row \in Nat /\ timer \subseteq Nat /\ gate \in Nat
  /\ now \in Nat /\ floor \in Nat /\ sig \in Nat /\ crashes \in Nat /\ faults \in Nat
  /\ live \in Buckets /\ creds \in Buckets /\ reqs \subseteq Requests
  /\ eng \in Locals

-----------------------------------------------------------------------------
(* What each step of the engine does to its locals.                        *)

LEMMA ConstantsTyped ==
  /\ Beat \in Nat \ {0} /\ Budget \in Nat \ {0} /\ Barrier \in Nat \ {0} /\ Margin \in Nat \ {0}
  /\ LongTTL \in Nat \ {0} /\ ShortTTL \in Nat \ {0} /\ MaxPasses \in Nat \ {0}
BY TimesAssumption

LEMMA IdleTyped == Idle \in Locals
BY DEF Idle, Locals, EnginePcs, Stages, Content, Absent

LEMMA HeldTyped == \A b \in Buckets : Held(b) \subseteq Sessions
BY DEF Held

LEMMA MinimumTyped ==
  ASSUME NEW a \in Nat, NEW b \in Nat
  PROVE  Minimum(a, b) \in Nat /\ Minimum(a, b) <= a /\ Minimum(a, b) <= b
         /\ (Minimum(a, b) = a \/ Minimum(a, b) = b)
BY DEF Minimum

LEMMA MaximumTyped ==
  ASSUME NEW a \in Nat, NEW b \in Nat
  PROVE  Maximum(a, b) \in Nat /\ a <= Maximum(a, b) /\ b <= Maximum(a, b)
BY DEF Maximum

(* The fields a beat leaves alone, and those the narrowing of the copy leaves
   alone. *)
SameWork(e, f) ==
  /\ f.pc = e.pc /\ f.mode = e.mode /\ f.stage = e.stage /\ f.todo = e.todo /\ f.behind = e.behind
  /\ f.key = e.key /\ f.buf = e.buf /\ f.done = e.done /\ f.passes = e.passes
  /\ f.budget = e.budget /\ f.switched = e.switched

SamePause(e, f) ==
  /\ f.budget = e.budget /\ f.armed = e.armed /\ f.episode = e.episode
  /\ f.lapsed = e.lapsed /\ f.switched = e.switched

(* A beat that is not due leaves the row alone; one that is due inserts the row
   its new episode names. *)
BeatOf(e, f) ==
  /\ f.lapsed = (e.lapsed \/ e.armed <= now)
  /\ f.budget = e.budget /\ f.switched = e.switched
  /\ \/ f.armed = e.armed /\ f.episode = e.episode /\ row' = row
     \/ /\ Extends(e)
        /\ f.armed = ArmUntil(e) /\ f.episode = "newest"
        /\ row' = ArmUntil(e)

PulseOf(e, f) ==
  IF InPause(e) THEN BeatOf(e, f) ELSE SamePause(e, f) /\ row' = row

LEMMA ArmUntilTyped ==
  ASSUME MigTypes, NEW e \in Locals
  PROVE  /\ ArmUntil(e) \in Nat /\ ArmUntil(e) <= e.budget /\ ArmUntil(e) <= now + Beat
         /\ now < e.budget => now < ArmUntil(e)
<1>1. e.budget \in Nat /\ now \in Nat /\ now + Beat \in Nat /\ now < now + Beat
  BY ConstantsTyped DEF MigTypes, Locals
<1> QED
  BY <1>1, MinimumTyped DEF ArmUntil

LEMMA BeatenDoes ==
  ASSUME MigTypes
  PROVE  /\ Beaten(eng) \in Locals /\ SameWork(eng, Beaten(eng))
         /\ ((IF Extends(eng) THEN row' = ArmUntil(eng) ELSE UNCHANGED row)
              => BeatOf(eng, Beaten(eng)))
<1> DEFINE seen == [eng EXCEPT !.lapsed = @ \/ eng.armed <= now]
<1>0. eng \in Locals
  BY DEF MigTypes
<1>1. /\ seen \in Locals /\ SameWork(eng, seen) /\ seen.armed = eng.armed
      /\ seen.episode = eng.episode /\ seen.lapsed = (eng.lapsed \/ eng.armed <= now)
  BY <1>0 DEF Locals, SameWork
<1>2. ArmUntil(eng) \in Nat
  BY <1>0, ArmUntilTyped
<1>3. Beaten(eng) = IF Extends(eng) THEN [seen EXCEPT !.armed = ArmUntil(eng), !.episode = "newest"]
                    ELSE seen
  BY DEF Beaten, EpisodeNamed
<1> HIDE DEF seen
<1>4. CASE Extends(eng)
  <2>1. Beaten(eng) = [seen EXCEPT !.armed = ArmUntil(eng), !.episode = "newest"]
    BY <1>3, <1>4
  <2> DEFINE beaten == Beaten(eng)
             until == ArmUntil(eng)
  <2>a. beaten = [seen EXCEPT !.armed = until, !.episode = "newest"] /\ until \in Nat
    BY <1>2, <2>1
  <2> HIDE DEF beaten, until
  <2>b. beaten \in Locals
    BY <1>1, <2>a DEF Locals
  <2>c. /\ SameWork(seen, beaten) /\ beaten.lapsed = seen.lapsed
        /\ beaten.armed = until /\ beaten.episode = "newest"
    BY <1>1, <2>a DEF Locals, SameWork
  <2>2. /\ Beaten(eng) \in Locals /\ SameWork(seen, Beaten(eng))
        /\ Beaten(eng).armed = ArmUntil(eng) /\ Beaten(eng).episode = "newest"
        /\ Beaten(eng).lapsed = seen.lapsed
    BY <2>b, <2>c DEF beaten, until
  <2> QED
    BY <1>1, <1>4, <2>2 DEF SameWork, BeatOf
<1>5. CASE ~Extends(eng)
  BY <1>1, <1>3, <1>5 DEF SameWork, BeatOf
<1> QED
  BY <1>4, <1>5

LEMMA PulsedDoes ==
  ASSUME MigTypes
  PROVE  /\ Pulsed(eng) \in Locals /\ SameWork(eng, Pulsed(eng))
         /\ Pulse(eng) => PulseOf(eng, Pulsed(eng))
<1>1. CASE InPause(eng)
  BY <1>1, BeatenDoes DEF Pulsed, Pulse, PulseOf
<1>2. CASE ~InPause(eng)
  BY <1>2 DEF Pulsed, Pulse, PulseOf, SamePause, SameWork, MigTypes
<1> QED
  BY <1>1, <1>2

(* The work in hand after a step: where the run is and what is left of it. *)
Works(e, pc, stage, todo, key) ==
  e.pc = pc /\ e.stage = stage /\ e.todo = todo /\ e.key = key

LEMMA CopyNextDoes ==
  ASSUME MigTypes, NEW s \in Sessions, CopyNext(s)
  PROVE  /\ eng' \in Locals /\ PulseOf(eng, eng')
         /\ eng'.behind = eng.behind /\ eng'.buf = eng.buf /\ eng'.done = eng.done
         /\ \/ s \in eng.done /\ Works(eng', "copy", eng.stage, eng.todo \ {s}, eng.key)
            \/ Works(eng', "read", eng.stage, eng.todo \ {s}, {s})
<1> DEFINE p == Pulsed(eng)
           e == [p EXCEPT !.todo = @ \ {s}]
<1>1. p \in Locals /\ SameWork(eng, p) /\ PulseOf(eng, p) /\ eng.pc = "copy"
  BY PulsedDoes DEF CopyNext
<1>2. eng' = IF s \in eng.done /\ Current(s, FALSE) THEN e ELSE [e EXCEPT !.pc = "read", !.key = {s}]
  BY DEF CopyNext
<1> HIDE DEF p
<1>3. CASE s \in eng.done /\ Current(s, FALSE)
  BY <1>1, <1>2, <1>3 DEF Locals, SameWork, PulseOf, BeatOf, SamePause, Works
<1>4. CASE ~(s \in eng.done /\ Current(s, FALSE))
  <2>1. eng' = [p EXCEPT !.todo = @ \ {s}, !.pc = "read", !.key = {s}]
    BY <1>1, <1>2, <1>4 DEF Locals
  <2> QED
    BY <1>1, <2>1 DEF Locals, SameWork, PulseOf, BeatOf, SamePause, Works, EnginePcs
<1> QED
  BY <1>3, <1>4

LEMMA CopyReadDoes ==
  ASSUME MigTypes, NEW s \in Sessions, CopyRead(s)
  PROVE  /\ eng' \in Locals /\ SamePause(eng, eng')
         /\ Works(eng', "write", eng.stage, eng.todo, eng.key)
         /\ eng'.behind = eng.behind /\ eng'.done = eng.done
         /\ eng'.buf = [log |-> Source(s).log, side |-> 0]
<1>1. Source(s) \in Content
  BY DEF Source, MigTypes, Buckets
<1>2. [Absent EXCEPT !.log = Source(s).log] = [log |-> Source(s).log, side |-> 0]
  BY DEF Absent
<1>3. [log |-> Source(s).log, side |-> 0] \in Content
  BY <1>1 DEF Content
<1>4. eng' = [eng EXCEPT !.pc = "write", !.buf = [log |-> Source(s).log, side |-> 0]]
  BY <1>2 DEF CopyRead
<1> QED
  BY <1>3, <1>4 DEF MigTypes, Locals, SamePause, Works, EnginePcs

LEMMA CopyWriteDoes ==
  ASSUME MigTypes, NEW s \in Sessions, CopyWrite(s)
  PROVE  /\ eng' \in Locals /\ PulseOf(eng, eng')
         /\ Works(eng', "side", eng.stage, eng.todo, eng.key)
         /\ eng'.behind = eng.behind /\ eng'.done = eng.done
         /\ eng'.buf = [log |-> eng.buf.log, side |-> Source(s).side]
<1> DEFINE p == Pulsed(eng)
<1>1. p \in Locals /\ SameWork(eng, p) /\ PulseOf(eng, p)
  BY PulsedDoes DEF CopyWrite
<1>2. eng' = [p EXCEPT !.pc = "side", !.buf.side = Source(s).side]
  BY DEF CopyWrite
<1>3. Source(s) \in Content
  BY DEF Source, MigTypes, Buckets
<1> HIDE DEF p
<1>4. eng' = [p EXCEPT !.pc = "side", !.buf = [log |-> p.buf.log, side |-> Source(s).side]]
  <2>1. p.buf \in Content /\ [p EXCEPT !.pc = "side"].buf = p.buf
    BY <1>1 DEF Locals
  <2>2. [p.buf EXCEPT !.side = Source(s).side] = [log |-> p.buf.log, side |-> Source(s).side]
    BY <2>1 DEF Content
  <2>3. eng' = [[p EXCEPT !.pc = "side"] EXCEPT !.buf = [p.buf EXCEPT !.side = Source(s).side]]
    BY <1>2, <2>1
  <2> QED
    BY <2>2, <2>3
<1>5. [log |-> p.buf.log, side |-> Source(s).side] \in Content
  BY <1>1, <1>3 DEF Locals, Content
<1> QED
  BY <1>1, <1>4, <1>5 DEF Locals, SameWork, PulseOf, BeatOf, SamePause, Works, EnginePcs

LEMMA CopySideDoes ==
  ASSUME MigTypes, NEW s \in Sessions, CopySide(s)
  PROVE  /\ eng' \in Locals /\ SamePause(eng, eng')
         /\ Works(eng', "record", eng.stage, eng.todo, eng.key)
         /\ eng'.behind = eng.behind /\ eng'.buf = eng.buf /\ eng'.done = eng.done \union {s}
BY DEF CopySide, MigTypes, Locals, SamePause, Works, EnginePcs

LEMMA RecordCopiedDoes ==
  ASSUME MigTypes, NEW s \in Sessions, RecordCopied(s)
  PROVE  /\ eng' \in Locals /\ SamePause(eng, eng')
         /\ Works(eng', "copy", eng.stage, eng.todo, {})
         /\ eng'.behind = eng.behind /\ eng'.buf = Absent /\ eng'.done = eng.done
BY DEF RecordCopied, MigTypes, Locals, SamePause, Works, EnginePcs, Absent, Content

(* A pass begins by comparing everything the source holds; what follows one
   depends on the stage. *)
LEMMA CheckAllDoes ==
  ASSUME MigTypes, NEW e \in Locals
  PROVE  /\ CheckAll(e) \in Locals /\ SamePause(e, CheckAll(e))
         /\ Works(CheckAll(e), "check", e.stage, Held("source"), e.key)
         /\ CheckAll(e).behind = {} /\ CheckAll(e).buf = e.buf /\ CheckAll(e).done = e.done
BY HeldTyped DEF CheckAll, Locals, SamePause, Works, EnginePcs, Buckets

LEMMA AfterPassDoes ==
  ASSUME MigTypes
  PROVE  /\ AfterPass(eng) \in Locals /\ SamePause(eng, AfterPass(eng))
         /\ AfterPass(eng).stage = eng.stage /\ AfterPass(eng).key = eng.key
         /\ AfterPass(eng).buf = eng.buf
         /\ eng.stage = "drain" => AfterPass(eng).pc = "runoff"
         /\ eng.stage = "final" => AfterPass(eng).pc = "tombs"
         /\ eng.stage \notin {"drain", "final"} => AfterPass(eng).pc \in {"check", "finish", "drain"}
<1>0. eng \in Locals
  BY DEF MigTypes
<1>1. CASE eng.stage = "drain"
  BY <1>0, <1>1 DEF AfterPass, Locals, SamePause, EnginePcs
<1>2. CASE eng.stage = "final"
  BY <1>0, <1>2 DEF AfterPass, Locals, SamePause, EnginePcs
<1>3. CASE eng.stage \notin {"drain", "final"}
  <2> DEFINE e == [eng EXCEPT !.passes = @ + 1]
             f == [eng EXCEPT !.passes = 0, !.pc = IF eng.mode = "copy" THEN "finish" ELSE "drain"]
  <2>1. AfterPass(eng) = IF eng.behind # {} /\ eng.passes + 1 < MaxPasses THEN CheckAll(e) ELSE f
    BY <1>3 DEF AfterPass
  <2>2. e \in Locals /\ SamePause(eng, e) /\ e.stage = eng.stage /\ e.key = eng.key /\ e.buf = eng.buf
    BY <1>0 DEF Locals, SamePause
  <2>3. /\ f \in Locals /\ SamePause(eng, f) /\ f.stage = eng.stage /\ f.key = eng.key
        /\ f.buf = eng.buf /\ f.pc \in {"finish", "drain"}
    BY <1>0 DEF Locals, SamePause, EnginePcs
  <2> HIDE DEF e, f
  <2>4. /\ CheckAll(e) \in Locals /\ SamePause(e, CheckAll(e))
        /\ Works(CheckAll(e), "check", e.stage, Held("source"), e.key) /\ CheckAll(e).buf = e.buf
    BY <2>2, CheckAllDoes
  <2> QED
    BY <1>3, <2>1, <2>2, <2>3, <2>4 DEF SamePause, Works
<1> QED
  BY <1>1, <1>2, <1>3

LEMMA CopyEndDoes ==
  ASSUME MigTypes, CopyEnd
  PROVE  /\ eng' \in Locals /\ SamePause(eng, eng') /\ eng'.key = eng.key /\ eng'.buf = eng.buf
         /\ eng.stage = "bulk" => eng'.stage = "delta" /\ eng'.pc = "check"
         /\ eng.stage # "bulk" => eng'.stage = eng.stage
         /\ eng.stage = "drain" => eng'.pc = "runoff"
         /\ eng.stage = "final" => eng'.pc = "tombs"
         /\ eng.stage \notin {"bulk", "drain", "final"} => eng'.pc \in {"check", "finish", "drain"}
<1>1. CASE eng.stage = "bulk"
  <2> DEFINE e == [eng EXCEPT !.stage = "delta"]
  <2>1. e \in Locals /\ SamePause(eng, e) /\ e.stage = "delta" /\ e.key = eng.key /\ e.buf = eng.buf
    BY DEF MigTypes, Locals, SamePause, Stages
  <2>2. eng' = CheckAll(e)
    BY <1>1 DEF CopyEnd
  <2> HIDE DEF e
  <2> QED
    BY <1>1, <2>1, <2>2, CheckAllDoes DEF SamePause, Works
<1>2. CASE eng.stage # "bulk"
  <2>1. eng' = AfterPass(eng)
    BY <1>2 DEF CopyEnd
  <2> QED
    BY <1>2, <2>1, AfterPassDoes
<1> QED
  BY <1>1, <1>2

LEMMA DeltaCheckDoes ==
  ASSUME MigTypes, NEW s \in Sessions, DeltaCheck(s)
  PROVE  /\ eng' \in Locals /\ PulseOf(eng, eng')
         /\ Works(eng', "check", eng.stage, eng.todo \ {s}, eng.key)
         /\ eng'.buf = eng.buf /\ eng'.done = eng.done
         /\ \/ Current(s, InPause(eng)) /\ eng'.behind = eng.behind
            \/ eng'.behind = eng.behind \union {s}
<1> DEFINE p == Pulsed(eng)
           b == IF Current(s, InPause(eng)) THEN p.behind ELSE p.behind \union {s}
<1>1. p \in Locals /\ SameWork(eng, p) /\ PulseOf(eng, p) /\ eng.pc = "check"
  BY PulsedDoes DEF DeltaCheck
<1>2. eng' = [p EXCEPT !.todo = @ \ {s}, !.behind = b]
  <2>1. eng' = [p EXCEPT !.todo = @ \ {s},
                  !.behind = IF Current(s, InPause(eng)) THEN @ ELSE @ \union {s}]
    BY DEF DeltaCheck
  <2> HIDE DEF p
  <2> QED
    BY <1>1, <2>1 DEF Locals
<1>3. /\ b \in SUBSET Sessions
      /\ (Current(s, InPause(eng)) /\ b = eng.behind) \/ b = eng.behind \union {s}
  BY <1>1 DEF Locals, SameWork
<1> HIDE DEF p, b
<1> QED
  BY <1>1, <1>2, <1>3 DEF Locals, SameWork, PulseOf, BeatOf, SamePause, Works

LEMMA DeltaCheckEndDoes ==
  ASSUME MigTypes, DeltaCheckEnd
  PROVE  /\ eng' \in Locals /\ SamePause(eng, eng') /\ eng'.key = eng.key /\ eng'.buf = eng.buf
         /\ eng'.stage = eng.stage
         /\ eng.behind # {} => /\ eng'.pc = "copy" /\ eng'.todo = eng.behind
                               /\ eng'.done = eng.done \ eng.behind
         /\ eng.behind = {} =>
              /\ eng.stage = "drain" => eng'.pc = "runoff"
              /\ eng.stage = "final" => eng'.pc = "tombs"
              /\ eng.stage \notin {"drain", "final"} => eng'.pc \in {"check", "finish", "drain"}
<1>1. CASE eng.behind = {}
  BY <1>1, AfterPassDoes DEF DeltaCheckEnd
<1>2. CASE eng.behind # {}
  BY <1>2 DEF DeltaCheckEnd, MigTypes, Locals, SamePause, EnginePcs
<1> QED
  BY <1>1, <1>2

LEMMA ArmDrainDoes ==
  ASSUME MigTypes, ArmDrain
  PROVE  eng' \in Locals /\ SamePause(eng, eng') /\ Works(eng', "runoff", "drain", eng.todo, eng.key)
BY DEF ArmDrain, MigTypes, Locals, SamePause, Works, EnginePcs, Stages

LEMMA RunOffDoes ==
  ASSUME MigTypes, RunOff
  PROVE  /\ eng' \in Locals /\ eng'.key = eng.key
         /\ \/ SamePause(eng, eng') /\ eng'.pc = "check" /\ eng'.stage = eng.stage
            \/ /\ eng'.pc = "arm" /\ eng'.stage = "quiesce" /\ eng'.budget = now + Budget
               /\ eng'.episode = eng.episode /\ eng'.switched = eng.switched
<1>1. CASE now < eng.runOff
  BY <1>1, CheckAllDoes DEF RunOff, MigTypes, Works
<1>2. CASE ~(now < eng.runOff)
  <2>1. now + Budget \in Nat
    BY ConstantsTyped DEF MigTypes
  <2> QED
    BY <1>2, <2>1 DEF RunOff, MigTypes, Locals, EnginePcs, Stages
<1> QED
  BY <1>1, <1>2

LEMMA ArmPauseDoes ==
  ASSUME MigTypes, ArmPause
  PROVE  /\ eng' \in Locals /\ Works(eng', "confirm", eng.stage, eng.todo, eng.key)
         /\ eng'.armed = ArmUntil(eng) /\ eng'.episode = "newest"
         /\ eng'.budget = eng.budget /\ eng'.lapsed = eng.lapsed /\ eng'.switched = eng.switched
         /\ row' = ArmUntil(eng)
<1>1. eng \in Locals /\ ArmUntil(eng) \in Nat
  BY ArmUntilTyped DEF MigTypes
<1> QED
  BY <1>1 DEF ArmPause, Locals, Works, EnginePcs

(* The finally arm. *)
AbortOf(e, f) == SamePause(e, f) /\ f.pc = "resume" /\ f.stage = e.stage /\ f.key = {}

LEMMA AbortDoes ==
  ASSUME MigTypes
  PROVE  Abort(eng) \in Locals /\ AbortOf(eng, Abort(eng))
BY DEF Abort, MigTypes, Locals, SamePause, AbortOf, EnginePcs, Absent, Content

LEMMA ConfirmGateDoes ==
  ASSUME MigTypes, ConfirmGate
  PROVE  /\ eng' \in Locals
         /\ \/ AbortOf(eng, eng')
            \/ /\ eng.stage = "quiesce" /\ InForce(eng, gate') /\ SamePause(eng, eng')
               /\ Works(eng', "barrier", eng.stage, eng.todo, eng.key)
            \/ /\ eng.stage # "quiesce" /\ InForce(eng, gate') /\ SamePause(eng, eng')
               /\ Works(eng', "swap", eng.stage, eng.todo, eng.key)
<1>0. eng \in Locals
  BY DEF MigTypes
<1>1. CASE eng' = Abort(eng)
  BY <1>1, AbortDoes
<1>2. CASE /\ InForce(eng, gate') /\ eng.stage = "quiesce"
           /\ eng' = [eng EXCEPT !.pc = "barrier", !.deadline = Minimum(eng.budget, now + Barrier)]
  <2>1. Minimum(eng.budget, now + Barrier) \in Nat
    <3>1. eng.budget \in Nat /\ now + Barrier \in Nat
      BY ConstantsTyped DEF MigTypes, Locals
    <3> QED BY <3>1, MinimumTyped
  <2> QED
    BY <1>0, <1>2, <2>1 DEF Locals, SamePause, Works, EnginePcs
<1>3. CASE /\ InForce(eng, gate') /\ eng.stage # "quiesce"
           /\ eng' = [eng EXCEPT !.pc = "swap"]
  BY <1>0, <1>3 DEF Locals, SamePause, Works, EnginePcs
<1> QED
  BY <1>1, <1>2, <1>3 DEF ConfirmGate

LEMMA AwaitQuiescedDoes ==
  ASSUME MigTypes, AwaitQuiesced
  PROVE  /\ eng' \in Locals
         /\ \/ /\ Quiet /\ SamePause(eng, eng') /\ row' = row
               /\ eng'.buf = eng.buf /\ eng'.behind = {}
               /\ Works(eng', "check", "final", Held("source"), eng.key)
            \/ AbortOf(eng, eng') /\ row' = row
            \/ BeatOf(eng, eng') /\ Works(eng', eng.pc, eng.stage, eng.todo, eng.key)
<1>1. CASE Quiet /\ eng' = CheckAll([eng EXCEPT !.stage = "final", !.deadline = 0]) /\ UNCHANGED row
  <2> DEFINE e == [eng EXCEPT !.stage = "final", !.deadline = 0]
  <2>1. e \in Locals /\ SamePause(eng, e) /\ e.stage = "final" /\ e.key = eng.key /\ e.buf = eng.buf
    BY DEF MigTypes, Locals, SamePause, Stages
  <2> HIDE DEF e
  <2>2. CheckAll(e) \in Locals /\ SamePause(e, CheckAll(e)) /\ CheckAll(e).behind = {}
        /\ Works(CheckAll(e), "check", e.stage, Held("source"), e.key) /\ CheckAll(e).buf = e.buf
    BY <2>1, CheckAllDoes
  <2>3. eng' = CheckAll(e)
    BY <1>1 DEF e
  <2> QED
    BY <1>1, <2>1, <2>2, <2>3 DEF SamePause, Works
<1>2. CASE eng' = Abort(eng) /\ UNCHANGED row
  BY <1>2, AbortDoes
<1>3. CASE eng' = Beaten(eng) /\ (IF Extends(eng) THEN row' = ArmUntil(eng) ELSE UNCHANGED row)
  BY <1>3, BeatenDoes DEF Works, SameWork
<1> QED
  BY <1>1, <1>2, <1>3 DEF AwaitQuiesced

LEMMA ReadTombstonesDoes ==
  ASSUME MigTypes, ReadTombstones
  PROVE  /\ eng' \in Locals /\ PulseOf(eng, eng')
         /\ Works(eng', "replay", eng.stage, Tombstones, eng.key)
<1> DEFINE p == Pulsed(eng)
<1>1. p \in Locals /\ SameWork(eng, p) /\ PulseOf(eng, p) /\ Tombstones \subseteq Sessions
  BY PulsedDoes DEF ReadTombstones, Tombstones, MigTypes
<1>2. eng' = [p EXCEPT !.pc = "replay", !.todo = Tombstones]
  BY DEF ReadTombstones
<1> HIDE DEF p
<1> QED
  BY <1>1, <1>2 DEF Locals, SameWork, PulseOf, BeatOf, SamePause, Works, EnginePcs

LEMMA ReplayTombstoneDoes ==
  ASSUME MigTypes, NEW s \in Sessions, ReplayTombstone(s)
  PROVE  /\ eng' \in Locals /\ PulseOf(eng, eng')
         /\ Works(eng', "replay", eng.stage, eng.todo \ {s}, eng.key)
<1> DEFINE p == Pulsed(eng)
<1>1. p \in Locals /\ SameWork(eng, p) /\ PulseOf(eng, p) /\ eng.pc = "replay"
  BY PulsedDoes DEF ReplayTombstone
<1>2. eng' = [p EXCEPT !.todo = @ \ {s}]
  BY DEF ReplayTombstone
<1> HIDE DEF p
<1> QED
  BY <1>1, <1>2 DEF Locals, SameWork, PulseOf, BeatOf, SamePause, Works

LEMMA RefuseLapseDoes ==
  ASSUME MigTypes, RefuseLapse
  PROVE  /\ eng' \in Locals /\ SamePause(eng, eng')
         /\ \/ AbortOf(eng, eng')
            \/ /\ ~eng.lapsed /\ ~(eng.armed <= now)
               /\ Works(eng', "arm", "fence", eng.todo, eng.key)
<1>1. CASE eng.lapsed \/ eng.armed <= now
  BY <1>1, AbortDoes DEF RefuseLapse, AbortOf
<1>2. CASE ~(eng.lapsed \/ eng.armed <= now)
  BY <1>2 DEF RefuseLapse, MigTypes, Locals, SamePause, Works, EnginePcs, Stages
<1> QED
  BY <1>1, <1>2

LEMMA SwapCredentialsDoes ==
  ASSUME MigTypes, SwapCredentials
  PROVE  /\ eng' \in Locals /\ SamePause(eng, eng')
         /\ Works(eng', "rebind", eng.stage, eng.todo, eng.key)
BY DEF SwapCredentials, MigTypes, Locals, SamePause, Works, EnginePcs

(* The last steps: the pause fields but for `switched` stay. *)
SameEpisode(e, f) == f.budget = e.budget /\ f.episode = e.episode

LEMMA RebindStoreDoes ==
  ASSUME MigTypes, RebindStore
  PROVE  /\ eng' \in Locals /\ SameEpisode(eng, eng') /\ eng'.key \subseteq eng.key
         /\ \/ /\ live' = "target" /\ faults' = faults
               /\ eng'.pc = "verify" /\ eng'.stage = "cut"
            \/ /\ live' = live /\ faults' = faults
               /\ eng'.pc = "resume" /\ eng'.stage = eng.stage /\ eng'.key = {}
<1>0. eng \in Locals
  BY DEF MigTypes
<1>1. CASE /\ live' = "target"
           /\ eng' = [eng EXCEPT !.pc = "verify", !.stage = "cut", !.switched = TRUE, !.todo = Held("source")]
  BY <1>0, <1>1, HeldTyped DEF RebindStore, runVars, Locals, SameEpisode, EnginePcs, Stages, Buckets
<1>2. CASE /\ UNCHANGED live
           /\ eng' = [Abort(eng) EXCEPT !.switched = TRUE]
  <2> DEFINE a == Abort(eng)
  <2>1. a \in Locals /\ AbortOf(eng, a) /\ eng' = [a EXCEPT !.switched = TRUE]
    BY <1>2, AbortDoes
  <2> HIDE DEF a
  <2> QED
    BY <1>2, <2>1 DEF RebindStore, runVars, Locals, AbortOf, SamePause, SameEpisode
<1> QED
  BY <1>1, <1>2 DEF RebindStore, runVars

LEMMA VerifyDoes ==
  ASSUME MigTypes, NEW s \in Sessions, VerifyTarget(s)
  PROVE  /\ eng' \in Locals /\ SamePause(eng, eng')
         /\ Works(eng', eng.pc, eng.stage, eng.todo \ {s}, eng.key)
<1> DEFINE lost == Target(s).log < Source(s).log \/ (Source(s).side > 0 /\ Target(s).side = 0)
           m == IF lost THEN eng.missing \union {s} ELSE eng.missing
<1>1. eng \in Locals /\ eng' = [eng EXCEPT !.todo = @ \ {s}, !.missing = m]
  BY DEF VerifyTarget, MigTypes
<1>2. m \in SUBSET Sessions
  BY <1>1 DEF Locals
<1> HIDE DEF m, lost
<1> QED
  BY <1>1, <1>2 DEF Locals, SamePause, Works

LEMMA VerifyEndDoes ==
  ASSUME MigTypes, VerifyEnd
  PROVE  eng' \in Locals /\ AbortOf(eng, eng')
BY AbortDoes DEF VerifyEnd

LEMMA ResumeIngestDoes ==
  ASSUME MigTypes, ResumeIngest
  PROVE  eng' \in Locals /\ SamePause(eng, eng') /\ Works(eng', "finish", eng.stage, eng.todo, eng.key)
BY DEF ResumeIngest, MigTypes, Locals, SamePause, Works, EnginePcs

LEMMA StartDoes ==
  ASSUME MigTypes, NEW mode \in {"copy", "switch"}, Start(mode)
  PROVE  /\ eng' \in Locals /\ record' \subseteq Sessions
         /\ Works(eng', "copy", "bulk", Held("source"), {})
         /\ eng'.episode = "none" /\ eng'.switched = FALSE
         /\ (runOpen /\ record' = record) \/ (~runOpen /\ record' = {})
<1>1. record' \subseteq Sessions /\ ((runOpen /\ record' = record) \/ (~runOpen /\ record' = {}))
  BY DEF Start, MigTypes
<1>2. Idle \in Locals /\ Held("source") \subseteq Sessions
  BY IdleTyped, HeldTyped DEF Buckets
<1>3. eng' = [Idle EXCEPT !.pc = "copy", !.mode = mode, !.todo = Held("source"), !.done = record']
  BY DEF Start
<1>4. Idle.stage = "bulk" /\ Idle.key = {} /\ Idle.episode = "none" /\ Idle.switched = FALSE
  BY DEF Idle
<1> QED
  BY <1>1, <1>2, <1>3, <1>4 DEF Locals, Works, EnginePcs

LEMMA FailDoes ==
  ASSUME MigTypes, Fail
  PROVE  /\ eng' \in Locals
         /\ \/ /\ eng.stage \in {"quiesce", "final", "fence"} /\ eng.episode # "none"
               /\ AbortOf(eng, eng')
            \/ /\ ~(eng.stage \in {"quiesce", "final", "fence"} /\ eng.episode # "none")
               /\ eng' = Idle
BY AbortDoes, IdleTyped DEF Fail

-----------------------------------------------------------------------------
(* What each step does to the two buckets.                                 *)

LEMMA OneObjectSet ==
  ASSUME MigTypes, NEW b \in Buckets, NEW s \in Sessions, NEW o \in Content,
         bucket' = [bucket EXCEPT ![b] = [bucket[b] EXCEPT ![s] = o]]
  PROVE  /\ bucket' \in [Buckets -> [Sessions -> Content]]
         /\ bucket'[b][s] = o
         /\ \A c \in Buckets, t \in Sessions : c # b \/ t # s => bucket'[c][t] = bucket[c][t]
         /\ \A c \in Buckets : c # b => bucket'[c] = bucket[c]
<1>1. bucket \in [Buckets -> [Sessions -> Content]]
  BY DEF MigTypes
<1>2. [bucket[b] EXCEPT ![s] = o] \in [Sessions -> Content]
  BY <1>1
<1> QED
  BY <1>1, <1>2

(* The same for the target, the only bucket the engine writes to. *)
LEMMA TargetObjectSet ==
  ASSUME MigTypes, NEW s \in Sessions, NEW o \in Content,
         bucket' = [bucket EXCEPT !["target"] = [bucket["target"] EXCEPT ![s] = o]]
  PROVE  /\ bucket' \in [Buckets -> [Sessions -> Content]] /\ bucket'["source"] = bucket["source"]
         /\ \A t \in Sessions : t # s => Target(t)' = Target(t)
         /\ Target(s)' = o
<1>1. bucket \in [Buckets -> [Sessions -> Content]]
  BY DEF MigTypes
<1>2. "target" \in Buckets /\ "source" \in Buckets
  BY DEF Buckets
<1> DEFINE after == [bucket["target"] EXCEPT ![s] = o]
<1>3. bucket["target"] \in [Sessions -> Content]
  BY <1>1, <1>2
<1>4. /\ after \in [Sessions -> Content] /\ after[s] = o
      /\ \A t \in Sessions : t # s => after[t] = bucket["target"][t]
  BY <1>3
<1>5. bucket' = [bucket EXCEPT !["target"] = after]
  OBVIOUS
<1> HIDE DEF after
<1>6. bucket' \in [Buckets -> [Sessions -> Content]]
  BY <1>1, <1>4, <1>5
<1>7. bucket'["source"] = bucket["source"] /\ bucket'["target"] = after
  BY <1>1, <1>2, <1>5
<1> QED
  BY <1>4, <1>6, <1>7 DEF Target

(* The object a client call leaves and the one its client was told of. *)
LEMMA LandDoes ==
  ASSUME MigTypes, NEW r \in reqs, Land(r)
  PROVE  /\ bucket' \in [Buckets -> [Sessions -> Content]] /\ acked' \in [Sessions -> Content]
         /\ \A c \in Buckets, t \in Sessions : c # r.on \/ t # r.key => bucket'[c][t] = bucket[c][t]
         /\ \A c \in Buckets : c # r.on => bucket'[c] = bucket[c]
         /\ \A t \in Sessions : t # r.key => acked'[t] = acked[t]
         /\ r.kind = "append" =>
              /\ bucket'[r.on][r.key].log = bucket[r.on][r.key].log + 1
              /\ bucket'[r.on][r.key].side = bucket[r.on][r.key].side
              /\ acked'[r.key].log = acked[r.key].log + 1
              /\ acked'[r.key].side = acked[r.key].side
         /\ r.kind = "side" =>
              /\ bucket'[r.on][r.key].log = bucket[r.on][r.key].log
              /\ bucket'[r.on][r.key].side = acked[r.key].side + 1
              /\ acked'[r.key].log = acked[r.key].log
              /\ acked'[r.key].side = acked[r.key].side + 1
<1> DEFINE old == bucket[r.on][r.key]
           ack == acked[r.key]
           stored == CASE r.kind = "append" -> [old EXCEPT !.log = @ + 1]
                       [] r.kind = "side"   -> [old EXCEPT !.side = ack.side + 1]
                       [] r.kind = "delete" -> Absent
           told == CASE r.kind = "append" -> [ack EXCEPT !.log = @ + 1]
                     [] r.kind = "side"   -> [ack EXCEPT !.side = @ + 1]
                     [] r.kind = "delete" -> Absent
<1>1. r.on \in Buckets /\ r.key \in Sessions /\ r.kind \in {"append", "side", "delete"}
  BY DEF MigTypes, Requests
<1>2. old \in Content /\ ack \in Content
  BY <1>1 DEF MigTypes
<1>3. /\ bucket' = [bucket EXCEPT ![r.on] = [bucket[r.on] EXCEPT ![r.key] = stored]]
      /\ acked' = [acked EXCEPT ![r.key] = told]
  BY DEF Land
<1> HIDE DEF old, ack
<1>4. /\ stored \in Content /\ told \in Content
      /\ r.kind = "append" => /\ stored.log = old.log + 1 /\ stored.side = old.side
                              /\ told.log = ack.log + 1 /\ told.side = ack.side
      /\ r.kind = "side" => /\ stored.log = old.log /\ stored.side = ack.side + 1
                            /\ told.log = ack.log /\ told.side = ack.side + 1
  <2>1. CASE r.kind = "append"
    BY <2>1, <1>2 DEF Content
  <2>2. CASE r.kind = "side"
    BY <2>2, <1>2 DEF Content
  <2>3. CASE r.kind = "delete"
    BY <2>3 DEF Content, Absent
  <2> QED
    BY <1>1, <2>1, <2>2, <2>3
<1> HIDE DEF stored, told
<1>5. /\ bucket' \in [Buckets -> [Sessions -> Content]]
      /\ bucket'[r.on][r.key] = stored
      /\ \A c \in Buckets, t \in Sessions : c # r.on \/ t # r.key => bucket'[c][t] = bucket[c][t]
      /\ \A c \in Buckets : c # r.on => bucket'[c] = bucket[c]
  BY <1>1, <1>3, <1>4, OneObjectSet
<1>6. /\ acked' \in [Sessions -> Content] /\ acked'[r.key] = told
      /\ \A t \in Sessions : t # r.key => acked'[t] = acked[t]
  BY <1>1, <1>3, <1>4 DEF MigTypes
<1> QED
  BY <1>4, <1>5, <1>6 DEF old, ack

(* The engine writes to the target only. *)
LEMMA CopyWriteStores ==
  ASSUME MigTypes, NEW s \in Sessions, CopyWrite(s)
  PROVE  /\ bucket' \in [Buckets -> [Sessions -> Content]] /\ bucket'["source"] = bucket["source"]
         /\ \A t \in Sessions : t # s => Target(t)' = Target(t)
         /\ Target(s)'.log = eng.buf.log /\ Target(s)'.side = Target(s).side
<1> DEFINE o == [Target(s) EXCEPT !.log = eng.buf.log]
<1>1. Target(s) \in Content /\ eng.buf \in Content /\ "target" \in Buckets /\ "source" \in Buckets
  BY DEF Target, MigTypes, Locals, Buckets
<1>2. o \in Content /\ o.log = eng.buf.log /\ o.side = Target(s).side
  BY <1>1 DEF Content
<1>3. bucket' = [bucket EXCEPT !["target"] = [bucket["target"] EXCEPT ![s] = o]]
  BY DEF CopyWrite, Target
<1> HIDE DEF o
<1>4. /\ bucket' \in [Buckets -> [Sessions -> Content]] /\ bucket'["source"] = bucket["source"]
      /\ \A t \in Sessions : t # s => Target(t)' = Target(t)
      /\ Target(s)' = o
  BY <1>2, <1>3, TargetObjectSet
<1> QED
  BY <1>2, <1>4

LEMMA CopySideStores ==
  ASSUME MigTypes, NEW s \in Sessions, CopySide(s)
  PROVE  /\ bucket' \in [Buckets -> [Sessions -> Content]] /\ bucket'["source"] = bucket["source"]
         /\ \A t \in Sessions : t # s => Target(t)' = Target(t)
         /\ Target(s)'.log = Target(s).log
         /\ Target(s)'.side = (IF eng.buf.side = 0 THEN Target(s).side ELSE eng.buf.side)
<1> DEFINE o == [Target(s) EXCEPT !.side = eng.buf.side]
<1>1. Target(s) \in Content /\ eng.buf \in Content /\ "target" \in Buckets /\ "source" \in Buckets
  BY DEF Target, MigTypes, Locals, Buckets
<1>2. o \in Content /\ o.side = eng.buf.side /\ o.log = Target(s).log
  BY <1>1 DEF Content
<1>3. bucket' = IF eng.buf.side = 0 THEN bucket
                ELSE [bucket EXCEPT !["target"] = [bucket["target"] EXCEPT ![s] = o]]
  BY DEF CopySide, Target
<1> HIDE DEF o
<1>4. CASE eng.buf.side = 0
  BY <1>3, <1>4 DEF Target, MigTypes
<1>5. CASE eng.buf.side # 0
  <2>1. bucket' = [bucket EXCEPT !["target"] = [bucket["target"] EXCEPT ![s] = o]]
    BY <1>3, <1>5
  <2>2. /\ bucket' \in [Buckets -> [Sessions -> Content]] /\ bucket'["source"] = bucket["source"]
        /\ \A t \in Sessions : t # s => Target(t)' = Target(t)
        /\ Target(s)' = o
    BY <1>2, <2>1, TargetObjectSet
  <2> QED
    BY <1>2, <1>5, <2>2
<1> QED
  BY <1>4, <1>5

LEMMA ReplayStores ==
  ASSUME MigTypes, NEW s \in Sessions, ReplayTombstone(s)
  PROVE  /\ bucket' \in [Buckets -> [Sessions -> Content]] /\ bucket'["source"] = bucket["source"]
         /\ \A t \in Sessions : t # s => Target(t)' = Target(t)
         /\ Target(s)' = Absent
<1>1. Absent \in Content
  BY DEF Content, Absent
<1>2. bucket' = [bucket EXCEPT !["target"] = [bucket["target"] EXCEPT ![s] = Absent]]
  BY DEF ReplayTombstone
<1> QED
  BY <1>1, <1>2, TargetObjectSet

-----------------------------------------------------------------------------
(* Types.                                                                  *)

LEMMA EffectiveTyped ==
  ASSUME MigTypes, NEW until \in Nat
  PROVE  Effective(until) \in Nat /\ Effective(until) <= until
BY DEF Effective, MigTypes

LEMMA PulseRow ==
  ASSUME MigTypes, NEW f, PulseOf(eng, f) \/ BeatOf(eng, f)
  PROVE  row' \in Nat
<1>1. ArmUntil(eng) \in Nat /\ row \in Nat
  BY ArmUntilTyped DEF MigTypes
<1> QED
  BY <1>1 DEF PulseOf, BeatOf

LEMMA MigStarts == Init => MigTypes
<1> SUFFICES ASSUME Init PROVE MigTypes
  OBVIOUS
<1>1. Absent \in Content /\ Whole \in Content
  BY DEF Content, Absent, Whole
<1>2. bucket \in [Buckets -> [Sessions -> Content]] /\ bucket["source"] \in [Sessions -> Content]
  BY <1>1 DEF Init, Buckets
<1> QED
  BY <1>2, IdleTyped DEF Init, MigTypes, Buckets

LEMMA ClientTypes ==
  ASSUME MigTypes, Clients
  PROVE  MigTypes'
<1>1. CASE Sign
  <2>1. PICK ttl \in Nat : floor' = FloorRaised(ttl) /\ sig' = Maximum(sig, now + ttl)
    BY <1>1, ConstantsTyped DEF Sign
  <2>2. floor' \in Nat /\ sig' \in Nat
    <3>1. now + ttl \in Nat /\ floor \in Nat /\ sig \in Nat
      BY DEF MigTypes
    <3> QED BY <2>1, <3>1, MaximumTyped DEF FloorRaised
  <2> QED
    BY <1>1, <2>2 DEF Sign, MigTypes, pgVars
<1>2. ASSUME NEW s \in Sessions, MarkSessionDeleted(s) PROVE MigTypes'
  BY <1>2 DEF MarkSessionDeleted, MigTypes, memVars, history
<1>3. ASSUME NEW s \in Sessions, NEW kind \in {"append", "side", "delete"}, Request(s, kind)
      PROVE  MigTypes'
  <2>1. live \in Buckets
    BY DEF MigTypes
  <2>2. PICK pc \in {"held", "flight"} :
          reqs' = reqs \union {[key |-> s, kind |-> kind, on |-> live, pc |-> pc]}
    BY <1>3 DEF Request
  <2>3. [key |-> s, kind |-> kind, on |-> live, pc |-> pc] \in Requests
    BY <2>1 DEF Requests
  <2>4. reqs' \subseteq Requests
    BY <2>2, <2>3 DEF MigTypes, history
  <2> QED
    BY <1>3, <2>4 DEF Request, MigTypes, pgVars, memVars, history
<1>4. ASSUME NEW r \in reqs, Gated(r) PROVE MigTypes'
  <2>1. r \in Requests
    BY DEF MigTypes
  <2>2. [r EXCEPT !.pc = "flight"] \in Requests
    BY <2>1 DEF Requests
  <2>3. reqs' \subseteq Requests
    BY <1>4, <2>2 DEF Gated, MigTypes, history
  <2> QED
    BY <1>4, <2>3 DEF Gated, MigTypes, pgVars, memVars, runVars, history
<1>5. ASSUME NEW r \in reqs, Land(r) PROVE MigTypes'
  <2>1. bucket' \in [Buckets -> [Sessions -> Content]] /\ acked' \in [Sessions -> Content]
    BY <1>5, LandDoes
  <2> QED
    BY <1>5, <2>1 DEF Land, MigTypes, pgVars, memVars, runVars, history
<1> QED
  BY <1>1, <1>2, <1>3, <1>4, <1>5 DEF Clients

LEMMA CopyTypes ==
  ASSUME MigTypes, NEW s \in Sessions,
         \/ CopyNext(s) \/ CopyRead(s) \/ CopyWrite(s) \/ CopySide(s) \/ RecordCopied(s)
         \/ DeltaCheck(s) \/ ReplayTombstone(s) \/ VerifyTarget(s)
  PROVE  MigTypes'
<1>1. CASE CopyNext(s)
  BY <1>1, CopyNextDoes, PulseRow DEF CopyNext, MigTypes, pgVars, memVars, runVars, engineFrame, history
<1>2. CASE CopyRead(s)
  BY <1>2, CopyReadDoes DEF CopyRead, MigTypes, pgVars, memVars, runVars, engineFrame, history
<1>3. CASE CopyWrite(s)
  BY <1>3, CopyWriteDoes, CopyWriteStores, PulseRow
     DEF CopyWrite, MigTypes, pgVars, memVars, runVars, engineFrame, history
<1>4. CASE CopySide(s)
  BY <1>4, CopySideDoes, CopySideStores DEF CopySide, MigTypes, pgVars, memVars, runVars, engineFrame, history
<1>5. CASE RecordCopied(s)
  BY <1>5, RecordCopiedDoes DEF RecordCopied, MigTypes, pgVars, memVars, runVars, engineFrame, history
<1>6. CASE DeltaCheck(s)
  BY <1>6, DeltaCheckDoes, PulseRow DEF DeltaCheck, MigTypes, pgVars, memVars, runVars, engineFrame, history
<1>7. CASE ReplayTombstone(s)
  BY <1>7, ReplayTombstoneDoes, ReplayStores, PulseRow
     DEF ReplayTombstone, MigTypes, pgVars, memVars, runVars, engineFrame, history
<1>8. CASE VerifyTarget(s)
  BY <1>8, VerifyDoes DEF VerifyTarget, MigTypes, pgVars, memVars, runVars, engineFrame, history
<1> QED
  BY <1>1, <1>2, <1>3, <1>4, <1>5, <1>6, <1>7, <1>8

LEMMA EngineTypes ==
  ASSUME MigTypes, Engine
  PROVE  MigTypes'
<1>1. ASSUME NEW mode \in {"copy", "switch"}, Start(mode) PROVE MigTypes'
  BY <1>1, StartDoes DEF Start, MigTypes, memVars, history
<1>2. CASE ResumeCommand
  <2>1. row' \in Nat
    BY <1>2 DEF ResumeCommand
  <2> QED
    BY <1>2, <2>1 DEF ResumeCommand, MigTypes, pgVars, runVars, history
<1>3. CASE CopyEnd
  BY <1>3, CopyEndDoes DEF CopyEnd, MigTypes, pgVars, memVars, runVars, engineFrame, history
<1>4. CASE DeltaCheckEnd
  BY <1>4, DeltaCheckEndDoes DEF DeltaCheckEnd, MigTypes, pgVars, memVars, runVars, engineFrame, history
<1>5. CASE ArmDrain
  BY <1>5, ArmDrainDoes DEF ArmDrain, MigTypes, pgVars, runVars, history
<1>6. CASE RunOff
  BY <1>6, RunOffDoes DEF RunOff, MigTypes, pgVars, memVars, runVars, engineFrame, history
<1>7. CASE ArmPause
  <2>0. eng \in Locals
    BY DEF MigTypes
  <2>1. row' \in Nat
    <3>1. ArmUntil(eng) \in Nat
      BY <2>0, ArmUntilTyped
    <3> QED
      BY <1>7, <3>1, ArmPauseDoes
  <2> QED
    BY <1>7, <2>1, ArmPauseDoes DEF ArmPause, MigTypes, pgVars, memVars, runVars, engineFrame, history
<1>8. CASE ConfirmGate
  <2>1. gate' \in Nat
    BY <1>8, EffectiveTyped DEF ConfirmGate, MigTypes, history
  <2> QED
    BY <1>8, <2>1, ConfirmGateDoes DEF ConfirmGate, MigTypes, pgVars, memVars, runVars, history
<1>9. CASE AwaitQuiesced
  <2>1. row' \in Nat
    BY <1>9, AwaitQuiescedDoes, PulseRow DEF MigTypes, history
  <2> QED
    BY <1>9, <2>1, AwaitQuiescedDoes DEF AwaitQuiesced, MigTypes, pgVars, memVars, runVars, engineFrame, history
<1>10. CASE ReadTombstones
  BY <1>10, ReadTombstonesDoes, PulseRow DEF ReadTombstones, MigTypes, pgVars, memVars, runVars, engineFrame, history
<1>11. CASE RefuseLapse
  BY <1>11, RefuseLapseDoes DEF RefuseLapse, MigTypes, pgVars, memVars, runVars, engineFrame, history
<1>12. CASE SwapCredentials
  BY <1>12, SwapCredentialsDoes DEF SwapCredentials, MigTypes, pgVars, memVars, runVars, Buckets, history
<1>13. CASE RebindStore
  <2>1. live' \in Buckets
    BY <1>13 DEF RebindStore, MigTypes, Buckets, history
  <2> QED
    BY <1>13, <2>1, RebindStoreDoes DEF RebindStore, MigTypes, pgVars, memVars, runVars, history
<1>14. CASE VerifyEnd
  BY <1>14, VerifyEndDoes DEF VerifyEnd, MigTypes, pgVars, memVars, runVars, engineFrame, history
<1>15. CASE ResumeIngest
  <2>1. row' \in Nat /\ faults' \in Nat
    <3>1. row \in Nat /\ faults \in Nat /\ faults + 1 \in Nat
      BY DEF MigTypes
    <3>2. row' \in {row, 0} /\ faults' \in {faults, faults + 1}
      BY <1>15 DEF ResumeIngest
    <3> QED
      BY <3>1, <3>2
  <2> QED
    BY <1>15, <2>1, ResumeIngestDoes DEF ResumeIngest, MigTypes, pgVars, memVars, history
<1>16. CASE FinishRun
  BY <1>16, IdleTyped DEF FinishRun, MigTypes, runVars, history
<1>17. CASE Fail
  <2>1. faults' \in Nat
    BY <1>17 DEF Fail, MigTypes, history
  <2> QED
    BY <1>17, <2>1, FailDoes DEF Fail, MigTypes, pgVars, memVars, history
<1>18. ASSUME NEW s \in Sessions,
              \/ CopyNext(s) \/ CopyRead(s) \/ CopyWrite(s) \/ CopySide(s) \/ RecordCopied(s)
              \/ DeltaCheck(s) \/ ReplayTombstone(s) \/ VerifyTarget(s)
       PROVE  MigTypes'
  BY <1>18, CopyTypes
<1> QED
  BY <1>1, <1>2, <1>3, <1>4, <1>5, <1>6, <1>7, <1>8, <1>9, <1>10, <1>11, <1>12, <1>13, <1>14,
     <1>15, <1>16, <1>17, <1>18 DEF Engine

LEMMA TypesKept == MigTypes /\ [Next]_vars => MigTypes'
<1> SUFFICES ASSUME MigTypes, [Next]_vars PROVE MigTypes'
  OBVIOUS
<1>1. CASE TimerRead
  <2>1. timer' \subseteq Nat
    BY <1>1, EffectiveTyped DEF TimerRead, MigTypes
  <2> QED
    BY <1>1, <2>1 DEF TimerRead, MigTypes, pgVars, history
<1>2. CASE TimerObserve
  <2>1. gate' \in Nat
    BY <1>2, EffectiveTyped DEF TimerObserve, MigTypes, history
  <2> QED
    BY <1>2, <2>1 DEF TimerObserve, MigTypes, pgVars, runVars, history
<1>3. CASE Tick
  <2>1. now' \in Nat
    <3>1. now' = now + 1
      BY <1>3 DEF Tick
    <3>2. now \in Nat
      BY DEF MigTypes
    <3> QED
      BY <3>1, <3>2
  <2> QED
    BY <1>3, <2>1 DEF Tick, MigTypes, pgVars, memVars, history
<1>4. CASE Crash
  BY <1>4, IdleTyped DEF Crash, MigTypes, pgVars, history
<1>5. CASE UNCHANGED vars
  BY <1>5 DEF vars, MigTypes, pgVars, history
<1> QED
  BY <1>1, <1>2, <1>3, <1>4, <1>5, ClientTypes, EngineTypes DEF Next

-----------------------------------------------------------------------------
(* The course of a run: which stages a step of the engine belongs to.      *)

Paused == {"quiesce", "final", "fence", "cut"}
InHand == {"read", "write", "side", "record"}

Course(e) ==
  /\ e.pc = "idle" => e = Idle
  /\ e.pc \in {"copy"} \union InHand => e.stage \in {"bulk", "delta", "drain", "final"}
  /\ e.pc = "check" => e.stage \in {"delta", "drain", "final"}
  /\ e.pc \in {"drain", "runoff"} => e.stage \in {"delta", "drain"}
  /\ e.pc \in {"arm", "confirm"} => e.stage \in {"quiesce", "fence"}
  /\ e.pc = "barrier" => e.stage = "quiesce"
  /\ e.pc \in {"tombs", "replay"} => e.stage = "final"
  /\ e.pc \in {"swap", "rebind"} => e.stage = "fence"
  /\ e.pc = "verify" => e.stage = "cut"
  /\ e.pc = "resume" => e.stage \in Paused
  /\ e.pc \notin InHand => e.key = {}

LEMMA IdleCourse == Course(Idle)
BY DEF Course, Idle, InHand, Paused

LEMMA CopyCourse ==
  ASSUME MigTypes, Course(eng), NEW s \in Sessions,
         \/ CopyNext(s) \/ CopyRead(s) \/ CopyWrite(s) \/ CopySide(s) \/ RecordCopied(s)
         \/ DeltaCheck(s) \/ ReplayTombstone(s) \/ VerifyTarget(s)
  PROVE  Course(eng')
<1>1. CASE CopyNext(s)
  BY <1>1, CopyNextDoes DEF CopyNext, Course, Works, InHand
<1>2. CASE CopyRead(s)
  BY <1>2, CopyReadDoes DEF CopyRead, Course, Works, InHand
<1>3. CASE CopyWrite(s)
  BY <1>3, CopyWriteDoes DEF CopyWrite, Course, Works, InHand
<1>4. CASE CopySide(s)
  BY <1>4, CopySideDoes DEF CopySide, Course, Works, InHand
<1>5. CASE RecordCopied(s)
  BY <1>5, RecordCopiedDoes DEF RecordCopied, Course, Works, InHand
<1>6. CASE DeltaCheck(s)
  BY <1>6, DeltaCheckDoes DEF DeltaCheck, Course, Works, InHand
<1>7. CASE ReplayTombstone(s)
  BY <1>7, ReplayTombstoneDoes DEF ReplayTombstone, Course, Works, InHand
<1>8. CASE VerifyTarget(s)
  BY <1>8, VerifyDoes DEF VerifyTarget, Course, Works, InHand
<1> QED
  BY <1>1, <1>2, <1>3, <1>4, <1>5, <1>6, <1>7, <1>8

(* Only a run in its pause has an episode to release, and it ends there. *)
LEMMA AbortCourse ==
  ASSUME Course(eng), AbortOf(eng, eng'), eng.stage \in Paused
  PROVE  Course(eng')
BY DEF Course, AbortOf, InHand, Paused

LEMMA EngineCourse ==
  ASSUME MigTypes, Course(eng), Engine
  PROVE  Course(eng')
<1>1. ASSUME NEW mode \in {"copy", "switch"}, Start(mode) PROVE Course(eng')
  BY <1>1, StartDoes DEF Course, Works, InHand
<1>2. CASE ResumeCommand
  BY <1>2 DEF ResumeCommand, Course
<1>3. CASE CopyEnd
  BY <1>3, CopyEndDoes DEF CopyEnd, Course, InHand
<1>4. CASE DeltaCheckEnd
  BY <1>4, DeltaCheckEndDoes DEF DeltaCheckEnd, Course, InHand
<1>5. CASE ArmDrain
  BY <1>5, ArmDrainDoes DEF ArmDrain, Course, Works, InHand
<1>6. CASE RunOff
  BY <1>6, RunOffDoes DEF RunOff, Course, InHand
<1>7. CASE ArmPause
  BY <1>7, ArmPauseDoes DEF ArmPause, Course, Works, InHand
<1>8. CASE ConfirmGate
  BY <1>8, ConfirmGateDoes, AbortCourse DEF ConfirmGate, Course, Works, InHand, Paused
<1>9. CASE AwaitQuiesced
  BY <1>9, AwaitQuiescedDoes, AbortCourse DEF AwaitQuiesced, Course, Works, InHand, Paused
<1>10. CASE ReadTombstones
  BY <1>10, ReadTombstonesDoes DEF ReadTombstones, Course, Works, InHand
<1>11. CASE RefuseLapse
  BY <1>11, RefuseLapseDoes, AbortCourse DEF RefuseLapse, Course, Works, InHand, Paused
<1>12. CASE SwapCredentials
  BY <1>12, SwapCredentialsDoes DEF SwapCredentials, Course, Works, InHand
<1>13. CASE RebindStore
  BY <1>13, RebindStoreDoes DEF RebindStore, Course, InHand, Paused
<1>14. CASE VerifyEnd
  BY <1>14, VerifyEndDoes, AbortCourse DEF VerifyEnd, Course, Paused
<1>15. CASE ResumeIngest
  BY <1>15, ResumeIngestDoes DEF ResumeIngest, Course, Works, InHand
<1>16. CASE FinishRun
  BY <1>16, IdleCourse DEF FinishRun
<1>17. CASE Fail
  BY <1>17, FailDoes, IdleCourse, AbortCourse DEF Fail, Paused
<1>18. ASSUME NEW s \in Sessions,
              \/ CopyNext(s) \/ CopyRead(s) \/ CopyWrite(s) \/ CopySide(s) \/ RecordCopied(s)
              \/ DeltaCheck(s) \/ ReplayTombstone(s) \/ VerifyTarget(s)
       PROVE  Course(eng')
  BY <1>18, CopyCourse
<1> QED
  BY <1>1, <1>2, <1>3, <1>4, <1>5, <1>6, <1>7, <1>8, <1>9, <1>10, <1>11, <1>12, <1>13, <1>14,
     <1>15, <1>16, <1>17, <1>18 DEF Engine

LEMMA ClientsLeaveEngine ==
  ASSUME Clients \/ TimerRead \/ TimerObserve \/ Tick
  PROVE  eng' = eng
BY DEF Clients, Sign, MarkSessionDeleted, Request, Gated, Land, TimerRead, TimerObserve, Tick

LEMMA CourseKept == MigTypes /\ Course(eng) /\ [Next]_vars => Course(eng')
<1> SUFFICES ASSUME MigTypes, Course(eng), [Next]_vars PROVE Course(eng')
  OBVIOUS
<1>1. CASE eng' = eng
  BY <1>1
<1>2. CASE Crash
  BY <1>2, IdleCourse DEF Crash
<1>3. CASE Engine
  BY <1>3, EngineCourse
<1> QED
  BY <1>1, <1>2, <1>3, ClientsLeaveEngine DEF Next, vars

-----------------------------------------------------------------------------
(* The budget of a pause.  A row written before a run fixed its budget ends   *)
(* within a budget of the present, so within the new one: every deadline the  *)
(* plane knows of - row, gate, and a row a refresh still holds - obeys both.  *)

Within(until) == until <= now + Budget /\ (eng.stage \in Paused => until <= eng.budget)

BudgetHeld ==
  /\ eng.stage \in Paused => eng.budget <= now + Budget
  /\ Within(row) /\ Within(gate) /\ \A until \in timer : Within(until)

(* How an engine step moves the budget and the row. *)
BudgetStep ==
  /\ \/ eng'.stage \notin Paused
     \/ eng.stage \in Paused /\ eng'.budget = eng.budget
     \/ eng'.budget = now + Budget
  /\ \/ row' \in {row, 0}
     \/ eng.stage \in Paused /\ row' <= eng.budget

LEMMA PulseBudget ==
  ASSUME MigTypes, PulseOf(eng, eng') \/ (eng.stage \in Paused /\ BeatOf(eng, eng')),
         eng'.stage = eng.stage
  PROVE  BudgetStep
<1>1. eng \in Locals
  BY DEF MigTypes
<1>2. ArmUntil(eng) \in Nat /\ ArmUntil(eng) <= eng.budget
  BY <1>1, ArmUntilTyped
<1>3. CASE BeatOf(eng, eng') /\ eng.stage \in Paused
  BY <1>2, <1>3 DEF BeatOf, BudgetStep
<1>4. CASE SamePause(eng, eng') /\ row' = row
  BY <1>4 DEF SamePause, BudgetStep
<1> QED
  BY <1>3, <1>4 DEF PulseOf, InPause, Paused

LEMMA CopyBudget ==
  ASSUME MigTypes, Course(eng), NEW s \in Sessions,
         \/ CopyNext(s) \/ CopyRead(s) \/ CopyWrite(s) \/ CopySide(s) \/ RecordCopied(s)
         \/ DeltaCheck(s) \/ ReplayTombstone(s) \/ VerifyTarget(s)
  PROVE  BudgetStep
<1>1. CASE CopyNext(s)
  BY <1>1, CopyNextDoes, PulseBudget DEF Works
<1>2. CASE CopyRead(s)
  BY <1>2, CopyReadDoes DEF CopyRead, Works, SamePause, BudgetStep
<1>3. CASE CopyWrite(s)
  BY <1>3, CopyWriteDoes, PulseBudget DEF Works
<1>4. CASE CopySide(s)
  BY <1>4, CopySideDoes DEF CopySide, Works, SamePause, BudgetStep
<1>5. CASE RecordCopied(s)
  BY <1>5, RecordCopiedDoes DEF RecordCopied, Works, SamePause, BudgetStep
<1>6. CASE DeltaCheck(s)
  BY <1>6, DeltaCheckDoes, PulseBudget DEF Works
<1>7. CASE ReplayTombstone(s)
  BY <1>7, ReplayTombstoneDoes, PulseBudget DEF Works
<1>8. CASE VerifyTarget(s)
  BY <1>8, VerifyDoes DEF VerifyTarget, Works, SamePause, BudgetStep
<1> QED
  BY <1>1, <1>2, <1>3, <1>4, <1>5, <1>6, <1>7, <1>8

LEMMA EngineBudget ==
  ASSUME MigTypes, Course(eng), Engine
  PROVE  BudgetStep
<1>0. Idle.stage \notin Paused
  BY DEF Idle, Paused
<1>1. ASSUME NEW mode \in {"copy", "switch"}, Start(mode) PROVE BudgetStep
  BY <1>1, StartDoes DEF Start, Works, Paused, BudgetStep
<1>2. CASE ResumeCommand
  BY <1>0, <1>2 DEF ResumeCommand, Course, BudgetStep
<1>3. CASE CopyEnd
  BY <1>3, CopyEndDoes DEF CopyEnd, Course, SamePause, BudgetStep, Paused
<1>4. CASE DeltaCheckEnd
  BY <1>4, DeltaCheckEndDoes DEF DeltaCheckEnd, SamePause, BudgetStep
<1>5. CASE ArmDrain
  BY <1>5, ArmDrainDoes DEF ArmDrain, Works, BudgetStep, Paused
<1>6. CASE RunOff
  BY <1>6, RunOffDoes DEF RunOff, SamePause, BudgetStep
<1>7. CASE ArmPause
  <2>1. eng \in Locals
    BY DEF MigTypes
  <2>2. ArmUntil(eng) <= eng.budget /\ eng.stage \in Paused
    BY <1>7, <2>1, ArmUntilTyped DEF ArmPause, Course, Paused
  <2> QED
    BY <1>7, <2>2, ArmPauseDoes DEF Works, BudgetStep
<1>8. CASE ConfirmGate
  BY <1>8, ConfirmGateDoes DEF ConfirmGate, Course, Works, AbortOf, SamePause, BudgetStep, Paused
<1>9. CASE AwaitQuiesced
  <2>1. eng.stage \in Paused
    BY <1>9 DEF AwaitQuiesced, Course, Paused
  <2>2. CASE BeatOf(eng, eng') /\ eng'.stage = eng.stage
    BY <2>1, <2>2, PulseBudget
  <2>3. CASE SamePause(eng, eng') /\ row' = row
    BY <2>1, <2>3 DEF SamePause, BudgetStep
  <2> QED
    BY <1>9, <2>2, <2>3, AwaitQuiescedDoes DEF Works, AbortOf
<1>10. CASE ReadTombstones
  BY <1>10, ReadTombstonesDoes, PulseBudget DEF Works
<1>11. CASE RefuseLapse
  BY <1>11, RefuseLapseDoes DEF RefuseLapse, Course, SamePause, BudgetStep, Paused
<1>12. CASE SwapCredentials
  BY <1>12, SwapCredentialsDoes DEF SwapCredentials, Works, SamePause, BudgetStep
<1>13. CASE RebindStore
  BY <1>13, RebindStoreDoes DEF RebindStore, Course, SameEpisode, BudgetStep, Paused
<1>14. CASE VerifyEnd
  BY <1>14, VerifyEndDoes DEF VerifyEnd, AbortOf, SamePause, BudgetStep
<1>15. CASE ResumeIngest
  <2>1. row' \in {row, 0}
    BY <1>15 DEF ResumeIngest
  <2> QED
    BY <1>15, <2>1, ResumeIngestDoes DEF Works, SamePause, BudgetStep
<1>16. CASE FinishRun
  BY <1>0, <1>16 DEF FinishRun, BudgetStep
<1>17. CASE Fail
  BY <1>0, <1>17, FailDoes DEF Fail, AbortOf, SamePause, BudgetStep
<1>18. ASSUME NEW s \in Sessions,
              \/ CopyNext(s) \/ CopyRead(s) \/ CopyWrite(s) \/ CopySide(s) \/ RecordCopied(s)
              \/ DeltaCheck(s) \/ ReplayTombstone(s) \/ VerifyTarget(s)
       PROVE  BudgetStep
  BY <1>18, CopyBudget
<1> QED
  BY <1>1, <1>2, <1>3, <1>4, <1>5, <1>6, <1>7, <1>8, <1>9, <1>10, <1>11, <1>12, <1>13, <1>14,
     <1>15, <1>16, <1>17, <1>18 DEF Engine

(* The engine takes no time, and refreshes the gate only to confirm an episode. *)
LEMMA EngineClock ==
  ASSUME Engine
  PROVE  now' = now /\ timer' = timer /\ (gate' = gate \/ gate' = Effective(row))
  BY DEF Engine, Start, ResumeCommand, CopyEnd, DeltaCheckEnd, ArmDrain, RunOff, ArmPause,
         ConfirmGate, AwaitQuiesced, ReadTombstones, RefuseLapse, SwapCredentials, RebindStore,
         VerifyEnd, ResumeIngest, FinishRun, Fail, CopyNext, CopyRead, CopyWrite, CopySide,
         RecordCopied, DeltaCheck, ReplayTombstone, VerifyTarget, engineFrame, memVars, runVars

LEMMA BudgetKept ==
  ASSUME MigTypes, Course(eng), BudgetHeld, [Next]_vars
  PROVE  BudgetHeld'
<1>0. MigTypes'
  BY TypesKept
<1>1. /\ row \in Nat /\ row' \in Nat /\ gate \in Nat /\ gate' \in Nat /\ now \in Nat /\ now' \in Nat
      /\ timer \subseteq Nat /\ timer' \subseteq Nat /\ eng.budget \in Nat /\ eng'.budget \in Nat
      /\ Budget \in Nat
  BY <1>0, ConstantsTyped DEF MigTypes, Locals
<1>3. CASE TimerRead
  <2>1. Effective(row) <= row /\ Effective(row) \in Nat
    BY <1>1, EffectiveTyped
  <2>2. /\ now' = now /\ eng' = eng /\ row' = row /\ gate' = gate
        /\ timer' = timer \union {Effective(row)}
    BY <1>3 DEF TimerRead
  <2> QED
    BY <1>1, <2>1, <2>2 DEF BudgetHeld, Within
<1>4. CASE TimerObserve
  <2>1. PICK until \in timer : gate' = Effective(until)
    BY <1>4 DEF TimerObserve
  <2>2. gate' <= until /\ until \in Nat /\ Within(until)
    BY <1>1, <2>1, EffectiveTyped DEF BudgetHeld
  <2>3. /\ now' = now /\ eng' = eng /\ row' = row /\ timer' \subseteq timer
    BY <1>4 DEF TimerObserve, runVars
  <2> QED
    BY <1>1, <2>2, <2>3 DEF BudgetHeld, Within
<1>5. CASE Tick
  <2>1. /\ now' = now + 1 /\ eng' = eng /\ row' = row /\ gate' = gate /\ timer' = timer
    BY <1>5 DEF Tick, memVars
  <2> QED
    BY <1>1, <2>1 DEF BudgetHeld, Within
<1>6. CASE Clients
  <2>1. /\ now' = now /\ eng' = eng /\ row' = row /\ gate' = gate /\ timer' = timer
    BY <1>6 DEF Clients, Sign, MarkSessionDeleted, Request, Gated, Land, memVars, runVars
  <2> QED
    BY <2>1 DEF BudgetHeld, Within
<1>7. CASE Engine
  <2>1. /\ BudgetStep
        /\ now' = now /\ timer' = timer /\ (gate' = gate \/ gate' = Effective(row))
    BY <1>7, EngineBudget, EngineClock
  <2>2. gate' = gate \/ gate' <= row
    BY <1>1, <2>1, EffectiveTyped
  <2>3. eng'.stage \in Paused => eng'.budget <= now + Budget
    BY <1>1, <2>1 DEF BudgetStep, BudgetHeld
  <2>4. row' <= now + Budget /\ (eng'.stage \in Paused => row' <= eng'.budget)
    BY <1>1, <2>1 DEF BudgetStep, BudgetHeld, Within
  <2>5. gate' <= now + Budget /\ (eng'.stage \in Paused => gate' <= eng'.budget)
    BY <1>1, <2>1, <2>2 DEF BudgetStep, BudgetHeld, Within
  <2>6. \A until \in timer : until <= now + Budget /\ (eng'.stage \in Paused => until <= eng'.budget)
    BY <1>1, <2>1 DEF BudgetStep, BudgetHeld, Within
  <2> QED
    BY <2>1, <2>3, <2>4, <2>5, <2>6 DEF BudgetHeld, Within
<1>8. CASE Crash
  <2>1. now' = now /\ eng' = Idle /\ row' = row /\ gate' = 0 /\ timer' = {}
    BY <1>8 DEF Crash
  <2>2. Idle.stage \notin Paused
    BY DEF Idle, Paused
  <2> QED
    BY <1>1, <2>1, <2>2 DEF BudgetHeld, Within
<1>9. CASE UNCHANGED vars
  BY <1>9 DEF vars, BudgetHeld, Within
<1> QED
  BY <1>3, <1>4, <1>5, <1>6, <1>7, <1>8, <1>9 DEF Next

-----------------------------------------------------------------------------
(* The episode in hand.  As long as no call failed and nothing crashed, a row *)
(* that is still in force is the one its run will release at the end.         *)

EpisodeHeld ==
  /\ eng.episode # "none" => eng.stage \in Paused
  /\ faults = 0 /\ crashes = 0 /\ row # 0 => eng.episode = "newest" /\ eng.pc # "finish"

(* The step of a run that neither arms nor releases. *)
LEMMA EpisodeStays ==
  ASSUME EpisodeHeld, row' = row, SamePause(eng, eng') \/ SameEpisode(eng, eng'),
         eng.stage \in Paused => eng'.stage \in Paused /\ eng'.pc # "finish",
         faults' = 0 => faults = 0, crashes' = crashes
  PROVE  EpisodeHeld'
BY DEF EpisodeHeld, SamePause, SameEpisode

LEMMA PulseEpisode ==
  ASSUME EpisodeHeld, PulseOf(eng, eng') \/ (eng.stage \in Paused /\ BeatOf(eng, eng')),
         eng'.stage = eng.stage, eng'.pc # "finish", faults' = faults, crashes' = crashes
  PROVE  EpisodeHeld'
BY DEF EpisodeHeld, PulseOf, InPause, BeatOf, SamePause, Paused

LEMMA CopyEpisode ==
  ASSUME MigTypes, Course(eng), EpisodeHeld, NEW s \in Sessions,
         \/ CopyNext(s) \/ CopyRead(s) \/ CopyWrite(s) \/ CopySide(s) \/ RecordCopied(s)
         \/ DeltaCheck(s) \/ ReplayTombstone(s) \/ VerifyTarget(s)
  PROVE  EpisodeHeld'
<1>0. faults' = faults /\ crashes' = crashes
  BY DEF CopyNext, CopyRead, CopyWrite, CopySide, RecordCopied, DeltaCheck, ReplayTombstone,
         VerifyTarget, engineFrame, runVars
<1>1. CASE CopyNext(s)
  BY <1>0, <1>1, CopyNextDoes, PulseEpisode DEF Works
<1>2. CASE CopyRead(s)
  BY <1>0, <1>2, CopyReadDoes, EpisodeStays DEF CopyRead, Works
<1>3. CASE CopyWrite(s)
  BY <1>0, <1>3, CopyWriteDoes, PulseEpisode DEF Works
<1>4. CASE CopySide(s)
  BY <1>0, <1>4, CopySideDoes, EpisodeStays DEF CopySide, Works
<1>5. CASE RecordCopied(s)
  BY <1>0, <1>5, RecordCopiedDoes, EpisodeStays DEF RecordCopied, Works
<1>6. CASE DeltaCheck(s)
  BY <1>0, <1>6, DeltaCheckDoes, PulseEpisode DEF Works
<1>7. CASE ReplayTombstone(s)
  BY <1>0, <1>7, ReplayTombstoneDoes, PulseEpisode DEF Works
<1>8. CASE VerifyTarget(s)
  BY <1>0, <1>8, VerifyDoes, EpisodeStays DEF VerifyTarget, Works
<1> QED
  BY <1>1, <1>2, <1>3, <1>4, <1>5, <1>6, <1>7, <1>8

LEMMA EngineEpisode ==
  ASSUME MigTypes, Course(eng), EpisodeHeld, Engine
  PROVE  EpisodeHeld'
<1>0. Idle.stage = "bulk" /\ Idle.episode = "none" /\ Idle.pc = "idle"
  BY DEF Idle
<1>00. faults \in Nat /\ crashes \in Nat /\ row \in Nat
  BY DEF MigTypes
<1>1. ASSUME NEW mode \in {"copy", "switch"}, Start(mode) PROVE EpisodeHeld'
  <2>1. eng = Idle /\ row' = row /\ faults' = faults /\ crashes' = crashes
    BY <1>1 DEF Start, Course
  <2> QED
    BY <1>0, <1>1, <2>1, StartDoes DEF EpisodeHeld
<1>2. CASE ResumeCommand
  <2>1. row' = 0 /\ eng' = Idle
    BY <1>2 DEF ResumeCommand, Course
  <2> QED
    BY <1>0, <2>1 DEF EpisodeHeld
<1>3. CASE CopyEnd
  <2>1. faults' = faults /\ crashes' = crashes /\ row' = row
    BY <1>3 DEF CopyEnd, engineFrame, runVars
  <2> QED
    BY <1>3, <2>1, CopyEndDoes DEF CopyEnd, Course, SamePause, EpisodeHeld, Paused
<1>4. CASE DeltaCheckEnd
  <2>1. faults' = faults /\ crashes' = crashes /\ row' = row
    BY <1>4 DEF DeltaCheckEnd, engineFrame, runVars
  <2> QED
    BY <1>4, <2>1, DeltaCheckEndDoes DEF DeltaCheckEnd, Course, SamePause, EpisodeHeld, Paused
<1>5. CASE ArmDrain
  <2>1. faults' = faults /\ crashes' = crashes /\ row' = row
    BY <1>5 DEF ArmDrain, runVars
  <2> QED
    BY <1>5, <2>1, ArmDrainDoes DEF ArmDrain, Course, Works, SamePause, EpisodeHeld, Paused
<1>6. CASE RunOff
  <2>1. faults' = faults /\ crashes' = crashes /\ row' = row
    BY <1>6 DEF RunOff, engineFrame, runVars
  <2> QED
    BY <1>6, <2>1, RunOffDoes DEF RunOff, Course, SamePause, EpisodeHeld, Paused
<1>7. CASE ArmPause
  BY <1>7, ArmPauseDoes DEF ArmPause, Course, Works, EpisodeHeld, Paused
<1>8. CASE ConfirmGate
  <2>1. faults' = faults /\ crashes' = crashes /\ row' = row
    BY <1>8 DEF ConfirmGate, runVars
  <2> QED
    BY <1>8, <2>1, ConfirmGateDoes, EpisodeStays DEF Works, AbortOf
<1>9. CASE AwaitQuiesced
  <2>1. faults' = faults /\ crashes' = crashes /\ eng.stage \in Paused
    BY <1>9 DEF AwaitQuiesced, engineFrame, runVars, Course, Paused
  <2>2. CASE BeatOf(eng, eng') /\ Works(eng', eng.pc, eng.stage, eng.todo, eng.key)
    BY <1>9, <2>1, <2>2, PulseEpisode DEF Works, AwaitQuiesced
  <2>3. CASE SamePause(eng, eng') /\ row' = row /\ eng'.stage \in Paused /\ eng'.pc # "finish"
    BY <2>1, <2>3, EpisodeStays
  <2> QED
    BY <1>9, <2>1, <2>2, <2>3, AwaitQuiescedDoes DEF Works, AbortOf, Paused
<1>10. CASE ReadTombstones
  <2>1. faults' = faults /\ crashes' = crashes
    BY <1>10 DEF ReadTombstones, engineFrame, runVars
  <2> QED
    BY <1>10, <2>1, ReadTombstonesDoes, PulseEpisode DEF Works
<1>11. CASE RefuseLapse
  <2>1. faults' = faults /\ crashes' = crashes /\ row' = row
    BY <1>11 DEF RefuseLapse, engineFrame, runVars
  <2> QED
    BY <1>11, <2>1, RefuseLapseDoes, EpisodeStays DEF Works, AbortOf, Paused
<1>12. CASE SwapCredentials
  <2>1. faults' = faults /\ crashes' = crashes /\ row' = row
    BY <1>12 DEF SwapCredentials, runVars
  <2> QED
    BY <1>12, <2>1, SwapCredentialsDoes, EpisodeStays DEF Works
<1>13. CASE RebindStore
  <2>1. crashes' = crashes /\ faults' = faults /\ row' = row
    BY <1>13 DEF RebindStore, runVars
  <2> QED
    BY <1>13, <2>1, RebindStoreDoes, EpisodeStays DEF Paused
<1>14. CASE VerifyEnd
  <2>1. faults' = faults /\ crashes' = crashes /\ row' = row
    BY <1>14 DEF VerifyEnd, engineFrame, runVars
  <2> QED
    BY <1>14, <2>1, VerifyEndDoes, EpisodeStays DEF AbortOf
<1>15. CASE ResumeIngest
  <2>1. /\ eng.stage \in Paused /\ crashes' = crashes
        /\ eng'.episode = eng.episode /\ eng'.stage = eng.stage
    BY <1>15, ResumeIngestDoes DEF ResumeIngest, Course, Works, SamePause
  <2>2. CASE faults' = faults + 1
    <3>1. faults' # 0
      BY <1>00, <2>2
    <3> QED
      BY <2>1, <3>1 DEF EpisodeHeld
  <2>3. CASE /\ row' = IF eng.episode = "newest" THEN 0 ELSE row
             /\ faults' = faults
    <3>1. CASE eng.episode = "newest"
      <4>1. row' = 0
        BY <2>3, <3>1
      <4> QED
        BY <2>1, <4>1 DEF EpisodeHeld
    <3>2. CASE eng.episode # "newest"
      BY <2>1, <2>3, <3>2 DEF EpisodeHeld
    <3> QED
      BY <3>1, <3>2
  <2> QED
    BY <1>15, <2>2, <2>3 DEF ResumeIngest
<1>16. CASE FinishRun
  <2>1. faults' = faults /\ crashes' = crashes /\ row' = row /\ eng' = Idle /\ eng.pc = "finish"
    BY <1>16 DEF FinishRun, runVars
  <2> QED
    BY <1>0, <2>1 DEF EpisodeHeld
<1>17. CASE Fail
  <2>1. crashes' = crashes /\ row' = row /\ (faults' = faults \/ faults' = faults + 1)
    BY <1>17 DEF Fail
  <2>2. faults' = 0 => faults = 0
    BY <1>00, <2>1
  <2>3. CASE AbortOf(eng, eng') /\ eng.stage \in Paused
    BY <2>1, <2>2, <2>3, EpisodeStays DEF AbortOf
  <2>4. CASE /\ ~(eng.stage \in {"quiesce", "final", "fence"} /\ eng.episode # "none")
             /\ eng' = Idle
    <3>1. eng.stage # "cut"
      BY <1>17 DEF Fail, Course, InHand, Paused, MigTypes, Locals, EnginePcs
    <3>2. eng.episode = "none"
      BY <2>4, <3>1 DEF EpisodeHeld, Paused
    <3> QED
      BY <1>0, <2>1, <2>2, <2>4, <3>2 DEF EpisodeHeld
  <2> QED
    BY <1>17, <2>3, <2>4, FailDoes DEF Paused
<1>18. ASSUME NEW s \in Sessions,
              \/ CopyNext(s) \/ CopyRead(s) \/ CopyWrite(s) \/ CopySide(s) \/ RecordCopied(s)
              \/ DeltaCheck(s) \/ ReplayTombstone(s) \/ VerifyTarget(s)
       PROVE  EpisodeHeld'
  BY <1>18, CopyEpisode
<1> QED
  BY <1>1, <1>2, <1>3, <1>4, <1>5, <1>6, <1>7, <1>8, <1>9, <1>10, <1>11, <1>12, <1>13, <1>14,
     <1>15, <1>16, <1>17, <1>18 DEF Engine

LEMMA EpisodeHeldKept ==
  ASSUME MigTypes, Course(eng), EpisodeHeld, [Next]_vars
  PROVE  EpisodeHeld'
<1>1. CASE Clients \/ TimerRead \/ TimerObserve \/ Tick
  <2>1. row' = row /\ faults' = faults /\ crashes' = crashes /\ eng' = eng
    BY <1>1 DEF Clients, Sign, MarkSessionDeleted, Request, Gated, Land, TimerRead, TimerObserve,
                Tick, runVars
  <2> QED
    BY <2>1 DEF EpisodeHeld
<1>2. CASE Crash
  <2>1. crashes \in Nat /\ crashes' = crashes + 1 /\ eng' = Idle
    BY <1>2 DEF Crash, MigTypes
  <2>2. crashes' # 0
    BY <2>1
  <2> QED
    BY <2>1, <2>2 DEF EpisodeHeld, Idle
<1>3. CASE UNCHANGED vars
  BY <1>3 DEF vars, EpisodeHeld
<1>4. CASE Engine
  BY <1>4, EngineEpisode
<1> QED
  BY <1>1, <1>2, <1>3, <1>4 DEF Next

(* The invariant of the pause plane: it asks nothing of the clock or of the
   refreshes. *)
PauseInv == MigTypes /\ Course(eng) /\ BudgetHeld /\ EpisodeHeld

LEMMA PauseStarts == Init => PauseInv
<1> SUFFICES ASSUME Init PROVE PauseInv
  OBVIOUS
<1>1. MigTypes
  BY MigStarts
<1>2. eng = Idle /\ row = 0 /\ gate = 0 /\ timer = {} /\ now = 0
  BY DEF Init
<1>3. Course(eng)
  BY <1>2, IdleCourse
<1>4. BudgetHeld /\ EpisodeHeld
  BY <1>2, ConstantsTyped DEF BudgetHeld, Within, EpisodeHeld, Idle, Paused
<1> QED
  BY <1>1, <1>3, <1>4 DEF PauseInv

LEMMA PauseKept == PauseInv /\ [Next]_vars => PauseInv'
<1> SUFFICES ASSUME PauseInv, [Next]_vars PROVE PauseInv'
  OBVIOUS
<1>1. MigTypes /\ Course(eng) /\ BudgetHeld /\ EpisodeHeld
  BY DEF PauseInv
<1>2. MigTypes' /\ BudgetHeld' /\ EpisodeHeld'
  BY <1>1, TypesKept, BudgetKept, EpisodeHeldKept
<1>3. Course(eng)'
  BY <1>1, CourseKept DEF Course
<1> QED
  BY <1>2, <1>3 DEF PauseInv

LEMMA PauseInvariant == Spec => []PauseInv
BY PauseStarts, PauseKept, PTL DEF Spec

(* migration.ts SWAP_PAUSE_MS, "the whole budget the cut may hold writes off for,
   across every heartbeat": neither the newest control row nor the gate is ever
   past the budget fixed when the first episode was armed - for every length of
   the beat and of the budget, the beat being the longer one included. *)
THEOREM PauseWithinBudgetHolds == Spec => []PauseWithinBudget
<1>1. PauseInv => PauseWithinBudget
  BY DEF PauseInv, BudgetHeld, EpisodeHeld, Within, PauseWithinBudget
<1> QED
  BY <1>1, PauseInvariant, PTL

(* The finally arm of runStorageMigration releases the episode in hand: without
   a failed call or a crash no run leaves a pause behind, however many beats it
   sent and wherever it gave up. *)
THEOREM PauseReleasedHolds == Spec => []PauseReleased
<1>1. PauseInv => PauseReleased
  <2> SUFFICES ASSUME PauseInv, eng.pc = "idle", faults = 0, crashes = 0 PROVE row = 0
    BY DEF PauseReleased
  <2>1. eng.episode = "none"
    BY DEF PauseInv, Course, Idle
  <2> QED
    BY <2>1 DEF PauseInv, EpisodeHeld
<1> QED
  BY <1>1, PauseInvariant, PTL
=============================================================================
