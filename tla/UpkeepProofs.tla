---------------------------- MODULE UpkeepProofs ----------------------------
(***************************************************************************)
(* The six parts of the daemon's background work (Upkeep), which share no  *)
(* state: the clamps of the pool bounds, right for every environment and   *)
(* not only for the values a check tries; the passes of the embed worker,  *)
(* for any number of turns, troubles and days; the residency audit, for    *)
(* any number of sessions, deletions, runs and toggles; the database under *)
(* the fortress, for any number of boots, faults and attempts; the guarded *)
(* pool, for any number of callers and rebuilds; and the replay of parked  *)
(* sidecars, for any number of sessions, pauses, failures and migrations.  *)
(***************************************************************************)
EXTENDS Healing, ParkReplay, PoolBounds, EmbedWorker, Residency, PostgresBoot,
        FiniteSetTheorems, WellFoundedInduction, TLAPS

-----------------------------------------------------------------------------
(* The pools.                                                              *)

(* The bounds one role's pool must satisfy, whenever it is built. *)
Bounded(role, pool) ==
  /\ (pool.statement = 0) <=> (knobs.shared = 0)
  /\ knobs.shared = 0 => pool = [Unbuilt EXCEPT !.built = TRUE]
  /\ role \in {"rw", "ro"} => pool.statement <= knobs.shared
  /\ role = "bg" =>
       /\ knobs.shared < Default.shared => pool.statement <= knobs.shared
       /\ pool.statement > Positive("ingest")
            => pool.statement + Margin <= Positive("life")
       /\ knobs.shared > 0 =>
            pool.statement >= Least(RwStatement, Positive("bg"))

PoolsInv ==
  /\ knobs \in Environments
  /\ DOMAIN pools = Roles
  /\ \A role \in Roles : pools[role].built => Bounded(role, pools[role])

(* A knob whose 0 means its default is never 0. *)
LEMMA PositiveIs ==
  ASSUME knobs \in Environments
  PROVE  /\ Positive("ingest") \in Nat /\ Positive("ingest") > 0
         /\ Positive("bg") \in Nat /\ Positive("bg") > 0
         /\ Positive("life") \in Nat /\ Positive("life") > 0
BY DEF Environments, Positive, Default

(* What the live path is given: never 0 unless the shared bound is. *)
LEMMA RwIs ==
  ASSUME knobs \in Environments
  PROVE  /\ RwStatement \in Nat /\ RwStatement <= knobs.shared /\ RwStatement <= Positive("ingest")
         /\ RwStatement = 0 <=> knobs.shared = 0
<1>1. knobs.shared \in Nat
  BY DEF Environments
<1>2. QED
  BY <1>1, PositiveIs DEF RwStatement, Least

LEMMA RoIs ==
  ASSUME knobs \in Environments
  PROVE  RoStatement \in Nat /\ RoStatement <= knobs.shared /\ (RoStatement = 0 <=> knobs.shared = 0)
<1>1. knobs.shared \in Nat /\ knobs.ro \in Nat
  BY DEF Environments
<1>2. QED
  BY <1>1 DEF RoStatement, Least

(* The two clamps of the repair pool, against each other. *)
LEMMA BgIs ==
  ASSUME knobs \in Environments, knobs.shared > 0
  PROVE  /\ BgStatement \in Nat /\ BgStatement > 0
         /\ knobs.shared < Default.shared => BgStatement <= knobs.shared
         /\ BgStatement > Positive("ingest") => BgStatement + Margin <= Positive("life")
         /\ BgStatement >= Least(RwStatement, Positive("bg"))
<1> DEFINE ingest == Positive("ingest")
           bg == Positive("bg")
           life == Positive("life")
           budget == IF knobs.shared < Default.shared THEN knobs.shared ELSE bg
<1>1. knobs.shared \in Nat /\ Default.shared = 120
  BY DEF Environments, Default
<1>2. ingest \in Nat /\ ingest > 0 /\ bg \in Nat /\ bg > 0 /\ life \in Nat /\ life > 0
  BY PositiveIs
<1>3. BgCap = Most(ingest, life - Margin) /\ BgStatement = Least(budget, BgCap)
  BY DEF BgCap, BgStatement
<1>4. RwStatement \in Nat /\ RwStatement <= knobs.shared /\ RwStatement <= ingest
  BY RwIs
<1> HIDE DEF ingest, bg, life
<1>5. BgCap \in Nat /\ BgCap >= ingest /\ (BgCap > ingest => BgCap = life - Margin)
  BY <1>2, <1>3 DEF Most, Margin
<1>6. budget \in Nat /\ budget > 0
  BY <1>1, <1>2
<1>7. /\ BgStatement \in Nat /\ BgStatement > 0 /\ BgStatement <= budget /\ BgStatement <= BgCap
      /\ BgStatement = budget \/ BgStatement = BgCap
  BY <1>2, <1>3, <1>5, <1>6 DEF Least
<1>8. knobs.shared < Default.shared => BgStatement <= knobs.shared
  BY <1>7
<1>9. BgStatement > ingest => BgStatement + Margin <= life
  BY <1>2, <1>5, <1>7 DEF Margin
<1>10. BgStatement >= Least(RwStatement, bg)
  BY <1>1, <1>2, <1>4, <1>5, <1>7 DEF Least
<1>11. QED
  BY <1>7, <1>8, <1>9, <1>10 DEF ingest, bg, life

(* Whatever a role is given when its pool is built is within its bounds. *)
LEMMA OptionsBounded ==
  ASSUME knobs \in Environments, NEW role \in Roles
  PROVE  Bounded(role, Options(role))
<1>0. knobs.shared \in Nat
  BY DEF Environments
<1>1. CASE role = "rw"
  <2>1. Options(role) = Startup(RwStatement, knobs.lock, knobs.txn)
    BY <1>1 DEF Options
  <2>2. QED
    BY <1>0, <1>1, <2>1, RwIs DEF Startup, Bounded, Unbuilt
<1>2. CASE role = "ro"
  <2>1. Options(role) = Startup(RoStatement, 0, 0)
    BY <1>2 DEF Options
  <2>2. QED
    BY <1>0, <1>2, <2>1, RoIs DEF Startup, Bounded, Unbuilt
<1>3. CASE role = "bg"
  <2>1. Options(role) = Startup(BgStatement, knobs.bgLock, 0)
    BY <1>3 DEF Options
  <2>2. CASE knobs.shared = 0
    <3>1. Options(role) = [Unbuilt EXCEPT !.built = TRUE]
      BY <2>1, <2>2 DEF Startup
    <3>2. Options(role).statement = 0
      BY <3>1 DEF Unbuilt
    <3>3. QED
      BY <1>3, <2>2, <3>1, <3>2, PositiveIs DEF Bounded
  <2>3. CASE knobs.shared > 0
    <3>1. Options(role).statement = BgStatement
      BY <1>0, <2>1, <2>3, BgIs DEF Startup
    <3>2. QED
      BY <1>0, <1>3, <2>3, <3>1, BgIs DEF Bounded
  <2>4. QED
    BY <1>0, <2>2, <2>3
<1>4. CASE role = "em"
  <2>1. Options(role) = Startup(300, 0, 0)
    BY <1>4 DEF Options
  <2>2. QED
    BY <1>0, <1>4, <2>1 DEF Startup, Bounded, Unbuilt
<1>5. QED
  BY <1>1, <1>2, <1>3, <1>4 DEF Roles

(* Every pool the process ever builds is within the bounds its role promises,
   for every environment an operator may set. *)
THEOREM PoolsAreBounded == PoolSpec => []PoolsBounded
<1>1. PoolInit(TRUE) => PoolsInv
  BY KnobsAssumption DEF PoolInit, PoolsInv, Unbuilt
<1>2. PoolsInv /\ [PoolNext]_poolVars => PoolsInv'
  <2>1. SUFFICES ASSUME PoolsInv, [PoolNext]_poolVars PROVE PoolsInv'
    OBVIOUS
  <2>2. CASE UNCHANGED poolVars
    BY <2>1, <2>2 DEF poolVars, PoolsInv, Bounded, Positive, RwStatement
  <2>3. ASSUME NEW r \in Roles, BuildPool(r) PROVE PoolsInv'
    <3>1. knobs' = knobs /\ pools' = [pools EXCEPT ![r] = Options(r)] /\ DOMAIN pools = Roles
      BY <2>1, <2>3 DEF BuildPool, PoolsInv
    <3>2. \A role \in Roles : pools'[role].built => Bounded(role, pools'[role])
      BY <2>1, <3>1, OptionsBounded DEF PoolsInv
    <3>3. \A role, pool : Bounded(role, pool)' = Bounded(role, pool)
      BY <3>1 DEF Bounded, Positive, RwStatement
    <3>4. QED
      BY <2>1, <3>1, <3>2 DEF PoolsInv, Bounded, Positive, RwStatement
  <2>4. QED
    BY <2>1, <2>2, <2>3 DEF PoolNext
<1>3. PoolsInv => PoolsBounded
  BY DEF PoolsInv, Bounded, PoolsBounded
<1>4. QED
  BY <1>1, <1>2, <1>3, PTL DEF PoolSpec

-----------------------------------------------------------------------------
(***************************************************************************)
(* The embed worker.  NoOrphans is inductive as it stands; the other two   *)
(* rest on what a pass under way knows:                                    *)
(*                                                                         *)
(*  - TextHeld: past the answer, a claimed text that OpenAI can embed has  *)
(*    a vector, made now or before, so that only poison ends in "failed" - *)
(*    although the turns are replaced and deleted meanwhile;               *)
(*  - OnePassHeld: no timer starts a pass while one is under way;          *)
(*  - SpendHeld: what was paid today is recorded, lost with an aborted     *)
(*    pass, or about to be recorded, also when the day ended in between;   *)
(*    and a pass that asks began below the ceiling and asks for less than  *)
(*    one pass's worth of texts.                                           *)
(***************************************************************************)
Texts == {"a", "b"}
BudgetType == [recorded : Nat, paid : Nat, lost : Nat]
WorkerType == [on : BOOLEAN, up : BOOLEAN, timer : {"none", "armed"}, running : BOOLEAN, rerun : BOOLEAN,
               owed : BOOLEAN, handle : {"none", "good"}, fails : [Turns -> Nat], dead : SUBSET Turns,
               excused : BOOLEAN]
PassType == [pc : {"idle", "claim", "embed", "spend", "insert"}, claimed : SUBSET Turns,
             reuse : SUBSET Texts, fresh : SUBSET Texts, failed : SUBSET Turns, full : BOOLEAN]

EmbedTypes ==
  /\ emTurns \in [Turns -> Turn]
  /\ emVectors \in [Turns -> Texts \cup {"none"}]
  /\ emBudget \in BudgetType
  /\ emWorker \in WorkerType
  /\ emPass \in PassType

(* Only text "b" is poison. *)
TextTells == \A t \in Turns : emTurns[t].poison = (emTurns[t].text = "b")

TextHeld ==
  /\ emPass.pc \in {"spend", "insert"} =>
       \A t \in emPass.claimed : emTurns[t].text = "a" => "a" \in emPass.reuse \cup emPass.fresh
  /\ \A t \in emPass.failed : emTurns[t].text = "b"

Pending == IF emPass.pc = "spend" THEN Cardinality(Asked) ELSE 0

SpendHeld ==
  /\ emBudget.paid <= emBudget.recorded + emBudget.lost + Pending
  /\ emPass.pc = "embed" => Cardinality(Asked) <= MaxPerPass
  /\ emPass.pc = "embed" /\ DailyBudget > 0 => emBudget.recorded < DailyBudget

(* A pass under way is the worker's, and nothing else is scheduled. *)
OnePassHeld ==
  /\ emPass.pc # "idle" => emWorker.running
  /\ emWorker.running => emWorker.up /\ emWorker.timer = "none"

EmbedInv == EmbedTypes /\ TextTells /\ TextHeld /\ SpendHeld /\ OnePassHeld /\ EmbedSafe

LEMMA TextsAreFinite ==
  ASSUME NEW texts \in SUBSET Texts
  PROVE  IsFiniteSet(texts) /\ Cardinality(texts) \in Nat /\ Cardinality(texts) <= 2
<1>1. IsFiniteSet({"a"}) /\ Cardinality({"a"}) = 1
  BY FS_Singleton
<1>2. Texts = {"a"} \cup {"b"} /\ "b" \notin {"a"}
  BY DEF Texts
<1>3. IsFiniteSet(Texts) /\ Cardinality(Texts) = 2
  BY <1>1, <1>2, FS_AddElement
<1>4. IsFiniteSet(texts) /\ Cardinality(texts) <= 2
  BY <1>3, FS_Subset
<1> QED
  BY <1>4, FS_CardinalityType

LEMMA AskedIsFinite ==
  ASSUME EmbedTypes
  PROVE  Asked \subseteq Texts /\ Cardinality(Asked) \in Nat
<1>1. Asked \subseteq Texts
  BY DEF EmbedTypes, PassType, Asked, Turn, Texts
<1> QED
  BY <1>1, TextsAreFinite

(* INSERTs go from the oldest claimed turn on: there always is one. *)
LEMMA OldestIs ==
  ASSUME NEW claimed \in SUBSET Turns, claimed # {}
  PROVE  (CHOOSE u \in claimed : \A v \in claimed : u <= v) \in claimed
<1>1. claimed \subseteq Nat
  BY EmbedAssumption DEF Turns
<1>2. IsWellFoundedOn(OpToRel(<, Nat), Nat)
  BY NatLessThanWellFounded
<1>3. PICK u \in claimed : \A v \in claimed : <<v, u>> \notin OpToRel(<, Nat)
  BY <1>1, <1>2, WFMin
<1>4. \A v \in claimed : u \in Nat /\ v \in Nat /\ ~(v < u)
  BY <1>1, <1>3 DEF OpToRel
<1>5. \A v \in claimed : u <= v
  BY <1>4
<1> QED
  BY <1>5

LEMMA ClaimOfOne ==
  ASSUME MaxPerPass = 1, NEW eligible \in SUBSET Turns, NEW t \in Claim(eligible), NEW u \in Claim(eligible)
  PROVE  t = u
<1>1. IsFiniteSet(Turns)
  BY EmbedAssumption, FS_Interval DEF Turns
<1>2. ASSUME NEW s \in Claim(eligible), NEW r \in eligible, r < s PROVE FALSE
  <2> DEFINE before == {q \in eligible : q < s}
  <2>1. IsFiniteSet(before) /\ Cardinality(before) \in Nat
    BY <1>1, FS_Subset, FS_CardinalityType
  <2>2. Cardinality(before) < 1
    BY DEF Claim
  <2>3. before = {}
    BY <2>1, <2>2, FS_EmptySet
  <2> QED
    BY <1>2, <2>3
<1>3. t \in eligible /\ u \in eligible /\ t \in Nat /\ u \in Nat
  BY EmbedAssumption DEF Claim, Turns
<1> QED
  BY <1>2, <1>3

(* The claim's LIMIT: a pass never asks for more texts than that. *)
LEMMA ClaimAsks ==
  ASSUME EmbedTypes, NEW eligible \in SUBSET Turns,
         NEW asked \in SUBSET {emTurns[t].text : t \in Claim(eligible)}
  PROVE  Cardinality(asked) <= MaxPerPass
<1>0. MaxPerPass \in Nat /\ MaxPerPass # 0
  BY EmbedAssumption
<1>1. CASE MaxPerPass = 1
  <2>1. \A x, y \in asked : x = y
    BY <1>1, ClaimOfOne
  <2>2. CASE asked = {}
    BY <1>1, <2>2, FS_EmptySet
  <2>3. CASE asked # {}
    <3>1. PICK x \in asked : TRUE
      BY <2>3
    <3>2. asked = {x}
      BY <2>1, <3>1
    <3>3. Cardinality({x}) = 1
      BY FS_Singleton
    <3>4. Cardinality(asked) = 1
      BY <3>2, <3>3, Zenon
    <3> QED
      BY <1>1, <3>4
  <2> QED
    BY <2>2, <2>3
<1>2. CASE MaxPerPass > 1
  <2>1. asked \subseteq Texts
    BY DEF EmbedTypes, Turn, Texts, Claim
  <2> QED
    BY <1>0, <1>2, <2>1, TextsAreFinite
<1> QED
  BY <1>0, <1>1, <1>2

-----------------------------------------------------------------------------
(* What a step leaves alone.                                               *)

(* The pass is where it was, and the turns' texts are what they were. *)
SameTexts == \A t \in Turns : emTurns'[t].text = emTurns[t].text /\ emTurns'[t].poison = emTurns[t].poison

LEMMA AskedKept ==
  ASSUME EmbedTypes, SameTexts, emPass'.claimed = emPass.claimed, emPass'.reuse = emPass.reuse
  PROVE  Asked' = Asked
<1>1. emPass.claimed \subseteq Turns
  BY DEF EmbedTypes, PassType
<1>2. {emTurns'[t].text : t \in emPass.claimed} = {emTurns[t].text : t \in emPass.claimed}
  BY <1>1 DEF SameTexts
<1> QED
  BY <1>2 DEF Asked

LEMMA PassKept ==
  ASSUME EmbedTypes, TextTells, TextHeld, SpendHeld, SameTexts, emPass' = emPass, emBudget' = emBudget
  PROVE  TextTells' /\ TextHeld' /\ SpendHeld'
<1>1. Asked' = Asked
  BY AskedKept
<1>2. emPass.claimed \subseteq Turns /\ emPass.failed \subseteq Turns
  BY DEF EmbedTypes, PassType
<1>3. TextTells'
  BY DEF TextTells, SameTexts
<1>4. TextHeld'
  BY <1>2 DEF TextHeld, SameTexts
<1>5. SpendHeld'
  BY <1>1 DEF SpendHeld, Pending
<1> QED
  BY <1>3, <1>4, <1>5

(* A turn moves: lands, is replaced or deleted. *)
LEMMA TurnMoves ==
  ASSUME EmbedTypes, NEW t \in Turns, NEW at \in {"live", "soft", "gone"}, emTurns' = [emTurns EXCEPT ![t].at = at]
  PROVE  /\ emTurns' \in [Turns -> Turn] /\ SameTexts
         /\ emTurns'[t].at = at /\ \A u \in Turns : u # t => emTurns'[u] = emTurns[u]
<1> DEFINE moved == [emTurns[t] EXCEPT !.at = at]
<1>1. emTurns[t] \in Turn /\ emTurns \in [Turns -> Turn]
  BY DEF EmbedTypes
<1>2. moved \in Turn /\ moved.at = at /\ moved.text = emTurns[t].text /\ moved.poison = emTurns[t].poison
  BY <1>1 DEF Turn
<1>3. emTurns' = [emTurns EXCEPT ![t] = moved]
  BY <1>1
<1> HIDE DEF moved
<1> QED
  BY <1>1, <1>2, <1>3 DEF SameTexts

(* The worker's own bookkeeping keeps what it has given up on, and its place. *)
AtWork(w, x) == x.dead = w.dead /\ x.running = w.running /\ x.up = w.up /\ x.timer = w.timer

LEMMA WorkerMoves ==
  ASSUME NEW w \in WorkerType, NEW handle \in {"none", "good"}
  PROVE  /\ [w EXCEPT !.owed = TRUE] \in WorkerType /\ AtWork(w, [w EXCEPT !.owed = TRUE])
         /\ [w EXCEPT !.owed = FALSE, !.excused = FALSE] \in WorkerType
         /\ AtWork(w, [w EXCEPT !.owed = FALSE, !.excused = FALSE])
         /\ [w EXCEPT !.rerun = TRUE] \in WorkerType /\ AtWork(w, [w EXCEPT !.rerun = TRUE])
         /\ [w EXCEPT !.handle = handle] \in WorkerType /\ AtWork(w, [w EXCEPT !.handle = handle])
BY DEF WorkerType, AtWork

LEMMA WorkerStarted ==
  ASSUME NEW w \in WorkerType, NEW handle \in {"none", "good"}
  PROVE  /\ [w EXCEPT !.timer = "armed"] \in WorkerType /\ [w EXCEPT !.timer = "armed"].dead = w.dead
         /\ [w EXCEPT !.timer = "armed"].running = w.running
         /\ [w EXCEPT !.timer = "none", !.running = TRUE, !.handle = handle] \in WorkerType
         /\ [w EXCEPT !.timer = "none", !.running = TRUE, !.handle = handle].dead = w.dead
         /\ [w EXCEPT !.timer = "none", !.running = TRUE, !.handle = handle].timer = "none"
         /\ [w EXCEPT !.timer = "none", !.running = TRUE, !.handle = handle].up = w.up
BY DEF WorkerType

LEMMA RestedIs ==
  ASSUME NEW w \in WorkerType, NEW full
  PROVE  Rested(w, full) \in WorkerType /\ Rested(w, full).dead = w.dead /\ ~Rested(w, full).running
BY DEF Rested, WorkerType

LEMMA AbortedIs ==
  ASSUME NEW w \in WorkerType
  PROVE  Aborted(w) \in WorkerType /\ Aborted(w).dead = w.dead /\ ~Aborted(w).running
<1> DEFINE x == [w EXCEPT !.excused = ~w.rerun]
<1>1. x \in WorkerType /\ x.dead = w.dead
  BY DEF WorkerType
<1>2. Aborted(w) = Rested(x, FALSE)
  BY DEF Aborted
<1> HIDE DEF x
<1> QED
  BY <1>1, <1>2, RestedIs

LEMMA FreshWorkers ==
  /\ NoPass \in PassType /\ Asleep \in WorkerType
  /\ [NoPass EXCEPT !.pc = "claim"] \in PassType
  /\ [Asleep EXCEPT !.up = TRUE, !.timer = "armed", !.excused = FALSE] \in WorkerType
  /\ Asleep.dead = {} /\ [Asleep EXCEPT !.up = TRUE, !.timer = "armed", !.excused = FALSE].dead = {}
  /\ ~Asleep.running /\ ~[Asleep EXCEPT !.up = TRUE, !.timer = "armed", !.excused = FALSE].running
BY DEF NoPass, Asleep, PassType, WorkerType

LEMMA JustKept ==
  ASSUME EmbedTypes, DeadLetterJust, SameTexts, emWorker'.dead \subseteq emWorker.dead
  PROVE  DeadLetterJust'
BY DEF EmbedTypes, WorkerType, DeadLetterJust, SameTexts

(* A step of the turns or of the worker, outside a pass and the day's account. *)
LEMMA TurnsKeep ==
  ASSUME EmbedInv, NEW t \in Turns, TurnLands(t) \/ TurnReplaced(t) \/ TurnSoftDeleted(t)
  PROVE  EmbedInv'
<1>0. EmbedTypes /\ TextTells /\ TextHeld /\ SpendHeld /\ NoOrphans /\ DeadLetterJust /\ BudgetHeld
  BY DEF EmbedInv, EmbedSafe
<1>1. emPass' = emPass /\ emBudget' = emBudget
  BY DEF TurnLands, TurnReplaced, TurnSoftDeleted
<1>2. emWorker' = emWorker \/ emWorker' = [emWorker EXCEPT !.owed = TRUE]
  BY DEF TurnLands, TurnReplaced, TurnSoftDeleted
<1>3. emWorker' \in WorkerType /\ emWorker'.dead = emWorker.dead /\ OnePassHeld'
  <2>1. emWorker' \in WorkerType /\ AtWork(emWorker, emWorker')
    BY <1>0, <1>2, WorkerMoves DEF EmbedTypes, AtWork
  <2> QED
    BY <1>1, <2>1 DEF AtWork, EmbedInv, OnePassHeld
<1>4. /\ \/ emTurns' = [emTurns EXCEPT ![t].at = "live"] /\ emVectors' = emVectors
         \/ emTurns' = [emTurns EXCEPT ![t].at = "gone"] /\ emVectors' = [emVectors EXCEPT ![t] = "none"]
         \/ emTurns' = [emTurns EXCEPT ![t].at = "soft"] /\ emVectors' = emVectors
  BY DEF TurnLands, TurnReplaced, TurnSoftDeleted
<1>5. PICK at \in {"live", "soft", "gone"} :
        /\ emTurns' = [emTurns EXCEPT ![t].at = at]
        /\ IF at = "gone" THEN emVectors' = [emVectors EXCEPT ![t] = "none"] ELSE emVectors' = emVectors
  BY <1>4
<1>6. /\ emTurns' \in [Turns -> Turn] /\ SameTexts
      /\ emTurns'[t].at = at /\ \A u \in Turns : u # t => emTurns'[u] = emTurns[u]
  BY <1>0, <1>5, TurnMoves
<1>7. EmbedTypes'
  BY <1>0, <1>1, <1>3, <1>5, <1>6 DEF EmbedTypes
<1>8. NoOrphans'
  BY <1>0, <1>5, <1>6 DEF NoOrphans, EmbedTypes
<1>9. TextTells' /\ TextHeld' /\ SpendHeld'
  BY <1>0, <1>1, <1>6, PassKept
<1>10. DeadLetterJust' /\ BudgetHeld'
  BY <1>0, <1>1, <1>3, <1>6, JustKept DEF BudgetHeld
<1> QED
  BY <1>3, <1>7, <1>8, <1>9, <1>10 DEF EmbedInv, EmbedSafe

(* Steps that leave the turns and their vectors alone. *)
Still == emTurns' = emTurns /\ emVectors' = emVectors

LEMMA StillKeeps ==
  ASSUME EmbedInv, Still, emBudget' \in BudgetType, emWorker' \in WorkerType, emPass' \in PassType,
         emWorker'.dead \subseteq emWorker.dead,
         TextHeld', SpendHeld', OnePassHeld', BudgetHeld'
  PROVE  EmbedInv'
<1>1. EmbedTypes'
  BY DEF EmbedInv, EmbedTypes, Still
<1>2. SameTexts /\ TextTells' /\ NoOrphans'
  BY DEF EmbedInv, EmbedSafe, SameTexts, TextTells, NoOrphans, Still
<1>3. DeadLetterJust'
  BY <1>2, JustKept DEF EmbedInv, EmbedSafe
<1> QED
  BY <1>1, <1>2, <1>3 DEF EmbedInv, EmbedSafe

LEMMA WorkerKeeps ==
  ASSUME EmbedInv, Still, emBudget' = emBudget, emPass' = emPass,
         emWorker' \in WorkerType, emWorker'.dead \subseteq emWorker.dead, OnePassHeld'
  PROVE  EmbedInv'
<1>1. EmbedTypes /\ TextTells /\ TextHeld /\ SpendHeld /\ BudgetHeld
  BY DEF EmbedInv, EmbedSafe
<1>2. TextHeld' /\ SpendHeld'
  BY <1>1, PassKept DEF Still, SameTexts
<1>3. BudgetHeld' /\ emBudget' \in BudgetType /\ emPass' \in PassType
  BY <1>1 DEF BudgetHeld, EmbedTypes
<1> QED
  BY <1>2, <1>3, StillKeeps

LEMMA SchedulerKeeps ==
  ASSUME EmbedInv, Signal \/ TickWithoutDsn \/ HandleReset \/ WorkerStarts
  PROVE  EmbedInv'
<1>0. emWorker \in WorkerType /\ OnePassHeld
  BY DEF EmbedInv, EmbedTypes
<1>1. Still /\ emBudget' = emBudget /\ emPass' = emPass
  BY DEF Signal, TickWithoutDsn, HandleReset, WorkerStarts, Still
<1>2. emWorker' \in WorkerType /\ emWorker'.dead \subseteq emWorker.dead /\ OnePassHeld'
  <2>1. CASE Signal
    <3> DEFINE w == [emWorker EXCEPT !.owed = FALSE, !.excused = FALSE]
    <3>1. w \in WorkerType /\ AtWork(emWorker, w)
      BY <1>0, WorkerMoves
    <3>2. emWorker' = Arm(w)
      BY <2>1 DEF Signal
    <3> HIDE DEF w
    <3>3. CASE w.running
      <4>1. emWorker' = [w EXCEPT !.rerun = TRUE]
        BY <3>2, <3>3 DEF Arm
      <4>2. emWorker' \in WorkerType /\ AtWork(w, emWorker')
        BY <3>1, <4>1, WorkerMoves
      <4> QED
        BY <1>0, <1>1, <3>1, <4>2 DEF AtWork, OnePassHeld
    <3>4. CASE ~w.running
      <4>1. emWorker' = [w EXCEPT !.timer = "armed"]
        BY <3>2, <3>4 DEF Arm
      <4>2. emWorker' \in WorkerType /\ emWorker'.dead = w.dead /\ ~emWorker'.running
        BY <3>1, <3>4, <4>1, WorkerStarted
      <4> QED
        BY <1>0, <1>1, <3>1, <3>4, <4>2 DEF AtWork, OnePassHeld
    <3> QED
      BY <3>3, <3>4
  <2>2. CASE TickWithoutDsn
    BY <1>0, <1>1, <2>2 DEF TickWithoutDsn, OnePassHeld
  <2>3. CASE HandleReset
    <3>1. emWorker' \in WorkerType /\ AtWork(emWorker, emWorker')
      BY <1>0, <2>3, WorkerMoves DEF HandleReset
    <3> QED
      BY <1>0, <1>1, <3>1 DEF AtWork, OnePassHeld
  <2>4. CASE WorkerStarts
    <3>1. emPass.pc = "idle"
      BY <1>0, <2>4 DEF WorkerStarts, OnePassHeld
    <3> QED
      BY <1>1, <2>4, <3>1, FreshWorkers DEF WorkerStarts, OnePassHeld
  <2> QED
    BY <2>1, <2>2, <2>3, <2>4
<1> QED
  BY <1>1, <1>2, WorkerKeeps

-----------------------------------------------------------------------------
(* The day's account.                                                      *)

LEMMA BudgetMoves ==
  ASSUME NEW b \in BudgetType, NEW n \in Nat
  PROVE  /\ [b EXCEPT !.paid = @ + n] = [recorded |-> b.recorded, paid |-> b.paid + n, lost |-> b.lost]
         /\ [b EXCEPT !.lost = @ + n] = [recorded |-> b.recorded, paid |-> b.paid, lost |-> b.lost + n]
         /\ [b EXCEPT !.recorded = @ + n] = [recorded |-> b.recorded + n, paid |-> b.paid, lost |-> b.lost]
         /\ [b EXCEPT !.paid = @ + n, !.lost = @ + n]
              = [recorded |-> b.recorded, paid |-> b.paid + n, lost |-> b.lost + n]
<1> DEFINE recorded == b.recorded + n
           paid == b.paid + n
           lost == b.lost + n
<1> HIDE DEF recorded, paid, lost
<1>1. [b EXCEPT !.paid = paid] = [recorded |-> b.recorded, paid |-> paid, lost |-> b.lost]
  BY DEF BudgetType
<1>2. [b EXCEPT !.lost = lost] = [recorded |-> b.recorded, paid |-> b.paid, lost |-> lost]
  BY DEF BudgetType
<1>3. [b EXCEPT !.recorded = recorded] = [recorded |-> recorded, paid |-> b.paid, lost |-> b.lost]
  BY DEF BudgetType
<1>4. [b EXCEPT !.paid = paid, !.lost = lost] = [recorded |-> b.recorded, paid |-> paid, lost |-> lost]
  <2> DEFINE both == [b EXCEPT !.paid = paid, !.lost = lost]
  <2>1. paid \in Nat /\ lost \in Nat
    BY DEF BudgetType, paid, lost
  <2>2. both \in BudgetType /\ both.paid = paid /\ both.lost = lost /\ both.recorded = b.recorded
    BY <2>1 DEF BudgetType
  <2> HIDE DEF both
  <2>3. both = [recorded |-> b.recorded, paid |-> paid, lost |-> lost]
    BY <2>2 DEF BudgetType
  <2> QED
    BY <2>3 DEF both
<1> QED
  BY <1>1, <1>2, <1>3, <1>4 DEF recorded, paid, lost

(* The account of a state, with its numbers known to be numbers. *)
LEMMA Account ==
  ASSUME EmbedInv
  PROVE  /\ emBudget.paid \in Nat /\ emBudget.recorded \in Nat /\ emBudget.lost \in Nat
         /\ DailyBudget \in Nat /\ MaxPerPass \in Nat /\ MaxPerPass > 0 /\ Cardinality(Asked) \in Nat
         /\ emBudget.paid <= emBudget.recorded + emBudget.lost + Pending
         /\ DailyBudget > 0 => emBudget.paid <= emBudget.lost + DailyBudget + MaxPerPass - 1
BY EmbedAssumption, AskedIsFinite DEF EmbedInv, EmbedSafe, EmbedTypes, BudgetType, SpendHeld, BudgetHeld

LEMMA DayKeeps ==
  ASSUME EmbedInv, DayRolls
  PROVE  EmbedInv'
<1>0. EmbedTypes /\ TextTells /\ TextHeld /\ SpendHeld
  BY DEF EmbedInv
<1>1. Still /\ emWorker' = emWorker /\ emPass' = emPass /\ emBudget' = [recorded |-> 0, paid |-> 0, lost |-> 0]
  BY DEF DayRolls, Still
<1>2. Asked' = Asked /\ Cardinality(Asked) \in Nat
  BY <1>0, <1>1, AskedKept, AskedIsFinite DEF Still, SameTexts
<1>3. TextHeld' /\ OnePassHeld'
  BY <1>1 DEF TextHeld, OnePassHeld, Still, EmbedInv
<1>4. SpendHeld' /\ BudgetHeld'
  BY <1>0, <1>1, <1>2, Account DEF SpendHeld, Pending, BudgetHeld
<1>5. emBudget' \in BudgetType /\ emWorker' \in WorkerType /\ emPass' \in PassType
  BY <1>0, <1>1 DEF EmbedTypes, BudgetType
<1> QED
  BY <1>1, <1>3, <1>4, <1>5, StillKeeps

(* A pass that is over, or has not asked, owes nothing. *)
LEMMA PassOver ==
  ASSUME EmbedInv, Still, emPass' \in PassType, emPass'.pc \in {"idle", "claim"}, emPass'.failed = {}, OnePassHeld',
         emBudget' \in BudgetType, emWorker' \in WorkerType, emWorker'.dead \subseteq emWorker.dead,
         emBudget'.paid <= emBudget'.recorded + emBudget'.lost,
         DailyBudget > 0 => emBudget'.paid <= emBudget'.lost + DailyBudget + MaxPerPass - 1
  PROVE  EmbedInv'
<1>1. TextHeld'
  BY DEF TextHeld
<1>2. SpendHeld' /\ BudgetHeld'
  BY DEF SpendHeld, Pending, BudgetHeld, BudgetType
<1> QED
  BY <1>1, <1>2, StillKeeps

LEMMA NoPassIs == NoPass \in PassType /\ NoPass.pc = "idle" /\ NoPass.failed = {}
BY FreshWorkers DEF NoPass

LEMMA WorkerTickKeeps ==
  ASSUME EmbedInv, WorkerTick
  PROVE  EmbedInv'
<1> DEFINE pass == [NoPass EXCEPT !.pc = "claim"]
           handle == IF emWorker.handle = "none" THEN "good" ELSE emWorker.handle
           w == [emWorker EXCEPT !.timer = "none", !.running = TRUE, !.handle = handle]
<1>1. pass \in PassType /\ pass.pc = "claim" /\ pass.failed = {}
  BY FreshWorkers DEF NoPass
<1>2. /\ Still /\ emBudget' = emBudget /\ emPass' = pass /\ emWorker' = w
      /\ emWorker.up /\ emWorker.timer = "armed"
  BY DEF WorkerTick, Still
<1>3. w \in WorkerType /\ w.dead = emWorker.dead /\ w.timer = "none" /\ w.up = emWorker.up /\ w.running
  <2>1. emWorker \in WorkerType /\ handle \in {"none", "good"}
    BY DEF EmbedInv, EmbedTypes, WorkerType
  <2> HIDE DEF handle
  <2> QED
    BY <2>1, WorkerStarted DEF WorkerType
<1> HIDE DEF pass, w
<1>4. emPass.pc = "idle"
  BY <1>2 DEF EmbedInv, OnePassHeld
<1>5. emBudget' \in BudgetType /\ emBudget'.paid <= emBudget'.recorded + emBudget'.lost
  BY <1>2, <1>4, Account DEF EmbedInv, EmbedTypes, Pending
<1>6. OnePassHeld'
  BY <1>2, <1>3 DEF OnePassHeld
<1> QED
  BY <1>1, <1>2, <1>3, <1>5, <1>6, Account, PassOver

(* What an aborted pass had paid for is lost: by a refusal at the moment it is
   paid, by a dead connection or process when it was not recorded yet. *)
LEMMA AbortKeeps ==
  ASSUME EmbedInv, Still, emPass' = NoPass, NEW n \in Nat,
         emWorker' \in WorkerType, emWorker'.dead \subseteq emWorker.dead, ~emWorker'.running,
         \/ emPass.pc = "embed" /\ emBudget' = [emBudget EXCEPT !.paid = @ + n, !.lost = @ + n]
         \/ emBudget' = [emBudget EXCEPT !.lost = IF emPass.pc = "spend" THEN @ + Cardinality(Asked) ELSE @]
  PROVE  EmbedInv'
<1>0. emBudget \in BudgetType
  BY DEF EmbedInv, EmbedTypes
<1>1. NoPass \in PassType /\ NoPass.pc = "idle" /\ NoPass.failed = {}
  BY NoPassIs
<1>2. OnePassHeld'
  BY <1>1 DEF OnePassHeld
<1>3. /\ emBudget' \in BudgetType
      /\ emBudget'.paid <= emBudget'.recorded + emBudget'.lost
      /\ DailyBudget > 0 => emBudget'.paid <= emBudget'.lost + DailyBudget + MaxPerPass - 1
  <2>1. CASE emPass.pc = "embed" /\ emBudget' = [emBudget EXCEPT !.paid = @ + n, !.lost = @ + n]
    <3>1. emBudget' = [recorded |-> emBudget.recorded, paid |-> emBudget.paid + n, lost |-> emBudget.lost + n]
      BY <1>0, <2>1, BudgetMoves
    <3>2. emBudget.paid + n \in Nat /\ emBudget.lost + n \in Nat
      BY Account
    <3>3. emBudget' \in BudgetType
      BY <3>1, <3>2, Account DEF BudgetType
    <3> QED
      BY <2>1, <3>1, <3>3, Account DEF Pending
  <2>2. CASE emBudget' = [emBudget EXCEPT !.lost = IF emPass.pc = "spend" THEN @ + Cardinality(Asked) ELSE @]
    <3>1. Pending \in Nat
      BY Account DEF Pending
    <3>2. emBudget' = [emBudget EXCEPT !.lost = @ + Pending]
      BY <1>0, <2>2, Account DEF Pending
    <3>3. emBudget' = [recorded |-> emBudget.recorded, paid |-> emBudget.paid, lost |-> emBudget.lost + Pending]
      BY <1>0, <3>1, <3>2, BudgetMoves
    <3>4. emBudget.lost + Pending \in Nat
      BY <3>1, Account
    <3>5. emBudget' \in BudgetType
      BY <3>3, <3>4, Account DEF BudgetType
    <3> QED
      BY <3>1, <3>3, <3>5, Account
  <2> QED
    BY <2>1, <2>2
<1> QED
  BY <1>1, <1>2, <1>3, PassOver

LEMMA TroubleKeeps ==
  ASSUME EmbedInv, DatabaseFails \/ WorkerCrashes \/ \E paid \in 0..MaxPerPass : OpenAiRefuses(paid)
  PROVE  EmbedInv'
<1>0. emWorker \in WorkerType
  BY DEF EmbedInv, EmbedTypes
<1>1. CASE DatabaseFails
  <2>1. Aborted(emWorker) \in WorkerType /\ Aborted(emWorker).dead = emWorker.dead /\ ~Aborted(emWorker).running
    BY <1>0, AbortedIs
  <2>2. emWorker' = [Aborted(emWorker) EXCEPT !.handle = "none"]
    BY <1>1 DEF DatabaseFails
  <2>3. emWorker' \in WorkerType /\ emWorker'.dead = emWorker.dead /\ ~emWorker'.running
    BY <2>1, <2>2, WorkerMoves DEF AtWork
  <2> QED
    BY <1>1, <2>3, AbortKeeps DEF DatabaseFails, Still
<1>2. CASE WorkerCrashes
  BY <1>2, FreshWorkers, AbortKeeps DEF WorkerCrashes, Still
<1>3. ASSUME NEW paid \in 0..MaxPerPass, OpenAiRefuses(paid) PROVE EmbedInv'
  <2>1. paid \in Nat
    BY EmbedAssumption
  <2>2. emWorker' \in WorkerType /\ emWorker'.dead = emWorker.dead /\ ~emWorker'.running
    BY <1>0, <1>3, AbortedIs DEF OpenAiRefuses, RefusedPass
  <2> QED
    BY <1>3, <2>1, <2>2, AbortKeeps DEF OpenAiRefuses, RefusedPass, Still
<1> QED
  BY <1>1, <1>2, <1>3

-----------------------------------------------------------------------------
(* The steps of a pass.                                                    *)

LEMMA PassClaimsKeeps ==
  ASSUME EmbedInv, PassClaims
  PROVE  EmbedInv'
<1> DEFINE claimed == Claim(Unembedded \ emWorker.dead)
           texts == {emTurns[t].text : t \in claimed}
           reuse == texts \cap {emVectors[t] : t \in Turns}
           full == Cardinality(claimed) = MaxPerPass
<1>0. EmbedTypes /\ TextTells /\ OnePassHeld
  BY DEF EmbedInv
<1>1. Still /\ emBudget' = emBudget /\ emPass.pc = "claim"
  BY DEF PassClaims, Still
<1>2. emBudget' \in BudgetType /\ emBudget'.paid <= emBudget'.recorded + emBudget'.lost
  BY <1>0, <1>1, Account DEF Pending, EmbedTypes
<1>3. CASE Over \/ claimed = {}
  <2> DEFINE excused == emWorker.excused \/ Over
             fails == [t \in Turns |-> 0]
             w == [emWorker EXCEPT !.excused = excused, !.fails = fails]
  <2>1. emPass' = NoPass /\ emWorker' = Rested(w, FALSE)
    BY <1>3 DEF PassClaims
  <2>2. excused \in BOOLEAN /\ fails \in [Turns -> Nat]
    BY <1>0 DEF EmbedTypes, WorkerType
  <2> HIDE DEF excused, fails
  <2>3. w \in WorkerType /\ w.dead = emWorker.dead
    BY <1>0, <2>2 DEF EmbedTypes, WorkerType
  <2> HIDE DEF w
  <2>4. emWorker' \in WorkerType /\ emWorker'.dead = emWorker.dead /\ ~emWorker'.running
    BY <2>1, <2>3, RestedIs
  <2>5. OnePassHeld'
    BY <2>1, <2>4, NoPassIs DEF OnePassHeld
  <2> QED
    BY <1>1, <1>2, <2>1, <2>4, <2>5, NoPassIs, Account, PassOver
<1>4. CASE ~(Over \/ claimed = {})
  <2> DEFINE pc == IF texts = reuse THEN "insert" ELSE "embed"
             pass == [NoPass EXCEPT !.pc = pc, !.claimed = claimed, !.reuse = reuse, !.full = full]
  <2>1. emPass' = pass /\ emWorker' = emWorker /\ ~Over
    BY <1>4 DEF PassClaims
  <2>2. claimed \subseteq Turns /\ texts \subseteq Texts /\ reuse \subseteq Texts
    BY <1>0 DEF Claim, Unembedded, EmbedTypes, Turn, Texts
  <2>3. full \in BOOLEAN /\ pc \in {"insert", "embed"}
    OBVIOUS
  <2>4. texts = {emTurns'[t].text : t \in claimed}
    BY <1>1 DEF Still
  <2>5. pc = "insert" => texts = reuse
    OBVIOUS
  <2>6. Unembedded \ emWorker.dead \subseteq Turns
    BY DEF Unembedded
  <2>7. Cardinality(texts \ reuse) <= MaxPerPass
    BY <1>0, <2>6, ClaimAsks
  <2>8. \A t \in claimed : emTurns'[t].text \in texts
    BY <2>4
  <2> HIDE DEF claimed, texts, reuse, full, pc
  <2>9. pass \in PassType /\ pass.pc = pc /\ pass.claimed = claimed /\ pass.reuse = reuse /\ pass.failed = {}
    BY <2>2, <2>3 DEF PassType, NoPass
  <2> HIDE DEF pass
  <2>10. Asked' = texts \ reuse
    BY <2>1, <2>4, <2>9 DEF Asked
  <2>11. TextHeld'
    BY <2>1, <2>3, <2>5, <2>8, <2>9 DEF TextHeld
  <2>12. SpendHeld' /\ BudgetHeld'
    <3>1. emPass'.pc \in {"insert", "embed"} /\ Cardinality(Asked') <= MaxPerPass
      BY <2>1, <2>3, <2>7, <2>9, <2>10
    <3>2. DailyBudget > 0 => emBudget'.recorded < DailyBudget
      BY <1>1, <2>1, Account DEF Over
    <3>3. Pending' = 0
      BY <3>1 DEF Pending
    <3> QED
      BY <1>1, <1>2, <3>1, <3>2, <3>3, Account DEF SpendHeld, BudgetHeld, BudgetType
  <2>13. OnePassHeld'
    BY <1>0, <1>1, <2>1 DEF OnePassHeld
  <2> QED
    BY <1>0, <1>1, <1>2, <2>1, <2>9, <2>11, <2>12, <2>13, StillKeeps DEF EmbedTypes
<1> QED
  BY <1>3, <1>4

LEMMA OpenAiAnswersKeeps ==
  ASSUME EmbedInv, OpenAiAnswers
  PROVE  EmbedInv'
<1> DEFINE n == Cardinality(Asked)
           pass == [emPass EXCEPT !.pc = "spend", !.fresh = Embedded]
<1>0. EmbedTypes /\ TextTells /\ TextHeld /\ SpendHeld /\ OnePassHeld
  BY DEF EmbedInv
<1>1. /\ Still /\ emPass.pc = "embed" /\ emPass' = pass /\ emWorker' = emWorker
      /\ emBudget' = [emBudget EXCEPT !.paid = @ + n]
  BY DEF OpenAiAnswers, Still
<1>2. Embedded \subseteq Texts /\ n \in Nat
  BY <1>0, AskedIsFinite DEF Embedded
<1>3. /\ pass \in PassType /\ pass.pc = "spend" /\ pass.claimed = emPass.claimed /\ pass.reuse = emPass.reuse
      /\ pass.fresh = Embedded /\ pass.failed = emPass.failed
  BY <1>0, <1>2 DEF EmbedTypes, PassType
<1> HIDE DEF pass
<1>4. Asked' = Asked
  BY <1>0, <1>1, <1>3, AskedKept DEF Still, SameTexts
<1>5. emBudget' = [recorded |-> emBudget.recorded, paid |-> emBudget.paid + n, lost |-> emBudget.lost]
  BY <1>0, <1>1, <1>2, BudgetMoves DEF EmbedTypes
<1>6. emBudget.paid + n \in Nat /\ emBudget.paid <= emBudget.recorded + emBudget.lost
  BY <1>1, <1>2, Account DEF Pending
<1>7. emBudget' \in BudgetType
  BY <1>5, <1>6, Account DEF BudgetType
<1>8. TextHeld'
  <2>1. \A t \in emPass'.claimed : emTurns'[t].text = "a" => "a" \in emPass'.reuse \cup emPass'.fresh
    <3>1. SUFFICES ASSUME NEW t \in emPass.claimed, emTurns[t].text = "a", "a" \notin emPass.reuse
                   PROVE  "a" \in Embedded
      BY <1>1, <1>3 DEF Still
    <3>2. "a" \in Asked
      BY <3>1 DEF Asked
    <3>3. \A u \in emPass.claimed : emTurns[u].text = "a" => ~emTurns[u].poison
      BY <1>0 DEF EmbedTypes, PassType, TextTells
    <3> QED
      BY <3>2, <3>3 DEF Embedded
  <2> QED
    BY <1>0, <1>1, <1>3, <2>1 DEF TextHeld, Still
<1>9. SpendHeld' /\ BudgetHeld'
  <2>1. Pending' = n /\ emPass'.pc = "spend"
    BY <1>1, <1>3, <1>4 DEF Pending
  <2>2. emBudget.paid + n <= emBudget.recorded + emBudget.lost + n
    BY <1>2, <1>6, Account
  <2>3. DailyBudget > 0 => emBudget.paid + n <= emBudget.lost + DailyBudget + MaxPerPass - 1
    <3>1. n <= MaxPerPass /\ (DailyBudget > 0 => emBudget.recorded < DailyBudget)
      BY <1>0, <1>1 DEF SpendHeld
    <3> HIDE DEF n
    <3> QED
      BY <1>2, <1>6, <3>1, Account
  <2> QED
    BY <1>5, <2>1, <2>2, <2>3 DEF SpendHeld, BudgetHeld
<1>10. OnePassHeld'
  BY <1>0, <1>1 DEF OnePassHeld
<1> QED
  BY <1>0, <1>1, <1>3, <1>7, <1>8, <1>9, <1>10, StillKeeps DEF EmbedTypes

LEMMA RecordSpendKeeps ==
  ASSUME EmbedInv, RecordSpend
  PROVE  EmbedInv'
<1> DEFINE n == Cardinality(Asked)
           pass == [emPass EXCEPT !.pc = "insert"]
<1>0. EmbedTypes /\ TextHeld /\ OnePassHeld
  BY DEF EmbedInv
<1>1. /\ Still /\ emPass.pc = "spend" /\ emPass' = pass /\ emWorker' = emWorker
      /\ emBudget' = [emBudget EXCEPT !.recorded = @ + n]
  BY DEF RecordSpend, Still
<1>2. /\ pass \in PassType /\ pass.pc = "insert" /\ pass.claimed = emPass.claimed /\ pass.reuse = emPass.reuse
      /\ pass.fresh = emPass.fresh /\ pass.failed = emPass.failed
  BY <1>0 DEF EmbedTypes, PassType
<1> HIDE DEF pass
<1>3. n \in Nat
  BY <1>0, AskedIsFinite
<1>4. emBudget' = [recorded |-> emBudget.recorded + n, paid |-> emBudget.paid, lost |-> emBudget.lost]
  BY <1>0, <1>1, <1>3, BudgetMoves DEF EmbedTypes
<1>5. emBudget.recorded + n \in Nat /\ emBudget.paid <= emBudget.recorded + emBudget.lost + n
  BY <1>1, <1>3, Account DEF Pending
<1>6. emBudget' \in BudgetType
  BY <1>4, <1>5, Account DEF BudgetType
<1>7. TextHeld'
  BY <1>0, <1>1, <1>2 DEF TextHeld, Still
<1>8. SpendHeld' /\ BudgetHeld'
  <2>1. Pending' = 0 /\ emPass'.pc = "insert"
    BY <1>1, <1>2 DEF Pending
  <2>2. emBudget.paid <= (emBudget.recorded + n) + emBudget.lost
    BY <1>3, <1>5, Account
  <2> QED
    BY <1>4, <1>5, <2>1, <2>2, Account DEF SpendHeld, BudgetHeld
<1>9. OnePassHeld'
  BY <1>0, <1>1 DEF OnePassHeld
<1> QED
  BY <1>0, <1>1, <1>2, <1>6, <1>7, <1>8, <1>9, StillKeeps DEF EmbedTypes

(* A vector is only inserted for a turn that is still live, and only "b" is
   ever without one. *)
LEMMA InsertVectorKeeps ==
  ASSUME EmbedInv, InsertVector
  PROVE  EmbedInv'
<1> DEFINE t == CHOOSE u \in emPass.claimed : \A v \in emPass.claimed : u <= v
           x == emTurns[t].text
           rest == [emPass EXCEPT !.claimed = @ \ {t}]
           refused == [rest EXCEPT !.failed = @ \cup {t}]
<1>0. EmbedTypes /\ TextTells /\ TextHeld /\ SpendHeld /\ OnePassHeld /\ NoOrphans /\ DeadLetterJust /\ BudgetHeld
  BY DEF EmbedInv, EmbedSafe
<1>1. /\ emPass.pc = "insert" /\ emPass.claimed # {}
      /\ emTurns' = emTurns /\ emBudget' = emBudget /\ emWorker' = emWorker
      /\ IF x \in emPass.reuse \cup emPass.fresh
         THEN /\ emPass' = rest
              /\ emVectors' = IF StillLive(t) /\ emVectors[t] = "none"
                              THEN [emVectors EXCEPT ![t] = x] ELSE emVectors
         ELSE emPass' = refused /\ emVectors' = emVectors
  BY DEF InsertVector
<1>2. t \in emPass.claimed /\ t \in Turns
  BY <1>0, <1>1, OldestIs DEF EmbedTypes, PassType
<1> HIDE DEF t
<1>3. x \in Texts
  BY <1>0, <1>2 DEF EmbedTypes, Turn, Texts
<1>4. /\ rest \in PassType /\ rest.pc = emPass.pc /\ rest.claimed \subseteq emPass.claimed
      /\ rest.reuse = emPass.reuse /\ rest.fresh = emPass.fresh /\ rest.failed = emPass.failed
  BY <1>0 DEF EmbedTypes, PassType
<1> HIDE DEF rest
<1>5. /\ refused \in PassType /\ refused.pc = rest.pc /\ refused.claimed = rest.claimed
      /\ refused.reuse = rest.reuse /\ refused.fresh = rest.fresh /\ refused.failed = rest.failed \cup {t}
  BY <1>2, <1>4 DEF PassType
<1> HIDE DEF refused
<1>6. emPass' \in PassType /\ emPass'.pc = "insert" /\ emPass'.claimed \subseteq emPass.claimed
      /\ emPass'.reuse = emPass.reuse /\ emPass'.fresh = emPass.fresh
  BY <1>1, <1>4, <1>5
<1>7. \A u \in emPass'.failed : emTurns[u].text = "b"
  <2>1. x \notin emPass.reuse \cup emPass.fresh => x = "b"
    BY <1>0, <1>1, <1>2, <1>3 DEF TextHeld, Texts
  <2> QED
    BY <1>0, <1>1, <1>4, <1>5, <2>1 DEF TextHeld
<1>8. TextHeld'
  BY <1>0, <1>1, <1>6, <1>7 DEF TextHeld
<1>9. SpendHeld' /\ BudgetHeld' /\ OnePassHeld'
  BY <1>0, <1>1, <1>6 DEF SpendHeld, Pending, BudgetHeld, OnePassHeld
<1>10. emVectors' \in [Turns -> Texts \cup {"none"}]
  BY <1>0, <1>1, <1>3 DEF EmbedTypes
<1>11. EmbedTypes' /\ TextTells' /\ DeadLetterJust'
  BY <1>0, <1>1, <1>6, <1>10 DEF EmbedTypes, TextTells, DeadLetterJust
<1>12. NoOrphans'
  BY <1>0, <1>1, <1>2 DEF NoOrphans, StillLive, EmbedTypes
<1> QED
  BY <1>8, <1>9, <1>11, <1>12 DEF EmbedInv, EmbedSafe

(* What is given up on had failed in the pass, and so is poison. *)
LEMMA PassEndsKeeps ==
  ASSUME EmbedInv, PassEnds
  PROVE  EmbedInv'
<1> DEFINE more == {t \in emPass.failed : Failures(t) >= DeadAfter}
           fails == [t \in Turns |-> IF Failures(t) >= DeadAfter THEN 0 ELSE Failures(t)]
           w == [emWorker EXCEPT !.dead = @ \cup more, !.fails = fails]
<1>0. EmbedTypes /\ TextTells /\ TextHeld /\ NoOrphans /\ DeadLetterJust /\ BudgetHeld
  BY DEF EmbedInv, EmbedSafe
<1>1. /\ Still /\ emBudget' = emBudget /\ emPass' = NoPass /\ emPass.pc = "insert"
      /\ emWorker' = Rested(w, emPass.full)
  BY DEF PassEnds, Still
<1>2. \A t \in Turns : Failures(t) \in Nat
  BY <1>0 DEF Failures, EmbedTypes, WorkerType
<1>3. fails \in [Turns -> Nat]
  BY <1>2
<1>4. more \subseteq Turns /\ \A t \in more : emTurns[t].poison
  BY <1>0 DEF TextHeld, TextTells, EmbedTypes, PassType
<1> HIDE DEF fails, more
<1>5. w \in WorkerType /\ w.dead = emWorker.dead \cup more
  BY <1>0, <1>3, <1>4 DEF EmbedTypes, WorkerType
<1> HIDE DEF w
<1>6. emWorker' \in WorkerType /\ emWorker'.dead = emWorker.dead \cup more /\ ~emWorker'.running
  BY <1>1, <1>5, RestedIs
<1>7. EmbedTypes' /\ TextTells' /\ NoOrphans' /\ BudgetHeld'
  BY <1>0, <1>1, <1>6, NoPassIs DEF EmbedTypes, TextTells, NoOrphans, BudgetHeld, Still
<1>8. DeadLetterJust'
  BY <1>0, <1>1, <1>4, <1>6 DEF DeadLetterJust, Still
<1>9. TextHeld' /\ OnePassHeld'
  BY <1>1, <1>6, NoPassIs DEF TextHeld, OnePassHeld
<1>10. SpendHeld'
  <2>1. Pending' = 0 /\ Pending = 0
    BY <1>1, NoPassIs DEF Pending
  <2> QED
    BY <1>1, <2>1, NoPassIs DEF SpendHeld, EmbedInv
<1> QED
  BY <1>7, <1>8, <1>9, <1>10 DEF EmbedInv, EmbedSafe

(* No vector outlives its turn, only poison is dead-lettered, and a day is
   overspent by less than one pass: for any number of turns, of troubles and of
   days, with crashes, refusals and replacements anywhere in a pass. *)
THEOREM EmbedSafeHolds == EmbedSpec => []EmbedSafe
<1>1. EmbedInit(TRUE) => EmbedInv
  <2> SUFFICES ASSUME EmbedInit(TRUE) PROVE EmbedInv
    OBVIOUS
  <2>1. emTurns \in [Turns -> {[at |-> "none", text |-> x, poison |-> x = "b"] : x \in {"a", "b"}}]
    BY DEF EmbedInit
  <2>2. \A t \in Turns : emTurns[t] \in Turn /\ emTurns[t].poison = (emTurns[t].text = "b")
    <3> SUFFICES ASSUME NEW t \in Turns
                 PROVE  emTurns[t] \in Turn /\ emTurns[t].poison = (emTurns[t].text = "b")
      OBVIOUS
    <3>1. PICK x \in {"a", "b"} : emTurns[t] = [at |-> "none", text |-> x, poison |-> x = "b"]
      BY <2>1, Zenon
    <3>2. CASE x = "b"
      <4>1. emTurns[t] = [at |-> "none", text |-> "b", poison |-> TRUE]
        <5>1. (x = "b") = TRUE
          BY <3>2
        <5> QED
          BY <3>1, <3>2, <5>1
      <4>2. emTurns[t] \in Turn
        BY <4>1 DEF Turn
      <4>3. emTurns[t].text = "b" /\ emTurns[t].poison = TRUE
        BY <4>1
      <4> QED
        BY <4>2, <4>3
    <3>3. CASE x # "b"
      <4>1. emTurns[t] = [at |-> "none", text |-> "a", poison |-> FALSE]
        <5>1. x = "a" /\ (x = "b") = FALSE
          BY <3>3
        <5> QED
          BY <3>1, <5>1
      <4>2. emTurns[t] \in Turn
        BY <4>1 DEF Turn
      <4>3. emTurns[t].text = "a" /\ emTurns[t].poison = FALSE
        BY <4>1
      <4> QED
        BY <4>2, <4>3
    <3> QED
      BY <3>2, <3>3
  <2>3. emTurns \in [Turns -> Turn]
    BY <2>1, <2>2
  <2> DEFINE w == [Asleep EXCEPT !.on = TRUE, !.up = TRUE, !.timer = "armed", !.excused = FALSE]
  <2>4. w \in WorkerType /\ w.dead = {} /\ ~w.running
    BY DEF Asleep, WorkerType
  <2>5. emWorker = w
    BY DEF EmbedInit
  <2> HIDE DEF w
  <2>6. emVectors \in [Turns -> Texts \cup {"none"}] /\ \A t \in Turns : emVectors[t] = "none"
    BY DEF EmbedInit
  <2>7. emBudget = [recorded |-> 0, paid |-> 0, lost |-> 0] /\ emPass = NoPass
    BY DEF EmbedInit
  <2>8. emBudget \in BudgetType
    BY <2>7 DEF BudgetType
  <2>9. EmbedTypes
    BY <2>3, <2>4, <2>5, <2>6, <2>7, <2>8, NoPassIs DEF EmbedTypes
  <2>10. TextTells /\ TextHeld /\ OnePassHeld
    BY <2>2, <2>4, <2>5, <2>7, NoPassIs DEF TextTells, TextHeld, OnePassHeld
  <2>11. SpendHeld /\ BudgetHeld
    BY <2>7, NoPassIs, EmbedAssumption DEF SpendHeld, Pending, BudgetHeld
  <2>12. NoOrphans /\ DeadLetterJust
    BY <2>4, <2>5, <2>6 DEF NoOrphans, DeadLetterJust
  <2> QED
    BY <2>9, <2>10, <2>11, <2>12 DEF EmbedInv, EmbedSafe
<1>2. EmbedInv /\ [EmbedNext]_emVars => EmbedInv'
  <2>1. EmbedInv /\ UNCHANGED emVars => EmbedInv'
    <3> SUFFICES ASSUME EmbedInv, UNCHANGED emVars PROVE EmbedInv'
      OBVIOUS
    <3>1. Still /\ emBudget' = emBudget /\ emPass' = emPass /\ emWorker' = emWorker
      BY DEF emVars, Still
    <3> QED
      BY <3>1, WorkerKeeps DEF EmbedInv, EmbedTypes, OnePassHeld
  <2>2. EmbedInv /\ EmbedNext => EmbedInv'
    BY TurnsKeep, SchedulerKeeps, DayKeeps, WorkerTickKeeps, PassClaimsKeeps, OpenAiAnswersKeeps, TroubleKeeps,
       RecordSpendKeeps, InsertVectorKeeps, PassEndsKeeps DEF EmbedNext
  <2> QED
    BY <2>1, <2>2
<1>3. EmbedInv => EmbedSafe
  BY DEF EmbedInv
<1> QED
  BY <1>1, <1>2, <1>3, PTL DEF EmbedSpec


-----------------------------------------------------------------------------
(***************************************************************************)
(* The residency audit (Residency).  What a run knows about a session that *)
(* is still alive cannot have changed under it, because only a deletion    *)
(* changes a session's facts:                                              *)
(*                                                                         *)
(*  - ListHeld: a key of a live session that was listed, its own or a      *)
(*    lane's, is there;                                                    *)
(*  - HubHeld: while the witness is not mute, every session that may be    *)
(*    asked about has been answered for or is still to be asked;           *)
(*  - CheckHeld: the verdict of a live session that was reached is the one *)
(*    its facts have now.                                                  *)
(***************************************************************************)
Words == {"on", "off"}
AuditType == [pc : AuditStep, on : BOOLEAN, acked : SUBSET Rows, rows : SUBSET Rows, listed : SUBSET Rows,
              lanes : SUBSET Rows, asked : SUBSET Rows, todo : SUBSET Rows, answered : SUBSET Rows, mute : BOOLEAN, waits : Int,
              cost : Int, left : SUBSET Rows, verdict : [Rows -> Verdicts \cup {"none"}], truncated : BOOLEAN,
              outcome : {"none", "clean", "qualified", "failed", "error"}]

AuditTypes ==
  /\ fact \in [Rows -> Fact] /\ alive \subseteq Rows /\ acks \subseteq Rows
  /\ setting \in Words /\ audit \in AuditType /\ terminal \in Terminal

FactHeld == \A s \in Rows : Possible(fact[s])

AskedFor == {s \in audit.rows : Askable(s)}

ListHeld ==
  /\ audit.left \subseteq audit.rows
  /\ audit.pc \in {"ask", "wait", "list"} => audit.left = audit.rows
  /\ \A s \in audit.listed \cap alive : fact[s].object
  /\ \A s \in audit.lanes \cap alive : fact[s].lane

HubHeld ==
  /\ \A s \in audit.answered \cup audit.todo : Askable(s)
  /\ audit.pc \in {"ask", "wait"} => audit.on /\ ~audit.mute /\ AskedFor \subseteq audit.todo \cup audit.answered
  /\ audit.pc = "check" => (~audit.on => audit.mute) /\ (~audit.mute => AskedFor \subseteq audit.answered)

CheckHeld ==
  audit.pc = "check" =>
    \A s \in (audit.rows \ audit.left) \cap alive : audit.verdict[s] = VerdictFor(s, fact[s].object)

(* A handler publishes what it has set. *)
IntentHeld ==
  IF terminal.handler = "publish" THEN terminal.held = setting
  ELSE terminal.mirror # "none" => terminal.mirror = setting
AppliesHeld == terminal.handler = "apply" => terminal.held \in Words

AuditInv ==
  /\ AuditTypes /\ FactHeld /\ ListHeld /\ HubHeld /\ CheckHeld /\ IntentHeld /\ AppliesHeld /\ VerdictJust

(* The whole inductive invariant, but for the last verdict. *)
AuditHeld == FactHeld /\ ListHeld /\ HubHeld /\ CheckHeld /\ VerdictJust

-----------------------------------------------------------------------------
(* The matrix.                                                             *)

(* A lost session passes no check, whoever acknowledged what. *)
LEMMA LostFails ==
  ASSUME NEW s \in Rows, fact \in [Rows -> Fact], Lost(s), NEW acked \in BOOLEAN,
         s \in audit.lanes => fact[s].lane
  PROVE  ~Passes(VerdictFor(s, fact[s].object), acked)
<1>1. ~fact[s].object /\ (fact[s].turns \/ s \notin audit.lanes)
  BY DEF Lost
<1> QED
  BY <1>1, SMTT(30) DEF Passes, VerdictFor, Askable

(* A copy the hub holds of a session that is here leaves a note at least. *)
LEMMA CopyIsNoted ==
  ASSUME NEW s \in Rows, fact \in [Rows -> Fact], Possible(fact[s]), fact[s].object, fact[s].copy
  PROVE  VerdictFor(s, fact[s].object) \in {"also_at_letai", "copy_unchecked"}
<1>1. Eligible(s)
  BY DEF Possible, Eligible, Fact
<1> QED
  BY <1>1, SMTT(30) DEF VerdictFor, Says

(* A check fails only for one of the reasons a run may fail for. *)
LEMMA FailureHasReason ==
  ASSUME NEW s \in Rows, fact \in [Rows -> Fact], NEW acked \in BOOLEAN,
         ~Passes(VerdictFor(s, fact[s].object), acked),
         Askable(s) => audit.mute \/ s \in audit.answered
  PROVE  \/ Lost(s) \/ LanesMissed(s)
         \/ ~fact[s].object /\ (fact[s].routed \/ audit.mute \/ ~Askable(s))
         \/ fact[s].copy /\ ~acked
<1>1. fact[s] \in Fact
  OBVIOUS
<1>2. CASE fact[s].object
  <2>1. VerdictFor(s, fact[s].object) \in {"not_applicable", "unknown_provenance", "also_at_letai",
                                           "confirmed", "copy_unchecked"}
    BY <1>2, SMTT(30) DEF VerdictFor
  <2>2. VerdictFor(s, fact[s].object) = "also_at_letai" /\ ~acked
    BY <2>1 DEF Passes
  <2>3. Says(s, fact[s].copy)
    BY <2>2, <1>2, SMTT(30) DEF VerdictFor
  <2> QED
    BY <2>2, <2>3 DEF Says
<1>3. CASE ~fact[s].object
  <2>1. SUFFICES ASSUME ~fact[s].routed, ~audit.mute, Askable(s)
                 PROVE  Lost(s) \/ LanesMissed(s)
    BY <1>3
  <2>2. Eligible(s) /\ Answered(s) /\ ~Says(s, fact[s].routed)
    BY <2>1 DEF Askable, Answered, Says
  <2>3. SUFFICES ASSUME ~Lost(s), ~LanesMissed(s) PROVE FALSE
    OBVIOUS
  <2>4. ~fact[s].turns /\ s \in audit.lanes
    BY <2>3, <1>3 DEF Lost, LanesMissed
  <2>5. VerdictFor(s, fact[s].object) = "lanes_hold_it"
    BY <2>2, <2>4, <1>3, SMTT(30) DEF VerdictFor
  <2> QED
    BY <2>5 DEF Passes
<1> QED
  BY <1>2, <1>3

(* The verdict depends on the session's facts and on the hub's answers. *)
LEMMA VerdictSame ==
  ASSUME NEW s \in Rows, fact'[s] = fact[s], audit'.mute = audit.mute, audit'.answered = audit.answered,
         audit'.lanes = audit.lanes
  PROVE  VerdictFor(s, fact[s].object)' = VerdictFor(s, fact[s].object)
BY DEF VerdictFor, Says, Answered, Eligible, Askable

-----------------------------------------------------------------------------
(* The steps that leave the run alone.                                     *)

LEMMA RunStays ==
  ASSUME AuditHeld, UNCHANGED <<fact, alive, audit>>
  PROVE  AuditHeld'
<1>1. FactHeld' /\ ListHeld' /\ HubHeld'
  BY DEF AuditHeld, FactHeld, ListHeld, HubHeld, AskedFor, Askable, Eligible
<1>2. CheckHeld'
  BY DEF AuditHeld, CheckHeld, VerdictFor, Says, Answered, Eligible, Askable
<1>3. VerdictJust'
  BY DEF AuditHeld, VerdictJust, Lost, LanesMissed, WitnessState, Askable, Eligible
<1> QED
  BY <1>1, <1>2, <1>3 DEF AuditHeld

LEMMA InvIs == AuditInv <=> AuditTypes /\ AuditHeld /\ IntentHeld /\ AppliesHeld
BY DEF AuditInv, AuditHeld

(* The verbs of the terminal, and of the console. *)
LEMMA VerbKeeps ==
  ASSUME AuditInv, NEW value \in Words,
         TerminalAsks(value) \/ TerminalWaits(value) \/ ConsoleToggles(value)
  PROVE  AuditInv'
<1>1. UNCHANGED <<fact, alive, acks, audit>> /\ AuditHeld /\ AuditTypes /\ IntentHeld /\ AppliesHeld
  BY InvIs DEF TerminalAsks, TerminalWaits, ConsoleToggles
<1>2. terminal \in Terminal /\ value \in {"none", "on", "off"}
  BY <1>1 DEF AuditTypes, Words
<1>3. AuditHeld'
  BY <1>1, RunStays
<1>4. CASE TerminalAsks(value)
  <2>1. CASE terminal.handler = "idle"
    <3> DEFINE t == [terminal EXCEPT !.file = value, !.handler = "apply", !.held = value]
    <3>1. terminal' = t /\ setting' = setting
      BY <1>4, <2>1 DEF TerminalAsks
    <3>2. t \in Terminal
      BY <1>2 DEF Terminal
    <3>3. t.handler = "apply" /\ t.held = value /\ t.mirror = terminal.mirror
      BY <1>2 DEF Terminal
    <3> QED
      BY <3>1, <3>2, <3>3, <2>1, <1>1, <1>3 DEF AuditInv, AuditHeld, AuditTypes, IntentHeld, AppliesHeld
  <2>2. CASE terminal.handler # "idle"
    <3> DEFINE t == [terminal EXCEPT !.file = value, !.overlapped = TRUE]
    <3>1. terminal' = t /\ setting' = setting
      BY <1>4, <2>2 DEF TerminalAsks
    <3>2. t \in Terminal
      BY <1>2 DEF Terminal
    <3>3. t.handler = terminal.handler /\ t.held = terminal.held /\ t.mirror = terminal.mirror
      BY <1>2 DEF Terminal
    <3> QED
      BY <3>1, <3>2, <3>3, <1>1, <1>3 DEF AuditInv, AuditHeld, AuditTypes, IntentHeld, AppliesHeld
  <2> QED
    BY <2>1, <2>2
<1>5. CASE TerminalWaits(value)
  <2> DEFINE t == [terminal EXCEPT !.file = value]
  <2>1. terminal' = t /\ setting' = setting
    BY <1>5 DEF TerminalWaits
  <2>2. t \in Terminal
    BY <1>2 DEF Terminal
  <2>3. t.handler = terminal.handler /\ t.held = terminal.held /\ t.mirror = terminal.mirror
    BY <1>2 DEF Terminal
  <2> QED
    BY <2>1, <2>2, <2>3, <1>1, <1>3 DEF AuditInv, AuditHeld, AuditTypes, IntentHeld, AppliesHeld
<1>6. CASE ConsoleToggles(value)
  <2> DEFINE t == [terminal EXCEPT !.mirror = value]
  <2>1. terminal' = t /\ setting' = value /\ terminal.handler = "idle"
    BY <1>6 DEF ConsoleToggles
  <2>2. t \in Terminal
    BY <1>2 DEF Terminal
  <2>3. t.handler = terminal.handler /\ t.mirror = value
    BY <1>2 DEF Terminal
  <2> QED
    BY <2>1, <2>2, <2>3, <1>1, <1>3 DEF AuditInv, AuditHeld, AuditTypes, IntentHeld, AppliesHeld
<1> QED
  BY <1>4, <1>5, <1>6

(* The handler: it sets, publishes what it set, and clears. *)
LEMMA IntentKeeps ==
  ASSUME AuditInv, IntentApplies \/ IntentPublishes \/ IntentFails \/ IntentClears
  PROVE  AuditInv'
<1>1. UNCHANGED <<fact, alive, acks, audit>> /\ AuditHeld /\ AuditTypes /\ IntentHeld /\ AppliesHeld
  BY InvIs DEF IntentApplies, IntentPublishes, IntentFails, IntentClears
<1>2. terminal \in Terminal
  BY <1>1 DEF AuditTypes
<1>3. AuditHeld'
  BY <1>1, RunStays
<1>4. CASE IntentApplies
  <2> DEFINE t == [terminal EXCEPT !.handler = "publish"]
  <2>1. terminal' = t /\ setting' = terminal.held /\ terminal.held \in Words
    BY <1>4, <1>1 DEF IntentApplies, AppliesHeld
  <2>2. t \in Terminal
    BY <1>2 DEF Terminal
  <2>3. t.handler = "publish" /\ t.held = terminal.held
    BY <1>2 DEF Terminal
  <2> QED
    BY <2>1, <2>2, <2>3, <1>1, <1>3 DEF AuditInv, AuditHeld, AuditTypes, IntentHeld, AppliesHeld
<1>5. CASE IntentPublishes
  <2> DEFINE t == [terminal EXCEPT !.handler = "clear", !.mirror = terminal.held]
  <2>1. terminal' = t /\ setting' = setting /\ terminal.handler = "publish"
    BY <1>5 DEF IntentPublishes
  <2>2. t \in Terminal
    BY <1>2 DEF Terminal
  <2>3. t.handler = "clear" /\ t.mirror = terminal.held
    BY <1>2 DEF Terminal
  <2> QED
    BY <2>1, <2>2, <2>3, <1>1, <1>3 DEF AuditInv, AuditHeld, AuditTypes, IntentHeld, AppliesHeld
<1>6. CASE IntentFails
  <2> DEFINE t == [terminal EXCEPT !.handler = "clear"]
  <2>1. terminal' = t /\ setting' = setting /\ terminal.handler = "apply"
    BY <1>6 DEF IntentFails, FailedIntent
  <2>2. t \in Terminal
    BY <1>2 DEF Terminal
  <2>3. t.handler = "clear" /\ t.mirror = terminal.mirror
    BY <1>2 DEF Terminal
  <2> QED
    BY <2>1, <2>2, <2>3, <1>1, <1>3 DEF AuditInv, AuditHeld, AuditTypes, IntentHeld, AppliesHeld
<1>7. CASE IntentClears
  <2> DEFINE t == [terminal EXCEPT !.handler = "idle", !.held = "none", !.file = "none"]
  <2>1. terminal' = t /\ setting' = setting /\ terminal.handler = "clear"
    BY <1>7 DEF IntentClears
  <2>2. t \in Terminal
    BY <1>2 DEF Terminal
  <2>3. t.handler = "idle" /\ t.mirror = terminal.mirror
    BY <1>2 DEF Terminal
  <2> QED
    BY <2>1, <2>2, <2>3, <1>1, <1>3 DEF AuditInv, AuditHeld, AuditTypes, IntentHeld, AppliesHeld
<1> QED
  BY <1>4, <1>5, <1>6, <1>7

-----------------------------------------------------------------------------
(* The run itself.                                                         *)

(* Where the facts and the verbs stand still, it is enough to look at the run. *)
LEMMA RunKeeps ==
  ASSUME AuditInv, UNCHANGED <<fact, alive, acks, setting, terminal>>, audit' \in AuditType,
         ListHeld', HubHeld', CheckHeld', VerdictJust'
  PROVE  AuditInv'
BY DEF AuditInv, AuditTypes, FactHeld, IntentHeld, AppliesHeld

LEMMA StartKeeps ==
  ASSUME AuditInv, (\E read \in BOOLEAN : AuditStart(read)) \/ AuditRows
  PROVE  AuditInv'
<1>1. UNCHANGED <<fact, alive, acks, setting, terminal>> /\ audit \in AuditType /\ acks \in SUBSET Rows
      /\ alive \in SUBSET Rows
  BY DEF AuditStart, AuditRows, AuditInv, AuditTypes
<1>2. ASSUME NEW read \in BOOLEAN, AuditStart(read) PROVE AuditInv'
  <2> DEFINE none == [s \in Rows |-> "none"]
             on == read /\ setting = "on"
             a == [pc |-> "rows", on |-> on, acked |-> acks, rows |-> {}, listed |-> {}, lanes |-> {}, asked |-> {},
                   todo |-> {}, answered |-> {}, mute |-> FALSE, waits |-> 0, cost |-> 0, left |-> {},
                   verdict |-> none, truncated |-> FALSE, outcome |-> "none"]
  <2>1. audit' = a
    BY <1>2 DEF AuditStart, NoAudit
  <2>2. none \in [Rows -> Verdicts \cup {"none"}] /\ on \in BOOLEAN
    OBVIOUS
  <2> HIDE DEF none, on
  <2>3. a \in AuditType
    BY <2>2, <1>1 DEF AuditType, AuditStep
  <2>4. a.pc = "rows" /\ a.rows = {} /\ a.left = {} /\ a.listed = {} /\ a.lanes = {} /\ a.answered = {} /\ a.todo = {}
    OBVIOUS
  <2> HIDE DEF a
  <2> QED
    BY <2>1, <2>3, <2>4, <1>1, RunKeeps DEF ListHeld, HubHeld, CheckHeld, VerdictJust
<1>3. CASE AuditRows
  <2> DEFINE a == [audit EXCEPT !.pc = "list", !.rows = alive, !.left = alive]
  <2>1. audit' = a /\ audit.pc = "rows"
    BY <1>3 DEF AuditRows
  <2>2. a \in AuditType
    BY <1>1 DEF AuditType, AuditStep
  <2>3. a.pc = "list" /\ a.rows = a.left /\ a.listed = audit.listed /\ a.answered = audit.answered
        /\ a.lanes = audit.lanes /\ a.todo = audit.todo
    BY <1>1 DEF AuditType
  <2> HIDE DEF a
  <2> QED
    BY <2>1, <2>2, <2>3, <1>1, RunKeeps
       DEF AuditInv, ListHeld, HubHeld, CheckHeld, VerdictJust, Askable, Eligible
<1> QED
  BY <1>2, <1>3

LEMMA ListKeeps ==
  ASSUME AuditInv, AuditList
  PROVE  AuditInv'
<1>1. UNCHANGED <<fact, alive, acks, setting, terminal>> /\ audit \in AuditType
  BY DEF AuditList, AuditInv, AuditTypes
<1>2. PICK listed \in SUBSET {s \in audit.rows : fact[s].object}, lanes \in SUBSET {s \in audit.rows : fact[s].lane} :
        audit' = [audit EXCEPT !.listed = listed, !.lanes = lanes, !.cost = 1,
                    !.pc = IF audit.on THEN "ask" ELSE "check",
                    !.mute = ~audit.on,
                    !.todo = IF audit.on THEN {s \in audit.rows : Askable(s)} ELSE {},
                    !.waits = Cardinality({s \in audit.rows : Askable(s)}) + ExtraWaits]
  BY DEF AuditList
<1> DEFINE askable == {s \in audit.rows : Askable(s)}
           next == IF audit.on THEN "ask" ELSE "check"
           mute == ~audit.on
           todo == IF audit.on THEN askable ELSE {}
           waits == Cardinality(askable) + ExtraWaits
           a == [audit EXCEPT !.listed = listed, !.lanes = lanes, !.cost = 1, !.pc = next, !.mute = mute,
                              !.todo = todo, !.waits = waits]
<1>3. audit.rows \subseteq Rows /\ audit.on \in BOOLEAN
  BY <1>1 DEF AuditType
<1>4. /\ next \in {"ask", "check"} /\ mute \in BOOLEAN /\ todo \in SUBSET Rows /\ listed \in SUBSET Rows /\ lanes \in SUBSET Rows
      /\ audit.on => next = "ask" /\ ~mute /\ todo = askable
      /\ ~audit.on => next = "check" /\ mute /\ todo = {}
  BY <1>3
<1>5. waits \in Int
  <2>1. IsFiniteSet(askable)
    BY <1>3, FS_Subset, ResidencyAssumption
  <2>2. Cardinality(askable) \in Nat /\ ExtraWaits \in Nat
    BY <2>1, FS_CardinalityType, ResidencyAssumption
  <2> QED
    BY <2>2
<1>6. audit' = a /\ audit.pc = "list"
  BY <1>2 DEF AuditList
<1>7. audit.left = audit.rows /\ \A s \in audit.answered : Askable(s)
  BY <1>6 DEF AuditInv, ListHeld, HubHeld
<1> HIDE DEF next, mute, todo, waits
<1>8. a \in AuditType
  <2> HIDE DEF askable
  <2>1. next \in AuditStep /\ 1 \in Int
    BY <1>4 DEF AuditStep
  <2> QED
    BY <1>1, <1>4, <1>5, <2>1 DEF AuditType
<1>9. /\ a.pc = next /\ a.rows = audit.rows /\ a.left = audit.left /\ a.listed = listed /\ a.lanes = lanes /\ a.todo = todo
      /\ a.answered = audit.answered /\ a.mute = mute /\ a.on = audit.on
  BY <1>1 DEF AuditType
<1> HIDE DEF a
<1>10. \A s \in askable : Askable(s)'
  BY <1>1 DEF Askable, Eligible
<1>11. \A s \in audit.answered : Askable(s)'
  BY <1>1, <1>7 DEF Askable, Eligible
<1>12. AskedFor' = askable
  BY <1>1, <1>6, <1>9 DEF AskedFor, Askable, Eligible
<1>13. HubHeld'
  <2>1. \A s \in audit'.answered \cup audit'.todo : Askable(s)'
    BY <1>4, <1>6, <1>9, <1>10, <1>11, <1>3
  <2>2. audit'.pc \in {"ask", "wait"}
          => audit'.on /\ ~audit'.mute /\ AskedFor' \subseteq audit'.todo \cup audit'.answered
    BY <1>4, <1>6, <1>9, <1>12, <1>3
  <2>3. audit'.pc = "check" => (~audit'.on => audit'.mute) /\ (~audit'.mute => AskedFor' \subseteq audit'.answered)
    BY <1>4, <1>6, <1>9, <1>12, <1>3
  <2> QED
    BY <2>1, <2>2, <2>3 DEF HubHeld
<1>14. ListHeld' /\ CheckHeld' /\ VerdictJust'
  BY <1>1, <1>4, <1>6, <1>7, <1>9 DEF ListHeld, CheckHeld, VerdictJust
<1> QED
  BY <1>1, <1>6, <1>8, <1>13, <1>14, RunKeeps

(* What the hub says, or does not. *)
LEMMA HubKeeps ==
  ASSUME AuditInv, HubAnswers \/ HubRefuses \/ WaitOver \/ HubSilent \/ AuditAsked
  PROVE  AuditInv'
<1>1. UNCHANGED <<fact, alive, acks, setting, terminal>> /\ audit \in AuditType
  BY DEF HubAnswers, HubRefuses, WaitOver, HubSilent, AuditAsked, AuditInv, AuditTypes
<1>2. \A s \in Rows : Askable(s)' <=> Askable(s)
  BY <1>1 DEF Askable, Eligible
<1>3. audit.answered \subseteq Rows /\ audit.todo \subseteq Rows /\ audit.waits \in Int /\ audit.rows \subseteq Rows
  BY <1>1 DEF AuditType
<1>4. CASE HubAnswers
  <2> DEFINE b == Batch(audit.todo)
             todo == audit.todo \ {b}
             answered == audit.answered \cup {b}
             a == [audit EXCEPT !.todo = todo, !.answered = answered]
  <2>1. audit' = a /\ audit.pc = "ask" /\ b \in audit.todo
    BY <1>4 DEF HubAnswers, Batch
  <2> HIDE DEF b
  <2>2. a \in AuditType
    <3>1. todo \in SUBSET Rows /\ answered \in SUBSET Rows
      BY <1>3, <2>1
    <3> HIDE DEF todo, answered
    <3> QED
      BY <1>1, <3>1 DEF AuditType
  <2>3. /\ a.pc = "ask" /\ a.rows = audit.rows /\ a.left = audit.left /\ a.listed = audit.listed /\ a.lanes = audit.lanes
        /\ a.todo = audit.todo \ {b} /\ a.answered = audit.answered \cup {b}
        /\ a.mute = audit.mute /\ a.on = audit.on
    BY <1>1, <2>1 DEF AuditType
  <2> HIDE DEF a
  <2>4. AskedFor' = AskedFor
    BY <1>2, <1>3, <2>1, <2>3 DEF AskedFor
  <2>5. HubHeld'
    <3>1. /\ \A s \in audit.answered \cup audit.todo : Askable(s)
          /\ audit.on /\ ~audit.mute /\ AskedFor \subseteq audit.todo \cup audit.answered
      BY <2>1 DEF AuditInv, HubHeld
    <3>2. \A s \in audit'.answered \cup audit'.todo : Askable(s)'
      BY <3>1, <1>2, <1>3, <2>1, <2>3
    <3>3. AskedFor' \subseteq audit'.todo \cup audit'.answered
      BY <3>1, <2>1, <2>3, <2>4
    <3> QED
      BY <3>1, <3>2, <3>3, <2>1, <2>3 DEF HubHeld
  <2> QED
    BY <1>1, <2>1, <2>2, <2>3, <2>5, RunKeeps DEF AuditInv, ListHeld, CheckHeld, VerdictJust
<1>5. CASE HubRefuses \/ WaitOver
  <2> DEFINE pc == IF audit.pc = "ask" THEN "wait" ELSE "ask"
             waits == IF audit.pc = "ask" THEN audit.waits - 1 ELSE audit.waits
             a == [audit EXCEPT !.pc = pc, !.waits = waits]
  <2>1. audit.pc \in {"ask", "wait"}
    BY <1>5 DEF HubRefuses, WaitOver
  <2>2. pc \in {"ask", "wait"} /\ waits \in Int
    BY <1>3, <2>1
  <2>3. a \in AuditType
    <3> HIDE DEF pc, waits
    <3> QED
      BY <1>1, <2>2 DEF AuditType, AuditStep
  <2>4. /\ a.pc = pc /\ a.rows = audit.rows /\ a.left = audit.left /\ a.listed = audit.listed /\ a.lanes = audit.lanes
        /\ a.todo = audit.todo /\ a.answered = audit.answered /\ a.mute = audit.mute /\ a.on = audit.on
    BY <1>1 DEF AuditType
  <2>5. ASSUME HubRefuses PROVE audit' = a
    <3>1. pc = "wait" /\ waits = audit.waits - 1 /\ audit' = [audit EXCEPT !.pc = "wait", !.waits = audit.waits - 1]
      BY <2>5, SMT DEF HubRefuses, WaitsLeft
    <3> QED
      BY <3>1
  <2>6. ASSUME WaitOver PROVE audit' = a
    <3>1. pc = "ask" /\ waits = audit.waits /\ audit' = [audit EXCEPT !.pc = "ask"]
      BY <2>6 DEF WaitOver
    <3>2. [audit EXCEPT !.pc = "ask"] = a
      BY <1>1, <3>1 DEF AuditType
    <3> QED
      BY <3>1, <3>2
  <2>7. audit' = a
    BY <2>5, <2>6, <1>5
  <2> HIDE DEF a
  <2>8. AskedFor' = AskedFor
    BY <1>2, <1>3, <2>7, <2>4 DEF AskedFor
  <2>9. HubHeld'
    BY <1>2, <1>3, <2>1, <2>2, <2>4, <2>7, <2>8 DEF AuditInv, HubHeld
  <2> QED
    BY <1>1, <2>1, <2>2, <2>3, <2>4, <2>7, <2>9, RunKeeps DEF AuditInv, ListHeld, CheckHeld, VerdictJust
<1>6. CASE HubSilent \/ AuditAsked
  <2>1. PICK mute \in BOOLEAN : /\ audit' = [audit EXCEPT !.pc = "check", !.mute = mute]
                                /\ audit.pc = "ask"
                                /\ ~mute => ~audit.mute /\ audit.todo = {}
    <3>1. CASE HubSilent
      BY <3>1 DEF HubSilent, Mute
    <3>2. CASE AuditAsked
      <4>1. audit' = [audit EXCEPT !.pc = "check"] /\ audit.pc = "ask" /\ audit.todo = {} /\ audit.mute \in BOOLEAN
        BY <3>2, <1>1 DEF AuditAsked, AuditType
      <4>2. [audit EXCEPT !.pc = "check"] = [audit EXCEPT !.pc = "check", !.mute = audit.mute]
        BY <1>1 DEF AuditType
      <4> QED
        BY <4>1, <4>2
    <3> QED
      BY <3>1, <3>2, <1>6
  <2> DEFINE a == [audit EXCEPT !.pc = "check", !.mute = mute]
  <2>2. a \in AuditType
    BY <1>1, <2>1 DEF AuditType, AuditStep
  <2>3. /\ a.pc = "check" /\ a.rows = audit.rows /\ a.left = audit.left /\ a.listed = audit.listed /\ a.lanes = audit.lanes
        /\ a.todo = audit.todo /\ a.answered = audit.answered /\ a.mute = mute /\ a.on = audit.on
    BY <1>1, <2>1 DEF AuditType
  <2>4. audit' = a
    BY <2>1
  <2> HIDE DEF a
  <2>5. AskedFor' = AskedFor
    BY <1>2, <1>3, <2>4, <2>3 DEF AskedFor
  <2>6. HubHeld'
    BY <1>2, <1>3, <2>1, <2>3, <2>4, <2>5 DEF AuditInv, HubHeld
  <2>7. ListHeld' /\ audit.left = audit.rows
    BY <1>1, <2>1, <2>3, <2>4 DEF AuditInv, ListHeld
  <2>8. CheckHeld' /\ VerdictJust'
    BY <2>3, <2>4, <2>7 DEF CheckHeld, VerdictJust
  <2> QED
    BY <1>1, <2>4, <2>2, <2>6, <2>7, <2>8, RunKeeps
<1> QED
  BY <1>4, <1>5, <1>6

(* One row looked at: its verdict is what its facts say now. *)
LEMMA CheckKeeps ==
  ASSUME AuditInv, AuditCheck
  PROVE  AuditInv'
<1>1. UNCHANGED <<fact, alive, acks, setting, terminal>> /\ audit \in AuditType
  BY DEF AuditCheck, AuditInv, AuditTypes
<1> DEFINE s == CHOOSE r \in audit.left : TRUE
           v == VerdictFor(s, s \in audit.listed \/ fact[s].object)
           cost == IF s \in audit.listed THEN audit.cost ELSE audit.cost + 1
           left == audit.left \ {s}
           verdict == [audit.verdict EXCEPT ![s] = v]
           a == [audit EXCEPT !.left = left, !.cost = cost, !.verdict = verdict]
<1>2. audit' = a /\ audit.pc = "check" /\ s \in audit.left
  <2>1. audit' = [audit EXCEPT !.left = @ \ {s}, !.cost = IF s \in audit.listed THEN @ ELSE @ + 1,
                               !.verdict[s] = v]
        /\ audit.pc = "check" /\ audit.left # {}
    BY DEF AuditCheck
  <2> QED
    BY <2>1
<1>3. audit.left \subseteq audit.rows /\ audit.rows \subseteq Rows /\ audit.cost \in Int
      /\ audit.verdict \in [Rows -> Verdicts \cup {"none"}]
  BY <1>1 DEF AuditType, AuditInv, ListHeld
<1>4. s \in alive /\ s \in audit.listed => fact[s].object
  BY DEF AuditInv, ListHeld
<1>5. s \in alive => v = VerdictFor(s, fact[s].object)
  <2>1. ASSUME s \in alive PROVE (s \in audit.listed \/ fact[s].object) = fact[s].object
    <3>1. fact[s] \in Fact
      BY <1>2, <1>3 DEF AuditInv, AuditTypes
    <3>2. fact[s].object \in BOOLEAN
      BY <3>1 DEF Fact
    <3> QED
      BY <3>2, <1>4, <2>1
  <2> QED
    BY <2>1
<1>6. v \in Verdicts
  BY DEF VerdictFor, Verdicts
<1> HIDE DEF s, v
<1>7. left \in SUBSET Rows /\ cost \in Int /\ verdict \in [Rows -> Verdicts \cup {"none"}]
      /\ verdict[s] = v /\ \A r \in Rows : r # s => verdict[r] = audit.verdict[r]
  BY <1>2, <1>3, <1>6
<1>8. a \in AuditType
  <2> HIDE DEF left, cost, verdict
  <2> QED
    BY <1>1, <1>7 DEF AuditType
<1>9. /\ a.pc = "check" /\ a.rows = audit.rows /\ a.left = left /\ a.listed = audit.listed /\ a.lanes = audit.lanes /\ a.todo = audit.todo
      /\ a.answered = audit.answered /\ a.mute = audit.mute /\ a.on = audit.on /\ a.verdict = verdict
  BY <1>1, <1>2 DEF AuditType
<1> HIDE DEF a
<1>10. CheckHeld'
  <2>1. SUFFICES ASSUME NEW r \in (audit.rows \ left) \cap alive
                 PROVE  verdict[r] = VerdictFor(r, fact[r].object)'
    BY <1>1, <1>2, <1>9 DEF CheckHeld
  <2>2. r \in Rows
    BY <1>3
  <2>3. VerdictFor(r, fact[r].object)' = VerdictFor(r, fact[r].object)
    BY <2>2, <1>1, <1>2, <1>9, VerdictSame
  <2>4. CASE r = s
    BY <2>3, <2>4, <1>5, <1>7
  <2>5. CASE r # s
    <3>1. audit.verdict[r] = VerdictFor(r, fact[r].object)
      BY <2>5, <1>2 DEF AuditInv, CheckHeld
    <3> QED
      BY <3>1, <2>2, <2>3, <2>5, <1>7
  <2> QED
    BY <2>4, <2>5
<1>11. HubHeld' /\ ListHeld' /\ VerdictJust'
  BY <1>1, <1>2, <1>3, <1>9 DEF AuditInv, HubHeld, ListHeld, VerdictJust, AskedFor, Askable, Eligible
<1> QED
  BY <1>1, <1>2, <1>8, <1>10, <1>11, RunKeeps

(* The roll-up says what the verdicts say, and no more. *)
LEMMA FinishKeeps ==
  ASSUME AuditInv, NEW fresh \in BOOLEAN, AuditFinish(fresh)
  PROVE  AuditInv'
<1>1. UNCHANGED <<fact, alive, acks, setting, terminal>> /\ audit \in AuditType
      /\ fact \in [Rows -> Fact] /\ alive \subseteq Rows
  BY DEF AuditFinish, AuditInv, AuditTypes
<1> DEFINE reached == audit.rows \ audit.left
           outcome == RollUp(reached, fresh)
           truncated == audit.left # {}
           a == [audit EXCEPT !.pc = "done", !.truncated = truncated, !.outcome = outcome]
<1>2. audit' = a /\ audit.pc = "check"
  BY DEF AuditFinish
<1>3. reached \subseteq Rows /\ audit.left \subseteq audit.rows /\ audit.rows \subseteq Rows
  BY <1>1 DEF AuditType, AuditInv, ListHeld
<1>4. outcome \in {"failed", "qualified", "clean"} /\ truncated \in BOOLEAN
  BY DEF RollUp
<1>5. a \in AuditType
  <2> HIDE DEF outcome, truncated
  <2> QED
    BY <1>1, <1>4 DEF AuditType, AuditStep
<1>6. /\ a.pc = "done" /\ a.rows = audit.rows /\ a.left = audit.left /\ a.listed = audit.listed /\ a.lanes = audit.lanes
      /\ a.todo = audit.todo /\ a.answered = audit.answered /\ a.mute = audit.mute /\ a.on = audit.on
      /\ a.acked = audit.acked /\ a.outcome = outcome
  BY <1>1 DEF AuditType
<1>7. \A s \in reached \cap alive : audit.verdict[s] = VerdictFor(s, fact[s].object)
  BY <1>2 DEF AuditInv, CheckHeld
<1>8. \A s \in reached : Askable(s) => audit.mute \/ s \in audit.answered
  BY <1>2 DEF AuditInv, HubHeld, AskedFor
<1>9. \A s \in reached \cap alive : Lost(s) => ~Passes(audit.verdict[s], s \in audit.acked)
  <2>1. TAKE s \in reached \cap alive
  <2>2. HAVE Lost(s)
  <2> DEFINE acked == s \in audit.acked
  <2>3. acked \in BOOLEAN
    OBVIOUS
  <2> HIDE DEF acked
  <2>4. ~Passes(VerdictFor(s, fact[s].object), acked)
    BY <2>2, <2>3, <1>1, <1>3, LostFails DEF AuditInv, ListHeld
  <2> QED
    BY <2>4, <1>7 DEF acked
<1>10. (\E s \in reached \cap alive : Lost(s)) => outcome = "failed"
  BY <1>9 DEF RollUp
<1>11. outcome = "clean" => \A s \in audit.rows \cap alive : ~Lost(s) /\ (fact[s].object => ~fact[s].copy)
  <2>1. SUFFICES ASSUME outcome = "clean", NEW s \in audit.rows \cap alive,
                        Lost(s) \/ (fact[s].object /\ fact[s].copy)
                 PROVE  FALSE
    OBVIOUS
  <2>2. audit.left = {} /\ ~Notes({audit.verdict[r] : r \in reached})
    BY <2>1 DEF RollUp
  <2>3. s \in reached \cap alive /\ s \in Rows
    BY <2>2, <1>3
  <2>4. fact[s].object /\ fact[s].copy
    BY <2>1, <2>3, <1>10, <1>4
  <2>5. Possible(fact[s])
    BY <2>3 DEF AuditInv, FactHeld
  <2>6. audit.verdict[s] \in {"also_at_letai", "copy_unchecked"}
    BY <2>3, <2>4, <2>5, <1>1, <1>7, CopyIsNoted
  <2> QED
    BY <2>2, <2>3, <2>6 DEF Notes
<1>12. outcome = "failed" =>
         \E s \in reached : \/ Lost(s) \/ s \notin alive
                            \/ LanesMissed(s)
                            \/ ~fact[s].object /\ (fact[s].routed \/ audit.mute \/ ~Askable(s))
                            \/ fact[s].copy /\ s \notin audit.acked
  <2>1. HAVE outcome = "failed"
  <2>2. PICK s \in reached : ~Passes(audit.verdict[s], s \in audit.acked)
    BY <2>1 DEF RollUp
  <2>3. SUFFICES ASSUME s \in alive
                 PROVE  \/ Lost(s) \/ LanesMissed(s)
                        \/ ~fact[s].object /\ (fact[s].routed \/ audit.mute \/ ~Askable(s))
                        \/ fact[s].copy /\ s \notin audit.acked
    OBVIOUS
  <2> DEFINE acked == s \in audit.acked
  <2>4. acked \in BOOLEAN
    OBVIOUS
  <2>5. ~Passes(VerdictFor(s, fact[s].object), acked)
    BY <2>2, <2>3, <1>7
  <2>6. s \in Rows /\ (Askable(s) => audit.mute \/ s \in audit.answered)
    BY <1>3, <1>8
  <2> HIDE DEF acked
  <2>7. \/ Lost(s) \/ LanesMissed(s)
        \/ ~fact[s].object /\ (fact[s].routed \/ audit.mute \/ ~Askable(s))
        \/ fact[s].copy /\ ~acked
    BY <2>4, <2>5, <2>6, <1>1, FailureHasReason
  <2> QED
    BY <2>7 DEF acked
<1> HIDE DEF a
<1>13. audit.mute => WitnessState' # "attested"
  BY <1>2, <1>6 DEF WitnessState
<1>14. VerdictJust'
  <2>1. audit'.rows \ audit'.left = reached /\ audit'.outcome = outcome /\ audit'.acked = audit.acked
        /\ audit'.rows = audit.rows
    BY <1>2, <1>6
  <2> HIDE DEF outcome, reached
  <2>2. /\ \A s : Lost(s)' <=> Lost(s)
        /\ \A s : LanesMissed(s)' <=> LanesMissed(s)
        /\ \A s : Askable(s)' <=> Askable(s)
    BY <1>1, <1>2, <1>6 DEF Lost, LanesMissed, Askable, Eligible
  <2>3. audit'.outcome = "clean" =>
          \A s \in audit'.rows \cap alive' : ~Lost(s)' /\ (fact'[s].object => ~fact'[s].copy)
    BY <1>1, <1>11, <2>1, <2>2
  <2>4. (audit'.outcome # "error" /\ \E s \in (audit'.rows \ audit'.left) \cap alive' : Lost(s)')
          => audit'.outcome = "failed"
    BY <1>1, <1>10, <2>1, <2>2
  <2>5. audit'.outcome = "failed" =>
          \E s \in audit'.rows \ audit'.left :
             \/ Lost(s)' \/ s \notin alive' \/ LanesMissed(s)'
             \/ ~fact'[s].object /\ (fact'[s].routed \/ (WitnessState # "attested")' \/ ~Askable(s)')
             \/ fact'[s].copy /\ s \notin audit'.acked
    BY <1>1, <1>12, <1>13, <2>1, <2>2
  <2> QED
    BY <2>3, <2>4, <2>5 DEF VerdictJust
<1>15. ListHeld' /\ HubHeld' /\ CheckHeld'
  BY <1>1, <1>2, <1>3, <1>6 DEF AuditInv, ListHeld, HubHeld, CheckHeld, Askable, Eligible
<1> QED
  BY <1>1, <1>2, <1>5, <1>14, <1>15, RunKeeps

LEMMA FailsKeeps ==
  ASSUME AuditInv, AuditFails
  PROVE  AuditInv'
<1>1. UNCHANGED <<fact, alive, acks, setting, terminal>> /\ audit \in AuditType
  BY DEF AuditFails, AuditInv, AuditTypes
<1> DEFINE a == [audit EXCEPT !.pc = "done", !.outcome = "error"]
<1>2. audit' = a
  BY DEF AuditFails
<1>3. a \in AuditType
  BY <1>1 DEF AuditType, AuditStep
<1>4. /\ a.pc = "done" /\ a.rows = audit.rows /\ a.left = audit.left /\ a.listed = audit.listed /\ a.lanes = audit.lanes
      /\ a.todo = audit.todo /\ a.answered = audit.answered /\ a.outcome = "error"
  BY <1>1 DEF AuditType
<1> HIDE DEF a
<1>5. ListHeld' /\ HubHeld' /\ CheckHeld' /\ VerdictJust'
  BY <1>1, <1>2, <1>4 DEF AuditInv, ListHeld, HubHeld, CheckHeld, VerdictJust, Askable, Eligible
<1> QED
  BY <1>1, <1>2, <1>3, <1>5, RunKeeps

(* A deletion under the run takes a session's facts and the session together. *)
LEMMA DeleteKeeps ==
  ASSUME AuditInv, NEW s \in Rows, MemberDeletes(s)
  PROVE  AuditInv'
<1>1. UNCHANGED <<acks, setting, terminal, audit>> /\ audit \in AuditType /\ fact \in [Rows -> Fact]
      /\ alive \subseteq Rows /\ audit.pc # "done" /\ alive' = alive \ {s}
  BY DEF MemberDeletes, AuditInv, AuditTypes
<1> DEFINE f == [fact[s] EXCEPT !.object = FALSE, !.lane = FALSE]
<1>2. fact' = [fact EXCEPT ![s] = f]
  BY DEF MemberDeletes
<1>3. f \in Fact
  BY <1>1 DEF Fact
<1>4. f.channel = fact[s].channel /\ f.attributed = fact[s].attributed /\ f.routed = fact[s].routed
      /\ f.copy = fact[s].copy
  BY <1>1 DEF Fact
<1> HIDE DEF f
<1>5. fact' \in [Rows -> Fact] /\ fact'[s] = f /\ \A r \in Rows : r # s => fact'[r] = fact[r]
  BY <1>1, <1>2, <1>3
<1>6. AuditTypes'
  BY <1>1, <1>5 DEF AuditTypes, AuditInv
<1>7. FactHeld'
  <2>1. \A r \in Rows : Possible(fact[r])
    BY DEF AuditInv, FactHeld
  <2>2. \A r \in Rows : Possible(fact'[r])
    BY <2>1, <1>4, <1>5 DEF Possible
  <2> QED
    BY <2>2 DEF FactHeld
<1>8. \A r \in Rows : Askable(r)' <=> Askable(r)
  BY <1>4, <1>5 DEF Askable, Eligible
<1>9. audit.rows \subseteq Rows /\ audit.answered \subseteq Rows /\ audit.todo \subseteq Rows
      /\ audit.listed \subseteq Rows
  BY <1>1 DEF AuditType
<1>10. AskedFor' = AskedFor
  BY <1>1, <1>8, <1>9 DEF AskedFor
<1>11. HubHeld'
  BY <1>1, <1>8, <1>9, <1>10 DEF AuditInv, HubHeld
<1>12. ListHeld'
  BY <1>1, <1>5, <1>9 DEF AuditInv, ListHeld
<1>13. CheckHeld'
  <2>1. SUFFICES ASSUME audit.pc = "check", NEW r \in (audit.rows \ audit.left) \cap (alive \ {s})
                 PROVE  audit.verdict[r] = VerdictFor(r, fact[r].object)'
    BY <1>1 DEF CheckHeld
  <2>2. VerdictFor(r, fact[r].object)' = VerdictFor(r, fact[r].object)
    BY <1>1, <1>5, <1>9, VerdictSame
  <2> QED
    BY <2>1, <2>2 DEF AuditInv, CheckHeld
<1>14. VerdictJust' /\ IntentHeld' /\ AppliesHeld'
  BY <1>1 DEF AuditInv, VerdictJust, IntentHeld, AppliesHeld
<1> QED
  BY <1>6, <1>7, <1>11, <1>12, <1>13, <1>14 DEF AuditInv

LEMMA BooksKeep ==
  ASSUME AuditInv, SweepRuns \/ \E s \in Rows : Acknowledge(s)
  PROVE  AuditInv'
<1>1. UNCHANGED <<fact, alive, setting, audit, terminal>> /\ acks' \subseteq Rows
  BY DEF SweepRuns, Acknowledge, AuditInv, AuditTypes
<1>2. AuditHeld'
  BY <1>1, InvIs, RunStays
<1> QED
  BY <1>1, <1>2 DEF AuditInv, AuditHeld, AuditTypes, IntentHeld, AppliesHeld

LEMMA AuditInvInit == ResidencyInit(TRUE) => AuditInv
<1> SUFFICES ASSUME ResidencyInit(TRUE) PROVE AuditInv
  OBVIOUS
<1>1. AuditTypes
  <2>1. fact \in [Rows -> Fact] /\ alive = Rows /\ acks \subseteq Rows /\ setting \in Words
    BY ResidencyAssumption DEF ResidencyInit, Words
  <2>2. audit \in AuditType
    <3> DEFINE none == [s \in Rows |-> "none"]
    <3>1. none \in [Rows -> Verdicts \cup {"none"}]
      OBVIOUS
    <3> HIDE DEF none
    <3>2. NoAudit = [pc |-> "idle", on |-> FALSE, acked |-> {}, rows |-> {}, listed |-> {}, lanes |-> {}, asked |-> {},
                     todo |-> {}, answered |-> {}, mute |-> FALSE, waits |-> 0, cost |-> 0, left |-> {},
                     verdict |-> none, truncated |-> FALSE, outcome |-> "none"]
      BY DEF NoAudit, none
    <3>3. NoAudit \in AuditType
      BY <3>1, <3>2 DEF AuditType, AuditStep
    <3> QED
      BY <3>3 DEF ResidencyInit
  <2>3. terminal \in Terminal
    BY DEF ResidencyInit, Terminal
  <2> QED
    BY <2>1, <2>2, <2>3 DEF AuditTypes
<1>2. FactHeld
  <2>1. Possible(Delivered)
    BY DEF Possible, Delivered
  <2>2. \A s \in Rows : Possible(fact[s]) \/ fact[s] = Delivered
    BY DEF ResidencyInit
  <2> QED
    BY <2>1, <2>2 DEF FactHeld
<1>3. /\ audit.pc = "idle" /\ audit.rows = {} /\ audit.left = {} /\ audit.listed = {} /\ audit.lanes = {} /\ audit.answered = {}
      /\ audit.todo = {} /\ terminal.handler = "idle" /\ terminal.mirror = "none"
  BY DEF ResidencyInit, NoAudit
<1> QED
  BY <1>1, <1>2, <1>3 DEF AuditInv, ListHeld, HubHeld, CheckHeld, IntentHeld, AppliesHeld, VerdictJust

LEMMA AuditInvNext == AuditInv /\ [ResidencyNext]_auditVars => AuditInv'
<1> SUFFICES ASSUME AuditInv, [ResidencyNext]_auditVars PROVE AuditInv'
  OBVIOUS
<1>1. ASSUME NEW s \in Rows, MemberDeletes(s) PROVE AuditInv'
  BY <1>1, DeleteKeeps
<1>2. CASE SweepRuns \/ \E s \in Rows : Acknowledge(s)
  BY <1>2, BooksKeep
<1>3. CASE (\E read \in BOOLEAN : AuditStart(read)) \/ AuditRows
  BY <1>3, StartKeeps
<1>4. CASE AuditList
  BY <1>4, ListKeeps
<1>5. CASE HubAnswers \/ HubRefuses \/ WaitOver \/ HubSilent \/ AuditAsked
  BY <1>5, HubKeeps
<1>6. CASE AuditCheck
  BY <1>6, CheckKeeps
<1>7. CASE AuditFails
  BY <1>7, FailsKeeps
<1>8. ASSUME NEW fresh \in BOOLEAN, AuditFinish(fresh) PROVE AuditInv'
  BY <1>8, FinishKeeps
<1>9. ASSUME NEW value \in {"on", "off"}, TerminalAsks(value) \/ TerminalWaits(value) \/ ConsoleToggles(value)
      PROVE  AuditInv'
  BY <1>9, VerbKeeps DEF Words
<1>10. CASE IntentApplies \/ IntentPublishes \/ IntentFails \/ IntentClears
  BY <1>10, IntentKeeps
<1>11. CASE UNCHANGED auditVars
  <2>1. UNCHANGED <<fact, alive, acks, setting, audit, terminal>>
    BY <1>11 DEF auditVars
  <2>2. AuditHeld'
    BY <2>1, InvIs, RunStays
  <2> QED
    BY <2>1, <2>2 DEF AuditInv, AuditHeld, AuditTypes, IntentHeld, AppliesHeld
<1> QED
  BY <1>1, <1>2, <1>3, <1>4, <1>5, <1>6, <1>7, <1>8, <1>9, <1>10, <1>11 DEF ResidencyNext

(***************************************************************************)
(* What the operator is told about where the data lives is true: a clean   *)
(* run found every session it claims here and no copy at the hub, a lost   *)
(* session that was reached fails its run, a run fails only for a reason,  *)
(* and the published witness setting is the one in force, whatever members *)
(* delete, the hub answers and operators toggle meanwhile.                 *)
(***************************************************************************)
THEOREM AuditHonestHolds == ResidencySpec => []AuditHonest
<1>1. AuditInv => AuditHonest
  BY DEF AuditInv, IntentHeld, AuditHonest, MirrorTrue
<1> QED
  BY <1>1, AuditInvInit, AuditInvNext, PTL DEF ResidencySpec

-----------------------------------------------------------------------------
(***************************************************************************)
(* The database under the fortress.                                        *)
(***************************************************************************)
AllTables == {"sessions", "turns", "view", "embeddings", "commands", "acks", "control", "engine", "journal"}
PgPlaces == {"off", "failed", "ready", "acquire", "clear", "extract", "sentinel", "secrets", "initdb", "start", "alter",
             "hba", "reload", "database", "vector", "copylib", "copyext", "migrate", "grant", "publish",
             "probe", "racing", "retrying"}

DiskOf == [sentinel : BOOLEAN, bundle : {"none", "partial", "whole"}, lib : BOOLEAN, control : BOOLEAN, sql : BOOLEAN,
           cluster : {"none", "partial", "whole"}, hba : {"none", "trust", "scram"}, password : Nat, secrets : Nat,
           pgjson : {"none", "embedded", "external"}]
CatOf  == [journal : SUBSET DOMAIN Creates, tables : SUBSET AllTables, times : [DOMAIN Creates -> Nat],
           defaults : SUBSET {"readonly", "app_rw"}, priv : Priv]
BootOf == [mode : {"embedded", "external"}, pc : PgPlaces, key : Nat, hba : {"none", "trust", "scram"},
           up : BOOLEAN, faulted : BOOLEAN]
RunOf  == [pc : {"none", "journal", "apply", "done", "failed"}, todo : SUBSET DOMAIN Creates]
SpentOf == [boots : Nat, faults : Nat, runs : Nat]

BootTypes == /\ pgDisk \in DiskOf /\ pgCat \in CatOf /\ pgBoot \in BootOf
             /\ pgRun \in [1..MaxRuns -> RunOf] /\ pgSpent \in SpentOf

(* The last steps of the chain, each with those that follow it. *)
FromMigrate == {"migrate", "grant", "publish", "ready"}
FromVector  == {"vector", "copylib", "copyext"} \cup FromMigrate
FromHba     == {"hba", "reload", "database"} \cup FromVector
FromAlter   == {"alter"} \cup FromHba
FromStart   == {"start"} \cup FromAlter
FromInitdb  == {"initdb"} \cup FromStart
FromSecrets == {"secrets"} \cup FromInitdb

(* What a step may take from the steps before it, in this boot or an earlier. *)
BundleHeld ==
  /\ pgDisk.sentinel => pgDisk.bundle = "whole"
  /\ pgBoot.pc \in {"clear", "extract", "sentinel"} => ~pgDisk.sentinel
  /\ pgBoot.pc = "sentinel" => pgDisk.bundle = "whole"
  /\ pgBoot.pc \in FromSecrets => pgDisk.sentinel

SecretHeld ==
  /\ pgBoot.pc # "off" => pgSpent.boots # 0
  /\ pgDisk.hba = "scram" => pgDisk.password = pgDisk.secrets /\ pgDisk.secrets # 0
  /\ pgDisk.cluster = "whole" => pgDisk.hba \in {"trust", "scram"}
  /\ pgBoot.pc \in FromInitdb => pgBoot.key = pgDisk.secrets /\ pgBoot.key # 0
  /\ pgBoot.pc \in FromStart => pgDisk.cluster # "none"
  /\ pgBoot.pc \in FromAlter => pgBoot.up /\ pgDisk.cluster = "whole"
  /\ pgBoot.pc = "alter" => MayConnect
  /\ pgBoot.pc \in FromHba => pgDisk.password = pgBoot.key

VectorHeld ==
  /\ pgBoot.pc = "copyext" => pgDisk.lib
  /\ pgBoot.pc \in FromMigrate => pgDisk.control

(* The run of the migrations, which is the boot's own. *)
MigrationHeld ==
  /\ \A r \in 1..MaxRuns : r # 1 => pgRun[r].pc = "none"
  /\ pgBoot.pc \notin FromMigrate \cup {"failed"} => pgRun[1].pc = "none"
  /\ pgBoot.pc = "migrate" => pgRun[1].pc # "none"
  /\ pgBoot.pc \in FromMigrate \ {"migrate"} => pgRun[1].pc = "done"
  /\ pgBoot.pc = "failed" => pgRun[1].pc \notin {"journal", "apply"}
  /\ pgRun[1].pc = "apply" => pgRun[1].todo \cap pgCat.journal = {}

FailHeld ==
  /\ pgBoot.pc = "migrate" /\ pgRun[1].pc = "failed" => pgBoot.faulted \/ Torn
  /\ pgBoot.pc = "failed" => pgBoot.faulted \/ Torn

ChainHeld == pgBoot.mode = "embedded" => BundleHeld /\ SecretHeld /\ VectorHeld /\ MigrationHeld /\ FailHeld

(* The attempts of the external provider. *)
LoopHeld ==
  pgBoot.mode = "external" =>
    /\ pgBoot.pc \in {"off", "probe", "racing", "retrying", "ready"}
    /\ pgSpent.runs <= MaxRuns /\ (pgBoot.pc \in {"probe", "racing"} => pgSpent.runs # 0)
    /\ pgBoot.pc = "ready" => pgCat.journal = DOMAIN Creates

(* What a run has left behind it is in the journal, and the journal counts. *)
JournalHeld ==
  /\ \A r \in 1..MaxRuns :
       /\ pgRun[r].pc \in {"apply", "done"} => DOMAIN Creates \ pgRun[r].todo \subseteq pgCat.journal
       /\ pgRun[r].pc = "done" => pgRun[r].todo = {}
  /\ \A m \in DOMAIN Creates : pgCat.times[m] = IF m \in pgCat.journal THEN 1 ELSE 0
  /\ "console" \in pgCat.journal => "base" \in pgCat.journal
  /\ pgCat.tables \cap ConsoleTables # {} => "console" \in pgCat.journal

(* The fence on a set of privileges, and what ensureAppRoles adds to it. *)
FenceOf(g) ==
  /\ \A t \in ConsoleTables, p \in Dml : <<"readonly", t, p>> \notin g.tab /\ <<"app_ro", t, p>> \notin g.tab
  /\ \A t \in FencedTables, p \in Writes : <<"app_rw", t, p>> \notin g.tab
GrantsOf(g) ==
  /\ {<<"app_rw", "control", "INSERT">>, <<"app_rw", "control", "UPDATE">>} \subseteq g.col
  /\ \A p \in Writes : <<"app_rw", "journal", p>> \notin g.tab
  /\ \A t \in {"sessions", "turns", "view", "embeddings"}, p \in Dml : <<"ui", t, p>> \notin g.tab

FenceHeld == /\ FenceOf(pgCat.priv)
             /\ (pgBoot.mode = "embedded" /\ pgBoot.pc \in {"publish", "ready"}) => GrantsOf(pgCat.priv)

(* What every boot and every attempt starts from and leaves. *)
BootInv == BootTypes /\ ChainHeld /\ LoopHeld /\ JournalHeld /\ FenceHeld

LEMMA StepsFollow ==
  /\ After("acquire") = "clear" /\ After("clear") = "extract" /\ After("extract") = "sentinel"
  /\ After("sentinel") = "secrets" /\ After("secrets") = "initdb" /\ After("initdb") = "start"
  /\ After("start") = "alter" /\ After("alter") = "hba" /\ After("hba") = "reload" /\ After("reload") = "database"
  /\ After("database") = "vector" /\ After("vector") = "copylib" /\ After("copylib") = "copyext"
  /\ After("copyext") = "migrate" /\ After("grant") = "publish" /\ After("publish") = "ready"
  /\ After("migrate") = "grant"
<1>1. Len(BootSteps) = 18
  BY DEF BootSteps
<1>2. \A k \in 1..18 : \A step : BootSteps[k] = step /\ (\A i \in 1..18 : BootSteps[i] = step => i = k)
                                  => After(step) = BootSteps[1 + k]
  BY <1>1 DEF After
<1> QED
  BY <1>2 DEF BootSteps

LEMMA FirstIs ==
  /\ \A todo \in SUBSET DOMAIN Creates : todo # {} => First(todo) \in todo /\ \A n \in todo : Manifest[First(todo)] <= Manifest[n]
  /\ \A m \in DOMAIN Creates : Manifest[m] \in Nat
<1>1. DOMAIN Creates = {"base", "vectors", "console"}
  BY DEF Creates
<1>2. Manifest["base"] = 1 /\ Manifest["vectors"] = 2 /\ Manifest["console"] = 3
  BY DEF Manifest
<1>3. ASSUME NEW todo \in SUBSET DOMAIN Creates, todo # {}
      PROVE  \E m \in todo : \A n \in todo : Manifest[m] <= Manifest[n]
  <2>1. CASE "base" \in todo
    BY <1>1, <1>2, <2>1
  <2>2. CASE "base" \notin todo /\ "vectors" \in todo
    BY <1>1, <1>2, <2>2
  <2>3. CASE "base" \notin todo /\ "vectors" \notin todo
    BY <1>1, <1>2, <1>3, <2>3
  <2> QED
    BY <2>1, <2>2, <2>3
<1> QED
  BY <1>1, <1>2, <1>3 DEF First

-----------------------------------------------------------------------------
(* Privileges. *)

TabOf == {"readonly", "app_ro", "app_rw", "owner", "ui"} \X AllTables \X Dml
ColOf == {"app_rw", "ui"} \X {"control", "sessions", "embeddings"} \X Dml

LEMMA PrivIs == Priv = [tab : SUBSET TabOf, col : SUBSET ColOf]
<1>1. (UNION {Creates[m] : m \in DOMAIN Creates}) \cup {"journal"} = AllTables
  <2>1. DOMAIN Creates = {"base", "vectors", "console"}
    BY DEF Creates
  <2>2. /\ Creates["base"] = {"sessions", "turns", "view"} /\ Creates["vectors"] = {"embeddings"}
        /\ Creates["console"] = {"commands", "acks", "control", "engine"}
    BY DEF Creates
  <2> DEFINE made == UNION {Creates[m] : m \in DOMAIN Creates}
  <2>3. \A t : t \in made <=> t \in Creates["base"] \/ t \in Creates["vectors"] \/ t \in Creates["console"]
    BY <2>1
  <2> HIDE DEF made
  <2>4. \A t : t \in made \cup {"journal"} <=> t \in AllTables
    BY <2>2, <2>3 DEF AllTables
  <2>5. made \cup {"journal"} = AllTables
    BY <2>4
  <2> QED
    BY <2>5 DEF made
<1> QED
  BY <1>1 DEF Priv, TabOf, ColOf

LEMMA TablesAre ==
  /\ DOMAIN Creates = {"base", "vectors", "console"} /\ \A m \in DOMAIN Creates : Creates[m] \subseteq AllTables
  /\ Creates["base"] = {"sessions", "turns", "view"} /\ Creates["vectors"] = {"embeddings"}
  /\ Creates["console"] = ConsoleTables /\ ConsoleTables = {"commands", "acks", "control", "engine"}
  /\ ConsoleTables \subseteq AllTables /\ FencedTables \subseteq AllTables /\ Writes \subseteq Dml
BY DEF Creates, AllTables, ConsoleTables, FencedTables, Writes, Dml

LEMMA RevokeIs ==
  ASSUME NEW g \in Priv, NEW pairs, NEW privs
  PROVE  LET h == RevokeOf(g, pairs, privs) IN
         /\ h \in Priv /\ h.tab \subseteq g.tab /\ h.col \subseteq g.col
         /\ \A r, t, p : <<r, t, p>> \in h.tab <=> <<r, t, p>> \in g.tab /\ ~(<<r, t>> \in pairs /\ p \in privs)
<1> DEFINE a == {x \in g.tab : ~(<<x[1], x[2]>> \in pairs /\ x[3] \in privs)}
           b == {x \in g.col : ~(<<x[1], x[2]>> \in pairs /\ x[3] \in privs)}
           h == RevokeOf(g, pairs, privs)
<1>1. g.tab \subseteq TabOf /\ g.col \subseteq ColOf
  BY PrivIs
<1>2. h = [tab |-> a, col |-> b]
  BY DEF RevokeOf
<1>3. a \subseteq g.tab /\ b \subseteq g.col
  OBVIOUS
<1>4. \A r, t, p : <<r, t, p>> \in a <=> <<r, t, p>> \in g.tab /\ ~(<<r, t>> \in pairs /\ p \in privs)
  OBVIOUS
<1> HIDE DEF a, b, h
<1>5. h.tab = a /\ h.col = b
  BY <1>2
<1>6. h \in Priv
  BY <1>1, <1>2, <1>3, PrivIs
<1> QED
  BY <1>3, <1>4, <1>5, <1>6 DEF h

LEMMA BlanketIs ==
  ASSUME NEW g \in Priv, NEW tables \in SUBSET AllTables
  PROVE  LET h == Blanket(g, tables) IN
         /\ h \in Priv /\ h.col = g.col
         /\ \A t, p : /\ <<"readonly", t, p>> \in h.tab <=> <<"readonly", t, p>> \in g.tab
                      /\ <<"app_ro", t, p>> \in h.tab <=> <<"app_ro", t, p>> \in g.tab
<1> DEFINE add == ({"app_rw"} \X tables \X Dml) \cup OwnerGrants \cup UiGrants
           h == [g EXCEPT !.tab = g.tab \cup add]
<1>1. add \subseteq TabOf
  <2>1. {"app_rw"} \X tables \X Dml \subseteq TabOf
    BY DEF TabOf
  <2>2. OwnerGrants \subseteq TabOf
    BY DEF TabOf, OwnerGrants, AllTables, Dml, Writes
  <2>3. UiGrants \subseteq TabOf
    BY DEF TabOf, UiGrants, AllTables, Dml, Writes
  <2> QED
    BY <2>1, <2>2, <2>3
<1>2. \A t, p : <<"readonly", t, p>> \notin add /\ <<"app_ro", t, p>> \notin add
  BY DEF OwnerGrants, UiGrants
<1>3. Blanket(g, tables) = h
  BY DEF Blanket
<1> HIDE DEF add
<1>4. h \in Priv /\ h.col = g.col /\ h.tab = g.tab \cup add
  BY <1>1, PrivIs
<1> HIDE DEF h
<1> QED
  BY <1>2, <1>3, <1>4

LEMMA ColumnIs ==
  ASSUME NEW g \in Priv, NEW tables \in SUBSET AllTables
  PROVE  LET h == ColumnGranted(g, tables) IN
         /\ h \in Priv /\ h.tab = g.tab
         /\ {<<"app_rw", "control", "INSERT">>, <<"app_rw", "control", "UPDATE">>} \subseteq h.col
<1> DEFINE add == {<<"app_rw", "control", "INSERT">>, <<"app_rw", "control", "UPDATE">>,
                   <<"ui", "sessions", "SELECT">>} \cup ({"ui"} \X (tables \cap {"embeddings"}) \X {"SELECT"})
           h == [g EXCEPT !.col = g.col \cup add]
<1>1. add \subseteq ColOf
  BY DEF ColOf, Dml, Writes
<1>2. {<<"app_rw", "control", "INSERT">>, <<"app_rw", "control", "UPDATE">>} \subseteq add
  OBVIOUS
<1>3. ColumnGranted(g, tables) = h
  BY DEF ColumnGranted
<1> HIDE DEF add
<1>4. h \in Priv /\ h.tab = g.tab /\ h.col = g.col \cup add
  BY <1>1, PrivIs
<1> HIDE DEF h
<1> QED
  BY <1>2, <1>3, <1>4

(* What ensureAppRoles leaves, and what every later table starts with. *)
LEMMA AppRolesAre ==
  ASSUME NEW g \in Priv, FenceOf(g), NEW tables \in SUBSET AllTables
  PROVE  LET h == AppRoles(g, tables) IN h \in Priv /\ FenceOf(h) /\ GrantsOf(h)
<1> DEFINE a == Blanket(g, tables)
           none == {"app_rw"} \X (FencedTables \cup {"journal"})
           extras == UiExtras(a)
           all == ({"readonly", "app_ro"} \X ConsoleTables)
                    \cup ({"ui"} \X ({"sessions", "embeddings", "view"} \cup extras))
           b == RevokeOf(a, none, Writes)
           c == RevokeOf(b, all, Dml)
           h == ColumnGranted(c, tables)
<1>1. a \in Priv
  BY BlanketIs
<1>2. b \in Priv /\ \A r, t, p : <<r, t, p>> \in b.tab <=> <<r, t, p>> \in a.tab /\ ~(<<r, t>> \in none /\ p \in Writes)
  <2> HIDE DEF a, none
  <2> QED
    BY <1>1, RevokeIs
<1>3. c \in Priv /\ \A r, t, p : <<r, t, p>> \in c.tab <=> <<r, t, p>> \in b.tab /\ ~(<<r, t>> \in all /\ p \in Dml)
  <2> HIDE DEF b, all
  <2> QED
    BY <1>2, RevokeIs
<1>4. AppRoles(g, tables) = h
  BY DEF AppRoles, Revoked
<1>5. h \in Priv /\ h.tab = c.tab /\ {<<"app_rw", "control", "INSERT">>, <<"app_rw", "control", "UPDATE">>} \subseteq h.col
  <2> HIDE DEF c
  <2> QED
    BY <1>3, ColumnIs
<1>6. \A t, p : <<"ui", t, p>> \in a.tab => t \in extras \/ t \in {x[2] : x \in UiGrants} \cup {"sessions", "embeddings"}
  <2> HIDE DEF a
  <2>1. \A t, p : <<"ui", t, p>> \in a.tab => t \in {x[2] : x \in {y \in a.tab \cup a.col : y[1] = "ui"}}
    OBVIOUS
  <2> QED
    BY <2>1 DEF UiExtras
<1>7. "turns" \notin {x[2] : x \in UiGrants}
  BY DEF UiGrants
<1>8. \A t \in {"sessions", "turns", "view", "embeddings"}, p \in Dml : <<"ui", t, p>> \notin c.tab
  <2> SUFFICES ASSUME NEW t \in {"sessions", "turns", "view", "embeddings"}, NEW p \in Dml, <<"ui", t, p>> \in c.tab
               PROVE  FALSE
    OBVIOUS
  <2>1. <<"ui", t, p>> \in a.tab /\ <<"ui", t>> \notin all
    <3> HIDE DEF a, b, c, none, all
    <3> QED
      BY <1>2, <1>3
  <2>2. t \notin {"sessions", "embeddings", "view"} \cup extras
    <3> HIDE DEF extras
    <3> QED
      BY <2>1
  <2> QED
    BY <2>1, <2>2, <1>6, <1>7
<1>9. FenceOf(c)
  <2>1. ASSUME NEW t \in ConsoleTables, NEW p \in Dml
        PROVE  <<"readonly", t, p>> \notin c.tab /\ <<"app_ro", t, p>> \notin c.tab
    <3>1. <<"readonly", t>> \in all /\ <<"app_ro", t>> \in all
      <4> HIDE DEF extras
      <4> QED
        OBVIOUS
    <3> HIDE DEF b, c, all
    <3> QED
      BY <3>1, <1>3
  <2>2. ASSUME NEW t \in FencedTables \cup {"journal"}, NEW p \in Writes
        PROVE  <<"app_rw", t, p>> \notin c.tab
    <3>1. <<"app_rw", t>> \in none
      OBVIOUS
    <3> HIDE DEF a, b, c, all, none
    <3> QED
      BY <3>1, <1>2, <1>3
  <2> HIDE DEF c
  <2> QED
    BY <2>1, <2>2 DEF FenceOf
<1>10. \A p \in Writes : <<"app_rw", "journal", p>> \notin c.tab
  <2> SUFFICES ASSUME NEW p \in Writes PROVE <<"app_rw", "journal", p>> \notin c.tab
    OBVIOUS
  <2>1. <<"app_rw", "journal">> \in none
    OBVIOUS
  <2> HIDE DEF a, b, c, all, none
  <2> QED
    BY <2>1, <1>2, <1>3
<1> HIDE DEF c, h
<1>11. FenceOf(h) /\ GrantsOf(h)
  BY <1>5, <1>8, <1>9, <1>10 DEF FenceOf, GrantsOf
<1> QED
  BY <1>4, <1>5, <1>11

LEMMA BeltIs ==
  ASSUME NEW g \in Priv
  PROVE  Belt(g) \in Priv /\ FenceOf(Belt(g))
<1> DEFINE b == RevokeOf(g, {"app_rw"} \X FencedTables, Writes)
           c == RevokeOf(b, {"readonly", "app_ro"} \X ConsoleTables, Dml)
<1>1. b \in Priv /\ \A r, t, p : <<r, t, p>> \in b.tab <=> <<r, t, p>> \in g.tab /\ ~(<<r, t>> \in {"app_rw"} \X FencedTables /\ p \in Writes)
  BY RevokeIs
<1>2. c \in Priv /\ \A r, t, p : <<r, t, p>> \in c.tab <=> <<r, t, p>> \in b.tab /\ ~(<<r, t>> \in {"readonly", "app_ro"} \X ConsoleTables /\ p \in Dml)
  <2> HIDE DEF b
  <2> QED
    BY <1>1, RevokeIs
<1>3. Belt(g) = c
  BY DEF Belt
<1> HIDE DEF b, c
<1> QED
  BY <1>1, <1>2, <1>3 DEF FenceOf

LEMMA DefaultsAre ==
  ASSUME NEW defaults, NEW tables \in SUBSET AllTables
  PROVE  /\ ByDefault(defaults, tables) \subseteq TabOf
         /\ \A r, t, p : <<r, t, p>> \in ByDefault(defaults, tables) => t \in tables
         /\ \A t, p : <<"app_ro", t, p>> \notin ByDefault(defaults, tables)
<1> DEFINE x == ({"readonly"} \cap defaults) \X tables \X {"SELECT"}
           y == ({"app_rw"} \cap defaults) \X tables \X Dml
<1>1. x \subseteq TabOf
  BY DEF TabOf, Dml
<1>2. y \subseteq TabOf
  BY DEF TabOf
<1>3. \A r, t, p : <<r, t, p>> \in x \cup y => t \in tables /\ r # "app_ro"
  OBVIOUS
<1>4. ByDefault(defaults, tables) = x \cup y
  BY DEF ByDefault
<1> HIDE DEF x, y
<1> QED
  BY <1>1, <1>2, <1>3, <1>4

(* One migration: what it adds to the catalog, and that the fence stays up. *)
AppliedTo(cat, new, m) ==
  /\ new \in CatOf /\ FenceOf(new.priv)
  /\ new.journal = cat.journal \cup {m} /\ new.tables = cat.tables \cup Creates[m]
  /\ new.times[m] = cat.times[m] + 1 /\ \A n \in DOMAIN Creates : n # m => new.times[n] = cat.times[n]

LEMMA AppliedIs ==
  ASSUME NEW cat \in CatOf, FenceOf(cat.priv), NEW m \in DOMAIN Creates,
         m = "base" => cat.tables \cap ConsoleTables = {}
  PROVE  AppliedTo(cat, Applied(cat, m), m)
<1> DEFINE tables == cat.tables \cup Creates[m]
           add == ByDefault(cat.defaults, Creates[m])
           created == [cat.priv EXCEPT !.tab = cat.priv.tab \cup add]
           read == {"readonly"} \X tables \X {"SELECT"}
           based == [created EXCEPT !.tab = created.tab \cup read]
           priv == IF m = "base" THEN based ELSE IF m = "console" THEN Belt(created) ELSE created
           times == [cat.times EXCEPT ![m] = cat.times[m] + 1]
           defaults == IF m = "base" THEN cat.defaults \cup {"readonly"} ELSE cat.defaults
           new == [cat EXCEPT !.journal = cat.journal \cup {m}, !.tables = tables, !.times = times,
                              !.defaults = defaults, !.priv = priv]
<1>1. /\ cat.priv \in Priv /\ cat.journal \in SUBSET DOMAIN Creates /\ cat.tables \in SUBSET AllTables
      /\ cat.times \in [DOMAIN Creates -> Nat] /\ cat.defaults \in SUBSET {"readonly", "app_rw"}
  BY DEF CatOf
<1>2. Applied(cat, m) = new
  BY DEF Applied
<1>3. tables \in SUBSET AllTables /\ Creates[m] \in SUBSET AllTables
  BY <1>1, TablesAre
<1>4. /\ add \subseteq TabOf /\ \A r, t, p : <<r, t, p>> \in add => t \in Creates[m]
      /\ \A t, p : <<"app_ro", t, p>> \notin add
  BY <1>3, DefaultsAre
<1>5. created \in Priv /\ created.tab = cat.priv.tab \cup add
  <2> HIDE DEF add
  <2> QED
    BY <1>1, <1>4, PrivIs
<1>6. m # "console" => FenceOf(created)
  <2>1. m # "console" => \A t \in ConsoleTables : t \notin Creates[m]
    BY TablesAre
  <2>2. FencedTables \subseteq ConsoleTables
    BY TablesAre DEF FencedTables
  <2> HIDE DEF add, created
  <2> QED
    BY <1>4, <1>5, <2>1, <2>2 DEF FenceOf
<1>7. m = "base" => based \in Priv /\ FenceOf(based)
  <2> SUFFICES ASSUME m = "base" PROVE based \in Priv /\ FenceOf(based)
    OBVIOUS
  <2>1. read \subseteq TabOf
    BY <1>3 DEF TabOf, Dml
  <2>2. \A t \in ConsoleTables : t \notin tables
    BY TablesAre
  <2>3. \A r, t, p : <<r, t, p>> \in read => t \in tables /\ r = "readonly"
    OBVIOUS
  <2>4. FencedTables \subseteq ConsoleTables
    BY TablesAre DEF FencedTables
  <2>5. FenceOf(created)
    BY <1>6
  <2> HIDE DEF created, read, tables
  <2>6. based \in Priv /\ based.tab = created.tab \cup read
    BY <1>5, <2>1, PrivIs
  <2> HIDE DEF based
  <2> QED
    BY <2>2, <2>3, <2>4, <2>5, <2>6 DEF FenceOf
<1>8. priv \in Priv /\ FenceOf(priv)
  <2> HIDE DEF created, based
  <2>1. Belt(created) \in Priv /\ FenceOf(Belt(created))
    BY <1>5, BeltIs
  <2> QED
    BY <1>5, <1>6, <1>7, <2>1
<1>9. /\ times \in [DOMAIN Creates -> Nat] /\ times[m] = cat.times[m] + 1
      /\ \A n \in DOMAIN Creates : n # m => times[n] = cat.times[n]
  BY <1>1
<1>10. defaults \in SUBSET {"readonly", "app_rw"}
  BY <1>1
<1> HIDE DEF tables, times, priv, defaults
<1>11. /\ new \in CatOf /\ new.priv = priv /\ new.journal = cat.journal \cup {m} /\ new.tables = tables /\ new.times = times
  BY <1>1, <1>3, <1>8, <1>9, <1>10 DEF CatOf
<1> HIDE DEF new
<1> QED
  BY <1>2, <1>8, <1>9, <1>11 DEF AppliedTo, tables

-----------------------------------------------------------------------------
(* The steps of a boot that leave the catalog and the runs alone. *)
QuietStep ==
  /\ pgBoot.mode = "embedded" /\ pgBoot'.mode = "embedded"
  /\ pgDisk' \in DiskOf /\ pgBoot' \in BootOf /\ pgSpent' \in SpentOf
  /\ UNCHANGED <<pgCat, pgRun>>
  /\ pgBoot'.pc \in {"publish", "ready"} => pgBoot.pc \in {"publish", "ready"}

LEMMA QuietKeeps ==
  ASSUME BootInv, QuietStep, BundleHeld', SecretHeld', VectorHeld', MigrationHeld', FailHeld'
  PROVE  BootInv'
<1>1. BootTypes'
  BY DEF BootInv, BootTypes, QuietStep
<1>2. ChainHeld'
  BY DEF ChainHeld
<1>3. LoopHeld'
  BY DEF LoopHeld, QuietStep
<1>4. JournalHeld'
  BY DEF BootInv, JournalHeld, QuietStep
<1>5. FenceHeld'
  BY DEF BootInv, FenceHeld, QuietStep, FenceOf, GrantsOf
<1> QED
  BY <1>1, <1>2, <1>3, <1>4, <1>5 DEF BootInv

LEMMA FieldsAre ==
  ASSUME BootTypes
  PROVE  /\ pgDisk.sentinel \in BOOLEAN /\ pgDisk.bundle \in {"none", "partial", "whole"}
         /\ pgDisk.lib \in BOOLEAN /\ pgDisk.control \in BOOLEAN /\ pgDisk.sql \in BOOLEAN
         /\ pgDisk.cluster \in {"none", "partial", "whole"} /\ pgDisk.hba \in {"none", "trust", "scram"}
         /\ pgDisk.password \in Nat /\ pgDisk.secrets \in Nat
         /\ pgBoot.pc \in PgPlaces /\ pgBoot.key \in Nat /\ pgBoot.hba \in {"none", "trust", "scram"}
         /\ pgBoot.up \in BOOLEAN /\ pgBoot.faulted \in BOOLEAN
         /\ pgSpent.boots \in Nat /\ pgSpent.faults \in Nat /\ pgSpent.runs \in Nat
BY DEF BootTypes, DiskOf, BootOf, SpentOf

LEMMA PgStartKeeps ==
  ASSUME BootInv, PgStart
  PROVE  BootInv'
<1>1. /\ BundleHeld /\ SecretHeld /\ VectorHeld /\ MigrationHeld /\ FailHeld
      /\ BootTypes /\ pgBoot.mode = "embedded" /\ pgBoot.pc = "off"
  BY DEF BootInv, ChainHeld, PgStart, AtStep
<1>2. /\ pgBoot' = [pgBoot EXCEPT !.pc = "acquire", !.faulted = FALSE, !.key = 0] /\ UNCHANGED <<pgDisk, pgCat, pgRun>>
      /\ pgSpent' = [pgSpent EXCEPT !.boots = pgSpent.boots + 1]
  BY DEF PgStart
<1>3. pgSpent' \in SpentOf /\ pgSpent'.boots # 0
  <2> DEFINE n == pgSpent.boots + 1
  <2>1. n \in Nat /\ n # 0
    BY <1>1, FieldsAre
  <2> HIDE DEF n
  <2>2. pgSpent' = [pgSpent EXCEPT !.boots = n]
    BY <1>2 DEF n
  <2> QED
    BY <1>1, <2>1, <2>2 DEF BootTypes, SpentOf
<1>4. QuietStep /\ pgBoot'.pc = "acquire" /\ pgSpent'.boots # 0 /\ UNCHANGED pgDisk
  <2>1. pgBoot' \in BootOf /\ pgBoot'.pc = "acquire" /\ pgBoot'.mode = "embedded"
    BY <1>1, <1>2 DEF BootTypes, BootOf, PgPlaces
  <2> QED
    BY <1>1, <1>2, <1>3, <2>1 DEF QuietStep, BootTypes
<1>8. BundleHeld' /\ SecretHeld' /\ VectorHeld' /\ MigrationHeld' /\ FailHeld'
  BY <1>1, <1>4, FieldsAre DEF QuietStep, BundleHeld, SecretHeld, VectorHeld, MigrationHeld, FailHeld, FromMigrate, FromVector, FromHba,
     FromAlter, FromStart, FromInitdb, FromSecrets
<1> QED
  BY <1>4, <1>8, QuietKeeps

LEMMA AcquireKeeps ==
  ASSUME BootInv, Acquire
  PROVE  BootInv'
<1>1. /\ BundleHeld /\ SecretHeld /\ VectorHeld /\ MigrationHeld /\ FailHeld
      /\ BootTypes /\ pgBoot.mode = "embedded" /\ pgBoot.pc = "acquire"
  BY DEF BootInv, ChainHeld, Acquire, AtStep
<1>2. QuietStep /\ pgBoot'.pc = (IF pgDisk.sentinel THEN "secrets" ELSE "clear") /\ UNCHANGED <<pgDisk, pgSpent>>
  BY <1>1, FieldsAre, StepsFollow DEF Acquire, GoesTo, QuietStep, BootTypes, BootOf, DiskOf, PgPlaces
<1>8. BundleHeld' /\ SecretHeld' /\ VectorHeld' /\ MigrationHeld' /\ FailHeld'
  BY <1>1, <1>2, FieldsAre DEF QuietStep, BundleHeld, SecretHeld, VectorHeld, MigrationHeld, FailHeld, FromMigrate, FromVector, FromHba,
     FromAlter, FromStart, FromInitdb, FromSecrets
<1> QED
  BY <1>2, <1>8, QuietKeeps

LEMMA ClearBundleKeeps ==
  ASSUME BootInv, ClearBundle
  PROVE  BootInv'
<1>1. /\ BundleHeld /\ SecretHeld /\ VectorHeld /\ MigrationHeld /\ FailHeld
      /\ BootTypes /\ pgBoot.mode = "embedded" /\ pgBoot.pc = "clear"
  BY DEF BootInv, ChainHeld, ClearBundle, AtStep
<1>2. QuietStep /\ pgBoot'.pc = "extract" /\ UNCHANGED pgSpent
      /\ pgDisk' = [pgDisk EXCEPT !.bundle = "none", !.lib = FALSE, !.control = FALSE, !.sql = FALSE]
  BY <1>1, FieldsAre, StepsFollow DEF ClearBundle, GoesTo, QuietStep, BootTypes, BootOf, DiskOf, PgPlaces
<1>8. BundleHeld' /\ SecretHeld' /\ VectorHeld' /\ MigrationHeld' /\ FailHeld'
  BY <1>1, <1>2, FieldsAre DEF QuietStep, BundleHeld, SecretHeld, VectorHeld, MigrationHeld, FailHeld, FromMigrate, FromVector, FromHba,
     FromAlter, FromStart, FromInitdb, FromSecrets, Torn, BootTypes, DiskOf
<1> QED
  BY <1>2, <1>8, QuietKeeps

LEMMA ExtractBundleKeeps ==
  ASSUME BootInv, ExtractBundle
  PROVE  BootInv'
<1>1. /\ BundleHeld /\ SecretHeld /\ VectorHeld /\ MigrationHeld /\ FailHeld
      /\ BootTypes /\ pgBoot.mode = "embedded" /\ pgBoot.pc = "extract"
  BY DEF BootInv, ChainHeld, ExtractBundle, AtStep
<1>2. QuietStep /\ UNCHANGED pgSpent
      /\ \/ UNCHANGED pgBoot /\ pgDisk' = [pgDisk EXCEPT !.bundle = "partial"]
         \/ pgBoot' = [pgBoot EXCEPT !.pc = "sentinel"] /\ pgDisk' = [pgDisk EXCEPT !.bundle = "whole"]
  BY <1>1, FieldsAre, StepsFollow DEF ExtractBundle, GoesTo, QuietStep, BootTypes, BootOf, DiskOf, PgPlaces
<1>8. BundleHeld' /\ SecretHeld' /\ VectorHeld' /\ MigrationHeld' /\ FailHeld'
  BY <1>1, <1>2, FieldsAre DEF QuietStep, BundleHeld, SecretHeld, VectorHeld, MigrationHeld, FailHeld, FromMigrate, FromVector, FromHba,
     FromAlter, FromStart, FromInitdb, FromSecrets, MayConnect, Torn, BootTypes, DiskOf, BootOf
<1> QED
  BY <1>2, <1>8, QuietKeeps

LEMMA WriteSentinelKeeps ==
  ASSUME BootInv, WriteSentinel
  PROVE  BootInv'
<1>1. /\ BundleHeld /\ SecretHeld /\ VectorHeld /\ MigrationHeld /\ FailHeld
      /\ BootTypes /\ pgBoot.mode = "embedded" /\ pgBoot.pc = "sentinel"
  BY DEF BootInv, ChainHeld, WriteSentinel, AtStep
<1>2. QuietStep /\ UNCHANGED pgSpent /\ pgBoot' = [pgBoot EXCEPT !.pc = "secrets"] /\ pgDisk' = [pgDisk EXCEPT !.sentinel = TRUE]
  BY <1>1, FieldsAre, StepsFollow DEF WriteSentinel, GoesTo, QuietStep, BootTypes, BootOf, DiskOf, PgPlaces
<1>8. BundleHeld' /\ SecretHeld' /\ VectorHeld' /\ MigrationHeld' /\ FailHeld'
  BY <1>1, <1>2, FieldsAre DEF QuietStep, BundleHeld, SecretHeld, VectorHeld, MigrationHeld, FailHeld, FromMigrate, FromVector, FromHba,
     FromAlter, FromStart, FromInitdb, FromSecrets, MayConnect, Torn, BootTypes, DiskOf, BootOf
<1> QED
  BY <1>2, <1>8, QuietKeeps

LEMMA RoleSecretsKeeps ==
  ASSUME BootInv, RoleSecrets
  PROVE  BootInv'
<1>1. /\ BundleHeld /\ SecretHeld /\ VectorHeld /\ MigrationHeld /\ FailHeld
      /\ BootTypes /\ pgBoot.mode = "embedded" /\ pgBoot.pc = "secrets"
  BY DEF BootInv, ChainHeld, RoleSecrets, AtStep
<1>2. PICK key \in Nat : /\ key # 0 /\ (pgDisk.secrets # 0 => key = pgDisk.secrets)
                        /\ key = IF pgDisk.secrets # 0 THEN pgDisk.secrets ELSE pgSpent.boots
  BY <1>1, FieldsAre DEF SecretHeld
<1>3. PICK pc \in {"initdb", "start"} : pc = "start" <=> pgDisk.cluster # "none"
  OBVIOUS
<1>4. /\ pgDisk' = [pgDisk EXCEPT !.secrets = key] /\ pgBoot' = [pgBoot EXCEPT !.key = key, !.pc = pc]
      /\ UNCHANGED <<pgCat, pgRun, pgSpent>>
  BY <1>2, <1>3, StepsFollow DEF RoleSecrets
<1>5. QuietStep
  BY <1>1, <1>2, <1>3, <1>4 DEF QuietStep, BootTypes, BootOf, DiskOf, PgPlaces
<1>8. BundleHeld' /\ SecretHeld' /\ VectorHeld' /\ MigrationHeld' /\ FailHeld'
  BY <1>1, <1>2, <1>3, <1>4, <1>5, FieldsAre DEF QuietStep, BundleHeld, SecretHeld, VectorHeld, MigrationHeld, FailHeld, FromMigrate, FromVector, FromHba,
     FromAlter, FromStart, FromInitdb, FromSecrets, MayConnect, Torn, BootTypes, DiskOf, BootOf
<1> QED
  BY <1>2, <1>3, <1>4, <1>5, <1>8, QuietKeeps

LEMMA InitClusterKeeps ==
  ASSUME BootInv, InitCluster
  PROVE  BootInv'
<1>1. /\ BundleHeld /\ SecretHeld /\ VectorHeld /\ MigrationHeld /\ FailHeld
      /\ BootTypes /\ pgBoot.mode = "embedded" /\ pgBoot.pc = "initdb"
  BY DEF BootInv, ChainHeld, InitCluster, AtStep
<1>2. pgDisk.cluster # "whole" \/ pgDisk.cluster = "whole"
  OBVIOUS
<1>3. CASE /\ pgDisk.cluster = "none" /\ pgDisk' = [pgDisk EXCEPT !.cluster = "partial"]
          /\ UNCHANGED <<pgBoot, pgCat, pgRun, pgSpent>>
  <2>1. QuietStep
    BY <1>1, <1>3, FieldsAre DEF QuietStep, BootTypes, BootOf, DiskOf, PgPlaces
  <2>2. BundleHeld' /\ SecretHeld' /\ VectorHeld' /\ MigrationHeld' /\ FailHeld'
    BY <1>1, <1>2, <1>3, <2>1, FieldsAre DEF QuietStep, BundleHeld, SecretHeld, VectorHeld, MigrationHeld, FailHeld, FromMigrate, FromVector, FromHba,
       FromAlter, FromStart, FromInitdb, FromSecrets, MayConnect, Torn, BootTypes, DiskOf, BootOf
  <2> QED
    BY <2>1, <2>2, QuietKeeps
<1>4. CASE /\ pgDisk.cluster = "partial" /\ pgBoot' = [pgBoot EXCEPT !.pc = "start"]
          /\ pgDisk' = [pgDisk EXCEPT !.cluster = "whole", !.hba = "scram", !.password = pgBoot.key]
          /\ UNCHANGED <<pgCat, pgRun, pgSpent>>
  <2>1. QuietStep
    BY <1>1, <1>4, FieldsAre DEF QuietStep, BootTypes, BootOf, DiskOf, PgPlaces
  <2>2. BundleHeld' /\ SecretHeld' /\ VectorHeld' /\ MigrationHeld' /\ FailHeld'
    BY <1>1, <1>2, <1>4, <2>1, FieldsAre DEF QuietStep, BundleHeld, SecretHeld, VectorHeld, MigrationHeld, FailHeld, FromMigrate, FromVector, FromHba,
       FromAlter, FromStart, FromInitdb, FromSecrets, MayConnect, Torn, BootTypes, DiskOf, BootOf
  <2> QED
    BY <2>1, <2>2, QuietKeeps
<1> QED
  BY <1>1, <1>2, <1>3, <1>4, StepsFollow DEF InitCluster, GoesTo, DeadEnd

LEMMA StartServerKeeps ==
  ASSUME BootInv, StartServer
  PROVE  BootInv'
<1>1. /\ BundleHeld /\ SecretHeld /\ VectorHeld /\ MigrationHeld /\ FailHeld
      /\ BootTypes /\ pgBoot.mode = "embedded" /\ pgBoot.pc = "start"
  BY DEF BootInv, ChainHeld, StartServer, AtStep
<1>2. pgDisk.bundle = "whole" /\ pgDisk.cluster # "none"
  BY <1>1 DEF BundleHeld, SecretHeld, FromSecrets, FromInitdb, FromStart
<1>3. CASE /\ pgDisk.cluster = "whole" /\ pgBoot' = [pgBoot EXCEPT !.pc = "alter", !.up = TRUE, !.hba = pgDisk.hba]
          /\ UNCHANGED <<pgDisk, pgCat, pgRun, pgSpent>>
  <2>1. QuietStep
    BY <1>1, <1>3, FieldsAre DEF QuietStep, BootTypes, BootOf, DiskOf, PgPlaces
  <2>2. BundleHeld' /\ SecretHeld' /\ VectorHeld' /\ MigrationHeld' /\ FailHeld'
    BY <1>1, <1>2, <1>3, <2>1, FieldsAre DEF QuietStep, BundleHeld, SecretHeld, VectorHeld, MigrationHeld, FailHeld, FromMigrate, FromVector, FromHba,
       FromAlter, FromStart, FromInitdb, FromSecrets, MayConnect, Torn, BootTypes, DiskOf, BootOf
  <2> QED
    BY <2>1, <2>2, QuietKeeps
<1>4. CASE /\ pgDisk.cluster # "whole"
          /\ pgBoot' = [pgBoot EXCEPT !.pc = "failed"] /\ UNCHANGED <<pgDisk, pgCat, pgRun, pgSpent>>
  <2>1. QuietStep
    BY <1>1, <1>4, FieldsAre DEF QuietStep, BootTypes, BootOf, DiskOf, PgPlaces
  <2>2. BundleHeld' /\ SecretHeld' /\ VectorHeld' /\ MigrationHeld' /\ FailHeld'
    BY <1>1, <1>2, <1>4, <2>1, FieldsAre DEF QuietStep, BundleHeld, SecretHeld, VectorHeld, MigrationHeld, FailHeld, FromMigrate, FromVector, FromHba,
       FromAlter, FromStart, FromInitdb, FromSecrets, MayConnect, Torn, BootTypes, DiskOf, BootOf
  <2> QED
    BY <2>1, <2>2, QuietKeeps
<1> QED
  BY <1>1, <1>2, <1>3, <1>4, StepsFollow DEF StartServer, GoesTo, DeadEnd

LEMMA AlterPasswordKeeps ==
  ASSUME BootInv, AlterPassword
  PROVE  BootInv'
<1>1. /\ BundleHeld /\ SecretHeld /\ VectorHeld /\ MigrationHeld /\ FailHeld
      /\ BootTypes /\ pgBoot.mode = "embedded" /\ pgBoot.pc = "alter"
  BY DEF BootInv, ChainHeld, AlterPassword, AtStep
<1>2. PICK key \in Nat : key = pgBoot.key /\ MayConnect
  BY <1>1, FieldsAre DEF SecretHeld, MayConnect, FromAlter, FromHba, FromVector, FromMigrate
<1>3. CASE /\ pgBoot' = [pgBoot EXCEPT !.pc = "hba"] /\ pgDisk' = [pgDisk EXCEPT !.password = key]
          /\ UNCHANGED <<pgCat, pgRun, pgSpent>>
  <2>1. QuietStep
    BY <1>1, <1>2, <1>3, FieldsAre DEF QuietStep, BootTypes, BootOf, DiskOf, PgPlaces
  <2>2. BundleHeld' /\ SecretHeld' /\ VectorHeld' /\ MigrationHeld' /\ FailHeld'
    BY <1>1, <1>2, <1>3, <2>1, FieldsAre DEF QuietStep, BundleHeld, SecretHeld, VectorHeld, MigrationHeld, FailHeld, FromMigrate, FromVector, FromHba,
       FromAlter, FromStart, FromInitdb, FromSecrets, MayConnect, Torn, BootTypes, DiskOf, BootOf
  <2> QED
    BY <2>1, <2>2, QuietKeeps
<1> QED
  BY <1>1, <1>2, <1>3, StepsFollow DEF AlterPassword, GoesTo, DeadEnd

LEMMA WriteHbaKeeps ==
  ASSUME BootInv, WriteHba
  PROVE  BootInv'
<1>1. /\ BundleHeld /\ SecretHeld /\ VectorHeld /\ MigrationHeld /\ FailHeld
      /\ BootTypes /\ pgBoot.mode = "embedded" /\ pgBoot.pc = "hba"
  BY DEF BootInv, ChainHeld, WriteHba, AtStep
<1>2. pgBoot.pc \in PgPlaces
  BY <1>1, FieldsAre
<1>3. CASE /\ pgBoot' = [pgBoot EXCEPT !.pc = "reload"] /\ pgDisk' = [pgDisk EXCEPT !.hba = "scram"]
          /\ UNCHANGED <<pgCat, pgRun, pgSpent>>
  <2>1. QuietStep
    BY <1>1, <1>3, FieldsAre DEF QuietStep, BootTypes, BootOf, DiskOf, PgPlaces
  <2>2. BundleHeld' /\ SecretHeld' /\ VectorHeld' /\ MigrationHeld' /\ FailHeld'
    BY <1>1, <1>2, <1>3, <2>1, FieldsAre DEF QuietStep, BundleHeld, SecretHeld, VectorHeld, MigrationHeld, FailHeld, FromMigrate, FromVector, FromHba,
       FromAlter, FromStart, FromInitdb, FromSecrets, MayConnect, Torn, BootTypes, DiskOf, BootOf
  <2> QED
    BY <2>1, <2>2, QuietKeeps
<1> QED
  BY <1>1, <1>2, <1>3, StepsFollow DEF WriteHba, GoesTo, DeadEnd

LEMMA ReloadKeeps ==
  ASSUME BootInv, Reload
  PROVE  BootInv'
<1>1. /\ BundleHeld /\ SecretHeld /\ VectorHeld /\ MigrationHeld /\ FailHeld
      /\ BootTypes /\ pgBoot.mode = "embedded" /\ pgBoot.pc = "reload"
  BY DEF BootInv, ChainHeld, Reload, AtStep
<1>2. PICK hba \in {"none", "trust", "scram"} : hba = pgDisk.hba
  BY <1>1, FieldsAre
<1>3. CASE /\ pgBoot' = [pgBoot EXCEPT !.pc = "database", !.hba = hba]
          /\ UNCHANGED <<pgDisk, pgCat, pgRun, pgSpent>>
  <2>1. QuietStep
    <3>1. pgBoot \in BootOf /\ hba \in {"none", "trust", "scram"} /\ "database" \in PgPlaces
      BY <1>1, <1>2 DEF BootTypes, PgPlaces
    <3>2. pgBoot' \in BootOf /\ pgBoot'.mode = "embedded" /\ pgBoot'.pc = "database"
      BY <1>1, <1>3, <3>1 DEF BootOf
    <3> QED
      BY <1>1, <1>3, <3>2 DEF QuietStep, BootTypes
  <2>2. BundleHeld' /\ SecretHeld' /\ VectorHeld' /\ MigrationHeld' /\ FailHeld'
    BY <1>1, <1>2, <1>3, <2>1, FieldsAre DEF QuietStep, BundleHeld, SecretHeld, VectorHeld, MigrationHeld, FailHeld, FromMigrate, FromVector, FromHba,
       FromAlter, FromStart, FromInitdb, FromSecrets, MayConnect, Torn, BootTypes, DiskOf, BootOf
  <2> QED
    BY <2>1, <2>2, QuietKeeps
<1> QED
  BY <1>1, <1>2, <1>3, StepsFollow DEF Reload, GoesTo, DeadEnd

LEMMA EnsureDatabaseKeeps ==
  ASSUME BootInv, EnsureDatabase
  PROVE  BootInv'
<1>1. /\ BundleHeld /\ SecretHeld /\ VectorHeld /\ MigrationHeld /\ FailHeld
      /\ BootTypes /\ pgBoot.mode = "embedded" /\ pgBoot.pc = "database"
  BY DEF BootInv, ChainHeld, EnsureDatabase, AtStep
<1>2. MayConnect
  BY <1>1 DEF SecretHeld, MayConnect, FromAlter, FromHba, FromVector, FromMigrate
<1>3. CASE /\ pgBoot' = [pgBoot EXCEPT !.pc = "vector"]
          /\ UNCHANGED <<pgDisk, pgCat, pgRun, pgSpent>>
  <2>1. QuietStep
    BY <1>1, <1>3, FieldsAre DEF QuietStep, BootTypes, BootOf, DiskOf, PgPlaces
  <2>2. BundleHeld' /\ SecretHeld' /\ VectorHeld' /\ MigrationHeld' /\ FailHeld'
    BY <1>1, <1>2, <1>3, <2>1, FieldsAre DEF QuietStep, BundleHeld, SecretHeld, VectorHeld, MigrationHeld, FailHeld, FromMigrate, FromVector, FromHba,
       FromAlter, FromStart, FromInitdb, FromSecrets, MayConnect, Torn, BootTypes, DiskOf, BootOf
  <2> QED
    BY <2>1, <2>2, QuietKeeps
<1> QED
  BY <1>1, <1>2, <1>3, StepsFollow DEF EnsureDatabase, GoesTo, DeadEnd

LEMMA CopyLibraryKeeps ==
  ASSUME BootInv, CopyLibrary
  PROVE  BootInv'
<1>1. /\ BundleHeld /\ SecretHeld /\ VectorHeld /\ MigrationHeld /\ FailHeld
      /\ BootTypes /\ pgBoot.mode = "embedded" /\ pgBoot.pc = "copylib"
  BY DEF BootInv, ChainHeld, CopyLibrary, AtStep
<1>2. pgBoot.pc \in PgPlaces
  BY <1>1, FieldsAre
<1>3. CASE /\ pgBoot' = [pgBoot EXCEPT !.pc = "copyext"] /\ pgDisk' = [pgDisk EXCEPT !.lib = TRUE]
          /\ UNCHANGED <<pgCat, pgRun, pgSpent>>
  <2>1. QuietStep
    BY <1>1, <1>3, FieldsAre DEF QuietStep, BootTypes, BootOf, DiskOf, PgPlaces
  <2>2. BundleHeld' /\ SecretHeld' /\ VectorHeld' /\ MigrationHeld' /\ FailHeld'
    BY <1>1, <1>2, <1>3, <2>1, FieldsAre DEF QuietStep, BundleHeld, SecretHeld, VectorHeld, MigrationHeld, FailHeld, FromMigrate, FromVector, FromHba,
       FromAlter, FromStart, FromInitdb, FromSecrets, MayConnect, Torn, BootTypes, DiskOf, BootOf
  <2> QED
    BY <2>1, <2>2, QuietKeeps
<1> QED
  BY <1>1, <1>2, <1>3, StepsFollow DEF CopyLibrary, GoesTo, DeadEnd

LEMMA PublishCoordinatesKeeps ==
  ASSUME BootInv, PublishCoordinates
  PROVE  BootInv'
<1>1. /\ BundleHeld /\ SecretHeld /\ VectorHeld /\ MigrationHeld /\ FailHeld
      /\ BootTypes /\ pgBoot.mode = "embedded" /\ pgBoot.pc = "publish"
  BY DEF BootInv, ChainHeld, PublishCoordinates, AtStep
<1>2. pgBoot.pc \in PgPlaces
  BY <1>1, FieldsAre
<1>3. CASE /\ pgBoot' = [pgBoot EXCEPT !.pc = "ready"] /\ pgDisk' = [pgDisk EXCEPT !.pgjson = "embedded"]
          /\ UNCHANGED <<pgCat, pgRun, pgSpent>>
  <2>1. QuietStep
    BY <1>1, <1>3, FieldsAre DEF QuietStep, BootTypes, BootOf, DiskOf, PgPlaces
  <2>2. BundleHeld' /\ SecretHeld' /\ VectorHeld' /\ MigrationHeld' /\ FailHeld'
    BY <1>1, <1>2, <1>3, <2>1, FieldsAre DEF QuietStep, BundleHeld, SecretHeld, VectorHeld, MigrationHeld, FailHeld, FromMigrate, FromVector, FromHba,
       FromAlter, FromStart, FromInitdb, FromSecrets, MayConnect, Torn, BootTypes, DiskOf, BootOf
  <2> QED
    BY <2>1, <2>2, QuietKeeps
<1> QED
  BY <1>1, <1>2, <1>3, StepsFollow DEF PublishCoordinates, GoesTo, DeadEnd

LEMMA MigratedKeeps ==
  ASSUME BootInv, Migrated
  PROVE  BootInv'
<1>1. /\ BundleHeld /\ SecretHeld /\ VectorHeld /\ MigrationHeld /\ FailHeld
      /\ BootTypes /\ pgBoot.mode = "embedded" /\ pgBoot.pc = "migrate"
  BY DEF BootInv, ChainHeld, Migrated, AtStep
<1>2. MayConnect
  BY <1>1 DEF SecretHeld, MayConnect, FromAlter, FromHba, FromVector, FromMigrate
<1>3. CASE /\ pgRun[1].pc = "done" /\ pgBoot' = [pgBoot EXCEPT !.pc = "grant"]
          /\ UNCHANGED <<pgDisk, pgCat, pgRun, pgSpent>>
  <2>1. QuietStep
    BY <1>1, <1>3, FieldsAre DEF QuietStep, BootTypes, BootOf, DiskOf, PgPlaces
  <2>2. BundleHeld' /\ SecretHeld' /\ VectorHeld' /\ MigrationHeld' /\ FailHeld'
    BY <1>1, <1>2, <1>3, <2>1, FieldsAre DEF QuietStep, BundleHeld, SecretHeld, VectorHeld, MigrationHeld, FailHeld, FromMigrate, FromVector, FromHba,
       FromAlter, FromStart, FromInitdb, FromSecrets, MayConnect, Torn, BootTypes, DiskOf, BootOf
  <2> QED
    BY <2>1, <2>2, QuietKeeps
<1>4. CASE /\ pgRun[1].pc = "failed" /\ pgBoot' = [pgBoot EXCEPT !.pc = "failed"]
          /\ UNCHANGED <<pgDisk, pgCat, pgRun, pgSpent>>
  <2>1. QuietStep
    BY <1>1, <1>4, FieldsAre DEF QuietStep, BootTypes, BootOf, DiskOf, PgPlaces
  <2>2. BundleHeld' /\ SecretHeld' /\ VectorHeld' /\ MigrationHeld' /\ FailHeld'
    BY <1>1, <1>2, <1>4, <2>1, FieldsAre DEF QuietStep, BundleHeld, SecretHeld, VectorHeld, MigrationHeld, FailHeld, FromMigrate, FromVector, FromHba,
       FromAlter, FromStart, FromInitdb, FromSecrets, MayConnect, Torn, BootTypes, DiskOf, BootOf
  <2> QED
    BY <2>1, <2>2, QuietKeeps
<1> QED
  BY <1>1, <1>2, <1>3, <1>4, StepsFollow DEF Migrated, GoesTo, DeadEnd

LEMMA FaultsAre ==
  ASSUME BootTypes, pgSpent' = [pgSpent EXCEPT !.faults = @ + 1]
  PROVE  pgSpent' \in SpentOf /\ pgSpent'.boots = pgSpent.boots /\ pgSpent'.runs = pgSpent.runs
<1> DEFINE n == pgSpent.faults + 1
<1>1. n \in Nat
  BY FieldsAre
<1> HIDE DEF n
<1>2. pgSpent' = [pgSpent EXCEPT !.faults = n]
  BY DEF n
<1>3. pgSpent \in SpentOf
  BY DEF BootTypes
<1>4. pgSpent'.boots = pgSpent.boots /\ pgSpent'.runs = pgSpent.runs /\ pgSpent'.faults = n
  BY <1>2, <1>3 DEF SpentOf
<1> QED
  BY <1>1, <1>2, <1>3, <1>4 DEF SpentOf

LEMMA StepFailsKeeps ==
  ASSUME BootInv, StepFails
  PROVE  BootInv'
<1>1. /\ BundleHeld /\ SecretHeld /\ VectorHeld /\ MigrationHeld /\ FailHeld
      /\ BootTypes /\ pgBoot.mode = "embedded" /\ pgBoot.pc \notin {"off", "failed", "ready", "migrate"}
  BY DEF BootInv, ChainHeld, StepFails
<1>2. pgSpent' \in SpentOf /\ pgSpent'.boots = pgSpent.boots
  BY <1>1, FaultsAre DEF StepFails
<1>3. /\ pgBoot' = [pgBoot EXCEPT !.pc = "failed", !.faulted = TRUE] /\ UNCHANGED <<pgCat, pgRun>>
      /\ \/ pgBoot.pc = "initdb" /\ pgDisk' = [pgDisk EXCEPT !.cluster = "none"]
         \/ pgBoot.pc # "initdb" /\ pgDisk' = pgDisk
  BY DEF StepFails
<1>4. /\ pgDisk' \in DiskOf /\ pgBoot' \in BootOf
      /\ \/ pgDisk'.cluster = pgDisk.cluster
         \/ pgBoot.pc = "initdb" /\ pgDisk'.cluster = "none"
      /\ pgDisk'.sentinel = pgDisk.sentinel /\ pgDisk'.bundle = pgDisk.bundle /\ pgDisk'.hba = pgDisk.hba
      /\ pgDisk'.password = pgDisk.password /\ pgDisk'.secrets = pgDisk.secrets
      /\ pgBoot'.pc = "failed" /\ pgBoot'.faulted /\ pgBoot'.mode = "embedded"
  BY <1>1, <1>3 DEF BootTypes, BootOf, DiskOf, PgPlaces
<1>5. QuietStep
  BY <1>1, <1>2, <1>3, <1>4 DEF QuietStep
<1>6. BundleHeld' /\ SecretHeld' /\ VectorHeld' /\ MigrationHeld' /\ FailHeld'
  <2> HIDE <1>3
  <2>1. UNCHANGED <<pgCat, pgRun>>
    BY <1>3
  <2> QED
    BY <1>1, <1>2, <1>4, <2>1 DEF BundleHeld, SecretHeld, VectorHeld, MigrationHeld, FailHeld, FromMigrate, FromVector, FromHba,
       FromAlter, FromStart, FromInitdb, FromSecrets
<1> QED
  BY <1>5, <1>6, QuietKeeps

-----------------------------------------------------------------------------
(* The steps that begin or drop the boot's own run, and the roles. *)
LEMMA RunsAre ==
  ASSUME BootTypes, NEW r \in 1..MaxRuns, NEW mig \in RunOf, pgRun' = [pgRun EXCEPT ![r] = mig]
  PROVE  /\ pgRun' \in [1..MaxRuns -> RunOf] /\ pgRun'[r] = mig
         /\ \A q \in 1..MaxRuns : q # r => pgRun'[q] = pgRun[q]
BY DEF BootTypes

LEMMA FreshRun ==
  /\ NoRun \in RunOf /\ NoRun.pc = "none" /\ [NoRun EXCEPT !.pc = "journal"] \in RunOf
  /\ [NoRun EXCEPT !.pc = "journal"].pc = "journal" /\ 1 \in 1..MaxRuns
BY PgAssumption DEF NoRun, RunOf

LEMMA JournalKept ==
  ASSUME JournalHeld, UNCHANGED pgCat, NEW r \in 1..MaxRuns, pgRun'[r].pc \notin {"apply", "done"},
         \A q \in 1..MaxRuns : q # r => pgRun'[q] = pgRun[q]
  PROVE  JournalHeld'
BY DEF JournalHeld

LEMMA EnsureVectorKeeps ==
  ASSUME BootInv, EnsureVector
  PROVE  BootInv'
<1>1. /\ BundleHeld /\ SecretHeld /\ VectorHeld /\ MigrationHeld /\ FailHeld /\ JournalHeld /\ FenceHeld
      /\ BootTypes /\ pgBoot.mode = "embedded" /\ pgBoot.pc = "vector"
  BY DEF BootInv, ChainHeld, EnsureVector, AtStep
<1>2. CASE ~pgDisk.control
  <2>1. pgBoot' = [pgBoot EXCEPT !.pc = "copylib"] /\ UNCHANGED <<pgDisk, pgCat, pgSpent>>
    BY <1>2, StepsFollow DEF EnsureVector, GoesTo
  <2>2. pgRun' = pgRun
    BY <1>1, <1>2 DEF EnsureVector, BootTypes
  <2>3. QuietStep
    BY <1>1, <2>1, <2>2 DEF QuietStep, BootTypes, BootOf, PgPlaces
  <2>4. BundleHeld' /\ SecretHeld' /\ VectorHeld' /\ MigrationHeld' /\ FailHeld'
    BY <1>1, <2>1, <2>2 DEF BundleHeld, SecretHeld, VectorHeld, MigrationHeld, FailHeld, FromMigrate, FromVector, FromHba,
       FromAlter, FromStart, FromInitdb, FromSecrets, MayConnect, BootTypes, BootOf
  <2> QED
    BY <2>3, <2>4, QuietKeeps
<1>3. CASE pgDisk.control
  <2> DEFINE mig == [NoRun EXCEPT !.pc = "journal"]
  <2>1. pgBoot' = [pgBoot EXCEPT !.pc = "migrate"] /\ UNCHANGED <<pgDisk, pgCat, pgSpent>> /\ pgRun' = [pgRun EXCEPT ![1] = mig]
    BY <1>3 DEF EnsureVector, GoesTo
  <2>2. mig \in RunOf /\ mig.pc = "journal" /\ 1 \in 1..MaxRuns
    BY FreshRun
  <2> HIDE DEF mig
  <2>3. /\ pgRun' \in [1..MaxRuns -> RunOf] /\ pgRun'[1] = mig
        /\ \A q \in 1..MaxRuns : q # 1 => pgRun'[q] = pgRun[q]
    BY <1>1, <2>1, <2>2, RunsAre
  <2>4. JournalHeld'
    BY <1>1, <2>1, <2>2, <2>3, JournalKept
  <2>5. /\ pgBoot' \in BootOf /\ pgBoot'.pc = "migrate" /\ pgBoot'.mode = "embedded" /\ pgBoot'.up = pgBoot.up
        /\ pgBoot'.hba = pgBoot.hba /\ pgBoot'.key = pgBoot.key
    BY <1>1, <2>1 DEF BootTypes, BootOf, PgPlaces
  <2>6. BootTypes' /\ LoopHeld' /\ FenceHeld'
    BY <1>1, <2>1, <2>3, <2>5 DEF BootTypes, LoopHeld, FenceHeld, FenceOf
  <2>7. BundleHeld' /\ SecretHeld' /\ VectorHeld' /\ MigrationHeld' /\ FailHeld'
    <3>1. UNCHANGED <<pgDisk, pgCat, pgSpent>>
      BY <2>1
    <3> HIDE <2>1
    <3> QED
      BY <1>1, <1>3, <2>2, <2>3, <2>5, <3>1 DEF BundleHeld, SecretHeld, VectorHeld, MigrationHeld, FailHeld, FromMigrate, FromVector, FromHba,
         FromAlter, FromStart, FromInitdb, FromSecrets, MayConnect
  <2> QED
    BY <2>4, <2>6, <2>7 DEF BootInv, ChainHeld
<1> QED
  BY <1>2, <1>3

LEMMA CopyExtensionKeeps ==
  ASSUME BootInv, CopyExtension
  PROVE  BootInv'
<1>1. /\ BundleHeld /\ SecretHeld /\ VectorHeld /\ MigrationHeld /\ FailHeld /\ JournalHeld /\ FenceHeld
      /\ BootTypes /\ pgBoot.mode = "embedded" /\ pgBoot.pc = "copyext"
  BY DEF BootInv, ChainHeld, CopyExtension, AtStep
<1>2. /\ pgDisk' \in DiskOf /\ pgDisk'.sentinel = pgDisk.sentinel /\ pgDisk'.bundle = pgDisk.bundle
      /\ pgDisk'.lib = pgDisk.lib /\ pgDisk'.cluster = pgDisk.cluster /\ pgDisk'.hba = pgDisk.hba
      /\ pgDisk'.password = pgDisk.password /\ pgDisk'.secrets = pgDisk.secrets
  <2>1. CASE pgDisk' = [pgDisk EXCEPT !.control = TRUE]
    BY <1>1, <2>1 DEF BootTypes, DiskOf
  <2>2. CASE pgDisk' = [pgDisk EXCEPT !.sql = TRUE]
    BY <1>1, <2>2 DEF BootTypes, DiskOf
  <2> QED
    BY <2>1, <2>2 DEF CopyExtension
<1>3. UNCHANGED <<pgCat, pgSpent>>
  BY DEF CopyExtension
<1>4. CASE ~(pgDisk'.control /\ pgDisk'.sql)
  <2>1. pgBoot' = pgBoot /\ pgRun' = pgRun
    BY <1>4 DEF CopyExtension
  <2>2. QuietStep
    BY <1>1, <1>2, <1>3, <2>1 DEF QuietStep, BootTypes
  <2>3. BundleHeld' /\ SecretHeld' /\ VectorHeld' /\ MigrationHeld' /\ FailHeld'
    BY <1>1, <1>2, <1>3, <2>1 DEF BundleHeld, SecretHeld, VectorHeld, MigrationHeld, FailHeld, FromMigrate, FromVector, FromHba,
       FromAlter, FromStart, FromInitdb, FromSecrets, MayConnect
  <2> QED
    BY <2>2, <2>3, QuietKeeps
<1>5. CASE pgDisk'.control /\ pgDisk'.sql
  <2> DEFINE mig == [NoRun EXCEPT !.pc = "journal"]
  <2>1. pgBoot' = [pgBoot EXCEPT !.pc = "migrate"] /\ pgRun' = [pgRun EXCEPT ![1] = mig]
    BY <1>5, StepsFollow DEF CopyExtension, GoesTo
  <2>2. mig \in RunOf /\ mig.pc = "journal" /\ 1 \in 1..MaxRuns
    BY FreshRun
  <2> HIDE DEF mig
  <2>3. /\ pgRun' \in [1..MaxRuns -> RunOf] /\ pgRun'[1] = mig
        /\ \A q \in 1..MaxRuns : q # 1 => pgRun'[q] = pgRun[q]
    BY <1>1, <2>1, <2>2, RunsAre
  <2>4. JournalHeld'
    BY <1>1, <1>3, <2>2, <2>3, JournalKept
  <2>5. /\ pgBoot' \in BootOf /\ pgBoot'.pc = "migrate" /\ pgBoot'.mode = "embedded" /\ pgBoot'.up = pgBoot.up
        /\ pgBoot'.hba = pgBoot.hba /\ pgBoot'.key = pgBoot.key
    BY <1>1, <2>1 DEF BootTypes, BootOf, PgPlaces
  <2>6. BootTypes' /\ LoopHeld' /\ FenceHeld'
    BY <1>1, <1>2, <1>3, <2>3, <2>5 DEF BootTypes, LoopHeld, FenceHeld, FenceOf
  <2>7. BundleHeld' /\ SecretHeld' /\ VectorHeld' /\ MigrationHeld' /\ FailHeld'
    BY <1>1, <1>2, <1>3, <1>5, <2>2, <2>3, <2>5 DEF BundleHeld, SecretHeld, VectorHeld, MigrationHeld, FailHeld, FromMigrate, FromVector,
       FromHba, FromAlter, FromStart, FromInitdb, FromSecrets, MayConnect
  <2> QED
    BY <2>4, <2>6, <2>7 DEF BootInv, ChainHeld
<1> QED
  BY <1>4, <1>5

LEMMA ProcessEndsKeeps ==
  ASSUME BootInv, NEW crash \in BOOLEAN, ProcessEnds(crash)
  PROVE  BootInv'
<1>1. /\ BundleHeld /\ SecretHeld /\ VectorHeld /\ MigrationHeld /\ FailHeld /\ JournalHeld /\ FenceHeld
      /\ BootTypes /\ pgBoot.mode = "embedded"
  BY DEF BootInv, ChainHeld, ProcessEnds
<1>2. pgSpent' \in SpentOf /\ pgSpent'.boots = pgSpent.boots
  <2>1. CASE crash
    BY <1>1, <2>1, FaultsAre DEF ProcessEnds
  <2>2. CASE ~crash
    BY <1>1, <2>2 DEF ProcessEnds, BootTypes
  <2> QED
    BY <2>1, <2>2
<1>3. /\ pgBoot' = [pgBoot EXCEPT !.pc = "off", !.up = FALSE] /\ UNCHANGED <<pgDisk, pgCat>>
      /\ pgRun' = [pgRun EXCEPT ![1] = NoRun]
  BY DEF ProcessEnds
<1>4. /\ pgRun' \in [1..MaxRuns -> RunOf] /\ pgRun'[1] = NoRun
      /\ \A q \in 1..MaxRuns : q # 1 => pgRun'[q] = pgRun[q]
  BY <1>1, <1>3, FreshRun, RunsAre
<1>5. JournalHeld'
  BY <1>1, <1>3, <1>4, FreshRun, JournalKept
<1>6. pgBoot' \in BootOf /\ pgBoot'.pc = "off" /\ pgBoot'.mode = "embedded"
  BY <1>1, <1>3 DEF BootTypes, BootOf, PgPlaces
<1>7. BootTypes' /\ LoopHeld' /\ FenceHeld'
  BY <1>1, <1>2, <1>3, <1>4, <1>6 DEF BootTypes, LoopHeld, FenceHeld, FenceOf
<1>8. BundleHeld' /\ SecretHeld' /\ VectorHeld' /\ MigrationHeld' /\ FailHeld'
  <2>1. UNCHANGED <<pgDisk, pgCat>>
    BY <1>3
  <2> HIDE <1>3
  <2> QED
    BY <1>1, <1>4, <1>6, <2>1, FreshRun DEF BundleHeld, SecretHeld, VectorHeld, MigrationHeld, FailHeld, FromMigrate, FromVector, FromHba,
       FromAlter, FromStart, FromInitdb, FromSecrets
<1> QED
  BY <1>5, <1>7, <1>8 DEF BootInv, ChainHeld

LEMMA GrantRolesKeeps ==
  ASSUME BootInv, GrantRoles
  PROVE  BootInv'
<1>1. /\ BundleHeld /\ SecretHeld /\ VectorHeld /\ MigrationHeld /\ FailHeld /\ JournalHeld /\ FenceHeld
      /\ BootTypes /\ pgBoot.mode = "embedded" /\ pgBoot.pc = "grant"
  BY DEF BootInv, ChainHeld, GrantRoles, AtStep
<1>2. MayConnect
  BY <1>1 DEF SecretHeld, MayConnect, FromAlter, FromHba, FromVector, FromMigrate
<1> DEFINE priv == AppRoles(pgCat.priv, pgCat.tables)
           defaults == pgCat.defaults \cup {"app_rw"}
<1>3. /\ pgCat' = [pgCat EXCEPT !.defaults = defaults, !.priv = priv]
      /\ pgBoot' = [pgBoot EXCEPT !.pc = "publish"] /\ UNCHANGED <<pgDisk, pgRun, pgSpent>>
  BY <1>2, StepsFollow DEF GrantRoles, GoesTo
<1>4. pgCat \in CatOf /\ pgCat.priv \in Priv /\ pgCat.tables \in SUBSET AllTables /\ FenceOf(pgCat.priv)
  BY <1>1 DEF BootTypes, CatOf, FenceHeld
<1>5. priv \in Priv /\ FenceOf(priv) /\ GrantsOf(priv)
  BY <1>4, AppRolesAre
<1>6. defaults \in SUBSET {"readonly", "app_rw"}
  BY <1>4 DEF CatOf
<1> HIDE DEF priv, defaults
<1>7. /\ pgCat' \in CatOf /\ pgCat'.priv = priv /\ pgCat'.journal = pgCat.journal /\ pgCat'.tables = pgCat.tables
      /\ pgCat'.times = pgCat.times
  BY <1>3, <1>4, <1>5, <1>6 DEF CatOf
<1>8. /\ pgBoot' \in BootOf /\ pgBoot'.pc = "publish" /\ pgBoot'.mode = "embedded" /\ pgBoot'.up = pgBoot.up
      /\ pgBoot'.hba = pgBoot.hba /\ pgBoot'.key = pgBoot.key
  BY <1>1, <1>3 DEF BootTypes, BootOf, PgPlaces
<1>9. UNCHANGED <<pgDisk, pgRun, pgSpent>>
  BY <1>3
<1>10. BootTypes' /\ LoopHeld' /\ FenceHeld'
  BY <1>1, <1>5, <1>7, <1>8, <1>9 DEF BootTypes, LoopHeld, FenceHeld
<1>11. JournalHeld'
  BY <1>1, <1>7, <1>9 DEF JournalHeld
<1>12. BundleHeld' /\ SecretHeld' /\ VectorHeld' /\ MigrationHeld' /\ FailHeld'
  <2> HIDE <1>3
  <2> QED
    BY <1>1, <1>7, <1>8, <1>9 DEF BundleHeld, SecretHeld, VectorHeld, MigrationHeld, FailHeld, FromMigrate, FromVector,
       FromHba, FromAlter, FromStart, FromInitdb, FromSecrets, MayConnect
<1> QED
  BY <1>10, <1>11, <1>12 DEF BootInv, ChainHeld

-----------------------------------------------------------------------------
(* The migrations. *)
LEMMA RunTaken ==
  ASSUME BootInv, NEW r \in 1..MaxRuns, pgRun[r].pc # "none", pgBoot.mode = "embedded"
  PROVE  r = 1 /\ (pgRun[r].pc \in {"journal", "apply"} => pgBoot.pc = "migrate")
BY FieldsAre DEF BootInv, ChainHeld, MigrationHeld, FromMigrate

LEMMA ReadJournalKeeps ==
  ASSUME BootInv, NEW r \in 1..MaxRuns, ReadJournal(r)
  PROVE  BootInv'
<1>1. BootTypes /\ JournalHeld /\ FenceHeld /\ LoopHeld /\ pgRun[r].pc = "journal"
  BY DEF BootInv, ReadJournal
<1> DEFINE tables == pgCat.tables \cup {"journal"}
           tab == IF "journal" \in pgCat.tables THEN pgCat.priv.tab
                  ELSE pgCat.priv.tab \cup ByDefault(pgCat.defaults, {"journal"})
           priv == [pgCat.priv EXCEPT !.tab = tab]
           mig == [pc |-> "apply", todo |-> DOMAIN Creates \ pgCat.journal]
<1>2. /\ pgCat' = [pgCat EXCEPT !.tables = tables, !.priv = priv] /\ pgRun' = [pgRun EXCEPT ![r] = mig]
      /\ UNCHANGED <<pgDisk, pgBoot, pgSpent>>
  BY DEF ReadJournal
<1>3. pgCat \in CatOf /\ pgCat.priv \in Priv /\ tables \in SUBSET AllTables /\ FenceOf(pgCat.priv)
  BY <1>1 DEF BootTypes, CatOf, FenceHeld, AllTables
<1>4. tab \subseteq TabOf /\ \A q, t, p : <<q, t, p>> \in tab => <<q, t, p>> \in pgCat.priv.tab \/ t = "journal"
  <2>1. {"journal"} \in SUBSET AllTables /\ pgCat.priv.tab \subseteq TabOf
    BY <1>3, PrivIs DEF AllTables
  <2>2. /\ ByDefault(pgCat.defaults, {"journal"}) \subseteq TabOf
        /\ \A q, t, p : <<q, t, p>> \in ByDefault(pgCat.defaults, {"journal"}) => t = "journal"
    BY <2>1, DefaultsAre
  <2> QED
    BY <2>1, <2>2
<1> HIDE DEF tab
<1>5. priv \in Priv /\ priv.tab = tab /\ priv.col = pgCat.priv.col
  BY <1>3, <1>4, PrivIs
<1>6. FenceOf(priv)
  <2>1. "journal" \notin ConsoleTables /\ "journal" \notin FencedTables
    BY TablesAre DEF FencedTables
  <2> HIDE DEF priv
  <2> QED
    BY <1>3, <1>4, <1>5, <2>1 DEF FenceOf
<1>7. mig \in RunOf /\ mig.pc = "apply" /\ mig.todo = DOMAIN Creates \ pgCat.journal
  BY DEF RunOf
<1> HIDE DEF priv, mig
<1>8. /\ pgCat' \in CatOf /\ pgCat'.priv = priv /\ pgCat'.journal = pgCat.journal /\ pgCat'.tables = tables
      /\ pgCat'.times = pgCat.times
  BY <1>2, <1>3, <1>5 DEF CatOf
<1>9. /\ pgRun' \in [1..MaxRuns -> RunOf] /\ pgRun'[r] = mig
      /\ \A q \in 1..MaxRuns : q # r => pgRun'[q] = pgRun[q]
  BY <1>1, <1>2, <1>7, RunsAre
<1>10. UNCHANGED <<pgDisk, pgBoot, pgSpent>>
  BY <1>2
<1> HIDE <1>2
<1>11. BootTypes' /\ LoopHeld'
  BY <1>1, <1>8, <1>9, <1>10 DEF BootTypes, LoopHeld
<1>12. pgBoot.mode = "embedded" => r = 1 /\ pgBoot.pc = "migrate"
  BY <1>1, RunTaken
<1>13. FenceHeld'
  BY <1>1, <1>6, <1>8, <1>10, <1>12 DEF FenceHeld
<1>14. JournalHeld'
  <2>1. tables \cap ConsoleTables = pgCat.tables \cap ConsoleTables
    BY TablesAre
  <2> HIDE DEF tables
  <2> QED
    BY <1>1, <1>7, <1>8, <1>9, <2>1 DEF JournalHeld
<1>15. ASSUME pgBoot.mode = "embedded"
       PROVE  BundleHeld' /\ SecretHeld' /\ VectorHeld' /\ MigrationHeld' /\ FailHeld'
  <2>1. BundleHeld /\ SecretHeld /\ VectorHeld /\ MigrationHeld /\ FailHeld
    BY <1>15 DEF BootInv, ChainHeld
  <2> QED
    BY <1>7, <1>8, <1>9, <1>10, <1>12, <1>15, <2>1 DEF BundleHeld, SecretHeld, VectorHeld, MigrationHeld, FailHeld, MayConnect, Torn
<1> QED
  BY <1>10, <1>11, <1>13, <1>14, <1>15 DEF BootInv, ChainHeld

LEMMA RunMoved ==
  ASSUME BootTypes, NEW r \in 1..MaxRuns, NEW pc \in {"none", "journal", "apply", "done", "failed"},
         pgRun' = [pgRun EXCEPT ![r].pc = pc]
  PROVE  /\ pgRun' \in [1..MaxRuns -> RunOf] /\ pgRun'[r].pc = pc /\ pgRun'[r].todo = pgRun[r].todo
         /\ \A q \in 1..MaxRuns : q # r => pgRun'[q] = pgRun[q]
<1> DEFINE mig == [pgRun[r] EXCEPT !.pc = pc]
<1>1. pgRun[r] \in RunOf
  BY DEF BootTypes
<1>2. mig \in RunOf /\ mig.pc = pc /\ mig.todo = pgRun[r].todo
  BY <1>1 DEF RunOf
<1>3. pgRun' = [pgRun EXCEPT ![r] = mig]
  OBVIOUS
<1> HIDE DEF mig
<1> QED
  BY <1>2, <1>3, RunsAre

LEMMA RunFailed ==
  ASSUME BootInv, NEW r \in 1..MaxRuns, pgRun[r].pc \in {"journal", "apply"},
         pgRun' = [pgRun EXCEPT ![r].pc = "failed"], UNCHANGED <<pgDisk, pgCat>>,
         pgBoot' \in BootOf, pgBoot'.pc = pgBoot.pc, pgBoot'.mode = pgBoot.mode, pgBoot'.key = pgBoot.key,
         pgBoot'.up = pgBoot.up, pgBoot'.hba = pgBoot.hba, pgBoot.faulted => pgBoot'.faulted,
         pgSpent' \in SpentOf, pgSpent'.boots = pgSpent.boots, pgSpent'.runs = pgSpent.runs,
         pgBoot.mode = "embedded" => pgBoot'.faulted \/ Torn
  PROVE  BootInv'
<1>1. BootTypes /\ JournalHeld /\ FenceHeld /\ LoopHeld
  BY DEF BootInv
<1>2. /\ pgRun' \in [1..MaxRuns -> RunOf] /\ pgRun'[r].pc = "failed"
      /\ \A q \in 1..MaxRuns : q # r => pgRun'[q] = pgRun[q]
  BY <1>1, RunMoved
<1>3. JournalHeld'
  BY <1>1, <1>2, JournalKept
<1>4. BootTypes' /\ LoopHeld' /\ FenceHeld'
  BY <1>1, <1>2 DEF BootTypes, LoopHeld, FenceHeld
<1>5. pgBoot.mode = "embedded" => r = 1 /\ pgBoot.pc = "migrate"
  BY <1>1, RunTaken
<1>6. ASSUME pgBoot.mode = "embedded"
      PROVE  BundleHeld' /\ SecretHeld' /\ VectorHeld' /\ MigrationHeld' /\ FailHeld'
  <2>1. BundleHeld /\ SecretHeld /\ VectorHeld /\ MigrationHeld /\ FailHeld
    BY <1>6 DEF BootInv, ChainHeld
  <2>2. BundleHeld' /\ SecretHeld' /\ VectorHeld'
    BY <1>5, <1>6, <2>1 DEF BundleHeld, SecretHeld, VectorHeld, MayConnect
  <2>3. MigrationHeld' /\ FailHeld'
    BY <1>2, <1>5, <1>6, <2>1 DEF MigrationHeld, FailHeld, Torn, FromMigrate
  <2> QED
    BY <2>2, <2>3
<1> QED
  BY <1>3, <1>4, <1>6 DEF BootInv, ChainHeld

LEMMA RunFailsKeeps ==
  ASSUME BootInv, NEW r \in 1..MaxRuns, RunFails(r)
  PROVE  BootInv'
<1>1. BootTypes
  BY DEF BootInv
<1>2. pgSpent' \in SpentOf /\ pgSpent'.boots = pgSpent.boots /\ pgSpent'.runs = pgSpent.runs
  BY <1>1, FaultsAre DEF RunFails
<1>3. /\ pgRun' = [pgRun EXCEPT ![r].pc = "failed"] /\ UNCHANGED <<pgDisk, pgCat>>
      /\ pgBoot' = [pgBoot EXCEPT !.faulted = TRUE] /\ pgRun[r].pc \in {"journal", "apply"}
  BY DEF RunFails
<1>4. /\ pgBoot' \in BootOf /\ pgBoot'.pc = pgBoot.pc /\ pgBoot'.mode = pgBoot.mode /\ pgBoot'.key = pgBoot.key
      /\ pgBoot'.up = pgBoot.up /\ pgBoot'.hba = pgBoot.hba /\ pgBoot'.faulted
  BY <1>1, <1>3 DEF BootTypes, BootOf
<1> QED
  BY <1>2, <1>3, <1>4, RunFailed

LEMMA RunEndsKeeps ==
  ASSUME BootInv, NEW r \in 1..MaxRuns, RunEnds(r)
  PROVE  BootInv'
<1>1. BootTypes /\ JournalHeld /\ FenceHeld /\ LoopHeld /\ pgRun[r].pc = "apply" /\ pgRun[r].todo = {}
  BY DEF BootInv, RunEnds
<1>2. /\ pgRun' = [pgRun EXCEPT ![r].pc = "done"] /\ UNCHANGED <<pgCat, pgBoot, pgSpent>>
  BY DEF RunEnds
<1>3. /\ pgRun' \in [1..MaxRuns -> RunOf] /\ pgRun'[r].pc = "done" /\ pgRun'[r].todo = pgRun[r].todo
      /\ \A q \in 1..MaxRuns : q # r => pgRun'[q] = pgRun[q]
  BY <1>1, <1>2, RunMoved
<1>4. pgDisk' \in DiskOf /\ (pgBoot.mode = "embedded" => pgDisk' = pgDisk)
  <2>1. CASE pgBoot.mode = "external"
    <3>1. pgDisk' = [pgDisk EXCEPT !.pgjson = "external"]
      BY <2>1 DEF RunEnds
    <3> QED
      BY <1>1, <2>1, <3>1 DEF BootTypes, DiskOf
  <2>2. CASE pgBoot.mode # "external"
    BY <1>1, <2>2 DEF RunEnds, BootTypes
  <2> QED
    BY <2>1, <2>2
<1>5. UNCHANGED <<pgCat, pgBoot, pgSpent>>
  BY <1>2
<1> HIDE <1>2
<1>6. BootTypes' /\ LoopHeld' /\ FenceHeld'
  BY <1>1, <1>3, <1>4, <1>5 DEF BootTypes, LoopHeld, FenceHeld
<1>7. JournalHeld'
  BY <1>1, <1>3, <1>5 DEF JournalHeld
<1>8. pgBoot.mode = "embedded" => r = 1 /\ pgBoot.pc = "migrate"
  BY <1>1, RunTaken
<1>9. ASSUME pgBoot.mode = "embedded"
      PROVE  BundleHeld' /\ SecretHeld' /\ VectorHeld' /\ MigrationHeld' /\ FailHeld'
  <2>1. BundleHeld /\ SecretHeld /\ VectorHeld /\ MigrationHeld /\ FailHeld
    BY <1>9 DEF BootInv, ChainHeld
  <2>2. BundleHeld' /\ SecretHeld' /\ VectorHeld'
    BY <1>4, <1>5, <1>8, <1>9, <2>1 DEF BundleHeld, SecretHeld, VectorHeld, MayConnect
  <2>3. MigrationHeld' /\ FailHeld'
    BY <1>3, <1>4, <1>5, <1>8, <1>9, <2>1 DEF MigrationHeld, FailHeld, Torn, FromMigrate
  <2> QED
    BY <2>2, <2>3
<1> QED
  BY <1>5, <1>6, <1>7, <1>9 DEF BootInv, ChainHeld

LEMMA ApplyNextKeeps ==
  ASSUME BootInv, NEW r \in 1..MaxRuns, ApplyNext(r)
  PROVE  BootInv'
<1> DEFINE m == First(pgRun[r].todo)
           mig == [pgRun[r] EXCEPT !.todo = pgRun[r].todo \ {m}]
<1>1. /\ BootTypes /\ JournalHeld /\ FenceHeld /\ LoopHeld /\ pgRun[r].pc = "apply" /\ pgRun[r].todo # {}
      /\ pgRun[r] \in RunOf /\ pgCat \in CatOf /\ UNCHANGED <<pgDisk, pgBoot, pgSpent>>
  BY DEF BootInv, ApplyNext, BootTypes
<1>2. /\ m \in pgRun[r].todo /\ m \in DOMAIN Creates /\ DOMAIN Creates \ pgRun[r].todo \subseteq pgCat.journal
      /\ \A n \in pgRun[r].todo : Manifest[m] <= Manifest[n]
  BY <1>1, FirstIs DEF RunOf, JournalHeld
<1>3. pgBoot.mode = "embedded" => /\ r = 1 /\ pgBoot.pc = "migrate" /\ pgRun[r].todo \cap pgCat.journal = {}
                                  /\ pgDisk.control
  BY <1>1, RunTaken DEF BootInv, ChainHeld, MigrationHeld, VectorHeld, FromMigrate
<1>4. ExtensionAvailable
  BY <1>1, <1>3 DEF ExtensionAvailable, BootTypes, BootOf
<1>5. mig \in RunOf /\ mig.pc = "apply" /\ mig.todo = pgRun[r].todo \ {m}
  BY <1>1 DEF RunOf
<1>6. \/ m \notin pgCat.journal /\ pgRun' = [pgRun EXCEPT ![r] = mig] /\ pgCat' = Applied(pgCat, m)
      \/ /\ m \in pgCat.journal \/ ~ExtensionCreatable
         /\ pgRun' = [pgRun EXCEPT ![r].pc = "failed"] /\ UNCHANGED pgCat
  BY <1>4 DEF ApplyNext, AlreadyJournaled
<1> HIDE DEF m, mig
<1>7. CASE m \notin pgCat.journal /\ pgRun' = [pgRun EXCEPT ![r] = mig] /\ pgCat' = Applied(pgCat, m)
  <2>1. m = "base" => pgCat.tables \cap ConsoleTables = {}
    BY <1>1, <1>7 DEF JournalHeld
  <2>2. FenceOf(pgCat.priv)
    BY <1>1 DEF FenceHeld
  <2>3. AppliedTo(pgCat, pgCat', m)
    BY <1>1, <1>2, <1>7, <2>1, <2>2, AppliedIs
  <2>4. /\ pgRun' \in [1..MaxRuns -> RunOf] /\ pgRun'[r] = mig
        /\ \A q \in 1..MaxRuns : q # r => pgRun'[q] = pgRun[q]
    BY <1>1, <1>5, <1>7, RunsAre
  <2>5. m = "console" => "base" \in pgCat.journal
    <3> SUFFICES ASSUME m = "console", "base" \notin pgCat.journal PROVE FALSE
      OBVIOUS
    <3>1. "base" \in pgRun[r].todo
      BY <1>2, TablesAre
    <3>2. Manifest["console"] <= Manifest["base"]
      BY <1>2, <3>1
    <3> QED
      BY <3>2 DEF Manifest
  <2>6. JournalHeld'
    <3>1. \A q \in 1..MaxRuns :
            /\ pgRun'[q].pc \in {"apply", "done"} => DOMAIN Creates \ pgRun'[q].todo \subseteq pgCat'.journal
            /\ pgRun'[q].pc = "done" => pgRun'[q].todo = {}
      BY <1>1, <1>2, <1>5, <2>3, <2>4 DEF JournalHeld, AppliedTo
    <3>2. \A n \in DOMAIN Creates : pgCat'.times[n] = IF n \in pgCat'.journal THEN 1 ELSE 0
      BY <1>1, <1>2, <1>7, <2>3 DEF JournalHeld, AppliedTo
    <3>3. "console" \in pgCat'.journal => "base" \in pgCat'.journal
      BY <1>1, <2>3, <2>5 DEF JournalHeld, AppliedTo
    <3>4. pgCat'.tables \cap ConsoleTables # {} => "console" \in pgCat'.journal
      <4>1. m # "console" => Creates[m] \cap ConsoleTables = {}
        BY <1>2, TablesAre
      <4> QED
        BY <1>1, <2>3, <4>1 DEF JournalHeld, AppliedTo
    <3> QED
      BY <3>1, <3>2, <3>3, <3>4 DEF JournalHeld
  <2>7. BootTypes'
    BY <1>1, <2>3, <2>4 DEF BootTypes, AppliedTo
  <2>8. LoopHeld' /\ FenceHeld'
    BY <1>1, <1>2, <1>3, <2>3 DEF LoopHeld, FenceHeld, AppliedTo
  <2>9. ASSUME pgBoot.mode = "embedded"
        PROVE  BundleHeld' /\ SecretHeld' /\ VectorHeld' /\ MigrationHeld' /\ FailHeld'
    <3>1. BundleHeld /\ SecretHeld /\ VectorHeld /\ MigrationHeld /\ FailHeld
      BY <2>9 DEF BootInv, ChainHeld
    <3>2. mig.todo \cap pgCat'.journal = {}
      BY <1>3, <1>5, <2>3, <2>9 DEF AppliedTo
    <3>3. BundleHeld' /\ SecretHeld' /\ VectorHeld'
      BY <1>1, <1>3, <3>1 DEF BundleHeld, SecretHeld, VectorHeld, MayConnect
    <3>4. MigrationHeld' /\ FailHeld'
      BY <1>1, <1>3, <1>5, <2>4, <2>9, <3>1, <3>2 DEF MigrationHeld, FailHeld, Torn, FromMigrate
    <3> QED
      BY <3>3, <3>4
  <2> QED
    BY <1>1, <2>6, <2>7, <2>8, <2>9 DEF BootInv, ChainHeld
<1>8. CASE /\ m \in pgCat.journal \/ ~ExtensionCreatable
           /\ pgRun' = [pgRun EXCEPT ![r].pc = "failed"] /\ UNCHANGED pgCat
  <2>1. pgBoot.mode = "embedded" => Torn
    BY <1>2, <1>3, <1>8 DEF ExtensionCreatable, Torn
  <2>2. pgBoot \in BootOf /\ pgSpent \in SpentOf
    BY <1>1 DEF BootTypes
  <2> QED
    BY <1>1, <1>8, <2>1, <2>2, RunFailed
<1> QED
  BY <1>6, <1>7, <1>8

-----------------------------------------------------------------------------
(* The external provider's loop. *)
LEMMA LoopKeeps ==
  ASSUME BootInv, pgBoot.mode = "external", UNCHANGED <<pgDisk, pgCat>>, JournalHeld',
         NEW pc \in {"off", "probe", "racing", "retrying", "ready"}, pgBoot' = [pgBoot EXCEPT !.pc = pc],
         pgRun' \in [1..MaxRuns -> RunOf], pgSpent' \in SpentOf, pgSpent'.runs <= MaxRuns,
         pc \in {"probe", "racing"} => pgSpent'.runs # 0,
         pc = "ready" => pgCat.journal = DOMAIN Creates
  PROVE  BootInv'
<1>1. BootTypes /\ FenceHeld
  BY DEF BootInv
<1>2. pgBoot' \in BootOf /\ pgBoot'.pc = pc /\ pgBoot'.mode = "external"
  BY <1>1 DEF BootTypes, BootOf, PgPlaces
<1>3. BootTypes' /\ LoopHeld' /\ FenceHeld'
  BY <1>1, <1>2 DEF BootTypes, LoopHeld, FenceHeld
<1>4. ChainHeld'
  BY <1>2 DEF ChainHeld
<1> QED
  BY <1>3, <1>4 DEF BootInv

LEMMA AttemptKeeps ==
  ASSUME BootInv, Attempt
  PROVE  BootInv'
<1>1. BootTypes /\ JournalHeld /\ pgBoot.mode = "external" /\ pgSpent.runs < MaxRuns
  BY DEF BootInv, Attempt, AtExternal
<1>2. /\ pgBoot' = [pgBoot EXCEPT !.pc = "probe"] /\ UNCHANGED <<pgDisk, pgCat, pgRun>>
      /\ pgSpent' = [pgSpent EXCEPT !.runs = pgSpent.runs + 1]
  BY DEF Attempt, GoesTo
<1>3. pgSpent' \in SpentOf /\ pgSpent'.runs # 0 /\ pgSpent'.runs <= MaxRuns
  <2> DEFINE n == pgSpent.runs + 1
  <2>1. n \in Nat /\ n # 0 /\ n <= MaxRuns
    BY <1>1, FieldsAre, PgAssumption
  <2> HIDE DEF n
  <2>2. pgSpent' = [pgSpent EXCEPT !.runs = n]
    BY <1>2 DEF n
  <2> QED
    BY <1>1, <2>1, <2>2 DEF BootTypes, SpentOf
<1>4. JournalHeld' /\ pgRun' \in [1..MaxRuns -> RunOf] /\ UNCHANGED <<pgDisk, pgCat>>
  BY <1>1, <1>2 DEF JournalHeld, BootTypes
<1>5. pgBoot' = [pgBoot EXCEPT !.pc = "probe"]
  BY <1>2
<1> HIDE <1>2
<1> QED
  BY <1>1, <1>3, <1>4, <1>5, LoopKeeps

LEMMA ProbeAnswersKeeps ==
  ASSUME BootInv, ProbeAnswers
  PROVE  BootInv'
<1> DEFINE mig == [NoRun EXCEPT !.pc = "journal"]
           r == pgSpent.runs
<1>1. BootTypes /\ JournalHeld /\ pgBoot.mode = "external" /\ r \in 1..MaxRuns /\ pgSpent \in SpentOf
  BY FieldsAre, PgAssumption DEF BootInv, ProbeAnswers, AtExternal, LoopHeld, BootTypes
<1>2. /\ pgBoot' = [pgBoot EXCEPT !.pc = "racing"] /\ UNCHANGED <<pgDisk, pgCat, pgSpent>>
      /\ pgRun' = [pgRun EXCEPT ![r] = mig]
  BY DEF ProbeAnswers, GoesTo
<1>3. mig \in RunOf /\ mig.pc = "journal"
  BY FreshRun
<1> HIDE DEF mig
<1>4. /\ pgRun' \in [1..MaxRuns -> RunOf] /\ pgRun'[r] = mig
      /\ \A q \in 1..MaxRuns : q # r => pgRun'[q] = pgRun[q]
  BY <1>1, <1>2, <1>3, RunsAre
<1>5. JournalHeld'
  BY <1>1, <1>2, <1>3, <1>4, JournalKept
<1>6. pgSpent' \in SpentOf /\ pgSpent'.runs # 0 /\ pgSpent'.runs <= MaxRuns
  BY <1>1, <1>2
<1> QED
  BY <1>1, <1>2, <1>4, <1>5, <1>6, LoopKeeps

LEMMA LoopStepsKeep ==
  ASSUME BootInv, ProbeFails \/ RaceSettles \/ DeadlinePasses
  PROVE  BootInv'
<1>1. /\ BootTypes /\ JournalHeld /\ pgBoot.mode = "external" /\ pgSpent.runs \in 1..MaxRuns /\ pgSpent \in SpentOf
      /\ UNCHANGED <<pgDisk, pgCat, pgRun>>
  BY FieldsAre, PgAssumption DEF BootInv, ProbeFails, RaceSettles, DeadlinePasses, AtExternal, LoopHeld, BootTypes
<1>2. JournalHeld' /\ pgRun' \in [1..MaxRuns -> RunOf]
  BY <1>1 DEF JournalHeld, BootTypes
<1>3. CASE RaceSettles
  <2>1. pgRun[pgSpent.runs].pc = "done" => pgCat.journal = DOMAIN Creates
    BY <1>1 DEF JournalHeld, BootTypes, CatOf
  <2>2. PICK pc \in {"ready", "retrying"} : pc = "ready" <=> pgRun[pgSpent.runs].pc = "done"
    OBVIOUS
  <2>3. pgBoot' = [pgBoot EXCEPT !.pc = pc] /\ UNCHANGED pgSpent
    BY <1>3, <2>2 DEF RaceSettles, GoesTo
  <2>4. pgSpent' \in SpentOf /\ pgSpent'.runs <= MaxRuns
    BY <1>1, <2>3
  <2> QED
    BY <1>1, <1>2, <2>1, <2>2, <2>3, <2>4, LoopKeeps
<1>4. CASE ProbeFails \/ DeadlinePasses
  <2>1. pgBoot' = [pgBoot EXCEPT !.pc = "retrying"]
    BY <1>4 DEF ProbeFails, DeadlinePasses, GoesTo
  <2>2. pgSpent' \in SpentOf /\ pgSpent'.runs = pgSpent.runs
    BY <1>1, <1>4, FaultsAre DEF ProbeFails, DeadlinePasses
  <2>3. pgSpent'.runs <= MaxRuns
    BY <1>1, <2>2
  <2> QED
    BY <1>1, <1>2, <2>1, <2>2, <2>3, LoopKeeps
<1> QED
  BY <1>3, <1>4

-----------------------------------------------------------------------------
(* What the first boot may find. *)
FoundCatalog(cat) ==
  /\ cat \in CatOf /\ FenceOf(cat.priv) /\ cat.tables \cap ConsoleTables = {}
  /\ \A m \in DOMAIN Creates : cat.times[m] = IF m \in cat.journal THEN 1 ELSE 0
  /\ "console" \notin cat.journal

LEMMA FoundApplied ==
  ASSUME NEW cat, FoundCatalog(cat), NEW m \in {"base", "vectors"}, m \notin cat.journal
  PROVE  FoundCatalog(Applied(cat, m))
<1>1. m \in DOMAIN Creates /\ Creates[m] \cap ConsoleTables = {}
  BY TablesAre
<1>2. AppliedTo(cat, Applied(cat, m), m)
  BY <1>1, AppliedIs DEF FoundCatalog
<1> QED
  BY <1>1, <1>2 DEF FoundCatalog, AppliedTo, CatOf

LEMMA FoundIs == FoundCatalog(EmptyCatalog) /\ FoundCatalog(LegacyCatalog) /\ FoundCatalog(PriorCatalog)
<1> DEFINE times == [m \in DOMAIN Creates |-> 0]
           tracked == [EmptyCatalog EXCEPT !.tables = {"journal"}]
           cat == Applied(LegacyCatalog, "vectors")
<1>1. /\ times \in [DOMAIN Creates -> Nat] /\ (\A m \in DOMAIN Creates : times[m] = 0)
      /\ EmptyCatalog = [journal |-> {}, tables |-> {}, times |-> times, defaults |-> {}, priv |-> NoPriv]
  BY DEF EmptyCatalog
<1> HIDE DEF times
<1>2. NoPriv \in Priv /\ NoPriv.tab = {} /\ NoPriv.col = {}
  BY PrivIs DEF NoPriv
<1>3. FenceOf(NoPriv)
  BY <1>2 DEF FenceOf
<1>4. FoundCatalog(EmptyCatalog)
  BY <1>1, <1>2, <1>3 DEF FoundCatalog, CatOf
<1>5. /\ tracked.journal = {} /\ tracked.tables = {"journal"} /\ tracked.times = times /\ tracked.priv = NoPriv
      /\ tracked \in CatOf
  BY <1>1, <1>2 DEF CatOf, AllTables
<1> HIDE DEF tracked
<1>6. FoundCatalog(tracked)
  BY <1>1, <1>3, <1>5, TablesAre DEF FoundCatalog
<1>7. FoundCatalog(LegacyCatalog) /\ LegacyCatalog.journal = {"base"}
  <2>1. LegacyCatalog = Applied(tracked, "base")
    BY DEF LegacyCatalog, tracked
  <2>2. AppliedTo(tracked, Applied(tracked, "base"), "base")
    BY <1>6, AppliedIs, TablesAre DEF FoundCatalog
  <2> QED
    BY <1>5, <1>6, <2>1, <2>2, FoundApplied DEF AppliedTo
<1>8. FoundCatalog(cat)
  BY <1>7, FoundApplied
<1> DEFINE add == ({"app_rw"} \X cat.tables \X Dml) \cup {Stray}
           priv == [cat.priv EXCEPT !.tab = cat.priv.tab \cup add]
           defaults == cat.defaults \cup {"app_rw"}
<1>9. PriorCatalog = [cat EXCEPT !.defaults = defaults, !.priv = priv]
  <2>1. [cat.priv EXCEPT !.tab = (cat.priv.tab \cup ({"app_rw"} \X cat.tables \X Dml)) \cup {Stray}] = priv
    <3>1. (cat.priv.tab \cup ({"app_rw"} \X cat.tables \X Dml)) \cup {Stray} = cat.priv.tab \cup add
      OBVIOUS
    <3> HIDE DEF add
    <3> QED
      BY <3>1
  <2> QED
    BY <2>1 DEF PriorCatalog
<1> HIDE DEF cat
<1>10. /\ add \subseteq TabOf
       /\ \A r, t, p : <<r, t, p>> \in add => t \notin ConsoleTables
  <2>1. \A r, t, p : <<r, t, p>> \in add => t \in cat.tables \/ t = "turns"
    BY DEF Stray
  <2>2. add \subseteq TabOf
    BY <1>8 DEF FoundCatalog, CatOf, TabOf, Stray, AllTables, Dml, Writes
  <2> QED
    BY <1>8, <2>1, <2>2, TablesAre DEF FoundCatalog
<1> HIDE DEF add
<1>11. priv \in Priv /\ priv.tab = cat.priv.tab \cup add
  <2>1. cat.priv \in Priv
    BY <1>8 DEF FoundCatalog, CatOf
  <2> QED
    BY <1>10, <2>1, PrivIs
<1> HIDE DEF priv
<1>12. FenceOf(priv)
  BY <1>8, <1>10, <1>11, TablesAre DEF FoundCatalog, FenceOf, FencedTables
<1>13. defaults \in SUBSET {"readonly", "app_rw"} /\ cat \in CatOf
  BY <1>8 DEF FoundCatalog, CatOf
<1> HIDE DEF defaults
<1>14. /\ PriorCatalog \in CatOf /\ PriorCatalog.priv = priv /\ PriorCatalog.journal = cat.journal
       /\ PriorCatalog.tables = cat.tables /\ PriorCatalog.times = cat.times
  BY <1>9, <1>11, <1>13 DEF CatOf
<1>15. FoundCatalog(PriorCatalog)
  BY <1>8, <1>12, <1>14 DEF FoundCatalog
<1> QED
  BY <1>4, <1>7, <1>15

FoundDisk(d) ==
  /\ d \in DiskOf /\ (d.sentinel => d.bundle = "whole")
  /\ d.hba = "scram" => d.password = d.secrets /\ d.secrets # 0
  /\ d.cluster = "whole" => d.hba \in {"trust", "scram"}

LEMMA DisksAre == FoundDisk(EmptyDisk) /\ FoundDisk(LegacyDisk) /\ FoundDisk(PriorDisk)
<1>1. FoundDisk(EmptyDisk)
  BY DEF EmptyDisk, FoundDisk, DiskOf
<1>2. LegacyDisk \in DiskOf /\ LegacyDisk.bundle = "whole" /\ LegacyDisk.hba = "trust" /\ LegacyDisk.cluster = "whole"
  <2>1. EmptyDisk \in DiskOf
    BY <1>1 DEF FoundDisk
  <2> QED
    BY <2>1 DEF LegacyDisk, DiskOf
<1>3. /\ PriorDisk \in DiskOf /\ PriorDisk.bundle = "whole" /\ PriorDisk.hba = "scram"
      /\ PriorDisk.password = 99 /\ PriorDisk.secrets = 99
  BY <1>2 DEF PriorDisk, DiskOf
<1> QED
  BY <1>1, <1>2, <1>3 DEF FoundDisk

LEMMA BootInit == PgInit({"embedded", "external"}) => BootInv
<1> SUFFICES ASSUME PgInit({"embedded", "external"}) PROVE BootInv
  OBVIOUS
<1>1. /\ pgBoot \in BootOf /\ pgBoot.pc = "off" /\ ~pgBoot.faulted
  <2>1. PICK mode \in {"embedded", "external"} :
          pgBoot = [mode |-> mode, pc |-> "off", key |-> 0, hba |-> "none", up |-> FALSE, faulted |-> FALSE]
    BY DEF PgInit
  <2> QED
    BY <2>1 DEF BootOf, PgPlaces
<1>2. FoundDisk(pgDisk) /\ FoundCatalog(pgCat)
  <2>1. PICK found \in {<<EmptyDisk, EmptyCatalog>>, <<LegacyDisk, LegacyCatalog>>, <<PriorDisk, PriorCatalog>>} :
          pgDisk = found[1] /\ pgCat = found[2]
    BY DEF PgInit
  <2> QED
    BY <2>1, FoundIs, DisksAre
<1>3. pgRun = [r \in 1..MaxRuns |-> NoRun] /\ pgSpent = [boots |-> 0, faults |-> 0, runs |-> 0]
  BY DEF PgInit
<1>4. /\ pgRun \in [1..MaxRuns -> RunOf] /\ (\A r \in 1..MaxRuns : pgRun[r].pc = "none")
      /\ pgSpent \in SpentOf /\ pgSpent.runs = 0
  BY <1>3, FreshRun DEF SpentOf
<1>5. BootTypes
  BY <1>1, <1>2, <1>4 DEF BootTypes, FoundDisk, FoundCatalog
<1>6. JournalHeld
  BY <1>2, <1>4 DEF JournalHeld, FoundCatalog
<1>7. FenceHeld
  BY <1>1, <1>2 DEF FenceHeld, FoundCatalog
<1>8. LoopHeld
  BY <1>1, <1>4, PgAssumption DEF LoopHeld
<1>9. ChainHeld
  BY <1>1, <1>2, <1>4, FreshRun DEF ChainHeld, BundleHeld, SecretHeld, VectorHeld, MigrationHeld, FailHeld, FoundDisk,
     FromMigrate, FromVector, FromHba, FromAlter, FromStart, FromInitdb, FromSecrets
<1> QED
  BY <1>5, <1>6, <1>7, <1>8, <1>9 DEF BootInv

(* The invariant is inductive ... *)
LEMMA BootStep == BootInv /\ [PgNext]_pgVars => BootInv'
<1> SUFFICES ASSUME BootInv, [PgNext]_pgVars PROVE BootInv'
  OBVIOUS
<1>1. CASE PgStart \/ Acquire \/ ClearBundle \/ ExtractBundle \/ WriteSentinel \/ RoleSecrets \/ InitCluster
           \/ StartServer
  BY <1>1, PgStartKeeps, AcquireKeeps, ClearBundleKeeps, ExtractBundleKeeps, WriteSentinelKeeps, RoleSecretsKeeps,
     InitClusterKeeps, StartServerKeeps
<1>2. CASE AlterPassword \/ WriteHba \/ Reload \/ EnsureDatabase \/ EnsureVector \/ CopyLibrary \/ CopyExtension
  BY <1>2, AlterPasswordKeeps, WriteHbaKeeps, ReloadKeeps, EnsureDatabaseKeeps, EnsureVectorKeeps, CopyLibraryKeeps,
     CopyExtensionKeeps
<1>3. CASE Migrated \/ GrantRoles \/ PublishCoordinates \/ StepFails \/ \E crash \in BOOLEAN : ProcessEnds(crash)
  BY <1>3, MigratedKeeps, GrantRolesKeeps, PublishCoordinatesKeeps, StepFailsKeeps, ProcessEndsKeeps
<1>4. CASE \E r \in 1..MaxRuns : ReadJournal(r) \/ ApplyNext(r) \/ RunEnds(r) \/ RunFails(r)
  BY <1>4, ReadJournalKeeps, ApplyNextKeeps, RunEndsKeeps, RunFailsKeeps
<1>5. CASE Attempt \/ ProbeAnswers \/ ProbeFails \/ RaceSettles \/ DeadlinePasses
  BY <1>5, AttemptKeeps, ProbeAnswersKeeps, LoopStepsKeep
<1>6. CASE UNCHANGED pgVars
  <2>1. UNCHANGED <<pgDisk, pgCat, pgBoot, pgRun, pgSpent>>
    BY <1>6 DEF pgVars
  <2>2. BootTypes' /\ LoopHeld' /\ JournalHeld' /\ FenceHeld'
    BY <2>1 DEF BootInv, BootTypes, LoopHeld, JournalHeld, FenceHeld
  <2>3. ChainHeld'
    BY <2>1 DEF BootInv, ChainHeld, BundleHeld, SecretHeld, VectorHeld, MigrationHeld, FailHeld, MayConnect, Torn
  <2> QED
    BY <2>2, <2>3 DEF BootInv
<1> QED
  BY <1>1, <1>2, <1>3, <1>4, <1>5, <1>6 DEF PgNext

(* ... and says what a boot promises. *)
LEMMA BootPromise == BootInv => BootSafe
<1> SUFFICES ASSUME BootInv PROVE BootSafe
  OBVIOUS
<1>1. BootSound
  BY DEF BootInv, ChainHeld, FailHeld, BootSound
<1>2. Fenced
  BY DEF BootInv, FenceHeld, FenceOf, GrantsOf, Fenced, Holds, AtStep
<1>3. MigratedOnce
  <2>1. \A m \in DOMAIN Creates : pgCat.times[m] <= 1
    BY DEF BootInv, JournalHeld
  <2>2. ASSUME pgBoot.pc = "ready" PROVE pgCat.journal = DOMAIN Creates
    <3>1. CASE pgBoot.mode = "embedded"
      <4>1. pgRun[1].pc = "done"
        BY <2>2, <3>1 DEF BootInv, ChainHeld, MigrationHeld, FromMigrate
      <4> QED
        BY <4>1, FreshRun DEF BootInv, JournalHeld, BootTypes, CatOf
    <3>2. CASE pgBoot.mode = "external"
      BY <2>2, <3>2 DEF BootInv, LoopHeld
    <3> QED
      BY <3>1, <3>2 DEF BootInv, BootTypes, BootOf
  <2> QED
    BY <2>1, <2>2 DEF MigratedOnce
<1> QED
  BY <1>1, <1>2, <1>3 DEF BootSafe

(***************************************************************************)
(* Whatever an earlier boot left behind - half a bundle, a password whose  *)
(* pg_hba.conf was not written, a migrated schema without its roles - a    *)
(* boot fails only if something failed in it or the cluster is torn; the   *)
(* console's tables are fenced at every moment; and each migration takes   *)
(* effect once, under abandoned attempts too (host/postgres/provider.ts,   *)
(* roles.ts, migrate.ts).                                                  *)
(***************************************************************************)
THEOREM BootSafeHolds == PgSpec => []BootSafe
<1>1. PgInit({"embedded", "external"}) => BootInv
  BY BootInit
<1>2. BootInv /\ [PgNext]_pgVars => BootInv'
  BY BootStep
<1>3. BootInv => BootSafe
  BY BootPromise
<1> QED
  BY <1>1, <1>2, <1>3, PTL DEF PgSpec

-----------------------------------------------------------------------------
(* The guarded pool (Healing).  A deadline miss counts against the pool of *)
(* the moment, whoever missed it: a caller that still waits on a pool a    *)
(* rebuild replaced, or that retried into this one, can blame a healthy    *)
(* one.  It can do so in one tick only, because what was in flight at the  *)
(* rebuild is old by the next tick and gone by the one after; and one tick *)
(* is less than the two that rebuild (DEFAULT_STALL_BREACH_THRESHOLD).     *)

(* A caller whose miss would say nothing about the pool of today. *)
Straggler(c) == call[c].waiting /\ (call[c].gen < guard.gen \/ call[c].retried)
Stragglers == \E c \in Calls : Straggler(c)

(* Unhurt, this pool is not ill: what is, is one it replaced. *)
Well == ill = "none" \/ (ill = "wedged" /\ guard.gen > 1)

(* HealTypeOK with the generations unbounded. *)
CallShape == [gen : Nat, stage : {"idle", "queued", "running"},
              counted : BOOLEAN, waiting : BOOLEAN, old : BOOLEAN, retried : BOOLEAN]
GuardShape == [gen : Nat \ {0}, built : BOOLEAN, breaches : Nat, futile : Nat, worked : BOOLEAN,
               escalated : BOOLEAN, recovering : BOOLEAN, stalls : Nat,
               served : BOOLEAN, missed : BOOLEAN]
HealShape ==
  /\ call \in [Calls -> CallShape] /\ guard \in GuardShape /\ tick \in TickRecord
  /\ hurt \in BOOLEAN /\ (layer = "database" => ill \in PoolIllness)

(* Either nothing was counted yet, and whoever may still be counted goes
   with this tick; or one tick was, and nobody is left to miss again.      *)
Spared ==
  \/ /\ guard.stalls = 0
     /\ tick.at = "idle" => \A c \in Calls : Straggler(c) => call[c].old
     /\ tick.at # "idle" => ~Stragglers
     /\ tick.at = "live" => ~guard.missed
  \/ ~Stragglers /\ ~guard.missed /\ (tick.at = "live" => ~tick.missed) /\ guard.stalls <= 1

PoolKeptInv == HealShape /\ (layer = "database" /\ ~hurt => Well /\ Spared)

(* No caller of an earlier pool is waiting where none was, and none lasts. *)
LEMMA HealStarts == HealInit({"store", "database"}) => PoolKeptInv
<1> SUFFICES ASSUME HealInit({"store", "database"}) PROVE PoolKeptInv
  OBVIOUS
<1>1. HealShape
  <2>1. NoCall \in CallShape /\ tick \in TickRecord
    BY DEF HealInit, NoCall, NoTick, CallShape, TickRecord
  <2>2. call \in [Calls -> CallShape]
    BY <2>1 DEF HealInit
  <2>3. guard \in GuardShape
    BY DEF HealInit, GuardShape
  <2> QED
    BY <2>1, <2>2, <2>3 DEF HealInit, HealShape, PoolIllness
<1>2. Well /\ Spared
  BY DEF HealInit, Well, Spared, Straggler, Stragglers, NoCall, NoTick
<1> QED
  BY <1>1, <1>2 DEF PoolKeptInv

(* A step of one call, and of the guard's counters, that makes no caller late. *)
LEMMA CallKeeps ==
  ASSUME PoolKeptInv, NEW c \in Calls, NEW d \in CallShape, call' = [call EXCEPT ![c] = d],
         guard' \in GuardShape, guard'.gen = guard.gen, guard'.stalls = guard.stalls,
         layer = "database" /\ ~hurt => (guard'.missed => guard.missed \/ Straggler(c)),
         d.waiting /\ (d.gen < guard.gen \/ d.retried) => Straggler(c) /\ (call[c].old => d.old),
         UNCHANGED <<layer, ill, tick, hurt>>
  PROVE  PoolKeptInv'
<1>1. HealShape /\ HealShape'
  BY DEF PoolKeptInv, HealShape
<1>2. \A b \in Calls : call'[b] = IF b = c THEN d ELSE call[b]
  BY <1>1 DEF HealShape
<1>3. \A b \in Calls : Straggler(b)' => Straggler(b) /\ (call[b].old => call'[b].old)
  BY <1>2 DEF Straggler
<1>4. ASSUME layer = "database", ~hurt PROVE Well' /\ Spared'
  <2>1. Well /\ Spared
    BY <1>4 DEF PoolKeptInv
  <2>2. Well'
    BY <2>1 DEF Well
  <2>3. Stragglers' => Stragglers
    BY <1>3 DEF Stragglers
  <2>4. guard'.missed => guard.missed \/ Stragglers
    BY <1>4 DEF Stragglers
  <2>5. CASE /\ guard.stalls = 0
             /\ tick.at = "idle" => \A b \in Calls : Straggler(b) => call[b].old
             /\ tick.at # "idle" => ~Stragglers
             /\ tick.at = "live" => ~guard.missed
    <3>1. tick'.at = "idle" => \A b \in Calls : Straggler(b)' => call'[b].old
      BY <2>5, <1>3
    <3>2. tick'.at # "idle" => ~Stragglers'
      BY <2>5, <2>3
    <3>3. tick'.at = "live" => ~guard'.missed
      BY <2>5, <2>4
    <3> QED
      BY <2>2, <2>5, <3>1, <3>2, <3>3 DEF Spared
  <2>6. CASE ~Stragglers /\ ~guard.missed /\ (tick.at = "live" => ~tick.missed) /\ guard.stalls <= 1
    BY <2>2, <2>6, <2>3, <2>4 DEF Spared
  <2> QED
    BY <2>1, <2>5, <2>6 DEF Spared
<1> QED
  BY <1>1, <1>4 DEF PoolKeptInv

(* The new pool is healthy, and whoever still waits is of the old one. *)
LEMMA RebuildKeeps ==
  ASSUME PoolKeptInv, layer = "database", NEW g \in GuardShape, g.gen = guard.gen, Rebuild(g), tick' = NoTick,
         UNCHANGED <<layer, ill>>
  PROVE  PoolKeptInv'
<1>1. HealShape /\ guard.gen \in Nat \ {0}
  BY DEF PoolKeptInv, HealShape, GuardShape
<1>2. /\ guard' \in GuardShape /\ guard'.gen = guard.gen + 1 /\ guard'.stalls = 0
  <2>1. g.gen + 1 \in Nat \ {0}
    BY <1>1
  <2>2. ExhaustAfter \in Nat
    BY HealingAssumption
  <2> DEFINE futile == IF g.futile = ExhaustAfter THEN g.futile ELSE g.futile + 1
             escalated == g.escalated \/ g.futile + 1 >= ExhaustAfter
  <2>3. futile \in Nat
    BY DEF GuardShape
  <2>4. escalated \in BOOLEAN
    BY DEF GuardShape
  <2>5. guard' = [g EXCEPT !.gen = g.gen + 1, !.built = FALSE, !.recovering = TRUE, !.stalls = 0,
                          !.futile = futile, !.escalated = escalated]
    BY DEF Rebuild, Rebuilt, StallsAfterRebuild
  <2> HIDE DEF futile, escalated
  <2> QED
    BY <2>1, <2>3, <2>4, <2>5 DEF GuardShape
<1>3. \A c \in Calls : call'[c] = [call[c] EXCEPT !.old = call[c].waiting] /\ call[c] \in CallShape
  BY <1>1 DEF Rebuild, Aged, HealShape
<1>4. call' \in [Calls -> CallShape] /\ \A c \in Calls : call'[c].waiting => call'[c].old
  <2>1. ASSUME NEW c \in Calls
        PROVE  call'[c] \in CallShape /\ (call'[c].waiting => call'[c].old)
    <3>1. call[c].waiting \in BOOLEAN
      BY <1>3 DEF CallShape
    <3> QED
      BY <1>3, <3>1 DEF CallShape
  <2>2. call' = [c \in Calls |-> call'[c]]
    BY DEF Rebuild, Aged
  <2> QED
    BY <2>1, <2>2
<1>5. HealShape'
  <2>1. hurt' \in BOOLEAN
    BY DEF Rebuild
  <2>2. tick' \in TickRecord
    BY DEF NoTick, TickRecord
  <2> QED
    BY <1>1, <1>2, <1>4, <2>1, <2>2 DEF HealShape
<1>6. ASSUME ~hurt' PROVE Well' /\ Spared'
  <2>1. ill # "down" /\ ill \in PoolIllness
    BY <1>1, <1>6 DEF Rebuild, HealShape
  <2>2. guard'.gen > 1
    BY <1>1, <1>2
  <2>3. tick'.at = "idle" /\ \A c \in Calls : Straggler(c)' => call'[c].old
    BY <1>4 DEF NoTick, Straggler
  <2> QED
    BY <1>2, <2>1, <2>2, <2>3 DEF Well, Spared, PoolIllness
<1> QED
  BY <1>5, <1>6 DEF PoolKeptInv

(* A tick that rebuilds nothing. *)
LEMMA TickKeeps ==
  ASSUME PoolKeptInv, layer = "database", guard' \in GuardShape, guard'.gen = guard.gen,
         call' = call \/ call' = Aged(call), tick' \in TickRecord, UNCHANGED <<layer, ill, hurt>>,
         ~hurt => \/ guard'.stalls = 0 /\ tick'.at # "idle" /\ ~Stragglers /\ (tick'.at = "live" => ~guard'.missed)
                  \/ ~Stragglers /\ ~guard'.missed /\ (tick'.at = "live" => ~tick'.missed) /\ guard'.stalls <= 1
  PROVE  PoolKeptInv'
<1>1. HealShape
  BY DEF PoolKeptInv
<1>2. call' \in [Calls -> CallShape] /\ \A c \in Calls :
        call'[c].waiting = call[c].waiting /\ call'[c].gen = call[c].gen /\ call'[c].retried = call[c].retried
  <2>1. CASE call' = call
    BY <2>1, <1>1 DEF HealShape
  <2>2. CASE call' = Aged(call)
    <3>1. ASSUME NEW c \in Calls
          PROVE  /\ call'[c] \in CallShape /\ call'[c].waiting = call[c].waiting
                 /\ call'[c].gen = call[c].gen /\ call'[c].retried = call[c].retried
      <4>1. call[c] \in CallShape /\ call'[c] = [call[c] EXCEPT !.old = call[c].waiting]
        BY <2>2, <1>1 DEF HealShape, Aged
      <4>2. call[c].waiting \in BOOLEAN
        BY <4>1 DEF CallShape
      <4> QED
        BY <4>1, <4>2 DEF CallShape
    <3>2. call' = [c \in Calls |-> call'[c]]
      BY <2>2 DEF Aged
    <3> QED
      BY <3>1, <3>2
  <2> QED
    BY <2>1, <2>2
<1>3. HealShape'
  BY <1>1, <1>2 DEF HealShape
<1>4. Stragglers' => Stragglers
  BY <1>2 DEF Stragglers, Straggler
<1>5. ASSUME ~hurt PROVE Well' /\ Spared'
  <2>1. Well'
    BY <1>5 DEF PoolKeptInv, Well
  <2>2. CASE guard'.stalls = 0 /\ tick'.at # "idle" /\ ~Stragglers /\ (tick'.at = "live" => ~guard'.missed)
    BY <2>1, <2>2, <1>4 DEF Spared
  <2>3. CASE ~Stragglers /\ ~guard'.missed /\ (tick'.at = "live" => ~tick'.missed) /\ guard'.stalls <= 1
    BY <2>1, <2>3, <1>4 DEF Spared
  <2> QED
    BY <1>5, <2>2, <2>3
<1> QED
  BY <1>3, <1>5 DEF PoolKeptInv

LEMMA StoreKeeps ==
  ASSUME PoolKeptInv, layer = "store", NEW c \in Calls,
         StoreCall(c, TRUE) \/ StoreCall(c, FALSE) \/ StoreAnswer(c) \/ StoreDeadline(c)
  PROVE  PoolKeptInv'
<1>1. HealShape /\ call[c] \in CallShape /\ guard \in GuardShape
  BY DEF PoolKeptInv, HealShape
<1>2. UNCHANGED <<layer, tick, hurt>> /\ layer' # "database"
  BY DEF StoreCall, StoreAnswer, StoreDeadline
<1>3. NoCall \in CallShape /\ guard.gen \in Nat
  BY <1>1 DEF NoCall, CallShape, GuardShape
<1>4. CASE StoreCall(c, TRUE) \/ StoreCall(c, FALSE)
  <2>1. PICK counted \in BOOLEAN : StoreCall(c, counted)
    BY <1>4
  <2>2. [NoCall EXCEPT !.gen = guard.gen, !.stage = "running", !.counted = counted, !.waiting = TRUE] \in CallShape
    BY <1>3 DEF CallShape, NoCall
  <2>3. call' \in [Calls -> CallShape] /\ guard' = guard
    BY <1>1, <2>1, <2>2 DEF StoreCall, HealShape
  <2> QED
    BY <1>1, <1>2, <2>3 DEF PoolKeptInv, HealShape
<1>5. CASE StoreAnswer(c)
  <2>1. call' \in [Calls -> CallShape]
    BY <1>1, <1>3, <1>5 DEF StoreAnswer, HealShape
  <2>2. guard' \in GuardShape
    BY <1>1, <1>5 DEF StoreAnswer, GuardShape
  <2> QED
    BY <1>1, <1>2, <2>1, <2>2 DEF PoolKeptInv, HealShape
<1>6. CASE StoreDeadline(c)
  <2>1. call' \in [Calls -> CallShape]
    BY <1>1, <1>3, <1>6 DEF StoreDeadline, HealShape
  <2>2. PICK charged \in BOOLEAN, rebuilds \in BOOLEAN, wedged \in BOOLEAN :
          guard' = [guard EXCEPT
                       !.breaches = IF rebuilds THEN 0 ELSE IF charged THEN @ + 1 ELSE @,
                       !.gen = IF rebuilds THEN @ + 1 ELSE @,
                       !.futile = IF wedged THEN 0 ELSE IF rebuilds THEN @ + 1 ELSE @]
    BY <1>6 DEF StoreDeadline
  <2> DEFINE breaches == IF rebuilds THEN 0 ELSE IF charged THEN guard.breaches + 1 ELSE guard.breaches
             gen_ == IF rebuilds THEN guard.gen + 1 ELSE guard.gen
             futile == IF wedged THEN 0 ELSE IF rebuilds THEN guard.futile + 1 ELSE guard.futile
  <2>3. breaches \in Nat /\ gen_ \in Nat \ {0} /\ futile \in Nat
    BY <1>1 DEF GuardShape
  <2>4. guard' = [guard EXCEPT !.breaches = breaches, !.gen = gen_, !.futile = futile]
    BY <2>2
  <2> HIDE DEF breaches, gen_, futile
  <2>5. guard' \in GuardShape
    BY <1>1, <2>3, <2>4 DEF GuardShape
  <2> QED
    BY <1>1, <1>2, <2>1, <2>5 DEF PoolKeptInv, HealShape
<1> QED
  BY <1>4, <1>5, <1>6

LEMMA TxKeeps ==
  ASSUME PoolKeptInv, NEW c \in Calls,
         TxStart(c) \/ TxReserve(c) \/ TxSettle(c) \/ TxDeadline(c) \/ TxClosed(c)
  PROVE  PoolKeptInv'
<1>1. HealShape /\ call[c] \in CallShape /\ guard \in GuardShape
  BY DEF PoolKeptInv, HealShape
<1>2. UNCHANGED <<layer, ill, tick, hurt>>
  BY DEF TxStart, TxReserve, TxSettle, TxDeadline, TxClosed
<1>3. guard.gen \in Nat /\ call[c].gen \in Nat /\ call[c].waiting \in BOOLEAN /\ call[c].retried \in BOOLEAN
  BY <1>1 DEF CallShape, GuardShape
<1>4. NoCall \in CallShape /\ ~NoCall.waiting
  BY DEF NoCall, CallShape
<1>5. CASE TxStart(c)
  <2> DEFINE d == [NoCall EXCEPT !.gen = guard.gen, !.stage = "queued", !.waiting = TRUE]
  <2>1. call' = [call EXCEPT ![c] = d] /\ guard' = [guard EXCEPT !.built = TRUE]
    BY <1>5 DEF TxStart
  <2>2. d \in CallShape /\ d.gen = guard.gen /\ ~d.retried
    BY <1>3 DEF NoCall, CallShape
  <2>3. guard' \in GuardShape /\ guard'.gen = guard.gen /\ guard'.stalls = guard.stalls /\ guard'.missed = guard.missed
    BY <1>1, <2>1 DEF GuardShape
  <2> HIDE DEF d
  <2>4. ~(d.gen < guard.gen \/ d.retried)
    BY <1>3, <2>2
  <2> QED
    BY <1>2, <2>1, <2>2, <2>3, <2>4, CallKeeps
<1>6. CASE TxReserve(c)
  <2> DEFINE d == IF call[c].waiting THEN [call[c] EXCEPT !.stage = "running"] ELSE NoCall
  <2>1. call' = [call EXCEPT ![c] = d] /\ guard' = guard
    BY <1>6 DEF TxReserve
  <2>2. d \in CallShape /\ (d.waiting => d.gen = call[c].gen /\ d.retried = call[c].retried /\ d.old = call[c].old /\ call[c].waiting)
    BY <1>1, <1>4 DEF CallShape
  <2> HIDE DEF d
  <2>3. d.waiting /\ (d.gen < guard.gen \/ d.retried) => Straggler(c) /\ (call[c].old => d.old)
    BY <2>2 DEF Straggler
  <2>4. guard' \in GuardShape /\ guard'.gen = guard.gen /\ guard'.stalls = guard.stalls /\ guard'.missed = guard.missed
    BY <1>1, <2>1
  <2> QED
    BY <1>2, <2>1, <2>2, <2>3, <2>4, CallKeeps
<1>7. CASE TxSettle(c)
  <2>1. call' = [call EXCEPT ![c] = NoCall] /\ guard' = [guard EXCEPT !.served = guard.served \/ call[c].waiting]
    BY <1>7 DEF TxSettle
  <2>2. (guard.served \/ call[c].waiting) \in BOOLEAN
    BY <1>1 DEF GuardShape
  <2>3. guard' \in GuardShape /\ guard'.gen = guard.gen /\ guard'.stalls = guard.stalls /\ guard'.missed = guard.missed
    BY <1>1, <2>1, <2>2 DEF GuardShape
  <2> QED
    BY <1>2, <1>4, <2>1, <2>3, CallKeeps
<1>8. CASE TxDeadline(c)
  <2> DEFINE d == [call[c] EXCEPT !.waiting = FALSE]
  <2>1. call' = [call EXCEPT ![c] = d] /\ guard' = [guard EXCEPT !.missed = TRUE]
    BY <1>8 DEF TxDeadline
  <2>2. d \in CallShape /\ ~d.waiting
    BY <1>1 DEF CallShape
  <2>3. guard' \in GuardShape /\ guard'.gen = guard.gen /\ guard'.stalls = guard.stalls
    BY <1>1, <2>1 DEF GuardShape
  <2>4. ~hurt => Straggler(c)
    BY <1>8 DEF TxDeadline, Straggler
  <2> HIDE DEF d
  <2> QED
    BY <1>2, <2>1, <2>2, <2>3, <2>4, CallKeeps
<1>9. CASE TxClosed(c)
  <2>1. CASE /\ call[c].waiting /\ ~call[c].retried
             /\ call' = [call EXCEPT ![c].gen = guard.gen, ![c].stage = "queued", ![c].retried = TRUE]
             /\ guard' = [guard EXCEPT !.built = TRUE]
    <3> DEFINE d == [call[c] EXCEPT !.gen = guard.gen, !.stage = "queued", !.retried = TRUE]
    <3>1. call' = [call EXCEPT ![c] = d]
      BY <2>1, <1>1 DEF HealShape
    <3>2. d \in CallShape /\ d.old = call[c].old
      BY <1>1, <1>3 DEF CallShape
    <3>3. guard' \in GuardShape /\ guard'.gen = guard.gen /\ guard'.stalls = guard.stalls /\ guard'.missed = guard.missed
      BY <1>1, <2>1 DEF GuardShape
    <3>4. Straggler(c)
      BY <2>1, <1>9 DEF TxClosed, Straggler
    <3> HIDE DEF d
    <3> QED
      BY <1>2, <3>1, <3>2, <3>3, <3>4, CallKeeps
  <2>2. CASE call' = [call EXCEPT ![c] = NoCall] /\ guard' = guard
    BY <1>1, <1>2, <1>4, <2>2, CallKeeps
  <2> QED
    BY <1>9, <2>1, <2>2 DEF TxClosed
<1> QED
  BY <1>5, <1>6, <1>7, <1>8, <1>9

LEMMA TicksKeep ==
  ASSUME PoolKeptInv, StallAfter > 1, TickStart \/ CanaryOk \/ CanaryFails \/ LiveVerdict
  PROVE  PoolKeptInv' /\ (~hurt => guard'.gen = guard.gen)
<1>1. HealShape /\ guard \in GuardShape /\ tick \in TickRecord /\ layer = "database" /\ UNCHANGED <<layer, ill>>
  BY DEF PoolKeptInv, HealShape, TickStart, CanaryOk, CanaryFails, LiveVerdict, Database
<1>2. ~hurt => Well /\ Spared
  BY <1>1 DEF PoolKeptInv
<1>3. StallAfter \in Nat /\ RebuildAfter \in Nat /\ guard.gen \in Nat /\ guard.stalls \in Nat
  BY <1>1, HealingAssumption DEF GuardShape
<1>4. CASE TickStart
  <2>1. tick' \in TickRecord /\ tick'.at = "canary" /\ tick.at = "idle" /\ UNCHANGED <<call, guard, hurt>>
    BY <1>4 DEF TickStart, NoTick, TickRecord
  <2>2. ~hurt => ~Stragglers
    <3>1. \A c \in Calls : Straggler(c) => ~call[c].old
      BY <1>4 DEF TickStart, Straggler
    <3> QED
      BY <3>1, <2>1, <1>2 DEF Spared, Stragglers
  <2>3. ~hurt => guard.stalls = 0 \/ (~guard.missed /\ guard.stalls <= 1)
    BY <1>2 DEF Spared
  <2>4. PoolKeptInv'
    BY <1>1, <2>1, <2>2, <2>3, TickKeeps
  <2> QED
    BY <2>1, <2>4
<1>5. CASE CanaryOk
  <2>1. /\ guard' \in GuardShape /\ guard'.gen = guard.gen /\ ~guard'.missed /\ guard'.stalls = guard.stalls
        /\ UNCHANGED <<call, hurt>>
    BY <1>1, <1>5 DEF CanaryOk, Counters, GuardShape
  <2>2. tick' \in TickRecord /\ tick'.at = "live" /\ tick.at = "canary" /\ (tick'.missed => guard.missed)
    BY <1>1, <1>5 DEF CanaryOk, Looked, TickRecord, GuardShape
  <2>3. ~hurt => ~Stragglers /\ (guard.stalls = 0 \/ (~guard.missed /\ guard.stalls <= 1))
    BY <1>2, <2>2 DEF Spared
  <2>4. PoolKeptInv'
    BY <1>1, <2>1, <2>2, <2>3, TickKeeps
  <2> QED
    BY <2>1, <2>4
<1>6. CASE CanaryFails
  <2> DEFINE g == Counters([guard EXCEPT !.breaches = @ + 1, !.stalls = 0])
  <2>1. g \in GuardShape /\ g.gen = guard.gen
    <3> DEFINE n == guard.breaches + 1
               h == [guard EXCEPT !.breaches = n, !.stalls = 0]
    <3>3. n \in Nat
      BY <1>1 DEF GuardShape
    <3> HIDE DEF n
    <3>1. h \in GuardShape /\ h.gen = guard.gen
      BY <1>1, <3>3 DEF GuardShape
    <3>2. g = [h EXCEPT !.served = FALSE, !.missed = FALSE]
      BY DEF Counters, n
    <3> HIDE DEF g, h
    <3> QED
      BY <3>1, <3>2 DEF GuardShape
  <2>2. hurt /\ tick' = NoTick /\ NoTick \in TickRecord
    BY <1>2, <1>6 DEF CanaryFails, Well, NoTick, TickRecord
  <2> HIDE DEF g
  <2>3. CASE Rebuild([g EXCEPT !.breaches = 0])
    <3>1. [g EXCEPT !.breaches = 0] \in GuardShape /\ [g EXCEPT !.breaches = 0].gen = guard.gen
      BY <2>1 DEF GuardShape
    <3> QED
      BY <1>1, <2>2, <2>3, <3>1, RebuildKeeps
  <2>4. CASE guard' = g /\ call' = Aged(call) /\ UNCHANGED hurt
    BY <1>1, <2>1, <2>2, <2>4, TickKeeps
  <2> QED
    BY <2>2, <2>3, <2>4, <1>6 DEF CanaryFails, g
<1>7. CASE LiveVerdict
  <2> DEFINE txOk == guard.built => PoolServes(guard.gen)
  <2>1. tick.at = "live" /\ tick' = NoTick /\ NoTick \in TickRecord /\ NoTick.at = "idle"
    BY <1>7 DEF LiveVerdict, NoTick, TickRecord
  <2>2. ~hurt => txOk
    BY <1>2, <1>3 DEF Well, PoolServes
  <2>3. ~hurt => \/ guard.stalls = 0 /\ ~Stragglers /\ ~guard.missed
                 \/ ~Stragglers /\ ~guard.missed /\ ~tick.missed /\ guard.stalls <= 1
    BY <1>2, <2>1 DEF Spared
  <2>4. ~hurt => ~Stalled(txOk) \/ guard.stalls = 0
    BY <2>2, <2>3 DEF Stalled
  <2> HIDE DEF txOk
  <2>5. CASE guard' = [guard EXCEPT !.stalls = 0] /\ call' = Aged(call) /\ UNCHANGED hurt
    <3>1. guard' \in GuardShape /\ guard'.gen = guard.gen /\ guard'.stalls = 0 /\ guard'.missed = guard.missed
      BY <1>1, <2>5 DEF GuardShape
    <3>2. PoolKeptInv'
      BY <1>1, <2>1, <2>3, <2>5, <3>1, TickKeeps
    <3> QED
      BY <3>1, <3>2
  <2>6. CASE /\ guard.stalls + 1 < StallAfter /\ Stalled(txOk)
             /\ guard' = [guard EXCEPT !.stalls = guard.stalls + 1] /\ call' = Aged(call) /\ UNCHANGED hurt
    <3>1. guard' \in GuardShape /\ guard'.gen = guard.gen /\ guard'.stalls = guard.stalls + 1 /\ guard'.missed = guard.missed
      BY <1>1, <1>3, <2>6 DEF GuardShape
    <3>2. ~hurt => ~Stragglers /\ ~guard'.missed /\ guard'.stalls <= 1
      BY <1>3, <2>3, <2>4, <2>6, <3>1
    <3>3. PoolKeptInv'
      BY <1>1, <2>1, <2>6, <3>1, <3>2, TickKeeps
    <3> QED
      BY <3>1, <3>3
  <2>7. CASE /\ ~(guard.stalls + 1 < StallAfter) /\ Stalled(txOk)
             /\ Rebuild([guard EXCEPT !.stalls = guard.stalls + 1])
    <3>1. hurt
      BY <1>3, <2>4, <2>7
    <3>2. [guard EXCEPT !.stalls = guard.stalls + 1] \in GuardShape /\ [guard EXCEPT !.stalls = guard.stalls + 1].gen = guard.gen
      BY <1>1, <1>3 DEF GuardShape
    <3>3. PoolKeptInv'
      BY <1>1, <2>1, <2>7, <3>2, RebuildKeeps
    <3> QED
      BY <3>1, <3>3
  <2> QED
    BY <1>7, <2>5, <2>6, <2>7 DEF LiveVerdict, txOk
<1> QED
  BY <1>4, <1>5, <1>6, <1>7

LEMMA HealersGoOn ==
  ASSUME PoolKeptInv, StallAfter > 1, [HealNext]_healVars
  PROVE  PoolKeptInv' /\ (layer = "database" /\ guard'.gen # guard.gen => hurt)
<1>1. HealShape
  BY DEF PoolKeptInv
<1>2. ASSUME NEW what, FallIll(what) PROVE PoolKeptInv' /\ guard' = guard
  <2>1. UNCHANGED <<layer, call, guard, tick>> /\ ill' = what /\ hurt' \in BOOLEAN /\ (hurt' <=> what # "none") /\ ~hurt
        /\ (layer = "database" => what \in PoolIllness)
    BY <1>2 DEF FallIll, Store, Database
  <2>2. HealShape'
    BY <1>1, <2>1 DEF HealShape
  <2>3. ASSUME layer = "database", ~hurt' PROVE Well' /\ Spared'
    <3>1. Spared /\ ill' = "none"
      BY <2>1, <2>3 DEF PoolKeptInv
    <3>2. Spared'
      BY <2>1, <3>1 DEF Spared, Stragglers, Straggler
    <3> QED
      BY <3>1, <3>2 DEF Well
  <2> QED
    BY <2>1, <2>2, <2>3 DEF PoolKeptInv
<1>3. ASSUME ServerBack PROVE PoolKeptInv' /\ guard' = guard
  <2>1. UNCHANGED <<layer, call, guard, tick, hurt>> /\ ill' = "none"
    BY <1>3 DEF ServerBack
  <2> QED
    BY <1>1, <2>1 DEF PoolKeptInv, HealShape, PoolIllness, Well, Spared, Stragglers, Straggler
<1>4. ASSUME NEW c \in Calls, StoreCall(c, TRUE) \/ StoreCall(c, FALSE) \/ StoreAnswer(c) \/ StoreDeadline(c)
      PROVE  PoolKeptInv' /\ layer = "store"
  <2>1. layer = "store"
    BY <1>4 DEF StoreCall, StoreAnswer, StoreDeadline, Store
  <2> QED
    BY <1>4, <2>1, StoreKeeps
<1>5. ASSUME NEW c \in Calls, TxStart(c) \/ TxReserve(c) \/ TxSettle(c) \/ TxDeadline(c) \/ TxClosed(c)
      PROVE  PoolKeptInv' /\ guard'.gen = guard.gen
  <2>1. guard'.gen = guard.gen
    BY <1>1, <1>5 DEF HealShape, GuardShape, TxStart, TxReserve, TxSettle, TxDeadline, TxClosed
  <2> QED
    BY <1>5, <2>1, TxKeeps
<1>6. ASSUME TickStart \/ CanaryOk \/ CanaryFails \/ LiveVerdict PROVE PoolKeptInv' /\ (~hurt => guard'.gen = guard.gen)
  BY <1>6, TicksKeep
<1>7. CASE UNCHANGED healVars
  <2>1. UNCHANGED <<layer, ill, call, guard, tick, hurt>>
    BY <1>7 DEF healVars
  <2> QED
    BY <2>1 DEF PoolKeptInv, HealShape, Well, Spared, Stragglers, Straggler
<1> QED
  BY <1>2, <1>3, <1>4, <1>5, <1>6, <1>7 DEF HealNext

(***************************************************************************)
(* No database pool is replaced that was never given a reason, whoever     *)
(* still waits on its predecessor, as long as one bad tick is not enough   *)
(* for a rebuild (host/postgres/guarded-db.ts; its threshold is 2).        *)
(***************************************************************************)
THEOREM HealthyPoolKeptHolds == ASSUME StallAfter > 1 PROVE HealSpec => HealthyPoolKept
<1>1. PoolKeptInv /\ [HealNext]_healVars => PoolKeptInv'
  BY HealersGoOn
<1>2. PoolKeptInv /\ [HealNext]_healVars => [layer = "database" /\ guard'.gen # guard.gen => hurt]_healVars
  BY HealersGoOn
<1> QED
  BY <1>1, <1>2, HealStarts, PTL DEF HealSpec, HealthyPoolKept

-----------------------------------------------------------------------------
(* The replay of parked sidecars (ParkReplay).                             *)

(* Every composition that was parked and not yet dealt with. *)
Files == disk.park \cup disk.draining

(* A drain with the park file moved aside. *)
Under == {"loop", "merge", "finish"}

(* Which of its sessions a drain has yet to put on record. *)
Unrecorded == IF replay.pc \in Under \cup {"pend"} THEN replay.rewrote ELSE {}

(* A drain's own marker, while it stands for what is not on record. *)
Own == IF replay.raised /\ replay.pc \in Under \cup {"pend", "clear"} THEN 1 ELSE 0

(* ParkTypeOK with the counters unbounded. *)
DiskShape == [park : SUBSET Parked, draining : SUBSET Parked, forget : SUBSET Sessions, markers : Nat]
ReplayShape == [pc : ReplayStep, todo : SUBSET Parked, seen : SUBSET Commits, failed : SUBSET Parked,
                rewrote : SUBSET Sessions, raised : BOOLEAN]
RunShape == [phase : {"none", "held", "running"}, copied : SUBSET Sessions, stale : SUBSET Sessions, left : Nat]

ParkShape ==
  /\ chain \in [Sessions -> Chain] /\ sidecar \in [Sessions -> SUBSET Commits]
  /\ disk \in DiskShape
  /\ replay \in ReplayShape
  /\ gone \in SUBSET Sessions /\ raced \in SUBSET Sessions
  /\ run \in RunShape
  /\ commits \in Nat

(* The sidecar reflects the entry, or the promise does not cover it. *)
Spoken(e) == e.at \in sidecar[e.s] \/ e.s \in gone \cup raced

(* A composition reflects the commit it was composed for. *)
EntryHeld ==
  /\ \A e \in Files : e.at \in e.text
  /\ \A s \in Sessions : chain[s] # NoChain => chain[s].at \in chain[s].text /\ chain[s].at \in Commits

(* Nothing leaves .draining before it is back in the park or in its
   sidecar.                                                                *)
DrainHeld ==
  /\ replay.pc \in {"orphans", "unlink", "rename"} =>
       ~replay.raised /\ replay.rewrote = {} /\ replay.failed = {}
  /\ replay.pc = "unlink" => disk.draining \subseteq disk.park
  /\ replay.pc = "rename" => disk.draining = {}
  /\ replay.pc \in Under =>
       /\ replay.todo \subseteq disk.draining
       /\ \A e \in disk.draining : e \in replay.todo \cup replay.failed \/ Spoken(e)
  /\ replay.pc = "finish" => replay.todo = {} /\ replay.failed \subseteq disk.park
  /\ replay.failed \subseteq disk.draining \/ replay.pc \notin Under
  /\ replay.pc = "merge" => replay.todo # {} /\ replay.raised

(* What a closure or the drain read of a sidecar is still what it says:
   one writer at a time, or the session is marked raced.                   *)
ReadHeld ==
  /\ \A s \in Sessions \ (gone \cup raced) : chain[s] # NoChain => sidecar[s] \subseteq chain[s].text
  /\ replay.pc = "merge" =>
       LET s == Oldest(replay.todo).s IN
       s \notin gone \cup raced => replay.seen = sidecar[s] /\ chain[s] = NoChain

(* What a migration would copy over is about to be forgotten, is known to
   the drain, or somebody else's marker refuses the run.                   *)
RunHeldOff ==
  /\ run.phase = "running" => replay.pc = "idle" /\ run.stale = {}
  /\ Own <= disk.markers
  /\ replay.rewrote # {} => replay.raised
  /\ run.stale \subseteq disk.forget \cup Unrecorded \/ Own < disk.markers

ParkInv == ParkShape /\ EntryHeld /\ DrainHeld /\ ReadHeld /\ RunHeldOff

LEMMA OldestParked ==
  ASSUME NEW es \in SUBSET Parked, es # {}
  PROVE  Oldest(es) \in es /\ Oldest(es).s \in Sessions /\ Oldest(es).at \in Commits
         /\ Oldest(es).text \in SUBSET Commits
<1> DEFINE ats == {e.at : e \in es}
<1>1. ats \subseteq Nat /\ ats # {}
  BY DEF Parked, Commits
<1>2. IsWellFoundedOn(OpToRel(<, Nat), Nat)
  BY NatLessThanWellFounded
<1>3. PICK n \in ats : \A m \in ats : ~(<<m, n>> \in OpToRel(<, Nat))
  BY <1>1, <1>2, WFMin
<1>4. \A m \in ats : ~(m < n)
  BY <1>1, <1>3 DEF OpToRel
<1>5. PICK e \in es : e.at = n
  BY <1>3
<1>6. \A f \in es : e.at <= f.at
  <2>1. \A f \in es : f.at \in ats
    OBVIOUS
  <2> HIDE DEF ats
  <2>2. \A f \in es : f.at \in Nat /\ ~(f.at < n)
    BY <1>1, <1>4, <2>1
  <2>3. n \in Nat
    BY <1>1, <1>3
  <2> QED
    BY <1>5, <2>2, <2>3
<1>7. Oldest(es) \in es
  BY <1>6 DEF Oldest
<1> QED
  BY <1>7 DEF Parked

LEMMA NoChainFits == NoChain \in Chain
  BY ParkAssumption DEF NoChain, Chain

LEMMA ParkStarts == ParkInit(TRUE) => ParkInv
<1> SUFFICES ASSUME ParkInit(TRUE) PROVE ParkInv
  OBVIOUS
<1>1. NoChain \in Chain /\ MaxMigrations \in Nat
  BY ParkAssumption DEF NoChain, Chain
<1>2. ParkShape
  <2>1. chain \in [Sessions -> Chain]
    BY <1>1 DEF ParkInit
  <2>2. replay \in ReplayShape
    BY DEF ParkInit, NoReplay, ReplayStep, ReplayShape
  <2>3. run \in RunShape
    BY <1>1 DEF ParkInit, RunShape
  <2>4. disk \in DiskShape
    BY DEF ParkInit, DiskShape
  <2>5. sidecar \in [Sessions -> SUBSET Commits] /\ gone \in SUBSET Sessions /\ raced \in SUBSET Sessions /\ commits \in Nat
    BY DEF ParkInit
  <2> QED
    BY <2>1, <2>2, <2>3, <2>4, <2>5 DEF ParkShape, DiskShape, ReplayShape, RunShape
<1>3. EntryHeld /\ DrainHeld /\ ReadHeld
  BY DEF ParkInit, NoReplay, Files, Under, EntryHeld, DrainHeld, ReadHeld
<1>4. RunHeldOff
  BY DEF ParkInit, NoReplay, RunHeldOff, Own, Under, Unrecorded
<1> QED
  BY <1>2, <1>3, <1>4 DEF ParkInv

(* What a step must leave of what is parked and of what was written. *)
Kept ==
  /\ \A e \in Files : e \in Files' \/ Spoken(e)'
  /\ \A s \in Sessions \ (gone' \cup raced') : sidecar[s] \subseteq sidecar'[s]

(* The pause, the migration and the clock leave the park alone. *)
LEMMA ParkQuietKeeps ==
  ASSUME ParkInv, UNCHANGED <<chain, disk, sidecar, gone, replay, commits, raced>>,
         run' \in RunShape, run'.stale = run.stale, run'.phase = "running" => run.phase = "running"
  PROVE  ParkInv' /\ Kept
<1>1. ParkShape'
  BY DEF ParkInv, ParkShape, DiskShape, ReplayShape, RunShape
<1>2. EntryHeld' /\ DrainHeld' /\ ReadHeld' /\ Kept
  BY DEF ParkInv, ParkShape, EntryHeld, DrainHeld, ReadHeld, Files, Spoken, Kept
<1>3. RunHeldOff'
  BY DEF ParkInv, RunHeldOff, Own, Unrecorded
<1> QED
  BY <1>1, <1>2, <1>3 DEF ParkInv

LEMMA ComposeKeeps ==
  ASSUME ParkInv, NEW s \in Sessions, Compose(s)
  PROVE  ParkInv' /\ Kept
<1>1. ParkShape /\ commits + 1 \in Commits /\ commits + 1 \in Nat
  BY ParkAssumption DEF ParkInv, ParkShape, Compose, Commits
<1> DEFINE d == [at |-> commits + 1, text |-> sidecar[s] \cup {commits + 1}]
<1>2. d \in Chain /\ d.at \in d.text /\ d.at \in Commits /\ sidecar[s] \subseteq d.text
  BY <1>1 DEF Chain, Commits, ParkShape, DiskShape, ReplayShape, RunShape
<1>3. /\ chain' = [chain EXCEPT ![s] = d] /\ commits' = commits + 1 /\ raced \subseteq raced' /\ raced' \in SUBSET Sessions
      /\ UNCHANGED <<disk, sidecar, gone, replay, run>> /\ chain[s] = NoChain
      /\ (replay.pc = "merge" /\ (\E e \in replay.todo : e.s = s) => s \in raced')
  BY <1>1 DEF Compose, ParkShape, DiskShape, ReplayShape, RunShape
<1> HIDE DEF d
<1>4. \A t \in Sessions : chain'[t] = IF t = s THEN d ELSE chain[t]
  BY <1>1, <1>3 DEF ParkShape, DiskShape, ReplayShape, RunShape
<1>5. ParkShape'
  BY <1>1, <1>2, <1>3 DEF ParkShape, DiskShape, ReplayShape, RunShape
<1>6. EntryHeld' /\ DrainHeld' /\ Kept
  BY <1>1, <1>2, <1>3, <1>4 DEF ParkInv, ParkShape, EntryHeld, DrainHeld, Files, Spoken, Kept
<1>7. ReadHeld'
  <2>1. ASSUME NEW t \in Sessions \ (gone \cup raced'), chain'[t] # NoChain PROVE sidecar[t] \subseteq chain'[t].text
    BY <2>1, <1>2, <1>3, <1>4 DEF ParkInv, ReadHeld
  <2>2. ASSUME replay.pc = "merge", Oldest(replay.todo).s \notin gone \cup raced'
        PROVE  replay.seen = sidecar[Oldest(replay.todo).s] /\ chain'[Oldest(replay.todo).s] = NoChain
    <3>1. replay.todo # {} /\ replay.todo \in SUBSET Parked
      BY <2>2, <1>1 DEF ParkInv, DrainHeld, ParkShape, DiskShape, ReplayShape, RunShape
    <3>2. Oldest(replay.todo) \in replay.todo /\ Oldest(replay.todo).s \in Sessions
      BY <3>1, OldestParked
    <3>3. Oldest(replay.todo).s # s
      BY <2>2, <3>2, <1>3
    <3> QED
      BY <2>2, <3>2, <3>3, <1>3, <1>4 DEF ParkInv, ReadHeld
  <2> QED
    BY <2>1, <2>2, <1>3 DEF ReadHeld
<1>8. RunHeldOff'
  BY <1>3 DEF ParkInv, RunHeldOff, Own, Unrecorded
<1> QED
  BY <1>5, <1>6, <1>7, <1>8 DEF ParkInv

LEMMA ChainWritesKeeps ==
  ASSUME ParkInv, NEW s \in Sessions, ChainWrites(s)
  PROVE  ParkInv' /\ Kept
<1>1. ParkShape /\ chain[s] \in Chain /\ NoChain \in Chain /\ chain[s].text \in SUBSET Commits
  <2>1. ParkShape /\ chain[s] \in Chain
    BY DEF ParkInv, ParkShape
  <2> QED
    BY <2>1, NoChainFits DEF Chain
<1>2. /\ sidecar' = [sidecar EXCEPT ![s] = chain[s].text] /\ chain' = [chain EXCEPT ![s] = NoChain]
      /\ UNCHANGED <<disk, gone, replay, run, commits, raced>> /\ chain[s] # NoChain
  BY DEF ChainWrites
<1>3. ParkShape'
  BY <1>1, <1>2 DEF ParkShape, DiskShape, ReplayShape, RunShape
<1>4. \A t \in Sessions : /\ chain'[t] = IF t = s THEN NoChain ELSE chain[t]
                         /\ sidecar'[t] = IF t = s THEN chain[s].text ELSE sidecar[t]
  BY <1>1, <1>2 DEF ParkShape, DiskShape, ReplayShape, RunShape
<1>5. \A t \in Sessions \ (gone \cup raced) : sidecar[t] \subseteq sidecar'[t]
  BY <1>2, <1>4 DEF ParkInv, ReadHeld
<1>6. \A e \in Parked : Spoken(e) => Spoken(e)'
  BY <1>2, <1>5 DEF Spoken, Parked
<1>7. EntryHeld' /\ Kept
  BY <1>1, <1>2, <1>4, <1>5 DEF ParkInv, ParkShape, EntryHeld, Files, Kept
<1>8. DrainHeld'
  <2>1. disk.draining \subseteq Parked
    BY <1>1 DEF ParkShape, DiskShape
  <2> QED
    BY <2>1, <1>2, <1>6 DEF ParkInv, DrainHeld
<1>9. ReadHeld'
  <2>1. ASSUME NEW t \in Sessions \ (gone \cup raced), chain'[t] # NoChain PROVE sidecar'[t] \subseteq chain'[t].text
    BY <2>1, <1>4 DEF ParkInv, ReadHeld
  <2>2. ASSUME replay.pc = "merge", Oldest(replay.todo).s \notin gone \cup raced
        PROVE  replay.seen = sidecar'[Oldest(replay.todo).s] /\ chain'[Oldest(replay.todo).s] = NoChain
    <3>1. Oldest(replay.todo).s \in Sessions
      BY <2>2, <1>1, OldestParked DEF ParkInv, DrainHeld, ParkShape, DiskShape, ReplayShape, RunShape
    <3> QED
      BY <2>2, <3>1, <1>2, <1>4 DEF ParkInv, ReadHeld
  <2> QED
    BY <2>1, <2>2, <1>2 DEF ReadHeld
<1>10. RunHeldOff'
  BY <1>2 DEF ParkInv, RunHeldOff, Own, Unrecorded
<1> QED
  BY <1>3, <1>7, <1>8, <1>9, <1>10 DEF ParkInv

LEMMA ChainParksKeeps ==
  ASSUME ParkInv, NEW s \in Sessions, ChainParks(s)
  PROVE  ParkInv' /\ Kept
<1> DEFINE e == [s |-> s, at |-> chain[s].at, text |-> chain[s].text]
<1>1. ParkShape /\ chain[s] \in Chain /\ NoChain \in Chain /\ chain[s] # NoChain
  BY NoChainFits DEF ParkInv, ParkShape, ChainParks
<1>2. e \in Parked /\ e.at \in e.text
  BY <1>1 DEF ParkInv, EntryHeld, Parked, Chain
<1>3. /\ disk' = [disk EXCEPT !.park = disk.park \cup {e}] /\ chain' = [chain EXCEPT ![s] = NoChain]
      /\ UNCHANGED <<sidecar, gone, replay, run, commits, raced>>
  BY DEF ChainParks
<1> HIDE DEF e
<1>4. disk'.park = disk.park \cup {e} /\ disk'.draining = disk.draining /\ disk'.forget = disk.forget /\ disk'.markers = disk.markers
  BY <1>1, <1>3 DEF ParkShape, DiskShape, ReplayShape, RunShape
<1>5. ParkShape'
  <2>1. disk'.park \in SUBSET Parked
    BY <1>1, <1>2, <1>4 DEF ParkShape, DiskShape, ReplayShape, RunShape
  <2>2. disk' \in DiskShape
    BY <1>1, <1>2, <1>3, <2>1 DEF ParkShape, DiskShape, ReplayShape, RunShape
  <2> QED
    BY <1>1, <1>3, <2>2 DEF ParkShape, DiskShape, ReplayShape, RunShape
<1>6. \A t \in Sessions : chain'[t] = IF t = s THEN NoChain ELSE chain[t]
  BY <1>1, <1>3 DEF ParkShape, DiskShape, ReplayShape, RunShape
<1>7. EntryHeld' /\ Kept
  BY <1>2, <1>3, <1>4, <1>6 DEF ParkInv, EntryHeld, Files, Kept
<1>8. DrainHeld'
  BY <1>3, <1>4 DEF ParkInv, DrainHeld, Spoken
<1>9. ReadHeld'
  <2>1. \A t \in Sessions : chain'[t] = chain[t] \/ chain'[t] = NoChain
    BY <1>6
  <2>2. replay.pc = "merge" => Oldest(replay.todo).s \in Sessions
    BY <1>1, OldestParked DEF ParkInv, DrainHeld, ParkShape, DiskShape, ReplayShape, RunShape
  <2> QED
    BY <1>3, <2>1, <2>2 DEF ParkInv, ReadHeld
<1>10. RunHeldOff'
  BY <1>3, <1>4 DEF ParkInv, RunHeldOff, Own, Unrecorded
<1> QED
  BY <1>5, <1>7, <1>8, <1>9, <1>10 DEF ParkInv

LEMMA DeletionKeeps ==
  ASSUME ParkInv, NEW s \in Sessions, Delete(s)
  PROVE  ParkInv' /\ Kept
<1>1. ParkShape
  BY DEF ParkInv
<1>2. /\ sidecar' = [sidecar EXCEPT ![s] = {}] /\ gone' = gone \cup {s} /\ raced \subseteq raced' /\ raced' \in SUBSET Sessions
      /\ UNCHANGED <<disk, chain, replay, run, commits>>
  BY <1>1 DEF Delete, ParkShape, DiskShape, ReplayShape, RunShape
<1>3. ParkShape'
  BY <1>1, <1>2 DEF ParkShape, DiskShape, ReplayShape, RunShape
<1>4. \A t \in Sessions : sidecar'[t] = IF t = s THEN {} ELSE sidecar[t]
  BY <1>1, <1>2 DEF ParkShape, DiskShape, ReplayShape, RunShape
<1>5. \A e \in Parked : Spoken(e) => Spoken(e)'
  BY <1>2, <1>4 DEF Spoken, Parked
<1>6. EntryHeld' /\ Kept
  BY <1>2, <1>4 DEF ParkInv, EntryHeld, Files, Kept
<1>7. DrainHeld'
  <2>1. disk.draining \subseteq Parked
    BY <1>1 DEF ParkShape, DiskShape
  <2> QED
    BY <2>1, <1>2, <1>5 DEF ParkInv, DrainHeld
<1>8. ReadHeld'
  <2>1. replay.pc = "merge" => Oldest(replay.todo).s \in Sessions
    BY <1>1, OldestParked DEF ParkInv, DrainHeld, ParkShape, DiskShape, ReplayShape, RunShape
  <2> QED
    BY <1>2, <1>4, <2>1 DEF ParkInv, ReadHeld
<1>9. RunHeldOff'
  BY <1>2 DEF ParkInv, RunHeldOff, Own, Unrecorded
<1> QED
  BY <1>3, <1>6, <1>7, <1>8, <1>9 DEF ParkInv

(* A step of the drain that moves files and its own record only. *)
LEMMA DrainKeeps ==
  ASSUME ParkInv, UNCHANGED <<chain, sidecar, gone, raced, commits>>,
         disk' \in DiskShape, replay' \in ReplayShape, run' \in RunShape,
         Files' \subseteq Files, \A e \in Files : e \in Files' \/ Spoken(e),
         replay'.pc # "merge", DrainHeld', RunHeldOff'
  PROVE  ParkInv' /\ Kept
<1>1. ParkShape'
  BY DEF ParkInv, ParkShape
<1>2. EntryHeld' /\ ReadHeld'
  BY DEF ParkInv, EntryHeld, ReadHeld
<1>3. \A e \in Files : Spoken(e) => Spoken(e)'
  BY DEF Spoken
<1>4. Kept
  BY <1>3 DEF Kept
<1> QED
  BY <1>1, <1>2, <1>4 DEF ParkInv

LEMMA RefreshKeeps ==
  ASSUME ParkInv, RefreshPause
  PROVE  ParkInv' /\ Kept
<1>1. ParkShape /\ disk \in DiskShape /\ run \in RunShape /\ replay \in ReplayShape
  BY DEF ParkInv, ParkShape
<1>2. UNCHANGED <<chain, sidecar, gone, raced, commits, disk, run>>
  BY DEF RefreshPause
<1>3. CASE UNCHANGED replay
  BY <1>1, <1>2, <1>3, ParkQuietKeeps
<1>4. CASE replay.pc = "idle" /\ run.phase = "none" /\ replay' = [NoReplay EXCEPT !.pc = "orphans"]
  <2>1. /\ replay'.pc = "orphans" /\ replay'.todo = {} /\ replay'.seen = {} /\ replay'.failed = {}
        /\ replay'.rewrote = {} /\ replay'.raised = FALSE /\ replay' \in ReplayShape
    BY <1>4 DEF NoReplay, ReplayShape, ReplayStep
  <2>2. DrainHeld'
    BY <2>1 DEF DrainHeld, Under
  <2>3. RunHeldOff'
    BY <1>1, <1>2, <1>4, <2>1 DEF ParkInv, RunHeldOff, Own, Unrecorded, Under
  <2>4. Files' = Files
    BY <1>2 DEF Files
  <2> QED
    BY <1>1, <1>2, <2>1, <2>2, <2>3, <2>4, DrainKeeps
<1> QED
  BY <1>3, <1>4 DEF RefreshPause

LEMMA OrphansKeeps ==
  ASSUME ParkInv, ReplayOrphans
  PROVE  ParkInv' /\ Kept
<1>1. disk \in DiskShape /\ run \in RunShape /\ replay \in ReplayShape
  BY DEF ParkInv, ParkShape
<1>2. UNCHANGED <<chain, sidecar, gone, raced, commits, run>> /\ replay.pc = "orphans"
  BY DEF ReplayOrphans
<1>3. /\ disk'.park = disk.park \cup disk.draining /\ disk'.draining = disk.draining
      /\ disk'.forget = disk.forget /\ disk'.markers = disk.markers /\ disk' \in DiskShape
  BY <1>1 DEF ReplayOrphans, WriteBack, DiskShape
<1>4. /\ replay'.pc = IF disk.draining = {} THEN "rename" ELSE "unlink"
      /\ replay'.todo = replay.todo /\ replay'.failed = replay.failed
      /\ replay'.rewrote = replay.rewrote /\ replay'.raised = replay.raised /\ replay' \in ReplayShape
  BY <1>1 DEF ReplayOrphans, ReplayShape, ReplayStep
<1>5. DrainHeld'
  BY <1>2, <1>3, <1>4 DEF ParkInv, DrainHeld, Under
<1>6. RunHeldOff'
  BY <1>1, <1>2, <1>3, <1>4 DEF ParkInv, RunHeldOff, Own, Unrecorded, Under
<1>7. Files' = Files
  BY <1>3 DEF Files
<1> QED
  BY <1>1, <1>2, <1>3, <1>4, <1>5, <1>6, <1>7, DrainKeeps

LEMMA UnlinkKeeps ==
  ASSUME ParkInv, ReplayUnlink
  PROVE  ParkInv' /\ Kept
<1>1. disk \in DiskShape /\ run \in RunShape /\ replay \in ReplayShape
  BY DEF ParkInv, ParkShape
<1>2. UNCHANGED <<chain, sidecar, gone, raced, commits, run>> /\ replay.pc = "unlink"
  BY DEF ReplayUnlink
<1>3. /\ disk'.park = disk.park /\ disk'.draining = {}
      /\ disk'.forget = disk.forget /\ disk'.markers = disk.markers /\ disk' \in DiskShape
  BY <1>1 DEF ReplayUnlink, DiskShape
<1>4. /\ replay'.pc = "rename"
      /\ replay'.todo = replay.todo /\ replay'.failed = replay.failed
      /\ replay'.rewrote = replay.rewrote /\ replay'.raised = replay.raised /\ replay' \in ReplayShape
  BY <1>1 DEF ReplayUnlink, ReplayShape, ReplayStep
<1>5. DrainHeld'
  BY <1>2, <1>3, <1>4 DEF ParkInv, DrainHeld, Under
<1>6. RunHeldOff'
  BY <1>1, <1>2, <1>3, <1>4 DEF ParkInv, RunHeldOff, Own, Unrecorded, Under
<1>7. Files' = Files
  BY <1>2, <1>3 DEF Files, ParkInv, DrainHeld
<1> QED
  BY <1>1, <1>2, <1>3, <1>4, <1>5, <1>6, <1>7, DrainKeeps

LEMMA RenameKeeps ==
  ASSUME ParkInv, ReplayRename
  PROVE  ParkInv' /\ Kept
<1>1. disk \in DiskShape /\ run \in RunShape /\ replay \in ReplayShape
  BY DEF ParkInv, ParkShape
<1>2. UNCHANGED <<chain, sidecar, gone, raced, commits, run>> /\ replay.pc = "rename"
  BY DEF ReplayRename
<1>3. /\ disk'.park = {} /\ disk'.draining = disk.park
      /\ disk'.forget = disk.forget /\ disk'.markers = disk.markers /\ disk' \in DiskShape
  BY <1>1 DEF ReplayRename, DiskShape
<1>4. /\ replay'.pc = IF disk.park = {} THEN "pend" ELSE "loop"
      /\ replay'.todo = disk.park /\ replay'.failed = replay.failed
      /\ replay'.rewrote = replay.rewrote /\ replay'.raised = replay.raised /\ replay' \in ReplayShape
  BY <1>1 DEF ReplayRename, ReplayShape, ReplayStep, DiskShape
<1>5. DrainHeld'
  BY <1>2, <1>3, <1>4 DEF ParkInv, DrainHeld, Under
<1>6. RunHeldOff'
  BY <1>1, <1>2, <1>3, <1>4 DEF ParkInv, DrainHeld, RunHeldOff, Own, Unrecorded, Under
<1>7. Files' = Files
  BY <1>2, <1>3 DEF Files, ParkInv, DrainHeld
<1> QED
  BY <1>1, <1>2, <1>3, <1>4, <1>5, <1>6, <1>7, DrainKeeps

LEMMA EntryFailsKeeps ==
  ASSUME ParkInv, ReplayFails
  PROVE  ParkInv' /\ Kept
<1> DEFINE e == Oldest(replay.todo)
<1>1. disk \in DiskShape /\ run \in RunShape /\ replay \in ReplayShape
  BY DEF ParkInv, ParkShape
<1>2. /\ UNCHANGED <<chain, sidecar, gone, raced, commits, run, disk>>
      /\ replay.pc \in {"loop", "merge"} /\ replay.todo # {}
  BY DEF ReplayFails
<1>3. e \in replay.todo /\ e \in Parked
  BY <1>1, <1>2, OldestParked DEF ReplayShape
<1>4. /\ replay'.pc = "loop"
      /\ replay'.todo = replay.todo \ {e} /\ replay'.failed = replay.failed \cup {e}
      /\ replay'.rewrote = replay.rewrote /\ replay'.raised = replay.raised /\ replay' \in ReplayShape
  BY <1>1, <1>3 DEF ReplayFails, ReplayShape, ReplayStep, Done
<1> HIDE DEF e
<1>5. DrainHeld'
  <2>1. \A f \in disk.draining : Spoken(f) => Spoken(f)'
    BY <1>2 DEF Spoken
  <2> QED
    BY <1>2, <1>3, <1>4, <2>1 DEF ParkInv, DrainHeld, Under
<1>6. RunHeldOff'
  BY <1>1, <1>2, <1>4 DEF ParkInv, RunHeldOff, Own, Unrecorded, Under
<1>7. Files' = Files
  BY <1>2 DEF Files
<1> QED
  BY <1>1, <1>2, <1>4, <1>5, <1>6, <1>7, DrainKeeps

LEMMA ReparksKeeps ==
  ASSUME ParkInv, ReplayReparks
  PROVE  ParkInv' /\ Kept
<1>1. disk \in DiskShape /\ run \in RunShape /\ replay \in ReplayShape
  BY DEF ParkInv, ParkShape
<1>2. /\ UNCHANGED <<chain, sidecar, gone, raced, commits, run>>
      /\ replay.pc = "loop" /\ replay.todo = {}
  BY DEF ReplayReparks
<1>3. /\ disk'.park = disk.park \cup replay.failed /\ disk'.draining = disk.draining
      /\ disk'.forget = disk.forget /\ disk'.markers = disk.markers /\ disk' \in DiskShape
  BY <1>1 DEF ReplayReparks, DiskShape, ReplayShape
<1>4. /\ replay'.pc = "finish"
      /\ replay'.todo = replay.todo /\ replay'.failed = replay.failed
      /\ replay'.rewrote = replay.rewrote /\ replay'.raised = replay.raised /\ replay' \in ReplayShape
  BY <1>1 DEF ReplayReparks, ReplayShape, ReplayStep
<1>5. DrainHeld'
  <2>1. \A f \in disk.draining : Spoken(f) => Spoken(f)'
    BY <1>2 DEF Spoken
  <2> QED
    BY <1>2, <1>3, <1>4, <2>1 DEF ParkInv, DrainHeld, Under
<1>6. RunHeldOff'
  BY <1>1, <1>2, <1>3, <1>4 DEF ParkInv, RunHeldOff, Own, Unrecorded, Under
<1>7. Files' = Files
  BY <1>2, <1>3 DEF Files, ParkInv, DrainHeld, Under
<1> QED
  BY <1>1, <1>2, <1>3, <1>4, <1>5, <1>6, <1>7, DrainKeeps

LEMMA FinishesKeeps ==
  ASSUME ParkInv, ReplayFinishes
  PROVE  ParkInv' /\ Kept
<1>1. disk \in DiskShape /\ run \in RunShape /\ replay \in ReplayShape
  BY DEF ParkInv, ParkShape
<1>2. /\ UNCHANGED <<chain, sidecar, gone, raced, commits, run>> /\ replay.pc = "finish"
  BY DEF ReplayFinishes
<1>3. /\ disk'.park = disk.park /\ disk'.draining = {}
      /\ disk'.forget = disk.forget /\ disk'.markers = disk.markers /\ disk' \in DiskShape
  BY <1>1 DEF ReplayFinishes, DiskShape
<1>4. /\ replay'.pc = "pend"
      /\ replay'.todo = replay.todo /\ replay'.failed = replay.failed
      /\ replay'.rewrote = replay.rewrote /\ replay'.raised = replay.raised /\ replay' \in ReplayShape
  BY <1>1 DEF ReplayFinishes, ReplayShape, ReplayStep
<1>5. DrainHeld'
  BY <1>4 DEF DrainHeld, Under
<1>6. RunHeldOff'
  BY <1>1, <1>2, <1>3, <1>4 DEF ParkInv, RunHeldOff, Own, Unrecorded, Under
<1>7. Files' \subseteq Files /\ \A f \in Files : f \in Files' \/ Spoken(f)
  BY <1>2, <1>3 DEF Files, ParkInv, DrainHeld, Under
<1> QED
  BY <1>1, <1>2, <1>3, <1>4, <1>5, <1>6, <1>7, DrainKeeps

LEMMA PendsKeeps ==
  ASSUME ParkInv, ReplayPends
  PROVE  ParkInv' /\ Kept
<1>1. disk \in DiskShape /\ run \in RunShape /\ replay \in ReplayShape
  BY DEF ParkInv, ParkShape
<1>2. UNCHANGED <<chain, sidecar, gone, raced, commits, run>> /\ replay.pc = "pend"
  BY DEF ReplayPends
<1>3. CASE /\ disk' = [disk EXCEPT !.forget = disk.forget \cup replay.rewrote]
           /\ replay' = [replay EXCEPT !.pc = "clear"]
  <2>1. /\ disk'.park = disk.park /\ disk'.draining = disk.draining
        /\ disk'.forget = disk.forget \cup replay.rewrote /\ disk'.markers = disk.markers
        /\ disk' \in DiskShape
    BY <1>1, <1>3 DEF DiskShape, ReplayShape
  <2>2. /\ replay'.pc = "clear" /\ replay'.rewrote = replay.rewrote /\ replay'.raised = replay.raised
        /\ replay' \in ReplayShape
    BY <1>1, <1>3 DEF ReplayShape, ReplayStep
  <2>3. DrainHeld'
    BY <2>2 DEF DrainHeld, Under
  <2>4. RunHeldOff'
    BY <1>1, <1>2, <2>1, <2>2 DEF ParkInv, RunHeldOff, Own, Unrecorded, Under
  <2>5. Files' = Files
    BY <2>1 DEF Files
  <2> QED
    BY <1>1, <1>2, <2>1, <2>2, <2>3, <2>4, <2>5, DrainKeeps
<1>4. CASE replay.rewrote # {} /\ replay' = NoReplay /\ UNCHANGED disk
  <2>1. /\ replay'.pc = "idle" /\ replay'.rewrote = {} /\ replay'.raised = FALSE
        /\ replay' \in ReplayShape
    BY <1>4 DEF NoReplay, ReplayShape, ReplayStep
  <2>2. DrainHeld'
    BY <2>1 DEF DrainHeld, Under
  <2>3. Own = 1
    BY <1>2, <1>4 DEF ParkInv, RunHeldOff, Own, Under
  <2>4. RunHeldOff'
    <3>1. disk.markers \in Nat /\ Own' = 0
      BY <1>1, <2>1 DEF DiskShape, Own
    <3> QED
      BY <1>2, <1>4, <2>1, <2>3, <3>1 DEF ParkInv, RunHeldOff
  <2>5. Files' = Files
    BY <1>4 DEF Files
  <2> QED
    BY <1>1, <1>2, <1>4, <2>1, <2>2, <2>4, <2>5, DrainKeeps
<1> QED
  BY <1>3, <1>4 DEF ReplayPends

LEMMA ClearsKeeps ==
  ASSUME ParkInv, ReplayClears
  PROVE  ParkInv' /\ Kept
<1>1. disk \in DiskShape /\ run \in RunShape /\ replay \in ReplayShape
  BY DEF ParkInv, ParkShape
<1>2. UNCHANGED <<chain, sidecar, gone, raced, commits, run>> /\ replay.pc = "clear"
  BY DEF ReplayClears
<1>3. disk.markers \in Nat /\ (replay.raised => disk.markers - 1 \in Nat)
  <2>1. disk.markers \in Nat
    BY <1>1 DEF DiskShape
  <2>2. replay.raised => 1 <= disk.markers
    BY <1>2 DEF ParkInv, RunHeldOff, Own
  <2> QED
    BY <2>1, <2>2
<1>4. /\ disk'.park = disk.park /\ disk'.draining = disk.draining /\ disk'.forget = disk.forget
      /\ disk'.markers = IF replay.raised THEN disk.markers - 1 ELSE disk.markers
  BY <1>1 DEF ReplayClears, OwnMarker, DiskShape
<1>5. disk' \in DiskShape
  BY <1>1, <1>3 DEF ReplayClears, OwnMarker, DiskShape
<1>6. /\ replay'.pc = "settle" /\ replay'.rewrote = replay.rewrote /\ replay'.raised = replay.raised
      /\ replay' \in ReplayShape
  BY <1>1 DEF ReplayClears, ReplayShape, ReplayStep
<1>7. DrainHeld'
  BY <1>6 DEF DrainHeld, Under
<1>8. RunHeldOff'
  <2>1. Own = (IF replay.raised THEN 1 ELSE 0) /\ Own' = 0 /\ Unrecorded = {}
    BY <1>2, <1>6 DEF Own, Unrecorded, Under
  <2>2. run.phase # "running" /\ (replay.rewrote # {} => replay.raised) /\ Own <= disk.markers
        /\ (run.stale \subseteq disk.forget \/ Own < disk.markers)
    BY <1>2, <2>1 DEF ParkInv, RunHeldOff
  <2>3. run.stale \subseteq disk.forget \/ Own' < disk'.markers
    BY <1>3, <1>4, <2>1, <2>2
  <2>4. Own' <= disk'.markers
    BY <1>3, <1>4, <2>1
  <2> QED
    BY <1>2, <1>4, <1>6, <2>2, <2>3, <2>4 DEF RunHeldOff
<1>9. Files' = Files
  BY <1>4 DEF Files
<1> QED
  BY <1>1, <1>2, <1>5, <1>6, <1>7, <1>8, <1>9, DrainKeeps

LEMMA SettlesKeeps ==
  ASSUME ParkInv, ReplaySettles
  PROVE  ParkInv' /\ Kept
<1>1. disk \in DiskShape /\ run \in RunShape /\ replay \in ReplayShape
  BY DEF ParkInv, ParkShape
<1>2. UNCHANGED <<chain, sidecar, gone, raced, commits, run, disk>> /\ replay.pc = "settle"
  BY DEF ReplaySettles
<1>3. /\ replay'.pc = "forget" /\ replay'.rewrote = replay.rewrote /\ replay'.raised = replay.raised
      /\ replay' \in ReplayShape
  BY <1>1 DEF ReplaySettles, ReplayShape, ReplayStep
<1>4. DrainHeld'
  BY <1>3 DEF DrainHeld, Under
<1>5. RunHeldOff'
  BY <1>1, <1>2, <1>3 DEF ParkInv, RunHeldOff, Own, Unrecorded, Under
<1>6. Files' = Files
  BY <1>2 DEF Files
<1> QED
  BY <1>1, <1>2, <1>3, <1>4, <1>5, <1>6, DrainKeeps

LEMMA ForgetsKeeps ==
  ASSUME ParkInv, ReplayForgets
  PROVE  ParkInv' /\ Kept
<1>1. disk \in DiskShape /\ run \in RunShape /\ replay \in ReplayShape
  BY DEF ParkInv, ParkShape
<1>2. /\ UNCHANGED <<chain, sidecar, gone, raced, commits>> /\ replay.pc = "forget" /\ replay' = NoReplay
      /\ \/ /\ run' = [run EXCEPT !.copied = @ \ disk.forget, !.stale = @ \ disk.forget]
            /\ disk' = [disk EXCEPT !.forget = {}]
         \/ UNCHANGED <<run, disk>>
  BY DEF ReplayForgets
<1>3. /\ disk'.park = disk.park /\ disk'.draining = disk.draining /\ disk'.markers = disk.markers
      /\ disk' \in DiskShape
  BY <1>1, <1>2 DEF DiskShape
<1>4. /\ run'.phase = run.phase /\ run' \in RunShape
      /\ (run'.stale = run.stale \ disk.forget /\ disk'.forget = {}) \/ (run'.stale = run.stale /\ disk'.forget = disk.forget)
  BY <1>1, <1>2 DEF RunShape, DiskShape
<1>5. /\ replay'.pc = "idle" /\ replay'.rewrote = {} /\ replay'.raised = FALSE /\ replay' \in ReplayShape
  BY <1>2 DEF NoReplay, ReplayShape, ReplayStep
<1>6. DrainHeld'
  BY <1>5 DEF DrainHeld, Under
<1>7. RunHeldOff'
  <2>1. Own = 0 /\ Own' = 0 /\ Unrecorded = {} /\ Unrecorded' = {}
    BY <1>2, <1>5 DEF Own, Unrecorded, Under
  <2> QED
    BY <1>2, <1>3, <1>4, <1>5, <2>1 DEF ParkInv, RunHeldOff
<1>8. Files' = Files
  BY <1>3 DEF Files
<1> QED
  BY <1>1, <1>2, <1>3, <1>4, <1>5, <1>6, <1>7, <1>8, DrainKeeps

LEMMA RunStartsKeeps ==
  ASSUME ParkInv, RunStarts
  PROVE  ParkInv' /\ Kept
<1>1. disk \in DiskShape /\ run \in RunShape /\ replay \in ReplayShape
  BY DEF ParkInv, ParkShape
<1>2. UNCHANGED <<chain, sidecar, gone, raced, commits, replay>> /\ replay.pc = "idle"
  BY DEF RunStarts
<1>3. CASE disk.markers # 0
  <2>1. disk' = disk /\ run' = [run EXCEPT !.phase = "none"]
    BY <1>3 DEF RunStarts
  <2>2. run' \in RunShape /\ run'.stale = run.stale /\ run'.phase = "none"
    BY <1>1, <2>1 DEF RunShape
  <2> QED
    BY <1>2, <2>1, <2>2, ParkQuietKeeps
<1>4. CASE disk.markers = 0
  <2>1. /\ run' = [run EXCEPT !.phase = "running", !.copied = @ \ disk.forget, !.stale = @ \ disk.forget]
        /\ disk' = [disk EXCEPT !.forget = {}]
    BY <1>4 DEF RunStarts
  <2>2. /\ disk'.park = disk.park /\ disk'.draining = disk.draining /\ disk'.markers = disk.markers
        /\ disk'.forget = {} /\ disk' \in DiskShape
    BY <1>1, <2>1 DEF DiskShape
  <2>3. run'.stale = run.stale \ disk.forget /\ run' \in RunShape
    BY <1>1, <2>1 DEF RunShape, DiskShape
  <2>4. DrainHeld'
    BY <1>2 DEF DrainHeld, Under
  <2>5. RunHeldOff'
    <3>1. Own = 0 /\ Own' = 0 /\ Unrecorded = {} /\ Unrecorded' = {}
      BY <1>2 DEF Own, Unrecorded, Under
    <3> QED
      BY <1>2, <1>4, <2>2, <2>3, <3>1 DEF ParkInv, RunHeldOff
  <2>6. Files' = Files
    BY <2>2 DEF Files
  <2> QED
    BY <1>1, <1>2, <2>2, <2>3, <2>4, <2>5, <2>6, DrainKeeps
<1> QED
  BY <1>3, <1>4

LEMMA DiesKeeps ==
  ASSUME ParkInv, Dies
  PROVE  ParkInv' /\ Kept
<1>1. ParkShape /\ disk \in DiskShape /\ run \in RunShape /\ replay \in ReplayShape
  BY DEF ParkInv, ParkShape
<1>2. /\ UNCHANGED <<disk, sidecar, gone, raced, commits>> /\ replay' = NoReplay
      /\ chain' = [s \in Sessions |-> NoChain] /\ run' = [run EXCEPT !.phase = "none"]
  BY DEF Dies
<1>3. /\ replay'.pc = "idle" /\ replay'.rewrote = {} /\ replay'.raised = FALSE /\ replay' \in ReplayShape
  BY <1>2 DEF NoReplay, ReplayShape, ReplayStep
<1>4. run'.phase = "none" /\ run'.stale = run.stale /\ run' \in RunShape
  BY <1>1, <1>2 DEF RunShape
<1>5. ParkShape'
  <2>1. chain' \in [Sessions -> Chain]
    BY <1>2, NoChainFits
  <2> QED
    BY <1>1, <1>2, <1>3, <1>4, <2>1 DEF ParkShape
<1>6. EntryHeld' /\ Kept
  BY <1>2 DEF ParkInv, EntryHeld, Files, Kept, Spoken
<1>7. DrainHeld' /\ ReadHeld'
  BY <1>2, <1>3 DEF DrainHeld, ReadHeld, Under
<1>8. RunHeldOff'
  <2>1. Own' = 0 /\ disk.markers \in Nat
    BY <1>1, <1>3 DEF Own, DiskShape
  <2>2. Unrecorded # {} => Own = 1
    BY DEF ParkInv, RunHeldOff, Own, Unrecorded
  <2>3. Own = 0 \/ Own = 1
    BY DEF Own
  <2> QED
    BY <1>2, <1>3, <1>4, <2>1, <2>2, <2>3 DEF ParkInv, RunHeldOff
<1> QED
  BY <1>5, <1>6, <1>7, <1>8 DEF ParkInv

LEMMA ReadsKeeps ==
  ASSUME ParkInv, ReplayReads
  PROVE  ParkInv' /\ Kept
<1>0. PICK e : e = Oldest(replay.todo)
  OBVIOUS
<1>1. ParkShape /\ disk \in DiskShape /\ run \in RunShape /\ replay \in ReplayShape
  BY DEF ParkInv, ParkShape
<1>2. /\ UNCHANGED <<chain, sidecar, gone, commits, run>>
      /\ replay.pc = "loop" /\ replay.todo # {}
  BY DEF ReplayReads
<1>3. e \in replay.todo /\ e.s \in Sessions
  BY <1>0, <1>1, <1>2, OldestParked DEF ReplayShape
<1>4. raced \subseteq raced' /\ raced' \in SUBSET Sessions
      /\ (e.s \notin gone \cup raced' => chain[e.s] = NoChain)
  BY <1>0, <1>1, <1>3 DEF ReplayReads, ParkShape
<1>5. /\ disk'.park = disk.park /\ disk'.draining = disk.draining /\ disk'.forget = disk.forget
      /\ disk'.markers = (IF replay.raised THEN disk.markers ELSE disk.markers + 1)
      /\ disk' \in DiskShape
  BY <1>1 DEF ReplayReads, DiskShape
<1>6. /\ replay'.failed = replay.failed /\ replay'.rewrote = replay.rewrote /\ replay'.raised = TRUE
      /\ \/ /\ e.s \notin gone /\ replay'.pc = "merge" /\ replay'.todo = replay.todo /\ replay'.seen = sidecar[e.s]
         \/ /\ e.s \in gone /\ replay'.pc = "loop" /\ replay'.todo = replay.todo \ {e}
  BY <1>0, <1>1, <1>2 DEF ReplayReads, ReplayShape, Done
<1>7. replay' \in ReplayShape
  <2>1. sidecar[e.s] \in SUBSET Commits
    BY <1>1, <1>3 DEF ParkShape
  <2> QED
    BY <1>0, <1>1, <1>2, <2>1 DEF ReplayReads, ReplayShape, ReplayStep, Done
<1>8. ParkShape'
  BY <1>1, <1>2, <1>4, <1>5, <1>7 DEF ParkShape
<1>9. Files' = Files /\ \A f \in Files : Spoken(f) => Spoken(f)'
  BY <1>2, <1>4, <1>5 DEF Files, Spoken
<1>10. EntryHeld' /\ Kept
  BY <1>2, <1>9 DEF ParkInv, EntryHeld, Kept
<1>11. ReadHeld'
  <2>1. \A s \in Sessions \ (gone' \cup raced') : chain'[s] # NoChain => sidecar'[s] \subseteq chain'[s].text
    BY <1>2, <1>4 DEF ParkInv, ReadHeld
  <2>2. ASSUME replay'.pc = "merge", e.s \notin gone \cup raced'
        PROVE  replay'.seen = sidecar[e.s] /\ chain[e.s] = NoChain
    BY <1>4, <1>6, <2>2
  <2>3. replay'.pc = "merge" => Oldest(replay'.todo) = e
    BY <1>0, <1>6
  <2> QED
    BY <1>2, <2>1, <2>2, <2>3 DEF ReadHeld
<1>12. DrainHeld'
  <2>1. e.s \in gone => Spoken(e)'
    BY <1>2 DEF Spoken
  <2> QED
    BY <1>2, <1>3, <1>5, <1>6, <1>9, <2>1 DEF ParkInv, DrainHeld, Files, Under
<1>13. RunHeldOff'
  <2>1. Own = (IF replay.raised THEN 1 ELSE 0) /\ Own' = 1 /\ disk.markers \in Nat
    BY <1>1, <1>2, <1>6 DEF Own, Under, DiskShape
  <2>2. Unrecorded = replay.rewrote /\ Unrecorded' = replay.rewrote
    BY <1>2, <1>6 DEF Unrecorded, Under
  <2> QED
    BY <1>2, <1>5, <1>6, <2>1, <2>2 DEF ParkInv, RunHeldOff
<1> QED
  BY <1>8, <1>10, <1>11, <1>12, <1>13 DEF ParkInv

LEMMA WritesKeeps ==
  ASSUME ParkInv, ReplayWrites
  PROVE  ParkInv' /\ Kept
<1>0. PICK e : e = Oldest(replay.todo)
  OBVIOUS
<1>1. ParkShape /\ disk \in DiskShape /\ run \in RunShape /\ replay \in ReplayShape
  BY DEF ParkInv, ParkShape
<1>2. /\ UNCHANGED <<chain, disk, gone, raced, commits>>
      /\ replay.pc = "merge" /\ replay.todo # {} /\ replay.raised
  BY DEF ReplayWrites, ParkInv, DrainHeld
<1>3. e \in replay.todo /\ e \in Parked /\ e.s \in Sessions /\ e.text \in SUBSET Commits
  BY <1>0, <1>1, <1>2, OldestParked DEF ReplayShape
<1>4. e \in disk.draining /\ e.at \in e.text
  BY <1>2, <1>3 DEF ParkInv, DrainHeld, EntryHeld, Files, Under
<1>5. sidecar' = [sidecar EXCEPT ![e.s] = replay.seen \cup e.text]
  BY <1>0 DEF ReplayWrites, Merged
<1>6. /\ replay'.pc = "loop" /\ replay'.todo = replay.todo \ {e} /\ replay'.failed = replay.failed
      /\ replay'.rewrote = replay.rewrote \cup {e.s} /\ replay'.raised = replay.raised
      /\ replay' \in ReplayShape
  BY <1>0, <1>1, <1>3 DEF ReplayWrites, ReplayShape, ReplayStep, Done
<1>7. /\ run'.phase = run.phase /\ run' \in RunShape /\ run'.stale \subseteq run.stale \cup {e.s}
  BY <1>0, <1>1, <1>3 DEF ReplayWrites, RunShape
<1>8. e.s \notin gone \cup raced => replay.seen = sidecar[e.s] /\ chain[e.s] = NoChain
  BY <1>0, <1>2 DEF ParkInv, ReadHeld
<1>9. sidecar' \in [Sessions -> SUBSET Commits]
      /\ \A s \in Sessions : sidecar'[s] = IF s = e.s THEN replay.seen \cup e.text ELSE sidecar[s]
  BY <1>1, <1>3, <1>5 DEF ParkShape, ReplayShape
<1>10. ParkShape'
  BY <1>1, <1>2, <1>6, <1>7, <1>9 DEF ParkShape
<1>11. \A s \in Sessions \ (gone \cup raced) : sidecar[s] \subseteq sidecar'[s]
  BY <1>8, <1>9
<1>12. Spoken(e)' /\ \A f \in Parked : Spoken(f) => Spoken(f)'
  <2>1. Spoken(e)'
    BY <1>3, <1>4, <1>9 DEF Spoken
  <2>2. ASSUME NEW f \in Parked, Spoken(f) PROVE Spoken(f)'
    BY <1>2, <1>11, <2>2 DEF Spoken, Parked
  <2> QED
    BY <2>1, <2>2
<1>13. Files' = Files
  BY <1>2 DEF Files
<1>14. EntryHeld' /\ Kept
  BY <1>2, <1>11, <1>13 DEF ParkInv, EntryHeld, Kept
<1>15. ReadHeld'
  <2>1. ASSUME NEW s \in Sessions \ (gone \cup raced), chain[s] # NoChain PROVE sidecar'[s] \subseteq chain[s].text
    <3>1. s # e.s
      BY <2>1, <1>8
    <3> QED
      BY <2>1, <3>1, <1>9 DEF ParkInv, ReadHeld
  <2> QED
    BY <1>2, <1>6, <2>1 DEF ReadHeld
<1>16. DrainHeld'
  <2>1. disk.draining \subseteq Parked
    BY <1>1 DEF DiskShape
  <2> QED
    BY <1>2, <1>6, <1>12, <2>1 DEF ParkInv, DrainHeld, Under
<1>17. RunHeldOff'
  <2>1. Own = 1 /\ Own' = 1 /\ Unrecorded = replay.rewrote /\ Unrecorded' = replay.rewrote \cup {e.s}
    BY <1>2, <1>6 DEF Own, Unrecorded, Under
  <2> QED
    BY <1>2, <1>6, <1>7, <2>1 DEF ParkInv, RunHeldOff
<1> QED
  BY <1>10, <1>14, <1>15, <1>16, <1>17 DEF ParkInv

LEMMA ParkGoesOn ==
  ASSUME ParkInv, ParkNext
  PROVE  ParkInv' /\ Kept
<1>1. run \in RunShape
  BY DEF ParkInv, ParkShape
<1>2. ASSUME NEW s \in Sessions, RunCopies(s) PROVE ParkInv' /\ Kept
  <2>1. run' \in RunShape /\ run'.stale = run.stale /\ run'.phase = run.phase
    BY <1>1, <1>2 DEF RunCopies, RunShape
  <2> QED
    BY <1>2, <2>1, ParkQuietKeeps DEF RunCopies
<1>3. CASE PauseOn \/ PauseOff
  BY <1>1, <1>3, ParkQuietKeeps DEF PauseOn, PauseOff
<1>4. CASE RunHeld
  <2>1. run.left - 1 \in Nat
    BY <1>1, <1>4 DEF RunHeld, RunShape
  <2>2. run' = [run EXCEPT !.phase = "held", !.left = run.left - 1]
    BY <1>4 DEF RunHeld
  <2>3. run' \in RunShape /\ run'.stale = run.stale /\ run'.phase = "held"
    BY <1>1, <2>1, <2>2 DEF RunShape
  <2> QED
    BY <1>4, <2>3, ParkQuietKeeps DEF RunHeld
<1>5. CASE MigrationEnds
  <2>1. run' \in RunShape /\ run'.stale = run.stale /\ run'.phase = "none"
    BY <1>1, <1>5 DEF MigrationEnds, RunShape
  <2> QED
    BY <1>5, <2>1, ParkQuietKeeps DEF MigrationEnds
<1>6. CASE Replaying
  BY <1>6, OrphansKeeps, UnlinkKeeps, RenameKeeps, ReadsKeeps, WritesKeeps, EntryFailsKeeps, ReparksKeeps,
     FinishesKeeps, PendsKeeps, ClearsKeeps, SettlesKeeps, ForgetsKeeps DEF Replaying
<1> QED
  BY <1>2, <1>3, <1>4, <1>5, <1>6, ComposeKeeps, ChainWritesKeeps, ChainParksKeeps, DeletionKeeps,
     RefreshKeeps, RunStartsKeeps, DiesKeeps DEF ParkNext

LEMMA ParkStays == ParkInv /\ [ParkNext]_parkVars => ParkInv'
<1>1. ASSUME ParkInv, UNCHANGED parkVars PROVE ParkInv'
  <2>1. run \in RunShape
    BY <1>1 DEF ParkInv, ParkShape
  <2> QED
    BY <1>1, <2>1, ParkQuietKeeps DEF parkVars
<1> QED
  BY <1>1, ParkGoesOn

(* The inductive invariant of the replay, in every state of ParkSpec. *)
THEOREM ParkSpecHeld == ParkSpec => []ParkInv
  BY ParkStarts, ParkStays, PTL DEF ParkSpec

(***************************************************************************)
(* A migration never runs over a copy record older than the sidecar a      *)
(* replay rewrote: replay and run exclude each other, what a drain rewrote *)
(* is forgotten before a run begins, and a rewrite nobody could record     *)
(* leaves a marker that refuses the run (console/artifact-replay.ts).      *)
(***************************************************************************)
THEOREM NoStaleRecordHolds == ParkSpec => []NoStaleRecord
<1>1. ParkInv => NoStaleRecord
  BY DEF ParkInv, RunHeldOff, NoStaleRecord
<1> QED
  BY <1>1, ParkSpecHeld, PTL

(***************************************************************************)
(* No step of a closure, a pause, a drain, a migration or a crash loses a  *)
(* parked composition that its sidecar does not reflect, or takes a commit *)
(* out of a sidecar, unless the session is deleted or a live commit raced  *)
(* the replay for it (console/artifact-replay.ts, the gateway's chains).   *)
(***************************************************************************)
THEOREM ReplayLosesNothingHolds == ParkSpec => ReplayLosesNothing
<1> DEFINE Lossless ==
      /\ \A e \in disk.park \cup disk.draining :
            \/ e \in (disk.park \cup disk.draining)'
            \/ e.at \in sidecar'[e.s] \/ e.s \in gone' \cup raced'
      /\ \A s \in Sessions \ (gone' \cup raced') : sidecar[s] \subseteq sidecar'[s]
<1>1. ParkInv /\ [ParkNext]_parkVars => [Lossless]_parkVars
  <2>1. Kept => Lossless
    BY DEF Kept, Files, Spoken
  <2> HIDE DEF Lossless
  <2> QED
    BY <2>1, ParkGoesOn
<1>2. ParkSpec => [][Lossless]_parkVars
  <2> HIDE DEF Lossless
  <2> QED
    BY <1>1, ParkSpecHeld, PTL DEF ParkSpec
<1> QED
  BY <1>2 DEF ReplayLosesNothing
=============================================================================
