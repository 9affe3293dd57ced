----------------------------- MODULE PoolBounds -----------------------------
(***************************************************************************)
(* The server-side bounds of the fortress's Postgres pools (db.ts): the    *)
(* live ingest pool (rw), the read pool (ro), the background repair pool   *)
(* (bg) and the embed worker's own client (em) derive their startup        *)
(* parameters from one family of environment knobs, with defaults, zero    *)
(* values that mean different things, and clamps against one another.      *)
(* Times are seconds; a blank or unparseable knob is its default.          *)
(***************************************************************************)
EXTENDS Integers, FiniteSets

CONSTANT Knobs    \* the environments an operator may start the process with

(* msEnv: every knob that parses is a natural number.                      *)
Environments == [shared : Nat, ro : Nat, ingest : Nat, bg : Nat, life : Nat, lock : Nat, bgLock : Nat, txn : Nat]

ASSUME KnobsAssumption == Knobs \subseteq Environments

VARIABLES
  knobs,  \* the environment of this process
  pools   \* per role: the startup parameters its pool was built with

poolVars == <<knobs, pools>>

Roles == {"rw", "ro", "bg", "em"}
Unbuilt == [built |-> FALSE, statement |-> 0, lock |-> 0, txn |-> 0]

(* The DEFAULT_ constants.                                                  *)
Default == [shared |-> 120, ro |-> 20, ingest |-> 30, bg |-> 600,
            life |-> 3600, lock |-> 5, bgLock |-> 15, txn |-> 0]
Margin == 60

Least(m, n) == IF m <= n THEN m ELSE n
Most(m, n) == IF m >= n THEN m ELSE n

(* The knobs whose 0 is not a setting: it means the default.               *)
Positive(knob) == IF knobs[knob] > 0 THEN knobs[knob] ELSE Default[knob]

(* hxPoolOptions: the shared bound's 0 strips every startup parameter, an  *)
(* override's too; a lock or transaction bound of 0 omits that one alone.  *)
StartupAlways(statement, lock, txn) ==
  [built |-> TRUE, statement |-> statement, lock |-> lock, txn |-> txn]
Startup(statement, lock, txn) ==
  IF knobs.shared = 0 \/ statement = 0
  THEN [Unbuilt EXCEPT !.built = TRUE]
  ELSE [built |-> TRUE, statement |-> statement, lock |-> lock, txn |-> txn]

(* hxPoolOptionsFor bg: a shared bound lowered below its default wins over *)
(* the background budget, and a short connection lifetime caps either, but *)
(* never below what the live path is given.                                *)
BgCapCrushed == Most(1, Positive("life") - Margin)
BgCap == Most(Positive("ingest"), Positive("life") - Margin)
BgStatement ==
  Least(IF knobs.shared < Default.shared THEN knobs.shared ELSE Positive("bg"), BgCap)

(* hxPoolOptionsFor ro: 0 opts out of the read cap, not of the shared one. *)
RoStatement == IF knobs.ro = 0 THEN knobs.shared ELSE Least(knobs.shared, knobs.ro)
RwStatement == Least(knobs.shared, Positive("ingest"))

Options(role) ==
  CASE role = "rw" -> Startup(RwStatement, knobs.lock, knobs.txn)
    [] role = "ro" -> Startup(RoStatement, 0, 0)
    [] role = "bg" -> Startup(BgStatement, knobs.bgLock, 0)
    [] role = "em" -> Startup(300, 0, 0)

(* Off: the pools were built before.                                       *)
PoolInit(on) ==
  /\ knobs \in IF on THEN Knobs ELSE {Default}
  /\ pools = [r \in Roles |-> IF on THEN Unbuilt ELSE Options(r)]

(* A pool is built when it is first resolved.                              *)
BuildPool(role) ==
  /\ ~pools[role].built
  /\ pools' = [pools EXCEPT ![role] = Options(role)]
  /\ UNCHANGED knobs

PoolNext == \E role \in Roles : BuildPool(role)

PoolSpec == PoolInit(TRUE) /\ [][PoolNext]_poolVars

-----------------------------------------------------------------------------
(* Whatever the environment says: with the shared bound at 0 no pool sends *)
(* a startup parameter, and otherwise each has a bound; the live and read  *)
(* pools are never looser than the shared bound, nor is repair where an    *)
(* operator lowered it; repair is never given a budget its connection      *)
(* cannot live through, nor, unless its own knob asks for one, a smaller   *)
(* budget than the live path has (the clamps of hxPoolOptionsFor).         *)
PoolsBounded ==
  \A role \in {r \in Roles : pools[r].built} :
    LET pool == pools[role] IN
      /\ (pool.statement = 0) <=> (knobs.shared = 0)
      /\ knobs.shared = 0 => pool = [Unbuilt EXCEPT !.built = TRUE]
      /\ role \in {"rw", "ro"} => pool.statement <= knobs.shared
      /\ role = "bg" =>
           /\ knobs.shared < Default.shared => pool.statement <= knobs.shared
           /\ pool.statement > Positive("ingest")
                => pool.statement + Margin <= Positive("life")
           /\ knobs.shared > 0 =>
                pool.statement >= Least(RwStatement, Positive("bg"))
=============================================================================
