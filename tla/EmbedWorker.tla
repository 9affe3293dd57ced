----------------------------- MODULE EmbedWorker -----------------------------
(***************************************************************************)
(* The embed worker: passes over the turns that have no vector yet, off    *)
(* the commit path, each claiming the oldest of them, asking OpenAI with   *)
(* no transaction open and inserting one row at a time, while sessions are *)
(* replaced and deleted underneath.  A debounce timer and a rerun flag     *)
(* decide when the next pass runs.                                         *)
(*                                                                         *)
(* Turns are numbered in the order they are created.  OpenAI is external:  *)
(* it answers a batch with a vector or, after splitting and shrinking, a   *)
(* null per input, or it refuses the whole pass.                           *)
(***************************************************************************)
EXTENDS Naturals, FiniteSets

CONSTANTS
    MaxTurns,       \* turns that may ever land
    MaxPerPass,     \* the claim's LIMIT
    DeadAfter,      \* deadLetterThreshold
    DailyBudget,    \* dailyTokenBudget, one token a text
    MaxTroubles     \* bound: refused passes, killed connections, crashes, days, soft deletes

ASSUME EmbedAssumption ==
    /\ MaxPerPass \in Nat \ {0} /\ DeadAfter \in Nat \ {0}
    /\ {MaxTurns, DailyBudget, MaxTroubles} \subseteq Nat

Turns == 1..MaxTurns

VARIABLES
    emTurns,    \* hx.turns: where each is, its text, and whether OpenAI can embed it
    emVectors,  \* hx.embeddings: the text each vector was made of
    emBudget,   \* hx.embed_budget and what was really spent today
    emWorker,   \* the scheduler's locals
    emPass,     \* runEmbedPass's locals
    emTroubles

emVars == <<emTurns, emVectors, emBudget, emWorker, emPass, emTroubles>>

Turn == [at : {"none", "live", "soft", "gone"}, text : {"a", "b"}, poison : BOOLEAN]
NoPass == [pc |-> "idle", claimed |-> {}, reuse |-> {}, fresh |-> {}, failed |-> {}, full |-> FALSE]
Asleep == [on |-> TRUE, up |-> FALSE, timer |-> "none", running |-> FALSE, rerun |-> FALSE, owed |-> FALSE,
           handle |-> "none", fails |-> [t \in Turns |-> 0], dead |-> {}, excused |-> TRUE]

\* Text "b" is what OpenAI cannot embed.
EmbedInit(on) ==
    /\ emTurns \in [Turns -> {[at |-> "none", text |-> x, poison |-> x = "b"] : x \in {"a", "b"}}]
    /\ on \/ \A t \in Turns : emTurns[t].text = "a"
    /\ emVectors = [t \in Turns |-> "none"]
    /\ emBudget = [recorded |-> 0, paid |-> 0, lost |-> 0]
    /\ emWorker = [Asleep EXCEPT !.on = on, !.up = on, !.timer = IF on THEN "armed" ELSE "none", !.excused = ~on]
    /\ emPass = NoPass
    /\ emTroubles = 0

Trouble == emTroubles < MaxTroubles /\ emTroubles' = emTroubles + 1

-----------------------------------------------------------------------------
(* The commit path                                                         *)

\* A commit inserts the next turn; the nudge follows the transaction.
TurnLands(t) ==
    /\ emWorker.up /\ emTurns[t].at = "none" /\ \A u \in Turns : u < t => emTurns[u].at # "none"
    /\ emTurns' = [emTurns EXCEPT ![t].at = "live"]
    /\ emWorker' = [emWorker EXCEPT !.owed = TRUE]
    /\ UNCHANGED <<emVectors, emBudget, emPass, emTroubles>>

\* arm(): a pass under way is asked to run again, anything else is debounced.
ArmForgets(w) == IF w.running THEN w ELSE [w EXCEPT !.timer = "armed"]
Arm(w) == IF w.running THEN [w EXCEPT !.rerun = TRUE] ELSE [w EXCEPT !.timer = "armed"]

Signal ==
    /\ emWorker.up /\ emWorker.owed
    /\ emWorker' = Arm([emWorker EXCEPT !.owed = FALSE, !.excused = FALSE])
    /\ UNCHANGED <<emTurns, emVectors, emBudget, emPass, emTroubles>>

\* A replace or a permanent delete: the turn and its vector, in one transaction.
TurnReplaced(t) ==
    /\ emTurns[t].at \in {"live", "soft"}
    /\ emTurns' = [emTurns EXCEPT ![t].at = "gone"]
    /\ emVectors' = [emVectors EXCEPT ![t] = "none"]
    /\ UNCHANGED <<emBudget, emWorker, emPass, emTroubles>>

TurnSoftDeleted(t) ==
    /\ emTurns[t].at = "live" /\ Trouble
    /\ emTurns' = [emTurns EXCEPT ![t].at = "soft"]
    /\ UNCHANGED <<emVectors, emBudget, emWorker, emPass>>

\* The UTC day ends.
DayRolls ==
    /\ emBudget.recorded > 0 /\ Trouble
    /\ emBudget' = [recorded |-> 0, paid |-> 0, lost |-> 0]
    /\ UNCHANGED <<emTurns, emVectors, emWorker, emPass>>

-----------------------------------------------------------------------------
(* createEmbedWorker                                                       *)

\* tick(): a handle of its own, built on demand from the live DSN.
WorkerTick ==
    /\ emWorker.up /\ emWorker.timer = "armed"
    /\ emWorker' = [emWorker EXCEPT !.timer = "none", !.running = TRUE,
                      !.handle = IF @ = "none" THEN "good" ELSE @]
    /\ emPass' = [NoPass EXCEPT !.pc = "claim"]
    /\ UNCHANGED <<emTurns, emVectors, emBudget, emTroubles>>

\* With no DSN the worker looks again at its own cadence, for good.
TickWithoutDsn ==
    /\ emWorker.up /\ emWorker.timer = "armed" /\ emWorker.handle = "none" /\ Trouble
    /\ UNCHANGED <<emTurns, emVectors, emBudget, emWorker, emPass>>

\* The guarded database was rebuilt: the handle is dropped, not closed.
HandleReset ==
    /\ emWorker.up /\ emWorker.handle # "none" /\ Trouble
    /\ emWorker' = [emWorker EXCEPT !.handle = "none"]
    /\ UNCHANGED <<emTurns, emVectors, emBudget, emPass>>

Unembedded == {t \in Turns : emTurns[t].at = "live" /\ emVectors[t] = "none"}

\* The anti-join, oldest first.
Claim(eligible) ==
    {t \in eligible : Cardinality({u \in eligible : u < t}) < MaxPerPass}

OverLate == DailyBudget > 0 /\ emBudget.recorded > DailyBudget
Over == DailyBudget > 0 /\ emBudget.recorded >= DailyBudget

\* After the pass: back to sleep, again at once, or again since a signal came.
Rested(w, full) ==
    LET woken == [w EXCEPT !.running = FALSE]
    IN  IF w.rerun \/ full THEN [woken EXCEPT !.rerun = FALSE, !.timer = "armed"] ELSE woken

\* The gates and the claim; nothing to claim or a spent budget end the pass.
PassClaims ==
    /\ emPass.pc = "claim"
    /\ LET claimed == Claim(Unembedded \ emWorker.dead)
           texts == {emTurns[t].text : t \in claimed}
           reuse == texts \cap {emVectors[t] : t \in Turns}
       IN  IF Over \/ claimed = {}
           THEN /\ emPass' = NoPass
                /\ emWorker' = Rested([emWorker EXCEPT !.excused = @ \/ Over, !.fails = [t \in Turns |-> 0]], FALSE)
           ELSE /\ emPass' = [NoPass EXCEPT !.pc = IF texts = reuse THEN "insert" ELSE "embed",
                                            !.claimed = claimed, !.reuse = reuse,
                                            !.full = Cardinality(claimed) = MaxPerPass]
                /\ UNCHANGED emWorker
    /\ UNCHANGED <<emTurns, emVectors, emBudget, emTroubles>>

Asked == {emTurns[t].text : t \in emPass.claimed} \ emPass.reuse

\* embed(): a null only for an input that is refused by itself.
Embedded == {x \in Asked : \A t \in emPass.claimed : emTurns[t].text = x => ~emTurns[t].poison}

OpenAiAnswers ==
    /\ emPass.pc = "embed"
    /\ emPass' = [emPass EXCEPT !.pc = "spend", !.fresh = Embedded]
    /\ emBudget' = [emBudget EXCEPT !.paid = @ + Cardinality(Asked)]
    /\ UNCHANGED <<emTurns, emVectors, emWorker, emTroubles>>

\* A pass that throws is over, with what it had paid for unrecorded; only a
\* signal that came meanwhile starts another.
Aborted(w) == Rested([w EXCEPT !.excused = ~w.rerun], FALSE)

\* A 429, a 5xx, a network error or the account itself: the pass is given up and
\* nobody's failure is counted ...
RefusedPassNull ==
    emPass' = [emPass EXCEPT !.pc = "insert"] /\ UNCHANGED emWorker
RefusedPass ==
    /\ emPass' = NoPass /\ emWorker' = Aborted(emWorker)

OpenAiRefuses(paid) ==
    /\ emPass.pc = "embed" /\ Trouble
    /\ emBudget' = [emBudget EXCEPT !.paid = @ + paid, !.lost = @ + paid]
    /\ RefusedPass
    /\ UNCHANGED <<emTurns, emVectors>>

\* ... as it is when the database goes away under the pass: a killed connection
\* drops the handle, unless it was replaced meanwhile.
DatabaseFails ==
    /\ emPass.pc \in {"claim", "spend", "insert"} /\ Trouble
    /\ emPass' = NoPass
    /\ emWorker' = [Aborted(emWorker) EXCEPT !.handle = "none"]
    /\ emBudget' = [emBudget EXCEPT !.lost = IF emPass.pc = "spend" THEN @ + Cardinality(Asked) ELSE @]
    /\ UNCHANGED <<emTurns, emVectors>>

RecordSpend ==
    /\ emPass.pc = "spend"
    /\ emBudget' = [emBudget EXCEPT !.recorded = @ + Cardinality(Asked)]
    /\ emPass' = [emPass EXCEPT !.pc = "insert"]
    /\ UNCHANGED <<emTurns, emVectors, emWorker, emTroubles>>

\* INSERT ... WHERE EXISTS (the live turn) ON CONFLICT DO NOTHING.
StillLiveSkipped(t) == TRUE
StillLive(t) == emTurns[t].at = "live"

InsertVector ==
    LET t == CHOOSE u \in emPass.claimed : \A v \in emPass.claimed : u <= v
        x == emTurns[t].text
        rest == [emPass EXCEPT !.claimed = @ \ {t}]
    IN  /\ emPass.pc = "insert" /\ emPass.claimed # {}
        /\ IF x \in emPass.reuse \cup emPass.fresh
           THEN /\ emPass' = rest
                /\ emVectors' = IF StillLive(t) /\ emVectors[t] = "none"
                                THEN [emVectors EXCEPT ![t] = x] ELSE emVectors
           ELSE emPass' = [rest EXCEPT !.failed = @ \cup {t}] /\ UNCHANGED emVectors
        /\ UNCHANGED <<emTurns, emBudget, emWorker, emTroubles>>

\* applyDeadLetterBookkeeping: consecutive failures, then no more claims.
Failures(t) == IF t \in emPass.failed THEN emWorker.fails[t] + 1 ELSE 0

PassEnds ==
    /\ emPass.pc = "insert" /\ emPass.claimed = {}
    /\ emPass' = NoPass
    /\ emWorker' = Rested([emWorker EXCEPT
                      !.dead = @ \cup {t \in emPass.failed : Failures(t) >= DeadAfter},
                      !.fails = [t \in Turns |-> IF Failures(t) >= DeadAfter THEN 0 ELSE Failures(t)]],
                         emPass.full)
    /\ UNCHANGED <<emTurns, emVectors, emBudget, emTroubles>>

\* The process dies, and its worker starts with a drain.
WorkerCrashes ==
    /\ emWorker.up /\ Trouble
    /\ emWorker' = Asleep /\ emPass' = NoPass
    /\ emBudget' = [emBudget EXCEPT !.lost = IF emPass.pc = "spend" THEN @ + Cardinality(Asked) ELSE @]
    /\ UNCHANGED <<emTurns, emVectors>>

WorkerStarts ==
    /\ emWorker.on /\ ~emWorker.up
    /\ emWorker' = [Asleep EXCEPT !.up = TRUE, !.timer = "armed", !.excused = FALSE]
    /\ UNCHANGED <<emTurns, emVectors, emBudget, emPass, emTroubles>>

-----------------------------------------------------------------------------
EmbedNext ==
    \/ \E t \in Turns : TurnLands(t) \/ TurnReplaced(t) \/ TurnSoftDeleted(t)
    \/ Signal \/ DayRolls \/ WorkerTick \/ TickWithoutDsn \/ HandleReset
    \/ PassClaims \/ OpenAiAnswers \/ (\E paid \in 0..MaxPerPass : OpenAiRefuses(paid))
    \/ DatabaseFails \/ RecordSpend \/ InsertVector \/ PassEnds
    \/ WorkerCrashes \/ WorkerStarts

\* Timers fire, and every await of a pass settles.
EmbedFairness ==
    /\ WF_emVars(Signal) /\ WF_emVars(WorkerTick)
    /\ WF_emVars(PassClaims) /\ WF_emVars(OpenAiAnswers)
    /\ WF_emVars(RecordSpend) /\ WF_emVars(InsertVector) /\ WF_emVars(PassEnds)

EmbedSpec == EmbedInit(TRUE) /\ [][EmbedNext]_emVars /\ EmbedFairness

-----------------------------------------------------------------------------
\* No vector outlives its turn, whatever replaces or deletes the turn while a pass
\* that claimed it is at OpenAI (INSERT ... WHERE EXISTS).
NoOrphans == \A t \in Turns : emVectors[t] # "none" => emTurns[t].at # "gone"

\* Only what OpenAI cannot embed is dead-lettered: outages, quotas and killed
\* connections never cost a good turn its vector.
DeadLetterJust == \A t \in emWorker.dead : emTurns[t].poison

\* A day is overspent by less than one pass, apart from what aborted passes paid
\* for and never recorded.
BudgetHeld == DailyBudget > 0 => emBudget.paid <= emBudget.lost + DailyBudget + MaxPerPass - 1

\* The three together (runEmbedPass, applyDeadLetterBookkeeping).
EmbedSafe == NoOrphans /\ DeadLetterJust /\ BudgetHeld

\* The worker never goes to sleep on a backlog: a live turn that can be embedded is,
\* unless the last pass failed or met the day's ceiling and nothing signalled since.
EmbedDrains ==
    []<>(\/ ~emWorker.up \/ emWorker.excused
         \/ \A t \in Unembedded : emTurns[t].poison)
=============================================================================
