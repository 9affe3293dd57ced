----------------------------- MODULE Residency -----------------------------
(***************************************************************************)
(* The residency audit: one command of the console's plane, which compares *)
(* what the database claims with what the bucket holds and with what the   *)
(* hub says it delivered, while members go on deleting sessions, operators *)
(* acknowledge findings, and the terminal turns the cloud witness on or    *)
(* off.                                                                    *)
(*                                                                         *)
(* The hub is external: it answers a batch, refuses it with a wait, or     *)
(* says nothing.  A batch is one id.  The run takes ONE listing of the     *)
(* bucket, which may miss any key that is there: a session's own key is    *)
(* then asked for by itself, a lane's never is.                            *)
(***************************************************************************)
EXTENDS Naturals, FiniteSets

CONSTANTS
    Rows,               \* sessions this fortress claims
    Probe,              \* the one of them whose facts are arbitrary
    RunBudget,          \* perRunBudget
    ExtraWaits,         \* EXTRA_WAITS
    MaxAudits, MaxToggles, MaxErrors       \* bounds of the model

ASSUME ResidencyAssumption ==
    /\ IsFiniteSet(Rows) /\ Probe \in Rows
    /\ {RunBudget, ExtraWaits, MaxAudits, MaxToggles, MaxErrors} \subseteq Nat

VARIABLES
    fact,       \* what is true of each session, here and at the hub
    alive,      \* the live session rows
    acks,       \* hx.audit_acks
    ledger,     \* sessions a recorded finding says are also at let.ai
    setting,    \* hx.audit_settings.cloud_witness
    audit,      \* the run in progress, or the last one
    terminal,   \* the witness intent, its handler and the published mirror
    spent       \* spent bounds

auditVars == <<fact, alive, acks, ledger, setting, audit, terminal, spent>>

-----------------------------------------------------------------------------
(* State                                                                   *)

\* AuditSessionRow, the bucket's side and the hub's side of one session.
Fact == [channel : {"tunnel", "gateway", "unknown"}, attributed : BOOLEAN, turns : BOOLEAN,
         object : BOOLEAN, lane : BOOLEAN, routed : BOOLEAN, copy : BOOLEAN]

\* Only what was relayed is known at the hub, and attribution is of relayed rows.
Possible(f) == f.channel = "tunnel" \/ (~f.routed /\ ~f.copy /\ f.attributed)

Delivered == [channel |-> "tunnel", attributed |-> TRUE, turns |-> TRUE, object |-> TRUE,
              lane |-> FALSE, routed |-> TRUE, copy |-> FALSE]

Verdicts == {"confirmed", "also_at_letai", "not_delivered_here", "no_record", "copy_unchecked",
             "missing_here", "lanes_hold_it", "residency_unchecked", "residency_unwitnessable",
             "unknown_provenance", "not_applicable"}

AuditStep == {"idle", "rows", "list", "ask", "wait", "check", "done"}
NoAudit == [pc |-> "idle", on |-> FALSE, acked |-> {}, rows |-> {}, listed |-> {}, lanes |-> {}, asked |-> {},
            todo |-> {}, answered |-> {}, mute |-> FALSE, waits |-> 0, cost |-> 0, left |-> {},
            verdict |-> [s \in Rows |-> "none"], truncated |-> FALSE, outcome |-> "none"]

\* WitnessIntent on disk, what a handler holds, PublishedAuditSettings.
Terminal == [file : {"none", "on", "off"}, handler : {"idle", "apply", "publish", "clear"},
             held : {"none", "on", "off"}, mirror : {"none", "on", "off"}, overlapped : BOOLEAN]

ResidencyTypeOK ==
    /\ fact \in [Rows -> Fact] /\ alive \subseteq Rows /\ acks \subseteq Rows /\ ledger \subseteq Rows
    /\ setting \in {"on", "off"} /\ terminal \in Terminal
    /\ audit.pc \in AuditStep /\ audit.verdict \in [Rows -> Verdicts \cup {"none"}]
    /\ audit.outcome \in {"none", "clean", "qualified", "failed", "error"}

\* Either the probe's facts are arbitrary, or the witness setting moves during
\* the run: the two do not meet, since a run reads the setting once.
ResidencyInit(on) ==
    /\ fact \in [Rows -> Fact]
    /\ \A s \in Rows : IF s = Probe /\ on THEN Possible(fact[s]) ELSE fact[s] = Delivered
    /\ alive = Rows /\ ledger = {}
    /\ acks \in {{}} \cup (IF on /\ fact[Probe].copy THEN {{Probe}} ELSE {})   \* of an earlier run
    /\ setting \in {"on"} \cup (IF on THEN {"off"} ELSE {})
    /\ audit = NoAudit
    /\ terminal = [file |-> "none", handler |-> "idle", held |-> "none", mirror |-> "none",
                   overlapped |-> FALSE]
    /\ spent = [audits  |-> IF on THEN 0 ELSE MaxAudits,
                toggles |-> IF on /\ fact[Probe] = Delivered THEN 0 ELSE MaxToggles,
                errors  |-> IF on THEN 0 ELSE MaxErrors]

-----------------------------------------------------------------------------
(* The fortress goes on working                                            *)

\* A member deletes a session for good: row, object and lanes.
MemberDeletes(s) ==
    /\ s \in alive /\ audit.pc \notin {"idle", "done"}
    /\ alive' = alive \ {s}
    /\ fact' = [fact EXCEPT ![s].object = FALSE, ![s].lane = FALSE]
    /\ UNCHANGED <<acks, ledger, setting, audit, terminal, spent>>

\* acknowledge_finding and its fenced routine: only over a recorded finding
\* of the weaker kind.
Acknowledge(s) ==
    /\ s \in ledger \ acks /\ audit.pc \in {"idle", "done"}    \* the plane runs one command
    /\ acks' = acks \cup {s}
    /\ UNCHANGED <<fact, alive, ledger, setting, audit, terminal, spent>>

\* sweepAuditRuns: runs age out with their findings, acknowledgements stay.
SweepRuns ==
    /\ ledger # {} /\ ledger' = {}
    /\ UNCHANGED <<fact, alive, acks, setting, audit, terminal, spent>>

-----------------------------------------------------------------------------
(* The verdict matrix                                                      *)

\* witnessEligible, and attribution: whose id may leave the box.
Eligible(s) == fact[s].channel = "tunnel"
Askable(s) == Eligible(s) /\ fact[s].attributed

\* The hub answered about this row in this run.
Answered(s) == ~audit.mute /\ s \in audit.answered
Says(s, what) == Answered(s) /\ what

VerdictFor(s, present) ==
    LET f == fact[s]
        routed == Says(s, f.routed)
        lane == s \in audit.lanes                    \* laneOwners, of the listing
    IN  IF ~present /\ ~f.turns /\ lane /\ ~routed /\ (~Eligible(s) \/ Answered(s))
          THEN "lanes_hold_it"
        ELSE IF ~Eligible(s)
          THEN IF ~present THEN "missing_here"
               ELSE IF f.channel = "gateway" THEN "not_applicable" ELSE "unknown_provenance"
        ELSE IF present
          THEN IF Says(s, f.copy) THEN "also_at_letai"
               ELSE IF Answered(s) THEN "confirmed" ELSE "copy_unchecked"
        ELSE IF ~Askable(s) THEN "residency_unwitnessable"
        ELSE IF ~Answered(s) THEN "residency_unchecked"
        ELSE IF routed THEN "not_delivered_here"
        ELSE IF f.turns \/ ~lane THEN "missing_here" ELSE "no_record"

\* sessionCheckPasses
Passes(v, acked) ==
    /\ v \notin {"not_delivered_here", "missing_here", "residency_unchecked",
                 "residency_unwitnessable"}
    /\ v = "also_at_letai" => acked

\* rollUp, and the engine's own rule for a run that stopped at its budget: the
\* notes that keep a run from being clean.
Notes(vs) ==
    vs \cap {"also_at_letai", "unknown_provenance", "not_applicable", "no_record",
             "copy_unchecked"} # {}

WitnessState == IF ~audit.on THEN "off" ELSE IF audit.mute THEN "unavailable" ELSE "attested"

RollUp(checked, fresh) ==
    LET vs == {audit.verdict[s] : s \in checked}
    IN  IF \E s \in checked : ~Passes(audit.verdict[s], s \in audit.acked) THEN "failed"
        ELSE IF Notes(vs) \/ WitnessState # "attested" \/ ~fresh \/ audit.left # {}
        THEN "qualified" ELSE "clean"

-----------------------------------------------------------------------------
(* runAuditForFortress and runResidencyAudit                               *)

\* The setting, whose failed read counts as off, and the acknowledgements, read once.
AuditStart(read) ==
    /\ audit.pc \in {"idle", "done"} /\ spent.audits < MaxAudits
    /\ read \/ spent.errors < MaxErrors
    /\ spent' = [spent EXCEPT !.audits = @ + 1, !.errors = IF read THEN @ ELSE @ + 1]
    /\ audit' = [NoAudit EXCEPT !.pc = "rows", !.on = read /\ setting = "on", !.acked = acks]
    /\ UNCHANGED <<fact, alive, acks, ledger, setting, terminal>>

AuditRows ==
    /\ audit.pc = "rows"
    /\ audit' = [audit EXCEPT !.pc = "list", !.rows = alive, !.left = alive]
    /\ UNCHANGED <<fact, alive, acks, ledger, setting, terminal, spent>>

\* One listing of objects and lanes; a page may miss a key that is there.
AuditList ==
    /\ audit.pc = "list"
    /\ \E listed \in SUBSET {s \in audit.rows : fact[s].object},
          lanes \in SUBSET {s \in audit.rows : fact[s].lane} :
          audit' = [audit EXCEPT !.listed = listed, !.lanes = lanes, !.cost = 1,
                      !.pc = IF audit.on THEN "ask" ELSE "check",
                      !.mute = ~audit.on,
                      !.todo = IF audit.on THEN {s \in audit.rows : Askable(s)} ELSE {},
                      !.waits = Cardinality({s \in audit.rows : Askable(s)}) + ExtraWaits]
    /\ UNCHANGED <<fact, alive, acks, ledger, setting, terminal, spent>>

Batch(todo) == CHOOSE s \in todo : TRUE

\* createWitnessClient: the hub answers this batch ...
HubAnswers ==
    /\ audit.pc = "ask" /\ audit.todo # {}
    /\ audit' = [audit EXCEPT !.todo = @ \ {Batch(@)}, !.answered = @ \cup {Batch(audit.todo)}]
    /\ UNCHANGED <<fact, alive, acks, ledger, setting, terminal, spent>>

WaitsLeftAlways == audit.waits
WaitsLeft == audit.waits - 1

\* ... or names a wait, which the sweep can afford so often ...
HubRefuses ==
    /\ audit.pc = "ask" /\ audit.todo # {} /\ audit.waits > 0
    /\ audit' = [audit EXCEPT !.pc = "wait", !.waits = WaitsLeft]
    /\ UNCHANGED <<fact, alive, acks, ledger, setting, terminal, spent>>

WaitOver ==
    /\ audit.pc = "wait"
    /\ audit' = [audit EXCEPT !.pc = "ask"]
    /\ UNCHANGED <<fact, alive, acks, ledger, setting, terminal, spent>>

\* An unanswered batch makes the whole witness unanswered.
MuteNever == FALSE
Mute == TRUE

\* ... or is silent, late or out of patience.
HubSilent ==
    /\ audit.pc = "ask" /\ audit.todo # {}
    /\ audit' = [audit EXCEPT !.pc = "check", !.mute = Mute]
    /\ UNCHANGED <<fact, alive, acks, ledger, setting, terminal, spent>>

AuditAsked ==
    /\ audit.pc = "ask" /\ audit.todo = {}
    /\ audit' = [audit EXCEPT !.pc = "check"]
    /\ UNCHANGED <<fact, alive, acks, ledger, setting, terminal, spent>>

\* One row: its own key, if the listing missed it, is asked for by itself.
AuditCheck ==
    LET s == CHOOSE r \in audit.left : TRUE
        listed == s \in audit.listed
    IN  /\ audit.pc = "check" /\ audit.left # {} /\ audit.cost < RunBudget
        /\ audit' = [audit EXCEPT !.left = @ \ {s},
                       !.cost = IF listed THEN @ ELSE @ + 1,
                       !.verdict[s] = VerdictFor(s, listed \/ fact[s].object)]
        /\ UNCHANGED <<fact, alive, acks, ledger, setting, terminal, spent>>

\* The budget is spent or every row was looked at: the roll-up, which
\* recordFindings and finishAuditRun put on record.
AuditFinish(fresh) ==
    /\ audit.pc = "check" /\ (audit.left = {} \/ audit.cost >= RunBudget)
    /\ audit' = [audit EXCEPT !.pc = "done", !.truncated = (audit.left # {}),
                              !.outcome = RollUp(audit.rows \ audit.left, fresh)]
    /\ ledger' = ledger \cup {s \in audit.rows : audit.verdict[s] = "also_at_letai"}
    /\ UNCHANGED <<fact, alive, acks, setting, terminal, spent>>

\* The database or the bucket did not answer: the run is finished as an error.
AuditFails ==
    /\ audit.pc \in {"rows", "list", "check"} /\ spent.errors < MaxErrors
    /\ spent' = [spent EXCEPT !.errors = @ + 1]
    /\ audit' = [audit EXCEPT !.pc = "done", !.outcome = "error"]
    /\ UNCHANGED <<fact, alive, acks, ledger, setting, terminal>>
-----------------------------------------------------------------------------
(* `audit witness on|off` from the terminal: an intent file and a signal   *)

\* The verb writes its intent and signals the daemon, which starts a handler;
\* a second verb during a handler is the overlap nothing serializes.
TerminalAsks(value) ==
    /\ spent.toggles < MaxToggles /\ spent' = [spent EXCEPT !.toggles = @ + 1]
    /\ terminal' = IF terminal.handler = "idle"
                   THEN [terminal EXCEPT !.file = value, !.handler = "apply", !.held = value]
                   ELSE [terminal EXCEPT !.file = value, !.overlapped = TRUE]
    /\ UNCHANGED <<fact, alive, acks, ledger, setting, audit>>

\* With no daemon to signal the intent stays on disk.
TerminalWaits(value) ==
    /\ spent.toggles < MaxToggles /\ spent' = [spent EXCEPT !.toggles = @ + 1]
    /\ terminal.handler = "idle"
    /\ terminal' = [terminal EXCEPT !.file = value]
    /\ UNCHANGED <<fact, alive, acks, ledger, setting, audit>>

\* applyCloudWitness: the routine, then the mirror ...
IntentApplies ==
    /\ terminal.handler = "apply"
    /\ setting' = terminal.held
    /\ terminal' = [terminal EXCEPT !.handler = "publish"]
    /\ UNCHANGED <<fact, alive, acks, ledger, audit, spent>>

IntentPublishes ==
    /\ terminal.handler = "publish"
    /\ terminal' = [terminal EXCEPT !.handler = "clear", !.mirror = terminal.held]
    /\ UNCHANGED <<fact, alive, acks, ledger, setting, audit, spent>>

\* ... unless the database is away: reported, and the intent is cleared too.
FailedIntentPublishes == "publish"
FailedIntent == "clear"

IntentFails ==
    /\ terminal.handler = "apply" /\ spent.errors < MaxErrors
    /\ spent' = [spent EXCEPT !.errors = @ + 1]
    /\ terminal' = [terminal EXCEPT !.handler = FailedIntent]
    /\ UNCHANGED <<fact, alive, acks, ledger, setting, audit>>

IntentClears ==
    /\ terminal.handler = "clear"
    /\ terminal' = [terminal EXCEPT !.handler = "idle", !.held = "none", !.file = "none"]
    /\ UNCHANGED <<fact, alive, acks, ledger, setting, audit, spent>>

\* witness_toggle, the console's command: the plane runs one at a time.
ConsoleToggles(value) ==
    /\ audit.pc \in {"idle", "done"} /\ terminal.handler = "idle"
    /\ spent.toggles < MaxToggles /\ spent' = [spent EXCEPT !.toggles = @ + 1]
    /\ setting' = value /\ terminal' = [terminal EXCEPT !.mirror = value]
    /\ UNCHANGED <<fact, alive, acks, ledger, audit>>

-----------------------------------------------------------------------------

ResidencyNext ==
    \/ \E s \in Rows : MemberDeletes(s) \/ Acknowledge(s)
    \/ SweepRuns
    \/ (\E read \in BOOLEAN : AuditStart(read)) \/ AuditRows \/ AuditList \/ HubAnswers \/ HubRefuses \/ WaitOver \/ HubSilent
    \/ AuditAsked \/ AuditCheck \/ AuditFails
    \/ \E fresh \in BOOLEAN : AuditFinish(fresh)
    \/ \E value \in {"on", "off"} : TerminalAsks(value) \/ TerminalWaits(value) \/ ConsoleToggles(value)
    \/ IntentApplies \/ IntentPublishes \/ IntentFails \/ IntentClears

(* The daemon's own steps go on.  The hub owes nothing: a question it never *)
(* answers times out (HubSilent), and only a refusal defers that.           *)
ResidencyFairness ==
    /\ WF_auditVars(AuditRows) /\ WF_auditVars(AuditList) /\ WF_auditVars(AuditAsked)
    /\ WF_auditVars(AuditCheck) /\ WF_auditVars(\E fresh \in BOOLEAN : AuditFinish(fresh))
    /\ WF_auditVars(HubAnswers \/ HubRefuses \/ HubSilent) /\ WF_auditVars(WaitOver)

ResidencySpec == ResidencyInit(TRUE) /\ [][ResidencyNext]_auditVars /\ ResidencyFairness

-----------------------------------------------------------------------------

\* Nothing of the transcript is here: no object, and not a stub whose lanes are.
Lost(s) == ~fact[s].object /\ ~(~fact[s].turns /\ fact[s].lane)

\* A stub whose lanes are here, and the listing showed none of them.
LanesMissed(s) == ~fact[s].object /\ ~fact[s].turns /\ fact[s].lane /\ s \notin audit.lanes

\* A run never says more than it established.  Clean: every row was reached,
\* none is lost, and of none that is here does the hub hold a copy.  A lost
\* session that was reached fails the run.  And a run fails only over a session
\* that is lost, was never delivered, was deleted under the run, could not be
\* asked about, has a copy nobody had acknowledged when the run began, or is a
\* stub whose lanes are here but not in the listing: a run can fail over nothing
\* but a page of the listing, never pass over a loss because of one.
VerdictJust ==
    LET reached == audit.rows \ audit.left
    IN  audit.pc = "done" =>
          /\ audit.outcome = "clean" =>
               \A s \in audit.rows \cap alive : ~Lost(s) /\ (fact[s].object => ~fact[s].copy)
          /\ (audit.outcome # "error" /\ \E s \in reached \cap alive : Lost(s))
               => audit.outcome = "failed"
          /\ audit.outcome = "failed" =>
               \E s \in reached : \/ Lost(s) \/ s \notin alive \/ LanesMissed(s)
                                  \/ ~fact[s].object /\ (fact[s].routed \/ WitnessState # "attested" \/ ~Askable(s))
                                  \/ fact[s].copy /\ s \notin audit.acked

\* The audit holds the command plane, so it comes back whatever the hub does:
\* refusals are bounded by the size of the sweep.
AuditReturns == []<>(audit.pc \notin {"rows", "list", "ask", "wait", "check"})

\* What `audit witness show` reports is what gates egress, unless two verbs
\* overlapped.
MirrorTrue ==
    terminal.handler = "idle" /\ ~terminal.overlapped /\ terminal.mirror # "none"
        => terminal.mirror = setting

\* What an operator is told about where the data lives is true (audit-engine.ts,
\* audit-witness.ts).
AuditHonest == VerdictJust /\ MirrorTrue
=============================================================================
