---------------------------- MODULE CommandPlane ----------------------------
(***************************************************************************)
(* The daemon side of hx.console_commands: the request table and its       *)
(* routines (host/postgres/console-plane.ts, reached through               *)
(* console/command-gateway.ts), the boot fence and the poll pass           *)
(* (console/commands.ts), the in-flight file (console/runtime-files.ts),   *)
(* the single-use credential files (console/cmd-creds.ts), the daemon's    *)
(* own transition records (console/daemon-audit.ts) and the console's      *)
(* corroboration of an outcome (ui/corroboration.ts).                      *)
(*                                                                         *)
(* Every await of the two loops is a step boundary: the fence and a poll   *)
(* pass interleave at those points, the process may die at any of them,    *)
(* and a database call may fail before or after it committed.  The poll    *)
(* timer is armed before the fence is reached (host/main.ts), so a pass    *)
(* may start, and even end, before the fence has read a row.               *)
(*                                                                         *)
(* Abstractions.  A row's age and parameters are its "shape" plus an       *)
(* Expire step; an outcome payload is (status, reason, execution number),  *)
(* which is all the digest comparison tells apart; listOpen's order by     *)
(* requested_at is dropped (a pass visits its rows in any order).          *)
(***************************************************************************)
EXTENDS Naturals, FiniteSets

CONSTANTS
  Cmds,           \* command row ids
  Credentialed,   \* the rows that carry a credential_ref
  MaxCrashes,     \* bound: how often the daemon process dies
  MaxFaults       \* bound: how many database or spool calls fail

ASSUME CmdsAssumption == IsFiniteSet(Cmds) /\ Credentialed \subseteq Cmds
ASSUME BoundsAssumption == MaxCrashes \in Nat /\ MaxFaults \in Nat

VARIABLES
  \* Postgres
  status,    \* [Cmds -> Statuses]
  payload,   \* [Cmds -> Payloads]: what the terminal transition wrote
  shape,     \* [Cmds -> Shapes]: fixed when the row is minted
  expired,   \* rows whose deadline_at has passed
  \* files
  inFlight,  \* commands-in-flight.json
  creds,     \* rows whose credential file is still on disk
  spool,     \* transition records that reached the daemon's audit spool
  \* daemon memory
  up,        \* the process runs and Postgres is ready
  tickets,   \* redriveIds
  fence,     \* the boot fence's locals
  poll,      \* the poll pass's locals
  \* bookkeeping of the model
  crashes, faults,
  runs,      \* [Cmds -> Nat]: how often an executor was entered
  bootRuns,  \* [Cmds -> Nat]: the same, in the current process only
  preboot,   \* rows that were already open when this process started
  early,     \* rows taken in hand by a pass that began before its fence ended
  unheard,   \* rows whose "done" report committed and whose answer was lost
  unreported \* rows whose report of a failure failed too

db    == <<status, payload, shape, expired>>
files == <<inFlight, creds, spool>>
ghost == <<runs, bootRuns, preboot, early, unheard, unreported>>
vars  == <<status, payload, shape, expired, inFlight, creds, spool, up, tickets,
           fence, poll, crashes, faults, runs, bootRuns, preboot, early, unheard, unreported>>

Terminal == {"done", "failed", "rejected"}
Open     == {"requested", "running"}
Statuses == {"absent"} \union Open \union Terminal
Shapes   == {"valid", "invalid", "future"}

RejectReasons == {"rejected_boot_fence", "rejected_deadline", "rejected_invalid_params"}
FailReasons   == {"credential_consumed", "executor_error", "report_error"}

None == [status |-> "none", why |-> "none", run |-> 0]
Done(n)      == [status |-> "done", why |-> "outcome", run |-> n]
Failed(w, n) == [status |-> "failed", why |-> w, run |-> n]
Rejected(w)  == [status |-> "rejected", why |-> w, run |-> 0]

Payloads == [status : Terminal \union {"none"},
             why : RejectReasons \union FailReasons \union {"outcome", "none"},
             run : Nat]

Record(c, k, p) == [cmd |-> c, kind |-> k, payload |-> p]
Records == [cmd : Cmds, kind : {"intent", "outcome"}, payload : Payloads]

(* The loops' locals; `row` is the row in hand, as a set of at most one. *)
NoFence == [pc |-> "off", todo |-> {}, file |-> {}, seen |-> [c \in Cmds |-> "absent"],
            row |-> {}, result |-> None, redriven |-> {}]
NoPoll  == [pc |-> "idle", todo |-> {}, seen |-> [c \in Cmds |-> "absent"], row |-> {},
            redrive |-> FALSE, result |-> None, throwing |-> FALSE, early |-> FALSE]

FencePcs == {"off", "list", "scan", "settle", "record", "remove", "done", "failed"}
PollPcs  == {"idle", "scan", "reject", "recordReject", "add", "claim", "drop", "recordClaim",
             "enter", "executing", "complete", "record", "remove"}

FenceType == [pc : FencePcs, todo : SUBSET Cmds, file : SUBSET Cmds, seen : [Cmds -> Statuses],
              row : SUBSET Cmds, result : Payloads, redriven : SUBSET Cmds]
PollType == [pc : PollPcs, todo : SUBSET Cmds, seen : [Cmds -> Statuses], row : SUBSET Cmds,
             redrive : BOOLEAN, result : Payloads, throwing : BOOLEAN, early : BOOLEAN]

TypeOK ==
  /\ status \in [Cmds -> Statuses]
  /\ payload \in [Cmds -> Payloads]
  /\ shape \in [Cmds -> Shapes]
  /\ expired \subseteq Cmds
  /\ inFlight \subseteq Cmds
  /\ creds \subseteq Credentialed
  /\ spool \subseteq Records
  /\ up \in BOOLEAN
  /\ tickets \subseteq Cmds
  /\ fence \in FenceType
  /\ poll \in PollType
  /\ crashes \in Nat /\ faults \in Nat
  /\ runs \in [Cmds -> Nat] /\ bootRuns \in [Cmds -> Nat]
  /\ preboot \subseteq Cmds /\ early \subseteq Cmds
  /\ unheard \subseteq Cmds /\ unreported \subseteq Cmds

Init ==
  /\ status = [c \in Cmds |-> "absent"]
  /\ payload = [c \in Cmds |-> None]
  /\ shape = [c \in Cmds |-> "valid"]
  /\ expired = {}
  /\ inFlight = {} /\ creds = {} /\ spool = {}
  /\ up = FALSE /\ tickets = {} /\ fence = NoFence /\ poll = NoPoll
  /\ crashes = 0 /\ faults = 0
  /\ runs = [c \in Cmds |-> 0] /\ bootRuns = [c \in Cmds |-> 0]
  /\ preboot = {} /\ early = {} /\ unheard = {} /\ unreported = {}

OpenRows == {c \in Cmds : status[c] \in Open}

-----------------------------------------------------------------------------
(* The routines.  Each is one UPDATE with a WHERE clause; "accepted" is    *)
(* whether it matched a row.                                               *)

(* The mutants drop the WHERE clause's test of the current status. *)
ClaimAcceptedAnyStatus(c, redrive) == shape[c] # "future"
ClaimAccepted(c, redrive) ==
  /\ shape[c] # "future"
  /\ status[c] = "requested" \/ (status[c] = "running" /\ redrive)

CompleteAcceptedAnyStatus(c) == TRUE
CompleteAccepted(c) == status[c] = "running"

RejectAccepted(c) == status[c] \in Open

(* A terminal transition as the database sees it: p is written when the
   routine accepts the row, nothing changes when it does not. *)
Settle(c, p, accepted) ==
  /\ status' = IF accepted THEN [status EXCEPT ![c] = p.status] ELSE status
  /\ payload' = IF accepted THEN [payload EXCEPT ![c] = p] ELSE payload
  /\ UNCHANGED <<shape, expired>>

(* A call that throws: with the statement lost, or committed and its answer
   lost.  `committed` is the effect the statement has when it commits. *)
Throws(committed, unchanged) ==
  /\ faults < MaxFaults
  /\ faults' = faults + 1
  /\ committed \/ unchanged

(* onTransition: one record appended to the spool.  An append that fails is
   swallowed (daemon-audit.ts, fail): the transition stands without it. *)
Append(r) ==
  \/ spool' = spool \union {r} /\ UNCHANGED faults
  \/ faults < MaxFaults /\ faults' = faults + 1 /\ UNCHANGED spool

-----------------------------------------------------------------------------
(* The environment.                                                        *)

(* mintCredential: only a submission with a secret writes a credential file.
   The mutant writes one for every submission. *)
MintForAll(c) == creds \union {c}
MintCredential(c) == IF c \in Credentialed THEN creds \union {c} ELSE creds

(* The console mints the credential file first, then the row
   (mutate-routes.ts).  The row's shape is a choice of the environment: the
   console validates, but rows may also predate this binary. *)
Submit(c) ==
  /\ status[c] = "absent"
  /\ \E s \in Shapes : shape' = [shape EXCEPT ![c] = s]
  /\ status' = [status EXCEPT ![c] = "requested"]
  /\ creds' = MintCredential(c)
  /\ UNCHANGED <<payload, expired, inFlight, spool, up, tickets, fence, poll, crashes, faults, ghost>>

(* deadline_at passes. *)
Expire(c) ==
  /\ status[c] \in Open /\ c \notin expired
  /\ expired' = expired \union {c}
  /\ UNCHANGED <<status, payload, shape, files, up, tickets, fence, poll, crashes, faults, ghost>>

(* The credential file outlives its TTL unconsumed and is swept, by the daemon
   at boot or by the console's timer.  The TTL is
   shorter than the row's deadline, so the row may still be claimable. *)
SweepCmdCreds(c) ==
  /\ c \in creds
  /\ creds' = creds \ {c}
  /\ UNCHANGED <<db, inFlight, spool, up, tickets, fence, poll, crashes, faults, ghost>>

Boot ==
  /\ ~up
  /\ up' = TRUE
  /\ tickets' = {} /\ fence' = NoFence /\ poll' = NoPoll
  /\ bootRuns' = [c \in Cmds |-> 0]
  /\ preboot' = OpenRows
  /\ UNCHANGED <<db, files, crashes, faults, runs, early, unheard, unreported>>

(* The process dies (or is restarted after an update): memory is lost, the
   table and the files stay. *)
Crash ==
  /\ up /\ crashes < MaxCrashes
  /\ crashes' = crashes + 1
  /\ up' = FALSE
  /\ tickets' = {} /\ fence' = NoFence /\ poll' = NoPoll
  /\ UNCHANGED <<db, files, faults, ghost>>

-----------------------------------------------------------------------------
(* runBootFence.                                                           *)

FenceFail == fence' = [NoFence EXCEPT !.pc = "failed"]

(* readInFlight: the file as it is now. *)
FenceReadFile ==
  /\ up /\ fence.pc = "off"
  /\ fence' = [fence EXCEPT !.pc = "list", !.file = inFlight]
  /\ UNCHANGED <<db, files, up, tickets, poll, crashes, faults, ghost>>

FenceList ==
  /\ up /\ fence.pc = "list"
  /\ \/ /\ fence' = [fence EXCEPT !.pc = "scan", !.todo = OpenRows, !.seen = status]
        /\ UNCHANGED faults
     \/ Throws(FenceFail, FALSE)
  /\ UNCHANGED <<db, files, up, tickets, poll, crashes, ghost>>

(* The decision for one row, from the listing and the file snapshot alone:
   running and in the file is ours, and re-driven, unless it carries a
   credential that the dead process may already have consumed; everything else
   is rejected.  The mutant re-drives credentialed rows like any other. *)
Mine(c) == fence.seen[c] = "running" /\ c \in fence.file
RedrivesAllMine(c) == Mine(c)
Redrives(c) == Mine(c) /\ c \notin Credentialed
FenceResult(c) == IF Mine(c) THEN Failed("credential_consumed", 0) ELSE Rejected("rejected_boot_fence")

(* redriveIds = new Set(fence.redriven).  The mutant forgets the hand-over. *)
TicketsLost == {}
TicketsGranted == fence.redriven

FenceScan ==
  /\ up /\ fence.pc = "scan"
  /\ \/ /\ \E c \in fence.todo :
             fence' = IF Redrives(c)
                        THEN [fence EXCEPT !.todo = @ \ {c}, !.redriven = @ \union {c}]
                        ELSE [fence EXCEPT !.todo = @ \ {c}, !.pc = "settle", !.row = {c},
                                           !.result = FenceResult(c)]
        /\ UNCHANGED tickets
     \/ /\ fence.todo = {}
        /\ fence' = [fence EXCEPT !.pc = "done"]
        /\ tickets' = TicketsGranted
  /\ UNCHANGED <<db, files, up, poll, crashes, faults, ghost>>

FenceAccepted(c) == IF fence.result.status = "failed" THEN CompleteAccepted(c) ELSE RejectAccepted(c)

FenceSettle(c) ==
  /\ up /\ fence.pc = "settle" /\ fence.row = {c}
  /\ \/ /\ Settle(c, fence.result, FenceAccepted(c))
        /\ fence' = [fence EXCEPT !.pc = "record"]
        /\ UNCHANGED faults
     \/ /\ FenceFail
        /\ Throws(Settle(c, fence.result, FenceAccepted(c)), UNCHANGED db)
  /\ UNCHANGED <<files, up, tickets, poll, crashes, ghost>>

(* onTransition, then removeInFlight. *)
FenceRecord(c) ==
  /\ up /\ fence.pc = "record" /\ fence.row = {c}
  /\ Append(Record(c, "outcome", fence.result))
  /\ fence' = [fence EXCEPT !.pc = "remove"]
  /\ UNCHANGED <<db, inFlight, creds, up, tickets, poll, crashes, ghost>>

FenceRemove(c) ==
  /\ up /\ fence.pc = "remove" /\ fence.row = {c}
  /\ inFlight' = inFlight \ {c}
  /\ fence' = [fence EXCEPT !.pc = "scan", !.row = {}, !.result = None]
  /\ UNCHANGED <<db, creds, spool, up, tickets, poll, crashes, faults, ghost>>

-----------------------------------------------------------------------------
(* pollCommands, single-flight.                                            *)

PollAbort == poll' = NoPoll

FenceEnded == fence.pc \in {"done", "failed"}

(* The timer's tick: nothing but a ready Postgres and the single-flight latch
   holds a pass back.  The pass keeps the ticket set it was started with: one
   that began before the fence ended holds the empty set the fence replaces. *)
PollStart ==
  /\ up /\ poll.pc = "idle"
  /\ OpenRows # {}
  /\ poll' = [NoPoll EXCEPT !.pc = "scan", !.todo = OpenRows, !.seen = status, !.early = ~FenceEnded]
  /\ UNCHANGED <<db, files, up, tickets, fence, crashes, faults, ghost>>

(* The loop head: skip a running row that carries no ticket, reject a future,
   late or malformed one, otherwise go and claim it. *)
PollScan ==
  /\ up /\ poll.pc = "scan"
  /\ \/ \E c \in poll.todo :
          LET redrive == poll.seen[c] = "running" /\ c \in tickets /\ ~poll.early
              skipped == poll.seen[c] = "running" /\ ~redrive
              next == [poll EXCEPT !.todo = @ \ {c}]
              rejecting(w) == [next EXCEPT !.pc = "reject", !.row = {c}, !.result = Rejected(w)]
          IN  /\ poll' =
                   IF skipped THEN next
                   ELSE IF shape[c] = "future" \/ c \in expired THEN rejecting("rejected_deadline")
                   ELSE IF shape[c] = "invalid" THEN rejecting("rejected_invalid_params")
                   ELSE [next EXCEPT !.pc = "add", !.row = {c}, !.redrive = redrive]
              /\ early' = IF poll.early /\ ~skipped THEN early \union {c} ELSE early
     \/ /\ poll.todo = {}
        /\ PollAbort
        /\ UNCHANGED early
  /\ UNCHANGED <<db, files, up, tickets, fence, crashes, faults, runs, bootRuns, preboot,
                 unheard, unreported>>

PollReject(c) ==
  /\ up /\ poll.pc = "reject" /\ poll.row = {c}
  /\ \/ /\ Settle(c, poll.result, RejectAccepted(c))
        /\ poll' = [poll EXCEPT !.pc = "recordReject"]
        /\ UNCHANGED faults
     \/ /\ PollAbort
        /\ Throws(Settle(c, poll.result, RejectAccepted(c)), UNCHANGED db)
  /\ UNCHANGED <<files, up, tickets, fence, crashes, ghost>>

(* The record repeats the WHOLE reason the routine wrote into the row.  The
   mutant keeps only its tail. *)
RejectionTail == Rejected("none")
RejectionRecorded == poll.result

PollRecordReject(c) ==
  /\ up /\ poll.pc = "recordReject" /\ poll.row = {c}
  /\ Append(Record(c, "outcome", RejectionRecorded))
  /\ poll' = [poll EXCEPT !.pc = "scan", !.row = {}, !.result = None]
  /\ UNCHANGED <<db, inFlight, creds, up, tickets, fence, crashes, ghost>>

(* addInFlight, before the claim.  The mutant never writes the entry. *)
InFlightUnchanged(c) == inFlight
AddInFlight(c) == inFlight \union {c}

PollAdd(c) ==
  /\ up /\ poll.pc = "add" /\ poll.row = {c}
  /\ inFlight' = AddInFlight(c)
  /\ poll' = [poll EXCEPT !.pc = "claim"]
  /\ UNCHANGED <<db, creds, spool, up, tickets, fence, crashes, faults, ghost>>

ClaimEffect(c) ==
  /\ status' = IF ClaimAccepted(c, poll.redrive) THEN [status EXCEPT ![c] = "running"] ELSE status
  /\ UNCHANGED <<payload, shape, expired>>

(* The ticket is spent as soon as the claim returns.  The mutant leaves it. *)
TicketsKept(c) == tickets
TicketsAfterClaim(c) == IF poll.redrive THEN tickets \ {c} ELSE tickets

(* A claim that throws leaves the in-flight entry behind and ends the pass. *)
PollClaim(c) ==
  /\ up /\ poll.pc = "claim" /\ poll.row = {c}
  /\ \/ /\ ClaimEffect(c)
        /\ IF ClaimAccepted(c, poll.redrive)
             THEN /\ tickets' = TicketsAfterClaim(c)
                  /\ poll' = [poll EXCEPT !.pc = "recordClaim"]
             ELSE /\ poll' = [poll EXCEPT !.pc = "drop"]
                  /\ UNCHANGED tickets
        /\ UNCHANGED faults
     \/ /\ PollAbort
        /\ Throws(ClaimEffect(c), UNCHANGED db)
        /\ UNCHANGED tickets
  /\ UNCHANGED <<files, up, fence, crashes, ghost>>

PollDrop(c) ==
  /\ up /\ poll.pc = "drop" /\ poll.row = {c}
  /\ inFlight' = inFlight \ {c}
  /\ poll' = [poll EXCEPT !.pc = "scan", !.row = {}, !.redrive = FALSE]
  /\ UNCHANGED <<db, creds, spool, up, tickets, fence, crashes, faults, ghost>>

PollRecordClaim(c) ==
  /\ up /\ poll.pc = "recordClaim" /\ poll.row = {c}
  /\ Append(Record(c, "intent", None))
  /\ poll' = [poll EXCEPT !.pc = "enter"]
  /\ UNCHANGED <<db, inFlight, creds, up, tickets, fence, crashes, ghost>>

(* The executor is entered.  One that carries a credential consumes the file
   as it reads it; without the file it can only fail. *)
ExecutorEnter(c) ==
  /\ up /\ poll.pc = "enter" /\ poll.row = {c}
  /\ runs' = [runs EXCEPT ![c] = @ + 1]
  /\ bootRuns' = [bootRuns EXCEPT ![c] = @ + 1]
  /\ IF c \in Credentialed /\ c \notin creds
       THEN /\ poll' = [poll EXCEPT !.pc = "complete", !.result = Failed("executor_error", runs'[c])]
            /\ UNCHANGED creds
       ELSE /\ poll' = [poll EXCEPT !.pc = "executing"]
            /\ creds' = creds \ {c}
  /\ UNCHANGED <<db, inFlight, spool, up, tickets, fence, crashes, faults, preboot, early,
                 unheard, unreported>>

ExecutorReturn(c) ==
  /\ up /\ poll.pc = "executing" /\ poll.row = {c}
  /\ \E p \in {Done(runs[c]), Failed("executor_error", runs[c])} :
       poll' = [poll EXCEPT !.pc = "complete", !.result = p]
  /\ UNCHANGED <<db, files, up, tickets, fence, crashes, faults, ghost>>

(* complete.  When reporting "done" throws, the catch arm reports "failed"
   instead; when that throws too, only the finally arm is left. *)
PollComplete(c) ==
  /\ up /\ poll.pc = "complete" /\ poll.row = {c}
  /\ \/ /\ Settle(c, poll.result, CompleteAccepted(c))
        /\ poll' = [poll EXCEPT !.pc = "record"]
        /\ UNCHANGED <<faults, unheard, unreported>>
     \/ /\ poll.result.status = "done"
        /\ Throws(/\ Settle(c, poll.result, CompleteAccepted(c))
                  /\ unheard' = unheard \union {c},
                  UNCHANGED <<db, unheard>>)
        /\ poll' = [poll EXCEPT !.result = Failed("report_error", runs[c])]
        /\ UNCHANGED unreported
     \/ /\ poll.result.status # "done"
        /\ Throws(Settle(c, poll.result, CompleteAccepted(c)), UNCHANGED db)
        /\ poll' = [poll EXCEPT !.pc = "remove", !.throwing = TRUE]
        /\ unreported' = unreported \union {c}
        /\ UNCHANGED unheard
  /\ UNCHANGED <<files, up, tickets, fence, crashes, runs, bootRuns, preboot, early>>

PollRecord(c) ==
  /\ up /\ poll.pc = "record" /\ poll.row = {c}
  /\ Append(Record(c, "outcome", poll.result))
  /\ poll' = [poll EXCEPT !.pc = "remove"]
  /\ UNCHANGED <<db, inFlight, creds, up, tickets, fence, crashes, ghost>>

(* The finally arm; an error that escaped the catch arm ends the pass. *)
PollRemove(c) ==
  /\ up /\ poll.pc = "remove" /\ poll.row = {c}
  /\ inFlight' = inFlight \ {c}
  /\ poll' = IF poll.throwing THEN NoPoll
             ELSE [poll EXCEPT !.pc = "scan", !.row = {}, !.redrive = FALSE, !.result = None]
  /\ UNCHANGED <<db, creds, spool, up, tickets, fence, crashes, faults, ghost>>

-----------------------------------------------------------------------------
FenceStep == \/ FenceReadFile \/ FenceList \/ FenceScan
             \/ \E c \in Cmds : FenceSettle(c) \/ FenceRecord(c) \/ FenceRemove(c)

PollStep == \/ PollStart \/ PollScan
            \/ \E c \in Cmds :
                 \/ PollReject(c) \/ PollRecordReject(c) \/ PollAdd(c) \/ PollClaim(c)
                 \/ PollDrop(c) \/ PollRecordClaim(c) \/ ExecutorEnter(c) \/ ExecutorReturn(c)
                 \/ PollComplete(c) \/ PollRecord(c) \/ PollRemove(c)

Next == \/ Boot \/ Crash \/ FenceStep \/ PollStep
        \/ \E c \in Cmds : Submit(c) \/ Expire(c) \/ SweepCmdCreds(c)

Spec == Init /\ [][Next]_vars

(* The supervisor restarts a dead daemon, the one-second timer keeps firing
   and an await that is not cut short by a crash eventually resolves. *)
Fairness == WF_vars(Boot) /\ WF_vars(FenceStep) /\ WF_vars(PollStep)

FairSpec == Spec /\ Fairness
-----------------------------------------------------------------------------
(* Properties.                                                             *)

Lifecycle == INSTANCE CommandLifecycle

(* The table as the daemon, its fence and its crashes drive it is exactly the
   forward-only lifecycle the console relies on: no interleaving of the boot
   fence, a poll pass and a lost answer ever moves a terminal row or completes
   a row that was not running (the WHERE clauses of the three routines). *)
LifecycleSpec == Lifecycle!Spec

(* commands.ts "a crash one instruction later must still leave this row
   recognizable as ours": a running row is in the in-flight file at every instant,
   so the next boot's fence can never mistake the daemon's own work for a row
   another binary left; the one exception is a row whose report of a failure
   failed as well, which the finally arm drops from the file while it runs on. *)
RunningIsRecognizable ==
  \A c \in Cmds : status[c] = "running" => c \in inFlight \union unreported

(* A command that carries single-use credential material is entered at most once
   in the life of the row, over crashes, fences and failed reports (cmd-creds.ts:
   "a replayed or re-driven command cannot re-run a rotation"). *)
CredentialedRunsOnce == \A c \in Credentialed : runs[c] <= 1

(* A re-drive is one-shot: one process enters the executor of a row at most
   once (RedriveTickets in commands.ts: "Left standing, the same id is re-claimed
   and re-executed on EVERY poll").  It takes two things together to enter a row
   twice, and then never more: a pass claimed it before the fence listed the
   table, so that the fence tickets the process's own work, and the report of
   that run failed, so that the row is still running for the ticket to claim. *)
OneRunPerBoot ==
  \A c \in Cmds : bootRuns[c] <= 1 \/ (bootRuns[c] = 2 /\ c \in early \cap unreported)

(* commands.ts "Boot fence. Runs BEFORE the first poll": no row that was open
   when the process started is executed before the fence has decided it.  The
   timer does not wait for the fence, so this does not hold. *)
FencePrecedesPoll == \A c \in preboot : bootRuns[c] > 0 => FenceEnded

(* Once the fence has finished, the only pre-boot rows a claim can still land on
   are the ones the fence ticketed - even for a pass that listed the table
   before the fence ran and works from that stale listing. *)
FenceSealsPreboot ==
  [][\A c \in Cmds :
       (fence.pc = "done" /\ poll.pc = "claim" /\ poll'.pc = "recordClaim" /\ poll.row = {c}
          /\ c \in preboot)
         => c \in tickets]_vars

(* What corroborationOf answers for a terminal row once the five-second window
   has passed. *)
Outcomes(c) == {r \in spool : r.cmd = c /\ r.kind = "outcome"}

CorroborationOf(c) ==
  IF \E r \in Outcomes(c) : r.payload = payload[c] THEN "confirmed"
  ELSE IF Outcomes(c) = {} THEN "reported_unconfirmed"
  ELSE "disputed"

(* A transition whose routine returned but whose record is still on its way to
   disk: the one case the awaiting window exists for. *)
Reporting(c) == \/ poll.row = {c} /\ poll.pc \in {"record", "recordReject"}
                \/ fence.row = {c} /\ fence.pc = "record"

(* corroboration.ts "DISPUTED is the only console state that means a
   Postgres-role adversary fabricated or denied an outcome": with nobody but the
   daemon calling the routines, no settled row is disputed - not after a crash
   between completing and recording, nor after a re-drive whose first run left
   records behind, nor when a call fails.  Two schedules escape, and only they:
   the answer to "done" is lost after it committed, so that the catch arm records
   a failure the row never took; and a pass and the fence both decide one row. *)
NoHonestDispute ==
  \A c \in Cmds \ (unheard \union early) :
    (status[c] \in Terminal /\ ~Reporting(c)) => CorroborationOf(c) # "disputed"

(* Every request is answered: while the daemon keeps being restarted, a submitted
   row reaches a terminal status unless one of the daemon's calls failed. *)
EveryRequestSettles ==
  \A c \in Cmds : (status[c] = "requested") ~> (status[c] \in Terminal \/ faults > 0)
=============================================================================
