------------------------- MODULE CommandPlaneProofs -------------------------
(***************************************************************************)
(* Theorems about CommandPlane, for every set of commands and any number   *)
(* of crashes and failed calls, with passes that may overlap the boot      *)
(* fence.                                                                  *)
(***************************************************************************)
EXTENDS CommandPlane, TLAPS

USE CmdsAssumption, BoundsAssumption

-----------------------------------------------------------------------------
(* Facts about the building blocks.                                        *)

(* The payloads the transitions write are payloads. *)
LEMMA PayloadTypes ==
  /\ None \in Payloads
  /\ \A n \in Nat : Done(n) \in Payloads
  /\ \A n \in Nat : \A w \in FailReasons : Failed(w, n) \in Payloads
  /\ \A w \in RejectReasons : Rejected(w) \in Payloads
BY DEF None, Done, Failed, Rejected, Payloads, Terminal, FailReasons, RejectReasons

(* What a transition record holds. *)
LEMMA RecordTypes ==
  ASSUME NEW c \in Cmds, NEW k \in {"intent", "outcome"}, NEW p \in Payloads
  PROVE  Record(c, k, p) \in Records
BY DEF Record, Records

(* The locals of a process that has just started are well typed. *)
LEMMA FreshTypes == NoFence \in FenceType /\ NoPoll \in PollType
<1>1. None \in Payloads
  BY PayloadTypes
<1>2. QED
  BY <1>1 DEF NoFence, NoPoll, FenceType, PollType, FencePcs, PollPcs, Statuses

(* A terminal transition preserves the types of the table. *)
LEMMA SettleTypes ==
  ASSUME NEW c \in Cmds, NEW p \in Payloads, p.status \in Terminal, NEW a,
         status \in [Cmds -> Statuses], payload \in [Cmds -> Payloads],
         Settle(c, p, a)
  PROVE  status' \in [Cmds -> Statuses] /\ payload' \in [Cmds -> Payloads]
BY DEF Settle, Statuses

(* The four things the head of the poll loop can do with its next row. *)
LEMMA PollScanCases ==
  ASSUME PollScan
  PROVE  \/ poll' = NoPoll
         \/ \E c \in poll.todo :
              \/ poll' = [poll EXCEPT !.todo = @ \ {c}]
              \/ /\ \E w \in RejectReasons :
                      poll' = [[poll EXCEPT !.todo = @ \ {c}] EXCEPT
                                 !.pc = "reject", !.row = {c}, !.result = Rejected(w)]
                 /\ poll.early => c \in early'
              \/ \E r \in BOOLEAN :
                   /\ poll.early => c \in early'
                   /\ poll' = [[poll EXCEPT !.todo = @ \ {c}] EXCEPT !.pc = "add", !.row = {c}, !.redrive = r]
                   /\ r = (poll.seen[c] = "running" /\ c \in tickets /\ ~poll.early)
                   /\ poll.seen[c] = "running" => c \in tickets /\ ~poll.early
                   /\ shape[c] # "future"
BY DEF PollScan, PollAbort, RejectReasons

-----------------------------------------------------------------------------
(* Type correctness.  The types alone are not inductive: a transition writes
   the status of the result a loop holds, so the loops must hold a result of
   the right kind when they reach the routine.                             *)

ResultInv ==
  /\ fence.pc = "settle" => fence.result.status \in {"failed", "rejected"}
  /\ poll.pc = "reject" => poll.result.status = "rejected"
  /\ poll.pc = "complete" => poll.result.status \in {"done", "failed"}

TypeInv == TypeOK /\ ResultInv

LEMMA TypeInvInit == Init => TypeInv
<1> SUFFICES ASSUME Init PROVE TypeInv
  OBVIOUS
<1>1. None \in Payloads
  BY PayloadTypes
<1>2. NoFence \in FenceType /\ NoPoll \in PollType
  BY FreshTypes
<1>3. TypeOK
  BY <1>1, <1>2 DEF Init, TypeOK, Statuses, Shapes
<1>4. ResultInv
  BY DEF Init, ResultInv, NoFence, NoPoll
<1>5. QED
  BY <1>3, <1>4 DEF TypeInv

(* The environment's steps and the steps of process life and death. *)
LEMMA TypeInvEnv ==
  ASSUME TypeInv,
         Boot \/ Crash \/ (\E c \in Cmds : Submit(c) \/ Expire(c) \/ SweepCmdCreds(c))
  PROVE  TypeInv'
<1>1. NoFence \in FenceType /\ NoPoll \in PollType
  BY FreshTypes
<1>2. CASE Boot
  <2>1. TypeOK'
    BY <1>1, <1>2 DEF Boot, TypeInv, TypeOK, db, files, OpenRows
  <2>2. ResultInv'
    BY <1>2 DEF Boot, ResultInv, NoFence, NoPoll
  <2>3. QED
    BY <2>1, <2>2 DEF TypeInv
<1>3. CASE Crash
  <2>1. TypeOK'
    <3>a. crashes \in Nat /\ crashes' = crashes + 1
      BY <1>3 DEF Crash, TypeInv, TypeOK
    <3>b. up' = FALSE /\ tickets' = {}
      BY <1>3 DEF Crash
    <3>c. crashes' \in Nat
      BY <3>a
    <3>1. crashes' \in Nat /\ up' \in BOOLEAN /\ tickets' \subseteq Cmds
      BY <3>b, <3>c, Zenon
    <3>2. fence' \in FenceType /\ poll' \in PollType
      BY <1>1, <1>3 DEF Crash
    <3>3. UNCHANGED <<status, payload, shape, expired, inFlight, creds, spool, faults, runs, bootRuns, preboot,
                     early, unheard, unreported>>
      BY <1>3 DEF Crash, db, files, ghost
    <3>4. QED
      BY <3>1, <3>2, <3>3 DEF TypeInv, TypeOK
  <2>2. ResultInv'
    BY <1>3 DEF Crash, ResultInv, NoFence, NoPoll
  <2>3. QED
    BY <2>1, <2>2 DEF TypeInv
<1>4. ASSUME NEW c \in Cmds, Submit(c) PROVE TypeInv'
  <2>a. status' \in [Cmds -> Statuses] /\ shape' \in [Cmds -> Shapes]
    BY <1>4 DEF Submit, TypeInv, TypeOK, Statuses, Open
  <2>b. creds' \subseteq Credentialed
    BY <1>4 DEF Submit, MintCredential, TypeInv, TypeOK
  <2>1. TypeOK'
    BY <1>4, <2>a, <2>b DEF Submit, TypeInv, TypeOK, ghost
  <2>2. ResultInv'
    BY <1>4 DEF Submit, TypeInv, ResultInv
  <2>3. QED
    BY <2>1, <2>2 DEF TypeInv
<1>5. ASSUME NEW c \in Cmds, Expire(c) PROVE TypeInv'
  BY <1>5 DEF Expire, TypeInv, TypeOK, ResultInv, files, ghost
<1>6. ASSUME NEW c \in Cmds, SweepCmdCreds(c) PROVE TypeInv'
  BY <1>6 DEF SweepCmdCreds, TypeInv, TypeOK, ResultInv, db, ghost
<1>7. QED
  BY <1>2, <1>3, <1>4, <1>5, <1>6

LEMMA TypeInvFence ==
  ASSUME TypeInv, FenceStep
  PROVE  TypeInv'
<1>1. NoFence \in FenceType
  BY FreshTypes
<1>a. None \in Payloads
  BY PayloadTypes
<1>2. CASE FenceReadFile
  BY <1>2 DEF FenceReadFile, FenceType, TypeInv, TypeOK, ResultInv, db, files, ghost, FencePcs
<1>3. CASE FenceList
  <2>1. fence' \in FenceType /\ fence'.pc # "settle" /\ faults' \in Nat
    <3>1. CASE FenceFail /\ Throws(FenceFail, FALSE)
      BY <1>1, <3>1 DEF FenceFail, Throws, TypeInv, TypeOK, FenceType, FencePcs, NoFence
    <3>2. CASE fence' = [fence EXCEPT !.pc = "scan", !.todo = OpenRows, !.seen = status] /\ UNCHANGED faults
      BY <3>2 DEF TypeInv, TypeOK, FenceType, FencePcs, OpenRows
    <3>3. QED
      BY <1>3, <3>1, <3>2 DEF FenceList, Throws
  <2>2. QED
    BY <1>3, <2>1 DEF FenceList, TypeInv, TypeOK, ResultInv, db, files, ghost
<1>4. CASE FenceScan
  <2>1. \A c \in Cmds : FenceResult(c) \in Payloads /\ FenceResult(c).status \in {"failed", "rejected"}
    BY PayloadTypes DEF FenceResult, FailReasons, RejectReasons, Failed, Rejected
  <2>2. fence' \in FenceType /\ (fence'.pc = "settle" => fence'.result.status \in {"failed", "rejected"})
    <3>1. ASSUME NEW c \in fence.todo,
                 fence' = [fence EXCEPT !.todo = @ \ {c}, !.redriven = @ \union {c}],
                 fence.pc = "scan"
          PROVE  fence' \in FenceType /\ fence'.pc # "settle"
      BY <3>1 DEF TypeInv, TypeOK, FenceType
    <3>2. ASSUME NEW c \in fence.todo,
                 fence' = [fence EXCEPT !.todo = @ \ {c}, !.pc = "settle", !.row = {c},
                                        !.result = FenceResult(c)]
          PROVE  fence' \in FenceType /\ fence'.result.status \in {"failed", "rejected"}
      BY <3>2, <2>1 DEF TypeInv, TypeOK, FenceType, FencePcs
    <3>3. CASE fence' = [fence EXCEPT !.pc = "done"]
      BY <3>3 DEF TypeInv, TypeOK, FenceType, FencePcs
    <3>4. QED
      BY <1>4, <3>1, <3>2, <3>3 DEF FenceScan
  <2>3. tickets' \subseteq Cmds
    BY <1>4 DEF FenceScan, TicketsGranted, FenceType, TypeInv, TypeOK
  <2>4. QED
    BY <1>4, <2>2, <2>3 DEF FenceScan, TypeInv, TypeOK, ResultInv, db, files, ghost
<1>5. ASSUME NEW c \in Cmds, FenceSettle(c) PROVE TypeInv'
  <2>1. fence.result \in Payloads /\ fence.result.status \in Terminal
    BY <1>5 DEF FenceSettle, FenceType, TypeInv, TypeOK, ResultInv, Terminal
  <2>2. status' \in [Cmds -> Statuses] /\ payload' \in [Cmds -> Payloads] /\ UNCHANGED <<shape, expired>>
    <3>2. CASE Settle(c, fence.result, FenceAccepted(c))
      BY <2>1, <3>2, SettleTypes DEF TypeInv, TypeOK, Settle
    <3>3. CASE UNCHANGED db
      BY <3>3 DEF db, TypeInv, TypeOK
    <3>4. QED
      BY <1>5, <3>2, <3>3 DEF FenceSettle, Throws
  <2>3. fence' \in FenceType /\ fence'.pc # "settle" /\ faults' \in Nat
    BY <1>1, <1>5 DEF FenceSettle, FenceFail, Throws, TypeInv, TypeOK, FenceType, FencePcs, NoFence
  <2>4. QED
    BY <1>5, <2>2, <2>3 DEF FenceSettle, TypeInv, TypeOK, ResultInv, files, ghost
<1>6. ASSUME NEW c \in Cmds, FenceRecord(c) PROVE TypeInv'
  <2>1. Record(c, "outcome", fence.result) \in Records
    BY RecordTypes DEF TypeInv, TypeOK, FenceType, PollType
  <2>2. spool' \subseteq Records /\ faults' \in Nat
    BY <1>6, <2>1 DEF FenceRecord, Append, TypeInv, TypeOK
  <2>3. QED
    BY <1>6, <2>2 DEF FenceRecord, FenceType, TypeInv, TypeOK, ResultInv, db, ghost, FencePcs
<1>7. ASSUME NEW c \in Cmds, FenceRemove(c) PROVE TypeInv'
  BY <1>7, <1>a DEF FenceRemove, FenceType, TypeInv, TypeOK, ResultInv, db, ghost, FencePcs
<1>8. QED
  BY <1>2, <1>3, <1>4, <1>5, <1>6, <1>7 DEF FenceStep

LEMMA TypeInvPoll ==
  ASSUME TypeInv, PollStep
  PROVE  TypeInv'
<1>1. NoPoll \in PollType
  BY FreshTypes
<1>2. None \in Payloads
  BY PayloadTypes
<1>3. CASE PollStart
  BY <1>1, <1>3 DEF PollStart, TypeInv, TypeOK, ResultInv, PollType, PollPcs, NoPoll, OpenRows, db, files, ghost
<1>4. CASE PollScan
  <2>1. \A w \in RejectReasons : Rejected(w) \in Payloads /\ Rejected(w).status = "rejected"
    BY PayloadTypes DEF Rejected
  <2>2. poll' \in PollType /\ (poll'.pc = "reject" => poll'.result.status = "rejected")
                            /\ poll'.pc # "complete"
    <3>1. ASSUME NEW c \in poll.todo, poll' = [poll EXCEPT !.todo = @ \ {c}], poll.pc = "scan"
          PROVE  poll' \in PollType /\ poll'.pc = "scan"
      BY <3>1 DEF TypeInv, TypeOK, PollType
    <3>2. ASSUME NEW c \in poll.todo, NEW w \in RejectReasons,
                 poll' = [[poll EXCEPT !.todo = @ \ {c}] EXCEPT
                            !.pc = "reject", !.row = {c}, !.result = Rejected(w)]
          PROVE  poll' \in PollType /\ poll'.pc = "reject" /\ poll'.result.status = "rejected"
      BY <2>1, <3>2 DEF TypeInv, TypeOK, PollType, PollPcs
    <3>3. ASSUME NEW c \in poll.todo, NEW r \in BOOLEAN,
                 poll' = [[poll EXCEPT !.todo = @ \ {c}] EXCEPT
                            !.pc = "add", !.row = {c}, !.redrive = r]
          PROVE  poll' \in PollType /\ poll'.pc = "add"
      BY <3>3 DEF TypeInv, TypeOK, PollType, PollPcs
    <3>4. CASE poll' = NoPoll
      BY <1>1, <3>4 DEF NoPoll
    <3>5. QED
      BY <1>4, <3>1, <3>2, <3>3, <3>4 DEF PollScan, PollAbort, RejectReasons
  <2>3. early' \subseteq Cmds
    <3>1. poll.todo \subseteq Cmds /\ early \subseteq Cmds
      BY DEF TypeInv, TypeOK, PollType
    <3>2. early' = early \/ \E c \in poll.todo : early' = early \union {c}
      BY <1>4 DEF PollScan
    <3>3. QED
      BY <3>1, <3>2
  <2>4. QED
    BY <1>4, <2>2, <2>3 DEF PollScan, TypeInv, TypeOK, ResultInv, db, files
<1>5. ASSUME NEW c \in Cmds, PollReject(c) PROVE TypeInv'
  <2>1. poll.result \in Payloads /\ poll.result.status \in Terminal
    BY <1>5 DEF PollReject, PollType, TypeInv, TypeOK, ResultInv, Terminal
  <2>2. status' \in [Cmds -> Statuses] /\ payload' \in [Cmds -> Payloads] /\ UNCHANGED <<shape, expired>>
    <3>1. CASE Settle(c, poll.result, RejectAccepted(c))
      BY <2>1, <3>1, SettleTypes DEF TypeInv, TypeOK, Settle
    <3>2. CASE UNCHANGED db
      BY <3>2 DEF db, TypeInv, TypeOK
    <3>3. QED
      BY <1>5, <3>1, <3>2 DEF PollReject, Throws
  <2>3. poll' \in PollType /\ poll'.pc \notin {"reject", "complete"}
    <3>1. CASE poll' = [poll EXCEPT !.pc = "recordReject"]
      BY <3>1 DEF TypeInv, TypeOK, PollType, PollPcs
    <3>2. CASE poll' = NoPoll
      BY <1>1, <3>2 DEF NoPoll
    <3>3. QED
      BY <1>5, <3>1, <3>2 DEF PollReject, PollAbort
  <2>a. faults' \in Nat
    BY <1>5 DEF PollReject, Throws, TypeInv, TypeOK
  <2>4. QED
    BY <1>5, <2>2, <2>3, <2>a DEF PollReject, TypeInv, TypeOK, ResultInv, files, ghost
<1>6. ASSUME NEW c \in Cmds, PollRecordReject(c) PROVE TypeInv'
  <2>1. Record(c, "outcome", RejectionRecorded) \in Records
    BY RecordTypes DEF TypeInv, TypeOK, PollType, RejectionRecorded
  <2>2. spool' \subseteq Records /\ faults' \in Nat
    BY <1>6, <2>1 DEF PollRecordReject, Append, TypeInv, TypeOK
  <2>3. QED
    BY <1>2, <1>6, <2>2 DEF PollRecordReject, PollType, TypeInv, TypeOK, ResultInv, db, ghost, PollPcs
<1>7. ASSUME NEW c \in Cmds, PollAdd(c) PROVE TypeInv'
  BY <1>7 DEF PollAdd, AddInFlight, PollType, TypeInv, TypeOK, ResultInv, db, ghost, PollPcs
<1>8. ASSUME NEW c \in Cmds, PollClaim(c) PROVE TypeInv'
  <2>1. status' \in [Cmds -> Statuses] /\ UNCHANGED <<payload, shape, expired>>
    BY <1>8 DEF PollClaim, ClaimEffect, Throws, db, TypeInv, TypeOK, Statuses, Open
  <2>2. poll' \in PollType /\ poll'.pc \notin {"reject", "complete"}
    <3>1. ASSUME NEW pc \in {"recordClaim", "drop"}, poll' = [poll EXCEPT !.pc = pc]
          PROVE  poll' \in PollType /\ poll'.pc \notin {"reject", "complete"}
      BY <3>1 DEF TypeInv, TypeOK, PollType, PollPcs
    <3>2. CASE poll' = NoPoll
      BY <1>1, <3>2 DEF NoPoll
    <3>3. QED
      BY <1>8, <3>1, <3>2 DEF PollClaim, PollAbort
  <2>a. faults' \in Nat
    BY <1>8 DEF PollClaim, Throws, TypeInv, TypeOK
  <2>3. tickets' \subseteq Cmds
    BY <1>8 DEF PollClaim, TicketsAfterClaim, TypeInv, TypeOK
  <2>4. QED
    BY <1>8, <2>1, <2>2, <2>3, <2>a DEF PollClaim, TypeInv, TypeOK, ResultInv, files, ghost
<1>9. ASSUME NEW c \in Cmds, PollDrop(c) PROVE TypeInv'
  BY <1>9 DEF PollDrop, PollType, TypeInv, TypeOK, ResultInv, db, ghost, PollPcs
<1>10. ASSUME NEW c \in Cmds, PollRecordClaim(c) PROVE TypeInv'
  <2>1. Record(c, "intent", None) \in Records
    BY <1>2, RecordTypes
  <2>2. spool' \subseteq Records /\ faults' \in Nat
    BY <1>10, <2>1 DEF PollRecordClaim, Append, TypeInv, TypeOK
  <2>3. QED
    BY <1>10, <2>2 DEF PollRecordClaim, PollType, TypeInv, TypeOK, ResultInv, db, ghost, PollPcs
<1>11. ASSUME NEW c \in Cmds, ExecutorEnter(c) PROVE TypeInv'
  <2>1. runs' \in [Cmds -> Nat] /\ bootRuns' \in [Cmds -> Nat]
    BY <1>11 DEF ExecutorEnter, TypeInv, TypeOK
  <2>2. Failed("executor_error", runs'[c]) \in Payloads /\ Failed("executor_error", runs'[c]).status = "failed"
    BY <2>1, PayloadTypes DEF FailReasons, Failed
  <2> DEFINE p == Failed("executor_error", runs'[c])
  <2>a. poll \in PollType /\ creds \subseteq Credentialed
    BY DEF TypeInv, TypeOK
  <2>b. \/ poll' = [poll EXCEPT !.pc = "complete", !.result = p] /\ creds' = creds
        \/ poll' = [poll EXCEPT !.pc = "executing"] /\ creds' = creds \ {c}
    BY <1>11 DEF ExecutorEnter
  <2>c. p \in Payloads /\ p.status = "failed"
    BY <2>2
  <2> HIDE DEF p
  <2>3. poll' \in PollType /\ creds' \subseteq Credentialed /\ poll'.pc # "reject"
          /\ (poll'.pc = "complete" => poll'.result.status \in {"done", "failed"})
    BY <2>a, <2>b, <2>c DEF PollType, PollPcs
  <2>4. QED
    BY <1>11, <2>1, <2>3 DEF ExecutorEnter, TypeInv, TypeOK, ResultInv, db
<1>12. ASSUME NEW c \in Cmds, ExecutorReturn(c) PROVE TypeInv'
  <2>1. \A p \in {Done(runs[c]), Failed("executor_error", runs[c])} :
          p \in Payloads /\ p.status \in {"done", "failed"}
    <3>1. runs[c] \in Nat
      BY DEF TypeInv, TypeOK
    <3>2. Done(runs[c]) \in Payloads /\ Failed("executor_error", runs[c]) \in Payloads
      BY <3>1, PayloadTypes DEF FailReasons
    <3>3. Done(runs[c]).status = "done" /\ Failed("executor_error", runs[c]).status = "failed"
      BY DEF Done, Failed
    <3>4. QED
      BY <3>2, <3>3
  <2>2. PICK p \in Payloads : /\ p.status \in {"done", "failed"}
                              /\ poll' = [poll EXCEPT !.pc = "complete", !.result = p]
    BY <1>12, <2>1 DEF ExecutorReturn
  <2>3. poll' \in PollType /\ poll'.pc = "complete" /\ poll'.result.status \in {"done", "failed"}
    BY <2>2 DEF TypeInv, TypeOK, PollType, PollPcs
  <2>4. QED
    BY <1>12, <2>3 DEF ExecutorReturn, TypeInv, TypeOK, ResultInv, db, files, ghost
<1>13. ASSUME NEW c \in Cmds, PollComplete(c) PROVE TypeInv'
  <2>1. poll.result \in Payloads /\ poll.result.status \in Terminal
    BY <1>13 DEF PollComplete, PollType, TypeInv, TypeOK, ResultInv, Terminal
  <2>2. status' \in [Cmds -> Statuses] /\ payload' \in [Cmds -> Payloads] /\ UNCHANGED <<shape, expired>>
    <3>1. CASE Settle(c, poll.result, CompleteAccepted(c))
      BY <2>1, <3>1, SettleTypes DEF TypeInv, TypeOK, Settle
    <3>2. CASE UNCHANGED db
      BY <3>2 DEF db, TypeInv, TypeOK
    <3>3. QED
      BY <1>13, <3>1, <3>2 DEF PollComplete, Throws
  <2>3. Failed("report_error", runs[c]) \in Payloads /\ Failed("report_error", runs[c]).status = "failed"
    BY PayloadTypes DEF FailReasons, Failed, TypeInv, TypeOK
  <2>4. poll' \in PollType /\ poll'.pc # "reject" /\ faults' \in Nat
          /\ (poll'.pc = "complete" => poll'.result.status = "failed")
    <3>3. faults' \in Nat
      BY <1>13 DEF PollComplete, Throws, TypeInv, TypeOK
    <3>1. CASE poll' = [poll EXCEPT !.pc = "record"]
      BY <3>1, <3>3 DEF TypeInv, TypeOK, PollType, PollPcs
    <3>a. CASE poll' = [poll EXCEPT !.pc = "remove", !.throwing = TRUE]
      BY <3>a, <3>3 DEF TypeInv, TypeOK, PollType, PollPcs
    <3>2. CASE poll' = [poll EXCEPT !.result = Failed("report_error", runs[c])]
      BY <1>13, <2>3, <3>2, <3>3 DEF PollComplete, TypeInv, TypeOK, PollType, PollPcs
    <3>4. QED
      BY <1>13, <3>1, <3>2, <3>a DEF PollComplete
  <2>5. unheard' \subseteq Cmds /\ unreported' \subseteq Cmds
    BY <1>13 DEF PollComplete, Throws, TypeInv, TypeOK
  <2>6. QED
    BY <1>13, <2>2, <2>4, <2>5 DEF PollComplete, TypeInv, TypeOK, ResultInv, files
<1>14. ASSUME NEW c \in Cmds, PollRecord(c) PROVE TypeInv'
  <2>1. Record(c, "outcome", poll.result) \in Records
    BY RecordTypes DEF TypeInv, TypeOK, FenceType, PollType
  <2>2. spool' \subseteq Records /\ faults' \in Nat
    BY <1>14, <2>1 DEF PollRecord, Append, TypeInv, TypeOK
  <2>3. QED
    BY <1>14, <2>2 DEF PollRecord, PollType, TypeInv, TypeOK, ResultInv, db, ghost, PollPcs
<1>15. ASSUME NEW c \in Cmds, PollRemove(c) PROVE TypeInv'
  <2>1. poll' \in PollType /\ poll'.pc \notin {"reject", "complete"}
    BY <1>1, <1>2, <1>15 DEF PollRemove, TypeInv, TypeOK, PollType, PollPcs, NoPoll
  <2>2. QED
    BY <1>15, <2>1 DEF PollRemove, TypeInv, TypeOK, ResultInv, db, ghost
<1>16. QED
  BY <1>3, <1>4, <1>5, <1>6, <1>7, <1>8, <1>9, <1>10, <1>11, <1>12, <1>13, <1>14, <1>15 DEF PollStep

LEMMA TypeInvStep ==
  ASSUME TypeInv, [Next]_vars
  PROVE  TypeInv'
<1>1. CASE UNCHANGED vars
  BY <1>1 DEF vars, TypeInv, TypeOK, ResultInv
<1>2. CASE Next
  BY <1>2, TypeInvEnv, TypeInvFence, TypeInvPoll DEF Next
<1>3. QED
  BY <1>1, <1>2

(* The types hold of every reachable state, with every result a loop carries of
   the kind its next routine call writes. *)
THEOREM TypeCorrect == Spec => []TypeInv
<1>1. Init => TypeInv
  BY TypeInvInit
<1>2. TypeInv /\ [Next]_vars => TypeInv'
  BY TypeInvStep
<1>3. QED
  BY <1>1, <1>2, PTL DEF Spec

(* The type invariant the runs check, for every value of the constants. *)
COROLLARY TypeOKHolds == Spec => []TypeOK
<1>1. TypeInv => TypeOK
  BY DEF TypeInv
<1>2. QED
  BY <1>1, TypeCorrect, PTL

-----------------------------------------------------------------------------
(* The refinement.                                                         *)

(* One terminal transition of the table is a step of the abstract lifecycle. *)
LEMMA SettleImplements ==
  ASSUME TypeOK, NEW c \in Cmds, NEW p,
         \/ p.status \in {"done", "failed"} /\ Settle(c, p, CompleteAccepted(c))
         \/ p.status = "rejected" /\ Settle(c, p, RejectAccepted(c))
  PROVE  [Lifecycle!Next]_status
<1>1. CASE p.status \in {"done", "failed"} /\ Settle(c, p, CompleteAccepted(c))
  <2>1. Lifecycle!Complete(c) \/ UNCHANGED status
    BY <1>1 DEF Settle, CompleteAccepted, Lifecycle!Complete
  <2>2. QED
    BY <2>1 DEF Lifecycle!Next
<1>2. CASE p.status = "rejected" /\ Settle(c, p, RejectAccepted(c))
  <2>1. Lifecycle!Reject(c) \/ UNCHANGED status
    BY <1>2 DEF Settle, RejectAccepted, Open, Lifecycle!Reject
  <2>2. QED
    BY <2>1 DEF Lifecycle!Next
<1>3. QED
  BY <1>1, <1>2

(* Every step of the daemon, of the console and of a crash is a step of the
   abstract lifecycle or leaves the table alone. *)
LEMMA StepImplements ==
  ASSUME TypeInv, Next
  PROVE  [Lifecycle!Next]_status
<1>1. ASSUME NEW c \in Cmds, Submit(c) PROVE [Lifecycle!Next]_status
  <2>1. Lifecycle!Mint(c)
    BY <1>1 DEF Submit, Lifecycle!Mint
  <2>2. QED
    BY <2>1 DEF Lifecycle!Next
<1>2. ASSUME NEW c \in Cmds, PollClaim(c) PROVE [Lifecycle!Next]_status
  <2>1. CASE ClaimEffect(c)
    <3>1. CASE ClaimAccepted(c, poll.redrive) /\ status[c] = "requested"
      <4>1. Lifecycle!Claim(c)
        BY <2>1, <3>1 DEF ClaimEffect, Lifecycle!Claim
      <4>2. QED
        BY <4>1 DEF Lifecycle!Next
    <3>2. CASE ClaimAccepted(c, poll.redrive) /\ status[c] = "running"
      BY <2>1, <3>2 DEF ClaimEffect, TypeInv, TypeOK
    <3>3. CASE ~ClaimAccepted(c, poll.redrive)
      BY <2>1, <3>3 DEF ClaimEffect
    <3>4. QED
      BY <3>1, <3>2, <3>3 DEF ClaimAccepted
  <2>2. CASE UNCHANGED db
    BY <2>2 DEF db
  <2>3. QED
    BY <1>2, <2>1, <2>2 DEF PollClaim, Throws
<1>3. ASSUME NEW c \in Cmds, FenceSettle(c) PROVE [Lifecycle!Next]_status
  <2>1. fence.result.status \in {"failed", "rejected"}
    BY <1>3 DEF FenceSettle, TypeInv, ResultInv
  <2>2. CASE Settle(c, fence.result, FenceAccepted(c))
    BY <2>1, <2>2, SettleImplements DEF FenceAccepted, TypeInv
  <2>3. CASE UNCHANGED db
    BY <2>3 DEF db
  <2>4. QED
    BY <1>3, <2>2, <2>3 DEF FenceSettle, Throws
<1>4. ASSUME NEW c \in Cmds, PollReject(c) PROVE [Lifecycle!Next]_status
  <2>1. poll.result.status = "rejected"
    BY <1>4 DEF PollReject, TypeInv, ResultInv
  <2>2. CASE Settle(c, poll.result, RejectAccepted(c))
    BY <2>1, <2>2, SettleImplements DEF TypeInv
  <2>3. CASE UNCHANGED db
    BY <2>3 DEF db
  <2>4. QED
    BY <1>4, <2>2, <2>3 DEF PollReject, Throws
<1>5. ASSUME NEW c \in Cmds, PollComplete(c) PROVE [Lifecycle!Next]_status
  <2>1. poll.result.status \in {"done", "failed"}
    BY <1>5 DEF PollComplete, TypeInv, ResultInv
  <2>2. CASE Settle(c, poll.result, CompleteAccepted(c))
    BY <2>1, <2>2, SettleImplements DEF TypeInv
  <2>3. CASE UNCHANGED db
    BY <2>3 DEF db
  <2>4. QED
    BY <1>5, <2>2, <2>3 DEF PollComplete, Throws
<1>6. CASE FenceReadFile \/ FenceList \/ FenceScan \/ PollStart \/ PollScan \/ Boot \/ Crash
  BY <1>6 DEF FenceReadFile, FenceList, FenceScan, PollStart, PollScan, Boot, Crash, db
<1>7. ASSUME NEW c \in Cmds,
             \/ FenceRecord(c) \/ FenceRemove(c) \/ PollRecordReject(c) \/ PollAdd(c) \/ PollDrop(c)
             \/ PollRecordClaim(c) \/ ExecutorEnter(c) \/ ExecutorReturn(c) \/ PollRecord(c)
             \/ PollRemove(c) \/ Expire(c) \/ SweepCmdCreds(c)
      PROVE  UNCHANGED status
  BY <1>7 DEF FenceRecord, FenceRemove, PollRecordReject, PollAdd, PollDrop, PollRecordClaim,
     ExecutorEnter, ExecutorReturn, PollRecord, PollRemove, Expire, SweepCmdCreds, db
<1>8. QED
  BY <1>1, <1>2, <1>3, <1>4, <1>5, <1>6, <1>7 DEF Next, FenceStep, PollStep

(* The daemon implements the lifecycle: a terminal row is final, done and failed
   come only from running, and nothing else ever moves a row - for any number of
   commands, crashes and lost answers, whether or not a poll pass races the boot
   fence. *)
THEOREM RefinesLifecycle == Spec => LifecycleSpec
<1>1. Init => Lifecycle!Init
  BY DEF Init, Lifecycle!Init
<1>2. TypeInv /\ [Next]_vars => [Lifecycle!Next]_status
  BY StepImplements DEF vars
<1>3. QED
  BY <1>1, <1>2, TypeCorrect, PTL DEF Spec, LifecycleSpec, Lifecycle!Spec

-----------------------------------------------------------------------------
(* What the head of the poll loop does to the pass's locals. *)
LEMMA PollScanEffect ==
  ASSUME TypeInv, PollScan
  PROVE  /\ poll'.pc \in {"idle", "scan", "reject", "add"}
         /\ poll'.todo \subseteq poll.todo
         /\ poll'.pc # "idle" => poll'.seen = poll.seen
         /\ poll'.pc = "idle" => poll'.todo = {}
         /\ poll'.pc = "add" =>
              \E d \in poll.todo :
                /\ poll'.row = {d} /\ d \notin poll'.todo
                /\ poll'.redrive = (poll.seen[d] = "running" /\ d \in tickets /\ ~poll.early)
                /\ poll.seen[d] = "running" => d \in tickets /\ ~poll.early
                /\ shape[d] # "future"
<1>0. poll \in PollType /\ poll.pc = "scan"
  BY DEF TypeInv, TypeOK, PollScan
<1>1. CASE poll' = NoPoll
  BY <1>1 DEF NoPoll
<1>2. ASSUME NEW d \in poll.todo, poll' = [poll EXCEPT !.todo = @ \ {d}]
      PROVE  poll'.pc = "scan" /\ poll'.todo \subseteq poll.todo /\ poll'.seen = poll.seen
  BY <1>0, <1>2 DEF PollType
<1>3. ASSUME NEW d \in poll.todo, NEW w \in RejectReasons,
             poll' = [[poll EXCEPT !.todo = @ \ {d}] EXCEPT
                        !.pc = "reject", !.row = {d}, !.result = Rejected(w)]
      PROVE  poll'.pc = "reject" /\ poll'.todo \subseteq poll.todo /\ poll'.seen = poll.seen
  BY <1>0, <1>3 DEF PollType
<1>4. ASSUME NEW d \in poll.todo, NEW r \in BOOLEAN,
             poll' = [[poll EXCEPT !.todo = @ \ {d}] EXCEPT !.pc = "add", !.row = {d}, !.redrive = r]
      PROVE  /\ poll'.pc = "add" /\ poll'.todo = poll.todo \ {d} /\ poll'.seen = poll.seen
             /\ poll'.row = {d} /\ poll'.redrive = r
  BY <1>0, <1>4 DEF PollType
<1>5. QED
  BY <1>1, <1>2, <1>3, <1>4, PollScanCases

-----------------------------------------------------------------------------
(* Credentialed commands.  The argument: a credentialed row never receives a
   ticket, so the only claim that can land on it is the one that takes it out
   of "requested", and no routine ever puts a row back there.              *)

CredentialInv ==
  /\ \A c \in Credentialed : c \notin tickets /\ c \notin fence.redriven
  /\ \A c \in Credentialed : (poll.row = {c} /\ poll.pc \in {"add", "claim"}) => ~poll.redrive
  /\ \A c \in Credentialed : status[c] \in {"absent", "requested"} => runs[c] = 0
  /\ \A c \in Credentialed : (poll.row = {c} /\ poll.pc \in {"recordClaim", "enter"})
                                => runs[c] = 0 /\ status[c] \notin {"absent", "requested"}
  /\ \A c \in Credentialed : runs[c] <= 1

(* No step but Submit and a claim that lands gives a row a non-terminal status
   it did not have. *)
LEMMA StatusForward ==
  ASSUME TypeInv, [Next]_vars, NEW c \in Cmds
  PROVE  /\ status[c] \notin {"absent", "requested"} => status'[c] \notin {"absent", "requested"}
         /\ status[c] \in Terminal => status'[c] = status[c]
         /\ status[c] # "absent" => status'[c] # "absent"
<1>1. [Lifecycle!Next]_status
  BY StepImplements DEF vars
<1>2. QED
  BY <1>1 DEF Lifecycle!Next, Lifecycle!Mint, Lifecycle!Claim, Lifecycle!Complete, Lifecycle!Reject,
     TypeInv, TypeOK, Terminal

(* The table stays typed. *)
LEMMA StatusTyped ==
  ASSUME TypeInv, [Next]_vars, NEW c \in Cmds
  PROVE  status'[c] \in Statuses
<1>1. TypeInv'
  BY TypeInvStep
<1>2. QED
  BY <1>1 DEF TypeInv, TypeOK

LEMMA CredentialStep ==
  ASSUME TypeInv, CredentialInv, [Next]_vars
  PROVE  CredentialInv'
<1> SUFFICES ASSUME NEW c \in Credentialed
    PROVE  /\ c \notin tickets' /\ c \notin fence'.redriven
           /\ (poll'.row = {c} /\ poll'.pc \in {"add", "claim"}) => ~poll'.redrive
           /\ status'[c] \in {"absent", "requested"} => runs'[c] = 0
           /\ (poll'.row = {c} /\ poll'.pc \in {"recordClaim", "enter"})
                 => runs'[c] = 0 /\ status'[c] \notin {"absent", "requested"}
           /\ runs'[c] <= 1
  BY DEF CredentialInv
<1> c \in Cmds
  OBVIOUS
<1>0. /\ status[c] \notin {"absent", "requested"} => status'[c] \notin {"absent", "requested"}
      /\ status[c] \in Terminal => status'[c] = status[c]
      /\ fence \in FenceType /\ poll \in PollType /\ runs \in [Cmds -> Nat]
  BY StatusForward DEF TypeInv, TypeOK
<1>i. /\ c \notin tickets /\ c \notin fence.redriven
      /\ (poll.row = {c} /\ poll.pc \in {"add", "claim"}) => ~poll.redrive
      /\ status[c] \in {"absent", "requested"} => runs[c] = 0
      /\ (poll.row = {c} /\ poll.pc \in {"recordClaim", "enter"})
            => runs[c] = 0 /\ status[c] \notin {"absent", "requested"}
      /\ runs[c] <= 1
  BY DEF CredentialInv
<1>1. CASE UNCHANGED vars
  BY <1>1, <1>i DEF vars
<1>2. CASE Boot \/ Crash
  BY <1>2, <1>i DEF Boot, Crash, NoFence, NoPoll, db, ghost
<1>3. CASE \E d \in Cmds : Submit(d) \/ Expire(d) \/ SweepCmdCreds(d)
  BY <1>3, <1>0, <1>i DEF Submit, Expire, SweepCmdCreds, db, ghost, TypeInv, TypeOK
<1>4. CASE FenceStep
  <2>1. UNCHANGED <<poll, runs>>
    BY <1>4 DEF FenceStep, FenceReadFile, FenceList, FenceScan, FenceSettle, FenceRecord, FenceRemove, ghost
  <2>2. c \notin tickets' /\ c \notin fence'.redriven
    <3>1. CASE FenceScan
      <4>1. ASSUME NEW d \in fence.todo, Redrives(d),
                   fence' = [fence EXCEPT !.todo = @ \ {d}, !.redriven = @ \union {d}],
                   UNCHANGED tickets
            PROVE  c \notin tickets' /\ c \notin fence'.redriven
        BY <4>1, <1>0, <1>i DEF Redrives, FenceType
      <4>2. ASSUME NEW d \in fence.todo,
                   fence' = [fence EXCEPT !.todo = @ \ {d}, !.pc = "settle", !.row = {d},
                                          !.result = FenceResult(d)],
                   UNCHANGED tickets
            PROVE  c \notin tickets' /\ c \notin fence'.redriven
        BY <4>2, <1>0, <1>i DEF FenceType
      <4>3. CASE fence' = [fence EXCEPT !.pc = "done"] /\ tickets' = fence.redriven
        BY <4>3, <1>0, <1>i DEF FenceType
      <4>4. QED
        BY <3>1, <4>1, <4>2, <4>3 DEF FenceScan, TicketsGranted
    <3>2. CASE ~FenceScan
      BY <1>4, <3>2, <1>0, <1>i DEF FenceStep, FenceReadFile, FenceList, FenceSettle, FenceRecord, FenceRemove,
         FenceFail, NoFence, FenceType, Throws
    <3>3. QED
      BY <3>1, <3>2
  <2>3. QED
    BY <2>1, <2>2, <1>0, <1>i
<1>5. CASE PollStart \/ PollScan
  <2>1. UNCHANGED <<runs, status, tickets, fence>>
    BY <1>5 DEF PollStart, PollScan, db, ghost
  <2>2. (poll'.row = {c} /\ poll'.pc \in {"add", "claim"}) => ~poll'.redrive
    <3>1. CASE PollStart
      BY <3>1 DEF PollStart, NoPoll
    <3>2. CASE PollScan
      BY <3>2, <1>i, PollScanEffect
    <3>3. QED
      BY <1>5, <3>1, <3>2
  <2>3. poll'.pc \notin {"recordClaim", "enter"}
    <3>1. CASE PollStart
      BY <3>1 DEF PollStart, NoPoll
    <3>2. CASE PollScan
      BY <3>2, PollScanEffect
    <3>3. QED
      BY <1>5, <3>1, <3>2
  <2>4. QED
    BY <2>1, <2>2, <2>3, <1>i
<1>6. ASSUME NEW d \in Cmds, PollClaim(d)
      PROVE  /\ c \notin tickets' /\ c \notin fence'.redriven
             /\ (poll'.row = {c} /\ poll'.pc \in {"add", "claim"}) => ~poll'.redrive
             /\ status'[c] \in {"absent", "requested"} => runs'[c] = 0
             /\ (poll'.row = {c} /\ poll'.pc \in {"recordClaim", "enter"})
                   => runs'[c] = 0 /\ status'[c] \notin {"absent", "requested"}
             /\ runs'[c] <= 1
  <2>1. UNCHANGED <<runs, fence>> /\ tickets' \subseteq tickets
    BY <1>6 DEF PollClaim, TicketsAfterClaim, ghost
  <2>2. poll'.pc \notin {"add", "claim"}
    BY <1>6, <1>0 DEF PollClaim, PollAbort, NoPoll, PollType
  <2>3. status'[c] \in {"absent", "requested"} => status'[c] = status[c]
    BY <1>6 DEF PollClaim, ClaimEffect, Throws, db, TypeInv, TypeOK
  <2>4. (poll'.row = {c} /\ poll'.pc \in {"recordClaim", "enter"})
          => runs'[c] = 0 /\ status'[c] \notin {"absent", "requested"}
    <3>1. SUFFICES ASSUME poll'.row = {c}, poll'.pc \in {"recordClaim", "enter"}
                   PROVE  runs'[c] = 0 /\ status'[c] \notin {"absent", "requested"}
      OBVIOUS
    <3>2. ClaimAccepted(d, poll.redrive) /\ ClaimEffect(d) /\ poll' = [poll EXCEPT !.pc = "recordClaim"]
      BY <1>6, <1>0, <3>1 DEF PollClaim, PollAbort, NoPoll, PollType
    <3>3. d = c /\ poll.row = {c} /\ poll.pc = "claim"
      BY <1>6, <1>0, <3>1, <3>2 DEF PollClaim, PollType
    <3>4. status[c] = "requested"
      BY <3>2, <3>3, <1>i DEF ClaimAccepted
    <3>5. status'[c] = "running"
      BY <3>2, <3>3 DEF ClaimEffect, TypeInv, TypeOK
    <3>6. QED
      BY <2>1, <3>4, <3>5, <1>i
  <2>5. QED
    BY <2>1, <2>2, <2>3, <2>4, <1>i
<1>7. ASSUME NEW d \in Cmds, ExecutorEnter(d)
      PROVE  /\ c \notin tickets' /\ c \notin fence'.redriven
             /\ (poll'.row = {c} /\ poll'.pc \in {"add", "claim"}) => ~poll'.redrive
             /\ status'[c] \in {"absent", "requested"} => runs'[c] = 0
             /\ (poll'.row = {c} /\ poll'.pc \in {"recordClaim", "enter"})
                   => runs'[c] = 0 /\ status'[c] \notin {"absent", "requested"}
             /\ runs'[c] <= 1
  <2>1. UNCHANGED <<tickets, fence, status>> /\ poll'.pc \in {"complete", "executing"}
    BY <1>7, <1>0 DEF ExecutorEnter, db, PollType
  <2>2. CASE d = c
    BY <1>7, <2>1, <2>2, <1>0, <1>i DEF ExecutorEnter
  <2>3. CASE d # c
    BY <1>7, <2>1, <2>3, <1>0, <1>i DEF ExecutorEnter
  <2>4. QED
    BY <2>2, <2>3
<1>8. CASE \E d \in Cmds : PollAdd(d) \/ PollRecordClaim(d)
  BY <1>8, <1>0, <1>i DEF PollAdd, PollRecordClaim, PollType, db, ghost
<1>9. CASE \E d \in Cmds : \/ PollReject(d) \/ PollRecordReject(d) \/ PollDrop(d) \/ ExecutorReturn(d)
                            \/ PollComplete(d) \/ PollRecord(d) \/ PollRemove(d)
  <2>1. UNCHANGED <<runs, tickets, fence>>
    BY <1>9 DEF PollReject, PollRecordReject, PollDrop, ExecutorReturn, PollComplete, PollRecord, PollRemove, ghost
  <2>2. poll'.pc \notin {"add", "claim", "recordClaim", "enter"}
    <3>1. ASSUME NEW d \in Cmds, PollReject(d) PROVE poll'.pc \in {"recordReject", "idle"}
      BY <3>1, <1>0 DEF PollReject, PollAbort, NoPoll, PollType
    <3>2. ASSUME NEW d \in Cmds, PollRecordReject(d) \/ PollDrop(d) PROVE poll'.pc = "scan"
      BY <3>2, <1>0 DEF PollRecordReject, PollDrop, PollType
    <3>a. ASSUME NEW d \in Cmds, ExecutorReturn(d) PROVE poll'.pc = "complete"
      BY <3>a, <1>0 DEF ExecutorReturn, PollType
    <3>b. ASSUME NEW d \in Cmds, PollRecord(d) PROVE poll'.pc = "remove"
      BY <3>b, <1>0 DEF PollRecord, PollType
    <3>c. ASSUME NEW d \in Cmds, PollRemove(d) PROVE poll'.pc \in {"scan", "idle"}
      BY <3>c, <1>0 DEF PollRemove, NoPoll, PollType
    <3>3. CASE \E d \in Cmds : PollComplete(d)
      BY <3>3, <1>0 DEF PollComplete, PollType
    <3>4. QED
      BY <1>9, <3>1, <3>2, <3>3, <3>a, <3>b, <3>c
  <2>3. QED
    BY <2>1, <2>2, <1>0, <1>i
<1>10. QED
  BY <1>1, <1>2, <1>3, <1>4, <1>5, <1>6, <1>7, <1>8, <1>9 DEF Next, PollStep

(* A command that carries single-use credential material is driven at most once
   in the life of its row, over any number of crashes, lost answers and boot
   fences - including a boot whose fence races a poll pass. *)
THEOREM CredentialedOnce == Spec => []CredentialedRunsOnce
<1>1. Init => CredentialInv
  BY DEF Init, CredentialInv, NoFence, NoPoll
<1>2. TypeInv /\ CredentialInv /\ [Next]_vars => CredentialInv'
  BY CredentialStep
<1>3. CredentialInv => CredentialedRunsOnce
  BY DEF CredentialInv, CredentialedRunsOnce
<1>4. QED
  BY <1>1, <1>2, <1>3, TypeCorrect, PTL DEF Spec

-----------------------------------------------------------------------------
(* The in-flight file.  An entry leaves the file only after its row is
   terminal (or was never claimed), because each loop removes what it holds only
   after the routine that settles it - whichever of the two loops got there
   first; the finally arm of a pass that could not report is the one exception. *)

FenceKnows ==
  /\ fence.pc \in {"scan", "settle", "record", "remove"} =>
       \A c \in fence.todo : /\ status[c] # "absent"
                             /\ fence.seen[c] = "running" => status[c] \in Terminal \union {"running"}
  /\ fence.pc = "settle" =>
       \A c \in Cmds : fence.row = {c} =>
          /\ status[c] # "absent"
          /\ fence.result.status = "failed" => status[c] \in Terminal \union {"running"}
  /\ fence.pc \in {"record", "remove"} => \A c \in Cmds : fence.row = {c} => status[c] \in Terminal

PollKnows ==
  /\ \A c \in poll.todo : /\ status[c] # "absent" /\ poll.seen[c] \in Open
                          /\ poll.seen[c] = "requested" => status[c] # "running"
  /\ poll.pc \in {"add", "claim"} =>
       \A c \in Cmds : poll.row = {c} =>
          /\ c \notin poll.todo /\ status[c] # "absent" /\ shape[c] # "future"
          /\ ~poll.redrive => status[c] # "running"
  /\ poll.pc = "claim" =>
       \A c \in Cmds : poll.row = {c} => c \in inFlight \/ status[c] \in Terminal
  /\ poll.pc \in {"drop", "record"} =>
       \A c \in Cmds : poll.row = {c} => status[c] # "running"
  /\ poll.pc = "remove" =>
       \A c \in Cmds : poll.row = {c} => status[c] # "running" \/ c \in unreported

FileInv == RunningIsRecognizable /\ FenceKnows /\ PollKnows

(* A step that moves no row keeps what a loop it does not touch knows; a step
   that settles one only moves it to a terminal status. *)
LEMMA FenceKnowsStable ==
  ASSUME TypeInv, FenceKnows, [Next]_vars, UNCHANGED fence
  PROVE  FenceKnows'
<1>1. \A c \in Cmds : /\ status[c] # "absent" => status'[c] # "absent"
                      /\ status[c] \in Terminal => status'[c] \in Terminal
                      /\ status[c] \in Terminal \union {"running"} => status'[c] \in Terminal \union {"running"}
  <2> SUFFICES ASSUME NEW c \in Cmds
      PROVE  /\ status[c] # "absent" => status'[c] # "absent"
             /\ status[c] \in Terminal => status'[c] \in Terminal
             /\ status[c] \in Terminal \union {"running"} => status'[c] \in Terminal \union {"running"}
    OBVIOUS
  <2>1. status'[c] \in Statuses
    BY StatusTyped
  <2>2. QED
    BY <2>1, StatusForward DEF Statuses, Open, Terminal
<1>2. fence.todo \subseteq Cmds /\ fence' = fence
  BY DEF TypeInv, TypeOK, FenceType
<1>3. fence'.pc \in {"scan", "settle", "record", "remove"} =>
        \A c \in fence'.todo :
          /\ status'[c] # "absent"
          /\ fence'.seen[c] = "running" => status'[c] \in Terminal \union {"running"}
  <2> SUFFICES ASSUME fence'.pc \in {"scan", "settle", "record", "remove"}, NEW c \in fence'.todo
               PROVE  /\ status'[c] # "absent"
                      /\ fence'.seen[c] = "running" => status'[c] \in Terminal \union {"running"}
    OBVIOUS
  <2>1. c \in fence.todo /\ c \in Cmds /\ fence.pc \in {"scan", "settle", "record", "remove"}
    BY <1>2
  <2>2. status[c] # "absent" /\ (fence.seen[c] = "running" => status[c] \in Terminal \union {"running"})
    BY <2>1 DEF FenceKnows
  <2>3. QED
    BY <1>1, <1>2, <2>1, <2>2
<1>4. fence'.pc = "settle" =>
        \A c \in Cmds : fence'.row = {c} =>
          /\ status'[c] # "absent"
          /\ fence'.result.status = "failed" => status'[c] \in Terminal \union {"running"}
  BY <1>1, <1>2 DEF FenceKnows
<1>5. fence'.pc \in {"record", "remove"} => \A c \in Cmds : fence'.row = {c} => status'[c] \in Terminal
  BY <1>1, <1>2 DEF FenceKnows
<1>6. QED
  BY <1>3, <1>4, <1>5 DEF FenceKnows

(* Marks and given-up reports are only ever added. *)
LEMMA GhostsGrow ==
  ASSUME [Next]_vars
  PROVE  early \subseteq early' /\ unheard \subseteq unheard' /\ unreported \subseteq unreported'
<1>1. CASE UNCHANGED vars \/ Boot \/ Crash \/ \E d \in Cmds : Submit(d) \/ Expire(d) \/ SweepCmdCreds(d)
  BY <1>1 DEF vars, Boot, Crash, Submit, Expire, SweepCmdCreds, ghost
<1>2. CASE FenceStep
  BY <1>2 DEF FenceStep, FenceReadFile, FenceList, FenceScan, FenceSettle, FenceRecord, FenceRemove, ghost
<1>3. CASE PollScan
  BY <1>3 DEF PollScan
<1>4. CASE PollStep /\ ~PollScan
  BY <1>4 DEF PollStep, PollStart, PollReject, PollRecordReject, PollAdd, PollClaim, PollDrop, Throws,
     PollRecordClaim, ExecutorEnter, ExecutorReturn, PollComplete, PollRecord, PollRemove, ghost
<1>5. QED
  BY <1>1, <1>2, <1>3, <1>4 DEF Next

(* The same for a poll pass that another party's step leaves where it is.  Only
   the pass itself claims, so no row becomes running behind its back. *)
LEMMA PollKnowsStable ==
  ASSUME TypeInv, PollKnows, [Next]_vars, UNCHANGED poll,
         \A c \in Cmds : status'[c] = "running" => status[c] = "running",
         \A c \in Cmds : status[c] # "absent" => shape'[c] = shape[c],
         \A c \in inFlight : c \in inFlight' \/ status[c] \in Terminal
  PROVE  PollKnows'
<1>1. \A c \in Cmds : /\ status[c] # "absent" => status'[c] # "absent"
                      /\ status[c] \in Terminal => status'[c] \in Terminal
  BY StatusForward
<1>2. poll.todo \subseteq Cmds /\ poll' = poll /\ poll'.todo = poll.todo
  BY DEF TypeInv, TypeOK, PollType
<1>3. \A c \in poll'.todo : /\ status'[c] # "absent" /\ poll'.seen[c] \in Open
                            /\ poll'.seen[c] = "requested" => status'[c] # "running"
  BY <1>1, <1>2 DEF PollKnows
<1>4. poll'.pc \in {"add", "claim"} =>
       \A c \in Cmds : poll'.row = {c} =>
          /\ c \notin poll'.todo /\ status'[c] # "absent" /\ shape'[c] # "future"
          /\ ~poll'.redrive => status'[c] # "running"
  BY <1>1, <1>2 DEF PollKnows
<1>5. poll'.pc = "claim" =>
       \A c \in Cmds : poll'.row = {c} => c \in inFlight' \/ status'[c] \in Terminal
  BY <1>1, <1>2 DEF PollKnows
<1>6. poll'.pc \in {"drop", "record"} =>
       \A c \in Cmds : poll'.row = {c} => status'[c] # "running"
  BY <1>1, <1>2 DEF PollKnows
<1>7. poll'.pc = "remove" =>
       \A c \in Cmds : poll'.row = {c} => status'[c] # "running" \/ c \in unreported'
  BY <1>1, <1>2, GhostsGrow DEF PollKnows
<1>8. QED
  BY <1>3, <1>4, <1>5, <1>6, <1>7 DEF PollKnows

(* Everything a step of the environment or of the fence does to the rows, the
   fence and the file keeps FileInv. *)
LEMMA FileFenceStep ==
  ASSUME TypeInv, FileInv, [Next]_vars,
         \/ FenceStep
         \/ \E c \in Cmds : Submit(c) \/ Expire(c) \/ SweepCmdCreds(c)
  PROVE  FileInv'
<1>0. /\ status \in [Cmds -> Statuses] /\ ResultInv /\ fence \in FenceType
      /\ unreported \subseteq unreported'
      /\ \A c \in Cmds : status[c] # "absent" => status'[c] # "absent"
      /\ \A c \in Cmds : status[c] \in Terminal => status'[c] \in Terminal
      /\ \A c \in Cmds : status[c] \in Terminal \union {"running"} => status'[c] \in Terminal \union {"running"}
  <2>1. \A c \in Cmds : status'[c] \in Statuses
    BY StatusTyped
  <2>2. QED
    BY <2>1, StatusForward, GhostsGrow DEF TypeInv, TypeOK, Statuses, Open, Terminal
<1>1. ASSUME NEW c \in Cmds, Submit(c) \/ Expire(c) \/ SweepCmdCreds(c) PROVE FileInv'
  <2>0. shape \in [Cmds -> Shapes]
    BY DEF TypeInv, TypeOK
  <2>1. /\ UNCHANGED <<fence, poll, inFlight>>
        /\ \A d \in Cmds : status'[d] = "running" => status[d] = "running"
        /\ \A d \in Cmds : status[d] # "absent" => shape'[d] = shape[d]
    <3>1. CASE Submit(c)
      BY <1>0, <2>0, <3>1 DEF Submit
    <3>2. CASE Expire(c) \/ SweepCmdCreds(c)
      BY <3>2 DEF Expire, SweepCmdCreds, db, files
    <3>3. QED
      BY <1>1, <3>1, <3>2
  <2>2. RunningIsRecognizable'
    BY <1>0, <2>1 DEF FileInv, RunningIsRecognizable
  <2>3. QED
    BY <2>1, <2>2, FenceKnowsStable, PollKnowsStable DEF FileInv
<1>2. ASSUME FenceReadFile \/ FenceList \/ FenceScan PROVE FileInv'
  <2>1. UNCHANGED <<status, shape, inFlight, poll>>
    BY <1>2 DEF FenceReadFile, FenceList, FenceScan, db, files
  <2>2. RunningIsRecognizable' /\ PollKnows'
    BY <1>0, <2>1, PollKnowsStable DEF FileInv, RunningIsRecognizable
  <2>3. FenceKnows'
    <3>1. CASE FenceReadFile
      BY <3>1, <2>1, <1>0 DEF FenceReadFile, FenceKnows, FenceType
    <3>2. CASE FenceList
      <4>1. CASE FenceFail
        BY <4>1 DEF FenceFail, NoFence, FenceKnows
      <4>2. CASE fence' = [fence EXCEPT !.pc = "scan", !.todo = OpenRows, !.seen = status]
        <5>1. fence'.pc = "scan" /\ fence'.todo = OpenRows /\ fence'.seen = status
          BY <4>2, <1>0 DEF FenceType
        <5>2. QED
          BY <5>1, <2>1 DEF FenceKnows, OpenRows, Open
      <4>3. QED
        BY <3>2, <4>1, <4>2 DEF FenceList, Throws
    <3>3. CASE FenceScan
      <4>1. CASE fence' = [fence EXCEPT !.pc = "done"]
        BY <4>1, <1>0 DEF FenceKnows, FenceType
      <4>2. CASE \E c \in fence.todo : fence' = [fence EXCEPT !.todo = @ \ {c}, !.redriven = @ \union {c}]
        <5>1. PICK c \in fence.todo :
                fence' = [fence EXCEPT !.todo = @ \ {c}, !.redriven = @ \union {c}]
          BY <4>2
        <5>2. /\ fence'.pc = fence.pc /\ fence'.todo \subseteq fence.todo
              /\ fence'.seen = fence.seen /\ fence.pc = "scan"
          BY <5>1, <3>3, <1>0 DEF FenceScan, FenceType
        <5> QED
          BY <5>2, <2>1 DEF FileInv, FenceKnows
      <4>3. CASE \E c \in fence.todo :
                   fence' = [fence EXCEPT !.todo = @ \ {c}, !.pc = "settle", !.row = {c}, !.result = FenceResult(c)]
        <5>1. PICK c \in fence.todo :
                fence' = [fence EXCEPT !.todo = @ \ {c}, !.pc = "settle", !.row = {c}, !.result = FenceResult(c)]
          BY <4>3
        <5>2. /\ fence'.pc = "settle" /\ fence'.row = {c} /\ fence'.result = FenceResult(c)
              /\ fence'.todo = fence.todo \ {c} /\ fence'.seen = fence.seen
          BY <5>1, <1>0 DEF FenceType
        <5>3. fence.pc = "scan"
          BY <3>3 DEF FenceScan
        <5>4. /\ status[c] # "absent"
              /\ fence.seen[c] = "running" => status[c] \in Terminal \union {"running"}
              /\ \A d \in fence.todo : /\ status[d] # "absent"
                                       /\ fence.seen[d] = "running" => status[d] \in Terminal \union {"running"}
          BY <5>3 DEF FileInv, FenceKnows
        <5>5. FenceResult(c).status = "failed" => fence.seen[c] = "running"
          BY DEF FenceResult, Mine, Failed, Rejected
        <5>6. QED
          BY <5>2, <5>4, <5>5, <2>1 DEF FenceKnows
      <4>4. QED
        BY <3>3, <4>1, <4>2, <4>3 DEF FenceScan
    <3>4. QED
      BY <1>2, <3>1, <3>2, <3>3
  <2>4. QED
    BY <2>2, <2>3 DEF FileInv
<1>3. ASSUME NEW c \in Cmds, FenceSettle(c), FenceFail PROVE FileInv'
  <2>1. /\ fence.pc = "settle" /\ UNCHANGED <<inFlight, poll, shape>>
        /\ Settle(c, fence.result, FenceAccepted(c)) \/ UNCHANGED status
    BY <1>3 DEF FenceSettle, Throws, Settle, files, db
  <2>2. fence.result.status \in {"failed", "rejected"}
    BY <2>1, <1>0 DEF ResultInv
  <2>3. \A d \in Cmds : status'[d] = "running" => status[d] = "running"
    BY <2>1, <2>2, <1>0 DEF Settle
  <2>4. RunningIsRecognizable' /\ PollKnows'
    BY <1>0, <2>1, <2>3, PollKnowsStable DEF FileInv, RunningIsRecognizable
  <2>5. FenceKnows'
    BY <1>3 DEF FenceFail, NoFence, FenceKnows
  <2>6. QED
    BY <2>4, <2>5 DEF FileInv
<1>b. ASSUME NEW c \in Cmds, FenceSettle(c), ~FenceFail PROVE FileInv'
  <2>1. /\ fence.pc = "settle" /\ fence.row = {c} /\ Settle(c, fence.result, FenceAccepted(c))
        /\ fence' = [fence EXCEPT !.pc = "record"]
        /\ UNCHANGED <<inFlight, poll, shape>>
    BY <1>b, <1>0 DEF FenceSettle, Settle, files
  <2>2. fence.result.status \in {"failed", "rejected"}
    BY <2>1, <1>0 DEF ResultInv
  <2>3. \A d \in Cmds : status'[d] = "running" => status[d] = "running"
    BY <2>1, <2>2, <1>0 DEF Settle
  <2>4. RunningIsRecognizable' /\ PollKnows'
    BY <1>0, <2>1, <2>3, PollKnowsStable DEF FileInv, RunningIsRecognizable
  <2>5. status'[c] \in Terminal
    <3>1. CASE FenceAccepted(c)
      BY <3>1, <2>1, <2>2, <1>0 DEF Settle, Terminal
    <3>2. CASE ~FenceAccepted(c)
      <4>1. /\ status[c] # "absent"
            /\ fence.result.status = "failed" => status[c] \in Terminal \union {"running"}
        BY <2>1 DEF FileInv, FenceKnows
      <4>2. status[c] \in Terminal
        BY <3>2, <4>1, <1>0 DEF FenceAccepted, CompleteAccepted, RejectAccepted, Open, Terminal, Statuses
      <4>3. QED
        BY <4>2, <1>0
    <3>3. QED
      BY <3>1, <3>2
  <2>6. /\ fence'.pc = "record" /\ fence'.row = {c} /\ fence'.todo = fence.todo /\ fence'.seen = fence.seen
        /\ fence.todo \subseteq Cmds
    BY <2>1, <1>0 DEF FenceType
  <2>7. \A d \in fence.todo : /\ status[d] # "absent"
                              /\ fence.seen[d] = "running" => status[d] \in Terminal \union {"running"}
    BY <2>1 DEF FileInv, FenceKnows
  <2>8. FenceKnows'
    BY <2>5, <2>6, <2>7, <1>0 DEF FenceKnows
  <2>9. QED
    BY <2>4, <2>8 DEF FileInv
<1>4. ASSUME NEW c \in Cmds, FenceRecord(c) \/ FenceRemove(c) PROVE FileInv'
  <2>1. /\ fence.pc \in {"record", "remove"} /\ fence.row = {c} /\ UNCHANGED <<status, shape, poll>>
        /\ inFlight' = inFlight \/ inFlight' = inFlight \ {c}
    BY <1>4 DEF FenceRecord, FenceRemove, db
  <2>2. status[c] \in Terminal
    BY <2>1 DEF FileInv, FenceKnows
  <2>3. RunningIsRecognizable' /\ PollKnows'
    BY <1>0, <2>1, <2>2, PollKnowsStable DEF FileInv, RunningIsRecognizable, Terminal
  <2>4. FenceKnows'
    <3>1. CASE FenceRecord(c)
      BY <3>1, <2>1, <1>0 DEF FenceRecord, FileInv, FenceKnows, FenceType
    <3>2. CASE FenceRemove(c)
      BY <3>2, <2>1, <1>0 DEF FenceRemove, FileInv, FenceKnows, FenceType
    <3>3. QED
      BY <1>4, <3>1, <3>2
  <2>5. QED
    BY <2>3, <2>4 DEF FileInv
<1>5. QED
  BY <1>1, <1>2, <1>3, <1>b, <1>4 DEF FenceStep

(* The same for a boot, a crash and the steps of a poll pass. *)
LEMMA FilePollStep ==
  ASSUME TypeInv, FileInv, [Next]_vars, Boot \/ Crash \/ PollStep
  PROVE  FileInv'
<1>0. /\ status \in [Cmds -> Statuses] /\ ResultInv /\ poll \in PollType
      /\ unreported \subseteq unreported'
      /\ \A c \in Cmds : status[c] # "absent" => status'[c] # "absent"
      /\ \A c \in Cmds : status[c] \in Terminal => status'[c] \in Terminal
      /\ poll.todo \subseteq Cmds
  BY StatusForward, GhostsGrow DEF TypeInv, TypeOK, PollType
<1>1. CASE Boot \/ Crash
  <2>1. UNCHANGED <<status, inFlight, unreported>> /\ fence' = NoFence /\ poll' = NoPoll
    BY <1>1 DEF Boot, Crash, db, files, ghost
  <2>2. QED
    BY <2>1 DEF FileInv, RunningIsRecognizable, FenceKnows, PollKnows, NoFence, NoPoll
<1>2. ASSUME PollStep, UNCHANGED <<status, shape>>,
             \A c \in inFlight : c \in inFlight' \/ status[c] # "running" \/ c \in unreported
      PROVE  RunningIsRecognizable' /\ FenceKnows'
  <2>1. UNCHANGED fence
    BY <1>2 DEF PollStep, PollStart, PollScan, PollReject, PollRecordReject, PollAdd, PollClaim, PollDrop,
       PollRecordClaim, ExecutorEnter, ExecutorReturn, PollComplete, PollRecord, PollRemove
  <2>2. QED
    BY <1>0, <1>2, <2>1, FenceKnowsStable DEF FileInv, RunningIsRecognizable
<1>3. CASE PollStart
  <2>1. UNCHANGED <<status, shape, inFlight>>
    BY <1>3 DEF PollStart, db, files
  <2>2. /\ poll'.pc = "scan" /\ poll'.todo = OpenRows /\ poll'.seen = status
    BY <1>3 DEF PollStart, NoPoll
  <2>3. PollKnows'
    BY <2>1, <2>2 DEF PollKnows, OpenRows, Open
  <2>4. QED
    BY <1>2, <1>3, <2>1, <2>3 DEF FileInv, PollStep
<1>4. CASE PollScan
  <2>1. UNCHANGED <<status, shape, inFlight>>
    BY <1>4 DEF PollScan, db, files
  <2>2. /\ poll'.pc \in {"idle", "scan", "reject", "add"}
        /\ poll'.todo \subseteq poll.todo
        /\ poll'.pc # "idle" => poll'.seen = poll.seen
        /\ poll'.pc = "idle" => poll'.todo = {}
    BY <1>4, PollScanEffect
  <2>3. \A c \in poll.todo : /\ status[c] # "absent" /\ poll.seen[c] \in Open
                             /\ poll.seen[c] = "requested" => status[c] # "running"
    BY DEF FileInv, PollKnows
  <2>4. \A c \in poll'.todo : /\ status[c] # "absent" /\ poll'.seen[c] \in Open
                              /\ poll'.seen[c] = "requested" => status[c] # "running"
    BY <2>2, <2>3
  <2>5. poll'.pc = "add" =>
          \A c \in Cmds : poll'.row = {c} =>
             /\ c \notin poll'.todo /\ status[c] # "absent" /\ shape[c] # "future"
             /\ ~poll'.redrive => status[c] # "running"
    <3>1. SUFFICES ASSUME poll'.pc = "add", NEW c \in Cmds, poll'.row = {c}
          PROVE  /\ c \notin poll'.todo /\ status[c] # "absent" /\ shape[c] # "future"
                 /\ ~poll'.redrive => status[c] # "running"
      OBVIOUS
    <3>2. PICK d \in poll.todo :
             /\ poll'.row = {d} /\ d \notin poll'.todo
             /\ poll'.redrive = (poll.seen[d] = "running" /\ d \in tickets /\ ~poll.early)
             /\ poll.seen[d] = "running" => d \in tickets /\ ~poll.early
             /\ shape[d] # "future"
      BY <1>4, <3>1, PollScanEffect
    <3>3. d = c
      BY <3>1, <3>2
    <3>4. ~poll'.redrive => poll.seen[c] # "running"
      BY <3>2, <3>3
    <3>5. QED
      BY <2>3, <3>2, <3>3, <3>4 DEF Open
  <2>6. PollKnows'
    BY <2>1, <2>2, <2>4, <2>5 DEF PollKnows
  <2>7. QED
    BY <1>2, <1>4, <2>1, <2>6 DEF FileInv, PollStep
<1>5. ASSUME NEW c \in Cmds, PollRecordReject(c) \/ PollAdd(c) \/ PollRecordClaim(c) \/ ExecutorEnter(c)
                               \/ ExecutorReturn(c) \/ PollRecord(c)
      PROVE  FileInv'
  <2>1. /\ UNCHANGED <<status, shape>> /\ poll.row = {c}
        /\ inFlight' = inFlight \/ (PollAdd(c) /\ inFlight' = inFlight \union {c})
    BY <1>5 DEF PollRecordReject, PollAdd, AddInFlight, PollRecordClaim, ExecutorEnter, ExecutorReturn,
       PollRecord, db, files
  <2>2. /\ poll'.todo = poll.todo /\ poll'.seen = poll.seen
        /\ \/ poll'.pc \in {"scan", "enter", "executing", "complete"}
           \/ PollAdd(c) /\ poll'.pc = "claim" /\ poll'.row = {c} /\ poll'.redrive = poll.redrive
           \/ PollRecord(c) /\ poll'.pc = "remove" /\ poll'.row = {c}
    <3>1. CASE PollRecordReject(c)
      BY <3>1, <1>0 DEF PollRecordReject, PollType
    <3>2. CASE PollAdd(c)
      BY <3>2, <1>0 DEF PollAdd, PollType
    <3>3. CASE PollRecordClaim(c)
      BY <3>3, <1>0 DEF PollRecordClaim, PollType
    <3>4. CASE ExecutorEnter(c)
      BY <3>4, <1>0 DEF ExecutorEnter, PollType
    <3>5. CASE ExecutorReturn(c)
      BY <3>5, <1>0 DEF ExecutorReturn, PollType
    <3>6. CASE PollRecord(c)
      BY <3>6, <1>0 DEF PollRecord, PollType
    <3>7. QED
      BY <1>5, <3>1, <3>2, <3>3, <3>4, <3>5, <3>6
  <2>3. PollAdd(c) => poll.pc = "add" /\ c \in inFlight'
    BY DEF PollAdd, AddInFlight
  <2>4. PollRecord(c) => poll.pc = "record"
    BY DEF PollRecord
  <2>5. PollKnows'
    BY <2>1, <2>2, <2>3, <2>4 DEF FileInv, PollKnows
  <2>6. QED
    BY <1>2, <1>5, <2>1, <2>5 DEF FileInv, PollStep
<1>6. ASSUME NEW c \in Cmds, PollDrop(c) \/ PollRemove(c) PROVE FileInv'
  <2>1. UNCHANGED <<status, shape>> /\ inFlight' = inFlight \ {c} /\ poll.row = {c} /\ poll.pc \in {"drop", "remove"}
    BY <1>6 DEF PollDrop, PollRemove, db
  <2>2. status[c] # "running" \/ c \in unreported
    BY <2>1 DEF FileInv, PollKnows
  <2>3. poll'.pc \in {"scan", "idle"} /\ (poll'.todo = {} \/ (poll'.todo = poll.todo /\ poll'.seen = poll.seen))
    <3>1. CASE PollDrop(c)
      BY <3>1, <1>0 DEF PollDrop, PollType
    <3>2. CASE PollRemove(c)
      BY <3>2, <1>0 DEF PollRemove, PollType, NoPoll
    <3>3. QED
      BY <1>6, <3>1, <3>2
  <2>4. PollKnows'
    BY <2>1, <2>3 DEF FileInv, PollKnows
  <2>5. QED
    BY <1>2, <1>6, <2>1, <2>2, <2>4 DEF FileInv, PollStep
<1>a. ASSUME NEW c \in Cmds, PollReject(c) \/ PollComplete(c) \/ PollClaim(c), faults' # faults PROVE FileInv'
  <2>1. CASE PollClaim(c)
    <3>1. /\ poll.pc = "claim" /\ poll.row = {c} /\ UNCHANGED <<inFlight, fence>> /\ poll' = NoPoll
          /\ ClaimEffect(c) \/ UNCHANGED status
      BY <1>a, <2>1 DEF PollClaim, PollAbort, Throws, files, db
    <3>2. \A d \in Cmds : status'[d] = "running" => status[d] = "running" \/ (d = c /\ c \in inFlight)
      <4>1. c \in inFlight \/ status[c] \in Terminal
        BY <3>1 DEF FileInv, PollKnows
      <4>2. CASE UNCHANGED status
        BY <4>2
      <4>3. CASE ClaimEffect(c)
        BY <4>1, <4>3, <1>0 DEF ClaimEffect, ClaimAccepted, Terminal
      <4>4. QED
        BY <3>1, <4>2, <4>3
    <3>3. QED
      BY <1>0, <3>1, <3>2, FenceKnowsStable DEF FileInv, RunningIsRecognizable, PollKnows, NoPoll
  <2>2. CASE PollReject(c) \/ PollComplete(c)
    <3>1. /\ poll.row = {c} /\ UNCHANGED <<inFlight, fence>> /\ poll.result.status \in Terminal
          /\ Settle(c, poll.result, RejectAccepted(c)) \/ Settle(c, poll.result, CompleteAccepted(c))
               \/ UNCHANGED status
      BY <1>0, <2>2 DEF PollReject, PollComplete, Throws, files, db, ResultInv, Terminal
    <3>2. \A d \in Cmds : status'[d] = "running" => status[d] = "running"
      BY <3>1, <1>0 DEF Settle, Terminal
    <3>3. RunningIsRecognizable' /\ FenceKnows'
      BY <1>0, <3>1, <3>2, FenceKnowsStable DEF FileInv, RunningIsRecognizable
    <3>4. \/ poll' = NoPoll
          \/ /\ poll'.todo = poll.todo /\ poll'.seen = poll.seen /\ poll'.row = {c}
             /\ poll'.pc = "complete" \/ (poll'.pc = "remove" /\ c \in unreported')
      <4>1. CASE PollReject(c)
        BY <1>a, <4>1 DEF PollReject, PollAbort
      <4>2. CASE PollComplete(c)
        BY <1>0, <1>a, <4>2 DEF PollComplete, PollType
      <4>3. QED
        BY <2>2, <4>1, <4>2
    <3>5. \A d \in poll.todo : /\ status[d] # "absent" /\ poll.seen[d] \in Open
                               /\ poll.seen[d] = "requested" => status[d] # "running"
      BY DEF FileInv, PollKnows
    <3>6. PollKnows'
      BY <1>0, <3>2, <3>4, <3>5 DEF PollKnows, NoPoll
    <3>7. QED
      BY <3>3, <3>6 DEF FileInv
  <2>3. QED
    BY <1>a, <2>1, <2>2
<1>7. ASSUME NEW c \in Cmds, PollReject(c) \/ PollComplete(c), faults' = faults PROVE FileInv'
  <2>0. faults \in Nat
    BY DEF TypeInv, TypeOK
  <2>1. /\ UNCHANGED <<inFlight, fence, shape>> /\ poll.row = {c}
        /\ poll.result.status \in Terminal
        /\ \/ PollReject(c) /\ Settle(c, poll.result, RejectAccepted(c)) /\ poll' = [poll EXCEPT !.pc = "recordReject"]
           \/ PollComplete(c) /\ Settle(c, poll.result, CompleteAccepted(c)) /\ poll' = [poll EXCEPT !.pc = "record"]
    BY <1>7, <1>0, <2>0 DEF PollReject, PollComplete, Throws, Settle, files, ResultInv, Terminal
  <2>2. \A d \in Cmds : status'[d] = "running" => status[d] = "running"
    BY <2>1, <1>0 DEF Settle, Terminal
  <2>3. RunningIsRecognizable' /\ FenceKnows'
    BY <1>0, <2>1, <2>2, FenceKnowsStable DEF FileInv, RunningIsRecognizable
  <2>4. PollComplete(c) => status'[c] # "running"
    <3>1. ASSUME PollComplete(c), CompleteAccepted(c) PROVE status'[c] # "running"
      BY <3>1, <2>1, <1>0 DEF Settle, PollComplete, PollReject, Terminal
    <3>2. ASSUME ~CompleteAccepted(c) PROVE status'[c] # "running"
      BY <3>2, <2>2 DEF CompleteAccepted
    <3>3. QED
      BY <3>1, <3>2
  <2>5. /\ poll'.todo = poll.todo /\ poll'.seen = poll.seen /\ poll'.row = {c}
        /\ poll'.pc = "recordReject" \/ (PollComplete(c) /\ poll'.pc = "record")
    BY <2>1, <1>0 DEF PollType
  <2>6. \A d \in poll.todo : /\ status[d] # "absent" /\ poll.seen[d] \in Open
                             /\ poll.seen[d] = "requested" => status[d] # "running"
    BY DEF FileInv, PollKnows
  <2>7. PollKnows'
    BY <1>0, <2>2, <2>4, <2>5, <2>6 DEF PollKnows
  <2>8. QED
    BY <2>3, <2>7 DEF FileInv
<1>8. ASSUME NEW c \in Cmds, PollClaim(c), faults' = faults PROVE FileInv'
  <2>0. faults \in Nat
    BY DEF TypeInv, TypeOK
  <2>1. /\ poll.pc = "claim" /\ poll.row = {c} /\ UNCHANGED <<inFlight, fence, shape>>
        /\ ClaimEffect(c)
        /\ \/ ClaimAccepted(c, poll.redrive) /\ poll' = [poll EXCEPT !.pc = "recordClaim"]
           \/ ~ClaimAccepted(c, poll.redrive) /\ poll' = [poll EXCEPT !.pc = "drop"]
    BY <1>8, <1>0, <2>0 DEF PollClaim, ClaimEffect, Throws, files
  <2>2. /\ c \in inFlight \/ status[c] \in Terminal
        /\ c \notin poll.todo /\ status[c] # "absent" /\ shape[c] # "future"
        /\ ~poll.redrive => status[c] # "running"
    BY <2>1 DEF FileInv, PollKnows
  <2>3. /\ poll'.todo = poll.todo /\ poll'.seen = poll.seen /\ poll'.row = {c}
        /\ poll'.pc = "recordClaim" \/ (~ClaimAccepted(c, poll.redrive) /\ poll'.pc = "drop")
    BY <2>1, <1>0 DEF PollType
  <2>4. \A d \in Cmds : d # c => status'[d] = status[d]
    BY <2>1, <1>0 DEF ClaimEffect
  <2>5. ClaimAccepted(c, poll.redrive) => c \in inFlight
    BY <2>2 DEF ClaimAccepted, Terminal
  <2>6. ~ClaimAccepted(c, poll.redrive) => status'[c] = status[c] /\ status[c] # "running"
    BY <2>1, <2>2 DEF ClaimAccepted, ClaimEffect
  <2>7. RunningIsRecognizable'
    BY <1>0, <2>1, <2>4, <2>5, <2>6 DEF FileInv, RunningIsRecognizable
  <2>8. \A d \in poll.todo : /\ status'[d] # "absent" /\ poll.seen[d] \in Open
                             /\ poll.seen[d] = "requested" => status'[d] # "running"
    BY <1>0, <2>2, <2>4 DEF FileInv, PollKnows
  <2>9. PollKnows'
    BY <2>3, <2>6, <2>8 DEF PollKnows
  <2>10. QED
    BY <2>1, <2>7, <2>9, FenceKnowsStable DEF FileInv
<1>9. QED
  BY <1>1, <1>3, <1>4, <1>5, <1>6, <1>a, <1>7, <1>8 DEF PollStep

(* A running row is in the in-flight file at every instant, unless neither of
   its reports could be made: over any number of crashes and failed calls, and
   whether or not a poll pass overlaps the boot fence. *)
THEOREM RecognizableHolds == Spec => []RunningIsRecognizable
<1>1. Init => FileInv
  BY DEF Init, FileInv, RunningIsRecognizable, FenceKnows, PollKnows, NoFence, NoPoll
<1>2. TypeInv /\ FileInv /\ [Next]_vars => FileInv'
  <2>1. SUFFICES ASSUME TypeInv, FileInv, [Next]_vars PROVE FileInv'
    OBVIOUS
  <2>2. CASE UNCHANGED vars
    <3>1. UNCHANGED <<status, shape, inFlight, fence, poll, unreported>>
      BY <2>2 DEF vars
    <3>2. QED
      BY <2>1, <3>1, FenceKnowsStable, PollKnowsStable DEF FileInv, RunningIsRecognizable
  <2>3. QED
    BY <2>1, <2>2, FileFenceStep, FilePollStep DEF Next
<1>3. FileInv => RunningIsRecognizable
  BY DEF FileInv
<1>4. QED
  BY <1>1, <1>2, <1>3, TypeCorrect, PTL DEF Spec

-----------------------------------------------------------------------------
(***************************************************************************)
(* What one boot of the daemon may do to the rows it finds: it enters no   *)
(* executor twice, it claims nothing the fence rejected, and its records   *)
(* never contradict the table.                                             *)
(***************************************************************************)

(* Facts shared by the three results.                                      *)

(* A row somebody claimed, or that is over. *)
Started(c) == status[c] \in Terminal \union {"running"}

(* A pass that is not early runs after the fence, and there is no ticket before
   the fence has ended. *)
PassKnows ==
  /\ (poll.pc # "idle" /\ ~poll.early) => FenceEnded
  /\ ~FenceEnded => tickets = {}

LEMMA StartedStable ==
  ASSUME TypeInv, [Next]_vars, NEW c \in Cmds
  PROVE  Started(c) => Started(c)'
<1>1. status[c] \notin {"absent", "requested"} => status'[c] \notin {"absent", "requested"}
  BY StatusForward
<1>2. status'[c] \in Statuses
  BY StatusTyped
<1>3. QED
  BY <1>1, <1>2 DEF Started, Statuses, Open, Terminal

(* What a step of the poll pass on the row in hand does to its locals. *)
PollRowStep(c) ==
  \/ PollReject(c) \/ PollRecordReject(c) \/ PollAdd(c) \/ PollClaim(c)
  \/ PollDrop(c) \/ PollRecordClaim(c) \/ ExecutorEnter(c) \/ ExecutorReturn(c)
  \/ PollComplete(c) \/ PollRecord(c) \/ PollRemove(c)

LEMMA PollRowEffect ==
  ASSUME TypeInv, NEW c \in Cmds, PollRowStep(c)
  PROVE  /\ up /\ poll.row = {c} /\ poll.pc # "idle"
         /\ UNCHANGED <<fence, up, preboot, early>> /\ tickets' \subseteq tickets
         /\ \/ poll' = NoPoll
            \/ /\ poll'.todo = poll.todo /\ poll'.seen = poll.seen /\ poll'.early = poll.early
               /\ poll'.row = {c} \/ (poll'.row = {} /\ poll'.pc = "scan")
               /\ poll'.pc # "add" /\ poll'.pc # "idle"
               /\ poll'.pc = "claim" => PollAdd(c) /\ poll'.redrive = poll.redrive
               /\ poll'.pc = "recordClaim" => /\ PollClaim(c) /\ ClaimAccepted(c, poll.redrive) /\ ClaimEffect(c)
                                             /\ tickets' = TicketsAfterClaim(c) /\ poll'.redrive = poll.redrive
               /\ poll'.pc = "enter" => PollRecordClaim(c) /\ poll'.redrive = poll.redrive
<1>0. poll \in PollType
  BY DEF TypeInv, TypeOK
<1>1. CASE PollReject(c)
  BY <1>0, <1>1 DEF PollReject, PollAbort, PollType, files, ghost
<1>2. CASE PollRecordReject(c)
  BY <1>0, <1>2 DEF PollRecordReject, PollType, ghost
<1>3. CASE PollAdd(c)
  BY <1>0, <1>3 DEF PollAdd, PollType, ghost
<1>4. CASE PollClaim(c)
  BY <1>0, <1>4 DEF PollClaim, PollAbort, PollType, TicketsAfterClaim, ghost
<1>5. CASE PollDrop(c)
  BY <1>0, <1>5 DEF PollDrop, PollType, ghost
<1>6. CASE PollRecordClaim(c)
  BY <1>0, <1>6 DEF PollRecordClaim, PollType, ghost
<1>7. CASE ExecutorEnter(c)
  BY <1>0, <1>7 DEF ExecutorEnter, PollType
<1>8. CASE ExecutorReturn(c)
  BY <1>0, <1>8 DEF ExecutorReturn, PollType, ghost
<1>9. CASE PollComplete(c)
  BY <1>0, <1>9 DEF PollComplete, PollType, ghost
<1>10. CASE PollRecord(c)
  BY <1>0, <1>10 DEF PollRecord, PollType, ghost
<1>11. CASE PollRemove(c)
  BY <1>0, <1>11 DEF PollRemove, PollType, ghost
<1>12. QED
  BY <1>1, <1>2, <1>3, <1>4, <1>5, <1>6, <1>7, <1>8, <1>9, <1>10, <1>11 DEF PollRowStep

LEMMA PollScanRow ==
  ASSUME TypeInv, PollScan
  PROVE  /\ poll.pc = "scan"
         /\ \/ poll' = NoPoll
            \/ /\ poll'.pc = "scan" /\ poll'.row = poll.row /\ poll'.todo \subseteq poll.todo
               /\ poll'.seen = poll.seen /\ poll'.early = poll.early
            \/ \E d \in poll.todo :
                 /\ poll'.row = {d} /\ poll'.todo = poll.todo \ {d} /\ poll'.seen = poll.seen
                 /\ poll'.early = poll.early /\ (poll.early => d \in early')
                 /\ poll'.pc \in {"reject", "add"}
                 /\ poll'.pc = "add" => /\ poll'.redrive = (poll.seen[d] = "running" /\ d \in tickets /\ ~poll.early)
                                        /\ poll.seen[d] = "running" => d \in tickets /\ ~poll.early
         /\ early \subseteq early'
<1>0. poll \in PollType /\ poll.pc = "scan"
  BY DEF TypeInv, TypeOK, PollScan
<1>2. ASSUME NEW d \in poll.todo, poll' = [poll EXCEPT !.todo = @ \ {d}]
      PROVE  /\ poll'.pc = "scan" /\ poll'.row = poll.row /\ poll'.todo \subseteq poll.todo
             /\ poll'.seen = poll.seen /\ poll'.early = poll.early
  BY <1>0, <1>2 DEF PollType
<1>3. ASSUME NEW d \in poll.todo, NEW w \in RejectReasons,
             poll' = [[poll EXCEPT !.todo = @ \ {d}] EXCEPT
                        !.pc = "reject", !.row = {d}, !.result = Rejected(w)]
      PROVE  /\ poll'.pc = "reject" /\ poll'.row = {d} /\ poll'.todo = poll.todo \ {d} /\ poll'.seen = poll.seen
             /\ poll'.early = poll.early
  BY <1>0, <1>3 DEF PollType
<1>4. ASSUME NEW d \in poll.todo, NEW r \in BOOLEAN,
             poll' = [[poll EXCEPT !.todo = @ \ {d}] EXCEPT !.pc = "add", !.row = {d}, !.redrive = r]
      PROVE  /\ poll'.pc = "add" /\ poll'.todo = poll.todo \ {d} /\ poll'.seen = poll.seen
             /\ poll'.row = {d} /\ poll'.redrive = r /\ poll'.early = poll.early
  BY <1>0, <1>4 DEF PollType
<1>5. early \subseteq early'
  BY DEF PollScan
<1>6. QED
  BY <1>0, <1>2, <1>3, <1>4, <1>5, PollScanCases

LEMMA PassKnowsStep ==
  ASSUME TypeInv, PassKnows, [Next]_vars
  PROVE  PassKnows'
<1>0. fence \in FenceType /\ poll \in PollType
  BY DEF TypeInv, TypeOK
<1>1. CASE UNCHANGED vars
  BY <1>1 DEF vars, PassKnows, FenceEnded
<1>2. CASE Boot \/ Crash
  BY <1>2 DEF Boot, Crash, PassKnows, NoPoll
<1>3. CASE \E d \in Cmds : Submit(d) \/ Expire(d) \/ SweepCmdCreds(d)
  BY <1>3 DEF Submit, Expire, SweepCmdCreds, ghost, PassKnows, FenceEnded
<1>4. CASE FenceStep
  <2>1. UNCHANGED poll /\ ~FenceEnded
    BY <1>4 DEF FenceStep, FenceReadFile, FenceList, FenceScan, FenceSettle, FenceRecord, FenceRemove, FenceEnded
  <2>2. tickets' = tickets \/ fence'.pc = "done"
    BY <1>0, <1>4 DEF FenceStep, FenceReadFile, FenceList, FenceScan, FenceSettle, FenceRecord, FenceRemove, FenceType
  <2>3. QED
    BY <2>1, <2>2 DEF PassKnows, FenceEnded
<1>5. CASE PollStart
  <2>1. UNCHANGED <<fence, tickets>> /\ poll'.early = ~FenceEnded
    BY <1>5 DEF PollStart, NoPoll
  <2>2. QED
    BY <2>1 DEF PassKnows, FenceEnded
<1>6. CASE PollScan
  <2>1. UNCHANGED <<fence, tickets>>
    BY <1>6 DEF PollScan
  <2>2. poll.pc = "scan" /\ (poll'.pc = "idle" \/ poll'.early = poll.early)
    BY <1>6, PollScanRow DEF NoPoll
  <2>3. QED
    BY <2>1, <2>2 DEF PassKnows, FenceEnded
<1>7. ASSUME NEW d \in Cmds, PollRowStep(d) PROVE PassKnows'
  <2>1. UNCHANGED fence /\ tickets' \subseteq tickets /\ poll.pc # "idle" /\ (poll'.pc = "idle" \/ poll'.early = poll.early)
    BY <1>7, PollRowEffect DEF NoPoll
  <2>2. QED
    BY <2>1 DEF PassKnows, FenceEnded
<1>8. QED
  BY <1>1, <1>2, <1>3, <1>4, <1>5, <1>6, <1>7 DEF Next, PollStep, PollRowStep

-----------------------------------------------------------------------------
(* One run per boot.  The argument: a row is entered by claiming it.  A claim
   lands on a requested row, which no earlier run left behind, or on a running
   one with a ticket; the tickets are handed out once and the claim that uses
   one spends it.  A row that was already entered and may still get, or use, a
   ticket was taken in hand by an early pass, and is over, given up, or still
   being executed: only the second can be claimed again.                     *)

InHand(c, pcs) == poll.row = {c} /\ poll.pc \in pcs

Ticketable(c) == up /\ (c \in tickets \/ ~FenceEnded)

Owed(c) == status[c] \in Terminal \/ c \in unreported \/ InHand(c, {"executing", "complete"})

RunsCounted(c) ==
  /\ bootRuns[c] <= 1 \/ (bootRuns[c] = 2 /\ c \in early /\ c \in unreported)
  /\ Ticketable(c) => bootRuns[c] <= 1 /\ (bootRuns[c] = 1 => c \in early /\ Owed(c))

RowsStarted(c) ==
  /\ bootRuns[c] # 0 => Started(c)
  /\ (c \in tickets \/ c \in fence.redriven \/ fence.seen[c] = "running") => Started(c)
  /\ (c \in poll.todo /\ poll.seen[c] # "running") => bootRuns[c] = 0
  /\ poll.row = {c} => c \notin poll.todo /\ (poll.early => c \in early)

ClaimPending(c) ==
  /\ (InHand(c, {"add", "claim", "recordClaim", "enter"}) /\ ~poll.redrive) => bootRuns[c] = 0
  /\ (InHand(c, {"add", "claim"}) /\ poll.redrive) => c \in tickets /\ FenceEnded
  /\ InHand(c, {"recordClaim", "enter"}) => Started(c)
  /\ (InHand(c, {"recordClaim", "enter"}) /\ ~poll.redrive /\ Ticketable(c)) => c \in early
  /\ (InHand(c, {"recordClaim", "enter"}) /\ poll.redrive) =>
       /\ c \notin tickets /\ FenceEnded /\ bootRuns[c] <= 1
       /\ bootRuns[c] = 1 => c \in early /\ c \in unreported

RunsOnce(c) == RunsCounted(c) /\ RowsStarted(c) /\ ClaimPending(c)

RunsInv == PassKnows /\ \A c \in Cmds : RunsOnce(c)

(* A row that is over stays over. *)
LEMMA TerminalStays ==
  ASSUME TypeInv, [Next]_vars, NEW c \in Cmds
  PROVE  status[c] \in Terminal => status'[c] \in Terminal
BY StatusForward DEF Terminal

LEMMA RunsFenceStep ==
  ASSUME TypeInv, RunsInv, FenceStep, [Next]_vars, NEW c \in Cmds
  PROVE  RunsOnce(c)'
<1>0. /\ fence \in FenceType /\ poll \in PollType /\ (Started(c) => Started(c)')
      /\ RunsCounted(c) /\ RowsStarted(c) /\ ClaimPending(c)
  BY StartedStable DEF TypeInv, TypeOK, RunsInv, RunsOnce
<1>1. UNCHANGED <<poll, bootRuns, early, unreported>> /\ up /\ ~FenceEnded
  BY DEF FenceStep, FenceReadFile, FenceList, FenceScan, FenceSettle, FenceRecord, FenceRemove, ghost, FenceEnded
<1>2. Ticketable(c)
  BY <1>1 DEF Ticketable
<1>3. (c \in tickets' \/ c \in fence'.redriven \/ fence'.seen[c] = "running") => Started(c)'
  <2>1. CASE FenceReadFile
    BY <1>0, <2>1 DEF FenceReadFile, FenceType, RowsStarted
  <2>2. CASE FenceList
    <3>1. UNCHANGED <<tickets, status>>
      BY <2>2 DEF FenceList, db
    <3>2. fence' = [fence EXCEPT !.pc = "scan", !.todo = OpenRows, !.seen = status] \/ FenceFail
      BY <2>2 DEF FenceList, Throws
    <3>3. CASE fence' = [fence EXCEPT !.pc = "scan", !.todo = OpenRows, !.seen = status]
      BY <1>0, <3>1, <3>3 DEF FenceType, RowsStarted, Started
    <3>4. CASE FenceFail
      BY <1>0, <3>1, <3>4 DEF FenceFail, NoFence, RowsStarted
    <3>5. QED
      BY <3>2, <3>3, <3>4
  <2>3. CASE FenceScan
    <3>1. ASSUME NEW d \in fence.todo, Redrives(d), UNCHANGED tickets,
                 fence' = [fence EXCEPT !.todo = @ \ {d}, !.redriven = @ \union {d}]
          PROVE  (c \in tickets' \/ c \in fence'.redriven \/ fence'.seen[c] = "running") => Started(c)'
      <4>1. fence'.redriven = fence.redriven \union {d} /\ fence'.seen = fence.seen
        BY <1>0, <3>1 DEF FenceType
      <4>2. d = c => Started(c)
        BY <1>0, <3>1 DEF Redrives, Mine, RowsStarted
      <4>3. QED
        BY <1>0, <3>1, <4>1, <4>2 DEF RowsStarted
    <3>2. ASSUME NEW d \in fence.todo, UNCHANGED tickets,
                 fence' = [fence EXCEPT !.todo = @ \ {d}, !.pc = "settle", !.row = {d},
                                        !.result = FenceResult(d)]
          PROVE  (c \in tickets' \/ c \in fence'.redriven \/ fence'.seen[c] = "running") => Started(c)'
      <4>1. fence'.redriven = fence.redriven /\ fence'.seen = fence.seen
        BY <1>0, <3>2 DEF FenceType
      <4>2. QED
        BY <1>0, <3>2, <4>1 DEF RowsStarted
    <3>3. CASE fence' = [fence EXCEPT !.pc = "done"] /\ tickets' = fence.redriven
      <4>1. fence'.redriven = fence.redriven /\ fence'.seen = fence.seen
        BY <1>0, <3>3 DEF FenceType
      <4>2. QED
        BY <1>0, <3>3, <4>1 DEF RowsStarted
    <3>4. QED
      BY <2>3, <3>1, <3>2, <3>3 DEF FenceScan, TicketsGranted
  <2>4. ASSUME NEW d \in Cmds, FenceSettle(d) \/ FenceRecord(d) \/ FenceRemove(d)
        PROVE  (c \in tickets' \/ c \in fence'.redriven \/ fence'.seen[c] = "running") => Started(c)'
    <3>1. UNCHANGED tickets
      BY <2>4 DEF FenceSettle, FenceRecord, FenceRemove
    <3>2. (fence'.redriven = fence.redriven /\ fence'.seen = fence.seen) \/ fence' = [NoFence EXCEPT !.pc = "failed"]
      BY <1>0, <2>4 DEF FenceSettle, FenceRecord, FenceRemove, FenceFail, FenceType
    <3>3. QED
      BY <1>0, <3>1, <3>2 DEF RowsStarted, NoFence
  <2>5. QED
    BY <2>1, <2>2, <2>3, <2>4 DEF FenceStep
<1>4. RowsStarted(c)'
  BY <1>0, <1>1, <1>3 DEF RowsStarted
<1>5. RunsCounted(c)'
  BY <1>0, <1>1, <1>2, TerminalStays DEF RunsCounted, Owed, InHand
<1>6. ClaimPending(c)'
  BY <1>0, <1>1, <1>2 DEF ClaimPending, InHand
<1>7. QED
  BY <1>4, <1>5, <1>6 DEF RunsOnce

LEMMA RunsPollStep ==
  ASSUME TypeInv, RunsInv, PollStep, [Next]_vars, NEW c \in Cmds
  PROVE  RunsOnce(c)'
<1>0. /\ poll \in PollType /\ (Started(c) => Started(c)') /\ PassKnows
      /\ RunsCounted(c) /\ RowsStarted(c) /\ ClaimPending(c)
      /\ bootRuns \in [Cmds -> Nat] /\ status \in [Cmds -> Statuses]
      /\ early \subseteq early' /\ unreported \subseteq unreported'
  BY StartedStable, GhostsGrow DEF TypeInv, TypeOK, RunsInv, RunsOnce
<1>1. CASE PollStart
  <2>1. UNCHANGED <<bootRuns, tickets, fence, status, up, early, unreported>> /\ poll.pc = "idle"
    BY <1>1 DEF PollStart, db, ghost
  <2>2. poll'.pc = "scan" /\ poll'.todo = OpenRows /\ poll'.seen = status /\ poll'.row = {}
    BY <1>1 DEF PollStart, NoPoll
  <2>3. (c \in OpenRows /\ status[c] # "running") => bootRuns[c] = 0
    BY <1>0 DEF RowsStarted, Started, OpenRows, Open, Terminal
  <2>4. RowsStarted(c)' /\ ClaimPending(c)'
    BY <1>0, <2>1, <2>2, <2>3 DEF RowsStarted, ClaimPending, InHand
  <2>5. RunsCounted(c)'
    BY <1>0, <2>1, <2>2 DEF RunsCounted, Owed, InHand, Ticketable, FenceEnded
  <2>6. QED
    BY <2>4, <2>5 DEF RunsOnce
<1>2. CASE PollScan
  <2>1. UNCHANGED <<bootRuns, tickets, fence, status, up, unreported>> /\ poll.pc = "scan"
    BY <1>2 DEF PollScan, db
  <2>2. RunsCounted(c)'
    BY <1>0, <2>1 DEF RunsCounted, Owed, InHand, Ticketable, FenceEnded
  <2>3. CASE poll' = NoPoll
    <3>1. RowsStarted(c)' /\ ClaimPending(c)'
      BY <1>0, <2>1, <2>3 DEF RowsStarted, ClaimPending, InHand, NoPoll
    <3>2. QED
      BY <2>2, <3>1 DEF RunsOnce
  <2>4. CASE /\ poll'.pc = "scan" /\ poll'.row = poll.row /\ poll'.todo \subseteq poll.todo
             /\ poll'.seen = poll.seen /\ poll'.early = poll.early
    <3>1. RowsStarted(c)' /\ ClaimPending(c)'
      BY <1>0, <2>1, <2>4 DEF RowsStarted, ClaimPending, InHand
    <3>2. QED
      BY <2>2, <3>1 DEF RunsOnce
  <2>5. ASSUME NEW d \in poll.todo,
               /\ poll'.row = {d} /\ poll'.todo = poll.todo \ {d} /\ poll'.seen = poll.seen
               /\ poll'.early = poll.early /\ (poll.early => d \in early')
               /\ poll'.pc \in {"reject", "add"}
               /\ poll'.pc = "add" => /\ poll'.redrive = (poll.seen[d] = "running" /\ d \in tickets /\ ~poll.early)
                                      /\ poll.seen[d] = "running" => d \in tickets /\ ~poll.early
        PROVE  RunsOnce(c)'
    <3>1. (poll'.row = {c} /\ poll'.pc = "add" /\ ~poll'.redrive) => bootRuns[c] = 0
      BY <1>0, <2>5 DEF RowsStarted
    <3>2. poll'.row = {c} => c \notin poll'.todo /\ (poll'.early => c \in early')
      BY <2>5
    <3>3. (poll'.row = {c} /\ poll'.pc = "add" /\ poll'.redrive) => c \in tickets /\ FenceEnded
      BY <1>0, <2>1, <2>5 DEF PassKnows
    <3>4. RowsStarted(c)'
      BY <1>0, <2>1, <2>5, <3>2 DEF RowsStarted
    <3>5. ClaimPending(c)'
      BY <2>1, <2>5, <3>1, <3>3 DEF ClaimPending, InHand, FenceEnded
    <3>6. QED
      BY <2>2, <3>4, <3>5 DEF RunsOnce
  <2>6. QED
    BY <1>2, <2>3, <2>4, <2>5, PollScanRow
<1>3. ASSUME NEW d \in Cmds, PollRowStep(d), ~ExecutorEnter(d) PROVE RunsOnce(c)'
  <2>1. /\ up /\ poll.row = {d} /\ poll.pc # "idle" /\ UNCHANGED <<fence, up, bootRuns, early>> /\ tickets' \subseteq tickets
    BY <1>3, PollRowEffect DEF PollRowStep, PollReject, PollRecordReject, PollAdd, PollClaim,
       PollDrop, PollRecordClaim, ExecutorReturn, PollComplete, PollRecord, PollRemove, ghost
  <2>2. Ticketable(c)' => Ticketable(c)
    BY <2>1 DEF Ticketable, FenceEnded
  <2>3. (bootRuns[c] = 1 /\ Owed(c)) => Owed(c)'
    <3>1. CASE status[c] \in Terminal \/ c \in unreported
      BY <1>0, <3>1, TerminalStays DEF Owed
    <3>2. CASE bootRuns[c] = 1 /\ InHand(c, {"executing", "complete"})
      <4>1. d = c /\ poll.pc \in {"executing", "complete"} /\ Started(c)
        BY <1>0, <2>1, <3>2 DEF InHand, RowsStarted
      <4>2. CASE ExecutorReturn(c)
        BY <1>0, <4>2 DEF ExecutorReturn, PollType, Owed, InHand
      <4>3. CASE PollComplete(c)
        <5>1. CASE poll' = [poll EXCEPT !.pc = "record"]
          <6>1. Settle(c, poll.result, CompleteAccepted(c)) /\ poll.result.status \in Terminal
            <7>1. poll'.pc = "record" /\ poll.pc = "complete"
              BY <1>0, <4>3, <5>1 DEF PollType, PollComplete
            <7>2. Settle(c, poll.result, CompleteAccepted(c))
              BY <1>0, <4>3, <7>1 DEF PollComplete, PollType
            <7>3. QED
              BY <7>1, <7>2 DEF TypeInv, ResultInv, Terminal
          <6>2. CASE CompleteAccepted(c)
            BY <1>0, <6>1, <6>2 DEF Settle, Owed
          <6>3. CASE ~CompleteAccepted(c)
            BY <1>0, <4>1, <6>3, TerminalStays DEF CompleteAccepted, Started, Owed
          <6>4. QED
            BY <6>2, <6>3
        <5>2. CASE poll' = [poll EXCEPT !.result = Failed("report_error", runs[c])]
          BY <1>0, <2>1, <4>1, <5>2 DEF PollType, Owed, InHand
        <5>3. CASE c \in unreported'
          BY <5>3 DEF Owed
        <5>4. QED
          BY <4>3, <5>1, <5>2, <5>3 DEF PollComplete
      <4>4. QED
        BY <1>3, <4>1, <4>2, <4>3 DEF PollRowStep, PollReject, PollRecordReject, PollAdd, PollClaim,
           PollDrop, PollRecordClaim, PollRecord, PollRemove
    <3>3. QED
      BY <3>1, <3>2 DEF Owed
  <2>4. RunsCounted(c)'
    BY <1>0, <2>1, <2>2, <2>3 DEF RunsCounted
  <2>5. CASE poll' = NoPoll
    <3>1. RowsStarted(c)' /\ ClaimPending(c)'
      BY <1>0, <2>1, <2>5 DEF RowsStarted, ClaimPending, InHand, NoPoll
    <3>2. QED
      BY <2>4, <3>1 DEF RunsOnce
  <2>6. CASE /\ poll'.todo = poll.todo /\ poll'.seen = poll.seen /\ poll'.early = poll.early
             /\ poll'.row = {d} \/ (poll'.row = {} /\ poll'.pc = "scan")
             /\ poll'.pc # "add" /\ poll'.pc # "idle"
             /\ poll'.pc = "claim" => PollAdd(d) /\ poll'.redrive = poll.redrive
             /\ poll'.pc = "recordClaim" => /\ PollClaim(d) /\ ClaimAccepted(d, poll.redrive) /\ ClaimEffect(d)
                                           /\ tickets' = TicketsAfterClaim(d) /\ poll'.redrive = poll.redrive
             /\ poll'.pc = "enter" => PollRecordClaim(d) /\ poll'.redrive = poll.redrive
    <3>1. poll'.row = {c} => c = d
      BY <2>6
    <3>2. RowsStarted(c)'
      BY <1>0, <2>1, <2>6, <3>1 DEF RowsStarted
    <3>3. ASSUME poll'.pc = "claim", c = d PROVE ClaimPending(c)'
      <4>1. poll.pc = "add" /\ poll'.redrive = poll.redrive /\ tickets' = tickets
        BY <2>6, <3>3 DEF PollAdd
      <4>2. QED
        BY <1>0, <2>1, <3>3, <4>1 DEF ClaimPending, InHand, FenceEnded
    <3>4. ASSUME poll'.pc = "recordClaim", c = d PROVE ClaimPending(c)'
      <4>1. /\ poll.pc = "claim" /\ ClaimAccepted(c, poll.redrive) /\ ClaimEffect(c)
            /\ tickets' = TicketsAfterClaim(c) /\ poll'.redrive = poll.redrive
        BY <2>6, <3>4 DEF PollClaim
      <4>2. status'[c] = "running"
        BY <1>0, <4>1 DEF ClaimEffect
      <4>3. CASE ~poll.redrive
        <5>1. bootRuns[c] = 0 /\ c \notin tickets
          BY <1>0, <2>1, <3>4, <4>1, <4>3 DEF ClaimPending, InHand, ClaimAccepted, RowsStarted, Started, Terminal
        <5>2. ~FenceEnded => c \in early
          BY <1>0, <2>1, <3>4 DEF PassKnows, RowsStarted
        <5>3. QED
          BY <2>1, <4>1, <4>2, <4>3, <5>1, <5>2 DEF ClaimPending, InHand, FenceEnded, Ticketable, Started
      <4>4. CASE poll.redrive
        <5>1. c \in tickets /\ FenceEnded /\ Ticketable(c)
          BY <1>0, <2>1, <3>4, <4>1, <4>4 DEF ClaimPending, InHand, Ticketable
        <5>2. status[c] \notin Terminal
          BY <4>1 DEF ClaimAccepted, Terminal
        <5>3. bootRuns[c] <= 1 /\ (bootRuns[c] = 1 => c \in early /\ c \in unreported)
          BY <1>0, <4>1, <5>1, <5>2 DEF RunsCounted, Owed, InHand
        <5>4. c \notin tickets'
          BY <4>1, <4>4 DEF TicketsAfterClaim
        <5>5. QED
          <6>1. /\ poll'.pc = "recordClaim" /\ poll'.redrive /\ FenceEnded' /\ Started(c)'
                /\ bootRuns' = bootRuns /\ early' = early /\ unreported \subseteq unreported'
            BY <1>0, <2>1, <3>4, <4>1, <4>2, <4>4, <5>1 DEF FenceEnded, Started
          <6>2. QED
            BY <5>3, <5>4, <6>1 DEF ClaimPending, InHand
      <4>5. QED
        BY <4>3, <4>4
    <3>5. ASSUME poll'.pc = "enter", c = d PROVE ClaimPending(c)'
      <4>1. poll.pc = "recordClaim" /\ poll'.redrive = poll.redrive /\ tickets' = tickets
        BY <2>6, <3>5 DEF PollRecordClaim
      <4>2. QED
        BY <1>0, <2>1, <2>2, <3>5, <4>1 DEF ClaimPending, InHand, FenceEnded
    <3>6. ASSUME poll'.pc \notin {"claim", "recordClaim", "enter"} \/ c # d PROVE ClaimPending(c)'
      BY <2>6, <3>1, <3>6 DEF ClaimPending, InHand
    <3>7. ClaimPending(c)'
      BY <3>3, <3>4, <3>5, <3>6
    <3>8. QED
      BY <2>4, <3>2, <3>7 DEF RunsOnce
  <2>7. QED
    BY <1>3, <2>5, <2>6, PollRowEffect
<1>4. ASSUME NEW d \in Cmds, ExecutorEnter(d) PROVE RunsOnce(c)'
  <2>1. /\ up /\ poll.row = {d} /\ poll.pc = "enter" /\ UNCHANGED <<fence, up, tickets, status, early, unreported>>
        /\ bootRuns' = [bootRuns EXCEPT ![d] = @ + 1]
    BY <1>4 DEF ExecutorEnter, db
  <2>2. /\ poll'.pc \in {"complete", "executing"} /\ poll'.todo = poll.todo /\ poll'.seen = poll.seen
        /\ poll'.row = poll.row /\ poll'.early = poll.early
    BY <1>0, <1>4 DEF ExecutorEnter, PollType
  <2>3. ClaimPending(c)'
    BY <2>2 DEF ClaimPending, InHand
  <2>4. CASE d = c
    <3>1. /\ Started(c) /\ c \notin poll.todo /\ (poll.early => c \in early) /\ bootRuns[c] \in Nat
          /\ InHand(c, {"recordClaim", "enter"})
      BY <1>0, <2>1, <2>4 DEF ClaimPending, RowsStarted, InHand
    <3>2. bootRuns'[c] = bootRuns[c] + 1
      BY <1>0, <2>1, <2>4
    <3>3. RowsStarted(c)'
      BY <1>0, <2>1, <2>2, <2>4, <3>1, <3>2 DEF RowsStarted, Started
    <3>4. Owed(c)'
      BY <2>1, <2>2, <2>4 DEF Owed, InHand
    <3>5. CASE ~poll.redrive
      <4>1. bootRuns[c] = 0 /\ (Ticketable(c) => c \in early)
        BY <1>0, <2>1, <2>4, <3>1, <3>5 DEF ClaimPending, InHand
      <4>2. bootRuns'[c] = 1 /\ (Ticketable(c)' => c \in early')
        BY <2>1, <3>2, <4>1 DEF Ticketable, FenceEnded
      <4>3. RunsCounted(c)'
        BY <3>4, <4>2 DEF RunsCounted
      <4>4. QED
        BY <2>3, <3>3, <4>3 DEF RunsOnce
    <3>6. CASE poll.redrive
      <4>1. /\ c \notin tickets /\ FenceEnded /\ bootRuns[c] <= 1
            /\ bootRuns[c] = 1 => c \in early /\ c \in unreported
        BY <1>0, <3>1, <3>6 DEF ClaimPending
      <4>2. ~Ticketable(c)'
        BY <2>1, <4>1 DEF Ticketable, FenceEnded
      <4>3. bootRuns'[c] = 1 \/ (bootRuns'[c] = 2 /\ c \in early /\ c \in unreported)
        <5>1. bootRuns[c] = 0 \/ bootRuns[c] = 1
          BY <3>1, <4>1
        <5>2. QED
          BY <3>2, <4>1, <5>1
      <4>4. RunsCounted(c)'
        BY <2>1, <4>2, <4>3 DEF RunsCounted
      <4>5. QED
        BY <2>3, <3>3, <4>4 DEF RunsOnce
    <3>7. QED
      BY <3>5, <3>6
  <2>5. CASE d # c
    <3>1. bootRuns'[c] = bootRuns[c]
      BY <1>0, <2>1, <2>5
    <3>2. RowsStarted(c)'
      BY <1>0, <2>1, <2>2, <3>1 DEF RowsStarted, Started
    <3>3. Owed(c) => Owed(c)'
      BY <2>1, <2>5 DEF Owed, InHand
    <3>4. RunsCounted(c)'
      BY <1>0, <2>1, <3>1, <3>3 DEF RunsCounted, Ticketable, FenceEnded
    <3>5. QED
      BY <2>3, <3>2, <3>4 DEF RunsOnce
  <2>6. QED
    BY <2>4, <2>5
<1>5. QED
  BY <1>1, <1>2, <1>3, <1>4 DEF PollStep, PollRowStep

LEMMA RunsInvStep ==
  ASSUME TypeInv, RunsInv, [Next]_vars
  PROVE  RunsInv'
<1>1. PassKnows'
  BY PassKnowsStep DEF RunsInv
<1>2. ASSUME NEW c \in Cmds PROVE RunsOnce(c)'
  <2>0. RunsCounted(c) /\ RowsStarted(c) /\ ClaimPending(c) /\ (Started(c) => Started(c)')
    BY StartedStable DEF RunsInv, RunsOnce
  <2>1. CASE UNCHANGED vars
    BY <2>0, <2>1 DEF vars, RunsOnce, RunsCounted, RowsStarted, ClaimPending, Owed, InHand, Ticketable, FenceEnded, Started
  <2>2. CASE Boot
    <3>1. bootRuns'[c] = 0 /\ poll' = NoPoll /\ fence' = NoFence /\ tickets' = {}
      BY <2>2 DEF Boot
    <3>2. QED
      BY <3>1 DEF RunsOnce, RunsCounted, RowsStarted, ClaimPending, InHand, NoPoll, NoFence
  <2>3. CASE Crash
    <3>1. /\ UNCHANGED <<bootRuns, early, unreported>> /\ poll' = NoPoll /\ fence' = NoFence /\ tickets' = {} /\ ~up'
      BY <2>3 DEF Crash, ghost
    <3>2. RunsCounted(c)'
      BY <2>0, <3>1 DEF RunsCounted, Ticketable
    <3>3. RowsStarted(c)' /\ ClaimPending(c)'
      BY <2>0, <3>1 DEF RowsStarted, ClaimPending, InHand, NoPoll, NoFence
    <3>4. QED
      BY <3>2, <3>3 DEF RunsOnce
  <2>4. CASE \E d \in Cmds : Submit(d) \/ Expire(d) \/ SweepCmdCreds(d)
    <3>1. UNCHANGED <<bootRuns, early, unreported, poll, fence, tickets, up>>
      BY <2>4 DEF Submit, Expire, SweepCmdCreds, ghost
    <3>2. RunsCounted(c)'
      BY <2>0, <3>1, TerminalStays DEF RunsCounted, Ticketable, FenceEnded, Owed, InHand
    <3>3. RowsStarted(c)' /\ ClaimPending(c)'
      BY <2>0, <3>1 DEF RowsStarted, ClaimPending, InHand, Ticketable, FenceEnded
    <3>4. QED
      BY <3>2, <3>3 DEF RunsOnce
  <2>5. QED
    BY <2>1, <2>2, <2>3, <2>4, RunsFenceStep, RunsPollStep DEF Next
<1>3. QED
  BY <1>1, <1>2 DEF RunsInv

(* One process enters the executor of a row at most once, over any number of
   crashes, failed calls and lost answers, and although passes overlap the boot
   fence: a ticket is one-shot and nobody gets a second one.  Only a row taken
   in hand before the fence ended, whose reports both failed, may use the ticket
   the fence gives it for a second run. *)
THEOREM RunsOncePerBoot == Spec => []OneRunPerBoot
<1>1. Init => RunsInv
  BY DEF Init, RunsInv, PassKnows, RunsOnce, RunsCounted, RowsStarted, ClaimPending, InHand, Ticketable, NoFence, NoPoll
<1>2. TypeInv /\ RunsInv /\ [Next]_vars => RunsInv'
  BY RunsInvStep
<1>3. RunsInv => OneRunPerBoot
  BY DEF RunsInv, RunsOnce, RunsCounted, OneRunPerBoot
<1>4. QED
  BY <1>1, <1>2, <1>3, TypeCorrect, PTL DEF Spec

-----------------------------------------------------------------------------
(* The seal of the fence.  The argument: a row that was open at boot and is
   still only requested is on the fence's list, or in its hand on the way to a
   rejection; when the list is empty there is none.  A pass that works from a
   listing older than the fence can only have chosen to re-drive a row after
   the tickets were handed out.                                             *)

Sealed(c) ==
  /\ c \in preboot => status[c] # "absent"
  /\ (c \in preboot /\ fence.pc \in {"scan", "settle", "record", "remove", "done"}
        /\ status[c] = "requested") =>
       \/ fence.pc # "done" /\ c \in fence.todo
       \/ fence.pc = "settle" /\ fence.row = {c} /\ fence.result.status = "rejected"
  /\ fence.seen[c] = "running" => Started(c)
  /\ (poll.row = {c} /\ poll.pc \in {"add", "claim"} /\ poll.redrive) =>
       c \in tickets /\ fence.pc = "done"

SealInv ==
  /\ fence.pc # "done" => tickets = {}
  /\ \A c \in Cmds : Sealed(c)

LEMMA SealFenceStep ==
  ASSUME TypeInv, SealInv, FenceStep, [Next]_vars, NEW c \in Cmds
  PROVE  Sealed(c)' /\ (fence'.pc # "done" => tickets' = {})
<1>0. /\ fence \in FenceType /\ poll \in PollType /\ status \in [Cmds -> Statuses]
      /\ fence.pc # "done" /\ tickets = {} /\ UNCHANGED <<poll, preboot>>
  BY DEF TypeInv, TypeOK, SealInv, FenceStep, FenceReadFile, FenceList, FenceScan, FenceSettle, FenceRecord,
     FenceRemove, ghost
<1>f. /\ Sealed(c) /\ (Started(c) => Started(c)')
      /\ status[c] # "absent" => status'[c] # "absent"
      /\ status[c] \notin {"absent", "requested"} => status'[c] \notin {"absent", "requested"}
  BY StartedStable, StatusForward DEF SealInv
<1> DEFINE Goal == Sealed(c)' /\ (fence'.pc # "done" => tickets' = {})
<1>1. CASE FenceReadFile
  <2>1. fence'.pc = "list" /\ fence'.seen = fence.seen /\ UNCHANGED <<tickets, status>>
    BY <1>0, <1>1 DEF FenceReadFile, FenceType, db
  <2>2. QED
    BY <1>0, <1>f, <2>1 DEF Sealed
<1>2. ASSUME fence' = [NoFence EXCEPT !.pc = "failed"], UNCHANGED tickets PROVE Goal
  <2>1. fence'.pc = "failed" /\ fence'.seen[c] = "absent"
    BY <1>2 DEF NoFence
  <2>2. QED
    BY <1>0, <1>2, <1>f, <2>1 DEF Sealed
<1>3. CASE FenceList
  <2>1. UNCHANGED <<tickets, status>>
    BY <1>3 DEF FenceList, db
  <2>2. CASE fence' = [fence EXCEPT !.pc = "scan", !.todo = OpenRows, !.seen = status]
    <3>1. fence'.pc = "scan" /\ fence'.todo = OpenRows /\ fence'.seen = status
      BY <1>0, <2>2 DEF FenceType
    <3>2. status[c] = "running" => Started(c)
      BY DEF Started
    <3>3. status[c] = "requested" => c \in OpenRows
      BY DEF OpenRows, Open
    <3>4. QED
      BY <1>0, <1>f, <2>1, <3>1, <3>2, <3>3 DEF Sealed
  <2>3. QED
    BY <1>2, <1>3, <2>1, <2>2 DEF FenceList, Throws, FenceFail
<1>4. CASE FenceScan
  <2>0. UNCHANGED status /\ fence.pc = "scan"
    BY <1>4 DEF FenceScan, db
  <2>1. ASSUME NEW d \in fence.todo, Redrives(d), UNCHANGED tickets,
               fence' = [fence EXCEPT !.todo = @ \ {d}, !.redriven = @ \union {d}]
        PROVE  Goal
    <3>1. fence'.pc = "scan" /\ fence'.todo = fence.todo \ {d} /\ fence'.seen = fence.seen
      BY <1>0, <2>0, <2>1 DEF FenceType
    <3>2. d = c => status[c] # "requested"
      BY <1>f, <2>1 DEF Redrives, Mine, Sealed, Started, Terminal
    <3>3. QED
      BY <1>0, <1>f, <2>0, <2>1, <3>1, <3>2 DEF Sealed
  <2>2. ASSUME NEW d \in fence.todo, UNCHANGED tickets,
               fence' = [fence EXCEPT !.todo = @ \ {d}, !.pc = "settle", !.row = {d}, !.result = FenceResult(d)]
        PROVE  Goal
    <3>1. /\ fence'.pc = "settle" /\ fence'.todo = fence.todo \ {d} /\ fence'.seen = fence.seen
          /\ fence'.row = {d} /\ fence'.result = FenceResult(d)
      BY <1>0, <2>0, <2>2 DEF FenceType
    <3>2. (d = c /\ status[c] = "requested") => FenceResult(d).status = "rejected"
      BY <1>f DEF FenceResult, Mine, Rejected, Sealed, Started, Terminal
    <3>3. QED
      BY <1>0, <1>f, <2>0, <2>2, <3>1, <3>2 DEF Sealed
  <2>3. ASSUME fence.todo = {}, fence' = [fence EXCEPT !.pc = "done"] PROVE Goal
    <3>1. fence'.pc = "done" /\ fence'.seen = fence.seen
      BY <1>0, <2>3 DEF FenceType
    <3>2. ~(poll.row = {c} /\ poll.pc \in {"add", "claim"} /\ poll.redrive)
      BY <1>0, <1>f DEF Sealed, Started
    <3>3. c \in preboot => status[c] # "requested"
      BY <1>f, <2>0, <2>3 DEF Sealed, Started
    <3>4. QED
      BY <1>0, <1>f, <2>0, <3>1, <3>2, <3>3 DEF Sealed
  <2>4. QED
    BY <1>4, <2>1, <2>2, <2>3 DEF FenceScan
<1>5. ASSUME NEW d \in Cmds, FenceSettle(d) PROVE Goal
  <2>0. UNCHANGED tickets /\ fence.pc = "settle" /\ fence.row = {d}
    BY <1>5 DEF FenceSettle
  <2>1. CASE Settle(d, fence.result, FenceAccepted(d)) /\ fence' = [fence EXCEPT !.pc = "record"]
    <3>1. fence'.pc = "record" /\ fence'.todo = fence.todo /\ fence'.seen = fence.seen
      BY <1>0, <2>1 DEF FenceType
    <3>2. (c \in preboot /\ status'[c] = "requested") => c \in fence.todo
      <4>1. SUFFICES ASSUME c \in preboot, status'[c] = "requested", c \notin fence.todo
                     PROVE  FALSE
        OBVIOUS
      <4>2. status[c] = "requested"
        BY <1>f, <4>1 DEF Sealed
      <4>3. d = c /\ fence.result.status = "rejected"
        BY <1>f, <2>0, <4>1, <4>2 DEF Sealed
      <4>4. status' = [status EXCEPT ![c] = "rejected"]
        BY <2>1, <4>2, <4>3 DEF Settle, FenceAccepted, RejectAccepted, Open
      <4>5. QED
        BY <1>0, <4>1, <4>4
    <3>3. QED
      BY <1>0, <1>f, <2>0, <3>1, <3>2 DEF Sealed
  <2>2. QED
    BY <1>2, <1>5, <2>0, <2>1 DEF FenceSettle, FenceFail
<1>6. ASSUME NEW d \in Cmds, FenceRecord(d) \/ FenceRemove(d) PROVE Goal
  <2>1. UNCHANGED <<tickets, status>> /\ fence.pc \in {"record", "remove"}
    BY <1>6 DEF FenceRecord, FenceRemove, db
  <2>2. fence'.pc \in {"remove", "scan"} /\ fence'.todo = fence.todo /\ fence'.seen = fence.seen
    BY <1>0, <1>6 DEF FenceRecord, FenceRemove, FenceType
  <2>3. QED
    BY <1>0, <1>f, <2>1, <2>2 DEF Sealed
<1>7. QED
  BY <1>1, <1>3, <1>4, <1>5, <1>6 DEF FenceStep

LEMMA SealPollStep ==
  ASSUME TypeInv, SealInv, PollStep, [Next]_vars, NEW c \in Cmds
  PROVE  Sealed(c)' /\ (fence'.pc # "done" => tickets' = {})
<1>0. UNCHANGED <<fence, preboot>>
  BY DEF PollStep, PollStart, PollScan, PollReject, PollRecordReject, PollAdd, PollClaim, PollDrop,
     PollRecordClaim, ExecutorEnter, ExecutorReturn, PollComplete, PollRecord, PollRemove, ghost
<1>1. tickets' \subseteq tickets
  BY DEF PollStep, PollStart, PollScan, PollReject, PollRecordReject, PollAdd, PollClaim, PollDrop, TicketsAfterClaim,
     PollRecordClaim, ExecutorEnter, ExecutorReturn, PollComplete, PollRecord, PollRemove
<1>2. Sealed(c)'
  <2>0. /\ Sealed(c) /\ (Started(c) => Started(c)')
        /\ status[c] # "absent" => status'[c] # "absent"
        /\ status[c] \notin {"absent", "requested"} => status'[c] \notin {"absent", "requested"}
    BY StartedStable, StatusForward DEF SealInv
  <2>1. (poll'.row = {c} /\ poll'.pc \in {"add", "claim"} /\ poll'.redrive) =>
          c \in tickets' /\ fence'.pc = "done"
    <3>1. CASE PollStart
      BY <3>1 DEF PollStart, NoPoll
    <3>2. CASE PollScan
      <4>1. UNCHANGED tickets
        BY <3>2 DEF PollScan
      <4>2. poll.pc = "scan"
        BY <3>2 DEF PollScan
      <4>3. CASE poll' = NoPoll
        BY <4>3 DEF NoPoll
      <4>4. CASE poll'.pc = "scan"
        BY <4>4
      <4>5. ASSUME NEW d \in poll.todo, poll'.row = {d},
                   poll'.pc = "add" => poll'.redrive = (poll.seen[d] = "running" /\ d \in tickets),
                   poll'.pc \in {"reject", "add"}
            PROVE  (poll'.row = {c} /\ poll'.pc \in {"add", "claim"} /\ poll'.redrive) =>
                      c \in tickets' /\ fence'.pc = "done"
        BY <1>0, <4>1, <4>5 DEF SealInv
      <4>6. QED
        BY <3>2, <4>3, <4>4, <4>5, PollScanRow
    <3>3. ASSUME NEW d \in Cmds, PollRowStep(d)
          PROVE  (poll'.row = {c} /\ poll'.pc \in {"add", "claim"} /\ poll'.redrive) =>
                    c \in tickets' /\ fence'.pc = "done"
      <4>1. CASE poll' = NoPoll
        BY <4>1 DEF NoPoll
      <4>2. ASSUME poll'.row = {c}, poll'.pc \in {"add", "claim"}, poll'.redrive, poll' # NoPoll
            PROVE  c \in tickets' /\ fence'.pc = "done"
        <5>1. PollAdd(d) /\ poll'.redrive = poll.redrive /\ poll.row = {d}
          BY <3>3, <4>2, PollRowEffect
        <5>2. poll'.row = {d}
          BY <3>3, <4>2, <5>1, PollRowEffect
        <5>3. c = d /\ poll.pc = "add" /\ UNCHANGED tickets
          BY <4>2, <5>1, <5>2 DEF PollAdd
        <5>4. QED
          BY <1>0, <2>0, <4>2, <5>1, <5>3 DEF Sealed
      <4>3. QED
        BY <4>1, <4>2
    <3>4. QED
      BY <3>1, <3>2, <3>3 DEF PollStep, PollRowStep
  <2>2. QED
    BY <1>0, <2>0, <2>1 DEF Sealed
<1>3. QED
  BY <1>0, <1>1, <1>2 DEF SealInv

LEMMA SealInvStep ==
  ASSUME TypeInv, SealInv, [Next]_vars
  PROVE  SealInv'
<1>1. ASSUME NEW c \in Cmds, ~FenceStep, ~PollStep
      PROVE  Sealed(c)' /\ (fence'.pc # "done" => tickets' = {})
  <2>0. /\ Sealed(c) /\ (Started(c) => Started(c)')
        /\ status[c] # "absent" => status'[c] # "absent"
        /\ status[c] \notin {"absent", "requested"} => status'[c] \notin {"absent", "requested"}
    BY StartedStable, StatusForward DEF SealInv
  <2>1. CASE UNCHANGED vars
    BY <2>0, <2>1 DEF vars, SealInv, Sealed
  <2>2. CASE Boot \/ Crash
    <3>1. fence' = NoFence /\ poll' = NoPoll /\ tickets' = {} /\ UNCHANGED status
      BY <2>2 DEF Boot, Crash, db
    <3>2. c \in preboot' => status'[c] # "absent"
      BY <2>0, <2>2 DEF Sealed, Boot, Crash, OpenRows, Open, ghost
    <3>3. QED
      BY <3>1, <3>2 DEF Sealed, NoFence, NoPoll
  <2>3. CASE \E d \in Cmds : Submit(d) \/ Expire(d) \/ SweepCmdCreds(d)
    <3>1. UNCHANGED <<fence, poll, tickets, preboot>>
      BY <2>3 DEF Submit, Expire, SweepCmdCreds, ghost
    <3>2. QED
      BY <2>0, <3>1 DEF SealInv, Sealed
  <2>4. QED
    BY <1>1, <2>1, <2>2, <2>3 DEF Next
<1>2. ASSUME NEW c \in Cmds PROVE Sealed(c)'
  BY <1>1, SealFenceStep, SealPollStep
<1>3. fence'.pc # "done" => tickets' = {}
  <2>1. CASE Cmds = {}
    <3>1. tickets' \subseteq Cmds
      BY TypeInvStep DEF TypeInv, TypeOK
    <3>2. QED
      BY <2>1, <3>1
  <2>2. CASE Cmds # {}
    BY <1>1, <2>2, SealFenceStep, SealPollStep
  <2>3. QED
    BY <2>1, <2>2
<1>4. QED
  BY <1>2, <1>3 DEF SealInv

(* After the fence, a claim on a row that was open at boot lands only on one the
   fence gave a ticket, with or without a pass that began before the fence did. *)
THEOREM FenceSeals == Spec => FenceSealsPreboot
<1>1. Init => SealInv
  BY DEF Init, SealInv, Sealed, NoFence, NoPoll
<1>2. TypeInv /\ SealInv /\ [Next]_vars => SealInv'
  BY SealInvStep
<1>3. TypeInv /\ SealInv /\ [Next]_vars =>
        [\A c \in Cmds :
           (fence.pc = "done" /\ poll.pc = "claim" /\ poll'.pc = "recordClaim" /\ poll.row = {c}
              /\ c \in preboot)
             => c \in tickets]_vars
  <2>1. SUFFICES ASSUME TypeInv, SealInv, Next, NEW c \in Cmds, fence.pc = "done", poll.pc = "claim",
                        poll'.pc = "recordClaim", poll.row = {c}, c \in preboot
                 PROVE  c \in tickets
    OBVIOUS
  <2>2. poll' # poll /\ poll' # NoPoll
    BY <2>1 DEF NoPoll
  <2>3. PollStep /\ ~PollStart /\ ~PollScan
    BY <2>1, <2>2 DEF Next, Boot, Crash, FenceStep, FenceReadFile, FenceList, FenceScan, FenceSettle, FenceRecord,
       FenceRemove, Submit, Expire, SweepCmdCreds, PollStart, PollScan
  <2>4. PICK d \in Cmds : PollRowStep(d)
    BY <2>3 DEF PollStep, PollRowStep
  <2>5. d = c /\ ClaimAccepted(c, poll.redrive)
    BY <2>1, <2>2, <2>4, PollRowEffect
  <2>6. status[c] # "requested" /\ (poll.redrive => c \in tickets)
    BY <2>1 DEF SealInv, Sealed, Started
  <2>7. QED
    BY <2>5, <2>6 DEF ClaimAccepted
<1>4. QED
  BY <1>1, <1>2, <1>3, TypeCorrect, PTL DEF Spec, FenceSealsPreboot

-----------------------------------------------------------------------------
(* No honest dispute.  The argument: each loop knows the status of every row it
   holds or has listed, so every routine it calls accepts the row, and the
   record it appends repeats what the routine has just written into a row that
   never changes again.  A call that throws leaves no record behind, except the
   report of "done", after which the catch arm makes another one.  An early pass
   knows nothing of the rows the fence decides, which is why its rows are
   exempt.                                                                   *)

PollHolds(c) ==
  /\ poll.pc = "idle" => c \notin poll.todo /\ poll.row # {c}
  /\ (c \in poll.todo /\ ~poll.early) => status[c] \in Open
  /\ poll.row = {c} => c \notin poll.todo /\ ~poll.early
  /\ (poll.row = {c} /\ poll.pc \in {"reject", "add", "claim"}) => status[c] \in Open
  /\ (poll.row = {c} /\ poll.pc \in {"recordClaim", "enter", "executing", "complete"}) => status[c] = "running"
  /\ (poll.row = {c} /\ poll.pc \in {"record", "recordReject"}) =>
       status[c] \in Terminal /\ payload[c] = poll.result

FenceHolds(c) ==
  /\ (fence.pc \in {"scan", "settle", "record", "remove"} /\ c \in fence.todo) =>
       status[c] = fence.seen[c] /\ status[c] \in Open
  /\ (fence.pc \in {"settle", "record", "remove"} /\ fence.row = {c}) => c \notin fence.todo
  /\ (fence.pc = "settle" /\ fence.row = {c}) =>
       /\ status[c] \in Open
       /\ fence.result.status = "failed" => status[c] = "running"
  /\ (fence.pc = "record" /\ fence.row = {c}) => status[c] \in Terminal /\ payload[c] = fence.result

RecordsAgree(c) ==
  \A r \in spool : (r.cmd = c /\ r.kind = "outcome") => status[c] \in Terminal /\ r.payload = payload[c]

Honest(c) == PollHolds(c) /\ FenceHolds(c) /\ RecordsAgree(c)

HonestInv == PassKnows /\ \A c \in Cmds \ (unheard \union early) : Honest(c)

(* A terminal transition that is accepted, seen from one row. *)
LEMMA SettleEffect ==
  ASSUME status \in [Cmds -> Statuses], payload \in [Cmds -> Payloads],
         NEW d \in Cmds, NEW p, NEW a, Settle(d, p, a), NEW c \in Cmds
  PROVE  /\ c # d => status'[c] = status[c] /\ payload'[c] = payload[c]
         /\ (c = d /\ a) => status'[c] = p.status /\ payload'[c] = p
BY DEF Settle

LEMMA HonestFenceStep ==
  ASSUME TypeInv, HonestInv, FenceStep, [Next]_vars, NEW c \in Cmds, c \notin early', c \notin unheard'
  PROVE  Honest(c)'
<1>0. /\ fence \in FenceType /\ poll \in PollType /\ status \in [Cmds -> Statuses]
      /\ payload \in [Cmds -> Payloads] /\ ResultInv
      /\ PollHolds(c) /\ FenceHolds(c) /\ RecordsAgree(c)
  BY GhostsGrow DEF TypeInv, TypeOK, HonestInv, Honest
<1>1. UNCHANGED poll /\ ~FenceEnded
  BY DEF FenceStep, FenceReadFile, FenceList, FenceScan, FenceSettle, FenceRecord, FenceRemove, FenceEnded
<1>2. PollHolds(c)'
  <2>1. poll.pc = "idle" \/ poll.early
    BY <1>1 DEF HonestInv, PassKnows
  <2>2. QED
    BY <1>0, <1>1, <2>1 DEF PollHolds
<1>3. FenceHolds(c)' /\ RecordsAgree(c)'
  <2>1. CASE FenceReadFile
    <3>1. fence'.pc = "list" /\ UNCHANGED <<status, payload, spool>>
      BY <1>0, <2>1 DEF FenceReadFile, FenceType, db, files
    <3>2. QED
      BY <1>0, <3>1 DEF FenceHolds, RecordsAgree
  <2>2. CASE FenceList
    <3>1. UNCHANGED <<status, payload, spool>>
      BY <2>2 DEF FenceList, db, files
    <3>2. \/ fence'.pc = "scan" /\ fence'.todo = OpenRows /\ fence'.seen = status
          \/ fence'.pc = "failed"
      BY <1>0, <2>2 DEF FenceList, FenceType, FenceFail, NoFence, Throws
    <3>3. QED
      BY <1>0, <3>1, <3>2 DEF FenceHolds, RecordsAgree, OpenRows
  <2>3. CASE FenceScan
    <3>0. UNCHANGED <<status, payload, spool>> /\ fence.pc = "scan"
      BY <2>3 DEF FenceScan, db, files
    <3>1. ASSUME NEW d \in fence.todo, fence' = [fence EXCEPT !.todo = @ \ {d}, !.redriven = @ \union {d}]
          PROVE  FenceHolds(c)' /\ RecordsAgree(c)'
      <4>1. fence'.pc = "scan" /\ fence'.todo = fence.todo \ {d} /\ fence'.seen = fence.seen
        BY <1>0, <3>0, <3>1 DEF FenceType
      <4>2. QED
        BY <1>0, <3>0, <4>1 DEF FenceHolds, RecordsAgree
    <3>2. ASSUME NEW d \in fence.todo,
                 fence' = [fence EXCEPT !.todo = @ \ {d}, !.pc = "settle", !.row = {d}, !.result = FenceResult(d)]
          PROVE  FenceHolds(c)' /\ RecordsAgree(c)'
      <4>1. /\ fence'.pc = "settle" /\ fence'.todo = fence.todo \ {d} /\ fence'.seen = fence.seen
            /\ fence'.row = {d} /\ fence'.result = FenceResult(d)
        BY <1>0, <3>2 DEF FenceType
      <4>2. FenceResult(d).status = "failed" => fence.seen[d] = "running"
        BY DEF FenceResult, Mine, Rejected
      <4>3. QED
        BY <1>0, <3>0, <3>2, <4>1, <4>2 DEF FenceHolds, RecordsAgree
    <3>3. CASE fence' = [fence EXCEPT !.pc = "done"]
      <4>1. fence'.pc = "done"
        BY <1>0, <3>3 DEF FenceType
      <4>2. QED
        BY <1>0, <3>0, <4>1 DEF FenceHolds, RecordsAgree
    <3>4. QED
      BY <2>3, <3>1, <3>2, <3>3 DEF FenceScan
  <2>4. ASSUME NEW d \in Cmds, FenceSettle(d) PROVE FenceHolds(c)' /\ RecordsAgree(c)'
    <3>0. fence.pc = "settle" /\ fence.row = {d} /\ UNCHANGED spool
      BY <2>4 DEF FenceSettle, files
    <3>a. CASE fence' = [NoFence EXCEPT !.pc = "failed"]
      <4>1. FenceHolds(c)'
        BY <3>a DEF FenceHolds, NoFence
      <4>2. Settle(d, fence.result, FenceAccepted(d)) \/ UNCHANGED db
        BY <2>4 DEF FenceSettle, Throws
      <4>3. CASE c = d
        <5>1. status[c] \notin Terminal
          BY <1>0, <3>0, <4>3 DEF FenceHolds, Open, Terminal
        <5>2. QED
          BY <1>0, <3>0, <4>1, <5>1 DEF RecordsAgree
      <4>4. CASE c # d
        <5>1. status'[c] = status[c] /\ payload'[c] = payload[c]
          BY <1>0, <4>2, <4>4, SettleEffect DEF db
        <5>2. QED
          BY <1>0, <3>0, <4>1, <5>1 DEF RecordsAgree
      <4>5. QED
        BY <4>3, <4>4
    <3>b. SUFFICES ASSUME fence' # [NoFence EXCEPT !.pc = "failed"]
                   PROVE  FenceHolds(c)' /\ RecordsAgree(c)'
      BY <3>a
    <3>1. /\ fence.pc = "settle" /\ fence.row = {d} /\ Settle(d, fence.result, FenceAccepted(d))
          /\ fence' = [fence EXCEPT !.pc = "record"] /\ UNCHANGED spool
      BY <2>4, <3>0, <3>b DEF FenceSettle, FenceFail
    <3>2. /\ fence'.pc = "record" /\ fence'.row = {d} /\ fence'.todo = fence.todo /\ fence'.seen = fence.seen
          /\ fence'.result = fence.result
      BY <1>0, <3>1 DEF FenceType
    <3>3. CASE c = d
      <4>1. FenceAccepted(c) /\ status[c] \in Open /\ c \notin fence.todo
        BY <1>0, <3>1, <3>3 DEF FenceHolds, FenceAccepted, CompleteAccepted, RejectAccepted
      <4>2. status'[c] = fence.result.status /\ payload'[c] = fence.result
        BY <1>0, <3>1, <3>3, <4>1 DEF Settle
      <4>3. fence.result.status \in Terminal
        BY <1>0, <3>1 DEF ResultInv, Terminal
      <4>4. status[c] \notin Terminal
        BY <4>1 DEF Open, Terminal
      <4>5. QED
        BY <1>0, <3>1, <3>2, <4>1, <4>2, <4>3, <4>4 DEF FenceHolds, RecordsAgree
    <3>4. CASE c # d
      <4>1. status'[c] = status[c] /\ payload'[c] = payload[c]
        BY <1>0, <3>1, <3>4, SettleEffect
      <4>2. fence'.row # {c}
        BY <3>2, <3>4
      <4>3. QED
        BY <1>0, <3>1, <3>2, <4>1, <4>2 DEF FenceHolds, RecordsAgree
    <3>5. QED
      BY <3>3, <3>4
  <2>5. ASSUME NEW d \in Cmds, FenceRecord(d) PROVE FenceHolds(c)' /\ RecordsAgree(c)'
    <3>1. /\ fence.pc = "record" /\ fence.row = {d} /\ UNCHANGED <<status, payload>>
          /\ spool' = spool \union {Record(d, "outcome", fence.result)} \/ UNCHANGED spool
      BY <1>0, <2>5 DEF FenceRecord, Append, db
    <3>2. fence'.pc = "remove" /\ fence'.row = {d} /\ fence'.todo = fence.todo /\ fence'.seen = fence.seen
      BY <1>0, <2>5 DEF FenceRecord, FenceType
    <3>3. FenceHolds(c)'
      BY <1>0, <3>1, <3>2 DEF FenceHolds
    <3>4. RecordsAgree(c)'
      BY <1>0, <3>1 DEF RecordsAgree, FenceHolds, Record
    <3>5. QED
      BY <3>3, <3>4
  <2>6. ASSUME NEW d \in Cmds, FenceRemove(d) PROVE FenceHolds(c)' /\ RecordsAgree(c)'
    <3>1. fence.pc = "remove" /\ UNCHANGED <<status, payload, spool>>
      BY <2>6 DEF FenceRemove, db
    <3>2. fence'.pc = "scan" /\ fence'.todo = fence.todo /\ fence'.seen = fence.seen
      BY <1>0, <2>6 DEF FenceRemove, FenceType
    <3>3. QED
      BY <1>0, <3>1, <3>2 DEF FenceHolds, RecordsAgree
  <2>7. QED
    BY <2>1, <2>2, <2>3, <2>4, <2>5, <2>6 DEF FenceStep
<1>4. QED
  BY <1>2, <1>3 DEF Honest

(* A pass runs once the fence has ended, or is early. *)
LEMMA PollAfterFence ==
  ASSUME PassKnows, PollStep
  PROVE  UNCHANGED fence /\ (FenceEnded \/ poll.early \/ PollStart)
<1>1. UNCHANGED fence
  BY DEF PollStep, PollStart, PollScan, PollReject, PollRecordReject, PollAdd, PollClaim, PollDrop,
     PollRecordClaim, ExecutorEnter, ExecutorReturn, PollComplete, PollRecord, PollRemove
<1>2. poll.pc # "idle" \/ PollStart
  BY DEF PollStep, PollScan, PollReject, PollRecordReject, PollAdd, PollClaim, PollDrop,
     PollRecordClaim, ExecutorEnter, ExecutorReturn, PollComplete, PollRecord, PollRemove
<1>3. QED
  BY <1>1, <1>2 DEF PassKnows

(* A step of a pass on row d leaves every other row as it is. *)
LEMMA PollOtherRows ==
  ASSUME TypeInv, NEW d \in Cmds, PollRowStep(d), NEW c \in Cmds, c # d
  PROVE  /\ status'[c] = status[c] /\ payload'[c] = payload[c]
         /\ \A r \in spool' : r \in spool \/ r.cmd = d
<1>0. status \in [Cmds -> Statuses] /\ payload \in [Cmds -> Payloads]
  BY DEF TypeInv, TypeOK
<1>1. CASE PollReject(d) \/ PollComplete(d)
  <2>1. UNCHANGED spool
    BY <1>1 DEF PollReject, PollComplete, files
  <2>2. CASE PollReject(d)
    BY <1>0, <2>1, <2>2 DEF PollReject, Settle, Throws, db
  <2>3. CASE PollComplete(d)
    BY <1>0, <2>1, <2>3 DEF PollComplete, Settle, Throws, db
  <2>4. QED
    BY <1>1, <2>2, <2>3
<1>2. CASE PollClaim(d)
  BY <1>0, <1>2 DEF PollClaim, ClaimEffect, Throws, db, files
<1>3. CASE PollRecordReject(d) \/ PollRecordClaim(d) \/ PollRecord(d)
  BY <1>3 DEF PollRecordReject, PollRecordClaim, PollRecord, Append, Record, db
<1>4. CASE PollAdd(d) \/ PollDrop(d) \/ ExecutorEnter(d) \/ ExecutorReturn(d) \/ PollRemove(d)
  BY <1>4 DEF PollAdd, PollDrop, ExecutorEnter, ExecutorReturn, PollRemove, db, files
<1>5. QED
  BY <1>1, <1>2, <1>3, <1>4 DEF PollRowStep

LEMMA HonestPollStep ==
  ASSUME TypeInv, HonestInv, PollStep, [Next]_vars, NEW c \in Cmds, c \notin early', c \notin unheard'
  PROVE  Honest(c)'
<1>0. /\ poll \in PollType /\ status \in [Cmds -> Statuses] /\ payload \in [Cmds -> Payloads] /\ ResultInv
      /\ PollHolds(c) /\ FenceHolds(c) /\ RecordsAgree(c) /\ PassKnows
  BY GhostsGrow DEF TypeInv, TypeOK, HonestInv, Honest
<1>1. FenceHolds(c)'
  <2>1. UNCHANGED fence /\ (FenceEnded \/ poll.early \/ PollStart)
    BY <1>0, PollAfterFence
  <2>2. CASE FenceEnded
    BY <2>1, <2>2 DEF FenceHolds, FenceEnded
  <2>3. CASE PollStart \/ PollScan
    <3>1. UNCHANGED <<status, payload>>
      BY <2>3 DEF PollStart, PollScan, db
    <3>2. QED
      BY <1>0, <2>1, <3>1 DEF FenceHolds
  <2>4. ASSUME NEW d \in Cmds, PollRowStep(d), poll.early PROVE FenceHolds(c)'
    <3>1. poll.row = {d}
      BY <2>4, PollRowEffect
    <3>2. c # d
      BY <1>0, <2>4, <3>1 DEF PollHolds
    <3>3. status'[c] = status[c] /\ payload'[c] = payload[c]
      BY <2>4, <3>2, PollOtherRows
    <3>4. QED
      BY <1>0, <2>1, <3>3 DEF FenceHolds
  <2>5. QED
    BY <2>1, <2>2, <2>3, <2>4 DEF PollStep, PollRowStep
<1>2. PollHolds(c)' /\ RecordsAgree(c)'
  <2>1. CASE PollStart
    <3>1. /\ poll'.pc = "scan" /\ poll'.todo = OpenRows /\ poll'.row = {}
          /\ UNCHANGED <<status, payload, spool>>
      BY <2>1 DEF PollStart, NoPoll, db, files
    <3>2. QED
      BY <1>0, <3>1 DEF PollHolds, RecordsAgree, OpenRows
  <2>2. CASE PollScan
    <3>1. UNCHANGED <<status, payload, spool>>
      BY <2>2 DEF PollScan, db, files
    <3>2. PollHolds(c)'
      <4>1. CASE poll' = NoPoll
        BY <4>1 DEF PollHolds, NoPoll
      <4>2. CASE /\ poll'.pc = "scan" /\ poll'.row = poll.row /\ poll'.todo \subseteq poll.todo
                 /\ poll'.early = poll.early
        BY <1>0, <3>1, <4>2 DEF PollHolds
      <4>3. ASSUME NEW d \in poll.todo, poll'.row = {d}, poll'.todo = poll.todo \ {d}, poll'.pc \in {"reject", "add"},
                   poll'.early = poll.early, poll.early => d \in early'
            PROVE  PollHolds(c)'
        <5>1. d = c => ~poll.early
          BY <4>3
        <5>2. QED
          BY <1>0, <3>1, <4>3, <5>1 DEF PollHolds
      <4>4. QED
        BY <2>2, <4>1, <4>2, <4>3, PollScanRow
    <3>3. QED
      BY <1>0, <3>1, <3>2 DEF RecordsAgree
  <2>3. ASSUME NEW d \in Cmds, PollRowStep(d), c # d PROVE PollHolds(c)' /\ RecordsAgree(c)'
    <3>1. /\ status'[c] = status[c] /\ payload'[c] = payload[c]
          /\ \A r \in spool' : r \in spool \/ r.cmd = d
      BY <2>3, PollOtherRows
    <3>2. poll' = NoPoll \/ (poll'.todo = poll.todo /\ poll'.row # {c} /\ poll'.early = poll.early /\ poll'.pc # "idle")
      BY <2>3, PollRowEffect
    <3>3. PollHolds(c)'
      BY <1>0, <3>1, <3>2 DEF PollHolds, NoPoll
    <3>4. RecordsAgree(c)'
      BY <1>0, <2>3, <3>1 DEF RecordsAgree
    <3>5. QED
      BY <3>3, <3>4
  <2>4. CASE PollReject(c) \/ PollComplete(c)
    <3>0. /\ poll.row = {c} /\ UNCHANGED spool /\ poll.pc \in {"reject", "complete"}
          /\ c \notin poll.todo /\ ~poll.early /\ status[c] \in Open
      BY <1>0, <2>4 DEF PollReject, PollComplete, files, PollHolds, Open
    <3>a. \A r \in spool : ~(r.cmd = c /\ r.kind = "outcome")
      BY <1>0, <3>0 DEF RecordsAgree, Open, Terminal
    <3>b. RecordsAgree(c)'
      BY <3>0, <3>a DEF RecordsAgree
    <3>c. CASE poll' = NoPoll
      BY <3>b, <3>c DEF PollHolds, NoPoll
    <3>d. CASE poll' = [poll EXCEPT !.pc = "remove", !.throwing = TRUE]
      <4>1. poll'.pc = "remove" /\ poll'.todo = poll.todo /\ poll'.row = {c} /\ poll'.early = poll.early
        BY <1>0, <3>0, <3>d DEF PollType
      <4>2. QED
        BY <3>0, <3>b, <4>1 DEF PollHolds
    <3>e. CASE poll.pc = "complete" /\ UNCHANGED db /\ poll' = [poll EXCEPT !.result = Failed("report_error", runs[c])]
      <4>1. poll'.pc = "complete" /\ poll'.todo = poll.todo /\ poll'.row = {c} /\ poll'.early = poll.early
        BY <1>0, <3>0, <3>e DEF PollType
      <4>2. status'[c] = "running"
        BY <1>0, <3>0, <3>e DEF PollHolds, db
      <4>3. QED
        BY <3>0, <3>b, <4>1, <4>2 DEF PollHolds
    <3>f. CASE \/ /\ poll.pc = "reject" /\ Settle(c, poll.result, RejectAccepted(c))
                  /\ poll' = [poll EXCEPT !.pc = "recordReject"]
               \/ /\ poll.pc = "complete" /\ Settle(c, poll.result, CompleteAccepted(c))
                  /\ poll' = [poll EXCEPT !.pc = "record"]
      <4>1. poll.result.status \in Terminal
        BY <1>0, <3>0 DEF ResultInv, Terminal
      <4>2. status'[c] = poll.result.status /\ payload'[c] = poll.result
        BY <1>0, <3>0, <3>f DEF Settle, RejectAccepted, CompleteAccepted, PollHolds
      <4>3. /\ poll'.pc \in {"record", "recordReject"} /\ poll'.todo = poll.todo /\ poll'.row = {c}
            /\ poll'.result = poll.result /\ poll'.early = poll.early
        BY <1>0, <3>0, <3>f DEF PollType
      <4>4. QED
        BY <3>0, <3>b, <4>1, <4>2, <4>3 DEF PollHolds
    <3>g. QED
      <4>1. CASE PollReject(c)
        BY <3>c, <3>f, <4>1 DEF PollReject, PollAbort
      <4>2. CASE PollComplete(c)
        <5>1. \/ /\ Settle(c, poll.result, CompleteAccepted(c))
                 /\ poll' = [poll EXCEPT !.pc = "record"]
              \/ UNCHANGED db /\ poll' = [poll EXCEPT !.result = Failed("report_error", runs[c])]
              \/ poll' = [poll EXCEPT !.pc = "remove", !.throwing = TRUE]
          BY <4>2 DEF PollComplete, Throws
        <5>2. poll.pc = "complete"
          BY <4>2 DEF PollComplete
        <5>3. QED
          BY <3>d, <3>e, <3>f, <5>1, <5>2
      <4>3. QED
        BY <2>4, <4>1, <4>2
  <2>5. CASE PollRecordReject(c) \/ PollRecord(c)
    <3>1. /\ poll.row = {c} /\ poll.pc \in {"record", "recordReject"} /\ UNCHANGED <<status, payload>>
          /\ spool' = spool \union {Record(c, "outcome", poll.result)} \/ UNCHANGED spool
      BY <1>0, <2>5 DEF PollRecordReject, PollRecord, RejectionRecorded, Append, db
    <3>2. /\ poll'.pc \in {"scan", "remove"} /\ poll'.todo = poll.todo /\ poll'.row \in {{}, {c}}
          /\ poll'.early = poll.early
      BY <1>0, <2>5 DEF PollRecordReject, PollRecord, PollType
    <3>3. PollHolds(c)'
      BY <1>0, <3>1, <3>2 DEF PollHolds
    <3>4. RecordsAgree(c)'
      BY <1>0, <3>1 DEF RecordsAgree, PollHolds, Record
    <3>5. QED
      BY <3>3, <3>4
  <2>6. CASE PollClaim(c)
    <3>0. /\ poll.row = {c} /\ poll.pc = "claim" /\ UNCHANGED spool
          /\ status[c] \in Open /\ c \notin poll.todo /\ ~poll.early
      BY <1>0, <2>6 DEF PollClaim, files, PollHolds
    <3>1. \A r \in spool : ~(r.cmd = c /\ r.kind = "outcome")
      BY <1>0, <3>0 DEF RecordsAgree, Open, Terminal
    <3>2. RecordsAgree(c)'
      BY <3>0, <3>1 DEF RecordsAgree
    <3>3. \/ poll' = NoPoll
          \/ ClaimEffect(c) /\ ClaimAccepted(c, poll.redrive) /\ poll' = [poll EXCEPT !.pc = "recordClaim"]
          \/ poll' = [poll EXCEPT !.pc = "drop"]
      BY <2>6 DEF PollClaim, PollAbort
    <3>4. \/ poll' = NoPoll
          \/ /\ poll'.todo = poll.todo /\ poll'.row = {c} /\ poll'.early = poll.early
             /\ (poll'.pc = "recordClaim" /\ status'[c] = "running") \/ poll'.pc = "drop"
      BY <1>0, <3>0, <3>3 DEF ClaimEffect, PollType
    <3>5. QED
      BY <3>0, <3>2, <3>4 DEF PollHolds, NoPoll
  <2>7. CASE PollRecordClaim(c)
    <3>1. /\ poll.row = {c} /\ poll.pc = "recordClaim" /\ UNCHANGED <<status, payload>>
          /\ spool' = spool \union {Record(c, "intent", None)} \/ UNCHANGED spool
      BY <1>0, <2>7 DEF PollRecordClaim, Append, db
    <3>2. poll'.pc = "enter" /\ poll'.todo = poll.todo /\ poll'.row = {c} /\ poll'.early = poll.early
      BY <1>0, <2>7 DEF PollRecordClaim, PollType
    <3>3. PollHolds(c)'
      BY <1>0, <3>1, <3>2 DEF PollHolds
    <3>4. RecordsAgree(c)'
      BY <1>0, <3>1 DEF RecordsAgree, Record
    <3>5. QED
      BY <3>3, <3>4
  <2>8. CASE PollAdd(c) \/ PollDrop(c) \/ ExecutorEnter(c) \/ ExecutorReturn(c) \/ PollRemove(c)
    <3>1. poll.row = {c} /\ UNCHANGED <<status, payload, spool>>
      BY <2>8 DEF PollAdd, PollDrop, ExecutorEnter, ExecutorReturn, PollRemove, db, files
    <3>2. \/ poll' = NoPoll
          \/ /\ poll'.todo = poll.todo /\ poll'.early = poll.early /\ poll'.pc # "idle"
             /\ \/ poll'.row = {}
                \/ poll'.row = {c} /\ poll.pc = "add" /\ poll'.pc = "claim"
                \/ poll'.row = {c} /\ poll.pc \in {"enter", "executing"} /\ poll'.pc \in {"executing", "complete"}
      <4>1. CASE PollAdd(c)
        BY <1>0, <4>1 DEF PollAdd, PollType
      <4>2. CASE PollDrop(c)
        BY <1>0, <4>2 DEF PollDrop, PollType
      <4>3. CASE ExecutorEnter(c)
        BY <1>0, <4>3 DEF ExecutorEnter, PollType
      <4>4. CASE ExecutorReturn(c)
        BY <1>0, <4>4 DEF ExecutorReturn, PollType
      <4>5. CASE PollRemove(c)
        BY <1>0, <4>5 DEF PollRemove, PollType
      <4>6. QED
        BY <2>8, <4>1, <4>2, <4>3, <4>4, <4>5
    <3>3. PollHolds(c)'
      BY <1>0, <3>1, <3>2 DEF PollHolds, NoPoll
    <3>4. QED
      BY <1>0, <3>1, <3>3 DEF RecordsAgree
  <2>9. QED
    BY <2>1, <2>2, <2>3, <2>4, <2>5, <2>6, <2>7, <2>8 DEF PollStep, PollRowStep
<1>3. QED
  BY <1>1, <1>2 DEF Honest

LEMMA HonestInvStep ==
  ASSUME TypeInv, HonestInv, [Next]_vars
  PROVE  HonestInv'
<1>1. PassKnows'
  BY PassKnowsStep DEF HonestInv
<1>2. ASSUME NEW c \in Cmds, c \notin early', c \notin unheard' PROVE Honest(c)'
  <2>0. /\ Honest(c) /\ status \in [Cmds -> Statuses] /\ payload \in [Cmds -> Payloads]
    BY <1>2, GhostsGrow DEF HonestInv, TypeInv, TypeOK
  <2>1. CASE UNCHANGED vars
    BY <2>0, <2>1 DEF vars, Honest, PollHolds, FenceHolds, RecordsAgree
  <2>2. CASE Boot \/ Crash
    <3>1. poll' = NoPoll /\ fence' = NoFence /\ UNCHANGED <<status, payload, spool>>
      BY <2>2 DEF Boot, Crash, db, files
    <3>2. QED
      BY <2>0, <3>1 DEF Honest, PollHolds, FenceHolds, RecordsAgree, NoPoll, NoFence
  <2>3. ASSUME NEW d \in Cmds, Submit(d) PROVE Honest(c)'
    <3>1. UNCHANGED <<poll, fence, payload, spool>>
      BY <2>3 DEF Submit
    <3>2. CASE c = d
      <4>1. status[c] = "absent"
        BY <2>3, <3>2 DEF Submit
      <4>2. status[c] \notin Open /\ status[c] \notin Terminal /\ status[c] # "running"
        BY <4>1 DEF Open, Terminal
      <4>3. QED
        BY <2>0, <3>1, <4>2 DEF Honest, PollHolds, FenceHolds, RecordsAgree
    <3>3. CASE c # d
      <4>1. status'[c] = status[c]
        BY <2>0, <2>3, <3>3 DEF Submit
      <4>2. QED
        BY <2>0, <3>1, <4>1 DEF Honest, PollHolds, FenceHolds, RecordsAgree
    <3>4. QED
      BY <3>2, <3>3
  <2>4. CASE \E d \in Cmds : Expire(d) \/ SweepCmdCreds(d)
    <3>1. UNCHANGED <<poll, fence, status, payload, spool>>
      BY <2>4 DEF Expire, SweepCmdCreds, db, files
    <3>2. QED
      BY <2>0, <3>1 DEF Honest, PollHolds, FenceHolds, RecordsAgree
  <2>5. QED
    BY <1>2, <2>1, <2>2, <2>3, <2>4, HonestFenceStep, HonestPollStep DEF Next
<1>3. QED
  BY <1>1, <1>2 DEF HonestInv

(* The console never calls a settled row disputed: whatever the order of
   submissions, deadlines, crashes, re-drives and failed calls, every outcome
   record repeats what the row says.  The theorem leaves out the rows whose
   report of "done" committed unheard, and those an early pass took in hand. *)
THEOREM HonestyHolds == Spec => []NoHonestDispute
<1>1. Init => HonestInv
  BY DEF Init, HonestInv, PassKnows, Honest, PollHolds, FenceHolds, RecordsAgree, NoFence, NoPoll
<1>2. TypeInv /\ HonestInv /\ [Next]_vars => HonestInv'
  BY HonestInvStep
<1>3. HonestInv => NoHonestDispute
  <2>1. ASSUME HonestInv, NEW c \in Cmds \ (unheard \union early) PROVE CorroborationOf(c) # "disputed"
    <3>1. \A r \in Outcomes(c) : r.payload = payload[c]
      BY <2>1 DEF HonestInv, Honest, RecordsAgree, Outcomes
    <3>2. CASE Outcomes(c) = {}
      BY <3>2 DEF CorroborationOf
    <3>3. CASE Outcomes(c) # {}
      BY <3>1, <3>3 DEF CorroborationOf
    <3>4. QED
      BY <3>2, <3>3
  <2>2. QED
    BY <2>1 DEF NoHonestDispute
<1>4. QED
  BY <1>1, <1>2, <1>3, TypeCorrect, PTL DEF Spec

=============================================================================
