------------------------------ MODULE Guarantor ------------------------------
(***************************************************************************)
(* The guarantor's pass over one session (ingest/reconciler.ts, driven by  *)
(* ingest/guarantor.ts), running against everything in SessionIngest.      *)
(*                                                                         *)
(* A pass lists the store first, then reads the open chunk intents, then   *)
(* takes its snapshot of the index.  It walks the listed canonicals, the   *)
(* parent before its lanes: one with no indexed row is restored, one whose *)
(* row is behind or has an open intent is repaired, by appending the tail  *)
(* where that is possible and by a rebuild otherwise.  The count sweep     *)
(* then judges every row the byte gate calls covered.                      *)
(*                                                                         *)
(* Every store or database call is a step of its own, except that a        *)
(* repair's count and the transaction it leads to are one step, and that   *)
(* the queries of the bulk gate are one snapshot.  Every open intent is    *)
(* old enough to be stale.                                                 *)
(*                                                                         *)
(* A canonical over the repair read bound is never read: one without rows  *)
(* then stays out of the index for good, and one over the lower cap is     *)
(* never judged by the count sweep.  A pass in which too much of the       *)
(* corpus is behind holds back the stale repairs that no intent forces.    *)
(* The orphans per pass and stand-downs under load only postpone work and  *)
(* are left out; so are sequence gaps, which nothing here can create.      *)
(***************************************************************************)
EXTENDS SessionIngest

guarantorOnly == <<canon, row, seen, intents, facts, tomb, del, commit, queue, reindex,
                   written, budget>>
others == <<canon, del, commit, queue, reindex, written, resends, replaces, blanks, crashes, reindexes>>

-----------------------------------------------------------------------------
(* Selection.                                                                *)

ListStore ==
  /\ g.pc = "idle"
  /\ g' = [NoPass EXCEPT !.pc = "intents", !.list = [l \in Lanes |-> Len(canon[l])]]
  /\ UNCHANGED guarantorOnly

(* An intent that can never resolve: the session is tombstoned, or the lane's
   own canonical or its parent's is absent. *)
TerminalIntent(l) == tomb \/ canon[l] = << >> \/ canon[Parent] = << >>

(* A stat or tombstone read that throws leaves the intent open. *)
StaleIntents ==
  /\ g.pc = "intents"
  /\ LET open == {i.lane : i \in intents}
         terminal == {l \in open : TerminalIntent(l)}
     IN  \/ /\ g' = [g EXCEPT !.pc = "gate", !.closing = terminal, !.forced = open \ terminal]
            /\ UNCHANGED faults
         \/ /\ terminal # {} /\ faults < MaxFaults /\ faults' = faults + 1
            /\ g' = [g EXCEPT !.pc = "gate", !.forced = open]
  /\ UNCHANGED <<others, pg>>

(* A session left without facts by a swallowed recompute gets them; the mutant
   leaves it without. *)
FactsLeft == facts
FactsAfter == facts \/ row[Parent].here

(* Terminal intents are closed; the gate's snapshot of rows with events and
   their watermarks is taken; missing facts are computed. *)
BulkGate ==
  /\ g.pc = "gate"
  /\ intents' = {i \in intents : i.lane \notin g.closing}
  /\ facts' = FactsAfter
  /\ g' = [g EXCEPT !.pc = "pick", !.closing = {},
                    !.have = {l \in Lanes : Events(l) > 0},
                    !.bytes = [l \in Lanes |-> row[l].bytes],
                    !.todo = {l \in Lanes : g.list[l] > 0}]
  /\ UNCHANGED <<others, row, seen, tomb, faults>>

(* The walk goes on with the next canonical. *)
NextCanonical(failed) ==
  [g EXCEPT !.pc = "pick", !.todo = @ \ {g.lane}, !.text = << >>, !.anchor = 0, !.stale = FALSE,
            !.lane = Parent, !.failed = @ \/ (failed /\ g.lane = Parent)]

(* A row with events is repaired only when it is behind its canonical or an
   intent forces it. *)
Behind(l) == g.bytes[l] < g.list[l]

(* maxRepairBytes, of the size that was listed. *)
TooLargeToRead(l) == Exceeds(l, g.list[l], RepairBound)

Walk(l) == l \in g.todo /\ (Parent \in g.todo => l = Parent)

PickCanonical ==
  /\ g.pc = "pick"
  /\ IF g.todo = {}
       THEN g' = [NoPass EXCEPT !.pc = "sweep", !.todo = {l \in Lanes : row[l].here}]
       ELSE \E l \in Lanes :
              /\ Walk(l)
              /\ g' = IF \/ l \in g.have /\ ~Behind(l) /\ l \notin g.forced
                         \/ l # Parent /\ g.failed
                         \/ TooLargeToRead(l)
                        THEN [g EXCEPT !.todo = @ \ {l}]
                        ELSE [g EXCEPT !.pc = "check", !.lane = l, !.stale = l \in g.have]
  /\ UNCHANGED guarantorOnly

(* The ceiling: when most of the corpus is behind, a row is not taken for stale. *)
HoldBack ==
  /\ g.pc = "pick"
  /\ \E l \in g.have \ g.forced : Walk(l) /\ g' = [g EXCEPT !.todo = @ \ {l}]
  /\ UNCHANGED guarantorOnly

-----------------------------------------------------------------------------
(* Restore and repair.                                                       *)

(* keyExists vetoes a restore whose row has appeared; a tombstone skips. *)
CheckCanonical ==
  /\ g.pc = "check"
  /\ g' = IF (~g.stale /\ Events(g.lane) > 0) \/ tomb THEN NextCanonical(FALSE)
          ELSE [g EXCEPT !.pc = "read"]
  /\ UNCHANGED guarantorOnly

(* The tail is appended only to a parent whose indexed prefix is positive and
   shorter than the canonical read; a missing canonical is an error. *)
CanAppendTail(text) ==
  /\ g.lane = Parent /\ g.stale
  /\ 0 < g.bytes[Parent] /\ g.bytes[Parent] < Len(text)

ReadCanonical ==
  /\ g.pc = "read"
  /\ g' = IF canon[g.lane] = << >> THEN NextCanonical(TRUE)
          ELSE [g EXCEPT !.pc = IF CanAppendTail(canon[g.lane]) THEN "tail" ELSE "full",
                         !.text = canon[g.lane],
                         !.anchor = IF g.stale THEN g.bytes[g.lane] ELSE NoCheck]
  /\ UNCHANGED guarantorOnly

Prefix == SubSeq(g.text, 1, g.bytes[Parent])
TailText == SubSeq(g.text, g.bytes[Parent] + 1, Len(g.text))
ExpectPriorTurns == Len(Parse(Prefix))
ExpectAfterAppend == ExpectPriorTurns + Len(Parse(TailText))

TailInput ==
  [chunk |-> RepairChunk, text |-> TailText, total |-> Len(g.text), object |-> g.list[Parent],
   replace |-> FALSE, recovered |-> TRUE, rebuild |-> TRUE, expect |-> g.bytes[Parent],
   prior |-> ExpectPriorTurns]

AppendTail ==
  /\ g.pc = "tail"
  /\ Transact(Parent, TailInput)
  /\ LET o == Outcome(Parent, TailInput)
     IN  g' = CASE o = "index_advanced" -> NextCanonical(FALSE)
                [] o = "session_deleted" -> NextCanonical(TRUE)
                [] o = "applied" -> [g EXCEPT !.pc = "verify"]
                [] OTHER -> [g EXCEPT !.pc = "full"]
  /\ UNCHANGED others

(* verifyLane with a fresh stat, then the acceptance of a tail that landed
   exactly although the whole parses to less.  A canonical that grew defers the
   rebuild; otherwise it is anchored to what the row holds now. *)
Landed ==
  LET r == row[Parent]
  IN  /\ canon[Parent] # << >> /\ r.here /\ r.bytes >= Len(canon[Parent])
      /\ \/ Len(r.turns) = Len(Parse(g.text))
         \/ /\ r.bytes >= Len(g.text)
            /\ Len(r.turns) = ExpectAfterAppend
            /\ ExpectAfterAppend > Len(Parse(g.text))

VerifyTail ==
  /\ g.pc = "verify"
  /\ g' = IF Landed \/ Len(canon[Parent]) > g.list[Parent] THEN NextCanonical(FALSE)
          ELSE [g EXCEPT !.pc = "full",
                         !.anchor = IF row[Parent].here THEN row[Parent].bytes ELSE NoCheck]
  /\ UNCHANGED guarantorOnly

FullInput ==
  [chunk |-> RepairChunk, text |-> g.text, total |-> Len(g.text), object |-> g.list[g.lane],
   replace |-> TRUE, recovered |-> TRUE, rebuild |-> g.stale, expect |-> g.anchor, prior |-> NoCheck]

RebuildFrom(l) ==
  /\ g.pc = "full" /\ g.lane = l
  /\ Transact(l, FullInput)
  /\ g' = NextCanonical(Outcome(l, FullInput) \in {"session_deleted", "parent_not_indexed"})
  /\ UNCHANGED others

(* What the verification after a rebuild finds is only reported. *)
RebuildParent == RebuildFrom(Parent)
RebuildLane == \E l \in Agents : RebuildFrom(l)

-----------------------------------------------------------------------------
(* deepVerifySweep and deepVerifyLanes: anchor, stat, read, judge.           *)

NextRow == [NoPass EXCEPT !.pc = "sweep", !.todo = g.todo \ {g.lane}]

SweepRow ==
  /\ g.pc = "sweep"
  /\ IF g.todo = {} THEN g' = NoPass
     ELSE \E l \in Lanes :
            /\ Walk(l)
            /\ g' = IF tomb THEN [g EXCEPT !.todo = @ \ {l}]
                    ELSE [g EXCEPT !.pc = "stat", !.lane = l,
                                   !.anchor = IF row[l].here THEN row[l].bytes ELSE NoCheck]
  /\ UNCHANGED guarantorOnly

(* Only a row that covers its canonical is judged: one that is behind belongs
   to the byte gate.  None is over the read cap. *)
CoversCanonical(stat) ==
  stat > 0 /\ (g.anchor # NoCheck => stat <= g.anchor) /\ ~Exceeds(g.lane, stat, JudgeBound)

SweepStat ==
  /\ g.pc = "stat"
  /\ LET stat == Len(canon[g.lane])
     IN  g' = IF CoversCanonical(stat)
                THEN [g EXCEPT !.pc = "count", !.list = [@ EXCEPT ![g.lane] = stat]]
                ELSE NextRow
  /\ UNCHANGED guarantorOnly

(* A read of another length than the stat is a canonical that moved. *)
SweepRead ==
  /\ g.pc = "count"
  /\ g' = IF canon[g.lane] = << >> \/ Len(canon[g.lane]) # g.list[g.lane] THEN NextRow
          ELSE [g EXCEPT !.pc = "judge", !.text = canon[g.lane]]
  /\ UNCHANGED guarantorOnly

CountInput ==
  [chunk |-> RepairChunk, text |-> g.text, total |-> Len(g.text), object |-> g.list[g.lane],
   replace |-> TRUE, recovered |-> TRUE, rebuild |-> TRUE, expect |-> g.anchor, prior |-> NoCheck]

(* Fewer turns than the whole parses to is damage; as many or more proves
   nothing and is left alone. *)
EnoughTurns == Events(g.lane) >= Len(Parse(g.text))

SweepJudge ==
  /\ g.pc = "judge"
  /\ IF EnoughTurns THEN UNCHANGED <<pg, faults>> ELSE Transact(g.lane, CountInput)
  /\ g' = NextRow
  /\ UNCHANGED others

Pass ==
  \/ ListStore \/ StaleIntents \/ BulkGate \/ PickCanonical \/ HoldBack \/ CheckCanonical \/ ReadCanonical
  \/ AppendTail \/ VerifyTail \/ RebuildParent \/ RebuildLane \/ SweepRow \/ SweepStat \/ SweepRead \/ SweepJudge

-----------------------------------------------------------------------------
Init ==
  /\ canon = [l \in Lanes |-> << >>]
  /\ row = [l \in Lanes |-> NoRow]
  /\ seen = [l \in Lanes |-> {}]
  /\ intents = {} /\ facts = FALSE /\ tomb = FALSE
  /\ del = "none"
  /\ commit = [l \in Lanes |-> NoCommit]
  /\ queue = [l \in Lanes |-> << >>]
  /\ reindex = NoReindex
  /\ g = NoPass
  /\ written = [l \in Lanes |-> 0]
  /\ resends = 0 /\ replaces = 0 /\ blanks = 0 /\ faults = 0 /\ crashes = 0 /\ reindexes = 0
  /\ large \in SUBSET MayOutgrow

CommitStep(l) == JudgeCommit(l) \/ ComposeRead(l) \/ ComposePut(l) \/ NoteIntent(l)
DeleteStep == MarkSessionDeleted \/ PurgeSessionPg \/ StoreDeleteSession
ReindexStep == ReindexRead \/ ReindexApply

Step ==
  \/ \E l \in Lanes : Send(l) \/ CommitStep(l) \/ IndexWrite(l) \/ IndexWriteLost(l) \/ ReindexStat(l)
  \/ ReindexStep \/ DeleteCalled \/ DeleteStep \/ Pass \/ Crash

(* Which lanes have big records is the transcripts' affair, and the bounds are settings. *)
Next == Step /\ UNCHANGED large

Spec == Init /\ [][Next]_vars

(* Requests and calls run to their end, the deferred chain drains, and the
   guarantor's timer never stops starting passes.  A delete that stops at its
   deadline or its batch is called again, and not for ever. *)
Fairness ==
  /\ \A l \in Lanes : WF_working(CommitStep(l)) /\ WF_working(IndexWrite(l))
  /\ WF_working(ReindexStep) /\ WF_working(Pass)
  /\ WF_working(MarkSessionDeleted) /\ SF_working(PurgeSessionPg /\ del' = "store")
  /\ SF_working(StoreDeleteSession /\ del' = "done")

FairSpec == Spec /\ Fairness

-----------------------------------------------------------------------------
(* Every variable has its type. *)
TypeOK ==
  /\ DOMAIN canon = Lanes /\ DOMAIN row = Lanes
  /\ \A l \in Lanes :
       /\ Range(canon[l]) \subseteq 1..MaxRecords /\ Range(row[l].turns) \subseteq 1..MaxRecords
       /\ row[l].bytes \in Nat /\ (Events(l) > 0 => row[l].here)
       /\ seen[l] \subseteq 1..(MaxRecords + MaxResends + MaxReindex)
       /\ commit[l].pc \in {"idle", "judge", "read", "put", "intent"}
  /\ \A i \in intents : i.lane \in Lanes /\ i.bytes \in Nat
  /\ {facts, tomb} \subseteq BOOLEAN
  /\ del \in {"none", "call", "purge", "store", "storeOnly", "done"}
  /\ reindex.pc \in {"idle", "read", "apply"}
  /\ g.pc \in {"idle", "intents", "gate", "pick", "check", "read", "tail", "verify", "full",
              "sweep", "stat", "count", "judge"}
  /\ g.todo \subseteq Lanes /\ g.lane \in Lanes

Missing(l) == Range(Parse(canon[l])) \ Range(row[l].turns)

(* Turns of the index that the whole canonical would not yield: a twin whose
   chunk was parsed on its own. *)
Surplus(l) == Range(row[l].turns) \ Range(Parse(canon[l]))

(* As long as no client replaces a canonical, the count sweep can find whatever
   the index misses, however often calls fail or the vault restarts: a lane holds
   fewer turns than its canonical parses to, unless a surplus turn makes up the
   number (guarantor.ts: every canonical in the bucket becomes queryable). *)
Findable ==
  replaces = 0 /\ ~tomb =>
    \A l \in Lanes : Missing(l) # {} => Events(l) < Len(Parse(canon[l])) \/ Surplus(l) # {}

(* Whatever number hides it, one failed call or one restart loses nothing of the
   parent lane: a record the index misses is still on its way, or its chunk intent
   is open and forces a repair (unless the canonical is over the repair's read
   bound).  Two rebuilds are left out: the one a client or the
   cloud asks for takes no look at what was indexed since it read, and an empty
   chunk is indexed as nothing (intents.ts, reconciler.ts forced lanes). *)
UnderWay(l) == commit[l].pc # "idle" \/ queue[l] # << >>
OneFailureHeals ==
  /\ replaces = 0 /\ reindexes = 0 /\ blanks = 0 /\ faults + crashes <= 1 /\ ~tomb
  /\ Missing(Parent) # {}
  => UnderWay(Parent) \/ \E i \in intents : i.lane = Parent

Copies(s, r) == Cardinality({i \in DOMAIN s : s[i] = r})

(* As long as no canonical is replaced, no lane ever holds a record more often than
   its canonical does: a rebuild and the deferred write of the same chunk never
   both add it, nor do a chunk and its re-send (dedupe-guard.ts, ingest.ts). *)
NoIndexDuplicates ==
  replaces = 0 /\ ~tomb =>
    \A l \in Lanes : \A r \in 1..MaxRecords : Copies(row[l].turns, r) <= Copies(canon[l], r)

(* What the index misses can still be found, and what it has it has once. *)
IndexSound == Findable /\ OneFailureHeals /\ NoIndexDuplicates

(* Once the bucket purge has answered, the session is out of the index for good:
   no row, fact or turn of it, whatever was queued, in flight or being repaired
   when the delete was called (delete.ts, ingest.ts tombstone re-read). *)
DeletedStaysOut == del = "done" => ~facts /\ \A l \in Lanes : ~row[l].here

(* What the guarantor may leave unindexed for good: a lane that outgrew the repair's
   read bound, or whose parent did, and a row behind its canonical, with no open
   intent, that the ceiling holds back. *)
Outgrown(l) == \E k \in {l, Parent} : Exceeds(k, Len(canon[k]), RepairBound)
HeldBack(l) ==
  Events(l) > 0 /\ row[l].bytes < Len(canon[l]) /\ \A i \in intents : i.lane # l

(* When uploads stop, every lane within those bounds ends complete: each record the
   canonical parses to is indexed, the watermark covers it and the session has its
   facts; or the session is deleted (guarantor.ts: every canonical becomes queryable,
   but reconciler.ts permanentlyUnindexed). *)
Complete ==
  /\ \A l \in Lanes :
       canon[l] # << >> /\ ~Outgrown(l) /\ ~HeldBack(l) => Missing(l) = {} /\ row[l].bytes >= Len(canon[l])
  /\ row[Parent].here => facts
LaneStranded == canon[Parent] = << >>
Converges == <>[](replaces > 0 \/ tomb \/ Complete \/ LaneStranded)

(* The vault keeps the promise of SessionArchive, whatever commits, rebuilds,
   repairs, a delete and crashes do to each other: no index gains a record after
   the tombstone, none ever holds a record that is not in the transcript, and a
   transcript loses none (ingest.ts, delete.ts, reconciler.ts). *)
Archive ==
  INSTANCE SessionArchive WITH
    Lane <- Lanes, Record <- 1..MaxRecords,
    transcript <- canon, index <- [l \in Lanes |-> Range(row[l].turns)], deleted <- tomb
ArchiveSpec == Archive!Spec
=============================================================================
