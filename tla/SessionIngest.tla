---------------------------- MODULE SessionIngest ----------------------------
(***************************************************************************)
(* One session of the vault: the canonical transcript objects of its lanes *)
(* (the parent and its agent lanes), the Postgres index built from them,   *)
(* and everything that writes either.                                      *)
(*                                                                         *)
(*   - the gateway's commit routes: compose, chunk intent, acknowledgement *)
(*     and the index write deferred past it (gateway/server.ts,            *)
(*     gateway/handlers.ts, store/s3-store.ts);                            *)
(*   - the same work relayed by the cloud over the tunnel, and its         *)
(*     bytes-free reindexCanonical (store/rpc.ts);                         *)
(*   - the indexing transaction (ingest/ingest.ts) with the dedupe guard   *)
(*     (ingest/dedupe-guard.ts) and the intents (ingest/intents.ts);       *)
(*   - permanent deletion (ingest/delete.ts, rpc.ts deleteSession);        *)
(*   - the guarantor's pass: orphans, stale and intent-forced repairs and  *)
(*     the count sweep (ingest/reconciler.ts, ingest/guarantor.ts).        *)
(*                                                                         *)
(* Abstractions.  A transcript is a sequence of records and its byte count *)
(* is its length; a chunk holds one record, or a whole file; a record's    *)
(* turn is the record.  parseChunk is stateful over the text it sees: a    *)
(* twin record is suppressed when the one before it is in the same text.   *)
(* An absent canonical is the empty sequence.  The indexing transaction    *)
(* runs under the session's advisory lock and is one step; every other     *)
(* await of these handlers is a step boundary.  Counters, log lines and *)
(* the sweep's rotation stamps are reports and are left out.               *)
(***************************************************************************)
EXTENDS Integers, Sequences, FiniteSets, SequencesExt

CONSTANTS
  Lanes,       \* the session's lanes
  Parent,      \* the parent lane; the others are agent lanes under it
  Tunnel,      \* lanes whose commits the cloud relays; the rest commit to the gateway
  Twins,       \* records parseChunk drops when it sees their predecessor
  MaxRecords,  \* bound: records a client writes to one lane
  MaxResends,  \* bound: records sent again, or whole files sent to replace the canonical
  MaxBlanks,   \* bound: failed staged reads, committed as an empty chunk
  MaxFaults,   \* bound: lost index writes, lost intents, lost facts, failed stats
  MaxCrashes,  \* bound: fortress restarts
  MaxReindex,  \* bound: reindexCanonical calls
  MayDelete,   \* may the cloud delete the session?
  MayOutgrow,  \* lanes whose transcripts may outgrow the two read bounds
  JudgeBound,  \* maxCanonicalBytes and
  RepairBound  \* maxRepairBytes, in records of such a lane

ASSUME LanesAssumption == IsFiniteSet(Lanes) /\ Parent \in Lanes /\ Tunnel \subseteq Lanes /\ MayOutgrow \subseteq Lanes
ASSUME BoundAssumption == {MaxRecords, MaxResends, MaxBlanks, MaxFaults, MaxCrashes, MaxReindex,
                           JudgeBound, RepairBound} \subseteq Nat

VARIABLES
  canon,     \* [Lanes -> Seq(Nat)]: the canonical objects
  row,       \* [Lanes -> Row]: hx.sessions / hx.session_agents and their turns
  seen,      \* [Lanes -> SUBSET chunk ids]: the dedupe keys in hx.ingest_events
  intents,   \* open rows of hx.chunk_intents
  facts,     \* the session has its hx.session_facts row
  tomb,      \* hx.deleted_sessions holds the session
  del,       \* the deleteSession call: its stage
  commit,    \* [Lanes -> Commit]: the commit request in flight
  queue,     \* [Lanes -> Seq(Input)]: index writes acknowledged and not applied
  reindex,   \* the reindexCanonical call in flight
  g,         \* the guarantor's pass
  written,   \* [Lanes -> Nat]: records the client has written
  large,     \* lanes of big records: for the others no transcript comes near a bound
  resends, replaces, blanks, faults, crashes, reindexes

vars == <<canon, row, seen, intents, facts, tomb, del, commit, queue, reindex, g,
          written, resends, replaces, blanks, faults, crashes, reindexes, large>>
pg      == <<row, seen, intents, facts, tomb>>
callers == <<del, commit, queue, reindex, g>>
budget  == <<resends, replaces, blanks, faults, crashes, reindexes>>
working == <<canon, pg, callers, written, budget>>

Agents == Lanes \ {Parent}

NoRow == [here |-> FALSE, bytes |-> 0, turns |-> << >>]
NoCheck == -1       \* an IngestCommitInput field that is not set

NoCommit == [pc |-> "idle", chunk |-> 0, recs |-> << >>, replace |-> FALSE, text |-> << >>, base |-> << >>]
NoReindex == [pc |-> "idle", lane |-> Parent, stat |-> 0, text |-> << >>]
NoPass == [pc |-> "idle", list |-> [l \in Lanes |-> 0], forced |-> {}, closing |-> {},
           have |-> {}, bytes |-> [l \in Lanes |-> 0], todo |-> {}, lane |-> Parent,
           stale |-> FALSE, text |-> << >>, anchor |-> 0, failed |-> FALSE]

Intent(l, c, n) == [lane |-> l, chunk |-> c, bytes |-> n]

(* parseChunk: the turns a text yields, seen in one piece, in the order of the text. *)
Yields(text) == {i \in DOMAIN text : ~(text[i] \in Twins /\ (text[i] - 1) \in Range(text))}
Parse(text) ==
  LET nth(n) == CHOOSE i \in Yields(text) : Cardinality({k \in Yields(text) : k <= i}) = n
  IN [n \in 1..Cardinality(Yields(text)) |-> text[nth(n)]]

Events(l) == Len(row[l].turns)

(* A canonical of n records is over a read bound. *)
Exceeds(l, n, bound) == l \in large /\ n > bound

-----------------------------------------------------------------------------
(* The indexing transaction: ingestCommit for the parent, ingestAgentCommit *)
(* for a lane.  An input carries the chunk id, the text, the watermark it   *)
(* stamps, the object size it vouches for, and the guards the caller set.   *)

Live(c, text, total, replace) ==
  [chunk |-> c, text |-> text, total |-> total, object |-> total, replace |-> replace,
   recovered |-> FALSE, rebuild |-> FALSE, expect |-> NoCheck, prior |-> NoCheck]

(* judgeAppend: every record of the chunk is already indexed in this lane.  A
   text it cannot judge (an empty one) passes. *)
AllIndexed(l, text) == text # << >> /\ Range(text) \subseteq Range(row[l].turns)
NeverJudged(l, in) == FALSE
SkipsDuplicate(l, in) == ~in.replace /\ AllIndexed(l, in.text)

(* The compare-and-swap a repair passes: the row still holds the bytes the
   sweep saw. *)
IndexAdvanced(l, in) == in.expect # NoCheck /\ row[l].bytes # in.expect

PrefixMismatch(l, in) == in.prior # NoCheck /\ row[l].here /\ Len(row[l].turns) # in.prior

(* Only a row with events stops a recovered write: a content-less stub does
   not. *)
RecoveredSkips(l, in) == in.recovered /\ ~in.rebuild /\ Events(l) > 0

(* The tombstone is read again inside the lock.  The mutant trusts the read
   before the transaction. *)
TombUnchecked == FALSE
TombInLock == tomb

ParentMissing(l) == l # Parent /\ ~row[Parent].here

Outcome(l, in) ==
  CASE TombInLock -> "session_deleted"
    [] ~TombInLock /\ in.chunk \in seen[l] -> "deduped"
    [] OTHER ->
         IF SkipsDuplicate(l, in) THEN "duplicate_records"
         ELSE IF ParentMissing(l) THEN "parent_not_indexed"
         ELSE IF RecoveredSkips(l, in) THEN "recovered_skip"
         ELSE IF IndexAdvanced(l, in) THEN "index_advanced"
         ELSE IF PrefixMismatch(l, in) THEN "prefix_mismatch"
         ELSE "applied"

(* The watermark: authoritative on a replace, monotonic on an append. *)
Watermark(l, in) ==
  IF in.replace THEN in.total ELSE IF row[l].bytes > in.total THEN row[l].bytes ELSE in.total

(* clearChunkIntent by chunk id, and on a replace every intent the text
   subsumes. *)
Cleared(l, in) ==
  {i \in intents : i.lane = l /\ (i.chunk = in.chunk \/ (in.replace /\ i.bytes <= in.object))}

(* A repair's chunk id is fresh at every attempt, so its dedupe key never stops
   a later one.  The mutant uses one constant key for all repairs. *)
RepairChunk == 0
DedupeKeysConstant(c) == {c}
DedupeKeys(c) == {c} \ {RepairChunk}

(* What an applied commit leaves in the lane's row: a replace deletes the lane's
   turns before it inserts, an append adds to them. *)
InsertTurns(kept, in) == kept \o Parse(in.text)

RowAfter(l, in) ==
  [here |-> TRUE, bytes |-> Watermark(l, in),
   turns |-> InsertTurns(IF in.replace THEN << >> ELSE row[l].turns, in)]

(* A chunk skipped as duplicate clears its own intent: there is nothing left to
   index. *)
IntentsAfter(l, in) ==
  intents \ CASE Outcome(l, in) = "applied" -> Cleared(l, in)
               [] Outcome(l, in) = "duplicate_records" ->
                    {i \in intents : i.lane = l /\ i.chunk = in.chunk}
               [] OTHER -> {}

(* The facts are recomputed after an applied parent commit, in a transaction of
   their own whose failure is swallowed. *)
FactsRecomputed ==
  \/ facts' = TRUE /\ UNCHANGED faults
  \/ faults < MaxFaults /\ faults' = faults + 1 /\ UNCHANGED facts

Transact(l, in) ==
  LET applied == Outcome(l, in) = "applied"
  IN  /\ row' = IF applied THEN [row EXCEPT ![l] = RowAfter(l, in)] ELSE row
      /\ seen' = IF applied THEN [seen EXCEPT ![l] = @ \union DedupeKeys(in.chunk)] ELSE seen
      /\ intents' = IntentsAfter(l, in)
      /\ IF applied /\ l = Parent THEN FactsRecomputed ELSE UNCHANGED <<facts, faults>>
      /\ UNCHANGED tomb

-----------------------------------------------------------------------------
(* A client's commit: POST /sessions/commit and /sessions/agent-commit, or   *)
(* the cloud's appendChunkToCanonical followed by its ingest call.           *)

Refused(l) == tomb /\ l \notin Tunnel

(* The client stages a chunk: its next record; one it sent before under a fresh
   chunk id (a regressed offset); or its whole file, to replace the canonical.
   It has one chunk of a lane in flight.  The cloud relays nothing for a session
   it is deleting. *)
Staged(l, c, recs, replace) ==
  commit' = [commit EXCEPT ![l] = [NoCommit EXCEPT !.pc = "judge", !.chunk = c, !.recs = recs,
                                                   !.replace = replace]]

Send(l) ==
  /\ commit[l].pc = "idle"
  /\ l \in Tunnel => del = "none"
  /\ \/ /\ written[l] < MaxRecords
        /\ written' = [written EXCEPT ![l] = @ + 1]
        /\ Staged(l, written[l] + 1, <<written[l] + 1>>, FALSE)
        /\ UNCHANGED <<resends, replaces>>
     \/ /\ written[l] > 0 /\ resends + replaces < MaxResends
        /\ resends' = resends + 1
        /\ Staged(l, MaxRecords + resends + replaces + 1, <<written[l]>>, FALSE)
        /\ UNCHANGED <<written, replaces>>
     \/ /\ written[l] > 0 /\ resends + replaces < MaxResends
        /\ replaces' = replaces + 1
        /\ Staged(l, MaxRecords + resends + replaces + 1, [i \in 1..written[l] |-> i], TRUE)
        /\ UNCHANGED <<written, resends>>
  /\ UNCHANGED <<canon, pg, del, queue, reindex, g, blanks, faults, crashes, reindexes>>

Answer(l) == commit' = [commit EXCEPT ![l] = NoCommit]

(* A tombstoned session is refused with 410; a chunk whose every record is
   indexed is acknowledged and nothing else happens; anything else goes on to
   the compose.  A staged read that fails yields the empty text. *)
JudgeCommit(l) ==
  /\ commit[l].pc = "judge"
  /\ LET c == commit[l]
     IN  IF Refused(l) \/ (~c.replace /\ AllIndexed(l, c.recs) /\ canon[l] # << >>)
           THEN Answer(l) /\ UNCHANGED blanks
           ELSE \/ /\ commit' = [commit EXCEPT ![l].pc = "read", ![l].text = c.recs]
                   /\ UNCHANGED blanks
                \/ /\ l \notin Tunnel
                   /\ blanks < MaxBlanks /\ blanks' = blanks + 1
                   /\ commit' = [commit EXCEPT ![l].pc = "read"]
  /\ UNCHANGED <<canon, pg, del, queue, reindex, g, written, resends, replaces, faults, crashes, reindexes>>

(* appendChunkToCanonical on a small object: read the canonical and the staged
   chunk, then put both back as one object; a replace promotes the chunk alone.
   The delete removes staged chunks too, and the copy or read then fails the
   request. *)
ComposeRead(l) ==
  /\ commit[l].pc = "read"
  /\ commit' = IF del = "done" THEN [commit EXCEPT ![l] = NoCommit]
               ELSE [commit EXCEPT ![l].pc = "put",
                                   ![l].base = IF commit[l].replace THEN << >> ELSE canon[l]]
  /\ UNCHANGED <<canon, pg, del, queue, reindex, g, written, budget>>

ComposePut(l) ==
  /\ commit[l].pc = "put"
  /\ canon' = [canon EXCEPT ![l] = commit[l].base \o commit[l].recs]
  /\ commit' = [commit EXCEPT ![l].pc = "intent"]
  /\ UNCHANGED <<pg, del, queue, reindex, g, written, budget>>

(* recordChunkIntent before the acknowledgement; a failed insert is logged and
   does not fail the upload.  Then the index write is queued: in this process
   for the gateway, at the cloud for the tunnel.  The mutant notes nothing. *)
NothingNoted(l, size) == intents
Noted(l, size) == intents \union {Intent(l, commit[l].chunk, size)}

NoteIntent(l) ==
  /\ commit[l].pc = "intent"
  /\ LET c == commit[l]
         size == Len(c.base) + Len(c.recs)
     IN  /\ \/ intents' = Noted(l, size) /\ UNCHANGED faults
            \/ faults < MaxFaults /\ faults' = faults + 1 /\ UNCHANGED intents
         /\ queue' = [queue EXCEPT ![l] = Append(@, Live(c.chunk, c.text, size, c.replace))]
  /\ Answer(l)
  /\ UNCHANGED <<canon, row, seen, facts, tomb, del, reindex, g, written, resends, replaces, blanks, crashes, reindexes>>

IndexHead(l) ==
  /\ Transact(l, Head(queue[l]))
  /\ queue' = [queue EXCEPT ![l] = Tail(@)]
  /\ UNCHANGED <<canon, del, commit, reindex, g, written, resends, replaces, blanks, crashes, reindexes>>

(* The gateway's deferred chain runs a lane's index writes in commit order and
   swallows what they throw. *)
DeferredIndexWrite(l) == l \notin Tunnel /\ queue[l] # << >> /\ IndexHead(l)

(* The cloud's ingestCommit or ingestAgentCommit call.  A write the vault refused
   because the parent is not indexed yet is kept and sent again. *)
RelayedIndexWrite(l) ==
  /\ l \in Tunnel /\ queue[l] # << >>
  /\ Outcome(l, Head(queue[l])) # "parent_not_indexed"
  /\ IndexHead(l)

IndexWrite(l) == DeferredIndexWrite(l) \/ RelayedIndexWrite(l)

(* The index write is lost: Postgres is down past the one retry, or the call is
   cancelled at its deadline and the cloud's job ends in its dead letters. *)
IndexWriteLost(l) ==
  /\ queue[l] # << >> /\ faults < MaxFaults
  /\ faults' = faults + 1
  /\ queue' = [queue EXCEPT ![l] = Tail(@)]
  /\ UNCHANGED <<canon, pg, del, commit, reindex, g, written, resends, replaces, blanks, crashes, reindexes>>

(* The fortress restarts: deferred work is gone, passes and calls end, and the
   client or the cloud sends its unanswered commit again. *)
Crash ==
  /\ crashes < MaxCrashes
  /\ crashes' = crashes + 1
  /\ queue' = [l \in Lanes |-> IF l \in Tunnel THEN queue[l] ELSE << >>]
  /\ commit' = [l \in Lanes |-> IF commit[l].pc = "idle" THEN NoCommit
                                ELSE [NoCommit EXCEPT !.pc = "judge", !.chunk = commit[l].chunk,
                                                      !.recs = commit[l].recs,
                                                      !.replace = commit[l].replace]]
  /\ reindex' = NoReindex /\ g' = NoPass
  /\ del' = IF del \in {"none", "done"} THEN del ELSE "call"
  /\ UNCHANGED <<canon, pg, written, resends, replaces, blanks, faults, reindexes>>

-----------------------------------------------------------------------------
(* reindexCanonical: stat, read, then a replace with no compare-and-swap; a  *)
(* canonical over the cap is refused.                                        *)

ReindexStat(l) ==
  /\ reindex.pc = "idle" /\ reindexes < MaxReindex /\ del = "none"
  /\ reindexes' = reindexes + 1
  /\ canon[l] # << >>
  /\ reindex' = IF Exceeds(l, Len(canon[l]), JudgeBound) THEN NoReindex
                ELSE [pc |-> "read", lane |-> l, stat |-> Len(canon[l]), text |-> << >>]
  /\ UNCHANGED <<canon, pg, del, commit, queue, g, written, resends, replaces, blanks, faults, crashes>>

ReindexChunk == MaxRecords + MaxResends + reindexes

(* Nothing to index is a skip.  Otherwise an intent is noted before the database
   phase, which a crash or a missed deadline leaves open. *)
ReindexRead ==
  /\ reindex.pc = "read"
  /\ LET l == reindex.lane
         text == canon[l]
     IN  IF Parse(text) = << >>
           THEN reindex' = NoReindex /\ UNCHANGED intents
           ELSE /\ reindex' = [reindex EXCEPT !.pc = "apply", !.text = text]
                /\ intents' = intents \union {Intent(l, ReindexChunk, reindex.stat)}
  /\ UNCHANGED <<canon, row, seen, facts, tomb, del, commit, queue, g, written, budget>>

(* The watermark it stamps is the stat, never the length of the text. *)
ReindexApply ==
  /\ reindex.pc = "apply"
  /\ Transact(reindex.lane, Live(ReindexChunk, reindex.text, reindex.stat, TRUE))
  /\ reindex' = NoReindex
  /\ UNCHANGED <<canon, del, commit, queue, g, written, resends, replaces, blanks, crashes, reindexes>>

-----------------------------------------------------------------------------
(* deleteSession: tombstone, purge of Postgres, purge of the bucket; the     *)
(* cloud calls again until the answer is complete.                           *)

DeleteCalled ==
  /\ MayDelete /\ del = "none"
  /\ del' = "call"
  /\ UNCHANGED <<canon, pg, commit, queue, reindex, g, written, budget>>

(* The tombstone comes first and the call fails with it.  The mutant swallows the
   failed write. *)
TombstoneSwallowed == UNCHANGED tomb
Tombstoned == tomb' = TRUE

MarkSessionDeleted ==
  /\ del = "call"
  /\ Tombstoned
  /\ del' = "purge"
  /\ UNCHANGED <<canon, row, seen, intents, facts, commit, queue, reindex, g, written, budget>>

(* A session without a row needs no purge, and its open intents stay.  Turns go in
   batches, each a transaction of its own, and a call that reaches its deadline ends
   after one; a last transaction takes everything else. *)
PurgeBatch(l, n) ==
  /\ row' = [row EXCEPT ![l].turns = SubSeq(@, n + 1, Len(@))]
  /\ del' \in {"purge", "storeOnly"}
  /\ UNCHANGED <<seen, intents, facts>>

PurgeRest ==
  /\ row' = [l \in Lanes |-> NoRow]
  /\ seen' = [l \in Lanes |-> {}]
  /\ intents' = {}
  /\ facts' = FALSE
  /\ del' = "store"

PurgeSessionPg ==
  /\ del = "purge"
  /\ \/ ~row[Parent].here /\ del' = "store" /\ UNCHANGED <<row, seen, intents, facts>>
     \/ row[Parent].here /\ PurgeRest
     \/ row[Parent].here /\ \E l \in Lanes : \E n \in 1..Events(l) : PurgeBatch(l, n)
  /\ UNCHANGED <<canon, tomb, commit, queue, reindex, g, written, budget>>

(* The bucket's objects go one batch at a call; the answer is complete only when
   both halves are. *)
StoreDeleteSession ==
  /\ del \in {"store", "storeOnly"}
  /\ \E batch \in {Lanes, {Parent}} :
       /\ canon' = [l \in Lanes |-> IF l \in batch THEN << >> ELSE canon[l]]
       /\ del' = IF del = "store" /\ batch = Lanes THEN "done" ELSE "call"
  /\ UNCHANGED <<pg, commit, queue, reindex, g, written, budget>>
=============================================================================
