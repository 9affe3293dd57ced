----------------------------- MODULE AuditTrail -----------------------------
(***************************************************************************)
(* The audit spool and its drain (console/audit-spool.ts, ui/audit-drain.ts*)
(* cli-audit.ts).  The daemon, the console and every terminal invocation   *)
(* append records to a spool file of their own, each record fsynced before *)
(* the caller may act; the console drains the files into hx.admin_audit    *)
(* and removes those it has drained and nobody has written for an hour; a  *)
(* terminal invocation that finds the spool past its cap announces and     *)
(* removes the oldest terminal files.                                      *)
(*                                                                         *)
(* An append is two steps, the open and the write with its fsync, because  *)
(* a file removed in between takes the write with it: the path is gone and *)
(* the descriptor still works.  A file is the set of its readable records, *)
(* whether it ends in half a line, and whether its last write is older     *)
(* than the retention floor; a record is its key (file, seq) and a serial  *)
(* number standing for its payload.  File sizes are counted in records.    *)
(*                                                                         *)
(* Nothing keeps a writer away from a file between the moment the drain or *)
(* a terminal's cap reads it and the moment it is removed, and what is     *)
(* appended in between goes with the file.  Two history variables, which   *)
(* no step reads, name those records, so that the properties can say that  *)
(* no other is lost:                                                       *)
(*   swept        what a removed file held, or was about to hold, beyond   *)
(*                what its remover had read of it;                         *)
(*   straddling   what the console had between open and write when the     *)
(*                drain read the file.                                     *)
(***************************************************************************)
EXTENDS Naturals, FiniteSets, Sequences, FiniteSetsExt, SequencesExt

CONSTANTS
  Clis,        \* terminal invocations
  RotateAt,    \* SPOOL_ROTATE_BYTES, in records
  Cap,         \* SPOOL_MAX_FILES
  MaxAppends, MaxFiles, MaxFaults, MaxCrashes,   \* bounds of the model
  MaxShort,    \* writes that leave half a line in a file that is written on
  MaxTrouble   \* bound: failed calls, half lines and crashes together

Servers == {"daemon", "ui"}
Writers == Servers \cup Clis
FileIds == 1..MaxFiles

ASSUME ClisAssumption == IsFiniteSet(Clis) /\ Clis \cap Servers = {}
ASSUME SpoolLimitsAssumption ==
  /\ {RotateAt, Cap, MaxAppends, MaxFaults, MaxShort, MaxCrashes, MaxTrouble} \subseteq Nat
  /\ MaxFiles \in Nat /\ MaxFiles >= Cardinality(Writers)

VARIABLES
  spool,      \* each writer's AuditSpool: file, seq, bytes, ready, due, rotating
  append,     \* each writer's append between its open and its write
  disk,       \* the spool directory: file id -> [recs, torn, idle]
  inode,      \* how often each path was removed
  owner,      \* the writer in each file's name
  ids,        \* file ids handed out
  table,      \* hx.admin_audit
  drain,      \* the console's pass
  cli,        \* each terminal invocation: stage, plan and what the plan counted
  mismatched, \* the keys raised as integrity errors
  acked,      \* the records whose append resolved
  announced,  \* the records a spoolReclaimed record accounts for
  damaged,    \* the acknowledged records half a line made unreadable
  swept,  \* history: the records removed with a file after its remover read it
  straddling, \* history: the console's records being appended when the drain read
  serial, faults, shorts, crashes

spoolVars == <<spool, append, owner, ids>>
fileVars  == <<disk, inode>>
historyVars == <<swept, straddling>>
ghostVars == <<acked, announced, damaged, historyVars>>
limitVars == <<serial, faults, shorts, crashes>>
trailVars == <<spool, append, disk, inode, owner, ids, table, drain, cli, mismatched, acked, announced,
          damaged, swept, straddling, serial, faults, shorts, crashes>>

Records == [file : FileIds, seq : 1..(MaxAppends + MaxFaults), n : 1..(MaxAppends + MaxFaults)]
Key(r)  == <<r.file, r.seq>>
NoRec   == [file |-> 0, seq |-> 0, n |-> 0]
NoAppend == [rec |-> NoRec, inode |-> 0]
NoPass  == [pc |-> "idle", queue |-> <<>>, batch |-> {}, complete |-> TRUE, current |-> 0]
Empty   == [recs |-> {}, torn |-> FALSE, idle |-> FALSE]

OnDisk == UNION {disk[f].recs : f \in DOMAIN disk}

(* A new AuditSpool: a fresh file id, seq from zero. *)
Fresh(f) == [file |-> f, seq |-> 0, bytes |-> 0, ready |-> "none", due |-> FALSE, rotating |-> FALSE]

(* File names sort by the instant their writer started; any order will do. *)
StartOrder == CHOOSE order \in [Writers -> 1..Cardinality(Writers)] :
                \A p, q \in Writers : order[p] = order[q] => p = q

TrailInit ==
  /\ spool = [p \in Writers |-> Fresh(StartOrder[p])]
  /\ owner = [f \in FileIds |-> IF \E p \in Writers : StartOrder[p] = f
                                THEN CHOOSE p \in Writers : StartOrder[p] = f ELSE "nobody"]
  /\ append = [p \in Writers |-> NoAppend]
  /\ disk = <<>> /\ inode = [f \in FileIds |-> 0] /\ ids = Cardinality(Writers)
  /\ table = {} /\ drain = NoPass /\ mismatched = {}
  /\ cli = [c \in Clis |-> [stage |-> "new", plan |-> {}, counted |-> {}]]
  /\ acked = {} /\ announced = {} /\ damaged = {} /\ swept = {} /\ straddling = {}
  /\ serial = 0 /\ faults = 0 /\ shorts = 0 /\ crashes = 0

Untroubled == faults + shorts + crashes < MaxTrouble

-----------------------------------------------------------------------------
(* AuditSpool *)

(* The writers that still have something to say: a server always, a terminal
   invocation for the notice of its reclaim and around its verb. *)
Writing(p) == p \in Clis => cli[p].stage \in {"announce", "verb"}

(* this.seq += 1 while the record is built, before anything can fail. *)
Built(p) == [file |-> spool[p].file, seq |-> spool[p].seq + 1, n |-> serial + 1]

Directory(f) == [g \in DOMAIN disk \cup {f} |-> IF g \in DOMAIN disk THEN disk[g] ELSE Empty]

(* append -> appendOne up to open(path, "a"), which creates a missing file.  One
   append at a time: the chain is settled. *)
Open(p) ==
  /\ append[p] = NoAppend /\ ~spool[p].due /\ spool[p].ready # "refused"
  /\ Writing(p) /\ serial < MaxAppends
  /\ serial' = serial + 1
  /\ spool' = [spool EXCEPT ![p].ready = "ok", ![p].seq = @ + 1]
  /\ append' = [append EXCEPT ![p] = [rec |-> Built(p), inode |-> inode[spool[p].file]]]
  /\ disk' = Directory(spool[p].file)
  /\ UNCHANGED <<inode, owner, ids, table, drain, cli, mismatched, ghostVars, faults, shorts, crashes>>

(* The invocation whose append failed: run() rejects before the verb starts. *)
CliFailed(p) ==
  cli' = IF p \in Clis /\ cli[p].stage = "announce"
         THEN [cli EXCEPT ![p] = [stage |-> "done", plan |-> {}, counted |-> {}]] ELSE cli

(* ensureDir remembers its first answer: a refusal is every later append's. *)
RefuseOwnership(p) ==
  /\ spool[p].ready = "none" /\ Writing(p) /\ faults < MaxFaults /\ Untroubled
  /\ faults' = faults + 1
  /\ spool' = [spool EXCEPT ![p].ready = "refused"]
  /\ CliFailed(p)
  /\ UNCHANGED <<append, fileVars, owner, ids, table, drain, mismatched, ghostVars, serial, shorts, crashes>>

(* What a write leaves behind in the file it has open: nothing at all once the
   path was removed; a line after half a line is unreadable with it. *)
Landed(p, whole) ==
  LET r == append[p].rec
      d == disk[r.file]
  IN IF r.file \notin DOMAIN disk \/ append[p].inode # inode[r.file] THEN disk
     ELSE [disk EXCEPT ![r.file] =
            [recs |-> IF whole /\ ~d.torn THEN d.recs \cup {r} ELSE d.recs,
             torn |-> ~whole, idle |-> FALSE]]

ReadSpoolFile(f) == IF f \in DOMAIN disk THEN disk[f].recs ELSE {}

(* rotateDue, set only outside a rotation. *)
DueAfter(s) == ~s.rotating /\ s.bytes + 1 >= RotateAt

(* Whether a line written now is glued to half a line. *)
Glued(p) ==
  LET f == append[p].rec.file
  IN f \in DOMAIN disk /\ append[p].inode = inode[f] /\ disk[f].torn

Acknowledge(p, whole) ==
  /\ acked' = acked \cup {append[p].rec}
  /\ damaged' = IF whole /\ ~Glued(p) THEN damaged ELSE damaged \cup {append[p].rec}
  /\ append' = [append EXCEPT ![p] = NoAppend]
  /\ spool' = [spool EXCEPT ![p].bytes = @ + 1, ![p].due = @ \/ DueAfter(spool[p])]
  /\ IF p \in Clis /\ cli[p].stage = "announce"
     THEN /\ announced' = announced \cup cli[p].counted
          /\ cli' = [cli EXCEPT ![p].stage = "apply"]
     ELSE UNCHANGED <<announced, cli>>
  /\ UNCHANGED historyVars

(* write and sync returned. *)
Write(p) ==
  /\ append[p] # NoAppend
  /\ disk' = Landed(p, TRUE)
  /\ Acknowledge(p, TRUE)
  /\ UNCHANGED <<inode, owner, ids, table, drain, mismatched, limitVars>>

(* A short write: write() reports how much it wrote, and nobody looks. *)
ShortWrite(p) ==
  /\ append[p] # NoAppend /\ shorts < MaxShort /\ Untroubled
  /\ shorts' = shorts + 1
  /\ disk' = Landed(p, FALSE)
  /\ Acknowledge(p, FALSE)
  /\ UNCHANGED <<inode, owner, ids, table, drain, mismatched, serial, faults, crashes>>

(* The write or the sync threw: the whole line, nothing, or half a line is in
   the file, and the caller is told it failed. *)
WriteFails(p) ==
  /\ append[p] # NoAppend /\ faults < MaxFaults /\ Untroubled
  /\ faults' = faults + 1
  /\ \/ disk' \in {disk, Landed(p, TRUE)} /\ UNCHANGED shorts
     \/ disk' = Landed(p, FALSE) /\ shorts < MaxShort /\ shorts' = shorts + 1
  /\ append' = [append EXCEPT ![p] = NoAppend]
  /\ CliFailed(p)
  /\ UNCHANGED <<spool, inode, owner, ids, table, drain, mismatched, ghostVars, serial, crashes>>

(* rotate's last four assignments. *)
RenewedSameFile(p) ==               \* mutant: the file id is not renewed
  /\ spool' = [spool EXCEPT ![p].seq = 0, ![p].bytes = 0, ![p].due = FALSE, ![p].rotating = FALSE]
  /\ UNCHANGED <<ids, owner>>
Renewed(p) ==
  /\ ids < MaxFiles /\ ids' = ids + 1
  /\ spool' = [spool EXCEPT ![p] = [Fresh(ids + 1) EXCEPT !.ready = spool[p].ready]]
  /\ owner' = [owner EXCEPT ![ids + 1] = p]

(* append -> rotate.  Only the console has a beforeRotate to await; what is
   appended meanwhile belongs to the file being retired. *)
RotateBegin(p) ==
  /\ spool[p].due /\ ~spool[p].rotating
  /\ IF p = "ui"
     THEN /\ spool' = [spool EXCEPT ![p].due = FALSE, ![p].rotating = TRUE]
          /\ UNCHANGED <<ids, owner>>
     ELSE Renewed(p)
  /\ UNCHANGED <<append, fileVars, table, drain, cli, mismatched, ghostVars, limitVars>>

RotateEnd ==
  /\ spool["ui"].rotating
  /\ Renewed("ui")
  /\ UNCHANGED <<append, fileVars, table, drain, cli, mismatched, ghostVars, limitVars>>

(* An hour without a write to the file. *)
Age(f) ==
  /\ f \in DOMAIN disk /\ ~disk[f].idle
  /\ disk' = [disk EXCEPT ![f].idle = TRUE]
  /\ UNCHANGED <<spoolVars, inode, table, drain, cli, mismatched, ghostVars, limitVars>>

(* The pass judges a file by its listed modification time and the clock at its
   turn: one that was too young when it was listed may be old enough by then,
   whatever was appended to it since. *)
ListedAges ==
  /\ drain.queue # <<>> /\ ~Head(drain.queue).idle
  /\ drain' = [drain EXCEPT !.queue[1].idle = TRUE]
  /\ UNCHANGED <<spoolVars, fileVars, table, cli, mismatched, ghostVars, limitVars>>

(* The daemon or the console stops mid-append and is started again: a new
   writer, a new file.  The console's pass goes with it. *)
Crash(p) ==
  /\ p \in Servers /\ crashes < MaxCrashes /\ ids < MaxFiles /\ Untroubled
  /\ crashes' = crashes + 1
  /\ disk' \in IF append[p] = NoAppend THEN {disk} ELSE {disk, Landed(p, TRUE), Landed(p, FALSE)}
  /\ append' = [append EXCEPT ![p] = NoAppend]
  /\ ids' = ids + 1
  /\ spool' = [spool EXCEPT ![p] = Fresh(ids + 1)]
  /\ owner' = [owner EXCEPT ![ids + 1] = p]
  /\ drain' = IF p = "ui" THEN NoPass ELSE drain
  /\ UNCHANGED <<inode, table, cli, mismatched, ghostVars, serial, faults, shorts>>

-----------------------------------------------------------------------------
(* AuditDrain *)

(* rm(path): the directory without the file. *)
Removed(f) == [g \in DOMAIN disk \ {f} |-> disk[g]]

(* The records whose append has the file open, and those that go with the file
   unread by whoever removes it. *)
Appending(f) == {append[p].rec : p \in {q \in Writers : append[q].rec.file = f}}
Sweeps(f, read) ==
  swept' = swept \cup (ReadSpoolFile(f) \ read) \cup Appending(f)

(* listSpoolFiles, oldest first, with what each one's modification time says of
   its age. *)
Aged(f) == [file |-> f, idle |-> disk[f].idle]
OldestFirst(fs) == [n \in 1..Cardinality(fs) |->
                      Aged(CHOOSE f \in fs : Cardinality({g \in fs : g <= f}) = n)]
ListedNotCurrent == OldestFirst(DOMAIN disk \ {spool["ui"].file})   \* mutant: its own file is never drained
Listed == OldestFirst(DOMAIN disk)

(* run(), single-flight, with a database to drain into. *)
DrainBegin ==
  /\ drain.pc = "idle" /\ disk # <<>>
  /\ drain' = [NoPass EXCEPT !.pc = "read", !.queue = Listed, !.current = spool["ui"].file]
  /\ UNCHANGED <<spoolVars, fileVars, table, cli, mismatched, ghostVars, limitVars>>

At == Head(drain.queue)

(* readSpoolFile; a file with nothing readable in it is passed over. *)
DrainRead ==
  /\ drain.pc = "read" /\ drain.queue # <<>>
  /\ straddling' = straddling \cup {r \in Appending(At.file) : owner[r.file] = "ui"}
  /\ drain' = IF ReadSpoolFile(At.file) = {}
              THEN [drain EXCEPT !.queue = Tail(@)]
              ELSE [drain EXCEPT !.pc = "insert", !.batch = ReadSpoolFile(At.file), !.complete = TRUE]
  /\ UNCHANGED <<spoolVars, fileVars, table, cli, mismatched, acked, announced, damaged, swept, limitVars>>

Drained(k) == \E t \in table : Key(t) = k

(* drainedFileQuery against the batch: what is not there yet, and what is there
   with another payload. *)
Missing == {r \in drain.batch : ~Drained(Key(r))}
Altered == {Key(r) : r \in {q \in drain.batch : \E t \in table : Key(t) = Key(q) /\ t # q}}

(* ON CONFLICT DO NOTHING: the first record under a key stays. *)
Inserted(rs) == {r \in rs : \A q \in rs : Key(q) = Key(r) => r.n <= q.n}

DrainInsert ==
  /\ drain.pc = "insert"
  /\ table' = table \cup Inserted(Missing)
  /\ mismatched' = mismatched \cup Altered
  /\ drain' = [drain EXCEPT !.pc = "reclaim"]
  /\ UNCHANGED <<spoolVars, fileVars, cli, ghostVars, limitVars>>

(* The query or a later chunk failed: some of the file may be in the table. *)
DrainInsertFails ==
  /\ drain.pc = "insert" /\ faults < MaxFaults /\ Untroubled
  /\ faults' = faults + 1
  /\ \E part \in SUBSET Missing : table' = table \cup Inserted(part)
  /\ mismatched' \in {mismatched, mismatched \cup Altered}
  /\ drain' = [drain EXCEPT !.pc = "reclaim", !.complete = FALSE]
  /\ UNCHANGED <<spoolVars, fileVars, cli, ghostVars, serial, shorts, crashes>>

(* What lets a file go. *)
ReclaimableUndrained == At.idle /\ At.file # drain.current           \* mutant: complete is not asked
ReclaimableOwn       == drain.complete /\ At.idle                    \* mutant: nor the console's own file
Reclaimable          == drain.complete /\ At.idle /\ At.file # drain.current

DrainReclaim ==
  /\ drain.pc = "reclaim"
  /\ IF Reclaimable
     THEN /\ disk' = Removed(At.file)
          /\ inode' = [inode EXCEPT ![At.file] = @ + 1]
          /\ Sweeps(At.file, drain.batch)
     ELSE UNCHANGED <<fileVars, swept>>
  /\ drain' = [drain EXCEPT !.pc = "read", !.queue = Tail(@), !.batch = {}]
  /\ UNCHANGED <<spoolVars, table, cli, mismatched, acked, announced, damaged, straddling, limitVars>>

(* The pass ends: corroborate, which adds no record of its own here. *)
DrainEnd ==
  /\ drain.pc = "read" /\ drain.queue = <<>>
  /\ drain' = NoPass
  /\ UNCHANGED <<spoolVars, fileVars, table, cli, mismatched, ghostVars, limitVars>>

-----------------------------------------------------------------------------
(* CliAudit *)

(* planSpoolReclaim: the oldest terminal files but its own, as many as the spool
   with this invocation's file is over the cap. *)
Excess == Cardinality(DOMAIN disk) + 1 - Cap
OldestOf(fs, k) == {f \in fs : Cardinality({g \in fs : g < f}) < k}
PlanAnyWriter(c)   == OldestOf({f \in DOMAIN disk : f # spool[c].file}, Excess)    \* mutant: any writer's
PlannedReclaim(c)  ==
  OldestOf({f \in DOMAIN disk : owner[f] \in Clis /\ f # spool[c].file}, Excess)

(* What is to go, and what the announcement will count. *)
Unannounced(c) ==                   \* mutant: the files go before the notice is written
  [stage |-> "apply", plan |-> PlannedReclaim(c), counted |-> UNION {disk[f].recs : f \in PlannedReclaim(c)}]
Announcing(c) ==
  [stage |-> "announce", plan |-> PlannedReclaim(c), counted |-> UNION {disk[f].recs : f \in PlannedReclaim(c)}]

(* enforceCap up to the announcement. *)
EnforceCap(c) ==
  /\ cli[c].stage = "new"
  /\ IF Cardinality(DOMAIN disk) + 1 > Cap /\ PlannedReclaim(c) # {}
     THEN cli' = [cli EXCEPT ![c] = Announcing(c)]
     ELSE cli' = [cli EXCEPT ![c].stage = "verb"]
  /\ UNCHANGED <<spoolVars, fileVars, table, drain, mismatched, ghostVars, limitVars>>

(* applySpoolReclaim, a file at a time; then the verb. *)
ApplyReclaim(c) ==
  /\ cli[c].stage = "apply"
  /\ \/ /\ cli[c].plan # {}
        /\ LET f == Min(cli[c].plan) IN
             /\ disk' = Removed(f)
             /\ inode' = [inode EXCEPT ![f] = @ + 1]
             /\ Sweeps(f, cli[c].counted)
             /\ cli' = [cli EXCEPT ![c].plan = @ \ {f}]
     \/ /\ cli[c].plan = {}
        /\ cli' = [cli EXCEPT ![c] = [stage |-> "verb", plan |-> {}, counted |-> {}]]
        /\ UNCHANGED <<fileVars, swept>>
  /\ UNCHANGED <<spoolVars, table, drain, mismatched, acked, announced, damaged, straddling, limitVars>>

(* The invocation is over, whatever it got to write. *)
Exit(c) ==
  /\ cli[c].stage = "verb" /\ append[c] = NoAppend
  /\ cli' = [cli EXCEPT ![c].stage = "done"]
  /\ UNCHANGED <<spoolVars, fileVars, table, drain, mismatched, ghostVars, limitVars>>

-----------------------------------------------------------------------------
TrailNext ==
  \/ \E p \in Writers : \/ Open(p) \/ RefuseOwnership(p) \/ Write(p) \/ ShortWrite(p)
                        \/ WriteFails(p) \/ RotateBegin(p) \/ Crash(p)
  \/ RotateEnd
  \/ \E f \in FileIds : Age(f)
  \/ ListedAges
  \/ DrainBegin \/ DrainRead \/ DrainInsert \/ DrainInsertFails \/ DrainReclaim \/ DrainEnd
  \/ \E c \in Clis : EnforceCap(c) \/ ApplyReclaim(c) \/ Exit(c)

TrailSpec == TrailInit /\ [][TrailNext]_trailVars

(* The console's timer runs a pass every thirty seconds; a pass and an append
   that are under way end. *)
DrainStep == DrainBegin \/ DrainRead \/ DrainInsert \/ DrainReclaim \/ DrainEnd
FairTrailSpec == TrailSpec /\ WF_trailVars(DrainStep) /\ \A p \in Writers : WF_trailVars(Write(p))

-----------------------------------------------------------------------------
(* Every record whose append resolved - so that its caller went on to act - is
   readable in the spool, in the audit table, or among those a reclaim announced
   as dropped (appendOne, AuditDrain.pass, enforceCap).  Lost are only the lines
   half a line made unreadable, and those appended to a file between the moment
   its remover read it and the moment it removed it: what a remover had read is
   never lost, whatever fails, rotates, restarts or is reclaimed meanwhile. *)
TrailComplete == acked \subseteq table \cup OnDisk \cup announced \cup damaged \cup swept

(* Of the console's own records the drain loses none but one whose append had the
   file open when the drain read it and when it removed it: the pass never removes
   the file the console writes, so only the last append before a rotation or a
   restart can be in between.  Half a line costs the record it was of and the one
   glued to it, and no other. *)
ConsoleTrailComplete ==
  /\ {r \in acked : owner[r.file] = "ui"} \subseteq table \cup OnDisk \cup damaged \cup (straddling \cap swept)
  /\ Cardinality(damaged) <= 2 * shorts

(* The drain accuses nobody: with no file altered behind the writers' backs, no
   record ever disagrees with the one drained under its key, through failed
   writes, rotations and restarts (the key built by appendOne and rotate). *)
NoFalseIntegrityError == mismatched = {}

(* What the console writes, it keeps, and it accuses nobody falsely. *)
ConsoleTrailSound == ConsoleTrailComplete /\ NoFalseIntegrityError

(* Every readable record whose append resolved reaches the audit table, unless a
   reclaim announced it or its file was removed under it (AuditDrain.start, pass). *)
EveryRecordDrained ==
  \A n \in 1..MaxAppends :
    (\E r \in acked : r.n = n) ~> (\E r \in table \cup announced \cup damaged \cup swept : r.n = n)
=============================================================================
