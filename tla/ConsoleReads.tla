---------------------------- MODULE ConsoleReads ----------------------------
(***************************************************************************)
(* What the console answers from (ui/console-mount.ts, console-read-port.ts*)
(* and read-routes.ts): a database handle opened lazily from coordinates   *)
(* another process writes, at most one attempt at a time, and shared by    *)
(* every request; and a storage credential re-read before each use,        *)
(* because the daemon rewrites the file at a rotation and at the cut of a  *)
(* migration.                                                              *)
(*                                                                         *)
(* Three kinds of read are told apart: one that must have the database     *)
(* (`query`), one that models "no answer" as unknown (`queryIfReachable`), *)
(* and the per-session residency check, which needs the row and then the   *)
(* bucket.  An export is a required read with a record of the copy.        *)
(***************************************************************************)
EXTENDS Naturals, FiniteSets

CONSTANTS Readers, MaxChanges, MaxReads           \* requests at once; bounds of the model

ASSUME ReadLimitsAssumption == IsFiniteSet(Readers) /\ {MaxChanges, MaxReads} \subseteq Nat

NoDb      == 0
Databases == {1, 2}                               \* what pg.json can name: the embedded one, an external one
Kinds     == {"page", "facts", "verify", "export"}

VARIABLES
  outside,  \* coords in pg.json, databases that answer, credential version, the bucket it names,
            \* the buckets holding the session, is its row written, changes left
  mount,    \* handle, database state, the attempt in flight, the credential and store last built
  asks      \* each request: kind, step, the handle or bucket it asks, the buckets served during it, its answer

readVars == <<outside, mount, asks>>

NoAttempt == [pc |-> "idle", dsn |-> NoDb, sour |-> FALSE]
NoAsk     == [kind |-> "", pc |-> "idle", db |-> NoDb, served |-> {}, said |-> "", from |-> NoDb,
              sour |-> FALSE, stat |-> 0, recorded |-> FALSE]

ReadsInit(on) ==
  /\ outside = [on |-> on, coords |-> NoDb, reach |-> {}, version |-> 1, bucket |-> 1, holds |-> {}, left |-> MaxChanges,
                reads |-> MaxReads]
  /\ mount = [handle |-> NoDb, says |-> "not-configured", attempt |-> NoAttempt, sig |-> 0, vault |-> 0,
              store |-> 0]
  /\ asks = [r \in Readers |-> NoAsk]

\* ------------------------------------------------------------------ the world
Bad(o) == o.coords = NoDb \/ o.coords \notin o.reach

(* The database an attempt has read from pg.json, and is about to prove, is gone; pg.json may name
   another by now *)
Gone(attempt, o) == attempt.pc = "opening" /\ attempt.dsn \notin o.reach

(* Whatever is under way remembers that the database could not have answered at some moment of it *)
Change(o) ==
  /\ outside.on /\ outside.left > 0
  /\ outside' = [o EXCEPT !.left = @ - 1]
  /\ mount' = [mount EXCEPT !.attempt.sour =
       @ \/ (mount.attempt.pc # "idle" /\ (Bad(o) \/ Gone(mount.attempt, o)))]
  /\ asks' = [r \in Readers |-> [asks[r] EXCEPT
       !.sour = @ \/ (asks[r].pc # "idle" /\ Bad(o)),
       !.served = IF asks[r].pc = "idle" THEN @ ELSE @ \cup {o.bucket}]]

Named   == \E d \in Databases : d # outside.coords /\ Change([outside EXCEPT !.coords = d])   \* pg.json written
Flapped == \E d \in Databases :                                                               \* a database comes or goes
             Change([outside EXCEPT !.reach = IF d \in @ THEN @ \ {d} ELSE @ \cup {d}])
(* The session is stored: its object in the current bucket, its row in the database *)
Ingested == outside.holds = {} /\ Change([outside EXCEPT !.holds = {outside.bucket}])
Rotated  == Change([outside EXCEPT !.version = @ + 1])                  \* a rotation: same bucket
CutOver  == /\ outside.bucket = 1                                       \* the cut of a migration: copied, then named
            /\ Change([outside EXCEPT !.version = @ + 1, !.bucket = 2,
                                      !.holds = IF @ = {} THEN {} ELSE @ \cup {2}])

\* ------------------------------------------------------- the handle (ensureDb)
Begin(m) == [m EXCEPT !.attempt = [NoAttempt EXCEPT !.pc = "reading", !.sour = Bad(outside)]]
RefreshOnce(m) == IF m.attempt.pc = "idle" /\ m.handle = NoDb THEN Begin(m) ELSE m   \* mutant: a handle is kept for life
(* refresh(): joins the attempt in flight, else begins one *)
Refresh(m) == IF m.attempt.pc = "idle" THEN Begin(m) ELSE m

(* An attempt ends: whoever waited asks for the handle again, and refuses without one *)
Resume(handle, sour) ==
  asks' = [r \in Readers |->
    IF asks[r].pc # "waiting" THEN asks[r]
    ELSE IF handle # NoDb THEN [asks[r] EXCEPT !.pc = "querying", !.db = handle]
    ELSE [asks[r] EXCEPT !.pc = "told", !.said = "refused", !.sour = @ \/ sour]]

(* The end of a handle's attempt; the waiters' own db() begins the next one *)
Settled(handle, says) ==
  LET m == [mount EXCEPT !.handle = handle, !.says = says, !.attempt = NoAttempt] IN
  /\ mount' = IF \E r \in Readers : asks[r].pc = "waiting" THEN Refresh(m) ELSE m
  /\ Resume(handle, mount.attempt.sour)

ReadCoords ==                                                           \* readPgJson, resolveConsoleDb
  /\ mount.attempt.pc = "reading" /\ UNCHANGED outside
  /\ \/ outside.coords = NoDb /\ Settled(NoDb, "not-configured")
     \/ /\ outside.coords # NoDb /\ mount.handle = outside.coords       \* unchanged: not proved again
        /\ Settled(mount.handle, "ready")
     \/ /\ outside.coords # NoDb /\ mount.handle # outside.coords
        /\ mount' = [mount EXCEPT !.attempt.pc = "opening", !.attempt.dsn = outside.coords]
        /\ UNCHANGED asks

Prove ==                                                                \* SELECT 1
  /\ mount.attempt.pc = "opening" /\ UNCHANGED outside
  /\ IF mount.attempt.dsn \in outside.reach
     THEN Settled(mount.attempt.dsn, "ready") ELSE Settled(NoDb, "unavailable")

(* The console frame's status poll: database() begins an attempt and shows the last state *)
Tile ==
  /\ outside.on /\ mount' = Refresh(mount) /\ mount' # mount
  /\ UNCHANGED <<outside, asks>>

\* ------------------------------------------------------------------ one request
HandlessEmpty(a)   == [a EXCEPT !.pc = "told", !.said = "rows"]           \* mutant: `[]` for "there is no database"
HandlessRefuses(a) == [a EXCEPT !.pc = "told", !.said = "refused"]        \* mutant: refuses without trying
(* No handle: a read that models no answer says unknown, any other waits for the attempt *)
Handless(a) == IF a.kind = "facts" THEN [a EXCEPT !.pc = "told", !.said = "unknown"]
               ELSE [a EXCEPT !.pc = "waiting"]
(* query(), queryIfReachable(): the handle as it is, and an attempt begun by asking for it *)
Asked(a) == IF mount.handle # NoDb THEN [a EXCEPT !.pc = "querying", !.db = mount.handle] ELSE Handless(a)

Arrive(r, kind) ==
  LET a == [NoAsk EXCEPT !.kind = kind, !.sour = Bad(outside), !.served = {outside.bucket}] IN
  /\ outside.on /\ asks[r].pc = "idle" /\ outside.reads > 0
  /\ outside' = [outside EXCEPT !.reads = @ - 1]
  /\ \/ kind = "export" /\ asks' = [asks EXCEPT ![r] = [a EXCEPT !.pc = "recording"]] /\ UNCHANGED mount
     \/ kind # "export" /\ asks' = [asks EXCEPT ![r] = Asked(a)] /\ mount' = Refresh(mount)

(* recordExport comes before the read; a record that cannot be written ends the request *)
Record(r) ==
  /\ asks[r].pc = "recording"
  /\ \/ mount' = Refresh(mount) /\ asks' = [asks EXCEPT ![r] = Asked([@ EXCEPT !.recorded = TRUE])]
     \/ asks' = [asks EXCEPT ![r].pc = "told", ![r].said = "unrecorded"] /\ UNCHANGED mount
  /\ UNCHANGED outside

(* The query: rows, or the driver's error.  A residency check without a row stops there: there is no
   prefix to stat *)
Query(r) ==
  LET a == asks[r]
      end(said) == asks' = [asks EXCEPT ![r].pc = "told", ![r].said = said, ![r].from = a.db]
      found == outside.holds # {}
  IN
  /\ a.pc = "querying" /\ UNCHANGED <<outside, mount>>
  /\ IF a.db \notin outside.reach THEN end("failed")
     ELSE IF a.kind # "verify" THEN end("rows")
     ELSE IF ~found THEN end("unchecked")
     ELSE asks' = [asks EXCEPT ![r].pc = "stat"]

(* LiveCredentialsReader.read: stat the file; an unchanged signature answers from memory *)
Stat(r) ==
  /\ asks[r].pc = "stat"
  /\ asks' = [asks EXCEPT ![r].pc = "reading", ![r].stat = outside.version]
  /\ UNCHANGED <<outside, mount>>

SyncKeepsStore(m, sig, bucket) ==                                       \* mutant: the bound store survives a new credential
  [m EXCEPT !.sig = sig, !.vault = bucket]
SyncOnce(m, sig, bucket) == IF m.vault # 0 THEN m ELSE                  \* mutant: read once, at boot
  [m EXCEPT !.sig = sig, !.vault = bucket, !.store = 0]
(* syncVaultCredentials: a new object replaces the credential and drops the store bound to the old *)
Sync(m, sig, bucket) == [m EXCEPT !.sig = sig, !.vault = bucket, !.store = 0]

(* canonicalBytes: directStore ??= buildDirectStore(vaultCredentials), and its object is asked for *)
Bind(r) ==
  LET s == asks[r].stat
      m == IF mount.sig = s THEN mount ELSE Sync(mount, s, outside.bucket)
      n == [m EXCEPT !.store = IF @ = 0 THEN m.vault ELSE @]
  IN
  /\ asks[r].pc = "reading"
  /\ mount' = n
  /\ asks' = [asks EXCEPT ![r].pc = "heading", ![r].db = n.store]
  /\ UNCHANGED outside

(* statCanonical against ten seconds: the object, no object, or nothing within the time *)
HeadObject(r) ==
  /\ asks[r].pc = "heading" /\ UNCHANGED <<outside, mount>>
  /\ \/ asks' = [asks EXCEPT ![r].pc = "told", ![r].said = IF asks[r].db \in outside.holds THEN "healthy" ELSE "missing"]
     \/ asks' = [asks EXCEPT ![r].pc = "told", ![r].said = "unchecked"]

Answered(r) ==                                                          \* the response leaves
  /\ asks[r].pc = "told"
  /\ asks' = [asks EXCEPT ![r] = NoAsk]
  /\ UNCHANGED <<outside, mount>>

ReadsNext ==
  \/ Named \/ Flapped \/ Ingested \/ Rotated \/ CutOver
  \/ ReadCoords \/ Prove \/ Tile
  \/ \E r \in Readers :
       \/ \E k \in Kinds : Arrive(r, k)
       \/ Record(r) \/ Query(r) \/ Stat(r) \/ Bind(r) \/ HeadObject(r) \/ Answered(r)

(* Attempts run on; the frame of an open page polls the tile *)
ReadsFairness ==
  /\ WF_readVars(ReadCoords) /\ WF_readVars(Prove) /\ WF_readVars(Tile)

ReadsSpec == ReadsInit(TRUE) /\ [][ReadsNext]_readVars /\ ReadsFairness

(* console-read-port.ts query(): a page that needs the database shows rows only if a database was
   asked, refuses only if the one pg.json names, or the one the attempt had read there, could not have
   answered at some moment of the request or of the attempt it waited for ("try, then say"), and an
   export's rows leave only recorded. *)
AnswersJust ==
  \A r \in Readers :
    LET a == asks[r] IN
    a.pc = "told" =>
      /\ a.said = "rows" => a.from # NoDb
      /\ a.said = "refused" => a.sour /\ a.kind # "facts"
      /\ a.kind = "export" /\ a.said # "unrecorded" => a.recorded

(* console-mount.ts syncVaultCredentials: whether a session's transcript is here is answered by a
   bucket this fortress served from at some moment of the request - never by one it had already left,
   which is a false statement about where the data lives. *)
VerdictCurrent ==
  \A r \in Readers :
    asks[r].pc = "told" /\ asks[r].said \in {"missing", "healthy"} => asks[r].db \in asks[r].served

(* "The database handle is lazy and re-resolved": while a page is open, a database that answers and
   stays named is the one the console reads from, with no restart of the console. *)
FollowsCoordinates ==
  []<>(outside.coords \in Databases \cap outside.reach => mount.handle = outside.coords)

(* What a page is told is grounded in the database, the trail and the bucket it was read from. *)
ReadsJust == AnswersJust /\ VerdictCurrent
=============================================================================
