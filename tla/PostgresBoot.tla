---------------------------- MODULE PostgresBoot ----------------------------
(***************************************************************************)
(* The database under the fortress, from nothing to ready.  Embedded: the  *)
(* provider walks one chain of steps per boot - binaries, cluster, server, *)
(* authentication, schema, pgvector, migrations, roles - and a crash or an *)
(* error between two of them leaves what the next boot must cope with.     *)
(* External: an endless loop of bounded attempts, whose abandoned ones go  *)
(* on running at the server.                                               *)
(*                                                                         *)
(* Postgres is external: GRANT, REVOKE, default privileges and the one     *)
(* implicit transaction of a simple-query batch are modelled by what the   *)
(* statements rely on.  A crash of the daemon takes its server along, as   *)
(* its service unit and its container do.                                  *)
(***************************************************************************)
EXTENDS Naturals, Sequences, FiniteSets

CONSTANTS
    MaxBoots,       \* boots of the embedded provider
    MaxPgFaults,    \* crashes and failed steps
    MaxRuns         \* attempts of the external provider

ASSUME PgAssumption == {MaxBoots, MaxPgFaults, MaxRuns} \subseteq Nat /\ MaxRuns # 0

VARIABLES
    pgDisk,     \* what is on disk: bundle, pgvector's files, cluster, roles.json, pg.json
    pgCat,      \* the catalog: journal, tables, privileges
    pgBoot,     \* the provider: mode, step, phase
    pgRun,      \* runMigrations, once per boot or attempt
    pgSpent

pgVars == <<pgDisk, pgCat, pgBoot, pgRun, pgSpent>>

-----------------------------------------------------------------------------
(* Tables and privileges                                                   *)

\* The manifest: each migration's place; "vectors" is gated on the extension.
Manifest == [base |-> 1, vectors |-> 2, console |-> 3]
Creates == [base |-> {"sessions", "turns", "view"}, vectors |-> {"embeddings"},
            console |-> {"commands", "acks", "control", "engine"}]

\* CONSOLE_TABLES: console_commands and admin_audit, audit_acks and
\* audit_settings, ingest_control, and what the daemon itself records.
ConsoleTables == Creates.console
FencedTables == {"commands", "acks", "control"}

Writes == {"INSERT", "UPDATE", "DELETE"}
Dml == Writes \cup {"SELECT"}

\* UI_TABLE_GRANTS and CMD_OWNER_TABLE_GRANTS.
UiGrants == {<<"ui", "commands", p>> : p \in {"SELECT", "INSERT"}}
            \cup {<<"ui", t, "SELECT">> : t \in {"control", "acks", "engine"}}
OwnerGrants == {<<"owner", "commands", p>> : p \in {"SELECT", "UPDATE"}}
               \cup {<<"owner", "acks", p>> : p \in {"SELECT", "INSERT", "UPDATE"}}
               \cup {<<"owner", "engine", "SELECT">>}

\* A stray grant an earlier hand left with the console's role.
Stray == <<"ui", "turns", "SELECT">>

Priv == [tab : SUBSET ({"readonly", "app_ro", "app_rw", "owner", "ui"} \X
                       ((UNION {Creates[m] : m \in DOMAIN Creates}) \cup {"journal"}) \X Dml),
         col : SUBSET ({"app_rw", "ui"} \X {"control", "sessions", "embeddings"} \X Dml)]

\* has_table_privilege: hx_app_ro is a member of hx_readonly.
Holds(role, t, p) == \/ <<role, t, p>> \in pgCat.priv.tab
                     \/ role = "app_ro" /\ <<"readonly", t, p>> \in pgCat.priv.tab

-----------------------------------------------------------------------------
(* ensureAppRoles: one ordered batch, one transaction                      *)

\* Phase 1: roles, the blanket grants, the routines' owner, the console's role.
Blanket(g, tables) ==
    [g EXCEPT !.tab = @ \cup ({"app_rw"} \X tables \X Dml) \cup OwnerGrants \cup UiGrants]

\* Phase 2: a table-level REVOKE takes the table's column grants with it.
RevokeOf(g, pairs, privs) ==
    [tab |-> {x \in g.tab : ~(<<x[1], x[2]>> \in pairs /\ x[3] \in privs)},
     col |-> {x \in g.col : ~(<<x[1], x[2]>> \in pairs /\ x[3] \in privs)}]

UiExtras(g) == {x[2] : x \in {y \in g.tab \cup g.col : y[1] = "ui"}}
               \ ({x[2] : x \in UiGrants} \cup {"sessions", "embeddings"})

Revoked(g) ==
    RevokeOf(RevokeOf(g, {"app_rw"} \X (FencedTables \cup {"journal"}), Writes),
             ({"readonly", "app_ro"} \X ConsoleTables)
               \cup ({"ui"} \X ({"sessions", "embeddings", "view"} \cup UiExtras(g))), Dml)

\* Phase 3: ingest_control by column without its anchor, sessions and embeddings
\* without the text and the vector.
ColumnGranted(g, tables) ==
    [g EXCEPT !.col = @ \cup {<<"app_rw", "control", "INSERT">>, <<"app_rw", "control", "UPDATE">>,
                              <<"ui", "sessions", "SELECT">>}
                        \cup ({"ui"} \X (tables \cap {"embeddings"}) \X {"SELECT"})]

AppRolesRevokeLast(g, tables) == Revoked(ColumnGranted(Blanket(g, tables), tables))
AppRoles(g, tables) == ColumnGranted(Revoked(Blanket(g, tables)), tables)

-----------------------------------------------------------------------------
(* runMigrations                                                           *)

\* What a new table starts with (ALTER DEFAULT PRIVILEGES), and the REVOKEs a
\* migration that creates console tables carries in its own batch.
ByDefault(defaults, tables) ==
    ({"readonly"} \cap defaults) \X tables \X {"SELECT"}
      \cup ({"app_rw"} \cap defaults) \X tables \X Dml

BeltNone(g) == g
Belt(g) == RevokeOf(RevokeOf(g, {"app_rw"} \X FencedTables, Writes),
                    {"readonly", "app_ro"} \X ConsoleTables, Dml)

\* One migration and its journal row, in one transaction.
Applied(cat, m) ==
    LET tables == cat.tables \cup Creates[m]
        created == [cat.priv EXCEPT !.tab = @ \cup ByDefault(cat.defaults, Creates[m])]
    IN  [cat EXCEPT
           !.journal = @ \cup {m}, !.tables = tables, !.times[m] = @ + 1,
           !.defaults = IF m = "base" THEN @ \cup {"readonly"} ELSE @,
           !.priv = IF m = "base" THEN [created EXCEPT !.tab = @ \cup ({"readonly"} \X tables \X {"SELECT"})]
                    ELSE IF m = "console" THEN Belt(created) ELSE created]

\* The journal's primary key refuses a second application.
NeverRefused(m) == FALSE
AlreadyJournaled(m) == m \in pgCat.journal

\* pg_available_extensions lists what has a control file; CREATE EXTENSION
\* needs its script and its library too.
ExtensionAvailable == pgDisk.control \/ pgBoot.mode = "external"
ExtensionCreatable == (pgDisk.sql /\ pgDisk.lib) \/ pgBoot.mode = "external"

NoRun == [pc |-> "none", todo |-> {}]

\* The migration whose turn it is.
First(todo) == CHOOSE m \in todo : \A n \in todo : Manifest[m] <= Manifest[n]

\* The tracking table, then what the journal does not name.
ReadJournal(r) ==
    /\ pgRun[r].pc = "journal"
    /\ pgRun' = [pgRun EXCEPT ![r] = [pc |-> "apply", todo |-> DOMAIN Creates \ pgCat.journal]]
    /\ pgCat' = [pgCat EXCEPT !.tables = @ \cup {"journal"},
                   !.priv.tab = IF "journal" \in pgCat.tables THEN @
                                ELSE @ \cup ByDefault(pgCat.defaults, {"journal"})]
    /\ UNCHANGED <<pgDisk, pgBoot, pgSpent>>

ApplyNext(r) ==
    LET run == pgRun[r]
        m == First(run.todo)
        rest == [run EXCEPT !.todo = @ \ {m}]
    IN  /\ run.pc = "apply" /\ run.todo # {}
        /\ \/ m = "vectors" /\ ~ExtensionAvailable
              /\ pgRun' = [pgRun EXCEPT ![r] = rest] /\ UNCHANGED pgCat
           \/ (m = "vectors" => ExtensionAvailable /\ ExtensionCreatable) /\ ~AlreadyJournaled(m)
              /\ pgRun' = [pgRun EXCEPT ![r] = rest] /\ pgCat' = Applied(pgCat, m)
           \/ (AlreadyJournaled(m) \/ (m = "vectors" /\ ExtensionAvailable /\ ~ExtensionCreatable))
              /\ pgRun' = [pgRun EXCEPT ![r].pc = "failed"] /\ UNCHANGED pgCat
        /\ UNCHANGED <<pgDisk, pgBoot, pgSpent>>

\* External: pg.json is written by the same attempt.
RunEnds(r) ==
    /\ pgRun[r].pc = "apply" /\ pgRun[r].todo = {}
    /\ pgRun' = [pgRun EXCEPT ![r].pc = "done"]
    /\ pgDisk' = IF pgBoot.mode = "external" THEN [pgDisk EXCEPT !.pgjson = "external"] ELSE pgDisk
    /\ UNCHANGED <<pgCat, pgBoot, pgSpent>>

RunFails(r) ==
    /\ pgRun[r].pc \in {"journal", "apply"} /\ pgSpent.faults < MaxPgFaults
    /\ pgSpent' = [pgSpent EXCEPT !.faults = @ + 1]
    /\ pgRun' = [pgRun EXCEPT ![r].pc = "failed"]
    /\ pgBoot' = [pgBoot EXCEPT !.faulted = TRUE]
    /\ UNCHANGED <<pgDisk, pgCat>>

-----------------------------------------------------------------------------
(* createEmbeddedPostgres.start, step by step                              *)

\* The chain.  The password is set before pg_hba.conf asks for it.
BootStepsHbaFirst == <<"acquire", "clear", "extract", "sentinel", "secrets", "initdb", "start", "hba", "alter",
                       "reload", "database", "vector", "copylib", "copyext", "migrate", "grant", "publish", "ready">>
BootSteps == <<"acquire", "clear", "extract", "sentinel", "secrets", "initdb", "start", "alter", "hba",
               "reload", "database", "vector", "copylib", "copyext", "migrate", "grant", "publish", "ready">>

After(step) == BootSteps[1 + (CHOOSE i \in 1..Len(BootSteps) : BootSteps[i] = step)]

\* The step the boot is at, and where it goes.
AtStep(step) == pgBoot.mode = "embedded" /\ pgBoot.pc = step
GoesTo(step) == pgBoot' = [pgBoot EXCEPT !.pc = step]

\* Every connection of the boot is the superuser's, with the password of roles.json.
MayConnect == pgBoot.up /\ (pgBoot.hba = "trust" \/ pgDisk.password = pgBoot.key)

DeadEnd == GoesTo("failed") /\ UNCHANGED <<pgDisk, pgCat, pgRun, pgSpent>>

PgStart ==
    /\ AtStep("off") /\ pgSpent.boots < MaxBoots
    /\ pgSpent' = [pgSpent EXCEPT !.boots = @ + 1]
    /\ pgBoot' = [pgBoot EXCEPT !.pc = "acquire", !.faulted = FALSE, !.key = 0]
    /\ UNCHANGED <<pgDisk, pgCat, pgRun>>

\* acquireBinaries: the sentinel, or a download that was verified before
\* anything of the old bundle is removed.
Acquire ==
    /\ AtStep("acquire")
    /\ GoesTo(IF pgDisk.sentinel THEN "secrets" ELSE After("acquire"))
    /\ UNCHANGED <<pgDisk, pgCat, pgRun, pgSpent>>

ClearBundle ==
    /\ AtStep("clear") /\ GoesTo(After("clear"))
    /\ pgDisk' = [pgDisk EXCEPT !.bundle = "none", !.lib = FALSE, !.control = FALSE, !.sql = FALSE]
    /\ UNCHANGED <<pgCat, pgRun, pgSpent>>

\* tar writes a bundle that is whole only when it ends.
ExtractBundle ==
    /\ AtStep("extract")
    /\ \/ pgDisk.bundle = "none" /\ pgDisk' = [pgDisk EXCEPT !.bundle = "partial"] /\ UNCHANGED pgBoot
       \/ pgDisk.bundle = "partial" /\ pgDisk' = [pgDisk EXCEPT !.bundle = "whole"] /\ GoesTo(After("extract"))
    /\ UNCHANGED <<pgCat, pgRun, pgSpent>>

WriteSentinel ==
    /\ AtStep("sentinel") /\ GoesTo(After("sentinel"))
    /\ pgDisk' = [pgDisk EXCEPT !.sentinel = TRUE]
    /\ UNCHANGED <<pgCat, pgRun, pgSpent>>

\* ensureRoleSecrets: what the file says, or a new set written by rename.
RoleSecrets ==
    LET key == IF pgDisk.secrets # 0 THEN pgDisk.secrets ELSE pgSpent.boots
    IN  /\ AtStep("secrets")
        /\ pgDisk' = [pgDisk EXCEPT !.secrets = key]
        /\ pgBoot' = [pgBoot EXCEPT !.key = key,
                        !.pc = IF pgDisk.cluster = "none" THEN After("secrets") ELSE "start"]
        /\ UNCHANGED <<pgCat, pgRun, pgSpent>>

\* ensureCluster: initdb writes PG_VERSION first, and only its own failure
\* takes the directory back.
InitCluster ==
    /\ AtStep("initdb")
    /\ \/ pgDisk.cluster = "none" /\ pgDisk' = [pgDisk EXCEPT !.cluster = "partial"] /\ UNCHANGED pgBoot
       \/ /\ pgDisk.cluster = "partial" /\ GoesTo(After("initdb"))
          /\ pgDisk' = [pgDisk EXCEPT !.cluster = "whole", !.hba = "scram", !.password = pgBoot.key]
    /\ UNCHANGED <<pgCat, pgRun, pgSpent>>

StartServer ==
    /\ AtStep("start")
    /\ IF pgDisk.bundle = "whole" /\ pgDisk.cluster = "whole"
       THEN /\ pgBoot' = [pgBoot EXCEPT !.pc = After("start"), !.up = TRUE, !.hba = pgDisk.hba]
            /\ UNCHANGED <<pgDisk, pgCat, pgRun, pgSpent>>
       ELSE DeadEnd

\* ensureAuth: the password, the file, the reload.
AlterPassword ==
    /\ AtStep("alter")
    /\ IF MayConnect
       THEN /\ pgDisk' = [pgDisk EXCEPT !.password = pgBoot.key] /\ GoesTo(After("alter"))
            /\ UNCHANGED <<pgCat, pgRun, pgSpent>>
       ELSE DeadEnd

WriteHba ==
    /\ AtStep("hba") /\ GoesTo(After("hba"))
    /\ pgDisk' = [pgDisk EXCEPT !.hba = "scram"]
    /\ UNCHANGED <<pgCat, pgRun, pgSpent>>

Reload ==
    /\ AtStep("reload")
    /\ pgBoot' = [pgBoot EXCEPT !.pc = After("reload"), !.hba = pgDisk.hba]
    /\ UNCHANGED <<pgDisk, pgCat, pgRun, pgSpent>>

\* ensureDatabaseAndSchema, both idempotent.
EnsureDatabase ==
    /\ AtStep("database")
    /\ IF MayConnect THEN GoesTo(After("database")) /\ UNCHANGED <<pgDisk, pgCat, pgRun, pgSpent>> ELSE DeadEnd

\* ensurePgvectorInstalled: present once there is a control file; otherwise the
\* library is copied, and then control file and script, in the order of readdir.
EnsureVector ==
    /\ AtStep("vector")
    /\ GoesTo(IF pgDisk.control THEN "migrate" ELSE After("vector"))
    /\ pgRun' = [pgRun EXCEPT ![1] = IF pgDisk.control THEN [NoRun EXCEPT !.pc = "journal"] ELSE @]
    /\ UNCHANGED <<pgDisk, pgCat, pgSpent>>

CopyLibrary ==
    /\ AtStep("copylib") /\ GoesTo(After("copylib"))
    /\ pgDisk' = [pgDisk EXCEPT !.lib = TRUE]
    /\ UNCHANGED <<pgCat, pgRun, pgSpent>>

CopyExtension ==
    /\ AtStep("copyext")
    /\ \/ ~pgDisk.control /\ pgDisk' = [pgDisk EXCEPT !.control = TRUE]
       \/ ~pgDisk.sql /\ pgDisk' = [pgDisk EXCEPT !.sql = TRUE]
    /\ IF pgDisk'.control /\ pgDisk'.sql
       THEN GoesTo(After("copyext")) /\ pgRun' = [pgRun EXCEPT ![1] = [NoRun EXCEPT !.pc = "journal"]]
       ELSE UNCHANGED <<pgBoot, pgRun>>
    /\ UNCHANGED <<pgCat, pgSpent>>

\* migrate: runMigrations over the superuser's connection.
Migrated ==
    /\ AtStep("migrate")
    /\ \/ pgRun[1].pc = "done" /\ GoesTo(After("migrate"))
       \/ (pgRun[1].pc = "failed" \/ ~MayConnect) /\ GoesTo("failed")
    /\ UNCHANGED <<pgDisk, pgCat, pgRun, pgSpent>>

\* ensureAppRoles: a preflight read and one batch.
GrantRoles ==
    /\ AtStep("grant")
    /\ IF MayConnect
       THEN /\ pgCat' = [pgCat EXCEPT !.defaults = @ \cup {"app_rw"}, !.priv = AppRoles(@, pgCat.tables)]
            /\ GoesTo(After("grant")) /\ UNCHANGED <<pgDisk, pgRun, pgSpent>>
       ELSE DeadEnd

\* pg.json for the console, and the ownership audit that only reports.
PublishCoordinates ==
    /\ AtStep("publish") /\ GoesTo(After("publish"))
    /\ pgDisk' = [pgDisk EXCEPT !.pgjson = "embedded"]
    /\ UNCHANGED <<pgCat, pgRun, pgSpent>>

\* Any step may throw: the phase is "failed" for the rest of the process.
StepFails ==
    /\ pgBoot.mode = "embedded" /\ pgBoot.pc \notin {"off", "failed", "ready", "migrate"}
    /\ pgSpent.faults < MaxPgFaults /\ pgSpent' = [pgSpent EXCEPT !.faults = @ + 1]
    /\ pgBoot' = [pgBoot EXCEPT !.pc = "failed", !.faulted = TRUE]
    /\ pgDisk' = IF pgBoot.pc = "initdb" THEN [pgDisk EXCEPT !.cluster = "none"] ELSE pgDisk
    /\ UNCHANGED <<pgCat, pgRun>>

\* The process ends: a crash at any point, or stop() of a boot that settled.
ProcessEnds(crash) ==
    /\ pgBoot.mode = "embedded" /\ pgBoot.pc # "off"
    /\ IF crash THEN pgSpent.faults < MaxPgFaults /\ pgSpent' = [pgSpent EXCEPT !.faults = @ + 1]
       ELSE pgBoot.pc \in {"ready", "failed"} /\ UNCHANGED pgSpent
    /\ pgBoot' = [pgBoot EXCEPT !.pc = "off", !.up = FALSE]
    /\ pgRun' = [pgRun EXCEPT ![1] = NoRun]
    /\ UNCHANGED <<pgDisk, pgCat>>

-----------------------------------------------------------------------------
(* createExternalPostgres                                                  *)

AtExternal(pcs) == pgBoot.mode = "external" /\ pgBoot.pc \in pcs

\* scheduleRetry follows every failed attempt.
AttemptsOnce == {"off"}
AttemptsFrom == {"off", "retrying"}

\* runAttempt, single-flight: a probe ...
Attempt ==
    /\ AtExternal(AttemptsFrom) /\ pgSpent.runs < MaxRuns
    /\ pgSpent' = [pgSpent EXCEPT !.runs = @ + 1]
    /\ GoesTo("probe")
    /\ UNCHANGED <<pgDisk, pgCat, pgRun>>

ProbeAnswers ==
    /\ AtExternal({"probe"})
    /\ GoesTo("racing") /\ pgRun' = [pgRun EXCEPT ![pgSpent.runs] = [NoRun EXCEPT !.pc = "journal"]]
    /\ UNCHANGED <<pgDisk, pgCat, pgSpent>>

ProbeFails ==
    /\ AtExternal({"probe"}) /\ pgSpent.faults < MaxPgFaults
    /\ pgSpent' = [pgSpent EXCEPT !.faults = @ + 1]
    /\ GoesTo("retrying")
    /\ UNCHANGED <<pgDisk, pgCat, pgRun>>

\* ... and raceMigrate: the run settles first, or the deadline passes and the
\* run goes on without anyone.
RaceSettles ==
    /\ AtExternal({"racing"}) /\ pgRun[pgSpent.runs].pc \in {"done", "failed"}
    /\ GoesTo(IF pgRun[pgSpent.runs].pc = "done" THEN "ready" ELSE "retrying")
    /\ UNCHANGED <<pgDisk, pgCat, pgRun, pgSpent>>

DeadlinePasses ==
    /\ AtExternal({"racing"}) /\ pgRun[pgSpent.runs].pc \in {"journal", "apply"}
    /\ pgSpent.faults < MaxPgFaults /\ pgSpent' = [pgSpent EXCEPT !.faults = @ + 1]
    /\ GoesTo("retrying")
    /\ UNCHANGED <<pgDisk, pgCat, pgRun>>

-----------------------------------------------------------------------------

NoPriv == [tab |-> {}, col |-> {}]
EmptyCatalog == [journal |-> {}, tables |-> {}, times |-> [m \in DOMAIN Creates |-> 0], defaults |-> {},
                 priv |-> NoPriv]
EmptyDisk == [sentinel |-> FALSE, bundle |-> "none", lib |-> FALSE, control |-> FALSE, sql |-> FALSE,
              cluster |-> "none", hba |-> "none", password |-> 0, secrets |-> 0, pgjson |-> "none"]

\* An install before the role split: a trust cluster with the base schema.
LegacyDisk == [EmptyDisk EXCEPT !.sentinel = TRUE, !.bundle = "whole", !.cluster = "whole", !.hba = "trust"]
LegacyCatalog == Applied([EmptyCatalog EXCEPT !.tables = {"journal"}], "base")

\* An install of the release before the console: roles and default privileges,
\* and a grant somebody left behind.
PriorDisk == [LegacyDisk EXCEPT !.hba = "scram", !.password = 99, !.secrets = 99,
                                !.lib = TRUE, !.control = TRUE, !.sql = TRUE]
PriorCatalog ==
    LET cat == Applied(LegacyCatalog, "vectors")
    IN  [cat EXCEPT !.defaults = @ \cup {"app_rw"},
                    !.priv.tab = @ \cup ({"app_rw"} \X cat.tables \X Dml) \cup {Stray}]

PgInit(modes) ==
    /\ \E mode \in modes :
          pgBoot = [mode |-> mode, pc |-> "off", key |-> 0, hba |-> "none", up |-> FALSE, faulted |-> FALSE]
    /\ \E found \in {<<EmptyDisk, EmptyCatalog>>, <<LegacyDisk, LegacyCatalog>>, <<PriorDisk, PriorCatalog>>} :
          /\ pgBoot.mode # "embedded" => found[1] = EmptyDisk
          /\ pgDisk = found[1] /\ pgCat = found[2]
    /\ pgRun = [r \in 1..MaxRuns |-> NoRun]
    /\ pgSpent = [boots |-> 0, faults |-> 0, runs |-> 0]

PgNext ==
    \/ PgStart \/ Acquire \/ ClearBundle \/ ExtractBundle \/ WriteSentinel \/ RoleSecrets \/ InitCluster
    \/ StartServer \/ AlterPassword \/ WriteHba \/ Reload \/ EnsureDatabase \/ EnsureVector
    \/ CopyLibrary \/ CopyExtension \/ Migrated \/ GrantRoles \/ PublishCoordinates
    \/ StepFails \/ \E crash \in BOOLEAN : ProcessEnds(crash)
    \/ \E r \in 1..MaxRuns : ReadJournal(r) \/ ApplyNext(r) \/ RunEnds(r) \/ RunFails(r)
    \/ Attempt \/ ProbeAnswers \/ ProbeFails \/ RaceSettles \/ DeadlinePasses

(* The external loop never gives up, and a run at the server goes on.      *)
PgFairness ==
    /\ WF_pgVars(Attempt) /\ WF_pgVars(ProbeAnswers) /\ WF_pgVars(RaceSettles)
    /\ \A r \in 1..MaxRuns : WF_pgVars(ReadJournal(r) \/ ApplyNext(r) \/ RunEnds(r))

PgSpec == PgInit({"embedded", "external"}) /\ [][PgNext]_pgVars /\ PgFairness

-----------------------------------------------------------------------------

\* What a crash inside initdb or between pgvector's control file and its script
\* leaves, and no later boot repairs.
Torn == pgDisk.cluster = "partial" \/ (pgDisk.control /\ ~(pgDisk.sql /\ pgDisk.lib))

\* A boot fails only if something failed in it: whatever an earlier boot left -
\* half a bundle, a password without its pg_hba.conf, a migrated schema without
\* its roles - the next one gets past it, except for what Torn names.
BootSound == pgBoot.mode = "embedded" /\ pgBoot.pc = "failed" => pgBoot.faulted \/ Torn

\* The command plane's fence, at every moment a connection could be made and not
\* only once ready: the cloud-served readers hold nothing on a console table, and
\* the daemon's role cannot write the fenced ones.  Once ready the daemon can arm
\* a pause by column and the console reads no transcript.
Fenced ==
    /\ \A t \in ConsoleTables, p \in Dml : ~Holds("readonly", t, p) /\ ~Holds("app_ro", t, p)
    /\ \A t \in FencedTables, p \in Writes : ~Holds("app_rw", t, p)
    /\ AtStep("ready") =>
         /\ {<<"app_rw", "control", "INSERT">>, <<"app_rw", "control", "UPDATE">>} \subseteq pgCat.priv.col
         /\ \A p \in Writes : ~Holds("app_rw", "journal", p)
         /\ \A t \in {"sessions", "turns", "view", "embeddings"}, p \in Dml : ~Holds("ui", t, p)

\* Each migration takes effect once, whatever abandoned attempt is still at work,
\* and ready means that all of them did.
MigratedOnce ==
    /\ \A m \in DOMAIN Creates : pgCat.times[m] <= 1
    /\ pgBoot.pc = "ready" => pgCat.journal = DOMAIN Creates

\* An external database that stops failing is reached.
ExternalReached == []<>(pgBoot.mode = "external" => pgBoot.pc = "ready")

\* A boot interrupted anywhere is completed by the next, fences the console's
\* tables at every moment, and migrates once (provider.ts, roles.ts, migrate.ts).
BootSafe == BootSound /\ Fenced /\ MigratedOnce
=============================================================================
