------------------------------- MODULE Upkeep -------------------------------
(***************************************************************************)
(* The daemon's background work under one fair specification: the two      *)
(* healers and the pools they rebuild, the boot of Postgres, the replay of *)
(* parked sidecars, the residency audit and the embed worker.              *)
(*                                                                         *)
(* They share a process and no state: what one does to another is in the   *)
(* modules already (a rebuild ends a transaction, a migration holds the    *)
(* replay, a killed process restarts the worker).  A behaviour is one of   *)
(* them at work and the others off, so the check explores the sum of their *)
(* states and not the product.                                             *)
(***************************************************************************)
EXTENDS Healing, ParkReplay, Residency, PostgresBoot, EmbedWorker, PoolBounds

(* For each knob its default, 0 where 0 means something, and the values that
   cross its clamps.                                                       *)
SetKnobs == [shared : {120, 0, 10, 300}, ro : {20, 0, 200}, ingest : {30, 0, 5, 180},
             bg : {600, 0, 40}, life : {3600, 0, 60, 100}, lock : {5, 0},
             bgLock : {15}, txn : {0, 27}]

Parts == {"healing", "park", "audit", "postgres", "embed", "pools"}

Init ==
  \E part \in Parts :
    /\ HealInit(IF part = "healing" THEN {"store", "database"} ELSE {"off"})
    /\ PgInit(IF part = "postgres" THEN {"embedded", "external"} ELSE {"off"})
    /\ ParkInit(part = "park") /\ ResidencyInit(part = "audit")
    /\ EmbedInit(part = "embed") /\ PoolInit(part = "pools")

Next ==
  \/ HealNext      /\ UNCHANGED <<parkVars, auditVars, pgVars, emVars, poolVars>>
  \/ ParkNext      /\ UNCHANGED <<healVars, auditVars, pgVars, emVars, poolVars>>
  \/ ResidencyNext /\ UNCHANGED <<healVars, parkVars, pgVars, emVars, poolVars>>
  \/ PgNext        /\ UNCHANGED <<healVars, parkVars, auditVars, emVars, poolVars>>
  \/ EmbedNext     /\ UNCHANGED <<healVars, parkVars, auditVars, pgVars, poolVars>>
  \/ PoolNext      /\ UNCHANGED <<healVars, parkVars, auditVars, pgVars, emVars>>

vars == <<healVars, parkVars, auditVars, pgVars, emVars, poolVars>>

(* Each part's timers, awaits and schedules, as its module states them.    *)
Spec ==
  /\ Init /\ [][Next]_vars
  /\ HealFairness /\ ParkFairness /\ ResidencyFairness /\ PgFairness /\ EmbedFairness

-----------------------------------------------------------------------------
(* No background job stays on the way for ever: an audit ends whatever the *)
(* hub refuses or never answers, the worker does not sleep on a backlog,   *)
(* and an external database that stops failing is reached.                 *)
UpkeepProgress == AuditReturns /\ EmbedDrains /\ ExternalReached
=============================================================================
