------------------------------ MODULE Records ------------------------------
(***************************************************************************)
(* What the fortress writes down and must not lose, repeat or tear: the    *)
(* audit spool, the collapsed failure windows, the grants already spent    *)
(* and the pinned key, the chunks composed into a bucket object, the files *)
(* rewritten under a lock - and what the pages that read them are told.    *)
(* These are the safety properties that need no fairness.                  *)
(*                                                                         *)
(* The parts share no state (the windows hand their records to the spool   *)
(* one way), so a behaviour is one of them at work.                        *)
(***************************************************************************)
EXTENDS AuditTrail, FailureWindows, ConsoleEntry, BucketAppend, ConsoleProcess, ConsoleReads

VARIABLE part      \* which of them this behaviour is about

Parts == {"trail", "windows", "entry", "append", "locks", "reads"}

Init ==
  /\ part \in Parts
  /\ TrailInit /\ WindowsInit
  /\ EntryInit(part = "entry") /\ AppendInit(part = "append") /\ ProcessInit(part = "locks")
  /\ ReadsInit(part = "reads")

Next ==
  /\ UNCHANGED part
  /\ \/ /\ part = "trail" /\ TrailNext
        /\ UNCHANGED <<windowVars, entryVars, appendVars, procVars, readVars>>
     \/ /\ part = "windows" /\ WindowsNext
        /\ UNCHANGED <<trailVars, entryVars, appendVars, procVars, readVars>>
     \/ /\ part = "entry" /\ EntryNext
        /\ UNCHANGED <<trailVars, windowVars, appendVars, procVars, readVars>>
     \/ /\ part = "append" /\ AppendNext
        /\ UNCHANGED <<trailVars, windowVars, entryVars, procVars, readVars>>
     \/ /\ part = "locks" /\ ProcessNext
        /\ UNCHANGED <<trailVars, windowVars, entryVars, appendVars, readVars>>
     \/ /\ part = "reads" /\ ReadsNext
        /\ UNCHANGED <<trailVars, windowVars, entryVars, appendVars, procVars>>

vars == <<part, trailVars, windowVars, entryVars, appendVars, procVars, readVars>>

Spec == Init /\ [][Next]_vars

(* The arithmetic the lengths of the bucket's objects rest on, for chains  *)
(* of at most one chunk per commit.                                        *)
ASSUME SumsDifferHere == SumsDiffer(UNION {[1..n -> Appends] : n \in 0..MaxCommitted})
=============================================================================
