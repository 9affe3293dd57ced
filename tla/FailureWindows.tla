--------------------------- MODULE FailureWindows ---------------------------
(***************************************************************************)
(* The console's collapsed sign-in failures (ui/audit-writer.ts): attempts *)
(* accumulate in one window per (action, login, remote) key, in memory,    *)
(* and a flush writes each closed window to the audit spool as one record. *)
(* Three callers flush: the audit drain on every tick (only the windows    *)
(* whose time is up), the spool's rotation and the console's shutdown      *)
(* (every window).  A flush awaits the spool once per window, and anything *)
(* may run at each await.                                                  *)
(*                                                                         *)
(* A window object is a key and a generation: a key noted again after its  *)
(* window was deleted gets a new object, while a flush that is still       *)
(* walking its snapshot holds the old one.  The order the map keeps its    *)
(* windows in says nothing about what is written of them: a walk takes its *)
(* snapshot in any order.                                                  *)
(***************************************************************************)
EXTENDS Naturals, FiniteSets, Functions

CONSTANTS
  Keys,          \* (action, login, remote) keys
  Ceiling,       \* AUTH_FAILURE_WINDOW_CEILING
  MaxAttempts, MaxFlushes, MaxRefusals    \* bounds of the model

ASSUME KeysAssumption == IsFiniteSet(Keys)
ASSUME WindowLimitsAssumption == {Ceiling, MaxAttempts, MaxFlushes, MaxRefusals} \subseteq Nat

Flushers == {"drain", "rotate", "stop"}
Gens     == 1..MaxAttempts
Windows  == Keys \X Gens

VARIABLES
  open,       \* this.windows
  expired,        \* the open windows whose time is up
  attempts,   \* each window object's count
  gen,        \* how many windows each key has had
  over,       \* this.overflow, with whether its time is up
  flush,      \* each flusher's locals
  copies,     \* how many records were written of each window object
  overs,      \* overflow attempts handed to the spool
  lost,       \* window objects whose record the spool refused
  shared,     \* the keys that were in two walks at once
  noted, flushes, refusals

windowVars == <<open, expired, attempts, gen, over, flush, copies, overs, lost, shared, noted, flushes, refusals>>

NotFlushing == [pc |-> "idle", todo |-> {}, cur |-> <<>>, late |-> FALSE]

WindowsInit ==
  /\ open = {} /\ expired = {} /\ attempts = [w \in Windows |-> 0] /\ gen = [k \in Keys |-> 0]
  /\ over = [n |-> 0, due |-> FALSE]
  /\ flush = [f \in Flushers |-> NotFlushing]
  /\ copies = [w \in Windows |-> 0] /\ overs = 0 /\ lost = {} /\ shared = {}
  /\ noted = 0 /\ flushes = 0 /\ refusals = 0

WindowOf(k) == CHOOSE w \in open : w[1] = k
IsOpen(k)   == \E w \in open : w[1] = k
FullOneLate == Cardinality(open) > Ceiling            \* mutant: the ceiling test is off by one
Full        == Cardinality(open) >= Ceiling

(* this.windows.delete(key) *)
WithoutNothing(k) == open                             \* mutant: the delete is forgotten
WithoutAny(k)     == {}                               \* mutant: windows.clear() after the first
Without(k)        == {w \in open : w[1] # k}

(* this.overflow = null *)
KeptOverflow    == over                               \* mutant: the marker is not cleared
ClearedOverflow == [n |-> 0, due |-> FALSE]

-----------------------------------------------------------------------------
(* noteFailure: counts into the open window, or past the ceiling into the
   overflow, or opens a window. *)
NoteFailure(k) ==
  /\ noted < MaxAttempts /\ noted' = noted + 1
  /\ \/ /\ IsOpen(k)
        /\ attempts' = [attempts EXCEPT ![WindowOf(k)] = @ + 1]
        /\ UNCHANGED <<open, gen, over>>
     \/ /\ ~IsOpen(k) /\ Full
        /\ over' = [over EXCEPT !.n = @ + 1]
        /\ UNCHANGED <<open, gen, attempts>>
     \/ /\ ~IsOpen(k) /\ ~Full
        /\ gen' = [gen EXCEPT ![k] = @ + 1]
        /\ open' = open \cup {<<k, gen[k] + 1>>}
        /\ attempts' = [attempts EXCEPT ![<<k, gen[k] + 1>>] = 1]
        /\ UNCHANGED over
  /\ UNCHANGED <<expired, flush, copies, overs, lost, shared, flushes, refusals>>

(* Five minutes pass for what is open now. *)
WindowTimeUp ==
  /\ expired' = expired \cup open
  /\ over' = [over EXCEPT !.due = over.n > 0]
  /\ <<expired', over'>> # <<expired, over>>
  /\ UNCHANGED <<open, attempts, gen, flush, copies, overs, lost, shared, noted, flushes, refusals>>

(* Every caller but the drain forces the open windows closed. *)
Forced(f) == f # "drain"

(* Each trigger is single-flight - the drain by `running`, a rotation by
   `rotating`, the shutdown by running once - and they overlap. *)
MayFlush(f) == flush[f].pc = "idle"

(* The loop from one await to the next, which nothing interrupts: another
   window of the snapshot leaves the map - the code does not look whether the
   map still holds that object - and raise() awaits the spool; after the last,
   the overflow marker is cleared and handed to the spool.  A marker begun since
   is younger than the clock of every flush under way. *)
Proceed(f, todo, late) ==
  \/ /\ \E w \in todo :
          /\ open' = Without(w[1])
          /\ flush' = [flush EXCEPT ![f] = [pc |-> "raise", cur |-> w, todo |-> todo \ {w},
                                            late |-> late]]
     /\ UNCHANGED <<over, overs>>
  \/ /\ todo = {}
     /\ IF over.n > 0 /\ late
        THEN /\ over' = ClearedOverflow /\ overs' = overs + over.n
             /\ flush' = [g \in Flushers |-> IF g = f THEN NotFlushing
                                            ELSE [flush[g] EXCEPT !.late = @ /\ Forced(g)]]
        ELSE /\ flush' = [flush EXCEPT ![f] = NotFlushing]
             /\ UNCHANGED <<over, overs>>
     /\ UNCHANGED open

(* flushFailures: the snapshot of the map, judged by the clock at its start. *)
ToFlush(f) == IF Forced(f) THEN open ELSE open \cap expired
KeysOf(walk) == {w[1] : w \in walk}

BeginFlush(f) ==
  /\ MayFlush(f) /\ flushes < MaxFlushes
  /\ flushes' = flushes + 1
  /\ Proceed(f, ToFlush(f), Forced(f) \/ over.due)
  /\ shared' = shared \cup (KeysOf(ToFlush(f)) \cap UNION {KeysOf(flush[g].todo) : g \in Flushers})
  /\ UNCHANGED <<expired, attempts, gen, copies, lost, noted, refusals>>

RaiseWritten(f) ==
  /\ flush[f].pc = "raise"
  /\ copies' = [copies EXCEPT ![flush[f].cur] = @ + 1]
  /\ Proceed(f, flush[f].todo, flush[f].late)
  /\ UNCHANGED <<expired, attempts, gen, lost, shared, noted, flushes, refusals>>

(* The spool refused: raise() reports and returns null, the window is gone. *)
RaiseRefused(f) ==
  /\ flush[f].pc = "raise" /\ refusals < MaxRefusals
  /\ refusals' = refusals + 1
  /\ lost' = lost \cup {flush[f].cur}
  /\ Proceed(f, flush[f].todo, flush[f].late)
  /\ UNCHANGED <<expired, attempts, gen, copies, shared, noted, flushes>>

WindowsNext ==
  \/ \E k \in Keys : NoteFailure(k)
  \/ WindowTimeUp
  \/ \E f \in Flushers : BeginFlush(f) \/ RaiseWritten(f) \/ RaiseRefused(f)

WindowsSpec == WindowsInit /\ [][WindowsNext]_windowVars

-----------------------------------------------------------------------------
(* A failure window becomes at most one record of the trail, so the counts an
   operator reads are the attempts there were.  flushFailures walks a snapshot
   and does not look whether the map still holds what it is about to write: the
   keys two walks had in hand at once are the exception, and the only one. *)
RecordedOnce == \A w \in Windows : w[1] \notin shared => copies[w] <= 1

(* Every noted attempt is in an open window, in a record being written, in the
   trail, or in a record the spool refused: no flush drops a window it did not
   write, except one its key opened while two walks still had the key in hand
   (flushFailures deletes by key). *)
Pending(w) == \E f \in Flushers : flush[f].cur = w
NoAttemptLost ==
  \A w \in Windows : (attempts[w] > 0 /\ w[1] \notin shared) =>
    w \in open \/ Pending(w) \/ copies[w] > 0 \/ w \in lost

(* Attempts past the ceiling are counted exactly once: every attempt noted is
   in some window's count, in the open marker or in a written one. *)
AttemptsCounted ==
  noted = over.n + overs + FoldFunction(LAMBDA a, b : a + b, 0, attempts)

(* What flushFailures owes the trail, however its three callers overlap: no
   failure is written twice, none is dropped, and the numbers add up. *)
WindowsSound == RecordedOnce /\ NoAttemptLost /\ AttemptsCounted
=============================================================================
