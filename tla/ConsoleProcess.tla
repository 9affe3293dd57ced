---------------------------- MODULE ConsoleProcess ----------------------------
(***************************************************************************)
(* The processes around the console and the files they coordinate through. *)
(* In one container: the supervisor (container-run.ts) with the daemon and *)
(* the console it starts, the watchdog that judges the daemon's heartbeat  *)
(* (container-watchdog.ts), consoles a person starts by hand, and terminal *)
(* verbs.                                                                  *)
(*                                                                         *)
(* Every one of them takes a lock file the same way: create it exclusively *)
(* and then fill it; if it is there, read it, judge its owner, unlink it,  *)
(* try again.  ui.json and credentials.json (store-lock.ts, credentials.ts)*)
(* are rewritten under such a lock with a version check; the binary        *)
(* (update.ts) is replaced under one; a console serves while it holds one  *)
(* (instance.ts).                                                          *)
(*                                                                         *)
(* Abstractions.  A document is its version, the enablement switch and the *)
(* set of writers whose change it carries.  A lock file is its owner,      *)
(* whether its text has been written, and whether it is older than         *)
(* LOCK_STALE_MS.  Watched time is counted in heartbeat reads.             *)
(***************************************************************************)
EXTENDS Naturals, FiniteSets

CONSTANTS
  Shells,        \* terminals; each runs one verb at a time
  Consoles,      \* process slots for consoles
  Verbs,         \* the verbs terminals run
  MaxRetries,    \* MAX_CAS_RETRIES
  Grace, Stale,  \* graceMs and staleMs, in heartbeat reads
  Period,        \* a beating daemon rewrites the file within this many reads
  MaxEvents,     \* bound: verbs, consoles by hand, kills, freezes, signals, delays
  MaxBoots       \* bound: container starts

AllVerbs == {"enable", "disable", "rotate", "update"}
ASSUME ProcsAssumption == /\ IsFiniteSet(Shells) /\ IsFiniteSet(Consoles)
                          /\ Shells \cap Consoles = {} /\ "none" \notin Shells \cup Consoles
ASSUME VerbsAssumption == Verbs \subseteq AllVerbs
ASSUME TimesAssumption == /\ {MaxRetries, Grace, Stale, Period, MaxEvents, MaxBoots} \subseteq Nat
                          /\ Period <= Stale

VARIABLES
  doc,      \* [Docs -> Document]
  lock,     \* [LockFiles -> Lock]
  proc,     \* [Shells \cup Consoles -> Process]
  sup,      \* the supervisor: pc, the console it holds, whether a stop was asked
  daemon,   \* "none", "up", "frozen" or "gone"
  due,      \* reads since a beating daemon last rewrote the heartbeat file
  watch,    \* HeartbeatWatch: seen a due, reads since the first and since the last
  request,  \* is the bootstrap request on disk?
  events, boots,
  applied,    \* ghost: [Docs -> writers whose update returned]
  overtaken,\* ghost: a rename fell between another's last check and its rename
  stolen,   \* ghost: a lock was removed that was not the one judged, or judged by age or half written
  served    \* ghost: bootstrap requests consumed in this boot

procVars == <<doc, lock, proc, sup, daemon, due, watch, request, events, boots, applied, overtaken, stolen, served>>

Procs == Shells \cup Consoles
Docs == {"ui.json", "credentials.json"}
LockFiles == Docs \cup {"binary", "instance"}

NoLock == [by |-> "none", whole |-> FALSE, aged |-> FALSE]
Slot(pc, verb, supervised) ==
  [pc |-> pc, verb |-> verb, saw |-> NoLock, tries |-> 0, base |-> [ver |-> 0, on |-> FALSE, marks |-> {}],
   seen |-> 0, supervised |-> supervised, term |-> FALSE]
NoProc == Slot("none", "none", FALSE)
FreshWatch == [seen |-> FALSE, age |-> 0, silent |-> 0, stale |-> FALSE]

Alive(p) == proc[p].pc \notin {"none", "gone"}

LockFileOf(p) == CASE p \in Consoles -> "instance"
                   [] proc[p].verb = "rotate" -> "credentials.json"
                   [] proc[p].verb = "update" -> "binary"
                   [] OTHER -> "ui.json"

InSection == {"fill", "read", "confirm", "write", "release", "serving", "stopping"}
Event == events < MaxEvents /\ events' = events + 1

ghosts == <<applied, overtaken, stolen, served>>
supervision == <<sup, daemon, due, watch, request, boots>>

-----------------------------------------------------------------------------
(* The lock file protocol, the same for terminals and consoles.             *)

Enter(p, pc) == proc' = [proc EXCEPT ![p].pc = pc]

(* open with "wx": the file exists from here on, and is empty. *)
CreateLock(p) ==
  /\ proc[p].pc = "create"
  /\ LET f == LockFileOf(p)
     IN  IF lock[f] = NoLock
           THEN lock' = [lock EXCEPT ![f] = [NoLock EXCEPT !.by = p]] /\ Enter(p, "fill")
           ELSE Enter(p, "inspect") /\ UNCHANGED lock
  /\ UNCHANGED <<doc, supervision, events, ghosts>>

(* The owner's record is written, into the file it opened: if another process has
   unlinked it the text goes nowhere.  An updater or a console needs no document. *)
FillLock(p) ==
  /\ proc[p].pc = "fill"
  /\ LET f == LockFileOf(p)
     IN  lock' = IF lock[f].by = p THEN [lock EXCEPT ![f].whole = TRUE] ELSE lock
  /\ Enter(p, IF p \in Consoles THEN "serving" ELSE IF proc[p].verb = "update" THEN "write" ELSE "read")
  /\ UNCHANGED <<doc, supervision, events, ghosts>>

(* The one stale-lock rule: unreadable, owner gone, or - for the two documents -
   older than any real section. *)
LockReclaimableAny(p, l) == l.by # p
LockReclaimable(p, l) == ~l.whole \/ ~Alive(l.by) \/ (l.aged /\ LockFileOf(p) \in Docs)

(* A store's writer waits until its deadline; an updater or a console tries twice. *)
Inspect(p) ==
  /\ proc[p].pc = "inspect"
  /\ LET l == lock[LockFileOf(p)]
     IN  \/ l = NoLock /\ Enter(p, "create")
         \/ /\ l # NoLock /\ LockReclaimable(p, l)
            /\ proc' = [proc EXCEPT ![p] = [@ EXCEPT !.pc = "unlink", !.saw = l]]
         \/ /\ l # NoLock /\ ~LockReclaimable(p, l)
            /\ Enter(p, IF LockFileOf(p) \in Docs THEN "create" ELSE "gone")
  /\ UNCHANGED <<doc, lock, supervision, events, ghosts>>

UnlinkStale(p) ==
  /\ proc[p].pc = "unlink"
  /\ LET f == LockFileOf(p)
         l == lock[f]
         last == f \notin Docs /\ proc[p].tries > 0
     IN  /\ lock' = [lock EXCEPT ![f] = NoLock]
         /\ stolen' = (stolen \/ (l # NoLock /\ Alive(l.by) /\ (l # proc[p].saw \/ ~l.whole \/ l.aged)))
         /\ proc' = [proc EXCEPT ![p] = [@ EXCEPT !.pc = IF last THEN "gone" ELSE "create", !.saw = NoLock,
                                                  !.tries = IF f \in Docs THEN proc[p].tries ELSE proc[p].tries + 1]]
  /\ UNCHANGED <<doc, supervision, events, applied, overtaken, served>>

(* LOCK_WAIT_MS is over: the verb fails and leaves the lock alone. *)
LocksReleased(p) == [lock EXCEPT ![LockFileOf(p)] = NoLock]
LocksLeft(p) == lock

GiveUp(p) ==
  /\ proc[p].pc = "inspect" /\ LockFileOf(p) \in Docs /\ ~LockReclaimable(p, lock[LockFileOf(p)])
  /\ lock' = LocksLeft(p)
  /\ Enter(p, "gone")
  /\ UNCHANGED <<doc, supervision, events, ghosts>>

-----------------------------------------------------------------------------
(* JsonCasStore.update and updateVaultCredentials: read, mutate, check the
   version again, rename, release.                                          *)

DocOf(p) == doc[LockFileOf(p)]

ReadCurrent(p) ==
  /\ proc[p].pc = "read"
  /\ proc' = [proc EXCEPT ![p] = [@ EXCEPT !.pc = "confirm", !.base = DocOf(p)]]
  /\ UNCHANGED <<doc, lock, supervision, events, ghosts>>

ConfirmedAny(p) == TRUE
Confirmed(p) == DocOf(p).ver = proc[p].base.ver

ConfirmVersion(p) ==
  /\ proc[p].pc = "confirm"
  /\ proc' = [proc EXCEPT ![p] = [@ EXCEPT !.pc = IF Confirmed(p) THEN "write" ELSE "release",
                                           !.tries = IF Confirmed(p) THEN MaxRetries ELSE proc[p].tries + 1,
                                           !.seen = DocOf(p).ver]]
  /\ UNCHANGED <<doc, lock, supervision, events, ghosts>>

Mutated(p, d) == [ver |-> d.ver + 1, marks |-> d.marks \cup {p},
                  on |-> CASE proc[p].verb = "enable" -> TRUE
                           [] proc[p].verb = "disable" -> FALSE
                           [] OTHER -> d.on]

WriteAtomic(p) ==
  /\ proc[p].pc = "write" /\ proc[p].verb # "update"
  /\ LET f == LockFileOf(p)
     IN  /\ overtaken' = (overtaken \/ doc[f].ver # proc[p].seen)
         /\ doc' = [doc EXCEPT ![f] = Mutated(p, proc[p].base)]
         /\ applied' = [applied EXCEPT ![f] = @ \cup {p}]
  /\ Enter(p, "release")
  /\ UNCHANGED <<lock, supervision, events, stolen, served>>

(* performUpdate: download, checksum, signature, rename - or stop at any of them. *)
PerformUpdate(p) ==
  /\ proc[p].pc = "write" /\ proc[p].verb = "update"
  /\ proc' = [proc EXCEPT ![p] = [@ EXCEPT !.pc = "release", !.tries = MaxRetries]]
  /\ UNCHANGED <<doc, lock, supervision, events, ghosts>>

(* unlink, whoever's lock is there by now.  A lost version race begins again. *)
ReleaseLock(p) ==
  /\ proc[p].pc = "release"
  /\ lock' = [lock EXCEPT ![LockFileOf(p)] = NoLock]
  /\ Enter(p, IF proc[p].tries < MaxRetries THEN "create" ELSE "gone")
  /\ UNCHANGED <<doc, supervision, events, ghosts>>

-----------------------------------------------------------------------------
(* Terminals.  A slot is free when nothing on disk or in a process names it. *)

Free(p) == /\ ~Alive(p) /\ sup.ui # p
           /\ \A f \in LockFiles : lock[f].by # p
           /\ \A q \in Procs : proc[q].saw.by # p

(* Which free slot a new process takes makes no difference. *)
IsSlot(p, slots) == (\E q \in slots : Free(q)) /\ p = CHOOSE q \in slots : Free(q)

(* disable reads the instance lock first and refuses a console nobody supervises. *)
RunVerb(p, verb) ==
  /\ Event /\ IsSlot(p, Shells) /\ sup.pc # "gone"
  /\ verb = "disable" => LET l == lock["instance"] IN ~(l.whole /\ Alive(l.by) /\ ~proc[l.by].supervised)
  /\ proc' = [proc EXCEPT ![p] = Slot("create", verb, FALSE)]
  /\ applied' = [f \in Docs |-> applied[f] \ {p}]
  /\ doc' = [f \in Docs |-> [doc[f] EXCEPT !.marks = @ \ {p}]]
  /\ UNCHANGED <<lock, supervision, overtaken, stolen, served>>

Verb(p) == \/ CreateLock(p) \/ FillLock(p) \/ Inspect(p) \/ UnlinkStale(p) \/ GiveUp(p)
           \/ ReadCurrent(p) \/ ConfirmVersion(p) \/ WriteAtomic(p) \/ PerformUpdate(p) \/ ReleaseLock(p)

(* A process held up for ten seconds: its lock on a document is now old. *)
LockAges(f) ==
  /\ Event /\ lock[f] # NoLock /\ ~lock[f].aged
  /\ lock' = [lock EXCEPT ![f].aged = TRUE]
  /\ UNCHANGED <<doc, proc, supervision, ghosts>>

Killed(p) ==
  /\ Event /\ Alive(p)
  /\ Enter(p, "gone")
  /\ UNCHANGED <<doc, lock, supervision, ghosts>>

-----------------------------------------------------------------------------
(* A console: take the instance lock, serve, stop on SIGTERM.               *)

Spawned(c, supervised) == proc' = [proc EXCEPT ![c] = Slot("create", "none", supervised)]

ForegroundConsole(c) ==
  /\ Event /\ IsSlot(c, Consoles) /\ sup.pc # "gone"
  /\ Spawned(c, FALSE)
  /\ UNCHANGED <<doc, lock, supervision, ghosts>>

(* The staged account request is read and unlinked by the first console that serves. *)
RequestKept == request
RequestAfter == FALSE

ConsumeBootstrapRequest(c) ==
  /\ proc[c].pc = "serving" /\ request
  /\ request' = RequestAfter /\ served' = served + 1
  /\ UNCHANGED <<doc, lock, proc, sup, daemon, due, watch, events, boots, applied, overtaken, stolen>>

(* SIGTERM before the handler is registered ends the process and leaves its lock;
   after it, the server closes, then the lock is released, then the process exits. *)
HandleTerm(c) ==
  /\ proc[c].term
  /\ \/ /\ proc[c].pc \in {"create", "fill", "inspect", "unlink"}
        /\ Enter(c, "gone") /\ UNCHANGED lock
     \/ /\ proc[c].pc = "serving"
        /\ Enter(c, "stopping") /\ UNCHANGED lock
     \/ /\ proc[c].pc = "stopping"
        /\ lock' = [lock EXCEPT !["instance"] = NoLock]
        /\ Enter(c, "gone")
  /\ UNCHANGED <<doc, supervision, events, ghosts>>

(* The port is taken, or somebody interrupts it: it lets go of the lock and exits. *)
Interrupted(c) ==
  /\ Event /\ proc[c].pc = "serving"
  /\ proc' = [proc EXCEPT ![c].pc = "stopping", ![c].term = TRUE]
  /\ UNCHANGED <<doc, lock, supervision, ghosts>>

Console(c) == \/ CreateLock(c) \/ FillLock(c) \/ Inspect(c) \/ UnlinkStale(c)
              \/ ConsumeBootstrapRequest(c) \/ HandleTerm(c)

-----------------------------------------------------------------------------
(* The supervisor.                                                          *)

rest == <<doc, lock, events, applied, overtaken, stolen>>

(* The request is staged, the heartbeat's baseline taken, the daemon started. *)
StartContainer ==
  /\ sup.pc = "gone" /\ boots < MaxBoots
  /\ boots' = boots + 1
  /\ sup' = [pc |-> "race", ui |-> "none", stopping |-> FALSE]
  /\ daemon' = "up" /\ request' = TRUE /\ served' = 0
  /\ due' = 0 /\ watch' = FreshWatch
  /\ UNCHANGED <<doc, lock, proc, events, applied, overtaken, stolen>>

Undisturbed == ~sup.stopping /\ daemon # "gone"
Exited == sup.ui # "none" /\ ~Alive(sup.ui)

StartConsole(pc) ==
  \E c \in Consoles : IsSlot(c, Consoles) /\ Spawned(c, TRUE) /\ sup' = [sup EXCEPT !.pc = pc, !.ui = c]

Enabled == doc["ui.json"].on
SignalledNone(p) == proc
Signalled(p) == IF p # "none" /\ Alive(p) THEN [proc EXCEPT ![p].term = TRUE] ELSE proc

(* What the race of the loop settles with: of several, the first in its list.  The
   verdict of the watchdog comes after every exit and before the tick. *)
Settle ==
  /\ sup.pc = "race"
  /\ \/ sup.stopping \/ daemon = "gone"
     \/ Undisturbed /\ ~Exited /\ watch.stale
  /\ sup' = [sup EXCEPT !.pc = IF Undisturbed THEN "terminate" ELSE "stop"]
  /\ UNCHANGED <<rest, proc, daemon, due, watch, request, boots, served>>

(* A tick reads the enablement: start what should run, signal what should not. *)
Tick ==
  /\ sup.pc = "race" /\ Undisturbed /\ ~Exited /\ ~watch.stale
  /\ \/ Enabled /\ sup.ui = "none" /\ StartConsole("race")
     \/ ~Enabled /\ sup.ui # "none" /\ proc' = Signalled(sup.ui) /\ sup' = [sup EXCEPT !.ui = "none"]
  /\ UNCHANGED <<rest, daemon, due, watch, request, boots, served>>

(* The console exited: the enablement is read before the backoff, not after it. *)
ConsoleExited ==
  /\ sup.pc = "race" /\ Undisturbed /\ Exited
  /\ sup' = [sup EXCEPT !.pc = IF Enabled THEN "backoff" ELSE "race", !.ui = "none"]
  /\ UNCHANGED <<rest, proc, daemon, due, watch, request, boots, served>>

(* After the delay, which nothing interrupts.  The console just started cannot have
   exited yet, so a verdict the watchdog reached meanwhile wins the race built anew. *)
Respawn ==
  /\ sup.pc = "backoff"
  /\ \/ sup.stopping /\ sup' = [sup EXCEPT !.pc = "stop"] /\ UNCHANGED proc
     \/ ~sup.stopping /\ StartConsole(IF watch.stale /\ daemon # "gone" THEN "terminate" ELSE "race")
  /\ UNCHANGED <<rest, daemon, due, watch, request, boots, served>>

(* terminateChild: a frozen daemon never runs its handler and is killed. *)
Terminate ==
  /\ sup.pc = "terminate"
  /\ daemon' = "gone"
  /\ sup' = [sup EXCEPT !.pc = "stop"]
  /\ UNCHANGED <<rest, proc, due, watch, request, boots, served>>

(* stopChildren: console, then daemon, and at most the grace. *)
StopChildren ==
  /\ sup.pc = "stop"
  /\ sup' = [sup EXCEPT !.pc = "leave"]
  /\ proc' = Signalled(sup.ui)
  /\ daemon' \in IF daemon = "up" THEN {"up", "gone"} ELSE {daemon}
  /\ UNCHANGED <<rest, due, watch, request, boots, served>>

(* Pid 1 exits, and with it every process of the container. *)
ContainerExits ==
  /\ sup.pc = "leave"
  /\ sup' = [sup EXCEPT !.pc = "gone", !.ui = "none"]
  /\ proc' = [p \in Procs |-> Slot(IF proc[p].pc = "none" THEN "none" ELSE "gone", "none", FALSE)]
  /\ daemon' = "gone"
  /\ UNCHANGED <<rest, due, watch, request, boots, served>>

Supervisor == StartContainer \/ Settle \/ Tick \/ ConsoleExited \/ Respawn \/ Terminate \/ StopChildren \/ ContainerExits

-----------------------------------------------------------------------------
(* The daemon's heartbeat and the watchdog's reads.                         *)

(* Time that passed for the watchdog between two reads: none of a gap in which this
   process did not run. *)
WatchedGap(gap) == IF gap THEN Stale ELSE 1
Watched(gap) == IF gap THEN 0 ELSE 1

Least(a, b) == IF a < b THEN a ELSE b

(* observe: a rewrite of the file since the last read is a beat; silence counts once the grace is over.
   While both processes run, a beating daemon is never Period reads late. *)
Observe(gap) ==
  /\ sup.pc \notin {"terminate", "stop", "leave", "gone"} /\ ~watch.stale
  /\ \E fresh \in BOOLEAN :
       /\ fresh => daemon = "up"
       /\ (daemon = "up" /\ watch.seen /\ ~gap /\ due = Period) => fresh
       /\ LET seen == watch.seen \/ fresh
              age == IF watch.seen THEN Least(watch.age + Watched(gap), Grace) ELSE 0
              silent == IF fresh \/ ~seen THEN 0 ELSE Least(watch.silent + Watched(gap), Stale + 1)
          IN  watch' = [seen |-> seen, age |-> age, silent |-> silent,
                        stale |-> seen /\ age >= Grace /\ silent > Stale]
       /\ due' = IF fresh THEN 0 ELSE IF gap \/ ~watch.seen THEN due ELSE Least(due + 1, Period)
  /\ UNCHANGED <<rest, proc, sup, daemon, request, boots, served>>

(* The daemon's event loop stops, or the daemon exits by itself; pid 1 is signalled. *)
DaemonFails ==
  /\ Event /\ daemon = "up"
  /\ daemon' \in {"frozen", "gone"}
  /\ UNCHANGED <<doc, lock, proc, sup, due, watch, request, boots, ghosts>>

StopAsked ==
  /\ Event /\ sup.pc # "gone" /\ ~sup.stopping
  /\ sup' = [sup EXCEPT !.stopping = TRUE]
  /\ UNCHANGED <<doc, lock, proc, daemon, due, watch, request, boots, ghosts>>

-----------------------------------------------------------------------------
ProcessInit(on) ==
  /\ doc = [f \in Docs |-> [ver |-> 0, on |-> FALSE, marks |-> {}]]
  /\ lock = [f \in LockFiles |-> NoLock]
  /\ proc = [p \in Procs |-> NoProc]
  /\ sup = [pc |-> "gone", ui |-> "none", stopping |-> FALSE]
  /\ daemon = "none" /\ due = 0 /\ watch = FreshWatch /\ request = FALSE
  /\ events = (IF on THEN 0 ELSE MaxEvents) /\ boots = (IF on THEN 0 ELSE MaxBoots)
  /\ applied = [f \in Docs |-> {}] /\ overtaken = FALSE /\ stolen = FALSE /\ served = 0

ProcessNext ==
        \/ \E p \in Shells : Verb(p) \/ \E v \in Verbs : RunVerb(p, v)
        \/ \E c \in Consoles : Console(c) \/ ForegroundConsole(c) \/ Interrupted(c)
        \/ \E p \in Procs : Killed(p)
        \/ \E f \in Docs : LockAges(f)
        \/ Supervisor \/ (\E gap \in BOOLEAN : Observe(gap)) \/ DaemonFails \/ StopAsked

(* Awaits resolve, timers fire, and the machine is not suspended for ever. *)
ProcessFairness == /\ \A p \in Shells : WF_procVars(Verb(p))
            /\ \A c \in Consoles : WF_procVars(Console(c))
            /\ WF_procVars(Supervisor) /\ WF_procVars(Observe(FALSE))

ProcessSpec == ProcessInit(TRUE) /\ [][ProcessNext]_procVars /\ ProcessFairness
-----------------------------------------------------------------------------
(* Properties.                                                             *)

(* store-lock.ts "reclaiming a live lock is the one outcome this protocol exists to
   prevent", update.ts "One updater at a time", instance.ts "One console per fortress
   root": no two processes are inside the same section - unless a lock was removed
   half written, by age, or in place of the one that was judged. *)
SingleHolder ==
  stolen \/ \A p, q \in Procs : (/\ p # q /\ proc[p].pc \in InSection /\ proc[q].pc \in InSection)
                                   => LockFileOf(p) # LockFileOf(q)

(* store-lock.ts "no write is silently dropped": whoever holds the lock, an update that
   returned is in the document, unless a rename fell between the last version check
   and the rename after it. *)
NoWriteLost ==
  overtaken \/ \A f \in Docs : applied[f] \subseteq doc[f].marks

(* container-run.ts "the console stops because this loop notices": once the switch
   stays off no supervised console keeps serving, and while it stays on one does,
   unless the container stops or a console started by hand holds the root. *)
EnablementFollowed ==
  /\ <>[](~doc["ui.json"].on) => <>[](\A c \in Consoles : ~(proc[c].supervised /\ proc[c].pc = "serving"))
  /\ <>[](doc["ui.json"].on /\ sup.pc # "gone") =>
       []<>(\E c \in Consoles : proc[c].pc = "serving")

(* container-watchdog.ts: no daemon that beats is stopped for silence, however long
   the machine was suspended between two reads, and one that froze after its first
   heartbeat does not hold its container up for ever. *)
BeatingIsSpared == [][sup.pc = "terminate" => daemon # "up"]_procVars
WatchdogJust ==
  /\ BeatingIsSpared
  /\ []<>~(daemon = "frozen" /\ watch.seen)

(* One holder and no lost write, for every file taken by the one protocol. *)
LocksHold == SingleHolder /\ NoWriteLost

(* The supervisor follows the switch and the daemon's heartbeat, and neither
   overreacts nor sleeps (container-run.ts, container-watchdog.ts). *)
SupervisorJust == EnablementFollowed /\ WatchdogJust
=============================================================================
