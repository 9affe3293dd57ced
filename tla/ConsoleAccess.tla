---------------------------- MODULE ConsoleAccess ----------------------------
(***************************************************************************)
(* Who may use the console: one account of users.json, the terminal verbs  *)
(* that change it from another process, and the console process that       *)
(* serves browser tabs on its behalf (src/src/ui: users.ts, sessions.ts,   *)
(* runtime.ts, auth-routes.ts, server.ts, events.ts, rate-limit.ts,        *)
(* argon-gate.ts).                                                         *)
(*                                                                         *)
(* The console learns of a verb only by reading the file again: LiveUsers  *)
(* stats it, loads it when the stat moved, and keeps what it loaded.  The  *)
(* three are separate awaits, and so are a sign-in's read of the account   *)
(* and the hash after it, and a request's verdict and what its handler     *)
(* does.  A session remembers the epochs of the document its sign-in read. *)
(*                                                                         *)
(* Abstractions.  A write of users.json is one step (its lock is the       *)
(* subject of FileLock) and its mtime and size are its version.  A tab     *)
(* holds one token.  Password checks answer either way.  Clocks are        *)
(* choices: a session is past its budgets or not, a lockout is running,    *)
(* over, or forgotten, a setup link may have expired, a rate bucket may be *)
(* full, and the failure memory of the argon gate calls a caller clean or  *)
(* not.  Roles, origins and the response texts are left out.               *)
(***************************************************************************)
EXTENDS Naturals, FiniteSetsExt, SequencesExt

CONSTANTS
  Tabs,           \* browser tabs that use the account
  FreeAttempts,   \* LOCKOUT_FREE_ATTEMPTS
  MaxConcurrent, Reserved, QueueLimit,   \* the argon gate
  SessionCap, UserCap,                   \* EVENTS_PER_SESSION_CAP, EVENTS_PER_USER_CAP
  MaxEvents       \* bound: verbs, sign-ins, setups, requests and restarts together

ASSUME TabsAssumption == IsFiniteSet(Tabs)
ASSUME GateAssumption == /\ {FreeAttempts, MaxConcurrent, Reserved, QueueLimit, SessionCap, UserCap} \subseteq Nat
                         /\ Reserved < MaxConcurrent
ASSUME BoundsAssumption == MaxEvents \in Nat

VARIABLES
  proxied,   \* do all tabs reach the console through one untrusted proxy?
  file,      \* users.json: version, global session epoch, and the account's row
  cache,     \* LiveUsers: at most one document, with the signature it is kept under
  sess,      \* [Tabs -> Session]: the session behind the tab's token
  op,        \* [Tabs -> Op]: the tab's request in the console
  beat,      \* [Tabs -> Read]: the heartbeat check of the tab's streams
  streams,   \* [Tabs -> Nat]: open event streams of the tab's session
  waiting,   \* the argon gate's queue of tabs
  lockouts,  \* [remote keys -> Failure record]: the lockout table
  saved,     \* lockouts.json
  events,    \* verbs, sign-ins, setups, requests and restarts so far
  recreated, \* ghost: a removed login was created again
  fresh      \* ghost: [remote keys -> failures recorded under the present lockout epoch]

vars == <<proxied, file, cache, sess, op, beat, streams, waiting, lockouts, saved,
          events, recreated, fresh>>
ghosts == <<recreated, fresh>>

(* Something from outside happens: a person types, a browser sends, the process dies. *)
Event == events < MaxEvents /\ events' = events + 1

RemoteKeyFor(t) == IF proxied THEN "proxy" ELSE t
Remotes == Tabs \cup {"proxy"}

NoUser == [here |-> FALSE, gone |-> FALSE, off |-> FALSE, hash |-> FALSE, pwdVersion |-> 0,
           cred |-> 0, lockE |-> 0, links |-> {}]
EmptyFile == [ver |-> 0, epoch |-> 0, user |-> NoUser]
NoSession == [token |-> FALSE, live |-> FALSE, epoch |-> 0, cred |-> 0,
              pwdVersion |-> 0, dead |-> FALSE]
Unread == [pc |-> "none", sig |-> 0, doc |-> EmptyFile]
NoOp == [kind |-> "none", pc |-> "none", sig |-> 0, doc |-> EmptyFile, link |-> 0, clean |-> FALSE,
         dead |-> FALSE, must |-> FALSE]
NoRecord == [fails |-> 0, epoch |-> 0]

LiveUser(doc) == doc.user.here /\ ~doc.user.gone
SignInEligible(doc) == LiveUser(doc) /\ ~doc.user.off /\ doc.user.hash

-----------------------------------------------------------------------------
(* The terminal's verbs: one write of users.json each.                      *)

(* A verb that takes access away marks, as ghosts, the sessions issued - and the
   sign-ins that have read the account - before it. *)
Revoking(revokes) ==
  /\ sess' = [t \in Tabs |-> [sess[t] EXCEPT !.dead = @ \/ (revokes /\ sess[t].token)]]
  /\ op' = [t \in Tabs |-> [op[t] EXCEPT !.dead = @ \/ (revokes /\ op[t].pc \notin {"none", "stat", "load"})]]

Written(user, revokes) ==
  /\ Event
  /\ file' = [file EXCEPT !.ver = @ + 1, !.user = user]
  /\ Revoking(revokes)
  /\ UNCHANGED <<cache, beat, streams, waiting, lockouts, saved>>

(* create replaces the row of a removed login: every counter starts over. *)
Create ==
  /\ ~LiveUser(file)
  /\ Written([NoUser EXCEPT !.here = TRUE, !.links = {file.ver + 1}], FALSE)
  /\ recreated' = (recreated \/ file.user.here)
  /\ UNCHANGED fresh

CredentialKept(n) == n
CredentialBumped(n) == n + 1

Disable ==
  /\ LiveUser(file)
  /\ Written([file.user EXCEPT !.off = TRUE, !.links = {}, !.cred = CredentialBumped(@)], TRUE)
  /\ UNCHANGED ghosts

RemoveUser ==
  /\ LiveUser(file)
  /\ Written([file.user EXCEPT !.gone = TRUE, !.links = {}, !.cred = CredentialBumped(@)], TRUE)
  /\ UNCHANGED ghosts

Reset ==
  /\ LiveUser(file)
  /\ Written([file.user EXCEPT !.links = {file.ver + 1}, !.lockE = @ + 1, !.cred = CredentialBumped(@)], TRUE)
  /\ fresh' = [r \in Remotes |-> 0]
  /\ UNCHANGED recreated

(* ui disable, the one writer of the global session epoch. *)
BumpSessionEpoch ==
  /\ Event
  /\ file' = [file EXCEPT !.ver = @ + 1, !.epoch = @ + 1]
  /\ Revoking(TRUE)
  /\ UNCHANGED <<cache, beat, streams, waiting, lockouts, saved, ghosts>>

-----------------------------------------------------------------------------
(* LiveUsers.read, by a request or a heartbeat.                             *)

(* Kept under the signature the stat saw before the load, so that a write
   between the two is noticed by the next read. *)
KeptLate(r) == {[sig |-> file.ver, doc |-> r.doc]}
Kept(r) == {[sig |-> r.sig, doc |-> r.doc]}

Stat(r) == IF \E c \in cache : c.sig = file.ver
             THEN [r EXCEPT !.pc = "judge", !.doc = (CHOOSE c \in cache : TRUE).doc]
             ELSE [r EXCEPT !.pc = "load", !.sig = file.ver]

ReadUsers(t) ==
  /\ \/ /\ op[t].pc = "stat"
        /\ op' = [op EXCEPT ![t] = Stat(op[t])]
        /\ UNCHANGED cache
     \/ /\ op[t].pc = "load"
        /\ op' = [op EXCEPT ![t] = [@ EXCEPT !.pc = "keep", !.doc = file]]
        /\ UNCHANGED cache
     \/ /\ op[t].pc = "keep"
        /\ cache' = Kept(op[t])
        /\ op' = [op EXCEPT ![t].pc = "judge"]
  /\ UNCHANGED <<file, sess, beat, streams, waiting, lockouts, saved, events, ghosts>>

BeatReads(t) ==
  /\ \/ /\ beat[t].pc = "none" /\ streams[t] > 0
        /\ beat' = [beat EXCEPT ![t] = [Unread EXCEPT !.pc = "stat"]]
        /\ UNCHANGED cache
     \/ /\ beat[t].pc = "stat"
        /\ beat' = [beat EXCEPT ![t] = Stat(beat[t])]
        /\ UNCHANGED cache
     \/ /\ beat[t].pc = "load"
        /\ beat' = [beat EXCEPT ![t] = [@ EXCEPT !.pc = "keep", !.doc = file]]
        /\ UNCHANGED cache
     \/ /\ beat[t].pc = "keep"
        /\ cache' = Kept(beat[t])
        /\ beat' = [beat EXCEPT ![t].pc = "judge"]
  /\ UNCHANGED <<file, sess, op, streams, waiting, lockouts, saved, events, ghosts>>

-----------------------------------------------------------------------------
(* The argon gate.  What runs is what has a hash in flight.                 *)

Hashing == {t \in Tabs : op[t].pc = "hash"}
ClearOf(busy, t) == \A u \in busy : RemoteKeyFor(u) # RemoteKeyFor(t)

CanAdmitAny(busy, t, clean) == Cardinality(busy) < MaxConcurrent
CanAdmit(busy, t, clean) ==
  /\ ClearOf(busy, t)
  /\ Cardinality(busy) < IF clean THEN MaxConcurrent ELSE MaxConcurrent - Reserved

(* acquire: admitted, queued, or refused at once when the queue is full. *)
Acquire(t, o) ==
  IF CanAdmit(Hashing, t, o.clean)
    THEN op' = [op EXCEPT ![t] = [o EXCEPT !.pc = "hash"]] /\ UNCHANGED waiting
    ELSE IF Len(waiting) < QueueLimit
           THEN op' = [op EXCEPT ![t] = [o EXCEPT !.pc = "wait"]] /\ waiting' = Append(waiting, t)
           ELSE op' = [op EXCEPT ![t] = NoOp] /\ UNCHANGED waiting

(* release: t leaves, and the first waiter that can run takes the place - one
   waiter only, even when two could. *)
Pumped(t) ==
  LET busy == Hashing \ {t}
      ready == {i \in DOMAIN waiting : CanAdmit(busy, waiting[i], op[waiting[i]].clean)}
  IN  IF ready = {} THEN << >> ELSE <<CHOOSE i \in ready : \A j \in ready : i <= j>>

Release(t, done) ==
  LET next == Pumped(t)
      admitted == {waiting[next[i]] : i \in DOMAIN next}
  IN  /\ op' = [u \in Tabs |-> IF u = t THEN done ELSE IF u \in admitted THEN [op[u] EXCEPT !.pc = "hash"] ELSE op[u]]
      /\ waiting' = IF next = << >> THEN waiting ELSE RemoveAt(waiting, next[1])

(* ARGON_WAIT_MS is over: the waiter is shed with a 503. *)
ShedWaiter(t) ==
  /\ op[t].pc = "wait"
  /\ op' = [op EXCEPT ![t] = NoOp]
  /\ waiting' = SelectSeq(waiting, LAMBDA u : u # t)
  /\ UNCHANGED <<file, cache, sess, beat, streams, lockouts, saved, events, ghosts>>

-----------------------------------------------------------------------------
(* Sign-in and setup.                                                       *)

(* The page shows the form to a tab with no live session; it has closed the
   streams it held. *)
BeginSignIn(t) ==
  /\ Event /\ op[t].pc = "none" /\ ~sess[t].live /\ streams[t] = 0
  /\ op' = [op EXCEPT ![t] = [NoOp EXCEPT !.kind = "signIn", !.pc = "stat"]]
  /\ UNCHANGED <<file, cache, sess, beat, streams, waiting, lockouts, saved, ghosts>>

(* The epoch a lockout is judged under: the account's, or zero for one that may
   not sign in. *)
LockoutEpoch(doc) == IF SignInEligible(doc) THEN doc.user.lockE ELSE 0

(* LockoutTable.state: a record below the account's lockout epoch is dropped. *)
CurrentAny(rec, e) == rec
Current(rec, e) == IF rec.epoch < e THEN NoRecord ELSE rec

(* Locked unless the delay, which grows with the failures, is over. *)
Locked(t) == Current(lockouts[RemoteKeyFor(t)], LockoutEpoch(op[t].doc)).fails > FreeAttempts

(* The bucket, the lockout, the gate.  Judging a stale record also deletes it. *)
JudgeSignIn(t) ==
  /\ op[t].kind = "signIn" /\ op[t].pc = "judge"
  /\ LET r == RemoteKeyFor(t)
     IN  \/ op' = [op EXCEPT ![t] = NoOp] /\ UNCHANGED <<waiting, lockouts>>
         \/ /\ lockouts' = [lockouts EXCEPT ![r] = Current(@, LockoutEpoch(op[t].doc))]
            /\ \/ Locked(t) /\ op' = [op EXCEPT ![t] = NoOp] /\ UNCHANGED waiting
               \/ \E clean \in BOOLEAN : Acquire(t, [op[t] EXCEPT !.clean = clean])
  /\ UNCHANGED <<file, cache, sess, beat, streams, saved, events, ghosts>>

(* recordFailure: the delay starts past the free attempts, and the record is
   stamped with the epoch this sign-in read. *)
Failed(rec, e) ==
  [fails |-> Min({Current(rec, e).fails + 1, FreeAttempts + 1}), epoch |-> e]

Issued(doc, dead) ==
  [token |-> TRUE, live |-> TRUE, epoch |-> doc.epoch, cred |-> doc.user.cred,
   pwdVersion |-> doc.user.pwdVersion, dead |-> dead]

(* The hash has an answer.  The session carries the epochs of the document read
   before it. *)
FinishSignIn(t) ==
  /\ op[t].kind = "signIn" /\ op[t].pc = "hash"
  /\ Release(t, NoOp)
  /\ LET r == RemoteKeyFor(t)
         doc == op[t].doc
     IN  \/ /\ SignInEligible(doc)
            /\ lockouts' = [lockouts EXCEPT ![r] = NoRecord]
            /\ sess' = [sess EXCEPT ![t] = Issued(doc, op[t].dead)]
            /\ UNCHANGED fresh
         \/ /\ lockouts' = [lockouts EXCEPT ![r] = Failed(@, LockoutEpoch(doc))]
            /\ fresh' = IF LockoutEpoch(doc) = LockoutEpoch(file) THEN [fresh EXCEPT ![r] = Min({@ + 1, FreeAttempts + 1})] ELSE fresh
            /\ UNCHANGED sess
  /\ UNCHANGED <<file, cache, beat, streams, saved, events, recreated>>

(* A setup link is named by the write that made it; 0 stands for every link that
   is already dead. *)
BeginSetup(t) ==
  /\ Event /\ op[t].pc = "none"
  /\ \E link \in {0} \cup file.user.links, clean \in BOOLEAN :
       Acquire(t, [NoOp EXCEPT !.kind = "setup", !.link = link, !.clean = clean])
  /\ UNCHANGED <<file, cache, sess, beat, streams, lockouts, saved, ghosts>>

FindUserBySetupToken(link) == LiveUser(file) /\ ~file.user.off /\ link \in file.user.links

(* completeSetup inside the gate: the hash, then one write that finds the link
   again and consumes it.  A dead or expired link changes nothing. *)
FinishSetup(t) ==
  /\ op[t].kind = "setup" /\ op[t].pc = "hash"
  /\ \/ /\ FindUserBySetupToken(op[t].link)
        /\ file' = [file EXCEPT !.ver = @ + 1,
                      !.user = [file.user EXCEPT !.hash = TRUE, !.pwdVersion = @ + 1, !.links = {}]]
        /\ sess' = [u \in Tabs |-> [sess[u] EXCEPT !.dead = @ \/ sess[u].token]]
     \/ UNCHANGED <<file, sess>>
  /\ Release(t, NoOp)
  /\ UNCHANGED <<cache, beat, streams, lockouts, saved, events, ghosts>>

-----------------------------------------------------------------------------
(* Requests with a token, event streams, and the session table.             *)

(* must: the session was already revoked when the request arrived. *)
BeginRequest(t, kind) ==
  /\ Event /\ op[t].pc = "none" /\ sess[t].token
  /\ op' = [op EXCEPT ![t] = [NoOp EXCEPT !.kind = kind, !.pc = "stat", !.must = sess[t].dead]]
  /\ UNCHANGED <<file, cache, sess, beat, streams, waiting, lockouts, saved, ghosts>>

(* The predicates validate and revocationCheck share. *)
NotRevokedByEpoch(s, doc) == LiveUser(doc) /\ ~doc.user.off
NotRevoked(s, doc) ==
  /\ doc.epoch <= s.epoch
  /\ LiveUser(doc) /\ ~doc.user.off
  /\ doc.user.cred <= s.cred /\ doc.user.pwdVersion <= s.pwdVersion

(* drop, the one removal path, takes the session's streams with it. *)
Dropped(t) == sess' = [sess EXCEPT ![t].live = FALSE] /\ streams' = [streams EXCEPT ![t] = 0]

(* The gate of a request, then its handler: a read is served, an events request
   goes on to open a stream, a sign-out reads and validates once more.  A session may
   always be past its idle or absolute budget; one the table no longer holds is
   refused and nothing is dropped. *)
ValidateRequest(t) ==
  /\ op[t].pc = "judge" /\ op[t].kind \in {"read", "events", "signOut", "leave"}
  /\ \/ /\ sess[t].live /\ NotRevoked(sess[t], op[t].doc)
        /\ CASE op[t].kind = "signOut" ->
                   op' = [op EXCEPT ![t] = [@ EXCEPT !.kind = "leave", !.pc = "stat"]] /\ UNCHANGED <<sess, streams>>
              [] op[t].kind = "leave" -> op' = [op EXCEPT ![t] = NoOp] /\ Dropped(t)
              [] OTHER -> op' = [op EXCEPT ![t].pc = "served"] /\ UNCHANGED <<sess, streams>>
     \/ /\ op' = [op EXCEPT ![t] = NoOp]
        /\ IF sess[t].live THEN Dropped(t) ELSE UNCHANGED <<sess, streams>>
  /\ UNCHANGED <<file, cache, beat, waiting, lockouts, saved, events, ghosts>>

TotalStreams == FoldSet(LAMBDA t, n : streams[t] + n, 0, Tabs)

(* A session dropped since the verdict does not stop the stream: only its own
   heartbeat will. *)
ServeRequest(t) ==
  /\ op[t].pc = "served"
  /\ op' = [op EXCEPT ![t] = NoOp]
  /\ streams' = IF op[t].kind = "events" /\ streams[t] < SessionCap /\ TotalStreams < UserCap
                  THEN [streams EXCEPT ![t] = @ + 1] ELSE streams
  /\ UNCHANGED <<file, cache, sess, beat, waiting, lockouts, saved, events, ghosts>>

(* revocationCheck from the heartbeat: a session the table no longer holds, or
   one revoked, ends the stream. *)
HeldWhileAnswered(t) == TRUE
Affirmed(t) == sess[t].live /\ NotRevoked(sess[t], beat[t].doc)

BeatJudges(t) ==
  /\ beat[t].pc = "judge"
  /\ beat' = [beat EXCEPT ![t] = Unread]
  /\ IF Affirmed(t) \/ streams[t] = 0 THEN UNCHANGED <<sess, streams>>
     ELSE IF sess[t].live THEN Dropped(t)
     ELSE streams' = [streams EXCEPT ![t] = @ - 1] /\ UNCHANGED sess
  /\ UNCHANGED <<file, cache, op, waiting, lockouts, saved, events, ghosts>>

(* The reader hung up, or the producer ended. *)
CloseStream(t) ==
  /\ streams[t] > 0
  /\ streams' = [streams EXCEPT ![t] = @ - 1]
  /\ UNCHANGED <<file, cache, sess, op, beat, waiting, lockouts, saved, events, ghosts>>

-----------------------------------------------------------------------------
(* Clocks, the sweep timer, and a restart.                                  *)

(* The failure memory is over. *)
LockoutFades(r) ==
  /\ lockouts[r].fails > 0
  /\ lockouts' = [lockouts EXCEPT ![r] = NoRecord]
  /\ UNCHANGED <<file, cache, sess, op, beat, streams, waiting, saved, events, ghosts>>

(* The sweep drops the sessions past a budget and saves the lockouts. *)
Sweep ==
  /\ \E old \in SUBSET {t \in Tabs : sess[t].live} :
       /\ sess' = [t \in Tabs |-> [sess[t] EXCEPT !.live = @ /\ t \notin old]]
       /\ streams' = [t \in Tabs |-> IF t \in old THEN 0 ELSE streams[t]]
  /\ saved' = lockouts
  /\ UNCHANGED <<file, cache, op, beat, waiting, lockouts, events, ghosts>>

(* A restart revokes every session; the saved lockouts come back. *)
Restart ==
  /\ Event
  /\ sess' = [t \in Tabs |-> [sess[t] EXCEPT !.live = FALSE]]
  /\ op' = [t \in Tabs |-> NoOp] /\ beat' = [t \in Tabs |-> Unread]
  /\ streams' = [t \in Tabs |-> 0] /\ cache' = {} /\ waiting' = << >>
  /\ lockouts' = saved
  /\ UNCHANGED <<file, saved, ghosts>>

-----------------------------------------------------------------------------
(* The account has been created and its setup link followed. *)
Established == [EmptyFile EXCEPT !.ver = 2, !.user = [NoUser EXCEPT !.here = TRUE, !.hash = TRUE, !.pwdVersion = 1]]

Init ==
  /\ proxied \in BOOLEAN
  /\ file = Established /\ cache = {}
  /\ sess = [t \in Tabs |-> NoSession] /\ op = [t \in Tabs |-> NoOp]
  /\ beat = [t \in Tabs |-> Unread] /\ streams = [t \in Tabs |-> 0] /\ waiting = << >>
  /\ lockouts = [r \in Remotes |-> NoRecord] /\ saved = [r \in Remotes |-> NoRecord]
  /\ events = 0
  /\ recreated = FALSE /\ fresh = [r \in Remotes |-> 0]

Verb == Create \/ Disable \/ RemoveUser \/ Reset \/ BumpSessionEpoch

Handler(t) == \/ ReadUsers(t) \/ JudgeSignIn(t) \/ FinishSignIn(t) \/ FinishSetup(t) \/ ShedWaiter(t)
              \/ ValidateRequest(t) \/ ServeRequest(t)

Heartbeat(t) == BeatReads(t) \/ BeatJudges(t)

Browser(t) == \/ BeginSignIn(t) \/ BeginSetup(t)
              \/ \E kind \in {"read", "events", "signOut"} : BeginRequest(t, kind)

Step == \/ Verb \/ Sweep \/ Restart
        \/ \E t \in Tabs : Browser(t) \/ Handler(t) \/ Heartbeat(t) \/ CloseStream(t)
        \/ \E r \in Remotes : LockoutFades(r)

Next == Step /\ UNCHANGED proxied

Spec == Init /\ [][Next]_vars

(* An await resolves, and the fifteen-second heartbeat keeps firing while its
   stream is open. *)
Fairness == \A t \in Tabs : /\ WF_vars(Handler(t) /\ UNCHANGED proxied)
                         /\ WF_vars(Heartbeat(t) /\ UNCHANGED proxied)

FairSpec == Spec /\ Fairness
-----------------------------------------------------------------------------
(* Properties.                                                             *)

Docs == [ver : Nat, epoch : Nat,
         user : [here : BOOLEAN, gone : BOOLEAN, off : BOOLEAN, hash : BOOLEAN, pwdVersion : Nat,
                 cred : Nat, lockE : Nat, links : SUBSET Nat]]

TypeOK ==
  /\ file \in Docs
  /\ \A c \in cache : c.sig <= c.doc.ver /\ c.doc \in Docs
  /\ \A t \in Tabs : op[t].doc \in Docs /\ op[t].pc \in {"none", "stat", "load", "keep", "judge", "wait", "hash", "served"}
  /\ \A t \in Tabs : (op[t].pc = "wait") <=> (\E i \in DOMAIN waiting : waiting[i] = t)
  /\ streams \in [Tabs -> 0..SessionCap]
  /\ lockouts \in [Remotes -> [fails : 0..FreeAttempts + 1, epoch : Nat]]

(* sessions.ts "per-request revalidation re-reads users.json and drops any session
   whose epochs have moved": no request that arrived after the account behind its
   session was disabled, removed, reset or given a new password - or after ui
   disable - reaches a handler, even when the revocation fell between the sign-in's
   read of the account and the session it issued.  A login created again after its
   removal starts its events over and is excepted. *)
RevokedRefused ==
  \A t \in Tabs : op[t].pc = "served" => ~op[t].must \/ recreated

(* users.ts "drops every in-memory counter and lock recorded below the epoch": a
   sign-in that read the account as it is now is refused as locked only for failures
   recorded since the last reset, over restarts that bring saved lockouts back and
   sign-ins that finish after the reset they started before. *)
LockoutIsCurrent ==
  \A t \in Tabs : (/\ op[t].kind = "signIn" /\ op[t].pc = "judge" /\ Locked(t)
                   /\ SignInEligible(file) /\ op[t].doc.user = file.user /\ ~recreated)
                     => fresh[RemoteKeyFor(t)] > FreeAttempts

(* argon-gate.ts: at most MaxConcurrent hashes and one for a remote key, and the
   hashes of callers with recent failures never take the reserved slot, however
   waiters are admitted and shed. *)
GateBounded ==
  /\ Cardinality(Hashing) <= MaxConcurrent
  /\ \A t \in Hashing : ClearOf(Hashing \ {t}, t)
  /\ Cardinality({t \in Hashing : ~op[t].clean}) <= MaxConcurrent - Reserved

(* sessions.ts onDrop: no stream outlives its session for good - one opened on a
   verdict older than the revocation is ended by its heartbeat. *)
RevokedStreamsClose ==
  \A t \in Tabs : (streams[t] > 0 /\ sess[t].dead) ~> (streams[t] = 0 \/ recreated)
=============================================================================
