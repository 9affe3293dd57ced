------------------------- MODULE AccessTrailProofs -------------------------
(***************************************************************************)
(* Who the console lets in (ConsoleAccess), and what becomes of the record *)
(* of what was done (AuditTrail, in the second part below).                *)
(*                                                                         *)
(* Who is let in after an account has changed, for every number of tabs    *)
(* and of events.  The argument has three parts:                           *)
(*                                                                         *)
(*  - while no removed login is created again, users.json only advances:   *)
(*    its epochs never go down and a switch-off is for good, so what it    *)
(*    refuses once it refuses for ever;                                    *)
(*  - a request is judged by the file as it was at some moment after the   *)
(*    request arrived: a document is kept under the signature seen before  *)
(*    its load, so a hit on the present signature is the present file;     *)
(*  - a session carries epochs no newer than the file's, and one marked    *)
(*    as revoked carries some that are older - also when the revocation    *)
(*    fell between the sign-in's read and the session it issued.           *)
(*                                                                         *)
(* The argon gate's queue plays no part in it: whichever waiter a release  *)
(* admits, only its place in its own handler changes.                      *)
(***************************************************************************)
EXTENDS ConsoleAccess, AuditTrail, FiniteSetTheorems, WellFoundedInduction, TLAPS

OpKinds == {"none", "signIn", "setup", "read", "events", "signOut", "leave"}
Places == {"none", "stat", "load", "keep", "judge", "wait", "hash", "served"}
Users == [here : BOOLEAN, gone : BOOLEAN, off : BOOLEAN, hash : BOOLEAN, pwdVersion : Nat,
          cred : Nat, lockE : Nat, links : SUBSET Nat]
SessionType == [token : BOOLEAN, live : BOOLEAN, epoch : Nat, cred : Nat, pwdVersion : Nat, dead : BOOLEAN]
OpType == [kind : OpKinds, pc : Places, sig : Nat, doc : Docs, link : Nat, clean : BOOLEAN,
           dead : BOOLEAN, must : BOOLEAN]
ReadType == [pc : Places, sig : Nat, doc : Docs]
RecordType == [fails : Nat, epoch : Nat]

AccessTypes ==
  /\ file \in Docs
  /\ cache \subseteq [sig : Nat, doc : Docs]
  /\ sess \in [Tabs -> SessionType]
  /\ op \in [Tabs -> OpType]
  /\ beat \in [Tabs -> ReadType]
  /\ lockouts \in [Remotes -> RecordType]
  /\ saved \in [Remotes -> RecordType]
  /\ fresh \in [Remotes -> 0..FreeAttempts + 1]
  /\ recreated \in BOOLEAN /\ proxied \in BOOLEAN

(* A document read earlier than, or as, the present file. *)
Faithful(d) == d.ver <= file.ver /\ (d.ver = file.ver => d = file)
Past(d) == /\ d.epoch <= file.epoch /\ d.user.cred <= file.user.cred
           /\ d.user.pwdVersion <= file.user.pwdVersion /\ d.user.lockE <= file.user.lockE

ReadHeld(r) ==
  /\ r.pc \in {"load", "keep"} => r.sig <= file.ver
  /\ r.pc = "keep" => r.sig <= r.doc.ver /\ Faithful(r.doc)

CacheHeld ==
  /\ \A c \in cache : c.sig <= c.doc.ver /\ Faithful(c.doc)
  /\ \A c, d \in cache : c = d

(* What a session, a sign-in and a request under way carry. *)
SessionHeld(t) ==
  /\ sess[t].epoch <= file.epoch /\ sess[t].cred <= file.user.cred
  /\ sess[t].pwdVersion <= file.user.pwdVersion
  /\ sess[t].dead => ~NotRevoked(sess[t], file)

SignInHeld(t) ==
  /\ Past(op[t].doc)
  /\ op[t].kind = "signIn" =>
       /\ op[t].pc \in {"stat", "load"} => ~op[t].dead
       /\ op[t].dead => ~NotRevoked(Issued(op[t].doc, TRUE), file)

RequestHeld(t) ==
  op[t].must =>
    /\ sess[t].dead /\ op[t].pc # "served"
    /\ op[t].pc \in {"keep", "judge"} => ~NotRevoked(sess[t], op[t].doc)

(* The lockout table, and what a restart would bring back: a record under the
   present epoch counts failures recorded since the last reset. *)
Counted(rec, r) == /\ rec.epoch <= file.user.lockE
                   /\ SignInEligible(file) /\ rec.epoch = file.user.lockE => rec.fails <= fresh[r]
LockoutHeld(r) == Counted(lockouts[r], r) /\ Counted(saved[r], r)

TabHeld(t) == ReadHeld(op[t]) /\ SessionHeld(t) /\ SignInHeld(t) /\ RequestHeld(t)

AccessHeld ==
  /\ file.user.here /\ file.user.hash /\ CacheHeld
  /\ \A t \in Tabs : TabHeld(t) /\ ReadHeld(beat[t])
  /\ \A r \in Remotes : LockoutHeld(r)

AccessInv == AccessTypes /\ (recreated \/ AccessHeld)

-----------------------------------------------------------------------------
(* What the handlers' common pieces do to the tab in hand and to the others. *)

LEMMA FreshTyped ==
  /\ EmptyFile \in Docs /\ NoOp \in OpType /\ Unread \in ReadType
  /\ NoSession \in SessionType /\ NoRecord \in RecordType /\ Established \in Docs
BY DEF EmptyFile, NoUser, NoOp, Unread, NoSession, NoRecord, Established, Docs, OpType, OpKinds, Places,
       ReadType, SessionType, RecordType

LEMMA OpSet ==
  ASSUME AccessTypes, NEW t \in Tabs, NEW o \in OpType, op' = [op EXCEPT ![t] = o]
  PROVE  op' \in [Tabs -> OpType] /\ op'[t] = o /\ \A u \in Tabs : u # t => op'[u] = op[u]
BY DEF AccessTypes

(* An op moved to another place, and nothing else. *)
MovedTo(o, p, pc) ==
  p.pc = pc /\ p.kind = o.kind /\ p.doc = o.doc /\ p.dead = o.dead /\ p.must = o.must /\ p.link = o.link

LEMMA Moves ==
  ASSUME NEW o \in OpType, NEW pc \in Places
  PROVE  [o EXCEPT !.pc = pc] \in OpType /\ MovedTo(o, [o EXCEPT !.pc = pc], pc)
BY DEF OpType, MovedTo

LEMMA AcquireDoes ==
  ASSUME AccessTypes, NEW t \in Tabs, NEW o \in OpType, Acquire(t, o)
  PROVE  /\ op' \in [Tabs -> OpType]
         /\ op'[t] = NoOp \/ MovedTo(o, op'[t], "hash") \/ MovedTo(o, op'[t], "wait")
         /\ \A u \in Tabs : u # t => op'[u] = op[u]
<1> DEFINE hashes == [o EXCEPT !.pc = "hash"]
           waits == [o EXCEPT !.pc = "wait"]
<1>1. hashes \in OpType /\ MovedTo(o, hashes, "hash") /\ waits \in OpType /\ MovedTo(o, waits, "wait")
  BY Moves DEF Places
<1>2. \/ op' = [op EXCEPT ![t] = hashes] \/ op' = [op EXCEPT ![t] = waits] \/ op' = [op EXCEPT ![t] = NoOp]
  BY DEF Acquire
<1> HIDE DEF hashes, waits
<1>3. CASE op' = [op EXCEPT ![t] = hashes]
  BY <1>1, <1>3, OpSet
<1>4. CASE op' = [op EXCEPT ![t] = waits]
  BY <1>1, <1>4, OpSet
<1>5. CASE op' = [op EXCEPT ![t] = NoOp]
  BY <1>5, OpSet, FreshTyped
<1> QED
  BY <1>2, <1>3, <1>4, <1>5

LEMMA ReleaseDoes ==
  ASSUME AccessTypes, NEW t \in Tabs, NEW done \in OpType, Release(t, done)
  PROVE  /\ op' \in [Tabs -> OpType] /\ op'[t] = done
         /\ \A u \in Tabs : u # t => op'[u] = op[u] \/ MovedTo(op[u], op'[u], "hash")
<1> DEFINE admitted == {waiting[Pumped(t)[i]] : i \in DOMAIN Pumped(t)}
<1>1. op' = [u \in Tabs |-> IF u = t THEN done
                            ELSE IF u \in admitted THEN [op[u] EXCEPT !.pc = "hash"] ELSE op[u]]
  BY DEF Release
<1> HIDE DEF admitted
<1>2. \A u \in Tabs : op[u] \in OpType
  BY DEF AccessTypes
<1>3. \A u \in Tabs : [op[u] EXCEPT !.pc = "hash"] \in OpType /\ MovedTo(op[u], [op[u] EXCEPT !.pc = "hash"], "hash")
  BY <1>2, Moves DEF Places
<1>4. op' \in [Tabs -> OpType]
  BY <1>1, <1>2, <1>3
<1>5. \A u \in Tabs : u # t => op'[u] = op[u] \/ op'[u] = [op[u] EXCEPT !.pc = "hash"]
  BY <1>1
<1> QED
  BY <1>1, <1>3, <1>4, <1>5

(* A read of users.json goes to its load, or finds the present file kept. *)
Hit == \E c \in cache : c.sig = file.ver
KeptDoc == (CHOOSE c \in cache : TRUE).doc

LEMMA HitIsCurrent ==
  ASSUME AccessTypes, Hit
  PROVE  KeptDoc \in Docs /\ (CacheHeld => KeptDoc = file)
<1> DEFINE c == CHOOSE c \in cache : TRUE
<1>1. c \in cache
  BY DEF Hit
<1>2. c.doc \in Docs /\ c.doc.ver \in Nat /\ file.ver \in Nat
  BY <1>1 DEF AccessTypes, Docs
<1>3. ASSUME CacheHeld PROVE c.doc = file
  <2>1. c.sig = file.ver /\ c.sig <= c.doc.ver /\ Faithful(c.doc)
    BY <1>1, <1>3 DEF CacheHeld, Hit
  <2> QED
    BY <1>2, <2>1 DEF Faithful
<1> QED
  BY <1>2, <1>3 DEF KeptDoc

LEMMA StatDoes ==
  ASSUME AccessTypes
  PROVE  /\ \A o \in OpType :
              /\ Stat(o) \in OpType /\ Stat(o).kind = o.kind /\ Stat(o).dead = o.dead /\ Stat(o).must = o.must
              /\ \/ Hit /\ Stat(o).pc = "judge" /\ Stat(o).doc = KeptDoc
                 \/ Stat(o).pc = "load" /\ Stat(o).sig = file.ver /\ Stat(o).doc = o.doc
         /\ \A o \in ReadType :
              /\ Stat(o) \in ReadType
              /\ \/ Stat(o).pc = "judge"
                 \/ Stat(o).pc = "load" /\ Stat(o).sig = file.ver
<1>1. file.ver \in Nat
  BY DEF AccessTypes, Docs
<1>2. Hit => KeptDoc \in Docs
  BY HitIsCurrent
<1>3. \A o : Stat(o) = IF Hit THEN [o EXCEPT !.pc = "judge", !.doc = KeptDoc]
                       ELSE [o EXCEPT !.pc = "load", !.sig = file.ver]
  BY DEF Stat, Hit, KeptDoc
<1>4. ASSUME NEW o \in OpType
      PROVE  /\ Stat(o) \in OpType /\ Stat(o).kind = o.kind /\ Stat(o).dead = o.dead /\ Stat(o).must = o.must
             /\ \/ Hit /\ Stat(o).pc = "judge" /\ Stat(o).doc = KeptDoc
                \/ Stat(o).pc = "load" /\ Stat(o).sig = file.ver /\ Stat(o).doc = o.doc
  BY <1>1, <1>2, <1>3 DEF OpType, Places
<1>5. ASSUME NEW o \in ReadType
      PROVE  /\ Stat(o) \in ReadType
             /\ \/ Stat(o).pc = "judge"
                \/ Stat(o).pc = "load" /\ Stat(o).sig = file.ver
  BY <1>1, <1>2, <1>3 DEF ReadType, Places
<1> QED
  BY <1>4, <1>5

(* One read by a request, and by a heartbeat. *)
LEMMA ReadUsersDoes ==
  ASSUME AccessTypes, NEW t \in Tabs, ReadUsers(t)
  PROVE  /\ op' \in [Tabs -> OpType] /\ \A u \in Tabs : u # t => op'[u] = op[u]
         /\ op'[t].kind = op[t].kind /\ op'[t].dead = op[t].dead /\ op'[t].must = op[t].must
         /\ \/ op[t].pc = "stat" /\ Hit /\ op'[t].pc = "judge" /\ op'[t].doc = KeptDoc /\ cache' = cache
            \/ /\ op[t].pc = "stat" /\ op'[t].pc = "load" /\ op'[t].sig = file.ver /\ op'[t].doc = op[t].doc
               /\ cache' = cache
            \/ /\ op[t].pc = "load" /\ op'[t].pc = "keep" /\ op'[t].sig = op[t].sig /\ op'[t].doc = file
               /\ cache' = cache
            \/ /\ op[t].pc = "keep" /\ op'[t].pc = "judge" /\ op'[t].doc = op[t].doc
               /\ cache' = {[sig |-> op[t].sig, doc |-> op[t].doc]}
<1>0. op[t] \in OpType /\ file \in Docs
  BY DEF AccessTypes
<1>1. CASE op[t].pc = "stat" /\ op' = [op EXCEPT ![t] = Stat(op[t])] /\ UNCHANGED cache
  BY <1>0, <1>1, StatDoes, OpSet
<1>2. CASE op[t].pc = "load" /\ op' = [op EXCEPT ![t] = [@ EXCEPT !.pc = "keep", !.doc = file]] /\ UNCHANGED cache
  <2> DEFINE o == [op[t] EXCEPT !.pc = "keep", !.doc = file]
  <2>1. /\ o \in OpType /\ o.kind = op[t].kind /\ o.dead = op[t].dead /\ o.must = op[t].must
        /\ o.pc = "keep" /\ o.sig = op[t].sig /\ o.doc = file
    BY <1>0 DEF OpType, Places
  <2>2. op' = [op EXCEPT ![t] = o]
    BY <1>2 DEF AccessTypes
  <2> HIDE DEF o
  <2> QED
    BY <1>2, <2>1, <2>2, OpSet
<1>3. CASE op[t].pc = "keep" /\ cache' = Kept(op[t]) /\ op' = [op EXCEPT ![t].pc = "judge"]
  <2> DEFINE o == [op[t] EXCEPT !.pc = "judge"]
  <2>1. o \in OpType /\ MovedTo(op[t], o, "judge")
    BY <1>0, Moves DEF Places
  <2>2. op' = [op EXCEPT ![t] = o]
    BY <1>3 DEF AccessTypes
  <2> HIDE DEF o
  <2>3. op' \in [Tabs -> OpType] /\ op'[t] = o /\ \A u \in Tabs : u # t => op'[u] = op[u]
    BY <2>1, <2>2, OpSet
  <2> QED
    BY <1>3, <2>1, <2>3 DEF MovedTo, Kept
<1> QED
  BY <1>1, <1>2, <1>3 DEF ReadUsers

LEMMA BeatReadsDoes ==
  ASSUME AccessTypes, NEW t \in Tabs, BeatReads(t)
  PROVE  /\ beat' \in [Tabs -> ReadType] /\ \A u \in Tabs : u # t => beat'[u] = beat[u]
         /\ \/ beat'[t].pc \in {"stat", "judge"} /\ cache' = cache
            \/ beat'[t].pc = "load" /\ beat'[t].sig = file.ver /\ cache' = cache
            \/ /\ beat[t].pc = "load" /\ beat'[t].pc = "keep" /\ beat'[t].sig = beat[t].sig /\ beat'[t].doc = file
               /\ cache' = cache
            \/ /\ beat[t].pc = "keep" /\ beat'[t].pc = "judge"
               /\ cache' = {[sig |-> beat[t].sig, doc |-> beat[t].doc]}
<1>0. /\ beat[t] \in ReadType /\ file \in Docs /\ Unread \in ReadType
      /\ beat \in [Tabs -> ReadType] /\ \A o \in ReadType : [o EXCEPT !.pc = "stat"] \in ReadType
  BY FreshTyped DEF AccessTypes, ReadType, Places
<1>1. CASE beat' = [beat EXCEPT ![t] = [Unread EXCEPT !.pc = "stat"]] /\ UNCHANGED cache
  BY <1>0, <1>1 DEF ReadType
<1>2. CASE beat[t].pc = "stat" /\ beat' = [beat EXCEPT ![t] = Stat(beat[t])] /\ UNCHANGED cache
  BY <1>0, <1>2, StatDoes
<1>3. CASE beat[t].pc = "load" /\ beat' = [beat EXCEPT ![t] = [@ EXCEPT !.pc = "keep", !.doc = file]] /\ UNCHANGED cache
  <2> DEFINE o == [beat[t] EXCEPT !.pc = "keep", !.doc = file]
  <2>1. o \in ReadType /\ o.pc = "keep" /\ o.sig = beat[t].sig /\ o.doc = file
    BY <1>0 DEF ReadType, Places
  <2>2. beat' = [beat EXCEPT ![t] = o]
    BY <1>0, <1>3
  <2> HIDE DEF o
  <2> QED
    BY <1>0, <1>3, <2>1, <2>2
<1>4. CASE beat[t].pc = "keep" /\ cache' = Kept(beat[t]) /\ beat' = [beat EXCEPT ![t].pc = "judge"]
  <2> DEFINE o == [beat[t] EXCEPT !.pc = "judge"]
  <2>1. o \in ReadType /\ o.pc = "judge"
    BY <1>0 DEF ReadType, Places
  <2>2. beat' = [beat EXCEPT ![t] = o]
    BY <1>0, <1>4
  <2> HIDE DEF o
  <2> QED
    BY <1>0, <1>4, <2>1, <2>2 DEF Kept
<1> QED
  BY <1>1, <1>2, <1>3, <1>4 DEF BeatReads

-----------------------------------------------------------------------------
(* Steps that leave users.json alone.                                       *)

SameSession(t) ==
  /\ sess'[t].epoch = sess[t].epoch /\ sess'[t].cred = sess[t].cred
  /\ sess'[t].pwdVersion = sess[t].pwdVersion /\ sess'[t].dead = sess[t].dead

(* A request that has read nothing yet, or is over. *)
Blank(t) == /\ op'[t].doc = EmptyFile /\ ~op'[t].dead /\ op'[t].pc \in {"none", "stat", "wait", "hash"}
            /\ op'[t].must => sess[t].dead

(* What a step other than a read does to a request. *)
OpMild(t) ==
  \/ op'[t] = op[t] \/ Blank(t)
  \/ MovedTo(op[t], op'[t], "hash") \/ MovedTo(op[t], op'[t], "wait")
  \/ MovedTo(op[t], op'[t], "served") /\ ~op[t].must
  \/ /\ op'[t].kind = "leave" /\ op'[t].pc = "stat"
     /\ op'[t].doc = op[t].doc /\ op'[t].must = op[t].must

LEMMA SessionKept ==
  ASSUME NEW t \in Tabs, SessionHeld(t), file' = file, SameSession(t)
  PROVE  SessionHeld(t)' /\ \A d : NotRevoked(sess'[t], d) = NotRevoked(sess[t], d)
BY DEF SessionHeld, SameSession, NotRevoked, LiveUser

LEMMA EmptyPast ==
  ASSUME AccessTypes
  PROVE  Past(EmptyFile)
BY DEF AccessTypes, Past, EmptyFile, NoUser, Docs

LEMMA TabKept ==
  ASSUME AccessTypes, NEW t \in Tabs, TabHeld(t), file' = file, SameSession(t), OpMild(t)
  PROVE  TabHeld(t)'
<1>1. SessionHeld(t)' /\ \A d : NotRevoked(sess'[t], d) = NotRevoked(sess[t], d)
  BY SessionKept DEF TabHeld
<1>2. ReadHeld(op[t])'
  BY DEF TabHeld, OpMild, Blank, MovedTo, ReadHeld, Faithful
<1>3. Past(op[t].doc)'
  BY EmptyPast DEF TabHeld, SignInHeld, OpMild, Blank, MovedTo, Past
<1>4. SignInHeld(t)'
  <2>1. op'[t].kind = "signIn" /\ op'[t].pc \in {"stat", "load"} => ~op'[t].dead
    BY DEF TabHeld, SignInHeld, OpMild, Blank, MovedTo
  <2>2. op'[t].kind = "signIn" /\ op'[t].dead => /\ op[t].kind = "signIn" /\ op[t].dead /\ op'[t].doc = op[t].doc
    BY DEF OpMild, Blank, MovedTo
  <2> QED
    BY <1>3, <2>1, <2>2 DEF TabHeld, SignInHeld, NotRevoked, Issued, LiveUser
<1>5. RequestHeld(t)'
  <2>1. SUFFICES ASSUME op'[t].must
                 PROVE  /\ sess'[t].dead /\ op'[t].pc # "served"
                        /\ op'[t].pc \in {"keep", "judge"} => ~NotRevoked(sess'[t], op'[t].doc)
    BY DEF RequestHeld, NotRevoked, LiveUser
  <2>2. CASE op'[t] = op[t]
    BY <1>1, <2>1, <2>2 DEF TabHeld, RequestHeld, SameSession
  <2>3. CASE op'[t] # op[t]
    BY <2>1, <2>3 DEF TabHeld, RequestHeld, SameSession, OpMild, Blank, MovedTo
  <2> QED
    BY <2>2, <2>3
<1> QED
  BY <1>1, <1>2, <1>4, <1>5 DEF TabHeld

(* A read of users.json: what it ends with is the file as it is now, or as it was
   when the read loaded it. *)
LEMMA ReadKeepsTab ==
  ASSUME AccessTypes, NEW t \in Tabs, TabHeld(t), CacheHeld, ReadUsers(t)
  PROVE  TabHeld(t)'
<1>0. file' = file /\ sess' = sess /\ file \in Docs /\ file.ver \in Nat
  BY DEF ReadUsers, AccessTypes, Docs
<1>1. SessionHeld(t)' /\ \A d : NotRevoked(sess'[t], d) = NotRevoked(sess[t], d)
  BY <1>0, SessionKept DEF TabHeld, SameSession
<1>2. /\ op'[t].kind = op[t].kind /\ op'[t].dead = op[t].dead /\ op'[t].must = op[t].must
      /\ \/ op[t].pc = "stat" /\ op'[t].pc = "judge" /\ op'[t].doc = file
         \/ /\ op[t].pc = "stat" /\ op'[t].pc = "load" /\ op'[t].sig = file.ver /\ op'[t].doc = op[t].doc
         \/ /\ op[t].pc = "load" /\ op'[t].pc = "keep" /\ op'[t].sig = op[t].sig /\ op'[t].doc = file
         \/ /\ op[t].pc = "keep" /\ op'[t].pc = "judge" /\ op'[t].doc = op[t].doc
  BY ReadUsersDoes, HitIsCurrent
<1>3. ReadHeld(op[t])'
  BY <1>0, <1>2 DEF TabHeld, ReadHeld, Faithful
<1>4. Past(file)
  BY <1>0 DEF Past, Docs
<1>5. SignInHeld(t)'
  <2>1. Past(op[t].doc)'
    BY <1>0, <1>2, <1>4 DEF TabHeld, SignInHeld, Past
  <2>2. op'[t].kind = "signIn" /\ op'[t].pc \in {"stat", "load"} => ~op'[t].dead
    BY <1>2 DEF TabHeld, SignInHeld
  <2>3. op'[t].kind = "signIn" /\ op'[t].dead => /\ op[t].kind = "signIn" /\ op[t].dead /\ op'[t].doc = op[t].doc
    BY <1>2 DEF TabHeld, SignInHeld
  <2> QED
    BY <1>0, <2>1, <2>2, <2>3 DEF TabHeld, SignInHeld, NotRevoked, Issued, LiveUser
<1>6. RequestHeld(t)'
  <2>1. SUFFICES ASSUME op'[t].must
                 PROVE  /\ sess'[t].dead /\ op'[t].pc # "served"
                        /\ op'[t].pc \in {"keep", "judge"} => ~NotRevoked(sess'[t], op'[t].doc)
    BY DEF RequestHeld, NotRevoked, LiveUser
  <2>2. sess[t].dead /\ ~NotRevoked(sess[t], file)
    BY <1>2, <2>1 DEF TabHeld, RequestHeld, SessionHeld
  <2>3. op'[t].doc = file \/ op'[t].pc = "load" \/ (op[t].pc = "keep" /\ op'[t].doc = op[t].doc)
    BY <1>2
  <2>4. op'[t].pc \in {"keep", "judge"} => ~NotRevoked(sess[t], op'[t].doc)
    BY <1>2, <2>1, <2>2, <2>3 DEF TabHeld, RequestHeld
  <2> QED
    BY <1>0, <1>1, <1>2, <2>2, <2>4
<1> QED
  BY <1>1, <1>3, <1>5, <1>6 DEF TabHeld

(* The pieces of AccessHeld that a step leaves as they were. *)
LEMMA CacheKept ==
  ASSUME CacheHeld, file' = file, cache' = cache \/ cache' = {}
  PROVE  CacheHeld'
BY DEF CacheHeld, Faithful

LEMMA CacheStored ==
  ASSUME NEW r, ReadHeld(r), r.pc = "keep", file' = file, cache' = {[sig |-> r.sig, doc |-> r.doc]}
  PROVE  CacheHeld'
BY DEF CacheHeld, ReadHeld, Faithful

LEMMA BeatKept ==
  ASSUME NEW t \in Tabs, ReadHeld(beat[t]), file' = file, beat'[t] = beat[t] \/ beat'[t] = Unread
  PROVE  ReadHeld(beat[t])'
BY DEF ReadHeld, Faithful, Unread

LEMMA LockoutKept ==
  ASSUME NEW r \in Remotes, LockoutHeld(r), file' = file, UNCHANGED <<lockouts, saved, fresh>>
  PROVE  LockoutHeld(r)'
BY DEF LockoutHeld, Counted, SignInEligible, LiveUser

(* A step that leaves the tabs' sessions and the file alone keeps everything, if
   what it does to the requests is mild and the lockouts stay counted. *)
LEMMA MildStep ==
  ASSUME AccessTypes, AccessHeld, file' = file, beat' = beat, cache' = cache,
         \A t \in Tabs : SameSession(t) /\ OpMild(t),
         \A r \in Remotes : LockoutHeld(r)'
  PROVE  AccessHeld'
<1>1. \A t \in Tabs : TabHeld(t)'
  BY TabKept DEF AccessHeld
<1>2. \A t \in Tabs : ReadHeld(beat[t])'
  BY BeatKept DEF AccessHeld
<1>3. CacheHeld'
  BY CacheKept DEF AccessHeld
<1> QED
  BY <1>1, <1>2, <1>3 DEF AccessHeld

AccessKept == AccessTypes' /\ (AccessHeld => AccessHeld')

LEMMA ReadUsersKeeps ==
  ASSUME AccessTypes, NEW t \in Tabs, ReadUsers(t), proxied' = proxied
  PROVE  AccessKept
<1>1. UNCHANGED <<file, sess, beat, lockouts, saved, recreated, fresh>>
  BY DEF ReadUsers, ghosts
<1>2. /\ op' \in [Tabs -> OpType] /\ \A u \in Tabs : u # t => op'[u] = op[u]
      /\ cache' = cache \/ (op[t].pc = "keep" /\ cache' = {[sig |-> op[t].sig, doc |-> op[t].doc]})
  BY ReadUsersDoes
<1>3. op[t] \in OpType
  BY DEF AccessTypes
<1>4. AccessTypes'
  BY <1>1, <1>2, <1>3 DEF AccessTypes, OpType
<1>5. ASSUME AccessHeld PROVE AccessHeld'
  <2>1. CacheHeld'
    BY <1>1, <1>2, <1>5, CacheKept, CacheStored DEF AccessHeld, TabHeld
  <2>2. ASSUME NEW u \in Tabs PROVE TabHeld(u)'
    <3>1. CASE u = t
      BY <1>5, <3>1, ReadKeepsTab DEF AccessHeld
    <3>2. CASE u # t
      BY <1>1, <1>2, <1>5, <3>2, TabKept DEF AccessHeld, SameSession, OpMild
    <3> QED
      BY <3>1, <3>2
  <2>3. \A u \in Tabs : ReadHeld(beat[u])'
    BY <1>1, <1>5, BeatKept DEF AccessHeld
  <2>4. \A r \in Remotes : LockoutHeld(r)'
    BY <1>1, <1>5, LockoutKept DEF AccessHeld
  <2> QED
    BY <1>1, <1>5, <2>1, <2>2, <2>3, <2>4 DEF AccessHeld
<1> QED
  BY <1>4, <1>5 DEF AccessKept

LEMMA BeatReadsKeeps ==
  ASSUME AccessTypes, NEW t \in Tabs, BeatReads(t), proxied' = proxied
  PROVE  AccessKept
<1>1. UNCHANGED <<file, sess, op, lockouts, saved, recreated, fresh>>
  BY DEF BeatReads, ghosts
<1>2. /\ beat' \in [Tabs -> ReadType] /\ \A u \in Tabs : u # t => beat'[u] = beat[u]
      /\ cache' = cache \/ (beat[t].pc = "keep" /\ cache' = {[sig |-> beat[t].sig, doc |-> beat[t].doc]})
      /\ \/ beat'[t].pc \in {"stat", "judge"}
         \/ beat'[t].pc = "load" /\ beat'[t].sig = file.ver
         \/ beat[t].pc = "load" /\ beat'[t].pc = "keep" /\ beat'[t].sig = beat[t].sig /\ beat'[t].doc = file
  BY BeatReadsDoes
<1>3. beat[t] \in ReadType /\ file.ver \in Nat
  BY DEF AccessTypes, Docs
<1>4. AccessTypes'
  BY <1>1, <1>2, <1>3 DEF AccessTypes, ReadType
<1>5. ASSUME AccessHeld PROVE AccessHeld'
  <2>1. CacheHeld'
    BY <1>1, <1>2, <1>5, CacheKept, CacheStored DEF AccessHeld
  <2>2. \A u \in Tabs : TabHeld(u)'
    BY <1>1, <1>5, TabKept DEF AccessHeld, SameSession, OpMild
  <2>3. ASSUME NEW u \in Tabs PROVE ReadHeld(beat[u])'
    <3>1. CASE u = t
      BY <1>1, <1>2, <1>3, <1>5, <3>1 DEF AccessHeld, ReadHeld, Faithful
    <3>2. CASE u # t
      BY <1>1, <1>2, <1>5, <3>2, BeatKept DEF AccessHeld
    <3> QED
      BY <3>1, <3>2
  <2>4. \A r \in Remotes : LockoutHeld(r)'
    BY <1>1, <1>5, LockoutKept DEF AccessHeld
  <2> QED
    BY <1>1, <1>5, <2>1, <2>2, <2>3, <2>4 DEF AccessHeld
<1> QED
  BY <1>4, <1>5 DEF AccessKept

(* The lockouts: what is current of a counted record, and one more failure. *)
LEMMA CurrentIs ==
  ASSUME NEW rec \in RecordType, NEW e
  PROVE  Current(rec, e) \in RecordType /\ (Current(rec, e) = rec \/ Current(rec, e) = NoRecord)
BY FreshTyped DEF Current

LEMMA NoRecordCounted ==
  ASSUME AccessTypes, NEW r \in Remotes
  PROVE  Counted(NoRecord, r)
BY DEF AccessTypes, Counted, NoRecord, Docs

LEMMA LeastOfTwo ==
  ASSUME NEW m \in Nat, NEW n \in Nat
  PROVE  Min({m, n}) = IF m <= n THEN m ELSE n
<1> DEFINE least == IF m <= n THEN m ELSE n
<1>1. least \in {m, n} /\ \A y \in {m, n} : least <= y
  OBVIOUS
<1>2. \A x \in {m, n} : (\A y \in {m, n} : x <= y) => x = least
  OBVIOUS
<1>3. Min({m, n}) = CHOOSE x \in {m, n} : \A y \in {m, n} : x <= y
  BY DEF Min
<1> HIDE DEF least
<1>4. (CHOOSE x \in {m, n} : \A y \in {m, n} : x <= y) = least
  BY <1>1, <1>2
<1> QED
  BY <1>3, <1>4 DEF least

LEMMA EpochIs ==
  ASSUME NEW doc \in Docs
  PROVE  /\ LockoutEpoch(doc) \in Nat /\ LockoutEpoch(doc) <= doc.user.lockE
         /\ SignInEligible(doc) => LockoutEpoch(doc) = doc.user.lockE
BY DEF LockoutEpoch, Docs

LEMMA JudgeSignInKeeps ==
  ASSUME AccessTypes, NEW t \in Tabs, JudgeSignIn(t), proxied' = proxied
  PROVE  AccessKept
<1> DEFINE r == RemoteKeyFor(t)
           judged == Current(lockouts[r], LockoutEpoch(op[t].doc))
<1>1. UNCHANGED <<file, cache, sess, beat, saved, recreated, fresh>>
  BY DEF JudgeSignIn, ghosts
<1>2. r \in Remotes /\ op[t] \in OpType /\ lockouts[r] \in RecordType
  BY DEF RemoteKeyFor, Remotes, AccessTypes
<1>3. judged \in RecordType /\ (judged = lockouts[r] \/ judged = NoRecord)
  BY <1>2, CurrentIs
<1>4. lockouts' = lockouts \/ lockouts' = [lockouts EXCEPT ![r] = judged]
  BY DEF JudgeSignIn
<1>5. /\ op' \in [Tabs -> OpType] /\ \A u \in Tabs : OpMild(u)
  <2>1. CASE op' = [op EXCEPT ![t] = NoOp]
    BY <2>1, OpSet, FreshTyped DEF OpMild, Blank, NoOp
  <2>2. CASE \E clean \in BOOLEAN : Acquire(t, [op[t] EXCEPT !.clean = clean])
    <3>1. PICK clean \in BOOLEAN : Acquire(t, [op[t] EXCEPT !.clean = clean])
      BY <2>2
    <3> DEFINE o == [op[t] EXCEPT !.clean = clean]
    <3>2. /\ o \in OpType /\ o.kind = op[t].kind /\ o.doc = op[t].doc /\ o.dead = op[t].dead
          /\ o.must = op[t].must /\ o.link = op[t].link
      BY <1>2 DEF OpType
    <3> HIDE DEF o
    <3>3. /\ op' \in [Tabs -> OpType]
          /\ op'[t] = NoOp \/ MovedTo(o, op'[t], "hash") \/ MovedTo(o, op'[t], "wait")
          /\ \A u \in Tabs : u # t => op'[u] = op[u]
      BY <3>1, <3>2, AcquireDoes DEF o
    <3>4. OpMild(t)
      BY <3>2, <3>3 DEF OpMild, Blank, MovedTo, NoOp
    <3> QED
      BY <3>3, <3>4 DEF OpMild
  <2> QED
    BY <2>1, <2>2 DEF JudgeSignIn
<1> HIDE DEF judged, r
<1>6. lockouts' \in [Remotes -> RecordType]
  BY <1>2, <1>3, <1>4 DEF AccessTypes
<1>7. AccessTypes'
  BY <1>1, <1>5, <1>6 DEF AccessTypes
<1>8. ASSUME AccessHeld PROVE AccessHeld'
  <2>1. ASSUME NEW q \in Remotes PROVE LockoutHeld(q)'
    <3>1. lockouts'[q] = lockouts[q] \/ lockouts'[q] = NoRecord
      BY <1>2, <1>3, <1>4 DEF AccessTypes
    <3> QED
      BY <1>1, <1>8, <3>1, NoRecordCounted DEF AccessHeld, LockoutHeld, Counted, SignInEligible, LiveUser
  <2> QED
    BY <1>1, <1>5, <1>8, <2>1, MildStep DEF SameSession
<1> QED
  BY <1>7, <1>8 DEF AccessKept

(* One more failure: a record stamped with the epoch its sign-in read, and where
   that is still the account's, one more failure since the last reset. *)
Capped(n) == IF n <= FreeAttempts + 1 THEN n ELSE FreeAttempts + 1
Recorded(doc, r) ==
  fresh' = IF LockoutEpoch(doc) = LockoutEpoch(file)
             THEN [fresh EXCEPT ![r] = Min({@ + 1, FreeAttempts + 1})] ELSE fresh

LEMMA FailedTyped ==
  ASSUME AccessTypes, NEW r \in Remotes, NEW rec \in RecordType, NEW doc \in Docs, Recorded(doc, r)
  PROVE  /\ fresh' \in [Remotes -> 0..FreeAttempts + 1]
         /\ \A q \in Remotes : fresh[q] <= fresh'[q]
         /\ LockoutEpoch(doc) = LockoutEpoch(file) => fresh'[r] = Capped(fresh[r] + 1)
         /\ Failed(rec, LockoutEpoch(doc)) \in RecordType
         /\ Failed(rec, LockoutEpoch(doc)).epoch = LockoutEpoch(doc)
         /\ Failed(rec, LockoutEpoch(doc)).fails = Capped(Current(rec, LockoutEpoch(doc)).fails + 1)
<1> DEFINE e == LockoutEpoch(doc)
           cur == Current(rec, e)
           fails == Capped(cur.fails + 1)
           bumped == Capped(fresh[r] + 1)
<1>1. /\ FreeAttempts \in Nat /\ fresh \in [Remotes -> 0..FreeAttempts + 1]
      /\ fresh[r] \in 0..FreeAttempts + 1
  BY GateAssumption DEF AccessTypes
<1>2. e \in Nat
  BY EpochIs
<1>3. cur.fails \in Nat
  BY CurrentIs DEF RecordType
<1>4. Min({fresh[r] + 1, FreeAttempts + 1}) = bumped /\ bumped \in 0..FreeAttempts + 1 /\ fresh[r] <= bumped
  BY <1>1, LeastOfTwo DEF Capped
<1>5. fails \in Nat /\ Failed(rec, e) = [fails |-> fails, epoch |-> e]
  BY <1>1, <1>3, LeastOfTwo DEF Failed, Capped
<1>6. fresh' = IF e = LockoutEpoch(file) THEN [fresh EXCEPT ![r] = bumped] ELSE fresh
  BY <1>4 DEF Recorded
<1> HIDE DEF e, fails, bumped
<1>7. /\ fresh' \in [Remotes -> 0..FreeAttempts + 1] /\ \A q \in Remotes : fresh[q] <= fresh'[q]
      /\ e = LockoutEpoch(file) => fresh'[r] = bumped
  BY <1>1, <1>4, <1>6
<1>8. Failed(rec, e) \in RecordType /\ Failed(rec, e).epoch = e /\ Failed(rec, e).fails = fails
  BY <1>2, <1>5 DEF RecordType
<1> QED
  BY <1>7, <1>8 DEF e, fails, bumped

LEMMA FailedCounted ==
  ASSUME AccessTypes, NEW r \in Remotes, NEW rec \in RecordType, NEW doc \in Docs,
         Counted(rec, r), Past(doc), Recorded(doc, r), file' = file
  PROVE  /\ Failed(rec, LockoutEpoch(doc)).epoch <= file'.user.lockE
         /\ SignInEligible(file') /\ Failed(rec, LockoutEpoch(doc)).epoch = file'.user.lockE
              => Failed(rec, LockoutEpoch(doc)).fails <= fresh'[r]
<1> DEFINE e == LockoutEpoch(doc)
           failed == Failed(rec, e)
           cur == Current(rec, e)
<1>1. /\ FreeAttempts \in Nat /\ fresh[r] \in 0..FreeAttempts + 1 /\ file \in Docs
      /\ file.user.lockE \in Nat /\ doc.user.lockE \in Nat
  BY GateAssumption DEF AccessTypes, Docs
<1>2. e \in Nat /\ e <= doc.user.lockE /\ e <= file.user.lockE
  BY <1>1, EpochIs DEF Past
<1>3. cur.fails \in Nat /\ rec.epoch \in Nat /\ rec.fails \in Nat
  BY CurrentIs DEF RecordType
<1>4. /\ failed.epoch = e /\ failed.fails = Capped(cur.fails + 1)
      /\ e = LockoutEpoch(file) => fresh'[r] = Capped(fresh[r] + 1)
  BY FailedTyped
<1>5. SignInEligible(file) => LockoutEpoch(file) = file.user.lockE
  BY <1>1, EpochIs
<1>6. SignInEligible(file) /\ e = file.user.lockE => cur.fails <= fresh[r]
  BY <1>1, <1>2, <1>3 DEF Counted, Current, NoRecord
<1> HIDE DEF e, cur, failed
<1>7. cur.fails <= fresh[r] => Capped(cur.fails + 1) <= Capped(fresh[r] + 1)
  BY <1>1, <1>3 DEF Capped
<1>8. SignInEligible(file) /\ failed.epoch = file.user.lockE => failed.fails <= fresh'[r]
  BY <1>4, <1>5, <1>6, <1>7
<1> QED
  BY <1>2, <1>4, <1>8 DEF failed, e

(* More failures since the last reset cover what the table holds already. *)
LEMMA CountedMore ==
  ASSUME AccessTypes, NEW r \in Remotes, NEW rec \in RecordType, Counted(rec, r),
         file' = file, fresh' \in [Remotes -> 0..FreeAttempts + 1], fresh[r] <= fresh'[r]
  PROVE  /\ rec.epoch <= file'.user.lockE
         /\ SignInEligible(file') /\ rec.epoch = file'.user.lockE => rec.fails <= fresh'[r]
<1>1. /\ FreeAttempts \in Nat /\ fresh[r] \in 0..FreeAttempts + 1 /\ fresh'[r] \in 0..FreeAttempts + 1
      /\ rec.fails \in Nat
  BY GateAssumption DEF AccessTypes, RecordType
<1> QED
  BY <1>1 DEF Counted

(* The session a sign-in issues carries what it read, and is known as revoked if
   it was so before it was issued. *)
LEMMA IssuedHeld ==
  ASSUME NEW t \in Tabs, SignInHeld(t), op[t].kind = "signIn", file' = file,
         sess'[t] = Issued(op[t].doc, op[t].dead)
  PROVE  SessionHeld(t)'
BY DEF SessionHeld, SignInHeld, Past, Issued, NotRevoked, LiveUser

LEMMA FinishSignInKeeps ==
  ASSUME AccessTypes, NEW t \in Tabs, FinishSignIn(t), proxied' = proxied
  PROVE  AccessKept
<1> DEFINE r == RemoteKeyFor(t)
           doc == op[t].doc
           failed == Failed(lockouts[r], LockoutEpoch(doc))
           issued == Issued(doc, op[t].dead)
<1>1. UNCHANGED <<file, cache, beat, saved, recreated>> /\ op[t].kind = "signIn"
  BY DEF FinishSignIn
<1>2. r \in Remotes /\ op[t] \in OpType /\ doc \in Docs /\ op[t].dead \in BOOLEAN /\ lockouts[r] \in RecordType
  BY DEF RemoteKeyFor, Remotes, AccessTypes, OpType
<1>3. \/ /\ lockouts' = [lockouts EXCEPT ![r] = NoRecord] /\ fresh' = fresh
         /\ sess' = [sess EXCEPT ![t] = issued]
      \/ lockouts' = [lockouts EXCEPT ![r] = failed] /\ Recorded(doc, r) /\ sess' = sess
  BY DEF FinishSignIn, Recorded
<1>4. /\ op' \in [Tabs -> OpType] /\ op'[t] = NoOp
      /\ \A u \in Tabs : u # t => op'[u] = op[u] \/ MovedTo(op[u], op'[u], "hash")
  BY FreshTyped, ReleaseDoes DEF FinishSignIn
<1>5. \A u \in Tabs : OpMild(u)
  BY <1>4 DEF OpMild, Blank, NoOp
<1>6. issued \in SessionType
  BY <1>2 DEF Issued, SessionType, Docs
<1>7. Recorded(doc, r) => /\ fresh' \in [Remotes -> 0..FreeAttempts + 1]
                          /\ \A q \in Remotes : fresh[q] <= fresh'[q]
                          /\ failed \in RecordType
  BY <1>2, FailedTyped
<1> HIDE DEF r, doc, failed, issued
<1>8. AccessTypes'
  <2>1. lockouts' \in [Remotes -> RecordType] /\ sess' \in [Tabs -> SessionType]
    BY <1>2, <1>3, <1>6, <1>7, FreshTyped DEF AccessTypes
  <2>2. fresh' \in [Remotes -> 0..FreeAttempts + 1]
    BY <1>3, <1>7 DEF AccessTypes
  <2> QED
    BY <1>1, <1>4, <2>1, <2>2 DEF AccessTypes
<1>9. ASSUME AccessHeld PROVE AccessHeld'
  <2>1. ASSUME NEW u \in Tabs PROVE TabHeld(u)'
    <3>1. CASE sess'[u] = sess[u]
      BY <1>1, <1>5, <1>9, <3>1, TabKept DEF AccessHeld, SameSession
    <3>2. CASE u = t /\ sess'[t] = issued
      <4>1. SessionHeld(t)'
        BY <1>1, <1>9, <3>2, IssuedHeld DEF AccessHeld, TabHeld, issued, doc
      <4>2. (ReadHeld(op[t]) /\ SignInHeld(t) /\ RequestHeld(t))'
        BY <1>1, <1>4, EmptyPast DEF ReadHeld, SignInHeld, RequestHeld, Past, NoOp
      <4> QED
        BY <3>2, <4>1, <4>2 DEF TabHeld
    <3> QED
      BY <1>3, <3>1, <3>2 DEF AccessTypes
  <2>2. \A u \in Tabs : ReadHeld(beat[u])'
    BY <1>1, <1>9, BeatKept DEF AccessHeld
  <2>3. ASSUME NEW q \in Remotes PROVE LockoutHeld(q)'
    <3>1. LockoutHeld(q) /\ lockouts[q] \in RecordType /\ saved[q] \in RecordType
      BY <1>9 DEF AccessHeld, AccessTypes
    <3>2. /\ fresh' \in [Remotes -> 0..FreeAttempts + 1] /\ fresh[q] <= fresh'[q]
      BY <1>3, <1>7, GateAssumption DEF AccessTypes
    <3>3. Counted(saved[q], q)' /\ (lockouts'[q] = lockouts[q] => Counted(lockouts[q], q)')
      BY <1>1, <3>1, <3>2, CountedMore DEF LockoutHeld, Counted
    <3>4. CASE q = r /\ Recorded(doc, r) /\ lockouts'[q] = failed
      <4>1. Counted(lockouts[r], r) /\ Past(doc)
        BY <1>9, <3>1, <3>4 DEF LockoutHeld, AccessHeld, TabHeld, SignInHeld, doc
      <4>2. /\ failed.epoch <= file'.user.lockE
            /\ SignInEligible(file') /\ failed.epoch = file'.user.lockE => failed.fails <= fresh'[r]
        BY <1>1, <1>2, <3>4, <4>1, FailedCounted DEF failed
      <4>3. Counted(lockouts[q], q)'
        BY <3>4, <4>2 DEF Counted
      <4> QED
        BY <3>3, <4>3 DEF LockoutHeld
    <3>5. CASE lockouts'[q] = NoRecord
      BY <1>1, <3>2, <3>3, <3>5, <1>8, GateAssumption DEF LockoutHeld, Counted, NoRecord, AccessTypes, Docs
    <3>6. CASE lockouts'[q] = lockouts[q]
      BY <3>3, <3>6 DEF LockoutHeld
    <3> QED
      BY <1>2, <1>3, <3>4, <3>5, <3>6 DEF AccessTypes
  <2>4. CacheHeld'
    BY <1>1, <1>9, CacheKept DEF AccessHeld
  <2> QED
    BY <1>1, <1>9, <2>1, <2>2, <2>3, <2>4 DEF AccessHeld
<1> QED
  BY <1>8, <1>9 DEF AccessKept

(* Requests end, begin and move, sessions are dropped: none of it changes what a
   session carries. *)
LEMMA DroppedKeeps ==
  ASSUME AccessTypes, NEW t \in Tabs, sess' = [sess EXCEPT ![t].live = FALSE] \/ sess' = sess
  PROVE  sess' \in [Tabs -> SessionType] /\ \A u \in Tabs : SameSession(u)
<1> DEFINE s == [sess[t] EXCEPT !.live = FALSE]
<1>1. sess[t] \in SessionType
  BY DEF AccessTypes
<1>2. /\ s \in SessionType /\ s.epoch = sess[t].epoch /\ s.cred = sess[t].cred
      /\ s.pwdVersion = sess[t].pwdVersion /\ s.dead = sess[t].dead
  BY <1>1 DEF SessionType
<1>3. sess' = [sess EXCEPT ![t] = s] \/ sess' = sess
  BY DEF AccessTypes
<1> HIDE DEF s
<1> QED
  BY <1>2, <1>3 DEF AccessTypes, SameSession

(* A step on one tab's request alone. *)
LEMMA TabStep ==
  ASSUME AccessTypes, NEW t \in Tabs, op' \in [Tabs -> OpType], \A u \in Tabs : u # t => op'[u] = op[u],
         AccessHeld => OpMild(t),
         sess' = [sess EXCEPT ![t].live = FALSE] \/ sess' = sess,
         UNCHANGED <<file, cache, beat, lockouts, saved, recreated, fresh, proxied>>
  PROVE  AccessKept
<1>1. sess' \in [Tabs -> SessionType] /\ \A u \in Tabs : SameSession(u)
  BY DroppedKeeps
<1>2. AccessTypes'
  BY <1>1 DEF AccessTypes
<1>3. ASSUME AccessHeld PROVE AccessHeld'
  <2>1. \A u \in Tabs : OpMild(u)
    BY <1>3 DEF OpMild
  <2>2. \A r \in Remotes : LockoutHeld(r)'
    BY <1>3, LockoutKept DEF AccessHeld
  <2> QED
    BY <1>1, <1>3, <2>1, <2>2, MildStep
<1> QED
  BY <1>2, <1>3 DEF AccessKept

LEMMA ShedWaiterKeeps ==
  ASSUME AccessTypes, NEW t \in Tabs, ShedWaiter(t), proxied' = proxied
  PROVE  AccessKept
<1>1. UNCHANGED <<file, cache, sess, beat, lockouts, saved, recreated, fresh>>
  BY DEF ShedWaiter, ghosts
<1>2. op' \in [Tabs -> OpType] /\ op'[t] = NoOp /\ \A u \in Tabs : u # t => op'[u] = op[u]
  BY OpSet, FreshTyped DEF ShedWaiter
<1> QED
  BY <1>1, <1>2, TabStep DEF OpMild, Blank, NoOp

LEMMA ServeRequestKeeps ==
  ASSUME AccessTypes, NEW t \in Tabs, ServeRequest(t), proxied' = proxied
  PROVE  AccessKept
<1>1. UNCHANGED <<file, cache, sess, beat, lockouts, saved, recreated, fresh>>
  BY DEF ServeRequest, ghosts
<1>2. op' \in [Tabs -> OpType] /\ op'[t] = NoOp /\ \A u \in Tabs : u # t => op'[u] = op[u]
  BY OpSet, FreshTyped DEF ServeRequest
<1> QED
  BY <1>1, <1>2, TabStep DEF OpMild, Blank, NoOp

(* The gate of a request: one that had to be refused is, since what it read
   refuses its session. *)
LEMMA ValidateRequestKeeps ==
  ASSUME AccessTypes, NEW t \in Tabs, ValidateRequest(t), proxied' = proxied
  PROVE  AccessKept
<1> DEFINE leaves == [op[t] EXCEPT !.kind = "leave", !.pc = "stat"]
           served == [op[t] EXCEPT !.pc = "served"]
<1>0. op[t] \in OpType
  BY DEF AccessTypes
<1>1. UNCHANGED <<file, cache, beat, lockouts, saved, recreated, fresh>> /\ op[t].pc = "judge"
  BY DEF ValidateRequest, ghosts
<1>2. sess' = [sess EXCEPT ![t].live = FALSE] \/ sess' = sess
  BY DEF ValidateRequest, Dropped
<1>3. /\ leaves \in OpType /\ leaves.kind = "leave" /\ leaves.pc = "stat" /\ leaves.doc = op[t].doc
      /\ leaves.must = op[t].must
  BY <1>0 DEF OpType, OpKinds, Places
<1>4. served \in OpType /\ MovedTo(op[t], served, "served")
  BY <1>0, Moves DEF Places
<1>5. \/ op' = [op EXCEPT ![t] = NoOp] \/ op' = [op EXCEPT ![t] = leaves]
      \/ op' = [op EXCEPT ![t] = served] /\ NotRevoked(sess[t], op[t].doc)
  BY DEF ValidateRequest, AccessTypes
<1> HIDE DEF leaves, served
<1>6. op' \in [Tabs -> OpType] /\ \A u \in Tabs : u # t => op'[u] = op[u]
  BY <1>3, <1>4, <1>5, OpSet, FreshTyped
<1>7. op'[t] = NoOp \/ op'[t] = leaves \/ (op'[t] = served /\ NotRevoked(sess[t], op[t].doc))
  BY <1>3, <1>4, <1>5, OpSet, FreshTyped
<1>8. ASSUME AccessHeld PROVE OpMild(t)
  <2>1. RequestHeld(t)
    BY <1>8 DEF AccessHeld, TabHeld
  <2>2. NotRevoked(sess[t], op[t].doc) => ~op[t].must
    BY <1>1, <2>1 DEF RequestHeld
  <2>3. Blank(t) \/ op'[t] # NoOp
    BY DEF Blank, NoOp
  <2> QED
    BY <1>3, <1>4, <1>7, <2>2, <2>3 DEF OpMild
<1> QED
  BY <1>1, <1>2, <1>6, <1>8, TabStep

LEMMA BrowserKeeps ==
  ASSUME AccessTypes, NEW t \in Tabs, Browser(t), proxied' = proxied
  PROVE  AccessKept
<1>1. ASSUME BeginSignIn(t) PROVE AccessKept
  <2> DEFINE o == [NoOp EXCEPT !.kind = "signIn", !.pc = "stat"]
  <2>1. UNCHANGED <<file, cache, sess, beat, lockouts, saved, recreated, fresh>>
    BY <1>1 DEF BeginSignIn, ghosts
  <2>2. o \in OpType /\ o.pc = "stat" /\ o.doc = EmptyFile /\ ~o.dead /\ ~o.must
    BY FreshTyped DEF NoOp, OpType, OpKinds, Places
  <2>3. op' = [op EXCEPT ![t] = o]
    BY <1>1 DEF BeginSignIn
  <2> HIDE DEF o
  <2> QED
    BY <2>1, <2>2, <2>3, OpSet, TabStep DEF OpMild, Blank
<1>2. ASSUME BeginSetup(t) PROVE AccessKept
  <2>1. UNCHANGED <<file, cache, sess, beat, lockouts, saved, recreated, fresh>>
    BY <1>2 DEF BeginSetup, ghosts
  <2>2. PICK link \in {0} \cup file.user.links, clean \in BOOLEAN :
          Acquire(t, [NoOp EXCEPT !.kind = "setup", !.link = link, !.clean = clean])
    BY <1>2 DEF BeginSetup
  <2> DEFINE o == [NoOp EXCEPT !.kind = "setup", !.link = link, !.clean = clean]
  <2>3. link \in Nat
    BY DEF AccessTypes, Docs
  <2>4. o \in OpType /\ o.doc = EmptyFile /\ ~o.dead /\ ~o.must
    BY <2>3, FreshTyped DEF NoOp, OpType, OpKinds
  <2>5. Acquire(t, o)
    BY <2>2
  <2> HIDE DEF o
  <2>6. /\ op' \in [Tabs -> OpType] /\ \A u \in Tabs : u # t => op'[u] = op[u]
        /\ op'[t] = NoOp \/ MovedTo(o, op'[t], "hash") \/ MovedTo(o, op'[t], "wait")
    BY <2>4, <2>5, AcquireDoes
  <2>7. Blank(t)
    BY <2>4, <2>6 DEF Blank, NoOp, MovedTo
  <2> QED
    BY <2>1, <2>6, <2>7, TabStep DEF OpMild
<1>3. ASSUME NEW kind \in {"read", "events", "signOut"}, BeginRequest(t, kind) PROVE AccessKept
  <2> DEFINE o == [NoOp EXCEPT !.kind = kind, !.pc = "stat", !.must = sess[t].dead]
  <2>1. UNCHANGED <<file, cache, sess, beat, lockouts, saved, recreated, fresh>>
    BY <1>3 DEF BeginRequest, ghosts
  <2>2. sess[t].dead \in BOOLEAN
    BY DEF AccessTypes, SessionType
  <2>3. o \in OpType /\ o.pc = "stat" /\ o.doc = EmptyFile /\ ~o.dead /\ (o.must => sess[t].dead)
    BY <2>2, FreshTyped DEF NoOp, OpType, OpKinds, Places
  <2>4. op' = [op EXCEPT ![t] = o]
    BY <1>3 DEF BeginRequest
  <2> HIDE DEF o
  <2> QED
    BY <2>1, <2>3, <2>4, OpSet, TabStep DEF OpMild, Blank
<1> QED
  BY <1>1, <1>2, <1>3 DEF Browser

LEMMA BeatJudgesKeeps ==
  ASSUME AccessTypes, NEW t \in Tabs, BeatJudges(t), proxied' = proxied
  PROVE  AccessKept
<1>1. UNCHANGED <<file, cache, op, lockouts, saved, recreated, fresh>> /\ beat' = [beat EXCEPT ![t] = Unread]
  BY DEF BeatJudges, ghosts
<1>2. sess' \in [Tabs -> SessionType] /\ \A u \in Tabs : SameSession(u)
  BY DroppedKeeps DEF BeatJudges, Dropped
<1>3. AccessTypes'
  BY <1>1, <1>2, FreshTyped DEF AccessTypes
<1>4. ASSUME AccessHeld PROVE AccessHeld'
  <2>1. \A u \in Tabs : TabHeld(u)'
    BY <1>1, <1>2, <1>4, TabKept DEF AccessHeld, OpMild
  <2>2. \A u \in Tabs : beat'[u] = beat[u] \/ beat'[u] = Unread
    BY <1>1 DEF AccessTypes
  <2>3. \A u \in Tabs : ReadHeld(beat[u])'
    BY <1>1, <1>4, <2>2, BeatKept DEF AccessHeld
  <2>4. CacheHeld' /\ \A r \in Remotes : LockoutHeld(r)'
    BY <1>1, <1>4, CacheKept, LockoutKept DEF AccessHeld
  <2> QED
    BY <1>1, <1>4, <2>1, <2>3, <2>4 DEF AccessHeld
<1> QED
  BY <1>3, <1>4 DEF AccessKept

LEMMA CloseStreamKeeps ==
  ASSUME AccessTypes, NEW t \in Tabs, CloseStream(t), proxied' = proxied
  PROVE  AccessKept
<1>1. UNCHANGED <<file, cache, op, sess, beat, lockouts, saved, recreated, fresh>>
  BY DEF CloseStream, ghosts
<1>2. op' \in [Tabs -> OpType]
  BY <1>1 DEF AccessTypes
<1> QED
  BY <1>1, <1>2, TabStep DEF OpMild

LEMMA LockoutFadesKeeps ==
  ASSUME AccessTypes, NEW r \in Remotes, LockoutFades(r), proxied' = proxied
  PROVE  AccessKept
<1>1. /\ UNCHANGED <<file, cache, op, sess, beat, saved, recreated, fresh>>
      /\ lockouts' = [lockouts EXCEPT ![r] = NoRecord]
  BY DEF LockoutFades, ghosts
<1>2. AccessTypes'
  BY <1>1, FreshTyped DEF AccessTypes
<1>3. ASSUME AccessHeld PROVE AccessHeld'
  <2>1. ASSUME NEW q \in Remotes PROVE LockoutHeld(q)'
    <3>1. lockouts'[q] = lockouts[q] \/ lockouts'[q] = NoRecord
      BY <1>1 DEF AccessTypes
    <3> QED
      BY <1>1, <1>3, <3>1, NoRecordCounted DEF AccessHeld, LockoutHeld, Counted, SignInEligible, LiveUser
  <2> QED
    BY <1>1, <1>3, <2>1, MildStep DEF SameSession, OpMild
<1> QED
  BY <1>2, <1>3 DEF AccessKept

(* A sweep and a restart: a session that is over carries what it carried, and the
   saved lockouts are counted as the table is. *)
LEMMA OverKeeps ==
  ASSUME AccessTypes, NEW over \in [Tabs -> BOOLEAN], sess' = [t \in Tabs |-> [sess[t] EXCEPT !.live = over[t]]]
  PROVE  sess' \in [Tabs -> SessionType] /\ \A t \in Tabs : SameSession(t)
<1>1. ASSUME NEW t \in Tabs
      PROVE  /\ [sess[t] EXCEPT !.live = over[t]] \in SessionType
             /\ sess'[t] = [sess[t] EXCEPT !.live = over[t]] /\ sess[t] \in SessionType
  BY DEF AccessTypes, SessionType
<1>2. ASSUME NEW t \in Tabs PROVE SameSession(t)
  BY <1>1 DEF SameSession, SessionType
<1> QED
  BY <1>1, <1>2

LEMMA SweepKeeps ==
  ASSUME AccessTypes, Sweep, proxied' = proxied
  PROVE  AccessKept
<1>1. UNCHANGED <<file, cache, op, beat, lockouts, recreated, fresh>> /\ saved' = lockouts
  BY DEF Sweep, ghosts
<1>2. PICK old \in SUBSET Tabs : sess' = [t \in Tabs |-> [sess[t] EXCEPT !.live = @ /\ t \notin old]]
  BY DEF Sweep
<1> DEFINE over == [t \in Tabs |-> sess[t].live /\ t \notin old]
<1>3. over \in [Tabs -> BOOLEAN]
  OBVIOUS
<1>4. sess' = [t \in Tabs |-> [sess[t] EXCEPT !.live = over[t]]]
  BY <1>2
<1> HIDE DEF over
<1>5. sess' \in [Tabs -> SessionType] /\ \A t \in Tabs : SameSession(t)
  BY <1>3, <1>4, OverKeeps
<1>6. AccessTypes'
  BY <1>1, <1>5 DEF AccessTypes
<1>7. ASSUME AccessHeld PROVE AccessHeld'
  <2>1. \A r \in Remotes : LockoutHeld(r)'
    BY <1>1, <1>7 DEF AccessHeld, LockoutHeld, Counted, SignInEligible, LiveUser
  <2> QED
    BY <1>1, <1>5, <1>7, <2>1, MildStep DEF OpMild
<1> QED
  BY <1>6, <1>7 DEF AccessKept

LEMMA RestartKeeps ==
  ASSUME AccessTypes, Restart, proxied' = proxied
  PROVE  AccessKept
<1>1. /\ UNCHANGED <<file, saved, recreated, fresh>> /\ lockouts' = saved /\ cache' = {}
      /\ op' = [t \in Tabs |-> NoOp] /\ beat' = [t \in Tabs |-> Unread]
  BY DEF Restart, ghosts
<1> DEFINE over == [t \in Tabs |-> FALSE]
<1>2. over \in [Tabs -> BOOLEAN] /\ sess' = [t \in Tabs |-> [sess[t] EXCEPT !.live = over[t]]]
  BY DEF Restart
<1> HIDE DEF over
<1>3. sess' \in [Tabs -> SessionType] /\ \A t \in Tabs : SameSession(t)
  BY <1>2, OverKeeps
<1>4. AccessTypes'
  BY <1>1, <1>3, FreshTyped DEF AccessTypes
<1>5. ASSUME AccessHeld PROVE AccessHeld'
  <2>1. \A r \in Remotes : LockoutHeld(r)'
    BY <1>1, <1>5 DEF AccessHeld, LockoutHeld, Counted, SignInEligible, LiveUser
  <2>2. \A t \in Tabs : OpMild(t)
    BY <1>1 DEF OpMild, Blank, NoOp
  <2>3. \A t \in Tabs : TabHeld(t)'
    BY <1>1, <1>3, <1>5, <2>2, TabKept DEF AccessHeld
  <2>4. \A t \in Tabs : ReadHeld(beat[t])'
    BY <1>1, <1>5, BeatKept DEF AccessHeld
  <2>5. CacheHeld'
    BY <1>1, <1>5, CacheKept DEF AccessHeld
  <2> QED
    BY <1>1, <1>5, <2>1, <2>3, <2>4, <2>5 DEF AccessHeld
<1> QED
  BY <1>4, <1>5 DEF AccessKept

-----------------------------------------------------------------------------
(* Writes of users.json.                                                    *)

(* The file only advances ... *)
Advances ==
  /\ file' \in Docs /\ file'.ver = file.ver + 1
  /\ file.epoch <= file'.epoch /\ file.user.cred <= file'.user.cred
  /\ file.user.pwdVersion <= file'.user.pwdVersion /\ file.user.lockE <= file'.user.lockE
  /\ file'.user.here /\ file'.user.hash
  /\ (file.user.gone => file'.user.gone) /\ (file.user.off => file'.user.off)

(* ... and a write that takes access away moves an epoch past every session. *)
Cuts == \/ file'.epoch > file.epoch \/ file'.user.cred > file.user.cred
        \/ file'.user.pwdVersion > file.user.pwdVersion

SessionMarked(t) ==
  /\ sess'[t].epoch = sess[t].epoch /\ sess'[t].cred = sess[t].cred
  /\ sess'[t].pwdVersion = sess[t].pwdVersion
  /\ sess[t].dead => sess'[t].dead
  /\ sess'[t].dead => sess[t].dead \/ Cuts

OpMarked(t) ==
  \/ Blank(t)
  \/ /\ op'[t].kind = op[t].kind /\ op'[t].doc = op[t].doc /\ op'[t].must = op[t].must
     /\ op'[t].pc = "hash" \/ (op'[t].pc = op[t].pc /\ op'[t].sig = op[t].sig)
     /\ op'[t].dead => op[t].dead \/ (Cuts /\ op[t].pc \notin {"stat", "load"})

Carries(s) == s.epoch \in Nat /\ s.cred \in Nat /\ s.pwdVersion \in Nat

(* What the file refuses it goes on refusing, and a cut refuses all it has let in. *)
LEMMA RefusedForGood ==
  ASSUME file \in Docs, file.user.here, Advances, NEW s, Carries(s)
  PROVE  /\ ~NotRevoked(s, file) => ~NotRevoked(s, file')
         /\ Cuts /\ s.epoch <= file.epoch /\ s.cred <= file.user.cred /\ s.pwdVersion <= file.user.pwdVersion
              => ~NotRevoked(s, file')
<1>1. /\ file.epoch \in Nat /\ file.user.cred \in Nat /\ file.user.pwdVersion \in Nat
      /\ file'.epoch \in Nat /\ file'.user.cred \in Nat /\ file'.user.pwdVersion \in Nat
      /\ file.user.gone \in BOOLEAN /\ file.user.off \in BOOLEAN
  BY DEF Docs, Advances
<1>2. NotRevoked(s, file') => /\ file'.epoch <= s.epoch /\ file'.user.cred <= s.cred
                              /\ file'.user.pwdVersion <= s.pwdVersion
                              /\ ~file'.user.gone /\ ~file'.user.off
  BY DEF NotRevoked, LiveUser
<1>3. Cuts /\ s.epoch <= file.epoch /\ s.cred <= file.user.cred /\ s.pwdVersion <= file.user.pwdVersion
        => ~NotRevoked(s, file')
  BY <1>1, <1>2 DEF Carries, Cuts, Advances
<1>4. NotRevoked(s, file') /\ file.user.here => NotRevoked(s, file)
  BY <1>1, <1>2 DEF Carries, Advances, NotRevoked, LiveUser
<1> QED
  BY <1>3, <1>4 DEF Advances

LEMMA ReadOutlived ==
  ASSUME NEW r, r.doc \in Docs, file \in Docs, r.sig \in Nat, ReadHeld(r), Advances
  PROVE  /\ r.pc \in {"load", "keep"} => r.sig <= file'.ver
         /\ r.pc = "keep" => r.sig <= r.doc.ver /\ r.doc.ver <= file'.ver /\ r.doc.ver # file'.ver
BY DEF ReadHeld, Faithful, Advances, Docs

LEMMA TabWritten ==
  ASSUME AccessTypes, file.user.here, NEW t \in Tabs, TabHeld(t), Advances, SessionMarked(t), OpMarked(t)
  PROVE  TabHeld(t)'
<1>0. /\ file \in Docs /\ op[t] \in OpType /\ op[t].doc \in Docs /\ op[t].sig \in Nat /\ sess[t] \in SessionType
      /\ Carries(sess[t]) /\ Carries(Issued(op[t].doc, TRUE))
  BY DEF AccessTypes, OpType, SessionType, Docs, Carries, Issued
<1>1. /\ file.epoch \in Nat /\ file.user.cred \in Nat /\ file.user.pwdVersion \in Nat /\ file.user.lockE \in Nat
      /\ file'.epoch \in Nat /\ file'.user.cred \in Nat /\ file'.user.pwdVersion \in Nat
      /\ file'.user.lockE \in Nat
  BY <1>0 DEF Docs, Advances
<1>2. ~NotRevoked(sess[t], file) \/ Cuts => ~NotRevoked(sess[t], file')
  BY <1>0, RefusedForGood DEF TabHeld, SessionHeld
<1>3. \A d : NotRevoked(sess'[t], d) = NotRevoked(sess[t], d)
  BY DEF SessionMarked, NotRevoked
<1>4. SessionHeld(t)'
  <2>1. sess'[t].dead => ~NotRevoked(sess'[t], file')
    BY <1>2, <1>3 DEF SessionMarked, TabHeld, SessionHeld
  <2>2. /\ sess'[t].epoch <= file'.epoch /\ sess'[t].cred <= file'.user.cred
        /\ sess'[t].pwdVersion <= file'.user.pwdVersion
    BY <1>0, <1>1 DEF SessionMarked, TabHeld, SessionHeld, Advances, Carries
  <2> QED
    BY <2>1, <2>2 DEF SessionHeld, NotRevoked, LiveUser
<1>5. ReadHeld(op[t])'
  BY <1>0, ReadOutlived DEF OpMarked, Blank, TabHeld, ReadHeld, Faithful
<1>6. SignInHeld(t)'
  <2>1. Past(op[t].doc) /\ Past(EmptyFile)
    BY EmptyPast DEF TabHeld, SignInHeld
  <2>2. Past(op[t].doc)'
    <3>1. CASE op'[t].doc = op[t].doc
      BY <1>0, <1>1, <2>1, <3>1 DEF Past, Advances, Docs
    <3>2. CASE op'[t].doc = EmptyFile
      BY <1>1, <2>1, <3>2 DEF Past, Advances, EmptyFile, NoUser
    <3> QED
      BY <3>1, <3>2 DEF OpMarked, Blank
  <2>3. op'[t].kind = "signIn" /\ op'[t].pc \in {"stat", "load"} => ~op'[t].dead
    BY DEF TabHeld, SignInHeld, OpMarked, Blank
  <2>4. ASSUME op'[t].kind = "signIn", op'[t].dead PROVE ~NotRevoked(Issued(op[t].doc, TRUE), file')
    <3>1. op[t].kind = "signIn" /\ op'[t].doc = op[t].doc /\ (op[t].dead \/ Cuts)
      BY <2>4 DEF OpMarked, Blank
    <3>2. ~NotRevoked(Issued(op[t].doc, TRUE), file) \/ Cuts
      BY <3>1 DEF TabHeld, SignInHeld
    <3> QED
      BY <1>0, <2>1, <3>2, RefusedForGood DEF Past, Issued
  <2>5. op'[t].kind = "signIn" /\ op'[t].dead => op'[t].doc = op[t].doc
    BY DEF OpMarked, Blank
  <2> QED
    BY <2>2, <2>3, <2>4, <2>5 DEF SignInHeld, NotRevoked, Issued, LiveUser
<1>7. RequestHeld(t)'
  <2>1. SUFFICES ASSUME op'[t].must
                 PROVE  /\ sess'[t].dead /\ op'[t].pc # "served"
                        /\ op'[t].pc \in {"keep", "judge"} => ~NotRevoked(sess'[t], op'[t].doc)
    BY DEF RequestHeld, NotRevoked, LiveUser
  <2>2. CASE Blank(t)
    BY <2>1, <2>2 DEF Blank, SessionMarked
  <2>3. CASE ~Blank(t)
    BY <1>3, <2>1, <2>3 DEF TabHeld, RequestHeld, SessionMarked, OpMarked
  <2> QED
    BY <2>2, <2>3
<1> QED
  BY <1>4, <1>5, <1>6, <1>7 DEF TabHeld

LEMMA WriteStep ==
  ASSUME AccessTypes, AccessHeld, Advances, \A t \in Tabs : SessionMarked(t) /\ OpMarked(t),
         UNCHANGED <<cache, beat, lockouts, saved>>,
         fresh' = fresh \/ file'.user.lockE > file.user.lockE
  PROVE  AccessHeld'
<1>0. /\ file \in Docs /\ file.user.lockE \in Nat /\ file'.user.lockE \in Nat
      /\ file.user.gone \in BOOLEAN /\ file.user.off \in BOOLEAN
  BY DEF AccessTypes, Advances, Docs
<1>1. \A t \in Tabs : TabHeld(t)'
  BY TabWritten DEF AccessHeld
<1>2. ASSUME NEW t \in Tabs PROVE ReadHeld(beat[t])'
  <2>1. beat[t].doc \in Docs /\ beat[t].sig \in Nat
    BY DEF AccessTypes, ReadType
  <2>2. ReadHeld(beat[t])
    BY DEF AccessHeld
  <2> QED
    BY <1>0, <2>1, <2>2, ReadOutlived DEF ReadHeld, Faithful
<1>3. CacheHeld'
  <2>1. ASSUME NEW c \in cache PROVE c.sig <= c.doc.ver /\ c.doc.ver <= file'.ver /\ c.doc.ver # file'.ver
    <3>1. c.doc.ver \in Nat /\ file.ver \in Nat
      BY <1>0 DEF AccessTypes, Docs
    <3>2. c.sig <= c.doc.ver /\ c.doc.ver <= file.ver
      BY DEF AccessHeld, CacheHeld, Faithful
    <3> QED
      BY <3>1, <3>2 DEF Advances
  <2> QED
    BY <2>1 DEF AccessHeld, CacheHeld, Faithful
<1>4. SignInEligible(file') => SignInEligible(file)
  BY <1>0 DEF AccessHeld, Advances, SignInEligible, LiveUser
<1>5. ASSUME NEW r \in Remotes, NEW rec \in RecordType, Counted(rec, r)
      PROVE  /\ rec.epoch <= file'.user.lockE
             /\ SignInEligible(file') /\ rec.epoch = file'.user.lockE => rec.fails <= fresh'[r]
  <2>1. rec.epoch \in Nat /\ rec.epoch <= file.user.lockE
    BY <1>5 DEF RecordType, Counted
  <2> QED
    BY <1>0, <1>4, <1>5, <2>1 DEF Counted, Advances
<1>6. ASSUME NEW r \in Remotes PROVE LockoutHeld(r)'
  <2>1. lockouts[r] \in RecordType /\ saved[r] \in RecordType /\ Counted(lockouts[r], r) /\ Counted(saved[r], r)
    BY DEF AccessTypes, AccessHeld, LockoutHeld
  <2> QED
    BY <1>5, <2>1 DEF LockoutHeld, Counted
<1> QED
  BY <1>1, <1>2, <1>3, <1>6 DEF AccessHeld, Advances

(* The marks of a verb. *)
LEMMA RevokingDoes ==
  ASSUME AccessTypes, NEW revokes \in BOOLEAN, Revoking(revokes)
  PROVE  /\ sess' \in [Tabs -> SessionType] /\ op' \in [Tabs -> OpType]
         /\ (revokes => Cuts) => \A t \in Tabs : SessionMarked(t) /\ OpMarked(t)
<1> DEFINE marked(t) == [sess[t] EXCEPT !.dead = @ \/ (revokes /\ sess[t].token)]
           moved(t) == [op[t] EXCEPT !.dead = @ \/ (revokes /\ op[t].pc \notin {"none", "stat", "load"})]
<1>1. ASSUME NEW t \in Tabs
      PROVE  /\ marked(t) \in SessionType /\ marked(t).epoch = sess[t].epoch /\ marked(t).cred = sess[t].cred
             /\ marked(t).pwdVersion = sess[t].pwdVersion
             /\ marked(t).dead = (sess[t].dead \/ (revokes /\ sess[t].token))
  BY DEF AccessTypes, SessionType
<1>2. ASSUME NEW t \in Tabs
      PROVE  /\ moved(t) \in OpType /\ moved(t).kind = op[t].kind /\ moved(t).doc = op[t].doc
             /\ moved(t).must = op[t].must /\ moved(t).pc = op[t].pc /\ moved(t).sig = op[t].sig
             /\ moved(t).dead = (op[t].dead \/ (revokes /\ op[t].pc \notin {"none", "stat", "load"}))
  BY DEF AccessTypes, OpType
<1>3. sess' = [t \in Tabs |-> marked(t)] /\ op' = [t \in Tabs |-> moved(t)]
  BY DEF Revoking
<1> HIDE DEF marked, moved
<1>4. ASSUME NEW t \in Tabs, revokes => Cuts PROVE SessionMarked(t)
  BY <1>1, <1>3, <1>4, Zenon DEF SessionMarked
<1>5. ASSUME NEW t \in Tabs, revokes => Cuts PROVE OpMarked(t)
  BY <1>2, <1>3, <1>5 DEF OpMarked
<1> QED
  BY <1>1, <1>2, <1>3, <1>4, <1>5

LEMMA NewLink ==
  ASSUME AccessTypes
  PROVE  {file.ver + 1} \in SUBSET Nat /\ {} \in SUBSET Nat
<1>1. file.ver \in Nat
  BY DEF AccessTypes, Docs
<1> QED
  BY <1>1

(* A verb: the row or the epoch it writes, and whom it marks. *)
LEMMA WrittenDoes ==
  ASSUME AccessTypes, NEW user \in Users, NEW revokes \in BOOLEAN, Written(user, revokes), proxied' = proxied
  PROVE  /\ UNCHANGED <<cache, beat, lockouts, saved, proxied>> /\ Revoking(revokes)
         /\ file' \in Docs /\ file'.ver = file.ver + 1 /\ file'.epoch = file.epoch /\ file'.user = user
<1>1. file' = [file EXCEPT !.ver = file.ver + 1, !.user = user] /\ file \in Docs
  BY DEF Written, AccessTypes
<1>2. file.ver + 1 \in Nat
  BY <1>1 DEF Docs
<1> DEFINE ver == file.ver + 1
<1> HIDE DEF ver
<1>3. file' = [file EXCEPT !.ver = ver, !.user = user] /\ ver \in Nat
  BY <1>1, <1>2 DEF ver
<1>4. /\ file' \in Docs /\ file'.ver = ver /\ file'.epoch = file.epoch /\ file'.user = user
  BY <1>1, <1>3 DEF Docs, Users
<1> QED
  BY <1>4 DEF Written, ver

LEMMA VerbTypes ==
  ASSUME AccessTypes, file' \in Docs, NEW revokes \in BOOLEAN, Revoking(revokes),
         UNCHANGED <<cache, beat, lockouts, saved, proxied>>,
         fresh' = fresh \/ fresh' = [r \in Remotes |-> 0], recreated' \in BOOLEAN
  PROVE  AccessTypes'
<1>1. sess' \in [Tabs -> SessionType] /\ op' \in [Tabs -> OpType]
  BY RevokingDoes
<1>2. fresh' \in [Remotes -> 0..FreeAttempts + 1]
  BY GateAssumption DEF AccessTypes
<1> QED
  BY <1>1, <1>2 DEF AccessTypes

LEMMA CreateKeeps ==
  ASSUME AccessTypes, Create, proxied' = proxied
  PROVE  AccessTypes' /\ (AccessHeld => recreated')
<1> DEFINE user == [NoUser EXCEPT !.here = TRUE, !.links = {file.ver + 1}]
<1>1. user \in Users
  BY NewLink DEF Users, NoUser
<1>2. Written(user, FALSE) /\ recreated' = (recreated \/ file.user.here) /\ fresh' = fresh
  BY DEF Create
<1> HIDE DEF user
<1>3. /\ UNCHANGED <<cache, beat, lockouts, saved, proxied>> /\ Revoking(FALSE) /\ file' \in Docs
  BY <1>1, <1>2, WrittenDoes
<1>4. recreated' \in BOOLEAN
  BY <1>2 DEF AccessTypes, Docs
<1>5. AccessTypes'
  BY <1>2, <1>3, <1>4, VerbTypes
<1> QED
  BY <1>2, <1>5 DEF AccessHeld

(* disable, remove and reset move the credential epoch of a live row. *)
Revised(user) ==
  /\ user.here = file.user.here /\ user.hash = file.user.hash
  /\ user.pwdVersion = file.user.pwdVersion /\ user.cred = file.user.cred + 1
  /\ (file.user.gone => user.gone) /\ (file.user.off => user.off)

LEMMA RevisedKeeps ==
  ASSUME AccessTypes, NEW user \in Users, Written(user, TRUE), Revised(user), proxied' = proxied,
         \/ user.lockE = file.user.lockE /\ fresh' = fresh
         \/ user.lockE = file.user.lockE + 1 /\ fresh' = [r \in Remotes |-> 0],
         recreated' = recreated
  PROVE  AccessKept
<1>0. /\ file \in Docs /\ file.epoch \in Nat /\ file.user.cred \in Nat /\ file.user.pwdVersion \in Nat
      /\ file.user.lockE \in Nat
  BY DEF AccessTypes, Docs
<1>1. /\ UNCHANGED <<cache, beat, lockouts, saved, proxied>> /\ Revoking(TRUE)
      /\ file' \in Docs /\ file'.ver = file.ver + 1 /\ file'.epoch = file.epoch /\ file'.user = user
  BY WrittenDoes
<1>2. AccessTypes'
  <2>1. fresh' = fresh \/ fresh' = [r \in Remotes |-> 0]
    OBVIOUS
  <2>2. recreated' \in BOOLEAN
    BY DEF AccessTypes
  <2> QED
    BY <1>1, <2>1, <2>2, VerbTypes
<1>3. ASSUME AccessHeld PROVE AccessHeld'
  <2>1. file.user.here /\ file.user.hash
    BY <1>3 DEF AccessHeld
  <2>5. Advances
    <3>1. /\ file.epoch <= file'.epoch /\ file.user.cred <= file'.user.cred
          /\ file.user.pwdVersion <= file'.user.pwdVersion /\ file.user.lockE <= file'.user.lockE
      BY <1>0, <1>1 DEF Revised
    <3>2. /\ file'.user.here /\ file'.user.hash
          /\ (file.user.gone => file'.user.gone) /\ (file.user.off => file'.user.off)
      BY <1>1, <2>1, Zenon DEF Revised
    <3> QED
      BY <1>1, <3>1, <3>2, Zenon DEF Advances
  <2>2. Cuts
    BY <1>0, <1>1 DEF Cuts, Revised
  <2>3. \A t \in Tabs : SessionMarked(t) /\ OpMarked(t)
    BY <1>1, <2>2, RevokingDoes
  <2>4. fresh' = fresh \/ file'.user.lockE > file.user.lockE
    BY <1>0, <1>1
  <2> QED
    BY <1>1, <1>3, <2>3, <2>4, <2>5, WriteStep
<1> QED
  BY <1>2, <1>3 DEF AccessKept

LEMMA VerbKeeps ==
  ASSUME AccessTypes, Disable \/ RemoveUser \/ Reset \/ BumpSessionEpoch, proxied' = proxied
  PROVE  AccessKept /\ recreated' = recreated
<1>0. file \in Docs /\ file.user \in Users /\ file.user.cred \in Nat /\ file.ver + 1 \in Nat /\ file.user.lockE \in Nat
  BY DEF AccessTypes, Docs, Users
<1> DEFINE cred == CredentialBumped(file.user.cred)
           lockE == file.user.lockE + 1
           ver == file.ver + 1
<1>5. /\ cred \in Nat /\ cred = file.user.cred + 1 /\ lockE \in Nat /\ ver \in Nat
      /\ {ver} \in SUBSET Nat /\ {} \in SUBSET Nat
  BY <1>0 DEF CredentialBumped
<1> HIDE DEF cred, lockE, ver
<1>1. ASSUME Disable PROVE AccessKept /\ recreated' = recreated
  <2> DEFINE user == [file.user EXCEPT !.off = TRUE, !.links = {}, !.cred = cred]
  <2>1. user \in Users
    BY <1>0, <1>5 DEF Users
  <2>3. Revised(user) /\ user.lockE = file.user.lockE
    BY <1>0, <1>5 DEF Users, Revised
  <2>2. Written(user, TRUE) /\ UNCHANGED <<recreated, fresh>>
    BY <1>1 DEF Disable, ghosts, cred
  <2> HIDE DEF user
  <2> QED
    BY <2>1, <2>2, <2>3, RevisedKeeps
<1>2. ASSUME RemoveUser PROVE AccessKept /\ recreated' = recreated
  <2> DEFINE user == [file.user EXCEPT !.gone = TRUE, !.links = {}, !.cred = cred]
  <2>1. user \in Users
    BY <1>0, <1>5 DEF Users
  <2>3. Revised(user) /\ user.lockE = file.user.lockE
    BY <1>0, <1>5 DEF Users, Revised
  <2>2. Written(user, TRUE) /\ UNCHANGED <<recreated, fresh>>
    BY <1>2 DEF RemoveUser, ghosts, cred
  <2> HIDE DEF user
  <2> QED
    BY <2>1, <2>2, <2>3, RevisedKeeps
<1>3. ASSUME Reset PROVE AccessKept /\ recreated' = recreated
  <2> DEFINE user == [file.user EXCEPT !.links = {ver}, !.lockE = lockE, !.cred = cred]
  <2>1. user \in Users
    BY <1>0, <1>5 DEF Users
  <2>3. Revised(user) /\ user.lockE = lockE
    BY <1>0, <1>5 DEF Users, Revised
  <2>2. Written(user, TRUE) /\ recreated' = recreated /\ fresh' = [r \in Remotes |-> 0]
    BY <1>3 DEF Reset, cred, lockE, ver
  <2> HIDE DEF user
  <2>4. user.lockE = file.user.lockE + 1
    BY <2>3 DEF lockE
  <2> QED
    BY <2>1, <2>2, <2>3, <2>4, RevisedKeeps
<1>4. ASSUME BumpSessionEpoch PROVE AccessKept /\ recreated' = recreated
  <2>1. /\ UNCHANGED <<cache, beat, lockouts, saved, proxied, recreated, fresh>> /\ Revoking(TRUE)
        /\ file' = [file EXCEPT !.ver = @ + 1, !.epoch = @ + 1]
    BY <1>4 DEF BumpSessionEpoch, ghosts
  <2> DEFINE epoch == file.epoch + 1
  <2>5. file.epoch \in Nat /\ epoch \in Nat
    BY <1>0 DEF Docs
  <2>6. file' = [file EXCEPT !.ver = ver, !.epoch = epoch]
    BY <2>1 DEF ver
  <2> HIDE DEF epoch
  <2>7. file' \in Docs /\ file'.ver = ver /\ file'.epoch = epoch /\ file'.user = file.user
    BY <1>0, <1>5, <2>5, <2>6 DEF Docs, Users
  <2>2. /\ file' \in Docs /\ file'.ver = file.ver + 1 /\ file'.epoch = file.epoch + 1 /\ file'.user = file.user
        /\ file.epoch \in Nat
    BY <2>5, <2>7 DEF ver, epoch
  <2>3. AccessTypes'
    <3>1. recreated' \in BOOLEAN
      BY <2>1 DEF AccessTypes
    <3> QED
      BY <2>1, <2>2, <3>1, VerbTypes
  <2>4. ASSUME AccessHeld PROVE AccessHeld'
    <3>1. Cuts
      BY <2>2 DEF Cuts
    <3>2. Advances
      BY <1>0, <2>2, <2>4 DEF Advances, AccessHeld, Users
    <3>3. \A t \in Tabs : SessionMarked(t) /\ OpMarked(t)
      BY <2>1, <3>1, RevokingDoes
    <3> QED
      BY <2>1, <2>4, <3>2, <3>3, WriteStep
  <2> QED
    BY <2>1, <2>3, <2>4 DEF AccessKept
<1> QED
  BY <1>1, <1>2, <1>3, <1>4

(* A followed setup link gives the account a password and consumes the link. *)
LEMMA SetupWrites ==
  ASSUME AccessTypes,
         file' = [file EXCEPT !.ver = @ + 1, !.user = [file.user EXCEPT !.hash = TRUE, !.pwdVersion = @ + 1, !.links = {}]]
  PROVE  file' \in Docs /\ (file.user.here => Advances) /\ Cuts
<1>0. /\ file \in Docs /\ file.user \in Users /\ file.ver \in Nat /\ file.epoch \in Nat
      /\ file.user.cred \in Nat /\ file.user.pwdVersion \in Nat /\ file.user.lockE \in Nat
  BY DEF AccessTypes, Docs, Users
<1> DEFINE ver == file.ver + 1
           pwd == file.user.pwdVersion + 1
           user == [file.user EXCEPT !.hash = TRUE, !.pwdVersion = pwd, !.links = {}]
<1>1. ver \in Nat /\ pwd \in Nat /\ {} \in SUBSET Nat
  BY <1>0
<1>2. file' = [file EXCEPT !.ver = ver, !.user = user]
  BY <1>0
<1> HIDE DEF ver, pwd
<1>3. user \in Users
  BY <1>0, <1>1 DEF Users
<1>4. /\ user.here = file.user.here /\ user.gone = file.user.gone /\ user.off = file.user.off /\ user.hash
      /\ user.pwdVersion = pwd /\ user.cred = file.user.cred /\ user.lockE = file.user.lockE
  BY <1>0 DEF Users
<1> HIDE DEF user
<1>5. file' \in Docs /\ file'.ver = ver /\ file'.epoch = file.epoch /\ file'.user = user
  BY <1>0, <1>1, <1>2, <1>3 DEF Docs, Users
<1>6. Cuts
  BY <1>0, <1>4, <1>5 DEF Cuts, pwd
<1>7. ASSUME file.user.here PROVE Advances
  <2>1. /\ file.epoch <= file'.epoch /\ file.user.cred <= file'.user.cred
        /\ file.user.pwdVersion <= file'.user.pwdVersion /\ file.user.lockE <= file'.user.lockE
    BY <1>0, <1>4, <1>5 DEF pwd
  <2>2. /\ file'.user.here /\ file'.user.hash
        /\ (file.user.gone => file'.user.gone) /\ (file.user.off => file'.user.off)
    BY <1>4, <1>5, <1>7, Zenon
  <2> QED
    BY <1>5, <2>1, <2>2, Zenon DEF Advances, ver
<1> QED
  BY <1>5, <1>6, <1>7

LEMMA FinishSetupKeeps ==
  ASSUME AccessTypes, NEW t \in Tabs, FinishSetup(t), proxied' = proxied
  PROVE  AccessKept
<1>1. UNCHANGED <<cache, beat, lockouts, saved, recreated, fresh>>
  BY DEF FinishSetup, ghosts
<1>2. /\ op' \in [Tabs -> OpType] /\ op'[t] = NoOp
      /\ \A u \in Tabs : u # t => op'[u] = op[u] \/ MovedTo(op[u], op'[u], "hash")
  BY FreshTyped, ReleaseDoes DEF FinishSetup
<1>3. Blank(t)
  BY <1>2 DEF Blank, NoOp
<1>4. CASE UNCHANGED <<file, sess>>
  <2>1. AccessTypes'
    BY <1>1, <1>2, <1>4 DEF AccessTypes
  <2>2. \A u \in Tabs : SameSession(u) /\ OpMild(u)
    BY <1>2, <1>3, <1>4 DEF SameSession, OpMild
  <2>3. ASSUME AccessHeld PROVE AccessHeld'
    BY <1>1, <1>4, <2>2, <2>3, LockoutKept, MildStep DEF AccessHeld
  <2> QED
    BY <2>1, <2>3 DEF AccessKept
<1>5. CASE /\ file' = [file EXCEPT !.ver = @ + 1,
                         !.user = [file.user EXCEPT !.hash = TRUE, !.pwdVersion = @ + 1, !.links = {}]]
           /\ sess' = [u \in Tabs |-> [sess[u] EXCEPT !.dead = @ \/ sess[u].token]]
  <2>1. file' \in Docs /\ (file.user.here => Advances) /\ Cuts
    BY <1>5, SetupWrites
  <2>2. ASSUME NEW u \in Tabs PROVE sess'[u] \in SessionType /\ SessionMarked(u)
    <3> DEFINE s == [sess[u] EXCEPT !.dead = @ \/ sess[u].token]
    <3>1. /\ s \in SessionType /\ s.epoch = sess[u].epoch /\ s.cred = sess[u].cred
          /\ s.pwdVersion = sess[u].pwdVersion /\ s.dead = (sess[u].dead \/ sess[u].token)
      BY DEF AccessTypes, SessionType
    <3>2. sess'[u] = s
      BY <1>5
    <3> HIDE DEF s
    <3> QED
      BY <2>1, <3>1, <3>2, Zenon DEF SessionMarked
  <2>3. sess' \in [Tabs -> SessionType]
    <3>1. DOMAIN sess' = Tabs /\ sess' = [u \in Tabs |-> sess'[u]]
      BY <1>5
    <3> QED
      BY <2>2, <3>1
  <2>4. AccessTypes'
    BY <1>1, <1>2, <2>1, <2>3 DEF AccessTypes
  <2>5. \A u \in Tabs : OpMarked(u)
    BY <1>2, <1>3 DEF OpMarked, MovedTo
  <2>6. ASSUME AccessHeld PROVE AccessHeld'
    <3>1. Advances
      BY <2>1, <2>6 DEF AccessHeld
    <3> QED
      BY <1>1, <2>2, <2>5, <2>6, <3>1, WriteStep
  <2> QED
    BY <2>4, <2>6 DEF AccessKept
<1> QED
  BY <1>4, <1>5 DEF FinishSetup

-----------------------------------------------------------------------------
(* The invariant, and what it gives. *)

LEMMA AccessInit == Init => AccessInv
<1>1. SUFFICES ASSUME Init PROVE AccessInv
  OBVIOUS
<1>2. AccessTypes
  <2>1. fresh \in [Remotes -> 0..FreeAttempts + 1]
    BY <1>1, GateAssumption DEF Init
  <2> QED
    BY <1>1, <2>1, FreshTyped DEF Init, AccessTypes
<1>3. /\ file.user.here /\ file.user.hash /\ file.epoch = 0 /\ file.user.cred = 0
      /\ file.user.pwdVersion = 1 /\ file.user.lockE = 0
  BY <1>1 DEF Init, Established, EmptyFile, NoUser
<1>4. ASSUME NEW t \in Tabs PROVE TabHeld(t) /\ ReadHeld(beat[t])
  <2>1. op[t] = NoOp /\ sess[t] = NoSession /\ beat[t] = Unread
    BY <1>1 DEF Init
  <2>2. ReadHeld(op[t]) /\ ReadHeld(beat[t]) /\ RequestHeld(t)
    BY <2>1 DEF ReadHeld, RequestHeld, NoOp, Unread
  <2>3. SignInHeld(t)
    BY <1>2, <2>1, EmptyPast DEF SignInHeld, NoOp
  <2>4. SessionHeld(t)
    BY <1>3, <2>1 DEF SessionHeld, NoSession
  <2> QED
    BY <2>2, <2>3, <2>4 DEF TabHeld
<1>5. \A r \in Remotes : LockoutHeld(r)
  <2>1. \A r \in Remotes : lockouts[r] = NoRecord /\ saved[r] = NoRecord
    BY <1>1 DEF Init
  <2> QED
    BY <1>2, <2>1, NoRecordCounted DEF LockoutHeld
<1>6. CacheHeld
  BY <1>1 DEF Init, CacheHeld
<1> QED
  BY <1>2, <1>3, <1>4, <1>5, <1>6 DEF AccessInv, AccessHeld

LEMMA AccessStep == AccessInv /\ [Next]_vars => AccessInv'
<1>1. SUFFICES ASSUME AccessInv, [Next]_vars PROVE AccessInv'
  OBVIOUS
<1>2. AccessTypes /\ recreated \in BOOLEAN
  BY <1>1 DEF AccessInv, AccessTypes
(* All but create leave the ghost of a created-again login alone. *)
<1>3. ASSUME AccessKept, recreated' = recreated PROVE AccessInv'
  BY <1>1, <1>3 DEF AccessInv, AccessKept
<1>4. CASE UNCHANGED vars
  <2>1. UNCHANGED <<proxied, file, cache, sess, op, beat, lockouts, saved, recreated, fresh>>
    BY <1>4 DEF vars
  <2>2. AccessTypes'
    BY <1>2, <2>1 DEF AccessTypes
  <2>3. ASSUME AccessHeld PROVE AccessHeld'
    BY <1>2, <2>1, <2>3, LockoutKept, MildStep DEF AccessHeld, SameSession, OpMild
  <2> QED
    BY <1>3, <2>1, <2>2, <2>3 DEF AccessKept
<1>5. ASSUME Step, proxied' = proxied PROVE AccessInv'
  <2>1. ASSUME Create PROVE AccessInv'
    <3>1. AccessTypes' /\ (AccessHeld => recreated')
      BY <1>2, <1>5, <2>1, CreateKeeps
    <3>2. recreated => recreated'
      BY <2>1 DEF Create
    <3> QED
      BY <1>1, <3>1, <3>2 DEF AccessInv
  <2>2. ASSUME Disable \/ RemoveUser \/ Reset \/ BumpSessionEpoch PROVE AccessInv'
    BY <1>2, <1>3, <1>5, <2>2, VerbKeeps
  <2>3. ASSUME Sweep PROVE AccessInv'
    BY <1>2, <1>3, <1>5, <2>3, SweepKeeps DEF Sweep, ghosts
  <2>4. ASSUME Restart PROVE AccessInv'
    BY <1>2, <1>3, <1>5, <2>4, RestartKeeps DEF Restart, ghosts
  <2>5. ASSUME NEW t \in Tabs, Browser(t) PROVE AccessInv'
    <3>1. recreated' = recreated
      BY <2>5 DEF Browser, BeginSignIn, BeginSetup, BeginRequest, ghosts
    <3> QED
      BY <1>2, <1>3, <1>5, <2>5, <3>1, BrowserKeeps
  <2>6. ASSUME NEW t \in Tabs, Handler(t) PROVE AccessInv'
    <3>1. recreated' = recreated
      BY <2>6 DEF Handler, ReadUsers, JudgeSignIn, FinishSignIn, FinishSetup, ShedWaiter,
                  ValidateRequest, ServeRequest, ghosts
    <3>2. AccessKept
      BY <1>2, <1>5, <2>6, ReadUsersKeeps, JudgeSignInKeeps, FinishSignInKeeps, FinishSetupKeeps,
         ShedWaiterKeeps, ValidateRequestKeeps, ServeRequestKeeps DEF Handler
    <3> QED
      BY <1>3, <3>1, <3>2
  <2>7. ASSUME NEW t \in Tabs, Heartbeat(t) PROVE AccessInv'
    BY <1>2, <1>3, <1>5, <2>7, BeatReadsKeeps, BeatJudgesKeeps DEF Heartbeat, BeatReads, BeatJudges, ghosts
  <2>8. ASSUME NEW t \in Tabs, CloseStream(t) PROVE AccessInv'
    BY <1>2, <1>3, <1>5, <2>8, CloseStreamKeeps DEF CloseStream, ghosts
  <2>9. ASSUME NEW r \in Remotes, LockoutFades(r) PROVE AccessInv'
    BY <1>2, <1>3, <1>5, <2>9, LockoutFadesKeeps DEF LockoutFades, ghosts
  <2> QED
    BY <1>5, <2>1, <2>2, <2>3, <2>4, <2>5, <2>6, <2>7, <2>8, <2>9 DEF Step, Verb
<1> QED
  BY <1>1, <1>4, <1>5 DEF Next

LEMMA AccessIsRevoked == AccessInv => RevokedRefused
BY DEF AccessInv, AccessHeld, TabHeld, RequestHeld, RevokedRefused

LEMMA AccessIsCurrent == AccessInv => LockoutIsCurrent
<1>1. SUFFICES ASSUME AccessInv, ~recreated, NEW t \in Tabs, Locked(t), SignInEligible(file),
                      op[t].doc.user = file.user
               PROVE  fresh[RemoteKeyFor(t)] > FreeAttempts
  BY DEF LockoutIsCurrent
<1> DEFINE r == RemoteKeyFor(t)
           rec == lockouts[r]
<1>2. r \in Remotes /\ FreeAttempts \in Nat
  BY GateAssumption DEF RemoteKeyFor, Remotes
<1>3. rec \in RecordType /\ rec.fails \in Nat /\ rec.epoch \in Nat /\ file.user.lockE \in Nat
  BY <1>1, <1>2 DEF AccessInv, AccessTypes, RecordType, Docs
<1>4. Counted(rec, r) /\ fresh[r] \in Nat
  BY <1>1, <1>2 DEF AccessInv, AccessHeld, LockoutHeld, AccessTypes
<1>5. LockoutEpoch(op[t].doc) = file.user.lockE
  BY <1>1 DEF LockoutEpoch, SignInEligible, LiveUser
<1>6. Current(rec, file.user.lockE).fails > FreeAttempts
  BY <1>1, <1>5 DEF Locked
<1> HIDE DEF r, rec
<1>7. rec.epoch = file.user.lockE /\ rec.fails > FreeAttempts
  BY <1>2, <1>3, <1>4, <1>6 DEF Current, NoRecord, Counted
<1>8. fresh[r] > FreeAttempts
  BY <1>1, <1>2, <1>3, <1>4, <1>7 DEF Counted
<1> QED
  BY <1>8 DEF r

(* sessions.ts: no request that arrived after the account behind its session was
   disabled, removed, reset or given a new password reaches a handler, for any
   number of tabs, of verbs and of restarts. *)
THEOREM RevokedRefusedHolds == Spec => []RevokedRefused
BY AccessInit, AccessStep, AccessIsRevoked, PTL DEF Spec

(* users.ts: what locks a sign-in out was recorded since the last reset, for any
   number of tabs and of restarts that bring saved lockouts back. *)
THEOREM LockoutIsCurrentHolds == Spec => []LockoutIsCurrent
BY AccessInit, AccessStep, AccessIsCurrent, PTL DEF Spec

-----------------------------------------------------------------------------
(***************************************************************************)
(* The audit trail.  A record is lost in one way only: its file is removed *)
(* while the record is in nobody's hands.  So the invariant follows the    *)
(* record from the append to its place, and the file from the read to the  *)
(* removal:                                                                *)
(*                                                                         *)
(*  - a key (file, seq) names one record wherever it is met, because a     *)
(*    file has one writer and seq grows before anything can fail; hence a  *)
(*    record under a drained key is the drained record (KeyHeld);          *)
(*  - an append under way has its file open as it is on the disk, or the *)
(*    file was removed under it and its record is among the swept          *)
(*    (FileHeld);                                                          *)
(*  - a console file that is not the one being written gets no append the  *)
(*    pass did not see: what it holds or is about to hold was read with    *)
(*    it, or was straddling the read (DrainHeld);                          *)
(*  - a terminal's plan takes terminals' files only, and what it counted   *)
(*    is announced before the first of them goes (PlanHeld);               *)
(*  - so what was acknowledged has a place, or went with a file after its  *)
(*    remover had read it (AckHeld).                                       *)
(*                                                                         *)
(* Half a line is counted: each short write tears one file and costs one   *)
(* record, and a torn file that is still written can cost one more.        *)
(***************************************************************************)
RecType    == [file : Nat, seq : Nat, n : Nat]
SpoolType  == [file : FileIds, seq : Nat, bytes : Nat, ready : {"none", "ok", "refused"},
               due : BOOLEAN, rotating : BOOLEAN]
PendType   == [rec : RecType, inode : Nat]
FileType   == [recs : SUBSET RecType, torn : BOOLEAN, idle : BOOLEAN]
ListType   == [file : FileIds, idle : BOOLEAN]
PassType   == [pc : {"idle", "read", "insert", "reclaim"}, queue : Seq(ListType), batch : SUBSET RecType,
               complete : BOOLEAN, current : Nat]
VerbType   == [stage : {"new", "announce", "apply", "verb", "done"}, plan : SUBSET FileIds,
               counted : SUBSET RecType]

WriterTypes == spool \in [Writers -> SpoolType] /\ append \in [Writers -> PendType]
DiskTypes   == DOMAIN disk \subseteq FileIds /\ \A f \in DOMAIN disk : disk[f] \in FileType
PathTypes   == /\ inode \in [FileIds -> Nat] /\ owner \in [FileIds -> Writers \cup {"nobody"}]
               /\ ids \in 0..MaxFiles
SetTypes    == table \subseteq RecType /\ acked \subseteq RecType /\ announced \subseteq RecType
ReaderTypes == drain \in PassType /\ cli \in [Clis -> VerbType]
CountTypes  == serial \in Nat /\ faults \in Nat /\ shorts \in Nat /\ crashes \in Nat
TrailTypes  == WriterTypes /\ DiskTypes /\ PathTypes /\ SetTypes /\ ReaderTypes /\ CountTypes

(* Every record there is, on its way or arrived. *)
Pending == {append[p].rec : p \in {q \in Writers : append[q] # NoAppend}}
CountedRecs == UNION {cli[c].counted : c \in Clis}
Known   == OnDisk \cup table \cup drain.batch \cup acked \cup announced \cup Pending \cup CountedRecs

KeyHeld ==
  /\ \A r, q \in Known : Key(r) = Key(q) => r = q
  /\ \A r \in Known : /\ r.file \in 1..ids
                      /\ \A p \in Writers : spool[p].file = r.file => r.seq <= spool[p].seq

FileHeld ==
  /\ \A p \in Writers : spool[p].file <= ids /\ owner[spool[p].file] = p
  /\ \A f \in DOMAIN disk : f <= ids /\ \A r \in disk[f].recs : r.file = f
  /\ \A p \in Writers : append[p] # NoAppend =>
       LET f == append[p].rec.file
       IN /\ f \in FileIds /\ owner[f] = p /\ f <= ids
          /\ f \in DOMAIN disk => append[p].inode = inode[f]
          /\ f \notin DOMAIN disk => append[p].rec \in swept /\ (owner[f] = "ui" => append[p].rec \in straddling)

(* A file the console has done with, and that the pass or the history holds all
   of what it has or will have. *)
Retired(f) == owner[f] = "ui" /\ f # drain.current
Seen(f) == ReadSpoolFile(f) \subseteq drain.batch \cup straddling /\ Appending(f) \subseteq straddling

DrainHeld ==
  /\ \A i \in 1..Len(drain.queue) :
       /\ drain.queue[i].file <= ids
       /\ drain.queue[i].file # drain.current => drain.queue[i].file # spool["ui"].file
  /\ drain.pc \in {"insert", "reclaim"} =>
       /\ drain.queue # << >>
       /\ Retired(At.file) => Seen(At.file)
  /\ drain.pc = "reclaim" /\ drain.complete => drain.batch \subseteq table

PlanHeld ==
  /\ \A c \in Clis :
       /\ \A f \in cli[c].plan : f <= ids /\ owner[f] \in Clis
       /\ \A r \in cli[c].counted : owner[r.file] \in Clis
       /\ cli[c].stage = "apply" => cli[c].counted \subseteq announced
  /\ \A r \in announced : owner[r.file] \in Clis

AckHeld ==
  \A r \in acked : \/ r \in table \cup OnDisk \cup announced \cup damaged
                   \/ r \in swept /\ (owner[r.file] = "ui" => r \in straddling)

TrailInv == TrailTypes /\ KeyHeld /\ FileHeld /\ DrainHeld /\ PlanHeld /\ AckHeld

(* Half a line in a file that is still written. *)
Live(f)  == \E p \in Writers : spool[p].file = f \/ append[p].rec.file = f
TornLive == {f \in DOMAIN disk : disk[f].torn /\ Live(f)}
DamageHeld == IsFiniteSet(damaged) /\ Cardinality(damaged) + Cardinality(TornLive) <= 2 * shorts

LEMMA WritersAre ==
  /\ "ui" \in Writers /\ "daemon" \in Writers /\ "ui" \notin Clis /\ "ui" \in Servers /\ Clis \subseteq Writers
  /\ \A p \in Writers : p \in Clis \/ p \in Servers
BY ClisAssumption DEF Writers, Servers

LEMMA NothingPends == NoAppend \in PendType /\ NoAppend.rec.file = 0 /\ 0 \notin FileIds
BY DEF NoAppend, NoRec, PendType, RecType, FileIds

(* The parts of the types that the steps read. *)
LEMMA TrailParts ==
  ASSUME TrailTypes
  PROVE  /\ \A p \in Writers : spool[p] \in SpoolType /\ append[p] \in PendType /\ append[p].rec \in RecType
         /\ \A f \in DOMAIN disk : f \in FileIds /\ disk[f].recs \subseteq RecType
         /\ ids \in Nat /\ \A f \in FileIds : inode[f] \in Nat
         /\ \A c \in Clis : cli[c] \in VerbType
         /\ drain \in PassType /\ drain.queue \in Seq(ListType)
         /\ MaxFiles \in Nat
<1>1. \A p \in Writers : spool[p] \in SpoolType /\ append[p] \in PendType
  BY DEF TrailTypes, WriterTypes
<1>2. \A p \in Writers : append[p].rec \in RecType
  BY <1>1 DEF PendType
<1>3. \A f \in DOMAIN disk : f \in FileIds /\ disk[f].recs \subseteq RecType
  BY DEF TrailTypes, DiskTypes, FileType
<1>4. MaxFiles \in Nat
  BY SpoolLimitsAssumption
<1>5. ids \in Nat /\ \A f \in FileIds : inode[f] \in Nat
  BY <1>4 DEF TrailTypes, PathTypes
<1>6. drain \in PassType /\ (\A c \in Clis : cli[c] \in VerbType)
  BY DEF TrailTypes, ReaderTypes
<1>7. drain.queue \in Seq(ListType)
  BY <1>6 DEF PassType
<1> QED
  BY <1>1, <1>2, <1>3, <1>4, <1>5, <1>6, <1>7

LEMMA OnDiskIs == \A r : r \in OnDisk <=> \E f \in DOMAIN disk : r \in disk[f].recs
BY DEF OnDisk

(* What a write leaves in the file it has open. *)
LEMMA LandIs ==
  ASSUME TrailTypes, FileHeld, NEW p \in Writers, append[p] # NoAppend, append[p].rec.file \in DOMAIN disk,
         NEW whole \in BOOLEAN
  PROVE  LET r == append[p].rec  f == append[p].rec.file  d == Landed(p, whole) IN
         /\ f \in DOMAIN disk /\ f \in FileIds /\ owner[f] = p /\ append[p].inode = inode[f]
         /\ DOMAIN d = DOMAIN disk /\ (\A g \in DOMAIN disk \ {f} : d[g] = disk[g])
         /\ d[f] = [recs |-> IF whole /\ ~disk[f].torn THEN disk[f].recs \cup {r} ELSE disk[f].recs,
                    torn |-> ~whole, idle |-> FALSE]
         /\ d[f] \in FileType
<1> DEFINE r == append[p].rec
           f == append[p].rec.file
           d == Landed(p, whole)
           recs == IF whole /\ ~disk[f].torn THEN disk[f].recs \cup {r} ELSE disk[f].recs
           e == [recs |-> recs, torn |-> ~whole, idle |-> FALSE]
<1>1. owner[f] = p /\ f \in DOMAIN disk /\ append[p].inode = inode[f]
  BY DEF FileHeld
<1>2. f \in FileIds /\ r \in RecType /\ disk[f].recs \subseteq RecType
  BY <1>1, TrailParts
<1>3. d = [disk EXCEPT ![f] = e]
  BY <1>1 DEF Landed
<1>4. recs \in SUBSET RecType
  BY <1>2
<1>5. e \in FileType
  <2> HIDE DEF recs
  <2> QED
    BY <1>4 DEF FileType
<1>6. DOMAIN d = DOMAIN disk /\ (\A g \in DOMAIN disk \ {f} : d[g] = disk[g]) /\ d[f] = e
  <2> HIDE DEF e, d
  <2> QED
    BY <1>1, <1>3
<1> QED
  BY <1>1, <1>2, <1>5, <1>6

Landing(p) == disk' \in {disk, Landed(p, TRUE), Landed(p, FALSE)} /\ append' = [append EXCEPT ![p] = NoAppend]

LEMMA LandingIs ==
  ASSUME TrailTypes, FileHeld, NEW p \in Writers, append[p] # NoAppend, append[p].rec.file \in DOMAIN disk, Landing(p)
  PROVE  /\ DOMAIN disk' = DOMAIN disk /\ DiskTypes'
         /\ append' \in [Writers -> PendType] /\ \A q \in Writers : append'[q] \in {append[q], NoAppend}
         /\ append'[p] = NoAppend /\ \A q \in Writers \ {p} : append'[q] = append[q]
         /\ \A g \in DOMAIN disk : disk[g].recs \subseteq disk'[g].recs
         /\ \A g \in DOMAIN disk \ {append[p].rec.file} : disk'[g] = disk[g]
         /\ disk'[append[p].rec.file].recs \subseteq disk[append[p].rec.file].recs \cup {append[p].rec}
         /\ \A g \in FileIds : /\ Appending(g)' \subseteq Appending(g)
                                /\ ReadSpoolFile(g)' \subseteq ReadSpoolFile(g) \cup Appending(g)
         /\ OnDisk \subseteq OnDisk' /\ OnDisk' \subseteq OnDisk \cup {append[p].rec}
<1> DEFINE f == append[p].rec.file
<1>1. f \in DOMAIN disk /\ \A g \in DOMAIN disk : disk[g] \in FileType /\ g \in FileIds
  BY LandIs DEF TrailTypes, DiskTypes
<1>2. ASSUME NEW whole \in BOOLEAN
      PROVE  LET d == Landed(p, whole) IN
             /\ DOMAIN d = DOMAIN disk /\ (\A g \in DOMAIN disk \ {f} : d[g] = disk[g]) /\ d[f] \in FileType
             /\ disk[f].recs \subseteq d[f].recs /\ d[f].recs \subseteq disk[f].recs \cup {append[p].rec}
  <2> DEFINE d == Landed(p, whole)
             recs == IF whole /\ ~disk[f].torn THEN disk[f].recs \cup {append[p].rec} ELSE disk[f].recs
  <2>1. /\ DOMAIN d = DOMAIN disk /\ (\A g \in DOMAIN disk \ {f} : d[g] = disk[g]) /\ d[f] \in FileType
        /\ d[f] = [recs |-> recs, torn |-> ~whole, idle |-> FALSE]
    BY LandIs
  <2>2. disk[f].recs \subseteq recs /\ recs \subseteq disk[f].recs \cup {append[p].rec}
    OBVIOUS
  <2> HIDE DEF recs, d
  <2>3. d[f].recs = recs
    BY <2>1
  <2> USE DEF d
  <2> QED
    BY <2>1, <2>2, <2>3
<1>3. /\ DOMAIN disk' = DOMAIN disk /\ (\A g \in DOMAIN disk \ {f} : disk'[g] = disk[g]) /\ disk'[f] \in FileType
      /\ disk[f].recs \subseteq disk'[f].recs /\ disk'[f].recs \subseteq disk[f].recs \cup {append[p].rec}
  BY <1>1, <1>2 DEF Landing
<1>4. DiskTypes'
  <2>1. \A g \in DOMAIN disk' : disk'[g] \in FileType
    BY <1>1, <1>3
  <2> QED
    BY <2>1, <1>1, <1>3 DEF DiskTypes
<1>5. /\ append' \in [Writers -> PendType] /\ append'[p] = NoAppend
      /\ \A q \in Writers \ {p} : append'[q] = append[q]
  BY NothingPends DEF Landing, TrailTypes, WriterTypes
<1>6. \A g \in FileIds : /\ Appending(g)' \subseteq Appending(g)
                         /\ ReadSpoolFile(g)' \subseteq ReadSpoolFile(g) \cup Appending(g)
  <2>1. \A g \in FileIds : Appending(g)' \subseteq Appending(g)
    BY <1>5, NothingPends DEF Appending
  <2>2. append[p].rec \in Appending(f)
    BY DEF Appending
  <2>3. \A g \in FileIds : ReadSpoolFile(g)' \subseteq ReadSpoolFile(g) \cup Appending(g)
    BY <1>3, <2>2 DEF ReadSpoolFile
  <2> QED
    BY <2>1, <2>3
<1>7. OnDisk \subseteq OnDisk' /\ OnDisk' \subseteq OnDisk \cup {append[p].rec}
  <2>1. \A g \in DOMAIN disk : disk[g].recs \subseteq disk'[g].recs
    BY <1>3
  <2>2. \A g \in DOMAIN disk : disk'[g].recs \subseteq disk[g].recs \cup {append[p].rec}
    BY <1>3
  <2> QED
    BY <1>3, <2>1, <2>2 DEF OnDisk
<1> QED
  BY <1>3, <1>4, <1>5, <1>6, <1>7

-----------------------------------------------------------------------------
(* How a step keeps each part, from what it did to what the part speaks of. *)

LEMMA KeyMoves ==
  ASSUME KeyHeld, Known' \subseteq Known, ids \in Nat, ids' \in Nat, ids' >= ids,
         \A p \in Writers : /\ spool[p].seq \in Nat /\ spool'[p].seq \in Nat /\ spool'[p].file \in Nat
                            /\ \/ spool'[p].file = spool[p].file /\ spool'[p].seq >= spool[p].seq
                               \/ spool'[p].file > ids,
         \A r \in Known : r.seq \in Nat
  PROVE  KeyHeld'
<1>1. \A r, q \in Known' : Key(r) = Key(q) => r = q
  BY DEF KeyHeld
<1>2. ASSUME NEW r \in Known'
      PROVE  r.file \in 1..ids' /\ \A p \in Writers : spool'[p].file = r.file => r.seq <= spool'[p].seq
  <2>1. r \in Known /\ r.file \in 1..ids /\ r.seq \in Nat
    BY <1>2 DEF KeyHeld
  <2>2. r.file \in 1..ids'
    BY <2>1
  <2>3. ASSUME NEW p \in Writers, spool'[p].file = r.file PROVE r.seq <= spool'[p].seq
    <3>1. ~(spool'[p].file > ids)
      BY <2>1, <2>3
    <3>2. spool'[p].file = spool[p].file /\ spool'[p].seq >= spool[p].seq
      BY <3>1
    <3>3. r.seq <= spool[p].seq
      BY <2>1, <2>3, <3>2 DEF KeyHeld
    <3>4. \A a, b, c \in Nat : a <= b /\ c >= b => a <= c
      OBVIOUS
    <3> QED
      BY <2>1, <3>2, <3>3, <3>4
  <2> QED
    BY <2>2, <2>3
<1>3. \A r, q \in Known' : Key(r)' = Key(q)' => r = q
  BY <1>1 DEF Key
<1> QED
  BY <1>2, <1>3 DEF KeyHeld, Key

LEMMA OlderStays == ASSUME NEW a \in Nat, NEW b \in Nat, NEW c \in Nat, a <= b, c >= b PROVE a <= c
OBVIOUS

LEMMA FilesUpTo == \A f \in FileIds : f \in Nat /\ f # 0 /\ \A m \in Nat : f <= m => f \in 1..m
BY SpoolLimitsAssumption DEF FileIds

LEMMA FileMoves ==
  ASSUME FileHeld, ids \in Nat, ids' \in Nat, ids' >= ids,
         \A p \in Writers : \/ spool'[p].file = spool[p].file
                            \/ spool'[p].file = ids' /\ ids' > ids /\ owner'[ids'] = p,
         \A f \in 1..ids : owner'[f] = owner[f],
         \A p \in Writers : spool[p].file \in Nat /\ (spool[p].file # 0),
         \A f \in DOMAIN disk' : f \in DOMAIN disk /\ f \in FileIds /\ \A r \in disk'[f].recs : r.file = f,
         swept \subseteq swept', straddling \subseteq straddling',
         \A p \in Writers : append'[p] # NoAppend =>
           /\ append'[p] = append[p]
           /\ \/ /\ append[p].rec.file \in DOMAIN disk <=> append[p].rec.file \in DOMAIN disk'
                 /\ inode'[append[p].rec.file] = inode[append[p].rec.file]
              \/ /\ append[p].rec.file \notin DOMAIN disk' /\ append[p].rec \in swept'
                 /\ owner[append[p].rec.file] = "ui" => append[p].rec \in straddling'
  PROVE  FileHeld'
<1>1. ASSUME NEW p \in Writers PROVE spool'[p].file <= ids' /\ owner'[spool'[p].file] = p
  <2>1. spool[p].file \in 1..ids /\ owner[spool[p].file] = p
    BY DEF FileHeld
  <2>2. \A a, b, c \in Nat : a <= b /\ c >= b => a <= c
    OBVIOUS
  <2> QED
    BY <2>1, <2>2
<1>2. ASSUME NEW f \in DOMAIN disk' PROVE f <= ids' /\ \A r \in disk'[f].recs : r.file = f
  BY DEF FileHeld, FileIds
<1>3. ASSUME NEW p \in Writers, append'[p] # NoAppend
      PROVE  LET f == append'[p].rec.file
             IN /\ f \in FileIds /\ owner'[f] = p /\ f <= ids'
                /\ f \in DOMAIN disk' => append'[p].inode = inode'[f]
                /\ f \notin DOMAIN disk' => append'[p].rec \in swept' /\ (owner'[f] = "ui" => append'[p].rec \in straddling')
  <2> DEFINE f == append[p].rec.file
  <2>1. append'[p] = append[p] /\ append[p] # NoAppend
    BY <1>3
  <2>2. /\ owner[f] = p /\ f <= ids /\ f \in FileIds
        /\ f \in DOMAIN disk => append[p].inode = inode[f]
        /\ f \notin DOMAIN disk => append[p].rec \in swept /\ (owner[f] = "ui" => append[p].rec \in straddling)
    BY <2>1 DEF FileHeld
  <2>3. f \in 1..ids /\ f <= ids'
    BY <2>2, OlderStays, FilesUpTo
  <2>4. owner'[f] = owner[f]
    BY <2>3
  <2>5. \/ (f \in DOMAIN disk <=> f \in DOMAIN disk') /\ inode'[f] = inode[f]
        \/ f \notin DOMAIN disk' /\ append[p].rec \in swept' /\ (owner[f] = "ui" => append[p].rec \in straddling')
    BY <1>3, <2>1
  <2> QED
    BY <2>1, <2>2, <2>3, <2>4, <2>5
<1>4. NoAppend' = NoAppend
  BY DEF NoAppend, NoRec
<1> QED
  BY <1>1, <1>2, <1>3, <1>4 DEF FileHeld

(* File ids are handed out once, and a file keeps its writer. *)
Forward == ids' \in Nat /\ ids' >= ids /\ \A f \in 1..ids : owner'[f] = owner[f]

(* No append begins but one to o, and what a file holds it held or was about to. *)
Settles(o) ==
  \A f \in FileIds \ {o} : /\ Appending(f)' \subseteq Appending(f)
                           /\ ReadSpoolFile(f)' \subseteq ReadSpoolFile(f) \cup Appending(f)

LEMMA DrainMoves ==
  ASSUME TrailTypes, DrainHeld, drain' = drain, table \subseteq table', Forward,
         spool'["ui"].file = spool["ui"].file \/ spool'["ui"].file > ids,
         NEW o, Settles(o),
         straddling \subseteq straddling',
         drain.pc \in {"insert", "reclaim"} /\ Retired(At.file) => At.file # o
  PROVE  DrainHeld'
<1>1. ids \in Nat /\ drain.queue \in Seq(ListType)
  BY TrailParts
<1>2. ASSUME NEW i \in 1..Len(drain.queue)
      PROVE  /\ drain.queue[i].file <= ids'
             /\ drain.queue[i].file # drain.current => drain.queue[i].file # spool'["ui"].file
             /\ drain.queue[i].file \in 1..ids /\ drain.queue[i].file \in FileIds
  <2>1. drain.queue[i].file \in FileIds
    <3>1. drain.queue[i] \in ListType
      BY <1>1
    <3> QED
      BY <3>1 DEF ListType
  <2>2. drain.queue[i].file \in Nat
    BY <2>1 DEF FileIds
  <2>3. drain.queue[i].file <= ids /\ drain.queue[i].file # drain.current => drain.queue[i].file # spool["ui"].file
    BY DEF DrainHeld
  <2>4. drain.queue[i].file <= ids
    BY DEF DrainHeld
  <2>5. drain.queue[i].file <= ids' /\ drain.queue[i].file \in 1..ids
    BY <1>1, <2>1, <2>2, <2>4, OlderStays DEF Forward, FileIds
  <2>6. spool'["ui"].file > ids => drain.queue[i].file # spool'["ui"].file
    BY <1>1, <2>2, <2>4
  <2> QED
    BY <2>1, <2>3, <2>4, <2>5, <2>6
<1>3. ASSUME drain.pc \in {"insert", "reclaim"}
      PROVE  /\ drain.queue # << >>
             /\ Retired(At.file)' => Seen(At.file)'
  <2>1. drain.queue # << >> /\ At = drain.queue[1] /\ 1 \in 1..Len(drain.queue)
    BY <1>1, <1>3 DEF DrainHeld, At
  <2>2. At.file \in 1..ids /\ At.file \in FileIds
    BY <2>1, <1>2
  <2>3. Retired(At.file)' => Retired(At.file)
    BY <2>2 DEF Retired, Forward, At
  <2>4. ASSUME Retired(At.file) PROVE Seen(At.file)'
    <3>1. Seen(At.file) /\ At.file # o
      BY <1>3, <2>4 DEF DrainHeld
    <3>2. PICK f \in FileIds \ {o} : f = At.file
      BY <2>2, <3>1
    <3>3. At'.file = f
      BY <3>2 DEF At
    <3>4. Appending(f)' \subseteq Appending(f) /\ ReadSpoolFile(f)' \subseteq ReadSpoolFile(f) \cup Appending(f)
      BY DEF Settles
    <3>5. ReadSpoolFile(f) \subseteq drain.batch \cup straddling /\ Appending(f) \subseteq straddling
      BY <3>1, <3>2 DEF Seen
    <3>6. Seen(f)'
      BY <3>4, <3>5 DEF Seen
    <3> QED
      BY <3>3, <3>6 DEF Seen, ReadSpoolFile, Appending
  <2> QED
    BY <2>1, <2>3, <2>4
<1>4. drain.pc = "reclaim" /\ drain.complete => drain.batch \subseteq table'
  BY DEF DrainHeld
<1>5. At' = At
  BY DEF At
<1> QED
  BY <1>2, <1>3, <1>4, <1>5 DEF DrainHeld

LEMMA PlanMoves ==
  ASSUME TrailTypes, KeyHeld, PlanHeld, Forward,
         \A c \in Clis : \/ cli'[c].plan = {} /\ cli'[c].counted = {}
                         \/ cli'[c].plan \subseteq cli[c].plan /\ cli'[c].counted = cli[c].counted,
         \A c \in Clis : cli'[c].stage = "apply" => cli[c].stage = "apply" \/ cli'[c].counted \subseteq announced',
         announced \subseteq announced', announced' \subseteq announced \cup CountedRecs
  PROVE  PlanHeld'
<1>1. ids \in Nat /\ \A c \in Clis : cli[c].plan \subseteq FileIds
  BY TrailParts DEF VerbType
<1>2. ASSUME NEW r \in announced \cup CountedRecs PROVE owner'[r.file] \in Clis
  <2>1. r.file \in 1..ids
    BY DEF KeyHeld, Known
  <2>2. owner[r.file] \in Clis
    BY DEF PlanHeld, CountedRecs
  <2> QED
    BY <2>1, <2>2 DEF Forward
<1>3. ASSUME NEW c \in Clis, NEW f \in cli[c].plan PROVE f <= ids' /\ owner'[f] \in Clis /\ f \in FileIds
  <2>1. f <= ids /\ owner[f] \in Clis /\ f \in FileIds
    BY <1>1 DEF PlanHeld
  <2>2. f \in Nat /\ f \in 1..ids
    BY <2>1, <1>1, FilesUpTo
  <2>3. f <= ids'
    BY <2>1, <2>2, <1>1, OlderStays DEF Forward
  <2> QED
    BY <2>1, <2>2, <2>3 DEF Forward
<1>5. \A c \in Clis : \A r \in cli'[c].counted : r \in CountedRecs
  BY DEF CountedRecs
<1>6. \A c \in Clis : cli'[c].stage = "apply" => cli'[c].counted \subseteq announced'
  BY DEF PlanHeld
<1> QED
  BY <1>2, <1>3, <1>5, <1>6 DEF PlanHeld

LEMMA AckMoves ==
  ASSUME AckHeld, KeyHeld, Forward,
         table \subseteq table', announced \subseteq announced', damaged \subseteq damaged',
         swept \subseteq swept', straddling \subseteq straddling',
         \A r \in acked : r \in OnDisk =>
           \/ r \in OnDisk' \cup table' \cup announced'
           \/ r \in swept' /\ (owner[r.file] = "ui" => r \in straddling'),
         \A r \in acked' : \/ r \in acked \/ r \in OnDisk' \cup damaged'
                           \/ r \in swept' /\ (owner'[r.file] = "ui" => r \in straddling')
  PROVE  AckHeld'
<1>1. \A r \in acked : owner'[r.file] = owner[r.file]
  BY DEF KeyHeld, Known, Forward
<1> QED
  BY <1>1 DEF AckHeld

LEMMA SpoolsAre ==
  ASSUME TrailTypes
  PROVE  \A p \in Writers : /\ spool[p].file \in FileIds /\ spool[p].file \in Nat /\ spool[p].file # 0
                            /\ spool[p].seq \in Nat /\ spool[p].bytes \in Nat
BY TrailParts, FilesUpTo DEF SpoolType

(* The file the pass is at. *)
LEMMA AtIs ==
  ASSUME TrailTypes, drain.queue # << >>
  PROVE  At = drain.queue[1] /\ 1 \in 1..Len(drain.queue) /\ At \in ListType /\ At.file \in FileIds
<1>1. drain.queue \in Seq(ListType)
  BY TrailParts
<1>2. At = drain.queue[1] /\ 1 \in 1..Len(drain.queue)
  BY <1>1 DEF At
<1>3. At \in ListType
  BY <1>1, <1>2
<1> QED
  BY <1>2, <1>3 DEF ListType

LEMMA KnownAre ==
  ASSUME TrailTypes
  PROVE  Known \subseteq RecType /\ \A r \in Known : r.seq \in Nat /\ r.file \in Nat /\ r.n \in Nat
<1>1. OnDisk \subseteq RecType
  BY TrailParts DEF OnDisk
<1>2. drain.batch \subseteq RecType
  BY TrailParts DEF PassType
<1>3. Pending \subseteq RecType
  BY TrailParts DEF Pending
<1>4. CountedRecs \subseteq RecType
  BY TrailParts DEF CountedRecs, VerbType
<1>5. Known \subseteq RecType
  BY <1>1, <1>2, <1>3, <1>4 DEF Known, TrailTypes, SetTypes
<1> QED
  BY <1>5 DEF RecType

LEMMA OpenTypes ==
  ASSUME TrailTypes, NEW p \in Writers, Open(p)
  PROVE  TrailTypes'
<1> DEFINE s == [spool[p] EXCEPT !.ready = "ok", !.seq = @ + 1]
           a == [rec |-> Built(p), inode |-> inode[spool[p].file]]
<1>1. spool[p] \in SpoolType /\ spool[p].file \in FileIds /\ spool[p].file \in Nat /\ spool[p].seq \in Nat
  BY TrailParts, SpoolsAre
<1>2. s \in SpoolType
  <2> DEFINE n == spool[p].seq + 1
  <2>1. n \in Nat
    BY <1>1
  <2>2. s = [spool[p] EXCEPT !.ready = "ok", !.seq = n]
    OBVIOUS
  <2> HIDE DEF n
  <2> QED
    BY <1>1, <2>1, <2>2 DEF SpoolType
<1>3. a \in PendType
  <2>1. spool[p].seq + 1 \in Nat /\ serial + 1 \in Nat
    BY <1>1 DEF TrailTypes, CountTypes
  <2>2. Built(p) \in RecType
    BY <1>1, <2>1 DEF Built, RecType
  <2>3. inode[spool[p].file] \in Nat
    BY <1>1, TrailParts
  <2> QED
    BY <2>2, <2>3 DEF PendType
<1> HIDE DEF s, a
<1>4. WriterTypes'
  BY <1>2, <1>3 DEF Open, TrailTypes, WriterTypes, s, a
<1>5. DiskTypes'
  <2>1. Empty \in FileType
    BY DEF Empty, FileType
  <2>2. /\ DOMAIN disk' = DOMAIN disk \cup {spool[p].file}
        /\ \A g \in DOMAIN disk' : disk'[g] = IF g \in DOMAIN disk THEN disk[g] ELSE Empty
    BY DEF Open, Directory
  <2> QED
    BY <1>1, <2>1, <2>2 DEF TrailTypes, DiskTypes
<1>6. PathTypes' /\ SetTypes' /\ ReaderTypes'
  BY DEF Open, TrailTypes, PathTypes, SetTypes, ReaderTypes, ghostVars, historyVars
<1>7. CountTypes'
  BY DEF Open, TrailTypes, CountTypes
<1> QED
  BY <1>4, <1>5, <1>6, <1>7 DEF TrailTypes

LEMMA OpenKeeps ==
  ASSUME TrailInv, NEW p \in Writers, Open(p)
  PROVE  TrailInv'
<1> DEFINE f == spool[p].file
           r == Built(p)
<1>1. /\ TrailTypes /\ KeyHeld /\ FileHeld /\ DrainHeld /\ PlanHeld /\ AckHeld
      /\ f \in FileIds /\ f \in Nat /\ f # 0 /\ f <= ids /\ owner[f] = p /\ ids \in Nat
      /\ spool[p].seq \in Nat /\ f \in 1..ids
  <2>1. TrailTypes /\ KeyHeld /\ FileHeld /\ DrainHeld /\ PlanHeld /\ AckHeld
    BY DEF TrailInv
  <2>2. f \in FileIds /\ f \in Nat /\ f # 0 /\ spool[p].seq \in Nat /\ ids \in Nat
    BY <2>1, SpoolsAre, TrailParts
  <2>3. f <= ids /\ owner[f] = p
    BY <2>1 DEF FileHeld
  <2>4. f \in 1..ids
    BY <2>2, <2>3, FilesUpTo
  <2> QED
    BY <2>1, <2>2, <2>3, <2>4
<1>2. /\ append[p] = NoAppend
      /\ spool' = [spool EXCEPT ![p] = [spool[p] EXCEPT !.ready = "ok", !.seq = @ + 1]]
      /\ append' = [append EXCEPT ![p] = [rec |-> r, inode |-> inode[f]]]
      /\ disk' = Directory(f) /\ serial' = serial + 1
      /\ UNCHANGED <<inode, owner, ids, table, drain, cli, acked, announced, damaged, swept, straddling>>
  BY DEF Open, ghostVars, historyVars
<1>3. r.file = f /\ r.seq = spool[p].seq + 1
  BY DEF Built
<1>4. /\ \A q \in Writers : spool'[q].file = spool[q].file
      /\ \A q \in Writers \ {p} : spool'[q] = spool[q] /\ append'[q] = append[q]
      /\ spool'[p].seq = spool[p].seq + 1 /\ append'[p] = [rec |-> r, inode |-> inode[f]]
  <2>1. spool[p] \in SpoolType /\ spool \in [Writers -> SpoolType] /\ append \in [Writers -> PendType]
    BY <1>1 DEF TrailTypes, WriterTypes
  <2> DEFINE s == [spool[p] EXCEPT !.ready = "ok", !.seq = @ + 1]
  <2>2. s.file = spool[p].file /\ s.seq = spool[p].seq + 1
    BY <2>1 DEF SpoolType
  <2> HIDE DEF s
  <2>3. spool' = [spool EXCEPT ![p] = s]
    BY <1>2 DEF s
  <2>4. spool'[p] = s /\ \A q \in Writers \ {p} : spool'[q] = spool[q]
    BY <2>1, <2>3
  <2> QED
    BY <1>2, <2>1, <2>2, <2>4
<1>5. /\ DOMAIN disk' = DOMAIN disk \cup {f}
      /\ \A g \in DOMAIN disk : disk'[g] = disk[g]
      /\ f \notin DOMAIN disk => disk'[f] = Empty
      /\ \A g \in FileIds : ReadSpoolFile(g)' = ReadSpoolFile(g)
  <2>1. /\ DOMAIN disk' = DOMAIN disk \cup {f}
        /\ \A g \in DOMAIN disk : disk'[g] = disk[g]
        /\ f \notin DOMAIN disk => disk'[f] = Empty
    BY <1>2 DEF Directory
  <2> QED
    BY <2>1 DEF ReadSpoolFile, Empty
<1>6. OnDisk' = OnDisk
  <2>1. \A x : (\E g \in DOMAIN disk' : x \in disk'[g].recs) <=> (\E g \in DOMAIN disk : x \in disk[g].recs)
    BY <1>5 DEF Empty
  <2> QED
    BY <2>1 DEF OnDisk
<1>7. Known' \subseteq Known \cup {r}
  <2>1. Pending' \subseteq Pending \cup {r}
    BY <1>4 DEF Pending, NoAppend, NoRec
  <2> QED
    BY <1>2, <1>6, <2>1 DEF Known, CountedRecs
<1>8. KeyHeld'
  <2>1. \A q \in Known : /\ q.seq \in Nat /\ q.file \in 1..ids
                         /\ \A w \in Writers : spool[w].file = q.file => q.seq <= spool[w].seq
    BY <1>1, KnownAre DEF KeyHeld
  <2>2. \A q \in Known : Key(q) # Key(r)
    <3>1. \A m, n \in Nat : m <= n => m # n + 1
      OBVIOUS
    <3>2. \A q \in Known : q.file = f => q.seq # r.seq
      BY <1>1, <1>3, <2>1, <3>1
    <3> QED
      BY <1>3, <3>2 DEF Key
  <2>3. \A a, b \in Known' : Key(a) = Key(b) => a = b
    BY <1>1, <1>7, <2>2 DEF KeyHeld
  <2>4. ASSUME NEW q \in Known', NEW w \in Writers, spool'[w].file = q.file PROVE q.seq <= spool'[w].seq
    <3>1. CASE q = r
      <4>1. w = p
        BY <1>1, <1>3, <1>4, <2>4, <3>1 DEF FileHeld
      <4>2. \A n \in Nat : n + 1 <= n + 1
        OBVIOUS
      <4> QED
        BY <1>1, <1>3, <1>4, <3>1, <4>1, <4>2
    <3>2. CASE q \in Known
      <4>1. q.seq <= spool[w].seq /\ q.seq \in Nat
        BY <1>4, <2>1, <2>4, <3>2
      <4>2. spool[w].seq \in Nat
        BY <1>1, SpoolsAre
      <4>3. spool'[w].seq = spool[w].seq \/ spool'[w].seq = spool[w].seq + 1
        BY <1>4
      <4> QED
        BY <4>1, <4>2, <4>3
    <3> QED
      BY <1>7, <3>1, <3>2
  <2>5. \A q \in Known' : q.file \in 1..ids'
    BY <1>1, <1>2, <1>3, <1>7, <2>1
  <2> QED
    BY <2>3, <2>4, <2>5 DEF KeyHeld, Key
<1>9. FileHeld'
  <2>1. \A q \in Writers : spool'[q].file <= ids' /\ owner'[spool'[q].file] = q
    BY <1>1, <1>2, <1>4 DEF FileHeld
  <2>2. \A g \in DOMAIN disk' : g <= ids' /\ \A x \in disk'[g].recs : x.file = g
    BY <1>1, <1>2, <1>5 DEF FileHeld, Empty
  <2>3. ASSUME NEW q \in Writers, append'[q] # NoAppend
        PROVE  LET g == append'[q].rec.file
               IN /\ g \in FileIds /\ owner'[g] = q /\ g <= ids'
                  /\ g \in DOMAIN disk' => append'[q].inode = inode'[g]
                  /\ g \notin DOMAIN disk' => append'[q].rec \in swept' /\ (owner'[g] = "ui" => append'[q].rec \in straddling')
    <3>1. CASE q = p
      BY <1>1, <1>2, <1>3, <1>4, <1>5, <3>1
    <3>2. CASE q # p
      <4>1. append'[q] = append[q] /\ append[q] # NoAppend /\ append[q].rec.file # f
        BY <1>1, <1>4, <2>3, <3>2 DEF FileHeld
      <4> QED
        BY <1>1, <1>2, <1>5, <4>1 DEF FileHeld
    <3> QED
      BY <3>1, <3>2
  <2>4. NoAppend' = NoAppend
    BY DEF NoAppend, NoRec
  <2> QED
    BY <2>1, <2>2, <2>3, <2>4 DEF FileHeld
<1>10. Forward /\ Settles(f)
  <2>1. \A g \in FileIds \ {f} : Appending(g)' \subseteq Appending(g)
    BY <1>3, <1>4 DEF Appending
  <2> QED
    BY <1>1, <1>2, <1>5, <2>1 DEF Forward, Settles
<1>11. DrainHeld'
  <2>1. ASSUME drain.pc \in {"insert", "reclaim"}, Retired(At.file) PROVE At.file # f
    <3>1. drain.queue # << >> /\ At = drain.queue[1] /\ 1 \in 1..Len(drain.queue)
      BY <1>1, <2>1, AtIs DEF DrainHeld
    <3>2. At.file # spool["ui"].file
      BY <1>1, <2>1, <3>1 DEF DrainHeld, Retired
    <3> QED
      BY <1>1, <2>1, <3>2 DEF Retired
  <2> QED
    BY <1>1, <1>2, <1>4, <1>10, <2>1, WritersAre, DrainMoves
<1>12. PlanHeld'
  BY <1>1, <1>2, <1>10, PlanMoves
<1>13. AckHeld'
  BY <1>1, <1>2, <1>6, <1>10, AckMoves
<1> QED
  BY <1>8, <1>9, <1>11, <1>12, <1>13, <1>1, OpenTypes DEF TrailInv

-----------------------------------------------------------------------------
(* Steps that remove no file. *)

Spares ==
  /\ DOMAIN disk' = DOMAIN disk
  /\ \A g \in DOMAIN disk : disk[g].recs \subseteq disk'[g].recs /\ \A r \in disk'[g].recs : r.file = g
  /\ OnDisk \subseteq OnDisk' /\ OnDisk' \subseteq OnDisk \cup Pending
  /\ Settles(0)
  /\ \A q \in Writers : append'[q] \in {append[q], NoAppend}
  /\ inode' = inode /\ swept \subseteq swept' /\ straddling \subseteq straddling'

(* A writer goes on with its file or takes a new one. *)
Rolls ==
  \A q \in Writers : \/ spool'[q].file = spool[q].file /\ spool'[q].seq = spool[q].seq
                     \/ /\ spool'[q].file = ids' /\ ids' > ids /\ owner'[ids'] = q
                        /\ spool'[q].seq \in Nat

LEMMA SparesKeep ==
  ASSUME TrailInv, Spares, Forward, Rolls, table' \cup drain'.batch \cup acked' \cup announced' \cup CountedRecs' \subseteq Known
  PROVE  KeyHeld' /\ FileHeld'
<1>1. /\ TrailTypes /\ KeyHeld /\ FileHeld /\ ids \in Nat /\ ids' \in Nat /\ ids' >= ids
      /\ \A q \in Writers : spool[q].file \in Nat /\ spool[q].file # 0 /\ spool[q].seq \in Nat
  <2>1. TrailTypes /\ KeyHeld /\ FileHeld
    BY DEF TrailInv
  <2> QED
    BY <2>1, TrailParts, SpoolsAre DEF Forward
<1>2. Known' \subseteq Known
  <2>1. Pending' \subseteq Pending
    BY DEF Spares, Pending, NoAppend, NoRec
  <2> QED
    BY <2>1 DEF Spares, Known
<1>3. KeyHeld'
  <2>1. \A q \in Writers : /\ spool'[q].seq \in Nat /\ spool'[q].file \in Nat
                           /\ \/ spool'[q].file = spool[q].file /\ spool'[q].seq >= spool[q].seq
                              \/ spool'[q].file > ids
    <3>1. \A n \in Nat : n >= n
      OBVIOUS
    <3> QED
      BY <1>1, <3>1 DEF Rolls
  <2>2. \A r \in Known : r.seq \in Nat
    BY <1>1, KnownAre
  <2> QED
    BY <1>1, <1>2, <2>1, <2>2, KeyMoves
<1>4. FileHeld'
  <2>1. \A q \in Writers : \/ spool'[q].file = spool[q].file
                           \/ spool'[q].file = ids' /\ ids' > ids /\ owner'[ids'] = q
    BY DEF Rolls
  <2>2. \A g \in DOMAIN disk' : g \in DOMAIN disk /\ g \in FileIds /\ \A r \in disk'[g].recs : r.file = g
    BY <1>1, TrailParts DEF Spares
  <2>3. \A q \in Writers : append'[q] # NoAppend =>
           /\ append'[q] = append[q] /\ (append[q].rec.file \in DOMAIN disk <=> append[q].rec.file \in DOMAIN disk')
           /\ inode'[append[q].rec.file] = inode[append[q].rec.file]
    BY <1>1 DEF Spares
  <2>4. \A f \in 1..ids : owner'[f] = owner[f]
    BY DEF Forward
  <2> QED
    BY <1>1, <2>1, <2>2, <2>3, <2>4, FileMoves DEF Spares
<1> QED
  BY <1>3, <1>4

LEMMA LandingSpares ==
  ASSUME TrailInv, NEW p \in Writers, append[p] # NoAppend, Landing(p), inode' = inode,
         swept' = swept, straddling' = straddling
  PROVE  Spares /\ DiskTypes' /\ append' \in [Writers -> PendType]
<1> DEFINE f == append[p].rec.file
<1>1. TrailTypes /\ FileHeld
  BY DEF TrailInv
<1>2. append[p].rec \in Pending
  BY DEF Pending
<1>3. CASE f \in DOMAIN disk
  <2>1. \A g \in DOMAIN disk : \A r \in disk'[g].recs : r.file = g
    <3>1. \A r \in disk'[f].recs : r.file = f
      BY <1>1, <1>3, LandIs, LandingIs DEF FileHeld
    <3>2. \A g \in DOMAIN disk \ {f} : \A r \in disk'[g].recs : r.file = g
      BY <1>1, <1>3, LandingIs DEF FileHeld
    <3> QED
      BY <3>1, <3>2
  <2>2. Settles(0)
    BY <1>1, <1>3, LandingIs DEF Settles
  <2> QED
    BY <1>1, <1>2, <1>3, <2>1, <2>2, LandingIs DEF Spares
<1>4. CASE f \notin DOMAIN disk
  <2>1. disk' = disk
    BY <1>4 DEF Landing, Landed
  <2>2. /\ append' \in [Writers -> PendType] /\ append'[p] = NoAppend
        /\ \A q \in Writers \ {p} : append'[q] = append[q]
    BY <1>1, NothingPends DEF Landing, TrailTypes, WriterTypes
  <2>3. \A g \in FileIds : Appending(g)' \subseteq Appending(g)
    BY <2>2, NothingPends DEF Appending
  <2>4. Settles(0)
    BY <2>1, <2>3 DEF Settles, ReadSpoolFile
  <2>5. OnDisk' = OnDisk
    BY <2>1 DEF OnDisk
  <2>6. \A q \in Writers : append'[q] \in {append[q], NoAppend}
    BY <2>2
  <2>7. \A g \in DOMAIN disk : \A r \in disk[g].recs : r.file = g
    BY <1>1 DEF FileHeld
  <2>8. DiskTypes'
    BY <1>1, <2>1 DEF TrailTypes, DiskTypes
  <2> QED
    BY <2>1, <2>2, <2>4, <2>5, <2>6, <2>7, <2>8 DEF Spares
<1> QED
  BY <1>3, <1>4

(* The disk's records and the appends are as they were. *)
LEMMA StillSpares ==
  ASSUME TrailInv, DOMAIN disk' = DOMAIN disk, \A g \in DOMAIN disk : disk'[g].recs = disk[g].recs,
         append' = append, inode' = inode, swept \subseteq swept', straddling \subseteq straddling'
  PROVE  Spares
<1>1. OnDisk' = OnDisk
  BY DEF OnDisk
<1>2. Settles(0)
  BY DEF Settles, Appending, ReadSpoolFile
<1> QED
  BY <1>1, <1>2 DEF Spares, TrailInv, FileHeld

LEMMA CliFailedIs ==
  ASSUME TrailTypes, NEW p \in Writers, CliFailed(p)
  PROVE  /\ cli' \in [Clis -> VerbType]
         /\ \A c \in Clis : \/ cli'[c] = cli[c]
                            \/ cli'[c].plan = {} /\ cli'[c].counted = {} /\ cli'[c].stage = "done"
<1> DEFINE v == [stage |-> "done", plan |-> {}, counted |-> {}]
<1>1. v \in VerbType /\ v.plan = {} /\ v.counted = {} /\ v.stage = "done"
  BY DEF VerbType
<1> HIDE DEF v
<1>2. cli' = IF p \in Clis /\ cli[p].stage = "announce" THEN [cli EXCEPT ![p] = v] ELSE cli
  BY DEF CliFailed, v
<1> QED
  BY <1>1, <1>2 DEF TrailTypes, ReaderTypes

LEMMA FailedPlans ==
  ASSUME TrailInv, NEW p \in Writers, CliFailed(p), Forward, announced' = announced
  PROVE  PlanHeld' /\ CountedRecs' \subseteq CountedRecs
<1>1. \A c \in Clis : \/ cli'[c] = cli[c]
                      \/ cli'[c].plan = {} /\ cli'[c].counted = {} /\ cli'[c].stage = "done"
  BY CliFailedIs DEF TrailInv
<1>3. \A c \in Clis : \/ cli'[c].plan = {} /\ cli'[c].counted = {}
                      \/ cli'[c].plan \subseteq cli[c].plan /\ cli'[c].counted = cli[c].counted
  BY <1>1
<1>4. \A c \in Clis : cli'[c].stage = "apply" => cli[c].stage = "apply" \/ cli'[c].counted \subseteq announced'
  BY <1>1
<1>5. PlanHeld'
  BY <1>3, <1>4, PlanMoves DEF TrailInv
<1>6. CountedRecs' \subseteq CountedRecs
  BY <1>1 DEF CountedRecs
<1> QED
  BY <1>5, <1>6

(* The pass when neither it nor the console's file changes. *)
LEMMA PassStays ==
  ASSUME TrailInv, Forward, Settles(0), drain' = drain, table' = table, straddling \subseteq straddling',
         spool'["ui"].file = spool["ui"].file \/ spool'["ui"].file > ids
  PROVE  DrainHeld'
<1>1. drain.pc \in {"insert", "reclaim"} => At.file # 0
  BY AtIs, NothingPends DEF TrailInv, DrainHeld
<1> QED
  BY <1>1, DrainMoves DEF TrailInv

LEMMA SameWriters ==
  ASSUME TrailInv, UNCHANGED <<ids, owner>>
  PROVE  Forward
BY TrailParts DEF TrailInv, Forward

LEMMA RefuseKeeps ==
  ASSUME TrailInv, NEW p \in Writers, RefuseOwnership(p)
  PROVE  TrailInv'
<1>1. /\ spool' = [spool EXCEPT ![p].ready = "refused"] /\ CliFailed(p) /\ faults' = faults + 1
      /\ UNCHANGED <<append, disk, inode, owner, ids, table, drain, acked, announced, damaged, swept, straddling, serial, shorts, crashes>>
  BY DEF RefuseOwnership, fileVars, ghostVars, historyVars
<1>2. Forward /\ Spares /\ TrailTypes
  BY <1>1, SameWriters, StillSpares DEF TrailInv
<1>3. /\ spool' \in [Writers -> SpoolType]
      /\ \A q \in Writers : spool'[q].file = spool[q].file /\ spool'[q].seq = spool[q].seq
  <2> DEFINE s == [spool[p] EXCEPT !.ready = "refused"]
  <2>1. spool[p] \in SpoolType /\ spool \in [Writers -> SpoolType]
    BY <1>2 DEF TrailTypes, WriterTypes
  <2>2. s \in SpoolType /\ s.file = spool[p].file /\ s.seq = spool[p].seq
    BY <2>1 DEF SpoolType
  <2>3. spool' = [spool EXCEPT ![p] = s]
    BY <1>1
  <2> HIDE DEF s
  <2> QED
    BY <2>1, <2>2, <2>3
<1>4. Rolls
  BY <1>3 DEF Rolls
<1>5. PlanHeld' /\ CountedRecs' \subseteq CountedRecs
  BY <1>1, <1>2, FailedPlans DEF Spares
<1>6. KeyHeld' /\ FileHeld'
  BY <1>1, <1>2, <1>4, <1>5, SparesKeep DEF Known
<1>7. DrainHeld'
  BY <1>1, <1>2, <1>3, PassStays, WritersAre DEF Spares
<1>8. AckHeld'
  BY <1>1, <1>2, AckMoves DEF TrailInv, Spares
<1>9. cli' \in [Clis -> VerbType]
  BY <1>1, <1>2, CliFailedIs
<1>10. TrailTypes'
  BY <1>1, <1>2, <1>3, <1>9
     DEF TrailTypes, WriterTypes, DiskTypes, PathTypes, SetTypes, ReaderTypes, CountTypes
<1> QED
  BY <1>5, <1>6, <1>7, <1>8, <1>10 DEF TrailInv

LEMMA FailKeeps ==
  ASSUME TrailInv, NEW p \in Writers, WriteFails(p)
  PROVE  TrailInv'
<1>1. /\ append[p] # NoAppend /\ Landing(p) /\ CliFailed(p) /\ faults' = faults + 1 /\ shorts' \in {shorts, shorts + 1}
      /\ UNCHANGED <<spool, inode, owner, ids, table, drain, acked, announced, damaged, swept, straddling, serial, crashes>>
  BY DEF WriteFails, ghostVars, historyVars, Landing
<1>2. Forward /\ Spares /\ TrailTypes /\ DiskTypes' /\ append' \in [Writers -> PendType]
  BY <1>1, SameWriters, LandingSpares DEF TrailInv
<1>3. Rolls
  BY <1>1 DEF Rolls
<1>4. PlanHeld' /\ CountedRecs' \subseteq CountedRecs
  BY <1>1, <1>2, FailedPlans DEF Spares
<1>5. KeyHeld' /\ FileHeld'
  BY <1>1, <1>2, <1>3, <1>4, SparesKeep DEF Known
<1>6. DrainHeld'
  BY <1>1, <1>2, PassStays DEF Spares
<1>7. AckHeld'
  BY <1>1, <1>2, AckMoves DEF TrailInv, Spares
<1>8. cli' \in [Clis -> VerbType]
  BY <1>1, <1>2, CliFailedIs
<1>9. CountTypes'
  BY <1>1, <1>2 DEF TrailTypes, CountTypes
<1>10. TrailTypes'
  BY <1>1, <1>2, <1>8, <1>9 DEF TrailTypes, WriterTypes, PathTypes, SetTypes, ReaderTypes
<1> QED
  BY <1>4, <1>5, <1>6, <1>7, <1>10 DEF TrailInv

LEMMA WriteKeeps ==
  ASSUME TrailInv, NEW p \in Writers, Write(p) \/ ShortWrite(p)
  PROVE  TrailInv'
<1> DEFINE r == append[p].rec
<1>1. PICK whole \in BOOLEAN : disk' = Landed(p, whole) /\ Acknowledge(p, whole)
  BY DEF Write, ShortWrite
<1>2. /\ append[p] # NoAppend /\ Landing(p) /\ shorts' \in {shorts, shorts + 1}
      /\ UNCHANGED <<inode, owner, ids, table, drain, swept, straddling, serial, faults, crashes>>
  BY <1>1 DEF Write, ShortWrite, Acknowledge, Landing, limitVars, historyVars
<1>3. /\ Forward /\ Spares /\ TrailTypes /\ DiskTypes' /\ append' \in [Writers -> PendType]
      /\ r \in Pending /\ r \in RecType
  <2>1. Forward /\ Spares /\ TrailTypes /\ DiskTypes' /\ append' \in [Writers -> PendType]
    BY <1>2, SameWriters, LandingSpares DEF TrailInv
  <2> QED
    BY <2>1, <1>2, TrailParts DEF Pending
<1>4. /\ spool' \in [Writers -> SpoolType]
      /\ \A q \in Writers : spool'[q].file = spool[q].file /\ spool'[q].seq = spool[q].seq
  <2> DEFINE b == spool[p].bytes + 1
             d == spool[p].due \/ DueAfter(spool[p])
             s == [spool[p] EXCEPT !.bytes = b, !.due = d]
  <2>1. spool[p] \in SpoolType /\ spool \in [Writers -> SpoolType]
    BY <1>3 DEF TrailTypes, WriterTypes
  <2>2. b \in Nat
    BY <2>1 DEF SpoolType
  <2>3. d \in BOOLEAN
    BY <2>1 DEF SpoolType
  <2>4. spool' = [spool EXCEPT ![p] = s]
    BY <1>1 DEF Acknowledge
  <2> HIDE DEF b, d
  <2>5. s \in SpoolType /\ s.file = spool[p].file /\ s.seq = spool[p].seq
    BY <2>1, <2>2, <2>3 DEF SpoolType
  <2> HIDE DEF s
  <2> QED
    BY <2>1, <2>4, <2>5
<1>5. acked' = acked \cup {r} /\ damaged \subseteq damaged' /\ (~(whole /\ ~Glued(p)) => r \in damaged')
  BY <1>1 DEF Acknowledge
<1>6. /\ cli' \in [Clis -> VerbType]
      /\ \A c \in Clis : cli'[c].plan = cli[c].plan /\ cli'[c].counted = cli[c].counted
      /\ \A c \in Clis : cli'[c].stage = "apply" => cli[c].stage = "apply" \/ cli'[c].counted \subseteq announced'
      /\ announced \subseteq announced' /\ announced' \subseteq announced \cup CountedRecs
  <2>1. CASE p \in Clis /\ cli[p].stage = "announce"
    <3> DEFINE v == [cli[p] EXCEPT !.stage = "apply"]
    <3>1. cli[p] \in VerbType /\ cli \in [Clis -> VerbType]
      BY <1>3, <2>1 DEF TrailTypes, ReaderTypes
    <3>2. v \in VerbType /\ v.plan = cli[p].plan /\ v.counted = cli[p].counted
      BY <3>1 DEF VerbType
    <3>3. cli' = [cli EXCEPT ![p] = v] /\ announced' = announced \cup cli[p].counted
      BY <1>1, <2>1 DEF Acknowledge
    <3> HIDE DEF v
    <3>4. cli'[p] = v /\ \A c \in Clis \ {p} : cli'[c] = cli[c]
      BY <2>1, <3>1, <3>3
    <3> QED
      BY <2>1, <3>1, <3>2, <3>3, <3>4 DEF CountedRecs
  <2>2. CASE ~(p \in Clis /\ cli[p].stage = "announce")
    BY <1>1, <1>3, <2>2 DEF Acknowledge, TrailTypes, ReaderTypes
  <2> QED
    BY <2>1, <2>2
<1>7. PlanHeld' /\ CountedRecs' \subseteq CountedRecs
  <2>1. CountedRecs' \subseteq CountedRecs
    BY <1>6 DEF CountedRecs
  <2> QED
    BY <1>3, <1>6, <2>1, PlanMoves DEF TrailInv
<1>8. KeyHeld' /\ FileHeld'
  <2>1. Rolls
    BY <1>4 DEF Rolls
  <2> QED
    BY <1>2, <1>3, <1>5, <1>6, <1>7, <2>1, SparesKeep DEF Known
<1>9. DrainHeld'
  BY <1>2, <1>3, <1>4, PassStays, WritersAre DEF Spares
<1>10. AckHeld'
  <2>1. r \in OnDisk' \cup damaged' \/ (r \in swept' /\ (owner'[r.file] = "ui" => r \in straddling'))
    <3>1. CASE r \in damaged'
      BY <3>1
    <3>0. CASE r.file \notin DOMAIN disk
      BY <1>2, <3>0 DEF TrailInv, FileHeld
    <3>2. CASE whole /\ ~Glued(p) /\ r.file \in DOMAIN disk
      <4>1. /\ r.file \in DOMAIN disk /\ append[p].inode = inode[r.file]
            /\ Landed(p, whole)[r.file] = [recs |-> IF whole /\ ~disk[r.file].torn THEN disk[r.file].recs \cup {r}
                                                    ELSE disk[r.file].recs,
                                           torn |-> ~whole, idle |-> FALSE]
            /\ DOMAIN Landed(p, whole) = DOMAIN disk
        BY <1>2, <3>2, LandIs DEF TrailInv
      <4>2. ~disk[r.file].torn
        BY <3>2, <4>1 DEF Glued
      <4>3. r \in disk'[r.file].recs /\ r.file \in DOMAIN disk'
        <5> DEFINE d == Landed(p, whole)
                   g == r.file
        <5>1. d[g] = [recs |-> disk[g].recs \cup {r}, torn |-> ~whole, idle |-> FALSE]
          BY <3>2, <4>1, <4>2
        <5>2. disk' = d /\ DOMAIN d = DOMAIN disk /\ g \in DOMAIN disk
          BY <1>1, <4>1
        <5> HIDE DEF d, g
        <5>3. g \in DOMAIN disk' /\ r \in disk'[g].recs
          BY <5>1, <5>2
        <5> QED
          BY <5>3 DEF g
      <4> QED
        BY <4>3 DEF OnDisk
    <3> QED
      BY <1>5, <3>0, <3>1, <3>2
  <2> QED
    BY <1>2, <1>3, <1>5, <1>6, <2>1, AckMoves DEF TrailInv, Spares
<1>11. TrailTypes'
  <2>1. SetTypes'
    <3>1. CountedRecs \subseteq RecType
      BY <1>3, KnownAre DEF Known
    <3> QED
      BY <1>2, <1>3, <1>5, <1>6, <3>1 DEF TrailTypes, SetTypes
  <2>2. CountTypes'
    BY <1>2, <1>3 DEF TrailTypes, CountTypes
  <2> QED
    BY <1>2, <1>3, <1>4, <1>6, <2>1, <2>2 DEF TrailTypes, WriterTypes, PathTypes, ReaderTypes
<1> QED
  BY <1>7, <1>8, <1>9, <1>10, <1>11 DEF TrailInv

LEMMA FreshRolls ==
  ASSUME TrailInv, NEW p \in Writers, NEW s \in SpoolType, s.file = ids + 1, s.seq = 0, ids < MaxFiles,
         ids' = ids + 1, spool' = [spool EXCEPT ![p] = s], owner' = [owner EXCEPT ![ids + 1] = p]
  PROVE  /\ Forward /\ Rolls /\ spool' \in [Writers -> SpoolType] /\ ids' \in 0..MaxFiles
         /\ owner' \in [FileIds -> Writers \cup {"nobody"}]
         /\ spool'["ui"].file = spool["ui"].file \/ spool'["ui"].file > ids
<1>1. /\ TrailTypes /\ ids \in Nat /\ MaxFiles \in Nat /\ spool \in [Writers -> SpoolType]
      /\ owner \in [FileIds -> Writers \cup {"nobody"}]
  <2>1. TrailTypes
    BY DEF TrailInv
  <2> QED
    BY <2>1, TrailParts DEF TrailTypes, WriterTypes, PathTypes
<1>2. ids' \in Nat /\ ids' > ids /\ ids' >= ids /\ ids' \in FileIds /\ ids' \in 0..MaxFiles
  BY <1>1 DEF FileIds
<1>3. spool'[p] = s /\ \A q \in Writers \ {p} : spool'[q] = spool[q]
  BY <1>1
<1>4. owner'[ids'] = p /\ \A f \in 1..ids : owner'[f] = owner[f]
  <2>1. \A f \in 1..ids : f # ids + 1 /\ f \in FileIds
    BY <1>1 DEF FileIds
  <2> QED
    BY <1>1, <1>2, <2>1
<1>5. Rolls
  BY <1>2, <1>3, <1>4 DEF Rolls
<1> QED
  BY <1>1, <1>2, <1>3, <1>4, <1>5 DEF Forward

LEMMA FreshIs ==
  ASSUME TrailTypes, ids < MaxFiles, NEW p \in Writers
  PROVE  LET a == Fresh(ids + 1)  b == [a EXCEPT !.ready = spool[p].ready] IN
         a \in SpoolType /\ b \in SpoolType /\ a.file = ids + 1 /\ b.file = ids + 1 /\ a.seq = 0 /\ b.seq = 0
<1>1. ids + 1 \in FileIds
  BY TrailParts DEF FileIds
<1>2. spool[p].ready \in {"none", "ok", "refused"}
  BY TrailParts DEF SpoolType
<1> DEFINE n == ids + 1
<1> HIDE DEF n
<1>3. n \in FileIds
  BY <1>1 DEF n
<1>4. LET a == Fresh(n)  b == [a EXCEPT !.ready = spool[p].ready] IN
      a \in SpoolType /\ b \in SpoolType /\ a.file = n /\ b.file = n /\ a.seq = 0 /\ b.seq = 0
  BY <1>2, <1>3 DEF Fresh, SpoolType
<1> QED
  BY <1>4 DEF n

(* The writer that goes on under a new file, or with its file's flags changed. *)
LEMMA RotatesKeep ==
  ASSUME TrailInv, Forward, Rolls, spool' \in [Writers -> SpoolType], ids' \in 0..MaxFiles,
         owner' \in [FileIds -> Writers \cup {"nobody"}],
         spool'["ui"].file = spool["ui"].file \/ spool'["ui"].file > ids,
         UNCHANGED <<append, disk, inode, table, drain, cli, acked, announced, damaged, swept, straddling, serial, faults, shorts, crashes>>
  PROVE  TrailInv'
<1>1. Spares /\ TrailTypes
  BY StillSpares DEF TrailInv
<1>2. CountedRecs' = CountedRecs
  BY DEF CountedRecs
<1>3. KeyHeld' /\ FileHeld'
  BY <1>1, <1>2, SparesKeep DEF Known
<1>4. DrainHeld'
  BY <1>1, PassStays DEF Spares
<1>5. PlanHeld'
  BY <1>1, PlanMoves DEF TrailInv, PlanHeld
<1>6. AckHeld'
  BY <1>1, AckMoves DEF TrailInv, Spares
<1>7. TrailTypes'
  BY <1>1 DEF TrailTypes, WriterTypes, DiskTypes, PathTypes, SetTypes, ReaderTypes, CountTypes
<1> QED
  BY <1>3, <1>4, <1>5, <1>6, <1>7 DEF TrailInv

LEMMA RenewedRolls ==
  ASSUME TrailInv, NEW p \in Writers, Renewed(p)
  PROVE  /\ Forward /\ Rolls /\ spool' \in [Writers -> SpoolType] /\ ids' \in 0..MaxFiles
         /\ owner' \in [FileIds -> Writers \cup {"nobody"}]
         /\ spool'["ui"].file = spool["ui"].file \/ spool'["ui"].file > ids
<1> DEFINE s == [Fresh(ids + 1) EXCEPT !.ready = spool[p].ready]
<1>1. s \in SpoolType /\ s.file = ids + 1 /\ s.seq = 0
  BY FreshIs DEF TrailInv, Renewed
<1>2. /\ ids < MaxFiles /\ ids' = ids + 1 /\ spool' = [spool EXCEPT ![p] = s]
      /\ owner' = [owner EXCEPT ![ids + 1] = p]
  BY DEF Renewed
<1> HIDE DEF s
<1> QED
  BY <1>1, <1>2, FreshRolls

LEMMA RotateKeeps ==
  ASSUME TrailInv, (\E p \in Writers : RotateBegin(p)) \/ RotateEnd
  PROVE  TrailInv'
<1>1. UNCHANGED <<append, disk, inode, table, drain, cli, acked, announced, damaged, swept, straddling, serial, faults, shorts, crashes>>
  BY DEF RotateBegin, RotateEnd, fileVars, ghostVars, historyVars, limitVars
<1>2. ASSUME NEW p \in Writers, Renewed(p) PROVE TrailInv'
  BY <1>1, <1>2, RenewedRolls, RotatesKeep
<1>3. CASE RotateEnd
  BY <1>2, <1>3, WritersAre DEF RotateEnd
<1>4. ASSUME NEW p \in Writers, RotateBegin(p) PROVE TrailInv'
  <2>1. CASE p # "ui"
    BY <1>2, <1>4, <2>1 DEF RotateBegin
  <2>2. CASE p = "ui"
    <3> DEFINE s == [spool[p] EXCEPT !.due = FALSE, !.rotating = TRUE]
    <3>1. /\ spool[p] \in SpoolType /\ spool \in [Writers -> SpoolType] /\ ids \in 0..MaxFiles
          /\ owner \in [FileIds -> Writers \cup {"nobody"}]
      BY TrailParts DEF TrailInv, TrailTypes, WriterTypes, PathTypes
    <3>2. s \in SpoolType /\ s.file = spool[p].file /\ s.seq = spool[p].seq
      BY <3>1 DEF SpoolType
    <3>3. spool' = [spool EXCEPT ![p] = s] /\ UNCHANGED <<ids, owner>>
      BY <1>4, <2>2 DEF RotateBegin
    <3> HIDE DEF s
    <3>4. /\ spool' \in [Writers -> SpoolType]
          /\ \A q \in Writers : spool'[q].file = spool[q].file /\ spool'[q].seq = spool[q].seq
      BY <3>1, <3>2, <3>3
    <3>5. Forward /\ Rolls
      BY <3>3, <3>4, SameWriters DEF Rolls
    <3> QED
      BY <1>1, <3>1, <3>3, <3>4, <3>5, RotatesKeep, WritersAre
  <2> QED
    BY <2>1, <2>2
<1> QED
  BY <1>3, <1>4

LEMMA TrailCrashKeeps ==
  ASSUME TrailInv, NEW p \in Writers, Crash(p)
  PROVE  TrailInv'
<1>1. /\ ids < MaxFiles /\ ids' = ids + 1 /\ spool' = [spool EXCEPT ![p] = Fresh(ids + 1)]
      /\ owner' = [owner EXCEPT ![ids + 1] = p] /\ drain' \in {drain, NoPass} /\ crashes' = crashes + 1
      /\ UNCHANGED <<inode, table, cli, acked, announced, damaged, swept, straddling, serial, faults, shorts>>
  BY DEF Crash, ghostVars, historyVars
<1>2. /\ Forward /\ Rolls /\ spool' \in [Writers -> SpoolType] /\ ids' \in 0..MaxFiles
      /\ owner' \in [FileIds -> Writers \cup {"nobody"}]
      /\ spool'["ui"].file = spool["ui"].file \/ spool'["ui"].file > ids
  BY <1>1, FreshIs, FreshRolls DEF TrailInv
<1>3. TrailTypes
  BY DEF TrailInv
<1>4. Spares /\ DiskTypes' /\ append' \in [Writers -> PendType]
  <2>1. CASE append[p] = NoAppend
    <3>1. disk' = disk /\ append' = append
      BY <1>3, <2>1 DEF Crash, TrailTypes, WriterTypes
    <3> QED
      BY <1>1, <1>3, <3>1, StillSpares DEF TrailTypes, WriterTypes, DiskTypes
  <2>2. CASE append[p] # NoAppend
    <3>1. Landing(p)
      BY <2>2 DEF Crash, Landing
    <3> QED
      BY <1>1, <2>2, <3>1, LandingSpares
  <2> QED
    BY <2>1, <2>2
<1>5. CountedRecs' = CountedRecs
  BY <1>1 DEF CountedRecs
<1>6. NoPass \in PassType /\ NoPass.batch = {} /\ NoPass.pc = "idle" /\ NoPass.queue = << >> /\ Len(NoPass.queue) = 0
  BY DEF NoPass, PassType
<1>7. KeyHeld' /\ FileHeld'
  <2>1. drain'.batch \subseteq Known
    BY <1>1, <1>6 DEF Known
  <2> QED
    BY <1>1, <1>2, <1>4, <1>5, <2>1, SparesKeep DEF Known
<1>8. DrainHeld'
  <2>1. CASE drain' = drain
    BY <1>1, <1>2, <1>4, <2>1, PassStays DEF Spares
  <2>2. CASE drain' = NoPass
    <3>1. /\ drain'.pc = "idle" /\ Len(drain'.queue) = 0
      BY <1>6, <2>2
    <3>2. 1..0 = {}
      OBVIOUS
    <3> QED
      BY <3>1, <3>2 DEF DrainHeld
  <2> QED
    BY <1>1, <2>1, <2>2
<1>9. PlanHeld'
  BY <1>1, <1>2, <1>4, PlanMoves DEF TrailInv, PlanHeld
<1>10. AckHeld'
  BY <1>1, <1>2, <1>4, AckMoves DEF TrailInv, Spares
<1>11. TrailTypes'
  <2>1. ReaderTypes'
    BY <1>1, <1>3, <1>6 DEF TrailTypes, ReaderTypes
  <2>2. CountTypes' /\ SetTypes'
    BY <1>1, <1>3 DEF TrailTypes, CountTypes, SetTypes
  <2> QED
    BY <1>1, <1>2, <1>3, <1>4, <2>1, <2>2 DEF TrailTypes, WriterTypes, PathTypes
<1> QED
  BY <1>7, <1>8, <1>9, <1>10, <1>11 DEF TrailInv

LEMMA AgeKeeps ==
  ASSUME TrailInv, NEW f \in FileIds, Age(f)
  PROVE  TrailInv'
<1>1. /\ f \in DOMAIN disk /\ disk' = [disk EXCEPT ![f].idle = TRUE]
      /\ UNCHANGED <<spool, append, owner, ids, inode, table, drain, cli, acked, announced, damaged, swept, straddling,
                     serial, faults, shorts, crashes>>
  BY DEF Age, spoolVars, ghostVars, historyVars, limitVars
<1>2. TrailTypes
  BY DEF TrailInv
<1>3. /\ DOMAIN disk' = DOMAIN disk /\ DiskTypes'
      /\ \A g \in DOMAIN disk : disk'[g].recs = disk[g].recs
  <2> DEFINE e == [disk[f] EXCEPT !.idle = TRUE]
  <2>1. disk[f] \in FileType
    BY <1>1, <1>2 DEF TrailTypes, DiskTypes
  <2>2. e \in FileType /\ e.recs = disk[f].recs
    BY <2>1 DEF FileType
  <2>3. disk' = [disk EXCEPT ![f] = e]
    BY <1>1
  <2> HIDE DEF e
  <2>4. DOMAIN disk' = DOMAIN disk /\ disk'[f] = e /\ \A g \in DOMAIN disk \ {f} : disk'[g] = disk[g]
    BY <1>1, <2>3
  <2> QED
    BY <1>2, <2>2, <2>4 DEF TrailTypes, DiskTypes
<1>4. Spares /\ Forward /\ Rolls
  BY <1>1, <1>3, StillSpares, SameWriters DEF Rolls
<1>5. CountedRecs' = CountedRecs
  BY <1>1 DEF CountedRecs
<1>6. KeyHeld' /\ FileHeld'
  BY <1>1, <1>4, <1>5, SparesKeep DEF Known
<1>7. DrainHeld'
  BY <1>1, <1>4, PassStays DEF Spares
<1>8. PlanHeld'
  BY <1>1, <1>4, PlanMoves DEF TrailInv, PlanHeld
<1>9. AckHeld'
  BY <1>1, <1>4, AckMoves DEF TrailInv, Spares
<1>10. TrailTypes'
  BY <1>1, <1>2, <1>3 DEF TrailTypes, WriterTypes, PathTypes, SetTypes, ReaderTypes, CountTypes
<1> QED
  BY <1>6, <1>7, <1>8, <1>9, <1>10 DEF TrailInv

(* The n-th of a set of numbers, as listSpoolFiles sorts them. *)
LEMMA NthExists ==
  ASSUME NEW size \in Nat, NEW kept \in SUBSET (1..size), NEW n \in 1..Cardinality(kept)
  PROVE  \E i \in kept : Cardinality({k \in kept : k <= i}) = n
<1> DEFINE Upto(m) == {k \in kept : k <= m}
           Enough == {m \in Nat : Cardinality(Upto(m)) >= n}
<1>1. IsFiniteSet(kept)
  <2>1. IsFiniteSet(1..size)
    BY FS_Interval
  <2> QED
    BY <2>1, FS_Subset
<1>2. \A m \in Nat : IsFiniteSet(Upto(m)) /\ Cardinality(Upto(m)) \in Nat
  BY <1>1, FS_Subset, FS_CardinalityType
<1>3. size \in Enough
  <2>1. Upto(size) = kept
    <3>1. \A k \in kept : k <= size
      OBVIOUS
    <3> QED
      BY <3>1
  <2>2. Cardinality(kept) \in Nat /\ Cardinality(kept) >= n
    BY <1>1, FS_CardinalityType
  <2> QED
    BY <2>1, <2>2
<1>0. IsWellFoundedOn(OpToRel(<, Nat), Nat)
  BY NatLessThanWellFounded
<1>4. PICK m \in Enough : \A x \in Enough : <<x, m>> \notin OpToRel(<, Nat)
  BY <1>0, <1>3, WFMin
<1>5. m \in Nat /\ Cardinality(Upto(m)) >= n /\ \A x \in Enough : ~(x < m)
  BY <1>4 DEF OpToRel
<1>6. m # 0
  <2>0. \A k \in kept : ~(k <= 0)
    OBVIOUS
  <2>1. Upto(0) = {}
    BY <2>0
  <2>2. Cardinality({}) = 0
    BY FS_EmptySet
  <2> QED
    BY <2>1, <2>2, <1>5
<1>7. m - 1 \in Nat /\ ~(Cardinality(Upto(m - 1)) >= n)
  <2>1. m - 1 \in Nat /\ m - 1 < m
    BY <1>5, <1>6
  <2>2. m - 1 \notin Enough
    BY <2>1, <1>5
  <2> QED
    BY <2>1, <2>2
<1>8. m \in kept
  <2> SUFFICES ASSUME m \notin kept PROVE FALSE
    OBVIOUS
  <2>1. \A k \in kept : k <= m <=> k <= m - 1
    BY <1>5
  <2>2. Upto(m) = Upto(m - 1)
    BY <2>1
  <2> QED
    BY <2>2, <1>7, <1>5
<1>9. Upto(m) = Upto(m - 1) \cup {m} /\ m \notin Upto(m - 1)
  <2>1. \A k \in kept : k <= m <=> (k <= m - 1 \/ k = m)
    BY <1>5
  <2>2. ~(m <= m - 1)
    BY <1>5
  <2> QED
    BY <2>1, <2>2, <1>8
<1>10. Cardinality(Upto(m)) = Cardinality(Upto(m - 1)) + 1
  BY <1>7, <1>9, <1>2, FS_AddElement
<1>11. Cardinality(Upto(m)) = n
  <2> DEFINE before == Cardinality(Upto(m - 1))
  <2>1. before \in Nat /\ Cardinality(Upto(m)) = before + 1 /\ before + 1 >= n /\ ~(before >= n)
    BY <1>10, <1>7, <1>5, <1>2
  <2> HIDE DEF before
  <2> QED
    BY <2>1
<1> QED
  BY <1>8, <1>11

-----------------------------------------------------------------------------
(* The pass. *)

LEMMA ListedIs ==
  ASSUME TrailTypes
  PROVE  Listed \in Seq(ListType) /\ \A i \in 1..Len(Listed) : Listed[i].file \in DOMAIN disk
<1> DEFINE fs == DOMAIN disk
           pick(n) == CHOOSE f \in fs : Cardinality({g \in fs : g <= f}) = n
           last == Cardinality(fs)
<1>1. fs \in SUBSET (1..MaxFiles) /\ MaxFiles \in Nat
  BY TrailParts DEF FileIds
<1>2. last \in Nat
  <2>1. IsFiniteSet(1..MaxFiles)
    BY <1>1, FS_Interval
  <2> QED
    BY <1>1, <2>1, FS_Subset, FS_CardinalityType
<1>3. \A n \in 1..last : pick(n) \in fs
  BY <1>1, NthExists
<1> HIDE DEF pick
<1>4. \A n \in 1..last : Aged(pick(n)) \in ListType /\ Aged(pick(n)).file = pick(n)
  <2>1. \A f \in fs : f \in FileIds /\ disk[f].idle \in BOOLEAN
    BY DEF TrailTypes, DiskTypes, FileType
  <2> QED
    BY <1>3, <2>1 DEF Aged, ListType
<1>5. Listed = [n \in 1..last |-> Aged(pick(n))]
  BY DEF Listed, OldestFirst, pick
<1> HIDE DEF last, fs
<1>6. Listed \in [1..last -> ListType] /\ \A n \in 1..last : Listed[n] = Aged(pick(n))
  BY <1>4, <1>5
<1>7. Listed \in Seq(ListType) /\ Len(Listed) = last
  BY <1>2, <1>6
<1>8. \A i \in 1..last : Listed[i].file \in fs
  BY <1>3, <1>4, <1>6
<1> QED
  BY <1>7, <1>8 DEF fs

LEMMA TailIs ==
  ASSUME NEW S, NEW s \in Seq(S), s # << >>
  PROVE  Tail(s) \in Seq(S) /\ \A i \in 1..Len(Tail(s)) : i + 1 \in 1..Len(s) /\ Tail(s)[i] = s[i + 1]
<1>1. Len(s) \in Nat /\ Len(s) # 0 /\ Len(Tail(s)) = Len(s) - 1
  OBVIOUS
<1>2. Tail(s) \in Seq(S)
  OBVIOUS
<1>3. ASSUME NEW i \in 1..Len(Tail(s)) PROVE i + 1 \in 1..Len(s) /\ Tail(s)[i] = s[i + 1]
  BY <1>1
<1> QED
  BY <1>2, <1>3

(* A step of the pass that removes nothing. *)
LEMMA PassKeeps ==
  ASSUME TrailInv, drain' \in PassType, drain'.batch \subseteq Known, table \subseteq table', table' \subseteq Known,
         DrainHeld', faults' \in Nat,
         straddling \subseteq straddling',
         UNCHANGED <<spool, append, disk, inode, owner, ids, cli, acked, announced, damaged, swept, serial, shorts, crashes>>
  PROVE  TrailInv'
<1>1. TrailTypes /\ Spares /\ Forward /\ Rolls
  BY StillSpares, SameWriters DEF TrailInv, Rolls
<1>2. CountedRecs' = CountedRecs
  BY DEF CountedRecs
<1>3. KeyHeld' /\ FileHeld'
  BY <1>1, <1>2, SparesKeep DEF Known
<1>4. PlanHeld'
  BY DEF TrailInv, PlanHeld
<1>5. AckHeld'
  BY <1>1, AckMoves DEF TrailInv, Spares
<1>6. SetTypes'
  BY <1>1, KnownAre DEF TrailTypes, SetTypes
<1>7. TrailTypes'
  BY <1>1, <1>6 DEF TrailTypes, WriterTypes, DiskTypes, PathTypes, ReaderTypes, CountTypes
<1> QED
  BY <1>3, <1>4, <1>5, <1>7 DEF TrailInv

LEMMA AgesKeeps ==
  ASSUME TrailInv, ListedAges
  PROVE  TrailInv'
<1> DEFINE e == [drain.queue[1] EXCEPT !.idle = TRUE]
           q == [drain.queue EXCEPT ![1] = e]
<1>1. /\ drain.queue # << >> /\ drain' = [drain EXCEPT !.queue = q]
      /\ UNCHANGED <<spool, append, disk, inode, owner, ids, table, cli, acked, announced, damaged, swept, straddling,
                     serial, faults, shorts, crashes>>
  BY DEF ListedAges, spoolVars, fileVars, ghostVars, historyVars, limitVars
<1>2. /\ TrailTypes /\ DrainHeld /\ At = drain.queue[1] /\ 1 \in 1..Len(drain.queue) /\ At \in ListType
      /\ drain \in PassType /\ drain.queue \in Seq(ListType)
  BY <1>1, AtIs, TrailParts DEF TrailInv
<1>3. e \in ListType /\ e.file = drain.queue[1].file
  BY <1>2 DEF ListType
<1> HIDE DEF e, q
<1>4. /\ q \in Seq(ListType) /\ Len(q) = Len(drain.queue) /\ Head(q) = e /\ q # << >>
      /\ \A i \in 1..Len(drain.queue) : q[i].file = drain.queue[i].file
  <2>1. /\ q \in Seq(ListType) /\ Len(q) = Len(drain.queue) /\ Head(q) = e /\ q # << >>
        /\ q[1] = e /\ \A i \in 1..Len(drain.queue) : i = 1 \/ q[i] = drain.queue[i]
    <3> DEFINE old == drain.queue
    <3>1. old \in Seq(ListType) /\ old # << >> /\ e \in ListType
      BY <1>1, <1>2, <1>3, Zenon
    <3>2. q = [old EXCEPT ![1] = e]
      BY DEF q
    <3> HIDE DEF old
    <3>3. /\ q \in Seq(ListType) /\ Len(q) = Len(old) /\ Head(q) = e /\ q # << >>
          /\ q[1] = e /\ \A i \in 1..Len(old) : i = 1 \/ q[i] = old[i]
      <4>1. Len(old) \in Nat /\ Len(old) # 0 /\ old \in [1..Len(old) -> ListType]
        BY <3>1
      <4>2. q \in [1..Len(old) -> ListType] /\ q[1] = e /\ \A i \in 1..Len(old) : i = 1 \/ q[i] = old[i]
        BY <3>1, <3>2, <4>1
      <4>3. q \in Seq(ListType) /\ Len(q) = Len(old)
        BY <4>1, <4>2
      <4>4. q # << >> /\ Head(q) = q[1]
        BY <4>1, <4>3
      <4> QED
        BY <4>2, <4>3, <4>4
    <3> QED
      BY <3>3 DEF old
  <2> QED
    BY <1>3, <2>1
<1>5. /\ drain' \in PassType /\ drain'.queue = q /\ drain'.pc = drain.pc /\ drain'.batch = drain.batch
      /\ drain'.complete = drain.complete /\ drain'.current = drain.current
  BY <1>1, <1>2, <1>4 DEF PassType
<1>6. At' = e /\ At'.file = At.file
  <2>1. At' = Head(q)
    BY <1>5 DEF At
  <2> QED
    BY <1>2, <1>3, <1>4, <2>1
<1>7. DrainHeld'
  <2>1. ASSUME NEW i \in 1..Len(drain'.queue)
        PROVE  /\ drain'.queue[i].file <= ids'
               /\ drain'.queue[i].file # drain'.current => drain'.queue[i].file # spool'["ui"].file
    BY <1>1, <1>2, <1>4, <1>5 DEF DrainHeld
  <2>2. drain.pc \in {"insert", "reclaim"} /\ Retired(At.file)' => Seen(At.file)'
    BY <1>1, <1>2, <1>5, <1>6 DEF DrainHeld, Retired, Seen, ReadSpoolFile, Appending
  <2>3. drain'.queue # << >>
    BY <1>4, <1>5
  <2>4. drain'.pc = "reclaim" /\ drain'.complete => drain'.batch \subseteq table'
    BY <1>1, <1>2, <1>5 DEF DrainHeld
  <2> QED
    BY <1>5, <2>1, <2>2, <2>3, <2>4 DEF DrainHeld
<1> QED
  BY <1>1, <1>2, <1>5, <1>7, PassKeeps DEF Known, TrailTypes, CountTypes

LEMMA BeginKeeps ==
  ASSUME TrailInv, DrainBegin \/ DrainEnd
  PROVE  TrailInv'
<1>1. /\ TrailTypes /\ FileHeld /\ NoPass \in PassType /\ NoPass.batch = {} /\ NoPass.pc = "idle" /\ Len(NoPass.queue) = 0
      /\ UNCHANGED <<spool, append, disk, inode, owner, ids, table, cli, acked, announced, damaged, swept, straddling,
                     serial, faults, shorts, crashes>>
  <2>1. NoPass \in PassType /\ NoPass.batch = {} /\ NoPass.pc = "idle" /\ Len(NoPass.queue) = 0
    BY DEF NoPass, PassType
  <2> QED
    BY <2>1 DEF TrailInv, DrainBegin, DrainEnd, spoolVars, fileVars, ghostVars, historyVars, limitVars
<1>2. /\ drain' \in PassType /\ drain'.batch = {} /\ drain'.pc \in {"idle", "read"}
      /\ \A i \in 1..Len(drain'.queue) : /\ drain'.queue[i].file \in DOMAIN disk
                                         /\ drain'.current = spool["ui"].file
  <2>1. CASE DrainBegin
    <3>1. drain' = [NoPass EXCEPT !.pc = "read", !.queue = Listed, !.current = spool["ui"].file]
      BY <2>1 DEF DrainBegin
    <3>2. spool["ui"].file \in Nat /\ Listed \in Seq(ListType) /\ \A i \in 1..Len(Listed) : Listed[i].file \in DOMAIN disk
      BY <1>1, ListedIs, SpoolsAre, WritersAre
    <3> QED
      BY <1>1, <3>1, <3>2 DEF PassType
  <2>2. CASE DrainEnd
    <3>1. drain' = NoPass
      BY <2>2 DEF DrainEnd
    <3>2. 1..0 = {}
      OBVIOUS
    <3> QED
      BY <1>1, <3>1, <3>2
  <2> QED
    BY <2>1, <2>2
<1>3. DrainHeld'
  BY <1>1, <1>2 DEF DrainHeld, FileHeld
<1> QED
  BY <1>1, <1>2, <1>3, PassKeeps DEF Known, TrailTypes, CountTypes

LEMMA ReadKeeps ==
  ASSUME TrailInv, DrainRead
  PROVE  TrailInv'
<1> DEFINE q == Tail(drain.queue)
           b == ReadSpoolFile(At.file)
<1>1. /\ drain.pc = "read" /\ drain.queue # << >>
      /\ straddling' = straddling \cup {r \in Appending(At.file) : owner[r.file] = "ui"}
      /\ \/ drain' = [drain EXCEPT !.queue = q]
         \/ drain' = [drain EXCEPT !.pc = "insert", !.batch = b, !.complete = TRUE]
      /\ UNCHANGED <<spool, append, disk, inode, owner, ids, table, cli, acked, announced, damaged, swept,
                     serial, faults, shorts, crashes>>
  BY DEF DrainRead, spoolVars, fileVars, limitVars
<1>2. /\ TrailTypes /\ DrainHeld /\ At = drain.queue[1] /\ 1 \in 1..Len(drain.queue) /\ At \in ListType
      /\ drain \in PassType /\ drain.queue \in Seq(ListType)
  BY <1>1, AtIs, TrailParts DEF TrailInv
<1>3. b \subseteq OnDisk /\ b \in SUBSET RecType
  BY <1>2, TrailParts DEF ReadSpoolFile, OnDisk
<1> HIDE DEF b
<1>4. q \in Seq(ListType) /\ \A i \in 1..Len(q) : i + 1 \in 1..Len(drain.queue) /\ q[i] = drain.queue[i + 1]
  BY <1>1, <1>2, TailIs
<1> HIDE DEF q
<1>5. CASE drain' = [drain EXCEPT !.queue = q]
  <2>1. drain' \in PassType /\ drain'.queue = q /\ drain'.pc = "read" /\ drain'.batch = drain.batch /\ drain'.current = drain.current
    BY <1>1, <1>2, <1>4, <1>5 DEF PassType
  <2>2. ASSUME NEW i \in 1..Len(q)
        PROVE  q[i].file <= ids /\ (q[i].file # drain.current => q[i].file # spool["ui"].file)
    BY <1>2, <1>4 DEF DrainHeld
  <2>3. DrainHeld'
    BY <1>1, <2>1, <2>2 DEF DrainHeld
  <2> QED
    BY <1>1, <1>2, <2>1, <2>3, PassKeeps DEF Known, TrailTypes, CountTypes
<1>6. CASE drain' = [drain EXCEPT !.pc = "insert", !.batch = b, !.complete = TRUE]
  <2>1. /\ drain' \in PassType /\ drain'.queue = drain.queue /\ drain'.pc = "insert" /\ drain'.batch = b
        /\ drain'.current = drain.current
    BY <1>2, <1>3, <1>6 DEF PassType
  <2>2. At' = At
    BY <2>1 DEF At
  <2>3. ASSUME Retired(At.file)' PROVE Seen(At.file)'
    <3>1. owner[At.file] = "ui" /\ \A r \in Appending(At.file) : r.file = At.file
      BY <1>1, <2>2, <2>3 DEF Retired, Appending
    <3>2. Appending(At.file) \subseteq straddling'
      BY <1>1, <3>1
    <3>3. Appending(At.file)' = Appending(At.file) /\ ReadSpoolFile(At.file)' = b
      BY <1>1, <2>2 DEF Appending, ReadSpoolFile, b
    <3> QED
      BY <2>1, <3>2, <3>3 DEF Seen
  <2>4. DrainHeld'
    BY <1>1, <1>2, <2>1, <2>2, <2>3 DEF DrainHeld
  <2> QED
    BY <1>1, <1>2, <1>3, <2>1, <2>4, PassKeeps DEF Known, TrailTypes, CountTypes
<1> QED
  BY <1>1, <1>5, <1>6

(* Records under one key are one record, so whatever is not there yet is inserted, and
   what is there is no other. *)
LEMMA InsertIs ==
  ASSUME TrailInv
  PROVE  /\ Altered = {} /\ Missing \subseteq drain.batch /\ drain.batch \subseteq table \cup Inserted(Missing)
         /\ \A part \in SUBSET Missing : Inserted(part) \subseteq drain.batch
<1>1. \A r, q \in drain.batch \cup table : Key(r) = Key(q) => r = q
  BY DEF TrailInv, KeyHeld, Known
<1>2. Altered = {}
  BY <1>1 DEF Altered
<1>3. Missing \subseteq drain.batch /\ \A part \in SUBSET Missing : Inserted(part) \subseteq drain.batch
  BY DEF Missing, Inserted
<1>4. ASSUME NEW r \in drain.batch, r \notin table PROVE r \in Inserted(Missing)
  <2>1. ~Drained(Key(r))
    BY <1>1, <1>4 DEF Drained
  <2>2. r.n \in Nat
    BY KnownAre DEF TrailInv, Known
  <2>3. \A q \in Missing : Key(q) = Key(r) => r.n <= q.n
    BY <1>1, <1>3, <2>2
  <2> QED
    BY <2>1, <2>3 DEF Missing, Inserted
<1> QED
  BY <1>2, <1>3, <1>4

LEMMA InsertKeeps ==
  ASSUME TrailInv, DrainInsert \/ DrainInsertFails
  PROVE  TrailInv' /\ mismatched' = mismatched
<1>1. TrailTypes /\ DrainHeld /\ drain \in PassType
  BY TrailParts DEF TrailInv
<1>2. PICK c \in BOOLEAN, t \in SUBSET drain.batch :
        /\ drain' = [drain EXCEPT !.pc = "reclaim", !.complete = c]
        /\ c => drain.complete /\ drain.batch \subseteq table \cup t
        /\ table' = table \cup t
  <2>1. CASE DrainInsert
    <3>1. /\ drain' = [drain EXCEPT !.pc = "reclaim", !.complete = drain.complete]
          /\ drain.complete \in BOOLEAN
      BY <1>1, <2>1 DEF DrainInsert, PassType
    <3>2. table' = table \cup Inserted(Missing) /\ Inserted(Missing) \in SUBSET drain.batch
          /\ drain.batch \subseteq table \cup Inserted(Missing)
      BY <2>1, InsertIs DEF DrainInsert
    <3> QED
      BY <3>1, <3>2
  <2>2. CASE DrainInsertFails
    <3>1. PICK part \in SUBSET Missing : table' = table \cup Inserted(part)
      BY <2>2 DEF DrainInsertFails
    <3>2. drain' = [drain EXCEPT !.pc = "reclaim", !.complete = FALSE]
      BY <2>2 DEF DrainInsertFails
    <3> QED
      BY <3>1, <3>2, InsertIs
  <2> QED
    BY <2>1, <2>2
<1>3. /\ faults' \in {faults, faults + 1} /\ drain.pc = "insert"
      /\ UNCHANGED <<spool, append, disk, inode, owner, ids, cli, acked, announced, damaged, swept, straddling, serial, shorts, crashes>>
      /\ mismatched' = mismatched
  BY InsertIs DEF DrainInsert, DrainInsertFails, spoolVars, fileVars, ghostVars, historyVars, limitVars
<1>4. /\ drain' \in PassType /\ drain'.queue = drain.queue /\ drain'.pc = "reclaim" /\ drain'.batch = drain.batch
      /\ drain'.current = drain.current /\ drain'.complete = c
  BY <1>1, <1>2 DEF PassType
<1>5. At' = At
  BY <1>4 DEF At
<1>6. DrainHeld'
  <2>1. Retired(At.file) => Seen(At.file)'
    BY <1>1, <1>3, <1>4, <1>5 DEF DrainHeld, Seen, ReadSpoolFile, Appending
  <2>2. Retired(At.file)' = Retired(At.file)
    BY <1>3, <1>4, <1>5 DEF Retired
  <2> QED
    BY <1>1, <1>2, <1>3, <1>4, <1>5, <2>1, <2>2 DEF DrainHeld
<1>7. faults' \in Nat
  BY <1>1, <1>3 DEF TrailTypes, CountTypes
<1> QED
  BY <1>2, <1>3, <1>4, <1>6, <1>7, PassKeeps DEF Known

-----------------------------------------------------------------------------
(* Steps that remove a file, and the terminals' own. *)

LEMMA RemovalIs ==
  ASSUME TrailInv, NEW f \in FileIds, NEW read, disk' = Removed(f), inode' = [inode EXCEPT ![f] = @ + 1],
         Sweeps(f, read), owner[f] = "ui" => Appending(f) \subseteq straddling,
         UNCHANGED <<spool, append, ids, owner, straddling>>
  PROVE  /\ DiskTypes' /\ inode' \in [FileIds -> Nat] /\ FileHeld' /\ Forward /\ Settles(0)
         /\ OnDisk' \subseteq OnDisk /\ OnDisk \subseteq OnDisk' \cup ReadSpoolFile(f)
<1>1. TrailTypes /\ FileHeld /\ ids \in Nat
  BY TrailParts DEF TrailInv
<1>2. DOMAIN disk' = DOMAIN disk \ {f} /\ \A g \in DOMAIN disk \ {f} : disk'[g] = disk[g]
  BY DEF Removed
<1>3. DiskTypes'
  BY <1>1, <1>2 DEF TrailTypes, DiskTypes
<1>4. inode' \in [FileIds -> Nat] /\ \A g \in FileIds \ {f} : inode'[g] = inode[g]
  <2>1. inode \in [FileIds -> Nat]
    BY <1>1 DEF TrailTypes, PathTypes
  <2> DEFINE n == inode[f] + 1
  <2>2. n \in Nat
    BY <2>1
  <2>3. inode' = [inode EXCEPT ![f] = n]
    OBVIOUS
  <2> HIDE DEF n
  <2> QED
    BY <2>1, <2>2, <2>3
<1>5. Forward
  BY SameWriters
<1>6. FileHeld'
  <2>1. \A p \in Writers : spool[p].file \in Nat /\ spool[p].file # 0
    BY <1>1, SpoolsAre
  <2>2. \A g \in DOMAIN disk' : g \in DOMAIN disk /\ g \in FileIds /\ \A r \in disk'[g].recs : r.file = g
    BY <1>1, <1>2, TrailParts DEF FileHeld
  <2>3. ASSUME NEW p \in Writers, append'[p] # NoAppend
        PROVE  LET g == append[p].rec.file IN
               /\ append'[p] = append[p]
               /\ \/ (g \in DOMAIN disk <=> g \in DOMAIN disk') /\ inode'[g] = inode[g]
                  \/ g \notin DOMAIN disk' /\ append[p].rec \in swept' /\ (owner[g] = "ui" => append[p].rec \in straddling')
    <3>1. append[p].rec.file \in FileIds
      BY <1>1, <2>3 DEF FileHeld
    <3>2. CASE append[p].rec.file # f
      BY <1>2, <1>4, <3>1, <3>2
    <3>3. CASE append[p].rec.file = f
      <4>1. append[p].rec \in Appending(f)
        BY <3>3 DEF Appending
      <4> QED
        BY <1>2, <3>3, <4>1 DEF Sweeps
    <3> QED
      BY <3>2, <3>3
  <2>4. ids' \in Nat /\ ids' >= ids /\ (\A g \in 1..ids : owner'[g] = owner[g])
    BY <1>5 DEF Forward
  <2> QED
    BY <1>1, <2>1, <2>2, <2>3, <2>4, FileMoves DEF Sweeps
<1>7. Settles(0)
  <2>1. \A g \in FileIds : Appending(g)' = Appending(g)
    BY DEF Appending
  <2>2. \A g \in FileIds : ReadSpoolFile(g)' \subseteq ReadSpoolFile(g)
    BY <1>2 DEF ReadSpoolFile
  <2> QED
    BY <2>1, <2>2 DEF Settles
<1>8. OnDisk' \subseteq OnDisk /\ OnDisk \subseteq OnDisk' \cup ReadSpoolFile(f)
  <2>1. ASSUME NEW r \in OnDisk' PROVE r \in OnDisk
    BY <1>2 DEF OnDisk
  <2>2. ASSUME NEW r \in OnDisk PROVE r \in OnDisk' \cup ReadSpoolFile(f)
    <3>1. PICK g \in DOMAIN disk : r \in disk[g].recs
      BY DEF OnDisk
    <3>2. CASE g = f
      BY <3>1, <3>2 DEF ReadSpoolFile
    <3>3. CASE g # f
      BY <1>2, <3>1, <3>3 DEF OnDisk
    <3> QED
      BY <3>2, <3>3
  <2> QED
    BY <2>1, <2>2
<1> QED
  BY <1>3, <1>4, <1>5, <1>6, <1>7, <1>8

LEMMA ReadRecs ==
  ASSUME FileHeld, NEW f, NEW r \in ReadSpoolFile(f)
  PROVE  r.file = f /\ r \in OnDisk
BY DEF FileHeld, ReadSpoolFile, OnDisk

LEMMA KeyStays ==
  ASSUME TrailInv, Known' \subseteq Known, UNCHANGED <<ids, spool>>
  PROVE  KeyHeld'
<1>1. \A r, q \in Known' : Key(r)' = Key(q)' => r = q
  BY DEF TrailInv, KeyHeld, Key
<1> QED
  BY <1>1 DEF TrailInv, KeyHeld, Key

LEMMA ReclaimKeeps ==
  ASSUME TrailInv, DrainReclaim
  PROVE  TrailInv'
<1> DEFINE q == Tail(drain.queue)
           f == At.file
<1>1. /\ drain.pc = "reclaim" /\ drain' = [drain EXCEPT !.pc = "read", !.queue = q, !.batch = {}]
      /\ UNCHANGED <<spool, append, owner, ids, table, cli, acked, announced, damaged, straddling,
                     serial, faults, shorts, crashes>>
  BY DEF DrainReclaim, spoolVars, ghostVars, historyVars, limitVars
<1>2. /\ TrailTypes /\ DrainHeld /\ drain.queue # << >> /\ f \in FileIds
      /\ drain \in PassType /\ drain.queue \in Seq(ListType)
  BY <1>1, AtIs, TrailParts DEF TrailInv, DrainHeld
<1>3. q \in Seq(ListType) /\ \A i \in 1..Len(q) : i + 1 \in 1..Len(drain.queue) /\ q[i] = drain.queue[i + 1]
  BY <1>2, TailIs
<1> HIDE DEF q
<1>4. drain' \in PassType /\ drain'.queue = q /\ drain'.pc = "read" /\ drain'.batch = {} /\ drain'.current = drain.current
  BY <1>1, <1>2, <1>3 DEF PassType
<1>5. DrainHeld'
  <2>1. ASSUME NEW i \in 1..Len(q)
        PROVE  q[i].file <= ids /\ (q[i].file # drain.current => q[i].file # spool["ui"].file)
    BY <1>2, <1>3 DEF DrainHeld
  <2> QED
    BY <1>1, <1>4, <2>1 DEF DrainHeld
<1>6. CASE ~Reclaimable
  <2>1. disk' = disk /\ inode' = inode /\ swept' = swept
    BY <1>6 DEF DrainReclaim, fileVars
  <2> QED
    BY <1>1, <1>2, <1>4, <1>5, <2>1, PassKeeps DEF Known, TrailTypes, CountTypes
<1>7. CASE Reclaimable
  <2>1. /\ drain.complete /\ At.idle /\ f # drain.current /\ Sweeps(f, drain.batch)
        /\ disk' = Removed(f) /\ inode' = [inode EXCEPT ![f] = @ + 1]
    BY <1>7 DEF DrainReclaim, Reclaimable
  <2>0. owner[f] = "ui" => Seen(f)
    BY <1>1, <1>2, <2>1 DEF DrainHeld, Retired
  <2>2. /\ DiskTypes' /\ inode' \in [FileIds -> Nat] /\ FileHeld' /\ Forward /\ Settles(0)
        /\ OnDisk' \subseteq OnDisk /\ OnDisk \subseteq OnDisk' \cup ReadSpoolFile(f)
    BY <1>1, <1>2, <2>0, <2>1, RemovalIs DEF Seen
  <2>3. KeyHeld'
    <3>1. Known' \subseteq Known
      <4>1. Pending' = Pending /\ CountedRecs' = CountedRecs
        BY <1>1 DEF Pending, CountedRecs, NoAppend, NoRec
      <4> QED
        BY <1>1, <1>4, <2>2, <4>1 DEF Known
    <3> QED
      BY <1>1, <3>1, KeyStays
  <2>4. PlanHeld'
    BY <1>1, <2>2, PlanMoves DEF TrailInv, PlanHeld
  <2>5. AckHeld'
    <3>1. ASSUME NEW r \in ReadSpoolFile(f)
          PROVE  r \in table \/ (r \in swept' /\ (owner[r.file] = "ui" => r \in straddling'))
      <4>1. r.file = f /\ drain.batch \subseteq table
        BY <1>1, <1>2, <2>1, ReadRecs DEF TrailInv, DrainHeld
      <4>2. CASE r \in drain.batch
        BY <4>1, <4>2
      <4>3. CASE r \notin drain.batch
        BY <1>1, <2>0, <2>1, <4>1, <4>3 DEF Sweeps, Seen
      <4> QED
        BY <4>2, <4>3
    <3>2. swept \subseteq swept'
      BY <2>1 DEF Sweeps
    <3> QED
      BY <1>1, <2>2, <3>1, <3>2, AckMoves DEF TrailInv
  <2>6. TrailTypes'
    BY <1>1, <1>2, <1>4, <2>2 DEF TrailTypes, WriterTypes, PathTypes, SetTypes, ReaderTypes, CountTypes
  <2> QED
    BY <1>5, <2>2, <2>3, <2>4, <2>5, <2>6 DEF TrailInv
<1> QED
  BY <1>6, <1>7

(* A terminal's step that removes nothing. *)
LEMMA PlansKeep ==
  ASSUME TrailInv, cli' \in [Clis -> VerbType], CountedRecs' \subseteq Known, PlanHeld',
         UNCHANGED <<spool, append, disk, inode, owner, ids, table, drain, acked, announced, damaged, swept, straddling,
                     serial, faults, shorts, crashes>>
  PROVE  TrailInv'
<1>1. TrailTypes /\ Spares /\ Forward /\ Rolls
  BY StillSpares, SameWriters DEF TrailInv, Rolls
<1>2. KeyHeld' /\ FileHeld'
  BY <1>1, SparesKeep DEF Known
<1>3. DrainHeld'
  BY <1>1, PassStays DEF Spares
<1>4. AckHeld'
  BY <1>1, AckMoves DEF TrailInv, Spares
<1>5. TrailTypes'
  BY <1>1 DEF TrailTypes, WriterTypes, DiskTypes, PathTypes, SetTypes, ReaderTypes, CountTypes
<1> QED
  BY <1>2, <1>3, <1>4, <1>5 DEF TrailInv

(* A terminal that only moves on. *)
LEMMA StageKeeps ==
  ASSUME TrailInv, NEW c \in Clis, NEW v \in VerbType, cli' = [cli EXCEPT ![c] = v],
         \/ v.plan = {} /\ v.counted = {}
         \/ v.plan \subseteq cli[c].plan /\ v.counted = cli[c].counted /\ (v.stage = "apply" => cli[c].stage = "apply"),
         announced' = announced, Forward
  PROVE  cli' \in [Clis -> VerbType] /\ PlanHeld' /\ CountedRecs' \subseteq CountedRecs
<1>1. TrailTypes /\ cli \in [Clis -> VerbType]
  BY DEF TrailInv, TrailTypes, ReaderTypes
<1>2. cli' \in [Clis -> VerbType] /\ cli'[c] = v /\ \A k \in Clis \ {c} : cli'[k] = cli[k]
  BY <1>1
<1>3. \A k \in Clis : \/ cli'[k].plan = {} /\ cli'[k].counted = {}
                      \/ cli'[k].plan \subseteq cli[k].plan /\ cli'[k].counted = cli[k].counted
  BY <1>2
<1>4. \A k \in Clis : cli'[k].stage = "apply" => cli[k].stage = "apply" \/ cli'[k].counted \subseteq announced'
  BY <1>2
<1>6. PlanHeld'
  BY <1>3, <1>4, PlanMoves DEF TrailInv
<1>7. CountedRecs' \subseteq CountedRecs
  BY <1>3 DEF CountedRecs
<1> QED
  BY <1>2, <1>6, <1>7

LEMMA ExitKeeps ==
  ASSUME TrailInv, NEW c \in Clis, Exit(c)
  PROVE  TrailInv'
<1> DEFINE v == [cli[c] EXCEPT !.stage = "done"]
<1>1. /\ cli' = [cli EXCEPT ![c] = v]
      /\ UNCHANGED <<spool, append, disk, inode, owner, ids, table, drain, acked, announced, damaged, swept, straddling,
                     serial, faults, shorts, crashes>>
  BY DEF Exit, spoolVars, fileVars, ghostVars, historyVars, limitVars
<1>2. cli[c] \in VerbType
  BY TrailParts DEF TrailInv
<1>3. v \in VerbType /\ v.plan = cli[c].plan /\ v.counted = cli[c].counted /\ v.stage = "done"
  BY <1>2 DEF VerbType
<1> HIDE DEF v
<1>4. Forward
  BY <1>1, SameWriters
<1>5. cli' \in [Clis -> VerbType] /\ PlanHeld' /\ CountedRecs' \subseteq CountedRecs
  BY <1>1, <1>3, <1>4, StageKeeps
<1> QED
  BY <1>1, <1>5, PlansKeep DEF Known

LEMMA CapKeeps ==
  ASSUME TrailInv, NEW c \in Clis, EnforceCap(c)
  PROVE  TrailInv'
<1>1. UNCHANGED <<spool, append, disk, inode, owner, ids, table, drain, acked, announced, damaged, swept, straddling,
                  serial, faults, shorts, crashes>>
  BY DEF EnforceCap, spoolVars, fileVars, ghostVars, historyVars, limitVars
<1>2. /\ TrailTypes /\ FileHeld /\ PlanHeld /\ cli[c] \in VerbType /\ cli \in [Clis -> VerbType]
      /\ Forward
  BY <1>1, TrailParts, SameWriters DEF TrailInv, TrailTypes, ReaderTypes
<1>3. CASE cli' = [cli EXCEPT ![c].stage = "verb"]
  <2> DEFINE v == [cli[c] EXCEPT !.stage = "verb"]
  <2>1. cli' = [cli EXCEPT ![c] = v]
    BY <1>3
  <2>2. v \in VerbType /\ v.plan = cli[c].plan /\ v.counted = cli[c].counted /\ v.stage = "verb"
    BY <1>2 DEF VerbType
  <2> HIDE DEF v
  <2>3. cli' \in [Clis -> VerbType] /\ PlanHeld' /\ CountedRecs' \subseteq CountedRecs
    BY <1>1, <1>2, <2>1, <2>2, StageKeeps
  <2> QED
    BY <1>1, <2>3, PlansKeep DEF Known
<1>4. CASE cli' = [cli EXCEPT ![c] = Announcing(c)]
  <2> DEFINE plan == PlannedReclaim(c)
             counted == UNION {disk[f].recs : f \in plan}
             v == Announcing(c)
  <2>1. \A f \in plan : f \in DOMAIN disk /\ owner[f] \in Clis
    BY DEF PlannedReclaim, OldestOf
  <2>2. v = [stage |-> "announce", plan |-> plan, counted |-> counted]
    BY DEF Announcing
  <2> HIDE DEF plan, v
  <2>3. plan \subseteq FileIds /\ counted \subseteq RecType /\ counted \subseteq OnDisk
    BY <1>2, <2>1, TrailParts DEF OnDisk
  <2>4. \A r \in counted : owner[r.file] \in Clis
    BY <1>2, <2>1 DEF FileHeld
  <2>5. \A f \in plan : f <= ids /\ owner[f] \in Clis
    BY <1>2, <2>1 DEF FileHeld
  <2> HIDE DEF counted
  <2>6. v \in VerbType /\ v.plan = plan /\ v.counted = counted /\ v.stage = "announce"
    BY <2>2, <2>3 DEF VerbType
  <2>7. cli' \in [Clis -> VerbType] /\ cli'[c] = v /\ \A k \in Clis \ {c} : cli'[k] = cli[k]
    BY <1>2, <1>4, <2>6 DEF v
  <2>8. CountedRecs' \subseteq Known
    BY <2>3, <2>6, <2>7 DEF CountedRecs, Known
  <2>9. PlanHeld'
    <3>1. ASSUME NEW k \in Clis
          PROVE  /\ \A f \in cli'[k].plan : f <= ids /\ owner[f] \in Clis
                 /\ \A r \in cli'[k].counted : owner[r.file] \in Clis
                 /\ cli'[k].stage = "apply" => cli'[k].counted \subseteq announced
      <4>1. CASE k = c
        BY <2>4, <2>5, <2>6, <2>7, <4>1
      <4>2. CASE k # c
        BY <1>2, <2>7, <4>2 DEF PlanHeld
      <4> QED
        BY <4>1, <4>2
    <3> QED
      BY <1>1, <1>2, <3>1 DEF PlanHeld
  <2> QED
    BY <1>1, <2>7, <2>8, <2>9, PlansKeep
<1> QED
  BY <1>3, <1>4 DEF EnforceCap

LEMMA ApplyKeeps ==
  ASSUME TrailInv, NEW c \in Clis, ApplyReclaim(c)
  PROVE  TrailInv'
<1>1. /\ cli[c].stage = "apply"
      /\ UNCHANGED <<spool, append, owner, ids, table, drain, acked, announced, damaged, straddling,
                     serial, faults, shorts, crashes>>
  BY DEF ApplyReclaim, spoolVars, ghostVars, historyVars, limitVars
<1>2. /\ TrailTypes /\ FileHeld /\ PlanHeld /\ cli[c] \in VerbType /\ cli \in [Clis -> VerbType]
      /\ cli[c].plan \subseteq FileIds
  BY TrailParts DEF TrailInv, TrailTypes, ReaderTypes, VerbType
<1>3. CASE cli[c].plan = {}
  <2> DEFINE v == [stage |-> "verb", plan |-> {}, counted |-> {}]
  <2>1. v \in VerbType /\ v.plan = {} /\ v.counted = {}
    BY DEF VerbType
  <2>2. cli' = [cli EXCEPT ![c] = v] /\ disk' = disk /\ inode' = inode /\ swept' = swept
    BY <1>3 DEF ApplyReclaim, fileVars
  <2> HIDE DEF v
  <2>3. Forward
    BY <1>1, <2>2, SameWriters
  <2>4. cli' \in [Clis -> VerbType] /\ PlanHeld' /\ CountedRecs' \subseteq CountedRecs
    BY <1>1, <2>1, <2>2, <2>3, StageKeeps
  <2> QED
    BY <1>1, <2>2, <2>4, PlansKeep DEF Known
<1>4. CASE cli[c].plan # {}
  <2> DEFINE f == Min(cli[c].plan)
             left == cli[c].plan \ {f}
             v == [cli[c] EXCEPT !.plan = left]
  <2>1. f \in cli[c].plan
    <3>0. IsWellFoundedOn(OpToRel(<, Nat), Nat)
      BY NatLessThanWellFounded
    <3>1. \A n \in cli[c].plan : n \in Nat
      BY <1>2, FilesUpTo
    <3>2. PICK least \in cli[c].plan : \A x \in cli[c].plan : <<x, least>> \notin OpToRel(<, Nat)
      BY <1>4, <3>0, <3>1, WFMin
    <3>3. \A x \in cli[c].plan : ~(x < least)
      BY <3>1, <3>2 DEF OpToRel
    <3>4. \A m, n \in Nat : ~(m < n) => n =< m
      OBVIOUS
    <3>5. \A x \in cli[c].plan : least =< x
      BY <3>1, <3>3, <3>4
    <3> QED
      BY <3>5 DEF Min
  <2>2. /\ Sweeps(f, cli[c].counted) /\ disk' = Removed(f) /\ inode' = [inode EXCEPT ![f] = @ + 1]
        /\ cli' = [cli EXCEPT ![c] = v]
    BY <1>4 DEF ApplyReclaim
  <2> HIDE DEF f
  <2>3. f \in FileIds /\ owner[f] \in Clis /\ owner[f] # "ui"
    BY <1>2, <2>1, WritersAre DEF PlanHeld
  <2>4. /\ DiskTypes' /\ inode' \in [FileIds -> Nat] /\ FileHeld' /\ Forward /\ Settles(0)
        /\ OnDisk' \subseteq OnDisk /\ OnDisk \subseteq OnDisk' \cup ReadSpoolFile(f)
    BY <1>1, <2>2, <2>3, RemovalIs
  <2>5. v \in VerbType /\ v.plan = left /\ v.counted = cli[c].counted /\ v.stage = "apply" /\ left \subseteq cli[c].plan
    BY <1>1, <1>2 DEF VerbType
  <2> HIDE DEF v, left
  <2>6. cli' \in [Clis -> VerbType] /\ PlanHeld' /\ CountedRecs' \subseteq CountedRecs
    BY <1>1, <2>2, <2>4, <2>5, StageKeeps
  <2>7. KeyHeld'
    <3>1. Pending' = Pending
      BY <1>1 DEF Pending, NoAppend, NoRec
    <3>2. Known' \subseteq Known
      BY <1>1, <2>4, <2>6, <3>1 DEF Known
    <3> QED
      BY <1>1, <3>2, KeyStays
  <2>8. DrainHeld'
    BY <1>1, <2>4, PassStays
  <2>9. AckHeld'
    <3>1. ASSUME NEW r \in ReadSpoolFile(f)
          PROVE  r \in announced \/ (r \in swept' /\ owner[r.file] # "ui")
      <4>1. r.file = f /\ cli[c].counted \subseteq announced
        BY <1>1, <1>2, ReadRecs DEF PlanHeld
      <4>2. CASE r \in cli[c].counted
        BY <4>1, <4>2
      <4>3. CASE r \notin cli[c].counted
        BY <2>2, <2>3, <4>1, <4>3 DEF Sweeps
      <4> QED
        BY <4>2, <4>3
    <3>2. swept \subseteq swept'
      BY <2>2 DEF Sweeps
    <3> QED
      BY <1>1, <2>4, <3>1, <3>2, AckMoves DEF TrailInv
  <2>10. TrailTypes'
    BY <1>1, <1>2, <2>4, <2>6 DEF TrailTypes, WriterTypes, PathTypes, SetTypes, ReaderTypes, CountTypes
  <2> QED
    BY <2>4, <2>6, <2>7, <2>8, <2>9, <2>10 DEF TrailInv
<1> QED
  BY <1>3, <1>4

-----------------------------------------------------------------------------
(* Where the trail starts, and what every step keeps of it. *)

(* The writers can be put in an order. *)
LEMMA OrderIs ==
  /\ StartOrder \in [Writers -> 1..Cardinality(Writers)]
  /\ \A p, q \in Writers : StartOrder[p] = StartOrder[q] => p = q
<1>1. IsFiniteSet(Writers)
  <2>1. IsFiniteSet({"daemon"} \cup {"ui"})
    BY FS_Singleton, FS_Union
  <2>2. Servers = {"daemon"} \cup {"ui"}
    BY DEF Servers
  <2> QED
    BY <2>1, <2>2, ClisAssumption, FS_Union DEF Writers
<1>2. PICK b \in Surjection(1..Cardinality(Writers), Writers) : TRUE
  BY <1>1, FS_CardinalityType DEF ExistsBijection, Bijection
<1> DEFINE order == [p \in Writers |-> CHOOSE i \in 1..Cardinality(Writers) : b[i] = p]
<1>3. \A p \in Writers : order[p] \in 1..Cardinality(Writers) /\ b[order[p]] = p
  BY <1>2 DEF Surjection
<1>4. /\ order \in [Writers -> 1..Cardinality(Writers)]
      /\ \A p, q \in Writers : order[p] = order[q] => p = q
  BY <1>3
<1> HIDE DEF order
<1> QED
  BY <1>4 DEF StartOrder

LEMMA SpoolsStart ==
  ASSUME TrailInit
  PROVE  /\ \A p \in Writers : /\ spool[p] = Fresh(StartOrder[p]) /\ spool[p] \in SpoolType
                               /\ spool[p].file <= ids /\ spool[p].file \in FileIds /\ owner[spool[p].file] = p
         /\ WriterTypes /\ PathTypes
<1>1. /\ Cardinality(Writers) \in Nat /\ MaxFiles \in Nat /\ MaxFiles >= Cardinality(Writers)
      /\ 1..Cardinality(Writers) \subseteq FileIds /\ ids = Cardinality(Writers)
  <2>1. IsFiniteSet({"daemon"} \cup {"ui"}) /\ Servers = {"daemon"} \cup {"ui"}
    BY FS_Singleton, FS_Union DEF Servers
  <2>2. IsFiniteSet(Writers)
    BY <2>1, ClisAssumption, FS_Union DEF Writers
  <2>3. Cardinality(Writers) \in Nat
    BY <2>2, FS_CardinalityType
  <2> QED
    BY <2>3, SpoolLimitsAssumption DEF FileIds, TrailInit
<1>2. ASSUME NEW p \in Writers
      PROVE  /\ spool[p] = Fresh(StartOrder[p]) /\ spool[p] \in SpoolType
             /\ spool[p].file <= ids /\ spool[p].file \in FileIds /\ owner[spool[p].file] = p
  <2>1. StartOrder[p] \in FileIds /\ StartOrder[p] <= ids
    BY <1>1, OrderIs
  <2>2. spool[p] = Fresh(StartOrder[p])
    BY DEF TrailInit
  <2>3. spool[p].file = StartOrder[p] /\ spool[p] \in SpoolType
    BY <2>1, <2>2 DEF Fresh, SpoolType
  <2>4. (CHOOSE q \in Writers : StartOrder[q] = StartOrder[p]) = p
    BY OrderIs
  <2>5. owner[StartOrder[p]] = p
    BY <2>1, <2>4 DEF TrailInit
  <2> QED
    BY <2>1, <2>2, <2>3, <2>5
<1>3. WriterTypes
  <2>1. spool = [p \in Writers |-> Fresh(StartOrder[p])] /\ append = [p \in Writers |-> NoAppend]
    BY DEF TrailInit
  <2> QED
    BY <1>2, <2>1, NothingPends DEF WriterTypes
<1>4. PathTypes
  <2>1. inode \in [FileIds -> Nat]
    BY DEF TrailInit
  <2>2. \A f \in FileIds : owner[f] \in Writers \cup {"nobody"}
    BY DEF TrailInit
  <2>3. owner = [f \in FileIds |-> owner[f]]
    BY DEF TrailInit
  <2>4. ids \in 0..MaxFiles
    BY <1>1
  <2> QED
    BY <2>1, <2>2, <2>3, <2>4 DEF PathTypes
<1> QED
  BY <1>2, <1>3, <1>4

LEMMA TrailStarts == TrailInit => TrailInv
<1> SUFFICES ASSUME TrailInit PROVE TrailInv
  OBVIOUS
<1>1. /\ DOMAIN disk = {} /\ table = {} /\ acked = {} /\ announced = {} /\ damaged = {} /\ drain = NoPass
      /\ serial = 0 /\ faults = 0 /\ shorts = 0 /\ crashes = 0
      /\ \A p \in Writers : append[p] = NoAppend
  BY DEF TrailInit
<1>2. NoPass \in PassType /\ NoPass.batch = {} /\ NoPass.pc = "idle" /\ NoPass.queue = << >> /\ Len(NoPass.queue) = 0
  BY DEF NoPass, PassType
<1>3. /\ cli \in [Clis -> VerbType]
      /\ \A c \in Clis : cli[c].plan = {} /\ cli[c].counted = {} /\ cli[c].stage = "new"
  <2> DEFINE v == [stage |-> "new", plan |-> {}, counted |-> {}]
  <2>1. v \in VerbType /\ v.plan = {} /\ v.counted = {} /\ v.stage = "new"
    BY DEF VerbType
  <2>2. cli = [c \in Clis |-> v]
    BY DEF TrailInit
  <2> HIDE DEF v
  <2> QED
    BY <2>1, <2>2
<1>4. Known = {}
  <2>1. OnDisk = {} /\ Pending = {} /\ CountedRecs = {}
    BY <1>1, <1>3 DEF OnDisk, Pending, CountedRecs
  <2> QED
    BY <1>1, <1>2, <2>1 DEF Known
<1>5. TrailTypes
  <2>1. CountTypes /\ SetTypes /\ DiskTypes
    BY <1>1 DEF CountTypes, SetTypes, DiskTypes
  <2>2. ReaderTypes
    BY <1>1, <1>2, <1>3 DEF ReaderTypes
  <2> QED
    BY <2>1, <2>2, SpoolsStart DEF TrailTypes
<1>6. KeyHeld
  BY <1>4 DEF KeyHeld
<1>7. FileHeld
  BY <1>1, SpoolsStart DEF FileHeld
<1>8. DrainHeld
  <2>1. 1..0 = {}
    OBVIOUS
  <2> QED
    BY <1>1, <1>2, <2>1 DEF DrainHeld
<1>9. PlanHeld
  BY <1>1, <1>3 DEF PlanHeld
<1>10. AckHeld
  BY <1>1 DEF AckHeld
<1> QED
  BY <1>5, <1>6, <1>7, <1>8, <1>9, <1>10 DEF TrailInv

LEMMA TrailStill ==
  ASSUME TrailInv, UNCHANGED trailVars
  PROVE  TrailInv'
<1>1. /\ UNCHANGED <<spool, append, disk, inode, owner, ids, table, drain, cli, acked, announced, damaged, swept, straddling>>
      /\ UNCHANGED <<serial, faults, shorts, crashes>>
  BY DEF trailVars
<1>2. CountedRecs' = CountedRecs
  BY <1>1 DEF CountedRecs
<1>3. PlanHeld'
  BY <1>1 DEF TrailInv, PlanHeld
<1>4. cli' \in [Clis -> VerbType]
  BY <1>1 DEF TrailInv, TrailTypes, ReaderTypes
<1> QED
  BY <1>1, <1>2, <1>3, <1>4, PlansKeep DEF Known

LEMMA TrailStep ==
  ASSUME TrailInv, [TrailNext]_trailVars
  PROVE  TrailInv'
<1>1. ASSUME NEW p \in Writers, Open(p) PROVE TrailInv'
  BY <1>1, OpenKeeps
<1>2. ASSUME NEW p \in Writers, RefuseOwnership(p) PROVE TrailInv'
  BY <1>2, RefuseKeeps
<1>3. ASSUME NEW p \in Writers, Write(p) \/ ShortWrite(p) PROVE TrailInv'
  BY <1>3, WriteKeeps
<1>4. ASSUME NEW p \in Writers, WriteFails(p) PROVE TrailInv'
  BY <1>4, FailKeeps
<1>5. CASE (\E p \in Writers : RotateBegin(p)) \/ RotateEnd
  BY <1>5, RotateKeeps
<1>6. ASSUME NEW p \in Writers, Crash(p) PROVE TrailInv'
  BY <1>6, TrailCrashKeeps
<1>7. ASSUME NEW f \in FileIds, Age(f) PROVE TrailInv'
  BY <1>7, AgeKeeps
<1>8. CASE ListedAges
  BY <1>8, AgesKeeps
<1>9. CASE DrainBegin \/ DrainEnd
  BY <1>9, BeginKeeps
<1>10. CASE DrainRead
  BY <1>10, ReadKeeps
<1>11. CASE DrainInsert \/ DrainInsertFails
  BY <1>11, InsertKeeps
<1>12. CASE DrainReclaim
  BY <1>12, ReclaimKeeps
<1>13. ASSUME NEW c \in Clis, EnforceCap(c) \/ ApplyReclaim(c) \/ Exit(c) PROVE TrailInv'
  BY <1>13, CapKeeps, ApplyKeeps, ExitKeeps
<1>14. CASE UNCHANGED trailVars
  BY <1>14, TrailStill
<1> QED
  BY <1>1, <1>2, <1>3, <1>4, <1>5, <1>6, <1>7, <1>8, <1>9, <1>10, <1>11, <1>12, <1>13, <1>14 DEF TrailNext

(* Every state of the trail satisfies the invariant. *)
LEMMA TrailHeld == TrailSpec => []TrailInv
<1>1. TrailInit => TrailInv
  BY TrailStarts
<1>2. TrailInv /\ [TrailNext]_trailVars => TrailInv'
  BY TrailStep
<1> QED
  BY <1>1, <1>2, PTL DEF TrailSpec

(* TrailComplete: every record whose append resolved is in the audit table, in a
   spool file, accounted for by an announced reclaim, one of those half a line
   made unreadable, or was appended to a file after its remover had read it -
   whatever fails, rotates, restarts or is reclaimed (appendOne,
   AuditDrain.pass, enforceCap). *)
THEOREM TrailCompleteHolds == TrailSpec => []TrailComplete
<1>1. TrailSpec => []TrailInv
  BY TrailHeld
<1>2. TrailInv => TrailComplete
  BY DEF TrailInv, AckHeld, TrailComplete
<1> QED
  BY <1>1, <1>2, PTL

-----------------------------------------------------------------------------
(* What half a line costs. *)

LEMMA TornIs ==
  ASSUME TrailTypes
  PROVE  TornLive \subseteq FileIds /\ IsFiniteSet(TornLive) /\ 0 \notin TornLive
<1>1. TornLive \subseteq FileIds
  BY TrailParts DEF TornLive
<1>2. IsFiniteSet(FileIds)
  BY SpoolLimitsAssumption, FS_Interval DEF FileIds
<1> QED
  BY <1>1, <1>2, FS_Subset, NothingPends

(* Of the files that are still written, a step tears f at most. *)
LEMMA TornMoves ==
  ASSUME TrailInv, TrailInv', NEW f,
         \A g \in DOMAIN disk' : disk'[g].torn /\ g # f => g \in DOMAIN disk /\ disk[g].torn,
         \A q \in Writers : spool'[q].file = spool[q].file \/ spool'[q].file > ids,
         \A q \in Writers : append'[q].rec.file \in {append[q].rec.file, spool[q].file, 0},
         \A g \in DOMAIN disk' : g \in DOMAIN disk \/ ~disk'[g].torn
  PROVE  TornLive' \subseteq TornLive \cup {f}
<1> SUFFICES ASSUME NEW g \in TornLive', g # f PROVE g \in TornLive
  OBVIOUS
<1>1. g \in DOMAIN disk' /\ disk'[g].torn /\ Live(g)'
  BY DEF TornLive
<1>2. g \in DOMAIN disk /\ disk[g].torn
  BY <1>1
<1>3. g \in Nat /\ g # 0 /\ g <= ids /\ ids \in Nat
  BY <1>2, TrailParts, FilesUpTo DEF TrailInv, FileHeld
<1>4. PICK q \in Writers : spool'[q].file = g \/ append'[q].rec.file = g
  BY <1>1 DEF Live
<1>5. spool[q].file = g \/ append[q].rec.file = g
  BY <1>3, <1>4
<1> QED
  BY <1>2, <1>5 DEF TornLive, Live

(* One write that falls short tears one file and costs one record; the record
   glued to half a line mends the file. *)
LEMMA DamageMoves ==
  ASSUME TrailInv, TrailInv', DamageHeld, NEW x, NEW f,
         \/ damaged' = damaged /\ TornLive' \subseteq TornLive /\ shorts' >= shorts
         \/ damaged' \subseteq damaged \cup {x} /\ TornLive' \subseteq TornLive \cup {f} /\ shorts' = shorts + 1
         \/ /\ damaged' \subseteq damaged \cup {x} /\ f \in TornLive /\ TornLive' \subseteq TornLive \ {f}
            /\ shorts' = shorts
  PROVE  DamageHeld'
<1> DEFINE d == Cardinality(damaged)
           t == Cardinality(TornLive)
           e == Cardinality(damaged')
           u == Cardinality(TornLive')
<1>1. /\ IsFiniteSet(damaged) /\ IsFiniteSet(TornLive) /\ IsFiniteSet(TornLive') /\ shorts \in Nat /\ shorts' \in Nat
      /\ d \in Nat /\ t \in Nat /\ u \in Nat /\ d + t <= 2 * shorts
  <2>1. IsFiniteSet(damaged) /\ IsFiniteSet(TornLive) /\ shorts \in Nat /\ d + t <= 2 * shorts
    BY TornIs DEF TrailInv, TrailTypes, CountTypes, DamageHeld
  <2>2. TornLive' \subseteq FileIds /\ IsFiniteSet(FileIds)
    BY SpoolLimitsAssumption, FS_Interval DEF FileIds, TornLive, TrailInv, TrailTypes, DiskTypes
  <2>3. IsFiniteSet(TornLive')
    BY <2>2, FS_Subset
  <2>4. shorts' \in Nat
    BY DEF TrailInv, TrailTypes, CountTypes
  <2> QED
    BY <2>1, <2>3, <2>4, FS_CardinalityType
<1>2. ASSUME NEW S, IsFiniteSet(S), NEW T, T \subseteq S
      PROVE  IsFiniteSet(T) /\ Cardinality(T) \in Nat /\ Cardinality(S) \in Nat /\ Cardinality(T) <= Cardinality(S)
  BY <1>2, FS_Subset, FS_CardinalityType
<1>3. /\ IsFiniteSet(damaged \cup {x}) /\ Cardinality(damaged \cup {x}) \in {d, d + 1}
      /\ IsFiniteSet(TornLive \cup {f}) /\ Cardinality(TornLive \cup {f}) \in {t, t + 1}
      /\ IsFiniteSet(TornLive \ {f}) /\ (f \in TornLive => Cardinality(TornLive \ {f}) = t - 1)
  BY <1>1, FS_AddElement, FS_RemoveElement
<1>4. CASE damaged' = damaged /\ TornLive' \subseteq TornLive /\ shorts' >= shorts
  <2>1. IsFiniteSet(damaged') /\ e \in Nat /\ e <= d
    BY <1>1, <1>4
  <2>2. u <= t
    BY <1>1, <1>2, <1>4
  <2> HIDE DEF d, t, e, u
  <2>3. 2 * shorts' >= 2 * shorts /\ 2 * shorts' \in Nat /\ 2 * shorts \in Nat
    <3>1. \A a, b \in Nat : a >= b => 2 * a >= 2 * b /\ 2 * a \in Nat /\ 2 * b \in Nat
      OBVIOUS
    <3> QED
      BY <1>1, <1>4, <3>1
  <2>4. e + u <= 2 * shorts'
    <3>1. e + u <= d + t
      BY <1>1, <2>1, <2>2
    <3>2. d + t <= 2 * shorts
      BY <1>1
    <3>3. \A a, b, m, n \in Nat : a <= b /\ b <= m /\ n >= m => a <= n
      OBVIOUS
    <3>4. e + u \in Nat /\ d + t \in Nat
      BY <1>1, <2>1
    <3> QED
      BY <2>3, <3>1, <3>2, <3>3, <3>4
  <2> QED
    BY <2>1, <2>4 DEF DamageHeld, e, u
<1>5. CASE damaged' \subseteq damaged \cup {x} /\ TornLive' \subseteq TornLive \cup {f} /\ shorts' = shorts + 1
  <2>1. IsFiniteSet(damaged') /\ e \in Nat /\ e <= Cardinality(damaged \cup {x})
    BY <1>2, <1>3, <1>5
  <2>2. u <= Cardinality(TornLive \cup {f})
    BY <1>2, <1>3, <1>5
  <2>3. e <= d + 1 /\ u <= t + 1
    BY <1>1, <1>3, <2>1, <2>2
  <2> HIDE DEF d, t, e, u
  <2>4. e + u <= 2 * shorts'
    BY <1>1, <1>5, <2>1, <2>3
  <2> QED
    BY <2>1, <2>4 DEF DamageHeld, e, u
<1>6. CASE damaged' \subseteq damaged \cup {x} /\ f \in TornLive /\ TornLive' \subseteq TornLive \ {f} /\ shorts' = shorts
  <2>1. IsFiniteSet(damaged') /\ e \in Nat /\ e <= Cardinality(damaged \cup {x})
    BY <1>2, <1>3, <1>6
  <2>2. u <= Cardinality(TornLive \ {f})
    BY <1>2, <1>3, <1>6
  <2>3. e <= d + 1 /\ u <= t - 1
    BY <1>1, <1>3, <1>6, <2>1, <2>2
  <2> HIDE DEF d, t, e, u
  <2>4. e + u <= 2 * shorts'
    BY <1>1, <1>6, <2>1, <2>3
  <2> QED
    BY <2>1, <2>4 DEF DamageHeld, e, u
<1> QED
  BY <1>4, <1>5, <1>6

(* A step that tears nothing. *)
LEMMA DamageStays ==
  ASSUME TrailInv, TrailInv', DamageHeld,
         \A g \in DOMAIN disk' : disk'[g].torn => g \in DOMAIN disk /\ disk[g].torn,
         \A q \in Writers : spool'[q].file = spool[q].file \/ spool'[q].file > ids,
         \A q \in Writers : append'[q].rec.file \in {append[q].rec.file, spool[q].file, 0},
         damaged' = damaged, shorts' = shorts
  PROVE  DamageHeld'
<1>1. TornLive' \subseteq TornLive \cup {0}
  BY TornMoves
<1>2. 0 \notin TornLive'
  BY NothingPends DEF TornLive, TrailInv, TrailTypes, DiskTypes
<1>3. shorts' >= shorts
  BY DEF TrailInv, TrailTypes, CountTypes
<1> QED
  BY <1>1, <1>2, <1>3, DamageMoves

(* What a write does to the file it has open. *)
LEMMA LandTears ==
  ASSUME TrailInv, TrailInv', NEW p \in Writers, append[p] # NoAppend, append[p].rec.file \in DOMAIN disk, NEW whole \in BOOLEAN,
         disk' = Landed(p, whole),
         append' = [append EXCEPT ![p] = NoAppend],
         \A q \in Writers : spool'[q].file = spool[q].file \/ spool'[q].file > ids
  PROVE  LET f == append[p].rec.file IN
         /\ TornLive' \subseteq TornLive \cup {f}
         /\ whole => f \notin TornLive'
         /\ disk[f].torn => f \in TornLive
         /\ (\A q \in Writers : spool'[q].file # f) => f \notin TornLive'
<1> DEFINE f == append[p].rec.file
<1>1. TrailTypes /\ FileHeld /\ append \in [Writers -> PendType]
  BY DEF TrailInv, TrailTypes, WriterTypes
<1>2. /\ f \in DOMAIN disk /\ DOMAIN disk' = DOMAIN disk /\ (\A g \in DOMAIN disk \ {f} : disk'[g] = disk[g])
      /\ owner[f] = p /\ f # 0
  <2> DEFINE d == Landed(p, whole)
  <2>1. /\ f \in DOMAIN disk /\ f \in FileIds /\ owner[f] = p
        /\ DOMAIN d = DOMAIN disk /\ \A g \in DOMAIN disk \ {f} : d[g] = disk[g]
    BY <1>1, LandIs, Zenon
  <2>2. disk' = d
    OBVIOUS
  <2> HIDE DEF d
  <2> QED
    BY <2>1, <2>2, NothingPends
<1>3. disk'[f].torn = ~whole
  <2> DEFINE recs == IF whole /\ ~disk[f].torn THEN disk[f].recs \cup {append[p].rec} ELSE disk[f].recs
  <2>1. disk'[f] = [recs |-> recs, torn |-> ~whole, idle |-> FALSE]
    BY <1>1, LandIs
  <2> HIDE DEF recs
  <2> QED
    BY <2>1
<1>4. \A q \in Writers : append'[q].rec.file \in {append[q].rec.file, 0}
  BY <1>1, NothingPends
<1>5. TornLive' \subseteq TornLive \cup {f}
  BY <1>2, <1>4, TornMoves
<1>6. whole => f \notin TornLive'
  BY <1>3 DEF TornLive
<1>7. disk[f].torn => f \in TornLive
  BY <1>2 DEF TornLive, Live
<1>8. ASSUME \A q \in Writers : spool'[q].file # f PROVE f \notin TornLive'
  <2>1. ASSUME NEW q \in Writers PROVE append'[q].rec.file # f
    <3>1. CASE append'[q] = NoAppend
      BY <1>2, <3>1, NothingPends
    <3>2. CASE append'[q] # NoAppend
      <4>1. append'[q] = append[q] /\ q # p
        BY <1>1, <3>2
      <4> QED
        BY <1>1, <1>2, <3>2, <4>1 DEF FileHeld
    <3> QED
      BY <3>1, <3>2
  <2> QED
    BY <1>8, <2>1 DEF TornLive, Live
<1> QED
  BY <1>5, <1>6, <1>7, <1>8

(* A write to a file that was removed under it leaves the disk as it is. *)
LEMMA GoneTears ==
  ASSUME TrailInv, TrailInv', NEW p \in Writers, append[p] # NoAppend, append[p].rec.file \notin DOMAIN disk,
         NEW whole \in BOOLEAN, disk' = Landed(p, whole), append' = [append EXCEPT ![p] = NoAppend],
         \A q \in Writers : spool'[q].file = spool[q].file \/ spool'[q].file > ids
  PROVE  LET f == append[p].rec.file IN TornLive' \subseteq TornLive /\ f \notin TornLive' /\ ~Glued(p)
<1> DEFINE f == append[p].rec.file
<1>1. disk' = disk
  BY DEF Landed
<1>2. append \in [Writers -> PendType]
  BY DEF TrailInv, TrailTypes, WriterTypes
<1>3. \A q \in Writers : append'[q].rec.file \in {append[q].rec.file, 0}
  BY <1>2, NothingPends
<1>4. TornLive' \subseteq TornLive \cup {f}
  BY <1>1, <1>3, TornMoves
<1>5. f \notin TornLive'
  BY <1>1 DEF TornLive
<1> QED
  BY <1>4, <1>5 DEF Glued

LEMMA DamageByWrite ==
  ASSUME TrailInv, TrailInv', DamageHeld, NEW p \in Writers, Write(p) \/ ShortWrite(p)
  PROVE  DamageHeld'
<1> DEFINE f == append[p].rec.file
           r == append[p].rec
<1>1. PICK whole \in BOOLEAN : /\ disk' = Landed(p, whole) /\ Acknowledge(p, whole)
                               /\ shorts' = IF whole THEN shorts ELSE shorts + 1
  BY DEF Write, ShortWrite, limitVars
<1>2. append[p] # NoAppend /\ append' = [append EXCEPT ![p] = NoAppend]
  BY <1>1 DEF Write, ShortWrite, Acknowledge
<1>3. \A q \in Writers : spool'[q].file = spool[q].file
  <2>1. spool' = [spool EXCEPT ![p].bytes = @ + 1, ![p].due = @ \/ DueAfter(spool[p])]
    BY <1>1 DEF Acknowledge
  <2>2. spool \in [Writers -> SpoolType]
    BY DEF TrailInv, TrailTypes, WriterTypes
  <2> QED
    BY <2>1, <2>2 DEF SpoolType
<1>4. /\ TornLive' \subseteq TornLive \cup {f}
      /\ whole => f \notin TornLive'
      /\ Glued(p) => f \in TornLive
  <2>1. CASE f \in DOMAIN disk
    BY <1>1, <1>2, <1>3, <2>1, LandTears DEF Glued
  <2>2. CASE f \notin DOMAIN disk
    BY <1>1, <1>2, <1>3, <2>2, GoneTears
  <2> QED
    BY <2>1, <2>2
<1>5. damaged' = IF whole /\ ~Glued(p) THEN damaged ELSE damaged \cup {r}
  BY <1>1 DEF Acknowledge
<1>6. CASE ~whole
  BY <1>1, <1>4, <1>5, <1>6, DamageMoves
<1>7. CASE whole /\ Glued(p)
  <2>1. f \in TornLive
    BY <1>4, <1>7
  <2> QED
    BY <1>1, <1>4, <1>5, <1>7, <2>1, DamageMoves
<1>8. CASE whole /\ ~Glued(p)
  <2>1. TornLive' \subseteq TornLive /\ damaged' = damaged /\ shorts' = shorts
    BY <1>1, <1>4, <1>5, <1>8
  <2>2. shorts' >= shorts
    BY <2>1 DEF TrailInv, TrailTypes, CountTypes
  <2> QED
    BY <2>1, <2>2, DamageMoves
<1> QED
  BY <1>6, <1>7, <1>8

LEMMA DamageByFailure ==
  ASSUME TrailInv, TrailInv', DamageHeld, NEW p \in Writers, WriteFails(p)
  PROVE  DamageHeld'
<1> DEFINE f == append[p].rec.file
<1>1. append[p] # NoAppend /\ append' = [append EXCEPT ![p] = NoAppend] /\ UNCHANGED <<spool, damaged>>
  BY DEF WriteFails, ghostVars, historyVars
<1>2. \A q \in Writers : append'[q].rec.file \in {append[q].rec.file, 0}
  BY <1>1, NothingPends DEF TrailInv, TrailTypes, WriterTypes
<1>3. CASE disk' = disk /\ shorts' = shorts
  BY <1>1, <1>2, <1>3, DamageStays
<1>4. CASE disk' = Landed(p, TRUE) /\ shorts' = shorts
  <2>1. TornLive' \subseteq TornLive
    <3>1. CASE f \in DOMAIN disk
      BY <1>1, <1>4, <3>1, LandTears
    <3>2. CASE f \notin DOMAIN disk
      BY <1>1, <1>4, <3>2, GoneTears
    <3> QED
      BY <3>1, <3>2
  <2>2. shorts' >= shorts
    BY <1>4 DEF TrailInv, TrailTypes, CountTypes
  <2> QED
    BY <1>1, <2>1, <2>2, DamageMoves
<1>5. CASE disk' = Landed(p, FALSE) /\ shorts' = shorts + 1
  <2>1. TornLive' \subseteq TornLive \cup {f}
    <3>1. CASE f \in DOMAIN disk
      BY <1>1, <1>5, <3>1, LandTears
    <3>2. CASE f \notin DOMAIN disk
      BY <1>1, <1>5, <3>2, GoneTears
    <3> QED
      BY <3>1, <3>2
  <2> QED
    BY <1>1, <1>5, <2>1, DamageMoves
<1> QED
  BY <1>3, <1>4, <1>5 DEF WriteFails

LEMMA DamageByCrash ==
  ASSUME TrailInv, TrailInv', DamageHeld, NEW p \in Writers, Crash(p)
  PROVE  DamageHeld'
<1> DEFINE f == append[p].rec.file
<1>1. /\ append' = [append EXCEPT ![p] = NoAppend] /\ damaged' = damaged /\ shorts' = shorts
      /\ spool' = [spool EXCEPT ![p] = Fresh(ids + 1)] /\ ids < MaxFiles
  BY DEF Crash, ghostVars, historyVars
<1>2. /\ spool \in [Writers -> SpoolType] /\ append \in [Writers -> PendType] /\ TrailTypes /\ FileHeld /\ ids \in Nat
  BY TrailParts DEF TrailInv, TrailTypes, WriterTypes
<1>3. \A q \in Writers : append'[q].rec.file \in {append[q].rec.file, 0}
  BY <1>1, <1>2, NothingPends
<1>4. spool'[p].file = ids + 1 /\ \A q \in Writers \ {p} : spool'[q].file = spool[q].file
  BY <1>1, <1>2, FreshIs
<1>5. \A q \in Writers : spool'[q].file = spool[q].file \/ spool'[q].file > ids
  BY <1>2, <1>4
<1>6. CASE disk' = disk
  BY <1>1, <1>3, <1>5, <1>6, DamageStays
<1>7. CASE append[p] # NoAppend /\ disk' \in {Landed(p, TRUE), Landed(p, FALSE)}
  <2>1. f \in FileIds /\ f \in Nat /\ f <= ids /\ owner[f] = p
    <3>1. f \in FileIds /\ owner[f] = p /\ f <= ids
      BY <1>2, <1>7 DEF FileHeld
    <3> QED
      BY <1>2, <3>1, TrailParts, FilesUpTo
  <2>2. \A q \in Writers : spool'[q].file # f
    <3>1. ids + 1 # f
      BY <1>2, <2>1
    <3>2. ASSUME NEW q \in Writers, q # p PROVE spool[q].file # f
      BY <1>2, <2>1, <3>2 DEF FileHeld
    <3> QED
      BY <1>4, <3>1, <3>2
  <2>3. TornLive' \subseteq TornLive \cup {f} /\ f \notin TornLive'
    <3>1. CASE f \in DOMAIN disk
      BY <1>1, <1>5, <1>7, <2>2, <3>1, LandTears
    <3>2. CASE f \notin DOMAIN disk
      BY <1>1, <1>5, <1>7, <3>2, GoneTears
    <3> QED
      BY <3>1, <3>2
  <2>4. shorts' >= shorts
    BY <1>1 DEF TrailInv, TrailTypes, CountTypes
  <2> QED
    BY <1>1, <2>3, <2>4, DamageMoves
<1> QED
  BY <1>6, <1>7 DEF Crash

LEMMA DamageByOpen ==
  ASSUME TrailInv, TrailInv', DamageHeld, NEW p \in Writers, Open(p)
  PROVE  DamageHeld'
<1>1. /\ append' = [append EXCEPT ![p] = [rec |-> Built(p), inode |-> inode[spool[p].file]]]
      /\ spool' = [spool EXCEPT ![p].ready = "ok", ![p].seq = @ + 1]
      /\ disk' = Directory(spool[p].file) /\ damaged' = damaged /\ shorts' = shorts
  BY DEF Open, ghostVars, historyVars
<1>2. spool \in [Writers -> SpoolType] /\ append \in [Writers -> PendType]
  BY DEF TrailInv, TrailTypes, WriterTypes
<1>3. \A q \in Writers : spool'[q].file = spool[q].file
  BY <1>1, <1>2 DEF SpoolType
<1>4. \A q \in Writers : append'[q].rec.file \in {append[q].rec.file, spool[q].file}
  BY <1>1, <1>2 DEF Built
<1>5. \A g \in DOMAIN disk' : disk'[g].torn => g \in DOMAIN disk /\ disk[g].torn
  BY <1>1 DEF Directory, Empty
<1> QED
  BY <1>1, <1>3, <1>4, <1>5, DamageStays

LEMMA DamageByRotation ==
  ASSUME TrailInv, TrailInv', DamageHeld, (\E p \in Writers : RotateBegin(p)) \/ RotateEnd
  PROVE  DamageHeld'
<1>1. UNCHANGED <<append, disk, damaged, shorts>>
  BY DEF RotateBegin, RotateEnd, fileVars, ghostVars, historyVars, limitVars
<1>2. ASSUME NEW p \in Writers, Renewed(p)
      PROVE  \A q \in Writers : spool'[q].file = spool[q].file \/ spool'[q].file > ids
  BY <1>2, RenewedRolls DEF Rolls
<1>3. ASSUME spool' = [spool EXCEPT !["ui"].due = FALSE, !["ui"].rotating = TRUE]
      PROVE  \A q \in Writers : spool'[q].file = spool[q].file
  <2>1. spool \in [Writers -> SpoolType]
    BY DEF TrailInv, TrailTypes, WriterTypes
  <2> QED
    BY <1>3, <2>1 DEF SpoolType
<1>4. \A q \in Writers : spool'[q].file = spool[q].file \/ spool'[q].file > ids
  BY <1>2, <1>3, WritersAre DEF RotateBegin, RotateEnd
<1> QED
  BY <1>1, <1>4, DamageStays

(* The pass and the reclaim only take files away. *)
LEMMA DamageByReading ==
  ASSUME TrailInv, TrailInv', DamageHeld, UNCHANGED <<append, damaged, shorts>>,
         \A q \in Writers : spool'[q].file = spool[q].file,
         \/ disk' = disk
         \/ \E f : disk' = Removed(f)
         \/ \E f \in FileIds : Age(f)
  PROVE  DamageHeld'
<1>1. \A g \in DOMAIN disk' : disk'[g].torn => g \in DOMAIN disk /\ disk[g].torn
  <2>1. ASSUME NEW f, disk' = Removed(f)
        PROVE  \A g \in DOMAIN disk' : disk'[g].torn => g \in DOMAIN disk /\ disk[g].torn
    BY <2>1 DEF Removed
  <2>2. ASSUME NEW f \in FileIds, Age(f)
        PROVE  \A g \in DOMAIN disk' : disk'[g].torn => g \in DOMAIN disk /\ disk[g].torn
    <3>1. f \in DOMAIN disk /\ disk' = [disk EXCEPT ![f].idle = TRUE] /\ \A g \in DOMAIN disk : disk[g] \in FileType
      BY <2>2 DEF Age, TrailInv, TrailTypes, DiskTypes
    <3> QED
      BY <3>1 DEF FileType
  <2> QED
    BY <2>1, <2>2
<1> QED
  BY <1>1, DamageStays

LEMMA DamageStep ==
  ASSUME TrailInv, TrailInv', DamageHeld, [TrailNext]_trailVars
  PROVE  DamageHeld'
<1>1. ASSUME NEW p \in Writers, Open(p) PROVE DamageHeld'
  BY <1>1, DamageByOpen
<1>2. ASSUME NEW p \in Writers, RefuseOwnership(p) PROVE DamageHeld'
  <2>1. UNCHANGED <<append, disk, damaged, shorts>> /\ spool' = [spool EXCEPT ![p].ready = "refused"]
    BY <1>2 DEF RefuseOwnership, fileVars, ghostVars, historyVars
  <2>2. spool \in [Writers -> SpoolType]
    BY DEF TrailInv, TrailTypes, WriterTypes
  <2>3. \A q \in Writers : spool'[q].file = spool[q].file
    BY <2>1, <2>2 DEF SpoolType
  <2> QED
    BY <2>1, <2>3, DamageByReading
<1>3. ASSUME NEW p \in Writers, Write(p) \/ ShortWrite(p) PROVE DamageHeld'
  BY <1>3, DamageByWrite
<1>4. ASSUME NEW p \in Writers, WriteFails(p) PROVE DamageHeld'
  BY <1>4, DamageByFailure
<1>5. CASE (\E p \in Writers : RotateBegin(p)) \/ RotateEnd
  BY <1>5, DamageByRotation
<1>6. ASSUME NEW p \in Writers, Crash(p) PROVE DamageHeld'
  BY <1>6, DamageByCrash
<1>7. ASSUME NEW f \in FileIds, Age(f) PROVE DamageHeld'
  <2>1. UNCHANGED <<spool, append, damaged, shorts>>
    BY <1>7 DEF Age, spoolVars, ghostVars, historyVars, limitVars
  <2> QED
    BY <1>7, <2>1, DamageByReading
<1>8. CASE ListedAges \/ DrainBegin \/ DrainEnd \/ DrainRead \/ DrainInsert \/ DrainInsertFails
  <2>1. UNCHANGED <<spool, append, disk, damaged, shorts>>
    BY <1>8 DEF ListedAges, DrainBegin, DrainEnd, DrainRead, DrainInsert, DrainInsertFails,
                spoolVars, fileVars, ghostVars, historyVars, limitVars
  <2> QED
    BY <2>1, DamageByReading
<1>9. CASE DrainReclaim
  <2>1. UNCHANGED <<spool, append, damaged, shorts>> /\ disk' \in {disk, Removed(At.file)}
    BY <1>9 DEF DrainReclaim, spoolVars, fileVars, ghostVars, historyVars, limitVars
  <2> QED
    BY <2>1, DamageByReading
<1>10. ASSUME NEW c \in Clis, EnforceCap(c) \/ Exit(c) PROVE DamageHeld'
  <2>1. UNCHANGED <<spool, append, disk, damaged, shorts>>
    BY <1>10 DEF EnforceCap, Exit, spoolVars, fileVars, ghostVars, historyVars, limitVars
  <2> QED
    BY <2>1, DamageByReading
<1>11. ASSUME NEW c \in Clis, ApplyReclaim(c) PROVE DamageHeld'
  <2>1. UNCHANGED <<spool, append, damaged, shorts>> /\ disk' \in {disk, Removed(Min(cli[c].plan))}
    BY <1>11 DEF ApplyReclaim, spoolVars, fileVars, ghostVars, historyVars, limitVars
  <2> QED
    BY <2>1, DamageByReading
<1>12. CASE UNCHANGED trailVars
  <2>1. UNCHANGED <<spool, append, disk, damaged, shorts>>
    BY <1>12 DEF trailVars
  <2> QED
    BY <2>1, DamageByReading
<1> QED
  BY <1>1, <1>2, <1>3, <1>4, <1>5, <1>6, <1>7, <1>8, <1>9, <1>10, <1>11, <1>12 DEF TrailNext

LEMMA DamageStarts == TrailInit => DamageHeld
<1> SUFFICES ASSUME TrailInit PROVE DamageHeld
  OBVIOUS
<1>1. damaged = {} /\ shorts = 0 /\ TornLive = {}
  BY DEF TrailInit, TornLive
<1>2. 0 + 0 <= 2 * 0
  OBVIOUS
<1> QED
  BY <1>1, <1>2, FS_EmptySet DEF DamageHeld

(* A record the drain finds under a key it has drained is the same record. *)
LEMMA NobodyAccused ==
  ASSUME TrailInv, [TrailNext]_trailVars
  PROVE  mismatched' = mismatched
<1>1. CASE DrainInsert \/ DrainInsertFails
  BY <1>1, InsertKeeps
<1>2. ASSUME NEW p \in Writers, Open(p) \/ RefuseOwnership(p) \/ Write(p) \/ ShortWrite(p) \/ WriteFails(p)
                                \/ RotateBegin(p) \/ Crash(p)
      PROVE  mismatched' = mismatched
  BY <1>2 DEF Open, RefuseOwnership, Write, ShortWrite, WriteFails, RotateBegin, Crash
<1>3. CASE RotateEnd \/ (\E f \in FileIds : Age(f)) \/ ListedAges
  BY <1>3 DEF RotateEnd, Age, ListedAges
<1>4. CASE DrainBegin \/ DrainRead \/ DrainReclaim \/ DrainEnd
  BY <1>4 DEF DrainBegin, DrainRead, DrainReclaim, DrainEnd
<1>5. ASSUME NEW c \in Clis, EnforceCap(c) \/ ApplyReclaim(c) \/ Exit(c) PROVE mismatched' = mismatched
  BY <1>5 DEF EnforceCap, ApplyReclaim, Exit
<1>6. CASE UNCHANGED trailVars
  BY <1>6 DEF trailVars
<1> QED
  BY <1>1, <1>2, <1>3, <1>4, <1>5, <1>6 DEF TrailNext

LEMMA SoundFrom ==
  ASSUME TrailInv, DamageHeld, mismatched = {}
  PROVE  ConsoleTrailSound
<1>1. \A r \in acked : owner[r.file] = "ui" => r \in table \cup OnDisk \cup damaged \cup (straddling \cap swept)
  BY WritersAre DEF TrailInv, AckHeld, PlanHeld
<1>2. Cardinality(damaged) <= 2 * shorts
  <2> DEFINE d == Cardinality(damaged)
             t == Cardinality(TornLive)
             s == 2 * shorts
  <2>1. d \in Nat /\ t \in Nat /\ s \in Nat /\ d + t <= s
    <3>1. IsFiniteSet(damaged) /\ IsFiniteSet(TornLive) /\ shorts \in Nat /\ d + t <= s
      BY TornIs DEF TrailInv, TrailTypes, CountTypes, DamageHeld
    <3>2. d \in Nat /\ t \in Nat
      BY <3>1, FS_CardinalityType
    <3> HIDE DEF d, t
    <3> QED
      BY <3>1, <3>2
  <2> HIDE DEF d, t, s
  <2>2. d <= s
    BY <2>1
  <2> QED
    BY <2>2 DEF d, s
<1> QED
  BY <1>1, <1>2 DEF ConsoleTrailSound, ConsoleTrailComplete, NoFalseIntegrityError

(* ConsoleTrailSound: what the console's own appends resolved for is in the audit
   table or readable in the spool, unless its append had the file open both when
   the drain read it and when it removed it; each short write costs two records
   at most - its own and the one glued to it - and no drained record is ever
   accused of having been altered (appendOne, rotate, AuditDrain.pass). *)
THEOREM ConsoleTrailSoundHolds == TrailSpec => []ConsoleTrailSound
<1>1. TrailSpec => []TrailInv
  BY TrailHeld
<1> DEFINE Unaccused == DamageHeld /\ mismatched = {}
<1>2. TrailInit => Unaccused
  BY DamageStarts DEF TrailInit
<1>3. TrailInv /\ TrailInv' /\ Unaccused /\ [TrailNext]_trailVars => Unaccused'
  BY DamageStep, NobodyAccused
<1>4. TrailInv /\ Unaccused => ConsoleTrailSound
  BY SoundFrom
<1> QED
  BY <1>1, <1>2, <1>3, <1>4, PTL DEF TrailSpec
=============================================================================
