---------------------------- MODULE BucketAppend ----------------------------
(***************************************************************************)
(* The append path of the Google Cloud Storage store (gcs-store.ts): each  *)
(* commit folds its staged chunk into the session's one canonical object,  *)
(* a read-modify-write on an object other commits, a replacing commit and  *)
(* the session's hard delete write at the same time, over a network that   *)
(* loses answers.  (The S3 store has no generations to condition on; its   *)
(* read and its write are the two steps of SessionIngest.)                 *)
(*                                                                         *)
(* A chunk is the number of the commit that staged it, the canonical the   *)
(* sequence of the chunks composed into it.  A request the bucket has      *)
(* served and the answer the store has read are two steps.                 *)
(***************************************************************************)
EXTENDS Naturals, Sequences, FiniteSets, FiniteSetsExt, SequencesExt

CONSTANTS
  MaxCommitted,  \* the commits of the session, each with a chunk of its own
  Attempts,    \* APPEND_ATTEMPTS: times an append re-reads the canonical
  CompactAt,   \* COMPACT_THRESHOLD: components before a rewrite in place
  MaxLost      \* bound: answers the network loses

ASSUME AppendAssumption ==
  /\ MaxCommitted \in Nat /\ Attempts \in Nat \ {0}
  /\ CompactAt \in Nat /\ MaxLost \in Nat

VARIABLES
  canon,   \* [gen, chunks, parts]: the canonical object; gen 0 means absent
  appends, \* per commit: where its append stands
  bucket   \* what is staged, what was erased, and how the network behaves

appendVars == <<canon, appends, bucket>>

Appends == 1..MaxCommitted
Absent == [gen |-> 0, chunks |-> <<>>, parts |-> 0]

(* The chunks' sizes: all the same, or all different with sums that never  *)
(* coincide.                                                               *)
Ones   == [a \in Appends |-> 1]
Powers == [a \in Appends |-> 2^(a - 1)]

SumOf(size, chunks) == FoldLeft(LAMBDA sum, a : sum + size[a], 0, chunks)
BytesOf(chunks) == SumOf(bucket.size, chunks)

(* What canonicalHead reads: one round trip, size and generation. *)
HeadOf == [gen |-> canon.gen, bytes |-> BytesOf(canon.chunks)]

(* The sizes and the replacing commit are the world's choice.              *)
AppendInit(on) ==
  /\ canon = Absent
  /\ appends = [a \in Appends |->
       [pc |-> IF on THEN "head" ELSE "off", try |-> 1,
        head |-> [gen |-> 0, bytes |-> 0], got |-> "", snap |-> <<>>]]
  /\ \E size \in {Ones} \cup IF on THEN {Powers} ELSE {},
        replaces \in {{}} \cup IF on THEN {{a} : a \in Appends} ELSE {} :
       bucket = [size |-> size, replaces |-> replaces,
                 staged |-> Appends, erased |-> {}, gens |-> 0, lost |-> 0]

Goto(a, pc) == appends' = [appends EXCEPT ![a].pc = pc]

(* One write of the canonical: a new generation of the bucket. *)
Written(chunks, parts) ==
  canon' = [gen |-> bucket.gens + 1, chunks |-> chunks, parts |-> parts]

(* canonicalHead at the top of every attempt. *)
ReadHead(a) ==
  /\ appends[a].pc = "head"
  /\ appends' = [appends EXCEPT ![a].pc = "write", ![a].head = HeadOf]
  /\ UNCHANGED <<canon, bucket>>

(* The write's precondition: the generation the head was read at, 0 for    *)
(* "only if the object does not exist".                                    *)
MatchIgnored(a) == TRUE
Match(a) == canon.gen = appends[a].head.gen

(* staging.copy for the first chunk and for a replacing commit, which      *)
(* overwrites whatever the canonical held; combine for every other.        *)
Promotes(a) == appends[a].head.gen = 0 \/ a \in bucket.replaces

ServeWrite(a) ==
  /\ appends[a].pc = "write"
  /\ a \in bucket.staged /\ (Promotes(a) \/ canon.gen # 0)
  /\ IF Match(a)
     THEN /\ Written(IF Promotes(a) THEN <<a>> ELSE Append(canon.chunks, a),
                     IF Promotes(a) THEN 1 ELSE canon.parts + 1)
          /\ bucket' = [bucket EXCEPT !.gens = @ + 1,
               !.erased = IF a \in bucket.replaces THEN @ \cup Range(canon.chunks) ELSE @]
          /\ appends' = [appends EXCEPT ![a].pc = "answer", ![a].got = "ok"]
     ELSE /\ appends' = [appends EXCEPT ![a].pc = "answer", ![a].got = "412"]
          /\ UNCHANGED <<canon, bucket>>

(* The source of the copy or the target of the compose is gone: 404, which *)
(* is no precondition failure and leaves the loop as an error.             *)
WriteGone(a) ==
  /\ appends[a].pc = "write"
  /\ a \notin bucket.staged \/ (~Promotes(a) /\ canon.gen = 0)
  /\ Goto(a, "failed")
  /\ UNCHANGED <<canon, bucket>>

(* idempotencyStrategy RetryNever: the client library does not send a      *)
(* write again whose answer it never got, which it would do for one that   *)
(* carries a precondition.                                                 *)
ResendsConditioned(a) == TRUE
Resends(a) == FALSE

(* The answer is lost, and the error goes to the caller.                   *)
AnswerLost(a) ==
  /\ appends[a].pc = "answer" /\ bucket.lost < MaxLost
  /\ bucket' = [bucket EXCEPT !.lost = @ + 1]
  /\ Goto(a, IF Resends(a) THEN "write" ELSE "failed")
  /\ UNCHANGED canon

(* The write landed: the staged chunk goes. A promotion is done; a compose *)
(* reads the canonical's metadata first.                                   *)
AppendLanded(a) ==
  /\ appends[a].pc = "answer" /\ appends[a].got = "ok"
  /\ bucket' = [bucket EXCEPT !.staged = @ \ {a}]
  /\ Goto(a, IF Promotes(a) THEN "landed" ELSE "meta")
  /\ UNCHANGED canon

(* landedAlready: a 412 whose object moved and grew by exactly this chunk  *)
(* is read as this append's own, landed, unanswered write.                 *)
LandedAlreadyMoved(a) == canon.gen # appends[a].head.gen
LandedAlready(a) ==
  /\ appends[a].head.gen # 0 /\ canon.gen # 0
  /\ a \in bucket.staged
  /\ canon.gen # appends[a].head.gen
  /\ BytesOf(canon.chunks) = appends[a].head.bytes + bucket.size[a]

Interrogated(a) ==
  /\ appends[a].pc = "answer" /\ appends[a].got = "412"
  /\ IF LandedAlready(a)
     THEN /\ bucket' = [bucket EXCEPT !.staged = @ \ {a}]
          /\ Goto(a, "accepted")
     ELSE /\ IF appends[a].try < Attempts
             THEN appends' = [appends EXCEPT ![a].pc = "head", ![a].try = @ + 1]
             ELSE Goto(a, "failed")
          /\ UNCHANGED bucket
  /\ UNCHANGED canon

(* getMetadata after the compose: under the threshold the append returns;  *)
(* at it, the generation it read conditions the rewrite in place.          *)
ReadMeta(a) ==
  /\ appends[a].pc = "meta"
  /\ appends' = [appends EXCEPT ![a].head = HeadOf,
       ![a].pc = IF canon.gen = 0 THEN "failed"
                 ELSE IF canon.parts >= CompactAt THEN "snap" ELSE "landed"]
  /\ UNCHANGED <<canon, bucket>>

(* canonical.copy(tmp); a failure anywhere in the rewrite is swallowed.    *)
CopyAside(a) ==
  /\ appends[a].pc = "snap"
  /\ appends' = [appends EXCEPT ![a].snap = canon.chunks,
       ![a].pc = IF canon.gen = 0 THEN "landed" ELSE "compact"]
  /\ UNCHANGED <<canon, bucket>>

(* tmp.copy(canonical) on the post-compose generation, or not at all.      *)
CompactMatchIgnored(a) == canon.gen # 0
CompactMatch(a) == canon.gen = appends[a].head.gen

Compact(a) ==
  /\ appends[a].pc = "compact"
  /\ IF CompactMatch(a)
     THEN /\ Written(appends[a].snap, 1)
          /\ bucket' = [bucket EXCEPT !.gens = @ + 1]
     ELSE UNCHANGED <<canon, bucket>>
  /\ Goto(a, "landed")

(* Any read of the append fails: an error to the caller, the chunk kept.   *)
ReadFails(a) ==
  /\ appends[a].pc \in {"head", "meta"} /\ bucket.lost < MaxLost
  /\ bucket' = [bucket EXCEPT !.lost = @ + 1]
  /\ Goto(a, "failed")
  /\ UNCHANGED canon

(* deleteSession takes the canonical and every staged chunk, generation by *)
(* generation; appends already past their reads go on.                     *)
Purge ==
  /\ canon.gen # 0 /\ bucket.lost < MaxLost
  /\ canon' = Absent
  /\ bucket' = [bucket EXCEPT !.staged = {}, !.lost = @ + 1,
       !.erased = @ \cup Range(canon.chunks) \cup bucket.staged]
  /\ UNCHANGED appends

AppendNext ==
  \/ Purge
  \/ \E a \in Appends :
       \/ ReadHead(a) \/ ServeWrite(a) \/ WriteGone(a) \/ AnswerLost(a)
       \/ AppendLanded(a) \/ Interrogated(a) \/ ReadMeta(a)
       \/ CopyAside(a) \/ Compact(a) \/ ReadFails(a)

AppendSpec == AppendInit(TRUE) /\ [][AppendNext]_appendVars

-----------------------------------------------------------------------------
Acked == {a \in Appends : appends[a].pc \in {"landed", "accepted"}}

(* Two chunks of one size: the coincidence landedAlready cannot tell from  *)
(* its own write, and errs on (gcs-store.ts:97).                           *)
Coincides == \E a, b \in Appends : a # b /\ bucket.size[a] = bucket.size[b]

(* No chain without a's chunk is as long as another without it and a's     *)
(* chunk together: sums of different powers of two differ.                 *)
Once(chunks) == \A i, j \in 1..Len(chunks) : chunks[i] = chunks[j] => i = j
SumsDiffer(chains) ==
  \A s, t \in chains, a \in Appends :
    Once(s) /\ Once(t) /\ a \notin Range(s) \cup Range(t) =>
      SumOf(Powers, s) # SumOf(Powers, t) + Powers[a]

(* An append folds its chunk into the canonical at most once, whatever     *)
(* answer was lost: a second copy would sit in the source of truth, where  *)
(* no byte count sees it (appendChunkToCanonical, RetryNever).             *)
LandsOnce == Once(canon.chunks)

(* A chunk whose commit was acknowledged is in the canonical, or a         *)
(* replacing commit or the hard delete took it out; the one exception is   *)
(* the one the code accepts, an append that read another writer's chunk of *)
(* its own size as its own.                                                *)
NoSilentLoss ==
  \A a \in Acked \ (Range(canon.chunks) \cup bucket.erased) :
    appends[a].pc = "accepted" /\ Coincides

(* The two together: what is in the bucket is what was acknowledged.       *)
AppendSafe == LandsOnce /\ NoSilentLoss
=============================================================================
