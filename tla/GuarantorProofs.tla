--------------------------- MODULE GuarantorProofs ---------------------------
(***************************************************************************)
(* Theorems about the session vault (SessionIngest with the Guarantor's    *)
(* pass), for any lanes, any number of records, re-sends, replacements,    *)
(* failed calls and restarts: it implements SessionArchive, a session once *)
(* deleted stays out of the index, and until then what the index misses    *)
(* can be found, one failure heals, and nothing is indexed twice.          *)
(***************************************************************************)
EXTENDS Guarantor, FiniteSetTheorems, WellFoundedInduction, TLAPS

-----------------------------------------------------------------------------
(***************************************************************************)
(* What a parse yields.  Its turns are records of the text, whatever the   *)
(* twins drop: the n-th of them exists because the yield is counted up one *)
(* position at a time.                                                     *)
(***************************************************************************)
LEMMA NthExists ==
  ASSUME NEW size \in Nat, NEW kept \in SUBSET (1..size), NEW n \in 1..Cardinality(kept)
  PROVE  \E i \in kept : Cardinality({k \in kept : k <= i}) = n
<1> DEFINE Upto(m) == {k \in kept : k <= m}
           Enough == {m \in Nat : Cardinality(Upto(m)) >= n}
<1>1. IsFiniteSet(kept)
  <2>1. IsFiniteSet(1..size)
    BY FS_Interval
  <2> QED
    BY <2>1, FS_Subset
<1>2. \A m \in Nat : IsFiniteSet(Upto(m)) /\ Cardinality(Upto(m)) \in Nat
  BY <1>1, FS_Subset, FS_CardinalityType
<1>3. size \in Enough
  <2>1. Upto(size) = kept
    <3>1. \A k \in kept : k <= size
      OBVIOUS
    <3> QED
      BY <3>1
  <2>2. Cardinality(kept) \in Nat /\ Cardinality(kept) >= n
    BY <1>1, FS_CardinalityType
  <2> QED
    BY <2>1, <2>2
<1>0. IsWellFoundedOn(OpToRel(<, Nat), Nat)
  BY NatLessThanWellFounded
<1>4. PICK m \in Enough : \A x \in Enough : <<x, m>> \notin OpToRel(<, Nat)
  BY <1>0, <1>3, WFMin
<1>5. m \in Nat /\ Cardinality(Upto(m)) >= n /\ \A x \in Enough : ~(x < m)
  BY <1>4 DEF OpToRel
<1>6. m # 0
  <2>0. \A k \in kept : ~(k <= 0)
    OBVIOUS
  <2>1. Upto(0) = {}
    BY <2>0
  <2>2. Cardinality({}) = 0
    BY FS_EmptySet
  <2> QED
    BY <2>1, <2>2, <1>5
<1>7. m - 1 \in Nat /\ ~(Cardinality(Upto(m - 1)) >= n)
  <2>1. m - 1 \in Nat /\ m - 1 < m
    BY <1>5, <1>6
  <2>2. m - 1 \notin Enough
    BY <2>1, <1>5
  <2> QED
    BY <2>1, <2>2
<1>8. m \in kept
  <2> SUFFICES ASSUME m \notin kept PROVE FALSE
    OBVIOUS
  <2>1. \A k \in kept : k <= m <=> k <= m - 1
    BY <1>5
  <2>2. Upto(m) = Upto(m - 1)
    BY <2>1
  <2> QED
    BY <2>2, <1>7, <1>5
<1>9. Upto(m) = Upto(m - 1) \cup {m} /\ m \notin Upto(m - 1)
  <2>1. \A k \in kept : k <= m <=> (k <= m - 1 \/ k = m)
    BY <1>5
  <2>2. ~(m <= m - 1)
    BY <1>5
  <2> QED
    BY <2>1, <2>2, <1>8
<1>10. Cardinality(Upto(m)) = Cardinality(Upto(m - 1)) + 1
  BY <1>7, <1>9, <1>2, FS_AddElement
<1>11. Cardinality(Upto(m)) = n
  <2> DEFINE before == Cardinality(Upto(m - 1))
  <2>1. before \in Nat /\ Cardinality(Upto(m)) = before + 1 /\ before + 1 >= n /\ ~(before >= n)
    BY <1>10, <1>7, <1>5, <1>2
  <2> HIDE DEF before
  <2> QED
    BY <2>1
<1> QED
  BY <1>8, <1>11

LEMMA ParseTurns ==
  ASSUME NEW S, NEW text \in Seq(S)
  PROVE  /\ Parse(text) \in Seq(S)
         /\ Range(Parse(text)) \subseteq Range(text)
<1> DEFINE kept == Yields(text)
           Nth(n) == CHOOSE i \in kept : Cardinality({k \in kept : k <= i}) = n
<1>1. Len(text) \in Nat /\ kept \in SUBSET (1..Len(text))
  BY DEF Yields
<1>2. Cardinality(kept) \in Nat
  <2>1. IsFiniteSet(1..Len(text))
    BY <1>1, FS_Interval
  <2>2. IsFiniteSet(kept)
    BY <2>1, <1>1, FS_Subset
  <2> QED
    BY <2>2, FS_CardinalityType
<1>3. \A n \in 1..Cardinality(kept) : Nth(n) \in kept
  <2> TAKE n \in 1..Cardinality(kept)
  <2>1. \E i \in kept : Cardinality({k \in kept : k <= i}) = n
    BY <1>1, NthExists
  <2> QED
    BY <2>1
<1>4. Parse(text) = [n \in 1..Cardinality(kept) |-> text[Nth(n)]]
  BY DEF Parse
<1>5. \A n \in 1..Cardinality(kept) : text[Nth(n)] \in S /\ text[Nth(n)] \in Range(text)
  <2> TAKE n \in 1..Cardinality(kept)
  <2>1. Nth(n) \in 1..Len(text)
    BY <1>1, <1>3
  <2>2. \A i \in 1..Len(text) : text[i] \in S /\ text[i] \in Range(text)
    BY <1>1 DEF Range
  <2> HIDE DEF Nth
  <2> QED
    BY <2>1, <2>2
<1> HIDE DEF kept, Nth
<1>6. Parse(text) \in Seq(S)
  BY <1>2, <1>4, <1>5
<1>7. Range(Parse(text)) \subseteq Range(text)
  BY <1>2, <1>4, <1>5 DEF Range
<1> QED
  BY <1>6, <1>7

-----------------------------------------------------------------------------
(***************************************************************************)
(* The inductive invariant.                                                *)
(*                                                                         *)
(*  - CommitHeld: between its read and its put a composing commit holds    *)
(*    the canonical as it is, since a lane has one commit in flight; a     *)
(*    replacing one carries every record the client has written;           *)
(*  - IndexHeld: until the tombstone, whatever may reach the index - the   *)
(*    rows themselves, the queued index writes, the text of a reindex and  *)
(*    of the pass - was read from the lane's canonical or composed into it;*)
(*  - DeleteHeld: past its first step a deletion has left its tombstone,   *)
(*    and past a complete purge the index is empty.                        *)
(***************************************************************************)
Text == Seq(1..MaxRecords)
RowType == [here : BOOLEAN, bytes : Nat, turns : Text]
IntentType == [lane : Lanes, chunk : Nat, bytes : Nat]
CommitType == [pc : {"idle", "judge", "read", "put", "intent"}, chunk : Nat, recs : Text,
               replace : BOOLEAN, text : Text, base : Text]
InputType == [chunk : Nat, text : Text, total : Nat, object : Nat, replace : BOOLEAN,
              recovered : BOOLEAN, rebuild : BOOLEAN, expect : Nat \cup {NoCheck}, prior : Nat \cup {NoCheck}]
ReindexType == [pc : {"idle", "read", "apply"}, lane : Lanes, stat : Nat, text : Text]
WithText == {"tail", "verify", "full", "judge"}
PassType == [pc : {"idle", "intents", "gate", "pick", "check", "read", "sweep", "stat", "count"} \cup WithText,
             list : [Lanes -> Nat], forced : SUBSET Lanes, closing : SUBSET Lanes, have : SUBSET Lanes,
             bytes : [Lanes -> Nat], todo : SUBSET Lanes, lane : Lanes, stale : BOOLEAN, text : Text,
             anchor : Nat \cup {NoCheck}, failed : BOOLEAN]

IndexTypes ==
  /\ row \in [Lanes -> RowType] /\ intents \in SUBSET IntentType
  /\ facts \in BOOLEAN /\ tomb \in BOOLEAN
CallTypes ==
  /\ canon \in [Lanes -> Text] /\ written \in [Lanes -> 0..MaxRecords]
  /\ commit \in [Lanes -> CommitType] /\ queue \in [Lanes -> Seq(InputType)]
  /\ del \in {"none", "call", "purge", "store", "storeOnly", "done"}
  /\ resends \in Nat /\ replaces \in Nat /\ reindexes \in Nat
  /\ reindex \in ReindexType
IngestTypes == IndexTypes /\ CallTypes /\ g \in PassType

(* The records a client's commit can carry. *)
Whole(l) == [i \in 1..written[l] |-> i]
Carries(l, c) == IF c.replace THEN c.recs = Whole(l) ELSE \E r \in 1..written[l] : c.recs = <<r>>

CommitHeld(l) ==
  LET c == commit[l] IN
  /\ Range(canon[l]) \subseteq 1..written[l]
  /\ c.pc # "idle" => Carries(l, c) /\ Range(c.text) \subseteq Range(c.recs)
  /\ c.pc = "put" => Range(c.base) \subseteq 1..written[l]
  /\ ~tomb /\ c.pc = "put" => c.base = IF c.replace THEN << >> ELSE canon[l]
  /\ ~tomb /\ c.pc = "intent" => Range(c.recs) \subseteq Range(canon[l])

PassHeld ==
  /\ g.pc \notin WithText => g.text = << >>
  /\ g.pc \in {"tail", "verify"} => g.lane = Parent
  /\ g.pc = "tail" => 0 < g.bytes[Parent] /\ g.bytes[Parent] < Len(g.text)

Backed(l, text) == ~tomb => Range(text) \subseteq Range(canon[l])
QueueHeld(l) == \A i \in 1..Len(queue[l]) : Backed(l, queue[l][i].text)

IndexHeld ==
  /\ \A l \in Lanes : Backed(l, row[l].turns) /\ QueueHeld(l)
  /\ Backed(reindex.lane, reindex.text)
  /\ Backed(g.lane, g.text)

DeleteHeld ==
  /\ del \in {"purge", "store", "storeOnly", "done"} => tomb
  /\ del \in {"store", "done"} => ~facts /\ \A l \in Lanes : ~row[l].here

ArchiveInv == /\ IngestTypes /\ (\A l \in Lanes : CommitHeld(l))
              /\ PassHeld /\ IndexHeld /\ DeleteHeld

(* No lane has a row, and the session no facts, before the parent's row: a purge
   that finds none leaves nothing behind. *)
RowIs(r) == r = [here |-> r.here, bytes |-> r.bytes, turns |-> r.turns]
RowHeld ==
  /\ DOMAIN row = Lanes /\ \A l \in Lanes : RowIs(row[l]) /\ (row[l].here => row[Parent].here)
  /\ facts => row[Parent].here

LEMMA RangesAre ==
  ASSUME NEW S, NEW s \in Seq(S), NEW t \in Seq(S)
  PROVE  /\ Range(s) \subseteq S /\ Range(s \o t) = Range(s) \cup Range(t)
         /\ Range(<< >>) = {} /\ s \o t \in Seq(S)
<1>1. Range(s) \subseteq S /\ Range(<< >>) = {} /\ s \o t \in Seq(S)
  BY DEF Range
<1>2. Range(s \o t) \subseteq Range(s) \cup Range(t)
  BY DEF Range
<1>3. \A i \in 1..Len(s) : s[i] \in Range(s \o t)
  <2> TAKE i \in 1..Len(s)
  <2>1. i \in DOMAIN (s \o t) /\ (s \o t)[i] = s[i]
    OBVIOUS
  <2> QED
    BY <2>1 DEF Range
<1>4. \A i \in 1..Len(t) : t[i] \in Range(s \o t)
  <2> TAKE i \in 1..Len(t)
  <2>1. Len(s) + i \in DOMAIN (s \o t) /\ (s \o t)[Len(s) + i] = t[i]
    OBVIOUS
  <2> QED
    BY <2>1 DEF Range
<1>5. Range(s) \subseteq Range(s \o t) /\ Range(t) \subseteq Range(s \o t)
  <2>1. (\A x \in Range(s) : \E i \in 1..Len(s) : x = s[i]) /\ (\A x \in Range(t) : \E i \in 1..Len(t) : x = t[i])
    BY DEF Range
  <2> QED
    BY <2>1, <1>3, <1>4
<1> QED
  BY <1>1, <1>2, <1>5

LEMMA NothingIs == << >> \in Text /\ Range(<< >>) = {} /\ Len(<< >>) = 0 /\ << >> \in Seq(InputType)
BY DEF Text, Range

LEMMA OneIs ==
  ASSUME NEW S, NEW r \in S
  PROVE  <<r>> \in Seq(S) /\ Range(<<r>>) = {r} /\ Len(<<r>>) = 1
BY DEF Range

LEMMA PartOf ==
  ASSUME NEW S, NEW s \in Seq(S), NEW m \in 1..Len(s)
  PROVE  LET part == SubSeq(s, m, Len(s)) IN part \in Seq(S) /\ Range(part) \subseteq Range(s)
<1> DEFINE part == SubSeq(s, m, Len(s))
<1>1. part \in Seq(S) /\ Len(part) = Len(s) - m + 1
  OBVIOUS
<1>2. \A i \in 1..Len(part) : part[i] = s[i + m - 1] /\ i + m - 1 \in 1..Len(s)
  BY <1>1
<1> HIDE DEF part
<1>3. Range(part) \subseteq Range(s)
  BY <1>1, <1>2 DEF Range
<1> QED
  BY <1>1, <1>3 DEF part

LEMMA RestOf ==
  ASSUME NEW S, NEW s \in Seq(S), NEW n \in 1..Len(s)
  PROVE  LET rest == SubSeq(s, n + 1, Len(s)) IN rest \in Seq(S) /\ Range(rest) \subseteq Range(s)
<1>1. CASE n + 1 \in 1..Len(s)
  BY <1>1, PartOf
<1>2. CASE n = Len(s)
  <2>1. SubSeq(s, n + 1, Len(s)) = << >>
    BY <1>2
  <2> QED
    BY <2>1 DEF Range
<1> QED
  BY <1>1, <1>2

LEMMA StartOf ==
  ASSUME NEW S, NEW s \in Seq(S), NEW n \in 1..Len(s)
  PROVE  SubSeq(s, 1, n) \in Seq(S)
OBVIOUS

(* The types of the parts an action reads. *)
LEMMA PartsAre ==
  ASSUME IngestTypes
  PROVE  /\ MaxRecords \in Nat /\ MaxResends \in Nat /\ Parent \in Lanes
         /\ \A l \in Lanes : /\ canon[l] \in Text /\ Len(canon[l]) \in Nat /\ written[l] \in 0..MaxRecords
                             /\ row[l] \in RowType /\ row[l].turns \in Text /\ row[l].bytes \in Nat
                             /\ commit[l] \in CommitType /\ commit[l].recs \in Text /\ commit[l].base \in Text
                             /\ commit[l].text \in Text /\ queue[l] \in Seq(InputType)
         /\ reindex.text \in Text /\ reindex.lane \in Lanes /\ reindex.stat \in Nat
         /\ g.text \in Text /\ g.lane \in Lanes
<1>1. MaxRecords \in Nat /\ MaxResends \in Nat /\ Parent \in Lanes
  BY BoundAssumption, LanesAssumption
<1>2. ASSUME NEW l \in Lanes
      PROVE  /\ canon[l] \in Text /\ Len(canon[l]) \in Nat /\ written[l] \in 0..MaxRecords
             /\ row[l] \in RowType /\ row[l].turns \in Text /\ row[l].bytes \in Nat
             /\ commit[l] \in CommitType /\ commit[l].recs \in Text /\ commit[l].base \in Text
             /\ commit[l].text \in Text /\ queue[l] \in Seq(InputType)
  <2>1. canon[l] \in Text /\ written[l] \in 0..MaxRecords /\ queue[l] \in Seq(InputType)
    BY DEF IngestTypes, CallTypes
  <2>2. Len(canon[l]) \in Nat
    BY <2>1 DEF Text
  <2>3. row[l] \in RowType
    BY DEF IngestTypes, IndexTypes
  <2>4. commit[l] \in CommitType
    BY DEF IngestTypes, CallTypes
  <2> QED
    BY <2>1, <2>2, <2>3, <2>4 DEF RowType, CommitType
<1>3. reindex.text \in Text /\ reindex.lane \in Lanes /\ reindex.stat \in Nat
  BY DEF IngestTypes, CallTypes, ReindexType
<1>4. g.text \in Text /\ g.lane \in Lanes
  BY DEF IngestTypes, PassType
<1> QED
  BY <1>1, <1>2, <1>3, <1>4

(* The indexing transaction: an input that was backed by the canonical leaves
   the index backed by it; under a tombstone it leaves the index alone. *)
LEMMA TransactDoes ==
  ASSUME IngestTypes, NEW l \in Lanes, NEW in \in InputType, Transact(l, in)
  PROVE  /\ row' \in [Lanes -> RowType] /\ intents' \in SUBSET IntentType /\ facts' \in BOOLEAN /\ tomb' = tomb
         /\ \A k \in Lanes \ {l} : row'[k] = row[k]
         /\ Range(row'[l].turns) \subseteq Range(row[l].turns) \cup Range(in.text)
         /\ tomb => row' = row /\ facts' = facts
<1> DEFINE applied == Outcome(l, in) = "applied"
<1>1. /\ row \in [Lanes -> RowType] /\ row[l] \in RowType /\ row[l].turns \in Text /\ row[l].bytes \in Nat
      /\ in.text \in Text /\ in.total \in Nat /\ in.replace \in BOOLEAN
  BY PartsAre DEF IngestTypes, IndexTypes, InputType
<1>2. /\ row' = IF applied THEN [row EXCEPT ![l] = RowAfter(l, in)] ELSE row
      /\ intents' = IntentsAfter(l, in) /\ tomb' = tomb
      /\ IF applied /\ l = Parent THEN FactsRecomputed ELSE UNCHANGED <<facts, faults>>
  BY DEF Transact
<1>3. tomb => ~applied
  BY DEF Outcome, TombInLock
<1>4. intents' \in SUBSET IntentType
  <2>1. intents \in SUBSET IntentType
    BY DEF IngestTypes, IndexTypes
  <2> QED
    BY <2>1, <1>2 DEF IntentsAfter
<1>5. facts' \in BOOLEAN /\ (tomb => facts' = facts)
  BY <1>2, <1>3 DEF FactsRecomputed, IngestTypes, IndexTypes
<1> HIDE DEF applied
<1> DEFINE kept == IF in.replace THEN << >> ELSE row[l].turns
           turns == kept \o Parse(in.text)
           bytes == Watermark(l, in)
<1>6. /\ kept \in Text /\ Range(kept) \subseteq Range(row[l].turns)
      /\ Parse(in.text) \in Text /\ Range(Parse(in.text)) \subseteq Range(in.text)
  <2>1. << >> \in Text /\ Range(<< >>) = {}
    BY DEF Text, Range
  <2>2. kept \in Text /\ Range(kept) \subseteq Range(row[l].turns)
    BY <2>1, <1>1
  <2>3. Parse(in.text) \in Text /\ Range(Parse(in.text)) \subseteq Range(in.text)
    BY <1>1, ParseTurns DEF Text
  <2> QED
    BY <2>2, <2>3
<1>7. turns \in Text /\ Range(turns) \subseteq Range(row[l].turns) \cup Range(in.text)
  <2> HIDE DEF kept
  <2> QED
    BY <1>6, RangesAre DEF Text
<1>8. bytes \in Nat
  BY <1>1 DEF Watermark
<1>9. RowAfter(l, in) = [here |-> TRUE, bytes |-> bytes, turns |-> turns]
  BY DEF RowAfter, InsertTurns
<1> HIDE DEF kept, turns, bytes
<1>10. RowAfter(l, in) \in RowType /\ RowAfter(l, in).turns = turns
  BY <1>7, <1>8, <1>9 DEF RowType
<1>11. CASE applied
  <2>1. row' = [row EXCEPT ![l] = RowAfter(l, in)]
    BY <1>11, <1>2
  <2>2. row' \in [Lanes -> RowType] /\ row'[l].turns = turns /\ \A k \in Lanes \ {l} : row'[k] = row[k]
    BY <2>1, <1>1, <1>10
  <2> QED
    BY <2>2, <1>11, <1>2, <1>3, <1>4, <1>5, <1>7
<1>12. CASE ~applied
  BY <1>12, <1>1, <1>2, <1>4, <1>5
<1> QED
  BY <1>11, <1>12

-----------------------------------------------------------------------------
(* The commit of one lane. *)

LEMMA NoCommitIs == NoCommit \in CommitType /\ NoCommit.pc = "idle"
<1>1. << >> \in Text
  BY DEF Text
<1> QED
  BY <1>1 DEF NoCommit, CommitType

(* What a commit may be when the client has written w records. *)
CommitFits(l, c, w) ==
  /\ c.pc # "idle" => /\ IF c.replace THEN c.recs = [i \in 1..w |-> i] ELSE \E r \in 1..w : c.recs = <<r>>
                      /\ Range(c.text) \subseteq Range(c.recs)
  /\ c.pc = "put" => Range(c.base) \subseteq 1..w
  /\ ~tomb /\ c.pc = "put" => c.base = IF c.replace THEN << >> ELSE canon[l]
  /\ ~tomb /\ c.pc = "intent" => Range(c.recs) \subseteq Range(canon[l])

(* A step of a lane's commit that writes neither the canonical nor the queue. *)
LEMMA CommitMoves ==
  ASSUME ArchiveInv, NEW l \in Lanes, NEW c \in CommitType, NEW w \in 0..MaxRecords, w >= written[l],
         CommitFits(l, c, w), commit' = [commit EXCEPT ![l] = c], written' = [written EXCEPT ![l] = w],
         UNCHANGED <<canon, row, intents, facts, tomb, del, queue, reindex, g, reindexes>>,
         resends' \in Nat, replaces' \in Nat
  PROVE  ArchiveInv'
<1>1. IngestTypes
  BY DEF ArchiveInv
<1>2. commit' \in [Lanes -> CommitType] /\ written' \in [Lanes -> 0..MaxRecords]
  BY <1>1 DEF IngestTypes, CallTypes
<1>3. IngestTypes'
  BY <1>1, <1>2 DEF IngestTypes, IndexTypes, CallTypes
<1>4. commit'[l] = c /\ written'[l] = w /\ \A k \in Lanes \ {l} : commit'[k] = commit[k] /\ written'[k] = written[k]
  BY <1>1 DEF IngestTypes, CallTypes
<1>5. ASSUME NEW k \in Lanes PROVE CommitHeld(k)'
  <2>1. CommitHeld(k)
    BY DEF ArchiveInv
  <2>2. CASE k # l
    BY <2>1, <2>2, <1>4 DEF CommitHeld, Carries, Whole
  <2>3. CASE k = l
    <3>1. Range(canon[l]) \subseteq 1..w
      <4>1. written[l] \in Nat /\ w \in Nat
        BY PartsAre, <1>1
      <4> QED
        BY <4>1, <2>1, <2>3 DEF CommitHeld
    <3> QED
      BY <3>1, <2>3, <1>4 DEF CommitHeld, Carries, Whole, CommitFits
  <2> QED
    BY <2>2, <2>3
<1>6. PassHeld' /\ IndexHeld' /\ DeleteHeld'
  BY DEF ArchiveInv, PassHeld, IndexHeld, QueueHeld, Backed, DeleteHeld
<1> QED
  BY <1>3, <1>5, <1>6 DEF ArchiveInv

LEMMA SendKeeps ==
  ASSUME ArchiveInv, NEW l \in Lanes, Send(l)
  PROVE  ArchiveInv'
<1>1. /\ IngestTypes /\ written[l] \in 0..MaxRecords /\ MaxRecords \in Nat /\ MaxResends \in Nat
      /\ resends \in Nat /\ replaces \in Nat /\ commit \in [Lanes -> CommitType]
      /\ written \in [Lanes -> 0..MaxRecords]
  BY PartsAre DEF ArchiveInv, IngestTypes, CallTypes
<1>2. UNCHANGED <<canon, row, intents, facts, tomb, del, queue, reindex, g, reindexes>>
  BY DEF Send, pg
<1>3. ASSUME NEW w \in 0..MaxRecords, w >= written[l], NEW n \in Nat, NEW recs \in Text, NEW whole \in BOOLEAN,
             IF whole THEN recs = [i \in 1..w |-> i] ELSE \E r \in 1..w : recs = <<r>>,
             Staged(l, n, recs, whole), written' = [written EXCEPT ![l] = w],
             resends' \in Nat, replaces' \in Nat
      PROVE  ArchiveInv'
  <2> DEFINE c == [NoCommit EXCEPT !.pc = "judge", !.chunk = n, !.recs = recs, !.replace = whole]
  <2>1. commit' = [commit EXCEPT ![l] = c]
    BY <1>3 DEF Staged
  <2>2. c \in CommitType /\ c.pc = "judge" /\ c.recs = recs /\ c.replace = whole /\ c.text = << >>
    BY <1>3, NoCommitIs DEF CommitType, NoCommit
  <2> HIDE DEF c
  <2>3. CommitFits(l, c, w)
    <3>1. Range(<< >>) = {}
      BY DEF Range
    <3> QED
      BY <3>1, <2>2, <1>3 DEF CommitFits
  <2> QED
    BY <1>2, <1>3, <2>1, <2>2, <2>3, CommitMoves
<1>4. CASE /\ written[l] < MaxRecords
           /\ written' = [written EXCEPT ![l] = @ + 1]
           /\ Staged(l, written[l] + 1, <<written[l] + 1>>, FALSE)
           /\ UNCHANGED <<resends, replaces>>
  <2> DEFINE w == written[l] + 1
  <2>1. w \in 1..MaxRecords /\ w \in 0..MaxRecords /\ w \in Nat /\ w >= written[l] /\ w \in 1..w
    BY <1>1, <1>4
  <2>2. written' = [written EXCEPT ![l] = w] /\ Staged(l, w, <<w>>, FALSE) /\ resends' \in Nat /\ replaces' \in Nat
    BY <1>1, <1>4
  <2> HIDE DEF w
  <2>3. <<w>> \in Text
    BY <2>1, OneIs DEF Text
  <2> QED
    BY <1>3, <2>1, <2>2, <2>3
<1>5. written' = written => written' = [written EXCEPT ![l] = written[l]]
  BY <1>1
<1> DEFINE n == MaxRecords + resends + replaces + 1
<1>6. n \in Nat
  BY <1>1
<1> HIDE DEF n
<1>7. CASE /\ written[l] > 0 /\ resends' = resends + 1 /\ UNCHANGED <<written, replaces>>
           /\ Staged(l, n, <<written[l]>>, FALSE)
  <2>1. written[l] \in 1..MaxRecords /\ written[l] \in 1..written[l] /\ resends' \in Nat /\ replaces' \in Nat
    BY <1>1, <1>7
  <2>2. <<written[l]>> \in Text
    BY <2>1, OneIs DEF Text
  <2>3. written[l] >= written[l]
    BY <1>1
  <2> QED
    BY <1>1, <1>3, <1>5, <1>6, <1>7, <2>1, <2>2, <2>3
<1>8. CASE /\ written[l] > 0 /\ replaces' = replaces + 1 /\ UNCHANGED <<written, resends>>
           /\ Staged(l, n, [i \in 1..written[l] |-> i], TRUE)
  <2>1. [i \in 1..written[l] |-> i] \in Text /\ resends' \in Nat /\ replaces' \in Nat /\ written[l] >= written[l]
    BY <1>1, <1>8 DEF Text
  <2> QED
    BY <1>1, <1>3, <1>5, <1>6, <1>8, <2>1
<1> QED
  BY <1>4, <1>7, <1>8 DEF Send, n


LEMMA JudgeKeeps ==
  ASSUME ArchiveInv, NEW l \in Lanes, JudgeCommit(l) \/ ComposeRead(l)
  PROVE  ArchiveInv'
<1> DEFINE c == commit[l]
<1>1. /\ IngestTypes /\ written[l] \in 0..MaxRecords /\ c \in CommitType /\ canon[l] \in Text
      /\ resends \in Nat /\ replaces \in Nat /\ written \in [Lanes -> 0..MaxRecords] /\ written[l] >= written[l]
  <2>1. IngestTypes
    BY DEF ArchiveInv
  <2>2. written[l] \in 0..MaxRecords /\ MaxRecords \in Nat /\ c \in CommitType /\ canon[l] \in Text
    BY <2>1, PartsAre
  <2>3. resends \in Nat /\ replaces \in Nat /\ written \in [Lanes -> 0..MaxRecords]
    BY <2>1 DEF IngestTypes, CallTypes
  <2>4. written[l] >= written[l]
    <3>1. \A w \in 0..MaxRecords : w >= w
      BY <2>2
    <3> QED
      BY <2>2, <3>1
  <2> QED
    BY <2>1, <2>2, <2>3, <2>4
<1>2. /\ UNCHANGED <<canon, row, intents, facts, tomb, del, queue, reindex, g, reindexes, resends, replaces>>
      /\ written' = [written EXCEPT ![l] = written[l]]
  BY <1>1 DEF JudgeCommit, ComposeRead, pg, budget
<1>3. ASSUME NEW d \in CommitType, CommitFits(l, d, written[l]), commit' = [commit EXCEPT ![l] = d]
      PROVE  ArchiveInv'
  BY <1>1, <1>2, <1>3, CommitMoves
<1>4. CommitFits(l, NoCommit, written[l])
  BY NoCommitIs DEF CommitFits
<1>5. CASE commit' = [commit EXCEPT ![l] = NoCommit]
  BY <1>3, <1>4, <1>5, NoCommitIs
<1>6. CommitHeld(l) /\ << >> \in Text /\ Range(<< >>) = {}
  BY DEF ArchiveInv, Text, Range
<1>7. CASE c.pc = "judge" /\ commit' = [commit EXCEPT ![l].pc = "read", ![l].text = c.recs]
  <2> DEFINE d == [c EXCEPT !.pc = "read", !.text = c.recs]
  <2>1. commit' = [commit EXCEPT ![l] = d]
    BY <1>7
  <2>2. d \in CommitType /\ d.pc = "read" /\ d.recs = c.recs /\ d.replace = c.replace /\ d.text = c.recs
    BY <1>1 DEF CommitType
  <2> HIDE DEF d
  <2>3. CommitFits(l, d, written[l])
    BY <2>2, <1>6, <1>7 DEF CommitFits, CommitHeld, Carries, Whole
  <2> QED
    BY <1>3, <2>1, <2>2, <2>3
<1>8. CASE c.pc = "judge" /\ commit' = [commit EXCEPT ![l].pc = "read"]
  <2> DEFINE d == [c EXCEPT !.pc = "read"]
  <2>1. commit' = [commit EXCEPT ![l] = d]
    BY <1>8
  <2>2. d \in CommitType /\ d.pc = "read" /\ d.recs = c.recs /\ d.replace = c.replace /\ d.text = c.text
    BY <1>1 DEF CommitType
  <2> HIDE DEF d
  <2>3. CommitFits(l, d, written[l])
    BY <2>2, <1>6, <1>8 DEF CommitFits, CommitHeld, Carries, Whole
  <2> QED
    BY <1>3, <2>1, <2>2, <2>3
<1> DEFINE base == IF c.replace THEN << >> ELSE canon[l]
<1>9. CASE c.pc = "read" /\ commit' = [commit EXCEPT ![l].pc = "put", ![l].base = base]
  <2> DEFINE d == [c EXCEPT !.pc = "put", !.base = base]
  <2>1. commit' = [commit EXCEPT ![l] = d]
    BY <1>9
  <2>2. base \in Text /\ Range(base) \subseteq 1..written[l]
    BY <1>1, <1>6 DEF CommitHeld
  <2>3. c.replace = d.replace => base = IF d.replace THEN << >> ELSE canon[l]
    OBVIOUS
  <2> HIDE DEF base
  <2>4. d \in CommitType
    BY <1>1, <2>2 DEF CommitType
  <2>5. d.pc = "put" /\ d.recs = c.recs /\ d.replace = c.replace /\ d.text = c.text /\ d.base = base
    BY <1>1 DEF CommitType
  <2> HIDE DEF d
  <2>6. CommitFits(l, d, written[l])
    BY <2>2, <2>3, <2>5, <1>6, <1>9 DEF CommitFits, CommitHeld, Carries, Whole
  <2> QED
    BY <1>3, <2>1, <2>4, <2>6
<1> HIDE DEF base
<1>10. CASE JudgeCommit(l)
  <2>1. \/ commit' = [commit EXCEPT ![l] = NoCommit]
        \/ c.pc = "judge" /\ commit' = [commit EXCEPT ![l].pc = "read", ![l].text = c.recs]
        \/ c.pc = "judge" /\ commit' = [commit EXCEPT ![l].pc = "read"]
    BY <1>10 DEF JudgeCommit, Answer
  <2> QED
    BY <2>1, <1>5, <1>7, <1>8
<1>11. CASE ComposeRead(l)
  <2>1. \/ commit' = [commit EXCEPT ![l] = NoCommit]
        \/ c.pc = "read" /\ commit' = [commit EXCEPT ![l].pc = "put", ![l].base = base]
    BY <1>11 DEF ComposeRead, base
  <2> QED
    BY <2>1, <1>5, <1>9
<1> QED
  BY <1>10, <1>11

(* The put: until the tombstone the canonical keeps its records. *)
LEMMA PutIs ==
  ASSUME ArchiveInv, NEW l \in Lanes, ComposePut(l)
  PROVE  LET t == commit[l].base \o commit[l].recs IN
         /\ canon' = [canon EXCEPT ![l] = t] /\ t \in Text
         /\ Range(t) = Range(commit[l].base) \cup Range(commit[l].recs)
         /\ Range(t) \subseteq 1..written[l]
         /\ ~tomb => Range(canon[l]) \subseteq Range(t)
         /\ ~tomb /\ ~commit[l].replace => \E r \in 1..MaxRecords : t = Append(canon[l], r)
<1> DEFINE c == commit[l]
           t == c.base \o c.recs
<1>1. /\ IngestTypes /\ c \in CommitType /\ c.recs \in Text /\ c.base \in Text /\ canon[l] \in Text
      /\ written[l] \in 0..MaxRecords /\ MaxRecords \in Nat /\ c.pc = "put"
  BY PartsAre DEF ArchiveInv, ComposePut
<1>2. canon' = [canon EXCEPT ![l] = t]
  BY DEF ComposePut
<1>3. t \in Text /\ Range(t) = Range(c.base) \cup Range(c.recs)
  BY <1>1, RangesAre DEF Text
<1>4. CommitHeld(l)
  BY DEF ArchiveInv
<1>5. CASE c.replace
  <2>1. c.recs = Whole(l) /\ Range(Whole(l)) = 1..written[l]
    BY <1>1, <1>4, <1>5 DEF CommitHeld, Carries, Whole, Range
  <2>2. Range(t) = 1..written[l]
    BY <1>1, <1>3, <1>4, <2>1 DEF CommitHeld
  <2> QED
    BY <1>1, <1>2, <1>3, <1>4, <1>5, <2>2 DEF CommitHeld
<1>6. CASE ~c.replace
  <2>1. PICK r \in 1..written[l] : c.recs = <<r>>
    BY <1>1, <1>4, <1>6 DEF CommitHeld, Carries
  <2>2. r \in 1..MaxRecords /\ Range(c.recs) = {r} /\ r \in 1..written[l]
    BY <1>1, <2>1, OneIs
  <2>3. Range(t) \subseteq 1..written[l]
    BY <1>1, <1>3, <1>4, <2>2 DEF CommitHeld
  <2>4. ~tomb => c.base = canon[l]
    BY <1>1, <1>4, <1>6 DEF CommitHeld
  <2>5. ~tomb => t = Append(canon[l], r)
    <3>1. canon[l] \o <<r>> = Append(canon[l], r)
      BY <1>1, <2>2 DEF Text
    <3> QED
      BY <3>1, <2>1, <2>4
  <2> QED
    BY <1>2, <1>3, <1>6, <2>2, <2>3, <2>4, <2>5
<1> QED
  BY <1>5, <1>6

LEMMA PutKeeps ==
  ASSUME ArchiveInv, NEW l \in Lanes, ComposePut(l)
  PROVE  ArchiveInv'
<1> DEFINE c == commit[l]
           t == c.base \o c.recs
           d == [c EXCEPT !.pc = "intent"]
<1>1. IngestTypes /\ c \in CommitType /\ canon \in [Lanes -> Text] /\ commit \in [Lanes -> CommitType]
  BY PartsAre DEF ArchiveInv, IngestTypes, CallTypes
<1>2. /\ canon' = [canon EXCEPT ![l] = t] /\ t \in Text /\ Range(t) = Range(c.base) \cup Range(c.recs)
      /\ Range(t) \subseteq 1..written[l]
      /\ ~tomb => Range(canon[l]) \subseteq Range(t)
  BY PutIs
<1>3. /\ commit' = [commit EXCEPT ![l] = d] /\ c.pc = "put"
      /\ UNCHANGED <<row, intents, facts, tomb, del, queue, reindex, g, written, resends, replaces, reindexes>>
  BY DEF ComposePut, pg, budget
<1>4. d \in CommitType /\ d.pc = "intent" /\ d.recs = c.recs /\ d.replace = c.replace /\ d.text = c.text
  BY <1>1 DEF CommitType
<1> HIDE DEF t, d
<1>5. /\ canon' \in [Lanes -> Text] /\ commit' \in [Lanes -> CommitType] /\ canon'[l] = t /\ commit'[l] = d
      /\ \A k \in Lanes \ {l} : canon'[k] = canon[k] /\ commit'[k] = commit[k]
  BY <1>1, <1>2, <1>3, <1>4
<1>6. IngestTypes'
  BY <1>1, <1>3, <1>5 DEF IngestTypes, IndexTypes, CallTypes
<1>7. ASSUME NEW k \in Lanes PROVE CommitHeld(k)'
  <2>1. CommitHeld(k)
    BY DEF ArchiveInv
  <2>2. CASE k # l
    BY <2>1, <2>2, <1>3, <1>5 DEF CommitHeld, Carries, Whole
  <2>3. CASE k = l
    BY <2>1, <2>3, <1>2, <1>3, <1>4, <1>5 DEF CommitHeld, Carries, Whole
  <2> QED
    BY <2>2, <2>3
<1>8. ~tomb => \A k \in Lanes : Range(canon[k]) \subseteq Range(canon'[k])
  BY <1>2, <1>5
<1>9. IndexHeld'
  <2>1. IndexHeld /\ reindex.lane \in Lanes /\ g.lane \in Lanes
    BY <1>1, PartsAre DEF ArchiveInv
  <2> QED
    BY <2>1, <1>3, <1>8 DEF IndexHeld, QueueHeld, Backed
<1>10. PassHeld' /\ DeleteHeld'
  BY <1>3 DEF ArchiveInv, PassHeld, DeleteHeld
<1> QED
  BY <1>6, <1>7, <1>9, <1>10 DEF ArchiveInv

-----------------------------------------------------------------------------
(* The index and the queue in front of it. *)

LEMMA LiveIs ==
  ASSUME NEW n \in Nat, NEW text \in Text, NEW total \in Nat, NEW whole \in BOOLEAN
  PROVE  Live(n, text, total, whole) \in InputType /\ Live(n, text, total, whole).text = text
BY DEF Live, InputType, NoCheck

LEMMA IndexedKeeps ==
  ASSUME ArchiveInv, NEW l \in Lanes, NEW in \in InputType, Transact(l, in), Backed(l, in.text),
         UNCHANGED <<canon, del>>
  PROVE  /\ IndexTypes' /\ tomb' = tomb /\ DeleteHeld'
         /\ \A k \in Lanes : Backed(k, row[k].turns)'
<1>1. /\ row' \in [Lanes -> RowType] /\ intents' \in SUBSET IntentType /\ facts' \in BOOLEAN /\ tomb' = tomb
      /\ \A k \in Lanes \ {l} : row'[k] = row[k]
      /\ Range(row'[l].turns) \subseteq Range(row[l].turns) \cup Range(in.text)
      /\ tomb => row' = row /\ facts' = facts
  BY TransactDoes DEF ArchiveInv
<1>2. IndexTypes'
  BY <1>1 DEF IndexTypes, ArchiveInv, IngestTypes
<1>3. DeleteHeld'
  BY <1>1 DEF ArchiveInv, DeleteHeld
<1>4. \A k \in Lanes : Backed(k, row[k].turns)
  BY DEF ArchiveInv, IndexHeld
<1>5. ASSUME NEW k \in Lanes PROVE Backed(k, row[k].turns)'
  <2>1. CASE k # l
    BY <2>1, <1>1, <1>4 DEF Backed
  <2>2. CASE k = l
    BY <2>2, <1>1, <1>4 DEF Backed
  <2> QED
    BY <2>1, <2>2
<1> QED
  BY <1>1, <1>2, <1>3, <1>5

(* A queue whose inputs were all in the lane's queue before, or are backed. *)
LEMMA QueueKeeps ==
  ASSUME ArchiveInv, UNCHANGED <<canon, tomb>>, NEW l \in Lanes, NEW q \in Seq(InputType),
         \A i \in 1..Len(q) : Backed(l, q[i].text),
         queue' = [queue EXCEPT ![l] = q]
  PROVE  queue' \in [Lanes -> Seq(InputType)] /\ \A k \in Lanes : QueueHeld(k)'
<1>1. queue \in [Lanes -> Seq(InputType)] /\ \A k \in Lanes : QueueHeld(k)
  BY DEF ArchiveInv, IngestTypes, CallTypes, IndexHeld
<1>2. /\ queue' \in [Lanes -> Seq(InputType)] /\ queue'[l] = q
      /\ \A k \in Lanes \ {l} : queue'[k] = queue[k]
  BY <1>1
<1>3. ASSUME NEW k \in Lanes PROVE QueueHeld(k)'
  <2>1. CASE k # l
    BY <2>1, <1>1, <1>2 DEF QueueHeld, Backed
  <2>2. CASE k = l
    BY <2>2, <1>2 DEF QueueHeld, Backed
  <2> QED
    BY <2>1, <2>2
<1> QED
  BY <1>2, <1>3

LEMMA TailsKeep ==
  ASSUME ArchiveInv, NEW l \in Lanes, queue[l] # << >>
  PROVE  /\ Head(queue[l]) \in InputType /\ Backed(l, Head(queue[l]).text) /\ Tail(queue[l]) \in Seq(InputType)
         /\ \A i \in 1..Len(Tail(queue[l])) : Backed(l, Tail(queue[l])[i].text)
<1>1. queue[l] \in Seq(InputType) /\ QueueHeld(l)
  BY PartsAre DEF ArchiveInv, IndexHeld
<1>2. /\ Head(queue[l]) = queue[l][1] /\ 1 \in 1..Len(queue[l]) /\ Head(queue[l]) \in InputType
      /\ Tail(queue[l]) \in Seq(InputType)
  BY <1>1
<1>3. \A i \in 1..Len(Tail(queue[l])) : Tail(queue[l])[i] = queue[l][i + 1] /\ i + 1 \in 1..Len(queue[l])
  BY <1>1
<1> QED
  BY <1>1, <1>2, <1>3 DEF QueueHeld

(* What follows from the parts that an index write leaves alone. *)
LEMMA CallersKeep ==
  ASSUME ArchiveInv, UNCHANGED <<canon, tomb, commit, written, reindex, g>>
  PROVE  /\ \A k \in Lanes : CommitHeld(k)'
         /\ PassHeld' /\ Backed(reindex.lane, reindex.text)' /\ Backed(g.lane, g.text)'
BY DEF ArchiveInv, CommitHeld, Carries, Whole, PassHeld, IndexHeld, Backed

LEMMA IndexWriteKeeps ==
  ASSUME ArchiveInv, NEW l \in Lanes, IndexWrite(l)
  PROVE  ArchiveInv'
<1>1. queue[l] # << >> /\ IndexHead(l)
  BY DEF IndexWrite, DeferredIndexWrite, RelayedIndexWrite
<1>2. /\ Transact(l, Head(queue[l])) /\ queue' = [queue EXCEPT ![l] = Tail(queue[l])]
      /\ UNCHANGED <<canon, del, commit, reindex, g, written, resends, replaces, reindexes>>
  BY <1>1 DEF IndexHead
<1>3. /\ Head(queue[l]) \in InputType /\ Backed(l, Head(queue[l]).text) /\ Tail(queue[l]) \in Seq(InputType)
      /\ \A i \in 1..Len(Tail(queue[l])) : Backed(l, Tail(queue[l])[i].text)
  BY <1>1, TailsKeep
<1>4. /\ IndexTypes' /\ tomb' = tomb /\ DeleteHeld'
      /\ \A k \in Lanes : Backed(k, row[k].turns)'
  BY <1>2, <1>3, IndexedKeeps
<1>5. queue' \in [Lanes -> Seq(InputType)] /\ \A k \in Lanes : QueueHeld(k)'
  BY <1>2, <1>3, <1>4, QueueKeeps
<1>6. /\ \A k \in Lanes : CommitHeld(k)'
      /\ PassHeld' /\ Backed(reindex.lane, reindex.text)' /\ Backed(g.lane, g.text)'
  BY <1>2, <1>4, CallersKeep
<1>7. IngestTypes'
  BY <1>2, <1>4, <1>5 DEF ArchiveInv, IngestTypes, CallTypes
<1> QED
  BY <1>4, <1>5, <1>6, <1>7 DEF ArchiveInv, IndexHeld

LEMMA LostKeeps ==
  ASSUME ArchiveInv, NEW l \in Lanes, IndexWriteLost(l)
  PROVE  ArchiveInv'
<1>1. /\ queue[l] # << >> /\ queue' = [queue EXCEPT ![l] = Tail(queue[l])]
      /\ UNCHANGED <<canon, row, intents, facts, tomb, del, commit, reindex, g, written, resends, replaces, reindexes>>
  BY DEF IndexWriteLost, pg
<1>2. /\ Tail(queue[l]) \in Seq(InputType)
      /\ \A i \in 1..Len(Tail(queue[l])) : Backed(l, Tail(queue[l])[i].text)
  BY <1>1, TailsKeep
<1>3. queue' \in [Lanes -> Seq(InputType)] /\ \A k \in Lanes : QueueHeld(k)'
  BY <1>1, <1>2, QueueKeeps
<1>4. /\ \A k \in Lanes : CommitHeld(k)'
      /\ PassHeld' /\ Backed(reindex.lane, reindex.text)' /\ Backed(g.lane, g.text)'
  BY <1>1, CallersKeep
<1>5. IngestTypes' /\ DeleteHeld' /\ \A k \in Lanes : Backed(k, row[k].turns)'
  BY <1>1, <1>3 DEF ArchiveInv, IngestTypes, IndexTypes, CallTypes, DeleteHeld, IndexHeld, Backed
<1> QED
  BY <1>3, <1>4, <1>5 DEF ArchiveInv, IndexHeld

LEMMA NoteKeeps ==
  ASSUME ArchiveInv, NEW l \in Lanes, NoteIntent(l)
  PROVE  ArchiveInv'
<1> DEFINE c == commit[l]
           size == Len(c.base) + Len(c.recs)
           in == Live(c.chunk, c.text, size, c.replace)
           q == Append(queue[l], in)
<1>1. /\ IngestTypes /\ c \in CommitType /\ c.text \in Text /\ queue[l] \in Seq(InputType)
      /\ QueueHeld(l) /\ CommitHeld(l) /\ intents \in SUBSET IntentType
      /\ c.base \in Text /\ c.recs \in Text /\ c.chunk \in Nat /\ c.replace \in BOOLEAN
  BY PartsAre DEF ArchiveInv, IngestTypes, IndexTypes, IndexHeld, CommitType
<1>2. /\ c.pc = "intent" /\ intents' \in {intents, intents \cup {Intent(l, c.chunk, size)}}
      /\ queue' = [queue EXCEPT ![l] = q] /\ commit' = [commit EXCEPT ![l] = NoCommit]
      /\ UNCHANGED <<canon, row, facts, tomb, del, reindex, g, written, resends, replaces, reindexes>>
  BY DEF NoteIntent, Noted, Answer
<1>3. size \in Nat
  <2>1. \A t \in Text : Len(t) \in Nat
    BY DEF Text
  <2>2. Len(c.base) \in Nat /\ Len(c.recs) \in Nat
    BY <2>1, <1>1
  <2>3. \A m, k \in Nat : m + k \in Nat
    OBVIOUS
  <2> QED
    BY <2>2, <2>3
<1>4. in \in InputType /\ in.text = c.text
  <2>1. \A total \in Nat : /\ Live(c.chunk, c.text, total, c.replace) \in InputType
                           /\ Live(c.chunk, c.text, total, c.replace).text = c.text
    BY <1>1, LiveIs
  <2> QED
    BY <1>3, <2>1
<1>5. Backed(l, in.text)
  BY <1>1, <1>2, <1>4 DEF Backed, CommitHeld
<1>6. intents' \in SUBSET IntentType
  <2>1. Intent(l, c.chunk, size) \in IntentType
    BY <1>1, <1>3 DEF Intent, IntentType
  <2> QED
    BY <2>1, <1>1, <1>2
<1> HIDE DEF in
<1>7. q \in Seq(InputType) /\ \A i \in 1..Len(q) : Backed(l, q[i].text)
  <2>1. /\ q \in Seq(InputType) /\ Len(q) = Len(queue[l]) + 1 /\ q[Len(q)] = in
        /\ \A i \in 1..Len(queue[l]) : q[i] = queue[l][i]
    BY <1>1, <1>4
  <2>2. ASSUME NEW i \in 1..Len(q) PROVE Backed(l, q[i].text)
    <3>1. i \in 1..Len(queue[l]) \/ i = Len(q)
      BY <2>1, <1>1
    <3>2. i \in 1..Len(queue[l]) => Backed(l, queue[l][i].text)
      BY <1>1 DEF QueueHeld
    <3> QED
      BY <3>1, <3>2, <2>1, <1>5
  <2> QED
    BY <2>1, <2>2
<1> HIDE DEF q
<1>8. queue' \in [Lanes -> Seq(InputType)] /\ \A k \in Lanes : QueueHeld(k)'
  BY <1>2, <1>7, QueueKeeps
<1>9. commit \in [Lanes -> CommitType]
  BY <1>1 DEF IngestTypes, CallTypes
<1>10. /\ commit' \in [Lanes -> CommitType] /\ commit'[l] = NoCommit
       /\ \A k \in Lanes \ {l} : commit'[k] = commit[k]
  BY <1>9, <1>2, NoCommitIs
<1>11. ASSUME NEW k \in Lanes PROVE CommitHeld(k)'
  <2>1. CommitHeld(k)
    BY DEF ArchiveInv
  <2> QED
    BY <2>1, <1>2, <1>10, NoCommitIs DEF CommitHeld, Carries, Whole
<1>12. PassHeld' /\ DeleteHeld' /\ Backed(reindex.lane, reindex.text)' /\ Backed(g.lane, g.text)'
       /\ \A k \in Lanes : Backed(k, row[k].turns)'
  BY <1>2 DEF ArchiveInv, PassHeld, DeleteHeld, IndexHeld, Backed
<1>13. IngestTypes'
  BY <1>1, <1>2, <1>6, <1>8, <1>10 DEF IngestTypes, IndexTypes, CallTypes
<1> QED
  BY <1>8, <1>11, <1>12, <1>13 DEF ArchiveInv, IndexHeld

(* A restart: the calls end, and an unanswered commit is sent again. *)
LEMMA CrashKeeps ==
  ASSUME ArchiveInv, Crash
  PROVE  ArchiveInv'
<1> DEFINE Again(c) == [NoCommit EXCEPT !.pc = "judge", !.chunk = c.chunk, !.recs = c.recs, !.replace = c.replace]
<1>1. /\ IngestTypes /\ commit \in [Lanes -> CommitType] /\ queue \in [Lanes -> Seq(InputType)]
      /\ Parent \in Lanes /\ << >> \in Text /\ Range(<< >>) = {} /\ Len(<< >>) = 0
  BY PartsAre, NothingIs DEF ArchiveInv, IngestTypes, CallTypes
<1>2. /\ queue' = [k \in Lanes |-> IF k \in Tunnel THEN queue[k] ELSE << >>]
      /\ commit' = [k \in Lanes |-> IF commit[k].pc = "idle" THEN NoCommit ELSE Again(commit[k])]
      /\ reindex' = NoReindex /\ g' = NoPass
      /\ del' = IF del \in {"none", "done"} THEN del ELSE "call"
      /\ UNCHANGED <<canon, row, intents, facts, tomb, written, resends, replaces, reindexes>>
  BY DEF Crash, pg
<1>3. \A c \in CommitType : /\ Again(c) \in CommitType /\ Again(c).pc = "judge" /\ Again(c).recs = c.recs
                            /\ Again(c).replace = c.replace /\ Again(c).text = << >>
  BY <1>1 DEF CommitType, NoCommit
<1>4. NoReindex \in ReindexType /\ NoReindex.text = << >> /\ NoReindex.lane \in Lanes
  BY <1>1 DEF ReindexType, NoReindex
<1>5. NoPass \in PassType /\ NoPass.text = << >> /\ NoPass.pc = "idle" /\ NoPass.lane \in Lanes
  BY <1>1 DEF PassType, NoPass
<1> HIDE DEF Again
<1>6. commit' \in [Lanes -> CommitType] /\ queue' \in [Lanes -> Seq(InputType)]
  <2>1. << >> \in Seq(InputType)
    OBVIOUS
  <2> QED
    BY <2>1, <1>1, <1>2, <1>3, NoCommitIs
<1>7. IngestTypes'
  BY <1>1, <1>2, <1>4, <1>5, <1>6 DEF IngestTypes, IndexTypes, CallTypes
<1>8. ASSUME NEW k \in Lanes PROVE CommitHeld(k)'
  <2>1. CommitHeld(k) /\ commit[k] \in CommitType
    BY <1>1 DEF ArchiveInv
  <2>2. CASE commit[k].pc = "idle"
    <3>1. commit'[k] = NoCommit
      BY <1>2, <2>2
    <3> QED
      BY <3>1, <2>1, <1>2, NoCommitIs DEF CommitHeld
  <2>3. CASE commit[k].pc # "idle"
    <3>1. commit'[k] = Again(commit[k])
      BY <1>2, <2>3
    <3> QED
      BY <3>1, <2>1, <2>3, <1>1, <1>2, <1>3 DEF CommitHeld, Carries, Whole
  <2> QED
    BY <2>2, <2>3
<1>9. \A k \in Lanes : Backed(k, row[k].turns)' /\ QueueHeld(k)'
  <2>1. \A k \in Lanes : Backed(k, row[k].turns)'
    BY <1>2 DEF ArchiveInv, IndexHeld, Backed
  <2>2. ASSUME NEW k \in Lanes PROVE QueueHeld(k)'
    <3>1. QueueHeld(k)
      BY DEF ArchiveInv, IndexHeld
    <3>2. CASE k \in Tunnel
      <4>1. queue'[k] = queue[k]
        BY <1>2, <3>2
      <4> QED
        BY <4>1, <3>1, <1>2 DEF QueueHeld, Backed
    <3>3. CASE k \notin Tunnel
      <4>1. Len(queue'[k]) = 0
        BY <1>1, <1>2, <3>3
      <4> QED
        BY <4>1 DEF QueueHeld
    <3> QED
      BY <3>2, <3>3
  <2> QED
    BY <2>1, <2>2
<1>10. Backed(reindex.lane, reindex.text)' /\ Backed(g.lane, g.text)' /\ PassHeld'
  BY <1>1, <1>2, <1>4, <1>5 DEF Backed, PassHeld, WithText
<1>11. DeleteHeld'
  BY <1>2 DEF ArchiveInv, DeleteHeld
<1> QED
  BY <1>7, <1>8, <1>9, <1>10, <1>11 DEF ArchiveInv, IndexHeld

-----------------------------------------------------------------------------
(* reindexCanonical *)

LEMMA ReindexKeeps ==
  ASSUME ArchiveInv, (\E l \in Lanes : ReindexStat(l)) \/ ReindexRead \/ ReindexApply
  PROVE  ArchiveInv'
<1>1. /\ IngestTypes /\ reindex \in ReindexType /\ reindex.lane \in Lanes /\ reindex.stat \in Nat /\ reindex.text \in Text
      /\ canon \in [Lanes -> Text] /\ reindexes \in Nat /\ Parent \in Lanes
      /\ MaxRecords \in Nat /\ MaxResends \in Nat /\ intents \in SUBSET IntentType
      /\ << >> \in Text /\ Range(<< >>) = {}
  BY PartsAre, NothingIs DEF ArchiveInv, IngestTypes, CallTypes, IndexTypes
<1>2. NoReindex \in ReindexType /\ NoReindex.text = << >> /\ NoReindex.lane \in Lanes
  BY <1>1 DEF ReindexType, NoReindex
<1>3. ReindexChunk \in Nat
  BY <1>1 DEF ReindexChunk
<1>4. UNCHANGED <<canon, tomb, del, commit, queue, g, written, resends, replaces>>
  BY DEF ReindexStat, ReindexRead, ReindexApply, Transact, pg, budget
<1>5. ASSUME NEW r \in ReindexType, reindex' = r, r.lane \in Lanes, Backed(r.lane, r.text), intents' \in SUBSET IntentType,
             UNCHANGED <<row, facts>>, reindexes' \in Nat
      PROVE  ArchiveInv'
  <2>1. IngestTypes'
    BY <1>1, <1>4, <1>5 DEF IngestTypes, IndexTypes, CallTypes
  <2>2. \A k \in Lanes : CommitHeld(k)'
    BY <1>4 DEF ArchiveInv, CommitHeld, Carries, Whole
  <2>3. PassHeld' /\ DeleteHeld' /\ Backed(reindex.lane, reindex.text)' /\ Backed(g.lane, g.text)'
    BY <1>4, <1>5 DEF ArchiveInv, PassHeld, DeleteHeld, IndexHeld, Backed
  <2>4. \A k \in Lanes : Backed(k, row[k].turns)' /\ QueueHeld(k)'
    BY <1>4, <1>5 DEF ArchiveInv, IndexHeld, Backed, QueueHeld
  <2> QED
    BY <2>1, <2>2, <2>3, <2>4 DEF ArchiveInv, IndexHeld
<1>6. ASSUME NEW l \in Lanes, ReindexStat(l) PROVE ArchiveInv'
  <2> DEFINE stat == Len(canon[l])
             r == [pc |-> "read", lane |-> l, stat |-> stat, text |-> << >>]
  <2>1. stat \in Nat
    BY <1>1, PartsAre
  <2>2. reindex' \in {r, NoReindex} /\ UNCHANGED <<row, intents, facts>> /\ reindexes' \in Nat
    BY <1>1, <1>6 DEF ReindexStat, pg
  <2> HIDE DEF stat
  <2>3. r \in ReindexType /\ r.lane \in Lanes /\ Backed(r.lane, r.text)
    BY <1>1, <2>1 DEF ReindexType, Backed
  <2>4. Backed(NoReindex.lane, NoReindex.text)
    BY <1>1, <1>2 DEF Backed
  <2> HIDE DEF r
  <2> QED
    BY <1>1, <1>2, <1>5, <2>2, <2>3, <2>4
<1>7. CASE ReindexRead
  <2> DEFINE l == reindex.lane
             text == canon[l]
             r == [reindex EXCEPT !.pc = "apply", !.text = text]
  <2>1. text \in Text
    BY <1>1
  <2>2. Intent(l, ReindexChunk, reindex.stat) \in IntentType
    BY <1>1, <1>3 DEF Intent, IntentType
  <2>3. UNCHANGED <<row, facts>> /\ reindexes' \in Nat
    BY <1>1, <1>7 DEF ReindexRead, budget
  <2>4. \/ reindex' = NoReindex /\ intents' = intents
        \/ reindex' = r /\ intents' = intents \cup {Intent(l, ReindexChunk, reindex.stat)}
    BY <1>7 DEF ReindexRead
  <2>5. r \in ReindexType /\ r.lane = l /\ r.text = text
    <3> HIDE DEF text
    <3> QED
      BY <1>1, <2>1 DEF ReindexType
  <2>6. Backed(r.lane, r.text)
    <3>1. Backed(l, text)
      BY DEF Backed
    <3> QED
      BY <3>1, <2>5
  <2> HIDE DEF r
  <2>7. CASE reindex' = NoReindex /\ intents' = intents
    <3>1. Backed(NoReindex.lane, NoReindex.text)
      BY <1>1, <1>2 DEF Backed
    <3> QED
      BY <3>1, <1>1, <1>2, <1>5, <2>3, <2>7
  <2>8. CASE reindex' = r /\ intents' = intents \cup {Intent(l, ReindexChunk, reindex.stat)}
    BY <1>1, <1>5, <2>2, <2>3, <2>5, <2>6, <2>8
  <2> QED
    BY <2>4, <2>7, <2>8
<1>8. CASE ReindexApply
  <2> DEFINE in == Live(ReindexChunk, reindex.text, reindex.stat, TRUE)
  <2>1. Transact(reindex.lane, in) /\ reindex' = NoReindex /\ reindexes' = reindexes
    BY <1>8 DEF ReindexApply
  <2>2. in \in InputType /\ in.text = reindex.text
    BY <1>1, <1>3, LiveIs
  <2> HIDE DEF in
  <2>3. Backed(reindex.lane, in.text)
    BY <2>2 DEF ArchiveInv, IndexHeld
  <2>4. /\ IndexTypes' /\ tomb' = tomb /\ DeleteHeld'
        /\ \A k \in Lanes : Backed(k, row[k].turns)'
    BY <1>1, <1>4, <2>1, <2>2, <2>3, IndexedKeeps
  <2>5. IngestTypes'
    BY <1>1, <1>2, <1>4, <2>1, <2>4 DEF IngestTypes, CallTypes
  <2>6. \A k \in Lanes : CommitHeld(k)' /\ QueueHeld(k)'
    BY <1>4 DEF ArchiveInv, IndexHeld, CommitHeld, Carries, Whole, QueueHeld, Backed
  <2>7. PassHeld' /\ Backed(reindex.lane, reindex.text)' /\ Backed(g.lane, g.text)'
    BY <1>1, <1>2, <1>4, <2>1 DEF ArchiveInv, PassHeld, IndexHeld, Backed
  <2> QED
    BY <2>4, <2>5, <2>6, <2>7 DEF ArchiveInv, IndexHeld
<1> QED
  BY <1>6, <1>7, <1>8

-----------------------------------------------------------------------------
(* The deletion. *)

LEMMA DeleteKeeps ==
  ASSUME ArchiveInv, RowHeld, DeleteCalled \/ DeleteStep
  PROVE  ArchiveInv'
<1>1. /\ IngestTypes /\ row \in [Lanes -> RowType] /\ canon \in [Lanes -> Text] /\ << >> \in Text /\ Range(<< >>) = {}
  BY NothingIs DEF ArchiveInv, IngestTypes, CallTypes, IndexTypes
<1>2. UNCHANGED <<commit, queue, reindex, g, written, resends, replaces, reindexes>>
  BY DEF DeleteCalled, DeleteStep, MarkSessionDeleted, PurgeSessionPg, StoreDeleteSession, budget
<1>3. PassHeld'
  BY <1>2 DEF ArchiveInv, PassHeld
<1>4. CASE DeleteCalled
  <2>1. del = "none" /\ del' = "call" /\ UNCHANGED <<canon, row, intents, facts, tomb>>
    BY <1>4 DEF DeleteCalled, pg
  <2>2. IngestTypes' /\ DeleteHeld'
    BY <1>1, <1>2, <2>1 DEF IngestTypes, IndexTypes, CallTypes, DeleteHeld
  <2>3. IndexHeld' /\ \A k \in Lanes : CommitHeld(k)'
    BY <1>2, <2>1 DEF ArchiveInv, IndexHeld, QueueHeld, Backed, CommitHeld, Carries, Whole
  <2> QED
    BY <1>3, <2>2, <2>3 DEF ArchiveInv
<1>5. ASSUME tomb', IngestTypes', DeleteHeld', \A k \in Lanes : canon'[k] \in {canon[k], << >>}
      PROVE  ArchiveInv'
  <2>1. ASSUME NEW k \in Lanes PROVE CommitHeld(k)'
    <3>1. CommitHeld(k)
      BY DEF ArchiveInv
    <3>2. Range(canon'[k]) \subseteq Range(canon[k])
      BY <1>1, <1>5
    <3> QED
      BY <3>1, <3>2, <1>2, <1>5 DEF CommitHeld, Carries, Whole
  <2>2. IndexHeld'
    BY <1>5 DEF IndexHeld, QueueHeld, Backed
  <2> QED
    BY <1>3, <1>5, <2>1, <2>2 DEF ArchiveInv
<1>6. \A k \in Lanes : canon[k] \in {canon[k], << >>}
  OBVIOUS
<1>7. CASE MarkSessionDeleted
  <2>1. tomb' /\ tomb' \in BOOLEAN /\ del' = "purge" /\ UNCHANGED <<canon, row, intents, facts>>
    BY <1>7 DEF MarkSessionDeleted, Tombstoned
  <2>2. IngestTypes' /\ DeleteHeld'
    BY <1>1, <1>2, <2>1 DEF IngestTypes, IndexTypes, CallTypes, DeleteHeld
  <2>3. \A k \in Lanes : canon'[k] \in {canon[k], << >>}
    BY <1>6, <2>1
  <2> QED
    BY <1>5, <2>1, <2>2, <2>3
<1>8. CASE PurgeSessionPg
  <2>1. tomb /\ tomb' = tomb /\ canon' = canon
    BY <1>8 DEF PurgeSessionPg, ArchiveInv, DeleteHeld
  <2>2. CASE PurgeRest
    <3>1. NoRow \in RowType /\ ~NoRow.here
      BY <1>1 DEF NoRow, RowType
    <3>2. row' \in [Lanes -> RowType] /\ \A k \in Lanes : ~row'[k].here
      BY <2>2, <3>1 DEF PurgeRest
    <3>3. IngestTypes' /\ DeleteHeld'
      BY <1>1, <1>2, <2>1, <2>2, <3>2 DEF IngestTypes, IndexTypes, CallTypes, DeleteHeld, PurgeRest
    <3> QED
      BY <1>5, <1>6, <2>1, <3>3
  <2>3. ASSUME NEW l \in Lanes, NEW n \in 1..Events(l), PurgeBatch(l, n) PROVE ArchiveInv'
    <3>1. row[l] \in RowType /\ row[l].turns \in Text /\ Len(row[l].turns) \in Nat /\ n \in 1..Len(row[l].turns)
      BY <1>1, <2>3, PartsAre DEF Events
    <3> DEFINE turns == SubSeq(row[l].turns, n + 1, Len(row[l].turns))
               r == [row[l] EXCEPT !.turns = turns]
    <3>2. turns \in Text
      BY <3>1, RestOf DEF Text
    <3> HIDE DEF turns
    <3>3. r \in RowType
      BY <3>1, <3>2 DEF RowType
    <3>4. row' = [row EXCEPT ![l] = r]
      BY <1>1, <2>3 DEF PurgeBatch, turns
    <3> HIDE DEF r
    <3>5. row' \in [Lanes -> RowType] /\ del' \in {"purge", "storeOnly"} /\ UNCHANGED <<intents, facts>>
      BY <1>1, <2>3, <3>3, <3>4 DEF PurgeBatch
    <3>6. IngestTypes' /\ DeleteHeld'
      BY <1>1, <1>2, <2>1, <3>5 DEF IngestTypes, IndexTypes, CallTypes, DeleteHeld
    <3> QED
      BY <1>5, <1>6, <2>1, <3>6
  <2>4. CASE ~row[Parent].here /\ del' = "store" /\ UNCHANGED <<row, intents, facts>>
    <3>1. ~facts /\ \A k \in Lanes : ~row[k].here
      BY <2>4 DEF RowHeld
    <3>2. IngestTypes' /\ DeleteHeld'
      BY <1>1, <1>2, <2>1, <2>4, <3>1 DEF IngestTypes, IndexTypes, CallTypes, DeleteHeld
    <3> QED
      BY <1>5, <1>6, <2>1, <3>2
  <2> QED
    BY <1>8, <2>2, <2>3, <2>4 DEF PurgeSessionPg
<1>9. CASE StoreDeleteSession
  <2>1. PICK batch \in {Lanes, {Parent}} :
          /\ canon' = [k \in Lanes |-> IF k \in batch THEN << >> ELSE canon[k]]
          /\ del' = IF del = "store" /\ batch = Lanes THEN "done" ELSE "call"
    BY <1>9 DEF StoreDeleteSession
  <2>2. tomb /\ UNCHANGED <<row, intents, facts, tomb>>
    BY <1>9 DEF StoreDeleteSession, ArchiveInv, DeleteHeld, pg
  <2>3. canon' \in [Lanes -> Text]
    BY <1>1, <2>1
  <2>4. IngestTypes' /\ DeleteHeld'
    BY <1>1, <1>2, <2>1, <2>2, <2>3 DEF IngestTypes, IndexTypes, CallTypes, DeleteHeld, ArchiveInv
  <2>5. \A k \in Lanes : canon'[k] \in {canon[k], << >>}
    BY <2>1
  <2> QED
    BY <1>5, <2>2, <2>4, <2>5
<1> QED
  BY <1>4, <1>7, <1>8, <1>9 DEF DeleteStep

-----------------------------------------------------------------------------
(* The guarantor's pass. *)

PassFits(q) ==
  /\ q.pc \notin WithText => q.text = << >>
  /\ q.pc \in {"tail", "verify"} => q.lane = Parent
  /\ q.pc = "tail" => 0 < q.bytes[Parent] /\ q.bytes[Parent] < Len(q.text)
  /\ Backed(q.lane, q.text)

passOnly == <<canon, tomb, del, commit, queue, reindex, written, resends, replaces, reindexes>>

(* A step of the pass, whatever it did to the index. *)
LEMMA PassMoves ==
  ASSUME ArchiveInv, NEW q \in PassType, PassFits(q), g' = q, UNCHANGED passOnly,
         IndexTypes', DeleteHeld', \A k \in Lanes : Backed(k, row[k].turns)'
  PROVE  ArchiveInv'
<1>1. IngestTypes'
  BY DEF ArchiveInv, IngestTypes, CallTypes, passOnly
<1>2. \A k \in Lanes : CommitHeld(k)' /\ QueueHeld(k)'
  BY DEF ArchiveInv, IndexHeld, CommitHeld, Carries, Whole, QueueHeld, Backed, passOnly
<1>3. PassHeld' /\ Backed(g.lane, g.text)' /\ Backed(reindex.lane, reindex.text)'
  BY DEF ArchiveInv, PassFits, PassHeld, IndexHeld, Backed, passOnly
<1> QED
  BY <1>1, <1>2, <1>3 DEF ArchiveInv, IndexHeld

LEMMA PassReads ==
  ASSUME ArchiveInv, NEW q \in PassType, PassFits(q), g' = q, UNCHANGED passOnly, UNCHANGED <<row, intents, facts>>
  PROVE  ArchiveInv'
<1>1. IndexTypes' /\ DeleteHeld' /\ \A k \in Lanes : Backed(k, row[k].turns)'
  BY DEF ArchiveInv, IngestTypes, IndexTypes, DeleteHeld, IndexHeld, Backed, passOnly
<1> QED
  BY <1>1, PassMoves

LEMMA PassIndexes ==
  ASSUME ArchiveInv, NEW q \in PassType, PassFits(q), g' = q, UNCHANGED passOnly,
         NEW l \in Lanes, NEW in \in InputType, Transact(l, in), Backed(l, in.text)
  PROVE  ArchiveInv'
<1>1. /\ IndexTypes' /\ DeleteHeld'
      /\ \A k \in Lanes : Backed(k, row[k].turns)'
  BY IndexedKeeps DEF passOnly
<1> QED
  BY <1>1, PassMoves

(* Where the pass goes on from. *)
LEMMA PassIs ==
  ASSUME IngestTypes
  PROVE  /\ NoPass \in PassType /\ NoPass.text = << >> /\ NoPass.pc = "idle" /\ PassFits(NoPass)
         /\ \A failed \in BOOLEAN : NextCanonical(failed) \in PassType /\ PassFits(NextCanonical(failed))
         /\ NextRow \in PassType /\ PassFits(NextRow)
<1>1. /\ g \in PassType /\ Parent \in Lanes /\ << >> \in Text /\ Range(<< >>) = {}
      /\ g.lane \in Lanes /\ g.todo \in SUBSET Lanes /\ g.failed \in BOOLEAN
  BY PartsAre, NothingIs DEF IngestTypes, PassType
<1>2. NoPass \in PassType /\ NoPass.text = << >> /\ NoPass.pc = "idle"
  BY <1>1 DEF NoPass, PassType
<1>3. PassFits(NoPass)
  BY <1>1, <1>2 DEF PassFits, Backed, WithText
<1>4. ASSUME NEW failed \in BOOLEAN PROVE NextCanonical(failed) \in PassType /\ PassFits(NextCanonical(failed))
  <2> DEFINE todo == g.todo \ {g.lane}
             f == g.failed \/ (failed /\ g.lane = Parent)
             q == [g EXCEPT !.pc = "pick", !.todo = todo, !.text = << >>, !.anchor = 0, !.stale = FALSE,
                            !.lane = Parent, !.failed = f]
  <2>1. todo \in SUBSET Lanes /\ f \in BOOLEAN
    BY <1>1
  <2>2. NextCanonical(failed) = q
    BY DEF NextCanonical
  <2> HIDE DEF todo, f
  <2>3. q \in PassType /\ q.pc = "pick" /\ q.text = << >>
    BY <1>1, <2>1 DEF PassType
  <2> HIDE DEF q
  <2> QED
    BY <1>1, <2>2, <2>3 DEF PassFits, Backed, WithText
<1>5. NextRow \in PassType /\ PassFits(NextRow)
  <2> DEFINE todo == g.todo \ {g.lane}
             q == [NoPass EXCEPT !.pc = "sweep", !.todo = todo]
  <2>1. todo \in SUBSET Lanes
    BY <1>1
  <2>2. NextRow = q
    BY DEF NextRow
  <2> HIDE DEF todo
  <2>3. q \in PassType /\ q.pc = "sweep" /\ q.text = << >>
    BY <1>2, <2>1 DEF PassType
  <2> HIDE DEF q
  <2> QED
    BY <1>1, <2>2, <2>3 DEF PassFits, Backed, WithText
<1> QED
  BY <1>2, <1>3, <1>4, <1>5

LEMMA SelectKeeps ==
  ASSUME ArchiveInv, ListStore \/ StaleIntents \/ BulkGate
  PROVE  ArchiveInv'
<1>1. /\ IngestTypes /\ g \in PassType /\ Parent \in Lanes /\ intents \in SUBSET IntentType /\ row \in [Lanes -> RowType]
      /\ facts \in BOOLEAN /\ g.text \in Text /\ g.lane \in Lanes /\ << >> \in Text /\ Range(<< >>) = {}
      /\ g.list \in [Lanes -> Nat] /\ PassHeld
  BY PartsAre, NothingIs DEF ArchiveInv, IngestTypes, IndexTypes, PassType
<1>2. UNCHANGED passOnly /\ row' = row
  BY DEF ListStore, StaleIntents, BulkGate, guarantorOnly, others, pg, budget, passOnly
<1>3. ASSUME NEW q \in PassType, q.text = << >>, q.pc \notin WithText
      PROVE  PassFits(q)
  BY <1>1, <1>3 DEF PassFits, Backed, WithText
<1>4. CASE ListStore
  <2> DEFINE list == [l \in Lanes |-> Len(canon[l])]
             q == [NoPass EXCEPT !.pc = "intents", !.list = list]
  <2>1. list \in [Lanes -> Nat]
    BY <1>1, PartsAre
  <2>2. g' = q /\ UNCHANGED <<intents, facts>>
    BY <1>4 DEF ListStore, guarantorOnly
  <2> HIDE DEF list
  <2>3. q \in PassType /\ q.text = << >> /\ q.pc = "intents"
    BY <1>1, <2>1, PassIs DEF PassType
  <2> HIDE DEF q
  <2>4. PassFits(q)
    BY <1>3, <2>3 DEF WithText
  <2> QED
    BY <1>2, <2>2, <2>3, <2>4, PassReads
<1>5. CASE StaleIntents
  <2> DEFINE open == {i.lane : i \in intents}
             terminal == {l \in open : TerminalIntent(l)}
             closed == open \ terminal
  <2>1. open \in SUBSET Lanes /\ terminal \in SUBSET Lanes /\ closed \in SUBSET Lanes
    BY <1>1 DEF IntentType
  <2>2. /\ g.pc = "intents" /\ UNCHANGED <<intents, facts>>
        /\ \/ g' = [g EXCEPT !.pc = "gate", !.closing = terminal, !.forced = closed]
           \/ g' = [g EXCEPT !.pc = "gate", !.forced = open]
    BY <1>5 DEF StaleIntents, pg
  <2> HIDE DEF open, terminal, closed
  <2> DEFINE q == [g EXCEPT !.pc = "gate", !.closing = terminal, !.forced = closed]
             r == [g EXCEPT !.pc = "gate", !.forced = open]
  <2>3. g.text = << >>
    BY <1>1, <2>2 DEF PassHeld, WithText
  <2>4. q \in PassType /\ q.text = g.text /\ q.pc = "gate"
    BY <1>1, <2>1 DEF PassType
  <2>5. r \in PassType /\ r.text = g.text /\ r.pc = "gate"
    BY <1>1, <2>1 DEF PassType
  <2>6. g' = q \/ g' = r
    BY <2>2
  <2> HIDE DEF q, r
  <2>7. PassFits(q) /\ PassFits(r)
    BY <1>3, <2>3, <2>4, <2>5 DEF WithText
  <2> QED
    BY <1>2, <2>2, <2>4, <2>5, <2>6, <2>7, PassReads
<1>6. CASE BulkGate
  <2> DEFINE have == {l \in Lanes : Events(l) > 0}
             bytes == [l \in Lanes |-> row[l].bytes]
             todo == {l \in Lanes : g.list[l] > 0}
             q == [g EXCEPT !.pc = "pick", !.closing = {}, !.have = have, !.bytes = bytes, !.todo = todo]
  <2>1. have \in SUBSET Lanes /\ bytes \in [Lanes -> Nat] /\ todo \in SUBSET Lanes
    BY <1>1, PartsAre
  <2>2. /\ g.pc = "gate" /\ g' = q /\ intents' \subseteq intents /\ facts' = (facts \/ row[Parent].here)
    BY <1>6 DEF BulkGate, FactsAfter
  <2> HIDE DEF have, bytes, todo
  <2>3. q \in PassType /\ q.text = g.text /\ q.pc = "pick"
    BY <1>1, <2>1 DEF PassType
  <2>4. g.text = << >>
    BY <1>1, <2>2 DEF PassHeld, WithText
  <2> HIDE DEF q
  <2>5. PassFits(q)
    BY <1>3, <2>3, <2>4 DEF WithText
  <2>6. IndexTypes'
    <3>1. row[Parent].here \in BOOLEAN
      BY <1>1 DEF RowType
    <3>2. facts' \in BOOLEAN
      BY <1>1, <2>2, <3>1
    <3> QED
      BY <3>2, <1>1, <1>2, <2>2 DEF IngestTypes, IndexTypes, passOnly
  <2>7. DeleteHeld'
    BY <1>1, <1>2, <2>2 DEF ArchiveInv, DeleteHeld, passOnly
  <2>8. \A k \in Lanes : Backed(k, row[k].turns)'
    BY <1>2 DEF ArchiveInv, IndexHeld, Backed, passOnly
  <2> QED
    BY <1>2, <2>2, <2>3, <2>5, <2>6, <2>7, <2>8, PassMoves
<1> QED
  BY <1>4, <1>5, <1>6

LEMMA WalkKeeps ==
  ASSUME ArchiveInv, PickCanonical \/ HoldBack \/ CheckCanonical \/ SweepRow
  PROVE  ArchiveInv'
<1>1. /\ IngestTypes /\ g \in PassType /\ Parent \in Lanes /\ row \in [Lanes -> RowType]
      /\ g.lane \in Lanes /\ << >> \in Text /\ Range(<< >>) = {} /\ PassHeld /\ g.have \in SUBSET Lanes
  BY PartsAre, NothingIs DEF ArchiveInv, IngestTypes, IndexTypes, PassType
<1>2. UNCHANGED passOnly /\ UNCHANGED <<row, intents, facts>>
  BY DEF PickCanonical, HoldBack, CheckCanonical, SweepRow, guarantorOnly, budget, passOnly
<1>3. g.text = << >>
  BY <1>1 DEF PickCanonical, HoldBack, CheckCanonical, SweepRow, PassHeld, WithText
<1>4. ASSUME NEW q \in PassType, q.text = << >>, q.pc \notin WithText, g' = q
      PROVE  ArchiveInv'
  <2>1. PassFits(q)
    BY <1>1, <1>4 DEF PassFits, Backed, WithText
  <2> QED
    BY <1>2, <1>4, <2>1, PassReads
<1>5. ASSUME NEW todo \in SUBSET Lanes, g' = [g EXCEPT !.todo = todo], g.pc \notin WithText
      PROVE  ArchiveInv'
  <2> DEFINE q == [g EXCEPT !.todo = todo]
  <2>1. q \in PassType /\ q.text = << >> /\ q.pc = g.pc
    BY <1>1, <1>3, <1>5 DEF PassType
  <2> HIDE DEF q
  <2>2. g' = q
    BY <1>5 DEF q
  <2> QED
    BY <1>4, <1>5, <2>1, <2>2
<1>6. \A l \in Lanes : g.todo \ {l} \in SUBSET Lanes
  BY <1>1 DEF PassType
<1>7. CASE PickCanonical
  <2>1. g.pc = "pick"
    BY <1>7 DEF PickCanonical
  <2>2. CASE g.todo = {}
    <3> DEFINE todo == {l \in Lanes : row[l].here}
               q == [NoPass EXCEPT !.pc = "sweep", !.todo = todo]
    <3>1. todo \in SUBSET Lanes
      OBVIOUS
    <3>2. g' = q
      BY <1>7, <2>2 DEF PickCanonical
    <3> HIDE DEF todo
    <3>3. q \in PassType /\ q.text = << >> /\ q.pc = "sweep"
      BY <1>1, <3>1, PassIs DEF PassType
    <3> HIDE DEF q
    <3> QED
      BY <1>4, <3>2, <3>3 DEF WithText
  <2>3. CASE g.todo # {}
    <3>1. PICK l \in Lanes : \/ g' = [g EXCEPT !.todo = @ \ {l}]
                             \/ g' = [g EXCEPT !.pc = "check", !.lane = l, !.stale = l \in g.have]
      BY <1>7, <2>3 DEF PickCanonical
    <3>2. CASE g' = [g EXCEPT !.todo = @ \ {l}]
      BY <1>5, <1>6, <2>1, <3>1, <3>2 DEF WithText
    <3>3. CASE g' = [g EXCEPT !.pc = "check", !.lane = l, !.stale = l \in g.have]
      <4> DEFINE stale == l \in g.have
                 q == [g EXCEPT !.pc = "check", !.lane = l, !.stale = stale]
      <4>1. stale \in BOOLEAN
        OBVIOUS
      <4>2. g' = q
        BY <3>3
      <4> HIDE DEF stale
      <4>3. q \in PassType /\ q.text = << >> /\ q.pc = "check"
        BY <1>1, <1>3, <3>1, <4>1 DEF PassType
      <4> HIDE DEF q
      <4> QED
        BY <1>4, <4>2, <4>3 DEF WithText
    <3> QED
      BY <3>1, <3>2, <3>3
  <2> QED
    BY <2>2, <2>3
<1>8. CASE CheckCanonical
  <2>1. CASE g' = NextCanonical(FALSE)
    <3>1. NextCanonical(FALSE) \in PassType /\ PassFits(NextCanonical(FALSE))
      BY <1>1, PassIs
    <3> QED
      BY <1>2, <2>1, <3>1, PassReads
  <2>2. CASE g' = [g EXCEPT !.pc = "read"]
    <3> DEFINE q == [g EXCEPT !.pc = "read"]
    <3>1. q \in PassType /\ q.text = << >> /\ q.pc = "read"
      BY <1>1, <1>3 DEF PassType
    <3>2. g' = q
      BY <2>2
    <3> HIDE DEF q
    <3> QED
      BY <1>4, <3>1, <3>2 DEF WithText
  <2> QED
    BY <1>8, <2>1, <2>2 DEF CheckCanonical
<1>9. CASE SweepRow
  <2>1. g.pc = "sweep"
    BY <1>9 DEF SweepRow
  <2>2. CASE g.todo = {}
    <3>1. g' = NoPass
      BY <1>9, <2>2 DEF SweepRow
    <3> QED
      BY <1>1, <1>4, <3>1, PassIs DEF WithText
  <2>3. CASE g.todo # {}
    <3>1. PICK l \in Lanes :
             \/ g' = [g EXCEPT !.todo = @ \ {l}]
             \/ g' = [g EXCEPT !.pc = "stat", !.lane = l, !.anchor = IF row[l].here THEN row[l].bytes ELSE NoCheck]
      BY <1>9, <2>3 DEF SweepRow
    <3>2. CASE g' = [g EXCEPT !.todo = @ \ {l}]
      BY <1>5, <1>6, <2>1, <3>1, <3>2 DEF WithText
    <3>3. CASE g' = [g EXCEPT !.pc = "stat", !.lane = l, !.anchor = IF row[l].here THEN row[l].bytes ELSE NoCheck]
      <4> DEFINE anchor == IF row[l].here THEN row[l].bytes ELSE NoCheck
                 q == [g EXCEPT !.pc = "stat", !.lane = l, !.anchor = anchor]
      <4>1. anchor \in Nat \cup {NoCheck}
        BY <1>1, <3>1, PartsAre
      <4>2. g' = q
        BY <3>3
      <4> HIDE DEF anchor
      <4>3. q \in PassType /\ q.text = << >> /\ q.pc = "stat"
        BY <1>1, <1>3, <3>1, <4>1 DEF PassType
      <4> HIDE DEF q
      <4> QED
        BY <1>4, <4>2, <4>3 DEF WithText
    <3> QED
      BY <3>1, <3>2, <3>3
  <2> QED
    BY <2>2, <2>3
<1>10. CASE HoldBack
  <2>1. g.pc = "pick" /\ \E l \in Lanes : g' = [g EXCEPT !.todo = @ \ {l}]
    BY <1>1, <1>10 DEF HoldBack
  <2> QED
    BY <1>5, <1>6, <2>1 DEF WithText
<1> QED
  BY <1>7, <1>8, <1>9, <1>10

LEMMA ReadsKeep ==
  ASSUME ArchiveInv, ReadCanonical \/ VerifyTail \/ SweepStat \/ SweepRead
  PROVE  ArchiveInv'
<1>1. /\ IngestTypes /\ g \in PassType /\ Parent \in Lanes /\ g.lane \in Lanes /\ g.text \in Text
      /\ canon \in [Lanes -> Text] /\ g.bytes \in [Lanes -> Nat] /\ g.list \in [Lanes -> Nat] /\ PassHeld
      /\ Backed(g.lane, g.text) /\ Range(<< >>) = {} /\ g.stale \in BOOLEAN
  BY PartsAre, NothingIs DEF ArchiveInv, IngestTypes, CallTypes, PassType, IndexHeld
<1>2. UNCHANGED passOnly /\ UNCHANGED <<row, intents, facts>>
  BY DEF ReadCanonical, VerifyTail, SweepStat, SweepRead, guarantorOnly, budget, passOnly
<1>3. ASSUME NEW q \in PassType, PassFits(q), g' = q PROVE ArchiveInv'
  BY <1>2, <1>3, PassReads
<1>4. \A failed \in BOOLEAN : g' = NextCanonical(failed) => ArchiveInv'
  BY <1>1, <1>3, PassIs
<1>5. g' = NextRow => ArchiveInv'
  BY <1>1, <1>3, PassIs
<1>6. CASE ReadCanonical
  <2> DEFINE anchor == IF g.stale THEN g.bytes[g.lane] ELSE NoCheck
             tail == CanAppendTail(canon[g.lane])
             pc == IF tail THEN "tail" ELSE "full"
             text == canon[g.lane]
             q == [g EXCEPT !.pc = pc, !.text = text, !.anchor = anchor]
  <2>1. anchor \in Nat \cup {NoCheck} /\ text \in Text /\ Backed(g.lane, text)
    BY <1>1 DEF Backed
  <2>2. g' = NextCanonical(TRUE) \/ g' = q
    BY <1>6 DEF ReadCanonical
  <2>3. tail => g.lane = Parent /\ 0 < g.bytes[Parent] /\ g.bytes[Parent] < Len(text)
    BY DEF CanAppendTail
  <2>4. pc \in {"tail", "full"} /\ (pc = "tail" <=> tail)
    OBVIOUS
  <2> HIDE DEF anchor, tail, pc, text
  <2>5. q \in PassType /\ q.text = text /\ q.pc = pc /\ q.lane = g.lane /\ q.bytes = g.bytes
    BY <1>1, <2>1, <2>4 DEF PassType, WithText
  <2> HIDE DEF q
  <2>6. PassFits(q)
    BY <2>1, <2>3, <2>4, <2>5 DEF PassFits, WithText
  <2> QED
    BY <1>3, <1>4, <2>2, <2>5, <2>6
<1>7. CASE VerifyTail
  <2> DEFINE anchor == IF row[Parent].here THEN row[Parent].bytes ELSE NoCheck
             q == [g EXCEPT !.pc = "full", !.anchor = anchor]
  <2>1. anchor \in Nat \cup {NoCheck}
    BY <1>1, PartsAre
  <2>2. g' = NextCanonical(FALSE) \/ g' = q
    BY <1>7 DEF VerifyTail
  <2> HIDE DEF anchor
  <2>3. q \in PassType /\ q.text = g.text /\ q.pc = "full" /\ q.lane = g.lane
    BY <1>1, <2>1 DEF PassType, WithText
  <2> HIDE DEF q
  <2>4. PassFits(q)
    BY <1>1, <2>3 DEF PassFits, WithText
  <2> QED
    BY <1>3, <1>4, <2>2, <2>3, <2>4
<1>8. CASE SweepStat
  <2> DEFINE stat == Len(canon[g.lane])
             list == [g.list EXCEPT ![g.lane] = stat]
             q == [g EXCEPT !.pc = "count", !.list = list]
  <2>1. list \in [Lanes -> Nat] /\ g.text = << >>
    BY <1>1, <1>8, PartsAre DEF SweepStat, PassHeld, WithText
  <2>2. g' = NextRow \/ g' = q
    BY <1>8 DEF SweepStat
  <2> HIDE DEF list
  <2>3. q \in PassType /\ q.text = << >> /\ q.pc = "count" /\ q.lane = g.lane
    BY <1>1, <2>1 DEF PassType
  <2> HIDE DEF q
  <2>4. PassFits(q)
    BY <1>1, <2>3 DEF PassFits, WithText, Backed
  <2> QED
    BY <1>3, <1>5, <2>2, <2>3, <2>4
<1>9. CASE SweepRead
  <2> DEFINE text == canon[g.lane]
             q == [g EXCEPT !.pc = "judge", !.text = text]
  <2>1. text \in Text /\ Backed(g.lane, text)
    BY <1>1 DEF Backed
  <2>2. g' = NextRow \/ g' = q
    BY <1>9 DEF SweepRead
  <2> HIDE DEF text
  <2>3. q \in PassType /\ q.text = text /\ q.pc = "judge" /\ q.lane = g.lane
    BY <1>1, <2>1 DEF PassType, WithText
  <2> HIDE DEF q
  <2>4. PassFits(q)
    BY <2>1, <2>3 DEF PassFits, WithText
  <2> QED
    BY <1>3, <1>5, <2>2, <2>3, <2>4
<1> QED
  BY <1>6, <1>7, <1>8, <1>9

(* What the three repairs hand to the transaction was read from the canonical. *)
LEMMA RepairsAre ==
  ASSUME ArchiveInv
  PROVE  /\ g.pc = "tail" => TailInput \in InputType /\ Backed(Parent, TailInput.text)
         /\ FullInput \in InputType /\ Backed(g.lane, FullInput.text)
         /\ CountInput \in InputType /\ Backed(g.lane, CountInput.text)
<1>1. /\ IngestTypes /\ g \in PassType /\ Parent \in Lanes /\ g.lane \in Lanes /\ g.text \in Text
      /\ g.bytes \in [Lanes -> Nat] /\ g.list \in [Lanes -> Nat] /\ PassHeld /\ g.stale \in BOOLEAN
      /\ g.anchor \in Nat \cup {NoCheck}
      /\ Backed(g.lane, g.text)
  BY PartsAre DEF ArchiveInv, IngestTypes, PassType, IndexHeld
<1> DEFINE size == Len(g.text)
           parent == g.list[Parent]
           lane == g.list[g.lane]
           tail == TailText
           turns == ExpectPriorTurns
           bytes == g.bytes[Parent]
<1>2. size \in Nat /\ parent \in Nat /\ lane \in Nat /\ bytes \in Nat
  BY <1>1 DEF Text
<1>3. FullInput \in InputType /\ FullInput.text = g.text
  <2>1. FullInput = [chunk |-> RepairChunk, text |-> g.text, total |-> size, object |-> lane, replace |-> TRUE,
                     recovered |-> TRUE, rebuild |-> g.stale, expect |-> g.anchor, prior |-> NoCheck]
    BY DEF FullInput
  <2> HIDE DEF size, lane
  <2> QED
    BY <1>1, <1>2, <2>1 DEF InputType, RepairChunk, NoCheck
<1>4. CountInput \in InputType /\ CountInput.text = g.text
  <2>1. CountInput = [chunk |-> RepairChunk, text |-> g.text, total |-> size, object |-> lane, replace |-> TRUE,
                      recovered |-> TRUE, rebuild |-> TRUE, expect |-> g.anchor, prior |-> NoCheck]
    BY DEF CountInput
  <2> HIDE DEF size, lane
  <2> QED
    BY <1>1, <1>2, <2>1 DEF InputType, RepairChunk, NoCheck
<1>5. ASSUME g.pc = "tail" PROVE TailInput \in InputType /\ Backed(Parent, TailInput.text)
  <2>1. g.lane = Parent /\ 0 < bytes /\ bytes < size
    BY <1>1, <1>5 DEF PassHeld
  <2>2. tail \in Text /\ Range(tail) \subseteq Range(g.text)
    <3>1. bytes + 1 \in 1..Len(g.text)
      BY <1>2, <2>1
    <3> HIDE DEF bytes
    <3>2. SubSeq(g.text, bytes + 1, Len(g.text)) \in Text
          /\ Range(SubSeq(g.text, bytes + 1, Len(g.text))) \subseteq Range(g.text)
      BY <1>1, <3>1, PartOf DEF Text
    <3> QED
      BY <3>2 DEF TailText, bytes
  <2>3. turns \in Nat
    <3>1. Prefix \in Text
      <4>1. g.text \in Seq(1..MaxRecords) /\ bytes \in 1..Len(g.text)
        BY <1>1, <1>2, <2>1 DEF Text
      <4> HIDE DEF bytes
      <4>2. SubSeq(g.text, 1, bytes) \in Seq(1..MaxRecords)
        BY <4>1, StartOf
      <4> QED
        BY <4>2 DEF Prefix, Text, bytes
    <3>2. Parse(Prefix) \in Text
      BY <3>1, ParseTurns DEF Text
    <3> QED
      BY <3>2 DEF Text, ExpectPriorTurns
  <2>4. TailInput = [chunk |-> RepairChunk, text |-> tail, total |-> size, object |-> parent, replace |-> FALSE,
                     recovered |-> TRUE, rebuild |-> TRUE, expect |-> bytes, prior |-> turns]
    BY DEF TailInput
  <2> HIDE DEF size, parent, tail, turns, bytes
  <2>5. TailInput \in InputType /\ TailInput.text = tail
    BY <1>2, <2>2, <2>3, <2>4 DEF InputType, RepairChunk
  <2> QED
    BY <1>1, <2>1, <2>2, <2>5 DEF Backed
<1> QED
  BY <1>1, <1>3, <1>4, <1>5

LEMMA RepairsKeep ==
  ASSUME ArchiveInv, AppendTail \/ (\E l \in Lanes : RebuildFrom(l)) \/ SweepJudge
  PROVE  ArchiveInv'
<1>1. /\ IngestTypes /\ g \in PassType /\ Parent \in Lanes /\ g.lane \in Lanes /\ g.text \in Text /\ PassHeld
      /\ Backed(g.lane, g.text)
  BY PartsAre DEF ArchiveInv, IngestTypes, PassType, IndexHeld
<1>2. UNCHANGED <<canon, del, commit, queue, reindex, written, resends, replaces, reindexes>> /\ tomb' = tomb
  BY DEF AppendTail, RebuildFrom, SweepJudge, others, Transact, pg
<1>3. UNCHANGED passOnly
  BY <1>2 DEF passOnly
<1>4. \A failed \in BOOLEAN : NextCanonical(failed) \in PassType /\ PassFits(NextCanonical(failed))
  BY <1>1, PassIs
<1>5. CASE AppendTail
  <2>1. g.pc = "tail" /\ Transact(Parent, TailInput) /\ TailInput \in InputType /\ Backed(Parent, TailInput.text)
    BY <1>5, RepairsAre DEF AppendTail
  <2>2. \/ g' = NextCanonical(FALSE) \/ g' = NextCanonical(TRUE)
        \/ g' = [g EXCEPT !.pc = "verify"] \/ g' = [g EXCEPT !.pc = "full"]
    BY <1>5 DEF AppendTail
  <2>3. ASSUME NEW pc \in {"verify", "full"}
        PROVE  [g EXCEPT !.pc = pc] \in PassType /\ PassFits([g EXCEPT !.pc = pc])
    <3> DEFINE q == [g EXCEPT !.pc = pc]
    <3>1. q \in PassType /\ q.pc = pc /\ q.lane = g.lane /\ q.text = g.text
      BY <1>1, <2>3 DEF PassType, WithText
    <3> HIDE DEF q
    <3>2. PassFits(q)
      BY <1>1, <2>1, <3>1, <2>3 DEF PassFits, PassHeld, WithText
    <3> QED
      BY <3>1, <3>2 DEF q
  <2>4. \E q \in PassType : PassFits(q) /\ g' = q
    BY <1>4, <2>2, <2>3
  <2> QED
    BY <1>1, <1>3, <2>1, <2>4, PassIndexes
<1>6. ASSUME NEW l \in Lanes, RebuildFrom(l) PROVE ArchiveInv'
  <2> DEFINE failed == Outcome(l, FullInput) \in {"session_deleted", "parent_not_indexed"}
  <2>1. g.lane = l /\ Transact(l, FullInput) /\ g' = NextCanonical(failed) /\ failed \in BOOLEAN
    BY <1>6 DEF RebuildFrom
  <2> HIDE DEF failed
  <2>2. FullInput \in InputType /\ Backed(l, FullInput.text)
    BY <2>1, RepairsAre
  <2>3. \E q \in PassType : PassFits(q) /\ g' = q
    BY <1>4, <2>1
  <2> QED
    BY <1>1, <1>3, <2>1, <2>2, <2>3, PassIndexes
<1>7. CASE SweepJudge
  <2>1. g' = NextRow /\ NextRow \in PassType /\ PassFits(NextRow)
    BY <1>1, <1>7, PassIs DEF SweepJudge
  <2>2. \/ UNCHANGED <<row, intents, facts>>
        \/ Transact(g.lane, CountInput)
    BY <1>7 DEF SweepJudge, pg
  <2>3. CASE UNCHANGED <<row, intents, facts>>
    BY <1>3, <2>1, <2>3, PassReads
  <2>4. CASE Transact(g.lane, CountInput)
    <3>1. CountInput \in InputType /\ Backed(g.lane, CountInput.text)
      BY RepairsAre
    <3> QED
      BY <1>1, <1>3, <2>1, <2>4, <3>1, PassIndexes
  <2> QED
    BY <2>2, <2>3, <2>4
<1> QED
  BY <1>5, <1>6, <1>7

-----------------------------------------------------------------------------
LEMMA ArchiveInvInit == Init => ArchiveInv
<1> SUFFICES ASSUME Init PROVE ArchiveInv
  OBVIOUS
<1>1. /\ Parent \in Lanes /\ MaxRecords \in Nat /\ << >> \in Text /\ Range(<< >>) = {} /\ Len(<< >>) = 0
      /\ << >> \in Seq(InputType)
  BY NothingIs, LanesAssumption, BoundAssumption
<1>2. NoRow \in RowType /\ NoRow.turns = << >> /\ ~NoRow.here
  BY <1>1 DEF NoRow, RowType
<1>3. NoReindex \in ReindexType /\ NoReindex.text = << >>
  BY <1>1 DEF ReindexType, NoReindex
<1>4. NoPass \in PassType /\ NoPass.text = << >> /\ NoPass.pc = "idle"
  BY <1>1 DEF PassType, NoPass
<1>5. IngestTypes
  <2>1. IndexTypes
    BY <1>2 DEF Init, IndexTypes
  <2>2. 0 \in 0..MaxRecords
    BY <1>1
  <2>3. CallTypes
    BY <1>1, <1>3, <2>2, NoCommitIs DEF Init, CallTypes
  <2> QED
    BY <1>4, <2>1, <2>3 DEF Init, IngestTypes
<1>6. \A l \in Lanes : CommitHeld(l)
  BY <1>1, NoCommitIs DEF Init, CommitHeld
<1>7. PassHeld /\ DeleteHeld
  BY <1>4 DEF Init, PassHeld, DeleteHeld, WithText
<1>8. IndexHeld
  BY <1>1, <1>2, <1>3, <1>4 DEF Init, IndexHeld, Backed, QueueHeld
<1> QED
  BY <1>5, <1>6, <1>7, <1>8 DEF ArchiveInv

LEMMA ArchiveInvNext == ArchiveInv /\ RowHeld /\ [Next]_vars => ArchiveInv'
<1> SUFFICES ASSUME ArchiveInv, RowHeld, [Next]_vars PROVE ArchiveInv'
  OBVIOUS
<1>1. ASSUME NEW l \in Lanes, Send(l) \/ CommitStep(l) \/ IndexWrite(l) \/ IndexWriteLost(l) PROVE ArchiveInv'
  BY <1>1, SendKeeps, JudgeKeeps, PutKeeps, NoteKeeps, IndexWriteKeeps, LostKeeps DEF CommitStep
<1>2. CASE (\E l \in Lanes : ReindexStat(l)) \/ ReindexStep
  BY <1>2, ReindexKeeps DEF ReindexStep
<1>3. CASE DeleteCalled \/ DeleteStep
  BY <1>3, DeleteKeeps
<1>4. CASE Pass
  <2>1. \A l \in Lanes : RebuildFrom(l) => ArchiveInv'
    BY RepairsKeep
  <2>2. RebuildParent \/ RebuildLane => ArchiveInv'
    BY <2>1, LanesAssumption DEF RebuildParent, RebuildLane, Agents
  <2> QED
    BY <1>4, <2>2, SelectKeeps, WalkKeeps, ReadsKeep, RepairsKeep DEF Pass
<1>5. CASE Crash
  BY <1>5, CrashKeeps
<1>6. CASE UNCHANGED vars
  <2>1. UNCHANGED <<passOnly, row, intents, facts, g>>
    BY <1>6 DEF vars, passOnly
  <2>2. g \in PassType /\ PassFits(g)
    BY DEF ArchiveInv, IngestTypes, PassHeld, IndexHeld, PassFits
  <2> QED
    BY <2>1, <2>2, PassReads
<1> QED
  BY <1>1, <1>2, <1>3, <1>4, <1>5, <1>6 DEF Next, Step

LEMMA TransactHolds ==
  ASSUME RowHeld, NEW l \in Lanes, NEW in, Transact(l, in)
  PROVE  RowHeld'
<1>1. CASE Outcome(l, in) = "applied"
  <2>1. ~ParentMissing(l)
    BY <1>1 DEF Outcome
  <2>2. row' = [row EXCEPT ![l] = RowAfter(l, in)] /\ RowIs(RowAfter(l, in)) /\ RowAfter(l, in).here
    BY <1>1 DEF Transact, RowAfter, RowIs
  <2>3. DOMAIN row' = Lanes /\ (\A k \in Lanes : RowIs(row'[k])) /\ row'[Parent].here
    BY <2>1, <2>2, LanesAssumption DEF RowHeld, ParentMissing
  <2> QED
    BY <2>3 DEF RowHeld
<1>2. CASE Outcome(l, in) # "applied"
  <2>1. UNCHANGED <<row, facts>>
    BY <1>2 DEF Transact
  <2> QED
    BY <2>1 DEF RowHeld
<1> QED
  BY <1>1, <1>2

LEMMA RowsStay ==
  ASSUME ArchiveInv, RowHeld, [Next]_vars
  PROVE  RowHeld'
<1>1. Parent \in Lanes /\ reindex.lane \in Lanes /\ g.lane \in Lanes
  BY PartsAre, LanesAssumption DEF ArchiveInv
<1>2. ASSUME UNCHANGED <<row, facts>> PROVE RowHeld'
  BY <1>2 DEF RowHeld
<1>3. ASSUME NEW l \in Lanes, NEW in, Transact(l, in) PROVE RowHeld'
  BY <1>3, TransactHolds
<1>4. ASSUME NEW l \in Lanes, Send(l) \/ CommitStep(l) \/ IndexWriteLost(l) \/ ReindexStat(l) PROVE RowHeld'
  BY <1>2, <1>4 DEF Send, CommitStep, JudgeCommit, ComposeRead, ComposePut, NoteIntent, IndexWriteLost, ReindexStat, pg
<1>5. ASSUME NEW l \in Lanes, IndexWrite(l) PROVE RowHeld'
  BY <1>3, <1>5 DEF IndexWrite, DeferredIndexWrite, RelayedIndexWrite, IndexHead
<1>6. CASE ReindexStep
  BY <1>1, <1>2, <1>3, <1>6 DEF ReindexStep, ReindexRead, ReindexApply
<1>7. CASE DeleteCalled \/ DeleteStep
  <2>1. CASE DeleteCalled \/ MarkSessionDeleted \/ StoreDeleteSession
    BY <1>2, <2>1 DEF DeleteCalled, MarkSessionDeleted, StoreDeleteSession, pg
  <2>2. CASE PurgeSessionPg
    <3>1. CASE PurgeRest
      BY <3>1, <1>1 DEF PurgeRest, RowHeld, RowIs, NoRow
    <3>2. ASSUME NEW l \in Lanes, NEW n \in 1..Events(l), PurgeBatch(l, n) PROVE RowHeld'
      <4> DEFINE r == [row[l] EXCEPT !.turns = SubSeq(@, n + 1, Len(@))]
      <4>1. RowIs(r) /\ r.here = row[l].here
        <5> DEFINE turns == SubSeq(row[l].turns, n + 1, Len(row[l].turns))
        <5>1. row[l] = [here |-> row[l].here, bytes |-> row[l].bytes, turns |-> row[l].turns]
          BY DEF RowHeld, RowIs
        <5> HIDE DEF turns
        <5>2. [row[l] EXCEPT !.turns = turns] = [here |-> row[l].here, bytes |-> row[l].bytes, turns |-> turns]
          BY <5>1
        <5> QED
          BY <5>2 DEF RowIs, turns
      <4>2. row' = [row EXCEPT ![l] = r] /\ facts' = facts
        BY <3>2 DEF PurgeBatch
      <4> HIDE DEF r
      <4>3. DOMAIN row' = Lanes /\ \A k \in Lanes : RowIs(row'[k]) /\ row'[k].here = row[k].here
        BY <4>1, <4>2 DEF RowHeld
      <4> QED
        BY <1>1, <4>2, <4>3 DEF RowHeld
    <3>3. CASE UNCHANGED <<row, facts>>
      BY <1>2, <3>3
    <3> QED
      BY <2>2, <3>1, <3>2, <3>3 DEF PurgeSessionPg
  <2> QED
    BY <1>7, <2>1, <2>2 DEF DeleteStep
<1>8. CASE Pass
  <2>1. CASE BulkGate
    BY <2>1, <1>1 DEF BulkGate, FactsAfter, RowHeld
  <2>2. CASE \/ ListStore \/ StaleIntents \/ PickCanonical \/ HoldBack \/ CheckCanonical \/ ReadCanonical
             \/ VerifyTail \/ SweepRow \/ SweepStat \/ SweepRead
    <3>1. UNCHANGED <<row, facts>>
      BY <2>2 DEF ListStore, StaleIntents, PickCanonical, HoldBack, CheckCanonical, ReadCanonical, VerifyTail,
         SweepRow, SweepStat, SweepRead, guarantorOnly, pg
    <3> QED
      BY <1>2, <3>1
  <2>3. CASE AppendTail
    BY <1>1, <1>3, <2>3 DEF AppendTail
  <2>4. ASSUME NEW l \in Lanes, RebuildFrom(l) PROVE RowHeld'
    BY <1>3, <2>4 DEF RebuildFrom
  <2>5. CASE SweepJudge
    BY <1>1, <1>2, <1>3, <2>5 DEF SweepJudge, pg
  <2> QED
    BY <1>1, <1>8, <2>1, <2>2, <2>3, <2>4, <2>5 DEF Pass, RebuildParent, RebuildLane, Agents
<1>9. CASE Crash \/ UNCHANGED vars
  BY <1>2, <1>9 DEF Crash, pg, vars
<1> QED
  BY <1>4, <1>5, <1>6, <1>7, <1>8, <1>9 DEF Next, Step

LEMMA RowHeldInit == Init => RowHeld
  BY LanesAssumption DEF Init, RowHeld, RowIs, NoRow

LEMMA ArchiveHeld == Spec => []ArchiveInv
<1> DEFINE I == ArchiveInv /\ RowHeld
<1>1. Init => I
  BY ArchiveInvInit, RowHeldInit
<1>2. I /\ [Next]_vars => I'
  BY ArchiveInvNext, RowsStay
<1>3. I => ArchiveInv
  OBVIOUS
<1> QED
  BY <1>1, <1>2, <1>3, PTL DEF Spec

(* delete.ts, and the tombstone re-read of ingest.ts: once the bucket purge has
   answered, the session is out of the index for good, whatever was queued, in
   flight or being repaired when the delete was called. *)
THEOREM DeletedStaysOutHolds == Spec => []DeletedStaysOut
<1>1. ArchiveInv => DeletedStaysOut
  BY DEF ArchiveInv, DeleteHeld, DeletedStaysOut
<1> QED
  BY <1>1, ArchiveHeld, PTL

-----------------------------------------------------------------------------
(***************************************************************************)
(* The refinement.  A step of the vault is a step of the archive, or one   *)
(* the archive does not see.                                               *)
(***************************************************************************)
Found == [l \in Lanes |-> Range(row[l].turns)]

LEMMA ArchiveSees ==
  ASSUME ArchiveInv, UNCHANGED <<canon, row, tomb>>
  PROVE  UNCHANGED <<canon, Found, tomb>>
BY DEF Found

(* A transaction rebuilds one lane's index from what the transcript holds. *)
LEMMA TransactReindexes ==
  ASSUME ArchiveInv, NEW l \in Lanes, NEW in \in InputType, Transact(l, in), Backed(l, in.text), UNCHANGED canon
  PROVE  [Archive!Step]_<<canon, Found, tomb>>
<1>1. /\ row' \in [Lanes -> RowType] /\ tomb' = tomb
      /\ \A k \in Lanes \ {l} : row'[k] = row[k]
      /\ Range(row'[l].turns) \subseteq Range(row[l].turns) \cup Range(in.text)
      /\ tomb => row' = row /\ facts' = facts
  BY TransactDoes DEF ArchiveInv
<1>2. CASE tomb
  BY <1>1, <1>2, ArchiveSees
<1>3. CASE ~tomb
  <2> DEFINE found == Range(row'[l].turns)
  <2>1. Range(row[l].turns) \subseteq Range(canon[l]) /\ Range(in.text) \subseteq Range(canon[l])
    BY <1>3 DEF ArchiveInv, IndexHeld, Backed
  <2>2. found \in SUBSET Range(canon[l])
    BY <1>1, <2>1
  <2>3. Found' = [Found EXCEPT ![l] = found]
    BY <1>1 DEF Found
  <2> HIDE DEF found
  <2>4. Archive!Reindex(l)
    BY <1>1, <1>3, <2>2, <2>3 DEF Archive!Reindex, Found, Range, Archive!Range
  <2> QED
    BY <2>4 DEF Archive!Step
<1> QED
  BY <1>2, <1>3

LEMMA PutUploads ==
  ASSUME ArchiveInv, NEW l \in Lanes, ComposePut(l)
  PROVE  Archive!Step
<1> DEFINE t == commit[l].base \o commit[l].recs
<1>1. /\ canon' = [canon EXCEPT ![l] = t]
      /\ ~tomb => Range(canon[l]) \subseteq Range(t)
      /\ ~tomb /\ ~commit[l].replace => \E r \in 1..MaxRecords : t = Append(canon[l], r)
  BY PutIs
<1> HIDE DEF t
<1>2. UNCHANGED <<Found, tomb>> /\ canon \in [Lanes -> Text]
  BY DEF ComposePut, pg, Found, ArchiveInv, IngestTypes, CallTypes
<1>3. canon'[l] = t
  BY <1>1, <1>2
<1>4. CASE tomb
  <2>1. canon' = [canon EXCEPT ![l] = canon'[l]]
    BY <1>1, <1>3
  <2>2. Archive!LateUpload(l)
    BY <1>2, <1>4, <2>1 DEF Archive!LateUpload, Found, Range, Archive!Range
  <2> QED
    BY <2>2 DEF Archive!Step
<1>5. CASE ~tomb /\ commit[l].replace
  <2>1. Archive!Replace(l)
    BY <1>1, <1>2, <1>3, <1>5 DEF Archive!Replace, Found, Range, Archive!Range
  <2> QED
    BY <2>1 DEF Archive!Step
<1>6. CASE ~tomb /\ ~commit[l].replace
  <2>1. PICK r \in 1..MaxRecords : t = Append(canon[l], r)
    BY <1>1, <1>6
  <2>2. canon' = [canon EXCEPT ![l] = Append(canon[l], r)]
    BY <1>1, <2>1
  <2>3. Archive!Grow(l)
    BY <1>2, <1>6, <2>2 DEF Archive!Grow, Found, Range, Archive!Range
  <2> QED
    BY <2>3 DEF Archive!Step
<1> QED
  BY <1>4, <1>5, <1>6

LEMMA DeleteDeletes ==
  ASSUME ArchiveInv, DeleteStep
  PROVE  Archive!Step
<1>1. CASE MarkSessionDeleted
  <2>1. tomb' = TRUE /\ UNCHANGED <<canon, Found>>
    BY <1>1 DEF MarkSessionDeleted, Tombstoned, Found
  <2>2. Archive!Delete
    BY <2>1 DEF Archive!Delete, Found, Range, Archive!Range
  <2> QED
    BY <2>2 DEF Archive!Step
<1>2. CASE PurgeSessionPg
  <2>1. tomb /\ UNCHANGED <<canon, tomb>>
    BY <1>2 DEF PurgeSessionPg, ArchiveInv, DeleteHeld
  <2>2. \A l \in Lanes : Range(row'[l].turns) \subseteq Range(row[l].turns)
    <3>1. \A l \in Lanes : row[l] \in RowType /\ row[l].turns \in Text
      BY DEF ArchiveInv, IngestTypes, IndexTypes, RowType
    <3>2. CASE PurgeRest
      BY <3>2, NothingIs DEF PurgeRest, NoRow
    <3>3. ASSUME NEW l \in Lanes, NEW n \in 1..Events(l), PurgeBatch(l, n)
          PROVE  \A k \in Lanes : Range(row'[k].turns) \subseteq Range(row[k].turns)
      <4> DEFINE turns == SubSeq(row[l].turns, n + 1, Len(row[l].turns))
      <4>1. row[l].turns \in Text /\ Len(row[l].turns) \in Nat /\ n \in 1..Len(row[l].turns)
        BY <3>1, RangesAre DEF Events, Text
      <4>2. Range(turns) \subseteq Range(row[l].turns)
        BY <4>1, RestOf DEF Text
      <4> HIDE DEF turns
      <4>3. row' = [row EXCEPT ![l].turns = turns]
        BY <3>3 DEF PurgeBatch, turns
      <4>4. row'[l].turns = turns /\ \A k \in Lanes \ {l} : row'[k] = row[k]
        BY <3>1, <4>3 DEF ArchiveInv, IngestTypes, IndexTypes, RowType
      <4> QED
        BY <4>2, <4>4
    <3> QED
      BY <1>2, <3>2, <3>3 DEF PurgeSessionPg
  <2>3. Found' \in [Lanes -> SUBSET (1..MaxRecords)] /\ \A l \in Lanes : Found'[l] \subseteq Found[l]
    <3>1. ASSUME NEW l \in Lanes PROVE Range(row[l].turns) \subseteq 1..MaxRecords
      <4>1. row[l].turns \in Seq(1..MaxRecords)
        BY DEF ArchiveInv, IngestTypes, IndexTypes, RowType, Text
      <4> QED
        BY <4>1, RangesAre
    <3> QED
      BY <2>2, <3>1 DEF Found
  <2>4. Archive!Unindex
    BY <2>1, <2>3 DEF Archive!Unindex, Found, Range, Archive!Range
  <2> QED
    BY <2>4 DEF Archive!Step
<1>3. CASE StoreDeleteSession
  <2>1. PICK batch \in {Lanes, {Parent}} : canon' = [l \in Lanes |-> IF l \in batch THEN << >> ELSE canon[l]]
    BY <1>3 DEF StoreDeleteSession
  <2>2. tomb /\ UNCHANGED <<Found, tomb>>
    BY <1>3 DEF StoreDeleteSession, ArchiveInv, DeleteHeld, pg, Found
  <2>3. batch \in SUBSET Lanes
    BY <2>1, LanesAssumption
  <2>4. Archive!Erase
    BY <2>1, <2>2, <2>3 DEF Archive!Erase, Found, Range, Archive!Range
  <2> QED
    BY <2>4 DEF Archive!Step
<1> QED
  BY <1>1, <1>2, <1>3 DEF DeleteStep

LEMMA PassReindexes ==
  ASSUME ArchiveInv, Pass
  PROVE  [Archive!Step]_<<canon, Found, tomb>>
<1>1. CASE \/ ListStore \/ StaleIntents \/ BulkGate \/ PickCanonical \/ HoldBack \/ CheckCanonical \/ ReadCanonical
           \/ VerifyTail \/ SweepRow \/ SweepStat \/ SweepRead
  <2>1. UNCHANGED <<canon, row, tomb>>
    BY <1>1 DEF ListStore, StaleIntents, BulkGate, PickCanonical, HoldBack, CheckCanonical, ReadCanonical, VerifyTail,
       SweepRow, SweepStat, SweepRead, guarantorOnly, others, pg
  <2> QED
    BY <2>1, ArchiveSees
<1>2. CASE AppendTail
  <2>1. TailInput \in InputType /\ Backed(Parent, TailInput.text) /\ Transact(Parent, TailInput) /\ canon' = canon
    BY <1>2, RepairsAre DEF AppendTail, others
  <2> QED
    BY <2>1, TransactReindexes, LanesAssumption
<1>3. ASSUME NEW l \in Lanes, RebuildFrom(l) PROVE [Archive!Step]_<<canon, Found, tomb>>
  <2>1. FullInput \in InputType /\ Backed(l, FullInput.text) /\ Transact(l, FullInput) /\ canon' = canon
    BY <1>3, RepairsAre DEF RebuildFrom, others
  <2> QED
    BY <2>1, TransactReindexes
<1>4. CASE SweepJudge
  <2>1. CountInput \in InputType /\ Backed(g.lane, CountInput.text) /\ canon' = canon /\ g.lane \in Lanes
    BY <1>4, RepairsAre, PartsAre DEF SweepJudge, others, ArchiveInv
  <2>2. UNCHANGED <<canon, row, tomb>> \/ Transact(g.lane, CountInput)
    BY <1>4, <2>1 DEF SweepJudge, pg
  <2> QED
    BY <2>1, <2>2, ArchiveSees, TransactReindexes
<1> QED
  BY <1>1, <1>2, <1>3, <1>4, LanesAssumption DEF Pass, RebuildParent, RebuildLane, Agents

LEMMA ArchiveStep == ArchiveInv /\ [Next]_vars => [Archive!Step]_<<canon, Found, tomb>>
<1> SUFFICES ASSUME ArchiveInv, [Next]_vars PROVE [Archive!Step]_<<canon, Found, tomb>>
  OBVIOUS
<1>1. ASSUME NEW l \in Lanes, Send(l) \/ JudgeCommit(l) \/ ComposeRead(l) \/ NoteIntent(l) \/ IndexWriteLost(l) \/ ReindexStat(l)
      PROVE  [Archive!Step]_<<canon, Found, tomb>>
  <2>1. UNCHANGED <<canon, row, tomb>>
    BY <1>1 DEF Send, JudgeCommit, ComposeRead, NoteIntent, IndexWriteLost, ReindexStat, pg
  <2> QED
    BY <2>1, ArchiveSees
<1>2. ASSUME NEW l \in Lanes, IndexWrite(l) PROVE [Archive!Step]_<<canon, Found, tomb>>
  <2>1. queue[l] # << >> /\ Transact(l, Head(queue[l])) /\ canon' = canon
    BY <1>2 DEF IndexWrite, DeferredIndexWrite, RelayedIndexWrite, IndexHead
  <2>2. Head(queue[l]) \in InputType /\ Backed(l, Head(queue[l]).text)
    BY <2>1, TailsKeep
  <2> QED
    BY <2>1, <2>2, TransactReindexes
<1>3. CASE ReindexRead \/ DeleteCalled \/ Crash \/ UNCHANGED vars
  <2>1. UNCHANGED <<canon, row, tomb>>
    BY <1>3 DEF ReindexRead, DeleteCalled, Crash, pg, vars
  <2> QED
    BY <2>1, ArchiveSees
<1>4. CASE ReindexApply
  <2> DEFINE in == Live(ReindexChunk, reindex.text, reindex.stat, TRUE)
  <2>1. reindex.text \in Text /\ reindex.lane \in Lanes /\ reindex.stat \in Nat /\ ReindexChunk \in Nat
    BY PartsAre DEF ArchiveInv, IngestTypes, CallTypes, ReindexChunk
  <2>2. in \in InputType /\ in.text = reindex.text
    BY <2>1, LiveIs
  <2>3. Transact(reindex.lane, in) /\ canon' = canon
    BY <1>4 DEF ReindexApply
  <2> HIDE DEF in
  <2>4. Backed(reindex.lane, in.text)
    BY <2>2 DEF ArchiveInv, IndexHeld
  <2> QED
    BY <2>1, <2>2, <2>3, <2>4, TransactReindexes
<1> QED
  BY <1>1, <1>2, <1>3, <1>4, PutUploads, DeleteDeletes, PassReindexes DEF Next, Step, CommitStep, ReindexStep

LEMMA ArchiveStarts == Init => Archive!Empty
<1> SUFFICES ASSUME Init PROVE Archive!Empty
  OBVIOUS
<1>1. Found = [l \in Lanes |-> {}]
  BY NothingIs DEF Init, NoRow, Found
<1> QED
  BY <1>1 DEF Init, Archive!Empty, Found, Range, Archive!Range

(* ingest.ts, delete.ts, reconciler.ts: whatever commits, rebuilds, repairs, a
   delete and crashes do to each other, no index gains a record after the
   tombstone, none ever holds a record its transcript does not hold, and a
   transcript loses none before the deletion. *)
THEOREM ArchiveSpecHolds == Spec => ArchiveSpec
<1>1. ArchiveInv /\ [Next]_vars => [Archive!Step]_(Archive!archive)
  BY ArchiveStep DEF Archive!archive, Found
<1> QED
  BY <1>1, ArchiveStarts, ArchiveHeld, PTL DEF Spec, ArchiveSpec, Archive!Spec

-----------------------------------------------------------------------------
(***************************************************************************)
(* A text placed in another: its records sit there at different positions, *)
(* all of them in `where`.  Counting copies and comparing lengths are both *)
(* read off a placement.                                                   *)
(***************************************************************************)
Placement(f, t, s) ==
  /\ \A i \in 1..Len(t) : s[f[i]] = t[i]
  /\ \A i, j \in 1..Len(t) : f[i] = f[j] => i = j
PlacedIn(t, s, where) == \E f \in [1..Len(t) -> where] : Placement(f, t, s)

LEMMA ParsePlaced ==
  ASSUME NEW S, NEW text \in Seq(S)
  PROVE  /\ PlacedIn(Parse(text), text, Yields(text)) /\ Len(Parse(text)) = Cardinality(Yields(text))
         /\ Yields(text) \in SUBSET (1..Len(text)) /\ IsFiniteSet(Yields(text)) /\ Cardinality(Yields(text)) \in Nat
         /\ Range(Parse(text)) = {text[i] : i \in Yields(text)}
<1> DEFINE kept == Yields(text)
           Nth(n) == CHOOSE i \in kept : Cardinality({k \in kept : k <= i}) = n
           all == 1..Cardinality(kept)
           f == [n \in all |-> Nth(n)]
           Place(i) == Cardinality({k \in kept : k <= i})
<1>1. Len(text) \in Nat /\ kept \in SUBSET (1..Len(text))
  BY DEF Yields
<1>2. IsFiniteSet(kept) /\ Cardinality(kept) \in Nat
  <2>1. IsFiniteSet(1..Len(text))
    BY <1>1, FS_Interval
  <2>2. IsFiniteSet(kept)
    BY <2>1, <1>1, FS_Subset
  <2> QED
    BY <2>2, FS_CardinalityType
<1>3. \A n \in all : Nth(n) \in kept /\ Place(Nth(n)) = n
  <2> TAKE n \in all
  <2>1. \E i \in kept : Cardinality({k \in kept : k <= i}) = n
    BY <1>1, NthExists
  <2> QED
    BY <2>1
<1>4. Parse(text) = [n \in all |-> text[Nth(n)]]
  BY DEF Parse
<1> HIDE DEF kept, Nth, Place
<1>5. Len(Parse(text)) = Cardinality(kept) /\ \A n \in all : Parse(text)[n] = text[f[n]] /\ f[n] = Nth(n)
  BY <1>2, <1>4
<1>6. f \in [all -> kept]
  BY <1>3
<1>7. Placement(f, Parse(text), text)
  BY <1>3, <1>5, <1>6 DEF Placement
<1>8. PlacedIn(Parse(text), text, kept)
  BY <1>5, <1>6, <1>7 DEF PlacedIn
<1>9. Range(Parse(text)) = {text[i] : i \in kept}
  <2>1. Range(Parse(text)) = {text[f[n]] : n \in all}
    BY <1>4, <1>5 DEF Range
  <2>2. \A i \in kept : \E n \in all : f[n] = i
    <3>1. f \in Injection(all, kept)
      BY <1>3, <1>5, <1>6 DEF Injection, IsInjective
    <3>2. IsFiniteSet(all) /\ Cardinality(all) = Cardinality(kept)
      BY <1>2, FS_Interval
    <3>3. f \in Surjection(all, kept)
      BY <3>1, <3>2, <1>2, FS_Injection
    <3> QED
      BY <3>3 DEF Surjection
  <2> QED
    BY <1>6, <2>1, <2>2
<1> QED
  BY <1>1, <1>2, <1>5, <1>8, <1>9 DEF kept

LEMMA PlacedWider ==
  ASSUME NEW t, NEW s, NEW P, NEW Q, P \subseteq Q, PlacedIn(t, s, P)
  PROVE  PlacedIn(t, s, Q)
<1>1. PICK f \in [1..Len(t) -> P] : Placement(f, t, s)
  BY DEF PlacedIn
<1>2. f \in [1..Len(t) -> Q]
  BY <1>1
<1> QED
  BY <1>1, <1>2 DEF PlacedIn

(* A placement only looks at the positions it uses. *)
LEMMA PlacedElsewhere ==
  ASSUME NEW t, NEW s, NEW u, NEW P, \A i \in P : u[i] = s[i], PlacedIn(t, s, P)
  PROVE  PlacedIn(t, u, P)
<1>1. PICK f \in [1..Len(t) -> P] : Placement(f, t, s)
  BY DEF PlacedIn
<1>2. \A i \in 1..Len(t) : f[i] \in P
  BY <1>1
<1>3. Placement(f, t, u)
  BY <1>1, <1>2 DEF Placement
<1> QED
  BY <1>1, <1>3 DEF PlacedIn

(* A record that is not in the text yet goes to any position that holds it. *)
LEMMA PlacedNew ==
  ASSUME NEW S, NEW t \in Seq(S), NEW s, NEW P, NEW i \in P, s[i] \in S, PlacedIn(t, s, P), s[i] \notin Range(t)
  PROVE  PlacedIn(t \o <<s[i]>>, s, P)
<1> DEFINE r == s[i]
           u == t \o <<r>>
           m == Len(t)
<1>1. PICK f \in [1..m -> P] : Placement(f, t, s)
  BY DEF PlacedIn
<1> DEFINE h == [n \in 1..(m + 1) |-> IF n = m + 1 THEN i ELSE f[n]]
<1>2. m \in Nat /\ Len(u) = m + 1 /\ u[m + 1] = r /\ \A n \in 1..m : u[n] = t[n] /\ t[n] \in Range(t) /\ n \in 1..(m + 1)
  BY DEF Range
<1>3. \A n \in 1..(m + 1) : n = m + 1 \/ n \in 1..m
  BY <1>2
<1> HIDE DEF u, m
<1>4. h \in [1..(m + 1) -> P]
  BY <1>1, <1>3
<1>5. \A n \in 1..m : n # m + 1
  BY <1>2
<1>6. (\A n \in 1..m : h[n] = f[n]) /\ (m + 1 \in 1..(m + 1) => h[m + 1] = i)
  BY <1>2, <1>5
<1>7. \A n \in 1..(m + 1) : s[h[n]] = u[n]
  <2> TAKE n \in 1..(m + 1)
  <2>1. CASE n \in 1..m
    BY <2>1, <1>1, <1>2, <1>6 DEF Placement, m
  <2>2. CASE n = m + 1
    BY <2>2, <1>2, <1>6
  <2> QED
    BY <2>1, <2>2, <1>3
<1>8. \A n \in 1..m : s[f[n]] # r
  BY <1>1, <1>2 DEF Placement, m
<1>9. \A n, k \in 1..(m + 1) : h[n] = h[k] => n = k
  <2> TAKE n, k \in 1..(m + 1)
  <2>1. CASE n \in 1..m /\ k \in 1..m
    BY <2>1, <1>1, <1>6 DEF Placement, m
  <2>2. CASE n = m + 1 /\ k \in 1..m
    BY <2>2, <1>6, <1>8
  <2>3. CASE n \in 1..m /\ k = m + 1
    BY <2>3, <1>6, <1>8
  <2> QED
    BY <2>1, <2>2, <2>3, <1>3
<1> HIDE DEF h
<1>10. Placement(h, u, s) /\ h \in [1..Len(u) -> P]
  BY <1>2, <1>4, <1>7, <1>9 DEF Placement
<1> QED
  BY <1>10 DEF PlacedIn, u

LEMMA PlacedJoin ==
  ASSUME NEW S, NEW t \in Seq(S), NEW u \in Seq(S), NEW s, NEW P, NEW Q, P \cap Q = {},
         PlacedIn(t, s, P), PlacedIn(u, s, Q)
  PROVE  PlacedIn(t \o u, s, P \cup Q)
<1> DEFINE m == Len(t)
           n == Len(u)
           w == t \o u
<1>1. PICK f \in [1..m -> P] : Placement(f, t, s)
  BY DEF PlacedIn
<1>2. PICK e \in [1..n -> Q] : Placement(e, u, s)
  BY DEF PlacedIn
<1> DEFINE h == [i \in 1..(m + n) |-> IF i <= m THEN f[i] ELSE e[i - m]]
<1>3. /\ m \in Nat /\ n \in Nat /\ Len(w) = m + n
      /\ \A i \in 1..(m + n) : i <= m => i \in 1..m /\ w[i] = t[i]
      /\ \A i \in 1..(m + n) : ~(i <= m) => i - m \in 1..n /\ w[i] = u[i - m]
  OBVIOUS
<1> HIDE DEF w, m, n
<1>4. h \in [1..(m + n) -> P \cup Q]
  <2>1. \A i \in 1..(m + n) : (IF i <= m THEN f[i] ELSE e[i - m]) \in P \cup Q
    BY <1>1, <1>2, <1>3
  <2> QED
    BY <2>1
<1>6. /\ \A i \in 1..(m + n) : i <= m => h[i] = f[i] /\ h[i] \in P
      /\ \A i \in 1..(m + n) : ~(i <= m) => h[i] = e[i - m] /\ h[i] \in Q
  BY <1>1, <1>2, <1>3
<1> HIDE DEF h
<1>5. \A i \in 1..(m + n) : s[h[i]] = w[i]
  <2> TAKE i \in 1..(m + n)
  <2>1. CASE i <= m
    <3>1. i \in 1..m /\ w[i] = t[i]
      BY <2>1, <1>3
    <3>3. h[i] = f[i]
      BY <2>1, <1>6
    <3>2. s[f[i]] = t[i]
      BY <3>1, <1>1 DEF Placement, m
    <3> QED
      BY <3>1, <3>2, <3>3
  <2>2. CASE ~(i <= m)
    <3>1. i - m \in 1..n /\ w[i] = u[i - m] /\ h[i] = e[i - m]
      BY <2>2, <1>3, <1>6
    <3>2. s[e[i - m]] = u[i - m]
      BY <3>1, <1>2 DEF Placement, n
    <3> QED
      BY <3>1, <3>2
  <2> QED
    BY <2>1, <2>2
<1>7. \A i, j \in 1..(m + n) : h[i] = h[j] => i = j
  <2> TAKE i, j \in 1..(m + n)
  <2>1. CASE i <= m /\ j <= m
    BY <2>1, <1>1, <1>3, <1>6 DEF Placement, m
  <2>2. CASE ~(i <= m) /\ ~(j <= m)
    <3>0. i - m \in 1..n /\ j - m \in 1..n /\ h[i] = e[i - m] /\ h[j] = e[j - m]
      BY <2>2, <1>3, <1>6
    <3>1. h[i] = h[j] => i - m = j - m
      BY <3>0, <1>2 DEF Placement, n
    <3>2. i - m = j - m => i = j
      BY <1>3
    <3> QED
      BY <3>1, <3>2
  <2> QED
    BY <2>1, <2>2, <1>6
<1>8. Placement(h, w, s) /\ h \in [1..Len(w) -> P \cup Q]
  BY <1>3, <1>4, <1>5, <1>7 DEF Placement
<1> QED
  BY <1>8 DEF PlacedIn, w

(* A text placed outside some of the positions is shorter than they are many. *)
LEMMA PlacedShorter ==
  ASSUME NEW t, Len(t) \in Nat, NEW s, NEW P, IsFiniteSet(P), PlacedIn(t, s, P)
  PROVE  /\ Cardinality(P) \in Nat /\ Len(t) <= Cardinality(P)
         /\ (\E i \in P : \A n \in 1..Len(t) : t[n] # s[i]) => Len(t) < Cardinality(P)
<1> DEFINE all == 1..Len(t)
<1>1. PICK f \in [all -> P] : Placement(f, t, s)
  BY DEF PlacedIn
<1>2. f \in Injection(all, P)
  BY <1>1 DEF Placement, Injection, IsInjective
<1>3. IsFiniteSet(all) /\ Cardinality(all) = Len(t) /\ Cardinality(P) \in Nat
  <2>1. 1 \in Int /\ Len(t) \in Int
    OBVIOUS
  <2>2. IsFiniteSet(all) /\ Cardinality(all) = IF 1 > Len(t) THEN 0 ELSE Len(t) - 1 + 1
    BY <2>1, FS_Interval
  <2> QED
    BY <2>2, FS_CardinalityType
<1>4. Cardinality(all) <= Cardinality(P) /\ (Cardinality(all) = Cardinality(P) => f \in Surjection(all, P))
  BY <1>2, FS_Injection
<1>5. ASSUME NEW i \in P, \A n \in all : t[n] # s[i] PROVE f \notin Surjection(all, P)
  <2>1. \A n \in all : s[f[n]] = t[n]
    BY <1>1 DEF Placement
  <2>2. \A n \in all : f[n] # i
    BY <2>1, <1>5
  <2> QED
    BY <2>2 DEF Surjection
<1> QED
  BY <1>3, <1>4, <1>5

-----------------------------------------------------------------------------
(***************************************************************************)
(* Texts that open another: a canonical read earlier opens the one there   *)
(* is now.  A client sends its records in order, so a twin's predecessor   *)
(* comes before it, and a parse that sees less of a canonical drops no     *)
(* other records of it.                                                    *)
(***************************************************************************)
Opens(text, s) == Len(text) <= Len(s) /\ \A i \in 1..Len(text) : text[i] = s[i]
Start(s, k) == SubSeq(s, 1, k)
Ordered(s) == \A i \in 1..Len(s) : s[i] > 1 => \E j \in 1..Len(s) : j < i /\ s[j] = s[i] - 1

LEMMA ElementsAre ==
  ASSUME NEW S, NEW s \in Seq(S)
  PROVE  \A i \in 1..Len(s) : s[i] \in S
OBVIOUS

LEMMA TextIs ==
  ASSUME NEW s \in Text
  PROVE  /\ MaxRecords \in Nat /\ Len(s) \in Nat /\ DOMAIN s = 1..Len(s) /\ s = [i \in 1..Len(s) |-> s[i]]
         /\ \A i \in 1..Len(s) : s[i] \in 1..MaxRecords
         /\ Range(s) = {s[i] : i \in 1..Len(s)}
<1>1. MaxRecords \in Nat
  BY BoundAssumption
<1>2. Len(s) \in Nat /\ DOMAIN s = 1..Len(s) /\ s = [i \in 1..Len(s) |-> s[i]]
  BY DEF Text
<1>3. \A i \in 1..Len(s) : s[i] \in 1..MaxRecords
  BY ElementsAre DEF Text
<1>4. Range(s) = {s[i] : i \in 1..Len(s)}
  BY <1>2 DEF Range
<1> QED
  BY <1>1, <1>2, <1>3, <1>4

LEMMA StartIs ==
  ASSUME NEW s \in Text, NEW k \in 0..Len(s)
  PROVE  Start(s, k) \in Text /\ Len(Start(s, k)) = k /\ Opens(Start(s, k), s) /\ Len(s) \in Nat
<1>1. Len(s) \in Nat /\ \A i \in 1..k : i \in 1..Len(s) /\ s[i] \in 1..MaxRecords
  <2>1. Len(s) \in Nat /\ \A i \in 1..k : i \in 1..Len(s)
    BY TextIs
  <2> QED
    BY <2>1, TextIs
<1>2. Start(s, k) = [i \in 1..k |-> s[i]]
  BY DEF Start, Text
<1>3. Start(s, k) \in Seq(1..MaxRecords) /\ Len(Start(s, k)) = k
  BY <1>1, <1>2
<1> QED
  BY <1>1, <1>2, <1>3 DEF Opens, Text

LEMMA OpensIs ==
  ASSUME NEW text \in Text, NEW s \in Text, Opens(text, s)
  PROVE  /\ Len(text) \in 0..Len(s) /\ text = Start(s, Len(text))
         /\ Range(text) = {s[i] : i \in 1..Len(text)} /\ Range(text) \subseteq Range(s)
         /\ \A k \in 0..Len(text) : Start(text, k) = Start(s, k) /\ k \in 0..Len(s)
<1>1. Len(s) \in Nat /\ Len(text) \in Nat /\ Len(text) \in 0..Len(s) /\ \A i \in 1..Len(text) : i \in 1..Len(s)
  BY DEF Opens, Text
<1>2. ASSUME NEW k \in 0..Len(text) PROVE Start(text, k) = Start(s, k) /\ k \in 0..Len(s)
  <2>1. k \in 0..Len(s)
    BY <1>1
  <2>2. Start(text, k) = [i \in 1..k |-> text[i]] /\ Start(s, k) = [i \in 1..k |-> s[i]]
    BY DEF Start, Text
  <2>3. \A i \in 1..k : text[i] = s[i]
    BY <1>1 DEF Opens
  <2> QED
    BY <2>1, <2>2, <2>3
<1>3. text = Start(text, Len(text))
  <2>1. text = [i \in 1..Len(text) |-> text[i]]
    BY DEF Text
  <2>2. Start(text, Len(text)) = [i \in 1..Len(text) |-> text[i]]
    BY DEF Start, Text
  <2> QED
    BY <2>1, <2>2
<1>4. Range(text) = {s[i] : i \in 1..Len(text)}
  BY <1>1 DEF Opens, Text, Range
<1>5. Range(text) \subseteq Range(s)
  BY <1>1, <1>4, TextIs
<1> QED
  BY <1>1, <1>2, <1>3, <1>4, <1>5

LEMMA OpensChain ==
  ASSUME NEW t \in Text, NEW s \in Text, NEW u \in Text, Opens(t, s), Opens(s, u)
  PROVE  Opens(t, u)
<1>1. Len(t) \in Nat /\ Len(s) \in Nat /\ Len(u) \in Nat
  BY DEF Text
<1> QED
  BY <1>1 DEF Opens

LEMMA YieldsAre ==
  ASSUME NEW text \in Text, NEW s \in Text, Opens(text, s), Ordered(s)
  PROVE  Yields(text) = {i \in Yields(s) : i <= Len(text)}
<1>1. /\ Len(s) \in Nat /\ Len(text) \in Nat /\ Len(text) <= Len(s) /\ \A i \in 1..Len(text) : text[i] = s[i]
      /\ DOMAIN text = 1..Len(text) /\ DOMAIN s = 1..Len(s)
      /\ \A i \in 1..Len(s) : s[i] \in 1..MaxRecords
  <2>1. /\ Len(s) \in Nat /\ Len(text) \in Nat /\ DOMAIN text = 1..Len(text) /\ DOMAIN s = 1..Len(s)
        /\ \A i \in 1..Len(s) : s[i] \in 1..MaxRecords
    BY TextIs
  <2> QED
    BY <2>1 DEF Opens
<1>2. MaxRecords \in Nat
  BY BoundAssumption
<1>3. ASSUME NEW i \in 1..Len(text)
      PROVE  i \in 1..Len(s) /\ i <= Len(text) /\ ((text[i] - 1) \in Range(text) <=> (s[i] - 1) \in Range(s))
  <2>1. i \in 1..Len(s) /\ i <= Len(text) /\ text[i] = s[i] /\ s[i] \in 1..MaxRecords
    BY <1>1
  <2>2. Range(text) \subseteq Range(s)
    BY OpensIs
  <2>3. ASSUME (s[i] - 1) \in Range(s) PROVE (s[i] - 1) \in Range(text)
    <3>1. PICK n \in 1..Len(s) : s[i] - 1 = s[n]
      BY <2>3, <1>1 DEF Range
    <3>2. s[i] > 1
      BY <1>1, <1>2, <2>1, <3>1
    <3>3. PICK j \in 1..Len(s) : j < i /\ s[j] = s[i] - 1
      BY <2>1, <3>2 DEF Ordered
    <3>4. j \in 1..Len(text) /\ text[j] = s[i] - 1
      BY <1>1, <2>1, <3>3
    <3> QED
      BY <1>1, <3>4 DEF Range
  <2> QED
    BY <2>1, <2>2, <2>3
<1>4. Yields(text) = {i \in 1..Len(text) : ~(text[i] \in Twins /\ (text[i] - 1) \in Range(text))}
  BY <1>1 DEF Yields
<1>5. Yields(s) = {i \in 1..Len(s) : ~(s[i] \in Twins /\ (s[i] - 1) \in Range(s))}
  BY <1>1 DEF Yields
<1>6. \A i \in Yields(s) : i <= Len(text) => i \in 1..Len(text)
  BY <1>1, <1>5
<1> QED
  BY <1>1, <1>3, <1>4, <1>5, <1>6

LEMMA ParseOpens ==
  ASSUME NEW text \in Text, NEW s \in Text, Opens(text, s)
  PROVE  PlacedIn(Parse(text), s, Yields(text)) /\ PlacedIn(Parse(text), s, 1..Len(text))
<1>1. PlacedIn(Parse(text), text, Yields(text)) /\ Yields(text) \subseteq 1..Len(text)
  BY ParsePlaced DEF Text
<1>2. \A i \in Yields(text) : s[i] = text[i]
  BY <1>1 DEF Opens
<1> QED
  BY <1>1, <1>2, PlacedElsewhere, PlacedWider

LEMMA TailPlaced ==
  ASSUME NEW text \in Text, NEW b \in 1..Len(text), b < Len(text)
  PROVE  LET tail == SubSeq(text, b + 1, Len(text)) IN
         /\ tail \in Text /\ Parse(tail) \in Text /\ PlacedIn(Parse(tail), text, (b + 1)..Len(text))
<1> DEFINE tail == SubSeq(text, b + 1, Len(text))
           n == Len(text) - b
<1>0. Len(text) \in Nat /\ n \in Nat /\ b + 1 \in 1..Len(text)
  BY DEF Text
<1>1. tail \in Seq(1..MaxRecords)
  BY <1>0, PartOf DEF Text
<1>2. Len(tail) = n /\ \A i \in 1..n : tail[i] = text[i + b]
  <2>1. Len(tail) = Len(text) - (b + 1) + 1 /\ \A i \in 1..Len(tail) : tail[i] = text[i + (b + 1) - 1]
    BY <1>0 DEF Text
  <2>2. Len(text) - (b + 1) + 1 = n /\ \A i \in 1..n : i + (b + 1) - 1 = i + b
    BY <1>0
  <2> HIDE DEF tail, n
  <2> QED
    BY <2>1, <2>2
<1> HIDE DEF tail
<1>3. /\ PlacedIn(Parse(tail), tail, Yields(tail)) /\ Yields(tail) \subseteq 1..n /\ Parse(tail) \in Text
  BY <1>1, <1>2, ParsePlaced, ParseTurns DEF Text
<1>4. PICK f \in [1..Len(Parse(tail)) -> Yields(tail)] : Placement(f, Parse(tail), tail)
  BY <1>3 DEF PlacedIn
<1> DEFINE m == Len(Parse(tail))
           h == [i \in 1..m |-> f[i] + b]
<1>5. \A i \in 1..m : f[i] \in 1..n /\ f[i] + b \in (b + 1)..Len(text) /\ text[f[i] + b] = tail[f[i]] /\ f[i] \in Int
  BY <1>0, <1>2, <1>3, <1>4
<1>6. h \in [1..m -> (b + 1)..Len(text)]
  BY <1>5
<1>7. \A i, j \in 1..m : f[i] + b = f[j] + b => f[i] = f[j]
  BY <1>0, <1>5
<1>8. Placement(h, Parse(tail), text)
  BY <1>4, <1>5, <1>7 DEF Placement
<1>9. PlacedIn(Parse(tail), text, (b + 1)..Len(text))
  BY <1>6, <1>8 DEF PlacedIn
<1> QED
  BY <1>1, <1>3, <1>9 DEF tail, Text

-----------------------------------------------------------------------------
(***************************************************************************)
(* A lane's turns t, with watermark b, against its canonical s: they are   *)
(* placed in its first k records, and b only falls short of k when a       *)
(* rebuild stamped an older length than that of the text it read.  Then    *)
(* the turns are at least what those k records parse to, which is why a    *)
(* repair that finds as many turns as the first b records parse to has     *)
(* just those turns before it.                                             *)
(***************************************************************************)
CoversTo(t, s, b, k) ==
  /\ b <= k /\ k <= Len(s)
  /\ PlacedIn(t, s, 1..k)
  /\ b < k => /\ Len(t) >= Cardinality(Yields(Start(s, k)))
              /\ Len(t) = Cardinality(Yields(Start(s, k))) => t = Parse(Start(s, k))
Covered(t, s, b) == \E k \in Nat : CoversTo(t, s, b, k)

LEMMA CoveredNone == Covered(<< >>, << >>, 0)
<1> DEFINE f == [i \in 1..Len(<< >>) |-> 0]
<1>1. f \in [1..Len(<< >>) -> 1..0] /\ Placement(f, << >>, << >>)
  BY DEF Placement
<1>2. PlacedIn(<< >>, << >>, 1..0)
  BY <1>1 DEF PlacedIn
<1>3. CoversTo(<< >>, << >>, 0, 0)
  BY <1>2 DEF CoversTo
<1> QED
  BY <1>3 DEF Covered

LEMMA CoveredGrows ==
  ASSUME NEW t \in Text, NEW s \in Text, NEW u \in Text, NEW b \in Nat, Opens(s, u), Covered(t, s, b)
  PROVE  Covered(t, u, b)
<1>1. PICK k \in Nat : CoversTo(t, s, b, k)
  BY DEF Covered
<1>2. Len(s) \in Nat /\ Len(u) \in Nat /\ k <= Len(s) /\ Len(s) <= Len(u)
  BY <1>1, TextIs DEF CoversTo, Opens
<1>3. \A i \in 1..k : u[i] = s[i]
  BY <1>2 DEF Opens
<1>4. PlacedIn(t, u, 1..k)
  BY <1>1, <1>3, PlacedElsewhere DEF CoversTo
<1>5. Start(s, k) = Start(u, k)
  BY <1>2, OpensIs
<1>6. CoversTo(t, u, b, k)
  BY <1>1, <1>2, <1>4, <1>5 DEF CoversTo
<1> QED
  BY <1>6 DEF Covered

LEMMA ParseShort ==
  /\ Parse(<< >>) = << >>
  /\ \A r \in 1..MaxRecords : Parse(<<r>>) = <<r>> /\ Yields(<<r>>) = {1}
<1>1. Parse(<< >>) = << >>
  <2>1. Yields(<< >>) = {} /\ Cardinality({}) = 0
    BY FS_EmptySet DEF Yields
  <2>2. << >> \in Seq({})
    OBVIOUS
  <2>3. Parse(<< >>) \in Seq({}) /\ Len(Parse(<< >>)) = 0
    BY <2>1, <2>2, ParseTurns, ParsePlaced
  <2> QED
    BY <2>3
<1>2. ASSUME NEW r \in 1..MaxRecords PROVE Parse(<<r>>) = <<r>> /\ Yields(<<r>>) = {1}
  <2>1. <<r>> \in Seq(1..MaxRecords) /\ Range(<<r>>) = {r} /\ Len(<<r>>) = 1 /\ DOMAIN <<r>> = {1} /\ <<r>>[1] = r
    <3>1. <<r>> \in Seq(1..MaxRecords) /\ Range(<<r>>) = {r} /\ Len(<<r>>) = 1
      BY OneIs
    <3> QED
      BY <3>1
  <2>2. r - 1 # r
    BY BoundAssumption
  <2>3. Yields(<<r>>) = {1}
    BY <2>1, <2>2 DEF Yields
  <2>4. Cardinality({1}) = 1
    BY FS_Singleton
  <2>5. /\ Parse(<<r>>) \in Seq(1..MaxRecords) /\ Len(Parse(<<r>>)) = 1
        /\ Range(Parse(<<r>>)) = {r}
    <3>1. {<<r>>[i] : i \in {1}} = {r}
      BY <2>1
    <3> QED
      BY <2>1, <2>3, <2>4, <3>1, ParseTurns, ParsePlaced
  <2>6. Parse(<<r>>)[1] = r
    <3>1. 1 \in DOMAIN Parse(<<r>>)
      BY <2>5
    <3>2. Parse(<<r>>)[1] \in {r}
      BY <3>1, <2>5 DEF Range
    <3> QED
      BY <3>2
  <2> HIDE DEF Parse
  <2>7. Parse(<<r>>) = <<r>>
    BY <2>5, <2>6
  <2> QED
    BY <2>3, <2>7
<1> QED
  BY <1>1, <1>2

(* An append that the dedupe guard let pass: a record of the first `total` of
   the canonical that the turns do not hold, or nothing. *)
LEMMA CoveredAppend ==
  ASSUME NEW t \in Text, NEW s \in Text, NEW b \in Nat, Covered(t, s, b), NEW total \in 0..Len(s), NEW text,
         \/ text = << >>
         \/ \E i \in 1..total : text = <<s[i]>> /\ s[i] \notin Range(t)
  PROVE  Covered(t \o Parse(text), s, IF b > total THEN b ELSE total)
<1>1. PICK k \in Nat : CoversTo(t, s, b, k)
  BY DEF Covered
<1>2. /\ Len(s) \in Nat /\ total \in Nat /\ total <= Len(s) /\ b <= k /\ k <= Len(s) /\ Len(t) \in Nat
      /\ \A i \in 1..total : i \in 1..Len(s) /\ s[i] \in 1..MaxRecords
  <2>1. Len(s) \in Nat /\ Len(t) \in Nat /\ \A i \in 1..Len(s) : s[i] \in 1..MaxRecords
    BY TextIs
  <2> QED
    BY <1>1, <2>1 DEF CoversTo
<1> DEFINE mark == IF b > total THEN b ELSE total
           high == IF k > total THEN k ELSE total
           u == t \o Parse(text)
<1>3. /\ mark \in Nat /\ high \in Nat /\ mark <= high /\ high <= Len(s) /\ 1..k \subseteq 1..high
      /\ 1..total \subseteq 1..high /\ (mark < high => high = k /\ b < k)
  BY <1>2
<1> HIDE DEF mark, high
<1>4. PlacedIn(t, s, 1..high)
  BY <1>1, <1>3, PlacedWider DEF CoversTo
<1>5. CASE text = << >>
  <2>1. u = t
    BY <1>5, ParseShort DEF Text
  <2>2. CoversTo(u, s, mark, high)
    BY <1>1, <1>3, <1>4, <2>1 DEF CoversTo
  <2> QED
    BY <2>2, <1>3 DEF Covered, mark
<1>6. CASE \E i \in 1..total : text = <<s[i]>> /\ s[i] \notin Range(t)
  <2>1. PICK i \in 1..total : text = <<s[i]>> /\ s[i] \notin Range(t)
    BY <1>6
  <2>2. i \in 1..high /\ s[i] \in 1..MaxRecords
    BY <1>2, <1>3
  <2>3. u = t \o <<s[i]>>
    BY <2>1, <2>2, ParseShort
  <2>4. PlacedIn(u, s, 1..high)
    BY <1>4, <2>1, <2>2, <2>3, PlacedNew DEF Text
  <2>5. Len(u) = Len(t) + 1
    BY <2>2, <2>3 DEF Text
  <2> HIDE DEF u
  <2>6. ASSUME mark < high
        PROVE  Len(u) > Cardinality(Yields(Start(s, high))) /\ Cardinality(Yields(Start(s, high))) \in Nat
    <3>1. high = k /\ Len(t) >= Cardinality(Yields(Start(s, k)))
      BY <1>1, <1>3, <2>6 DEF CoversTo
    <3>2. Start(s, k) \in Text
      BY <1>2, StartIs
    <3>3. Cardinality(Yields(Start(s, k))) \in Nat
      BY <3>2, ParsePlaced DEF Text
    <3> QED
      BY <1>2, <2>5, <3>1, <3>3
  <2>7. CoversTo(u, s, mark, high)
    <3>1. mark < high => /\ Len(u) >= Cardinality(Yields(Start(s, high)))
                         /\ Len(u) # Cardinality(Yields(Start(s, high)))
      BY <1>2, <2>5, <2>6
    <3> QED
      BY <1>3, <2>4, <3>1 DEF CoversTo
  <2> QED
    BY <2>7, <1>3 DEF Covered, mark, u
<1> QED
  BY <1>5, <1>6

(* A rebuild from a text that opens the canonical, stamping no more than the
   text's length. *)
LEMMA CoveredWhole ==
  ASSUME NEW text \in Text, NEW s \in Text, Opens(text, s), NEW total \in 0..Len(text)
  PROVE  Covered(Parse(text), s, total)
<1>1. Len(text) \in Nat /\ Len(s) \in Nat /\ Len(text) <= Len(s) /\ total <= Len(text)
  BY TextIs DEF Opens
<1>2. PlacedIn(Parse(text), s, 1..Len(text))
  BY ParseOpens
<1>3. Start(s, Len(text)) = text
  BY OpensIs
<1>4. Len(Parse(text)) = Cardinality(Yields(text)) /\ Cardinality(Yields(text)) \in Nat
  BY ParsePlaced DEF Text
<1>5. CoversTo(Parse(text), s, total, Len(text))
  BY <1>1, <1>2, <1>3, <1>4 DEF CoversTo
<1> QED
  BY <1>1, <1>5 DEF Covered

(* The repair that appends the tail, having counted as many turns as the part
   before it parses to. *)
LEMMA CoveredTail ==
  ASSUME NEW t \in Text, NEW s \in Text, NEW text \in Text, NEW b \in 1..Len(text), b < Len(text),
         Opens(text, s), Ordered(s), Covered(t, s, b), Len(t) = Len(Parse(Start(text, b)))
  PROVE  Covered(t \o Parse(SubSeq(text, b + 1, Len(text))), s, Len(text))
<1> DEFINE n == Len(text)
           tail == SubSeq(text, b + 1, n)
<1>1. PICK k \in Nat : CoversTo(t, s, b, k)
  BY DEF Covered
<1>2. n \in Nat /\ Len(s) \in Nat /\ n <= Len(s) /\ b \in 0..n /\ b \in Nat /\ b <= k /\ k <= Len(s)
  BY <1>1, TextIs DEF CoversTo, Opens
<1>3. Start(text, b) = Start(s, b) /\ b \in 0..Len(s)
  BY <1>2, OpensIs
<1>4. PlacedIn(t, s, 1..b)
  <2>1. CASE k = b
    BY <1>1, <2>1 DEF CoversTo
  <2>2. CASE b < k
    <3> DEFINE low == Yields(Start(s, b))
               high == Yields(Start(s, k))
    <3>1. /\ Start(s, b) \in Text /\ Start(s, k) \in Text /\ Len(Start(s, b)) = b /\ Len(Start(s, k)) = k
          /\ Opens(Start(s, b), s) /\ Opens(Start(s, k), s)
      BY <1>2, StartIs
    <3>2. low = {i \in Yields(s) : i <= b} /\ high = {i \in Yields(s) : i <= k}
      BY <3>1, YieldsAre
    <3>3. /\ Len(Parse(Start(s, b))) = Cardinality(low) /\ Cardinality(low) \in Nat /\ IsFiniteSet(low)
          /\ Cardinality(high) \in Nat /\ IsFiniteSet(high) /\ low \subseteq 1..b
      BY <3>1, ParsePlaced DEF Text
    <3>4. low \subseteq high
      <4>1. \A i \in Yields(s) : i \in Int
        BY TextIs DEF Yields
      <4> QED
        BY <3>2, <4>1, <1>2
    <3> HIDE DEF low, high
    <3>5. Cardinality(low) <= Cardinality(high) /\ (Cardinality(low) = Cardinality(high) => low = high)
      BY <3>3, <3>4, FS_Subset
    <3>6. Len(t) = Cardinality(low) /\ Len(t) >= Cardinality(high)
      BY <1>1, <1>3, <2>2, <3>3 DEF CoversTo, high
    <3>7. Cardinality(low) = Cardinality(high)
      BY <3>3, <3>5, <3>6
    <3>8. t = Parse(Start(s, k)) /\ low = high
      BY <1>1, <2>2, <3>5, <3>6, <3>7 DEF CoversTo, high
    <3>9. PlacedIn(t, s, high)
      BY <3>1, <3>8, ParseOpens DEF high
    <3> QED
      BY <3>3, <3>8, <3>9, PlacedWider
  <2> QED
    BY <1>2, <2>1, <2>2
<1>5. tail \in Text /\ Parse(tail) \in Text /\ PlacedIn(Parse(tail), text, (b + 1)..n)
  BY TailPlaced
<1> HIDE DEF tail
<1>6. PlacedIn(Parse(tail), s, (b + 1)..n)
  <2>1. \A i \in (b + 1)..n : s[i] = text[i]
    BY <1>2 DEF Opens
  <2> QED
    BY <1>5, <2>1, PlacedElsewhere
<1>7. 1..b \cap ((b + 1)..n) = {} /\ 1..b \cup ((b + 1)..n) = 1..n
  BY <1>2
<1>8. PlacedIn(t \o Parse(tail), s, 1..n)
  <2>1. t \in Seq(1..MaxRecords) /\ Parse(tail) \in Seq(1..MaxRecords)
    BY <1>5 DEF Text
  <2>2. PlacedIn(t \o Parse(tail), s, 1..b \cup ((b + 1)..n))
    BY <1>4, <1>6, <1>7, <2>1, PlacedJoin
  <2> QED
    BY <1>7, <2>2
<1>9. CoversTo(t \o Parse(tail), s, n, n)
  BY <1>2, <1>8 DEF CoversTo
<1> QED
  BY <1>2, <1>9 DEF Covered, tail

(* What a covered lane owes its readers: no record more often than the
   canonical has it, and fewer turns than the whole parses to when one is
   missing and none is surplus. *)
LEMMA CoveredOnce ==
  ASSUME NEW t \in Text, NEW s \in Text, NEW b \in Nat, Covered(t, s, b), NEW r
  PROVE  Copies(t, r) <= Copies(s, r)
<1>1. PICK k \in Nat : CoversTo(t, s, b, k)
  BY DEF Covered
<1> DEFINE inT == {i \in DOMAIN t : t[i] = r}
           inS == {i \in DOMAIN s : s[i] = r}
<1>2. Len(s) \in Nat /\ DOMAIN s = 1..Len(s) /\ DOMAIN t = 1..Len(t) /\ k <= Len(s)
  BY <1>1, TextIs DEF CoversTo
<1>3. PICK f \in [1..Len(t) -> 1..k] : Placement(f, t, s)
  BY <1>1 DEF CoversTo, PlacedIn
<1> DEFINE h == [i \in inT |-> f[i]]
<1>4. \A i \in 1..Len(t) : f[i] \in 1..Len(s) /\ s[f[i]] = t[i]
  BY <1>2, <1>3 DEF Placement
<1>5. h \in [inT -> inS]
  BY <1>2, <1>4
<1>6. \A i, j \in inT : h[i] = h[j] => i = j
  BY <1>2, <1>3 DEF Placement
<1>7. h \in Injection(inT, inS)
  BY <1>5, <1>6 DEF Injection, IsInjective
<1>8. IsFiniteSet(inS)
  <2>1. IsFiniteSet(1..Len(s))
    BY <1>2, FS_Interval
  <2> QED
    BY <1>2, <2>1, FS_Subset
<1>9. Cardinality(inT) <= Cardinality(inS)
  BY <1>7, <1>8, FS_Injection
<1> QED
  BY <1>9 DEF Copies

LEMMA CoveredFound ==
  ASSUME NEW t \in Text, NEW s \in Text, NEW b \in Nat, Covered(t, s, b),
         Range(Parse(s)) \ Range(t) # {}, Range(t) \subseteq Range(Parse(s))
  PROVE  Len(t) < Len(Parse(s))
<1>1. PICK k \in Nat : CoversTo(t, s, b, k)
  BY DEF Covered
<1>2. /\ Len(s) \in Nat /\ DOMAIN s = 1..Len(s) /\ Len(t) \in Nat /\ DOMAIN t = 1..Len(t) /\ k <= Len(s)
      /\ Range(t) = {t[i] : i \in 1..Len(t)}
  BY <1>1, TextIs DEF CoversTo
<1>3. /\ Len(Parse(s)) = Cardinality(Yields(s)) /\ IsFiniteSet(Yields(s))
      /\ Range(Parse(s)) = {s[i] : i \in Yields(s)}
  BY ParsePlaced DEF Text
<1>4. PICK f \in [1..Len(t) -> 1..k] : Placement(f, t, s)
  BY <1>1 DEF CoversTo, PlacedIn
<1>5. \A i, j \in 1..Len(s) : i \in Yields(s) /\ s[i] = s[j] => j \in Yields(s)
  BY <1>2 DEF Yields
<1>6. \A i \in 1..Len(t) : f[i] \in Yields(s)
  <2> TAKE i \in 1..Len(t)
  <2>1. f[i] \in 1..Len(s) /\ s[f[i]] = t[i]
    BY <1>2, <1>4 DEF Placement
  <2>2. PICK j \in Yields(s) : t[i] = s[j]
    BY <1>2, <1>3
  <2>3. j \in 1..Len(s)
    BY <1>2 DEF Yields
  <2> QED
    BY <1>5, <2>1, <2>2, <2>3
<1>7. f \in [1..Len(t) -> Yields(s)]
  BY <1>4, <1>6
<1>8. PlacedIn(t, s, Yields(s))
  BY <1>4, <1>7 DEF PlacedIn
<1>9. PICK i \in Yields(s) : s[i] \notin Range(t)
  BY <1>3
<1>10. \A n \in 1..Len(t) : t[n] # s[i]
  BY <1>2, <1>9
<1> QED
  BY <1>2, <1>3, <1>8, <1>10, PlacedShorter

-----------------------------------------------------------------------------
(***************************************************************************)
(* The second invariant, while nothing was replaced and nothing deleted    *)
(* (Calm; neither is ever undone).  On every lane:                         *)
(*                                                                         *)
(*  - SentHeld: the records written are in the canonical, but for one in   *)
(*    flight, and so (Ordered) no record precedes its predecessor there;   *)
(*  - CommitSound, QueueSound: a commit that is about to be noted and an   *)
(*    index write that is queued carry the record at the position of the   *)
(*    canonical they vouch for, or nothing;                                *)
(*  - RowSound: the index row is covered by the canonical.                 *)
(*                                                                         *)
(* And what a reindex or the pass has read opens the canonical.            *)
(***************************************************************************)
Calm == ~tomb /\ replaces = 0

SentHeld(l) ==
  \A v \in 1..written[l] :
    \/ v \in Range(canon[l])
    \/ v = written[l] /\ commit[l].pc \in {"judge", "read", "put"} /\ commit[l].recs = <<v>>

CommitSound(c, s) ==
  c.pc # "idle" =>
    /\ ~c.replace /\ c.text \in {<< >>, c.recs}
    /\ c.pc = "intent" =>
         Len(c.base) + Len(c.recs) \in 1..Len(s) /\ c.recs = <<s[Len(c.base) + Len(c.recs)]>>

InputSound(s, e) ==
  /\ ~e.replace /\ e.total \in 0..Len(s)
  /\ e.text # << >> => e.total \in 1..Len(s) /\ e.text = <<s[e.total]>>
QueueSound(q, s) == \A i \in 1..Len(q) : InputSound(s, q[i])

RowSound(l) == Covered(row[l].turns, canon[l], row[l].bytes) /\ (~row[l].here => row[l].bytes = 0)

LaneSound(l) ==
  /\ Ordered(canon[l]) /\ SentHeld(l) /\ CommitSound(commit[l], canon[l])
  /\ QueueSound(queue[l], canon[l]) /\ RowSound(l)

ReindexSound ==
  /\ reindex.pc = "read" => reindex.stat <= Len(canon[reindex.lane])
  /\ reindex.pc = "apply" => Opens(reindex.text, canon[reindex.lane]) /\ reindex.stat <= Len(reindex.text)

PassSound == g.pc \in WithText => Opens(g.text, canon[g.lane])

SoundInv == Calm => (\A l \in Lanes : LaneSound(l)) /\ ReindexSound /\ PassSound

LEMMA LaneStays ==
  ASSUME NEW k \in Lanes, LaneSound(k), canon'[k] = canon[k], written'[k] = written[k], commit'[k] = commit[k],
         queue'[k] = queue[k], row'[k] = row[k]
  PROVE  LaneSound(k)'
<1>1. Ordered(canon[k])'
  BY DEF LaneSound, Ordered
<1>2. SentHeld(k)'
  BY DEF LaneSound, SentHeld
<1>3. CommitSound(commit[k], canon[k])' /\ QueueSound(queue[k], canon[k])'
  BY DEF LaneSound
<1>4. RowSound(k)'
  BY DEF LaneSound, RowSound
<1> QED
  BY <1>1, <1>2, <1>3, <1>4 DEF LaneSound

(* What an indexing transaction does to its lane. *)
LEMMA TransactLeaves ==
  ASSUME IngestTypes, NEW l \in Lanes, NEW in \in InputType, Transact(l, in)
  PROVE  /\ \A k \in Lanes \ {l} : row'[k] = row[k]
         /\ \/ row' = row
            \/ /\ Outcome(l, in) = "applied" /\ row'[l] = RowAfter(l, in)
               /\ row'[l].turns = (IF in.replace THEN << >> ELSE row[l].turns) \o Parse(in.text)
               /\ row'[l].bytes = Watermark(l, in)
<1>1. row \in [Lanes -> RowType]
  BY DEF IngestTypes, IndexTypes
<1>2. row' = IF Outcome(l, in) = "applied" THEN [row EXCEPT ![l] = RowAfter(l, in)] ELSE row
  BY DEF Transact
<1>3. CASE Outcome(l, in) = "applied"
  <2>1. row' = [row EXCEPT ![l] = RowAfter(l, in)]
    BY <1>2, <1>3
  <2>2. row'[l] = RowAfter(l, in) /\ \A k \in Lanes \ {l} : row'[k] = row[k]
    BY <1>1, <2>1
  <2>3. RowAfter(l, in).turns = (IF in.replace THEN << >> ELSE row[l].turns) \o Parse(in.text)
        /\ RowAfter(l, in).bytes = Watermark(l, in)
    BY DEF RowAfter, InsertTurns
  <2> QED
    BY <1>3, <2>2, <2>3
<1>4. CASE Outcome(l, in) # "applied"
  BY <1>2, <1>4
<1> QED
  BY <1>3, <1>4

(* The inputs that leave a covered row covered: an append of what the queue
   holds, a whole text, and the tail after a prefix whose turns were counted. *)
TailOf(s, in, b, text) ==
  /\ ~in.replace /\ Opens(text, s) /\ b \in 1..Len(text) /\ b < Len(text)
  /\ in.total = Len(text) /\ in.text = SubSeq(text, b + 1, Len(text))
  /\ in.expect = b /\ in.prior = Len(Parse(Start(text, b)))
WholeOf(s, in) == in.replace /\ in.text \in Text /\ Opens(in.text, s) /\ in.total \in 0..Len(in.text)

LEMMA OutcomeApplied ==
  ASSUME NEW l \in Lanes, NEW in \in InputType, Outcome(l, in) = "applied"
  PROVE  /\ ~tomb /\ in.chunk \notin seen[l] /\ ~SkipsDuplicate(l, in) /\ ~ParentMissing(l)
         /\ ~RecoveredSkips(l, in) /\ ~IndexAdvanced(l, in) /\ ~PrefixMismatch(l, in)
BY DEF Outcome, TombInLock

LEMMA RowStaysSound ==
  ASSUME ArchiveInv, NEW l \in Lanes, NEW in \in InputType, Transact(l, in), LaneSound(l),
         \/ InputSound(canon[l], in)
         \/ WholeOf(canon[l], in)
         \/ \E text \in Text : \E n \in Nat : TailOf(canon[l], in, n, text)
  PROVE  Covered(row'[l].turns, canon[l], row'[l].bytes) /\ (~row'[l].here => row'[l].bytes = 0)
<1> DEFINE t == row[l].turns
           s == canon[l]
           b == row[l].bytes
<1>1. /\ IngestTypes /\ t \in Text /\ s \in Text /\ b \in Nat /\ in.total \in Nat /\ in.replace \in BOOLEAN
      /\ Ordered(s) /\ Covered(t, s, b) /\ Range(t) = Range(row[l].turns) /\ (~row[l].here => b = 0)
  <2>1. IngestTypes
    BY DEF ArchiveInv
  <2> QED
    BY <2>1, PartsAre DEF LaneSound, RowSound, InputType
<1>2. CASE row' = row
  BY <1>1, <1>2
<1>3. ASSUME Outcome(l, in) = "applied", row'[l] = RowAfter(l, in),
             row'[l].turns = (IF in.replace THEN << >> ELSE t) \o Parse(in.text),
             row'[l].bytes = Watermark(l, in)
      PROVE  Covered(row'[l].turns, canon[l], row'[l].bytes) /\ (~row'[l].here => row'[l].bytes = 0)
  <2>0. ~SkipsDuplicate(l, in) /\ ~IndexAdvanced(l, in) /\ ~PrefixMismatch(l, in)
    BY <1>3, OutcomeApplied
  <2>4. row'[l].here
    BY <1>3 DEF RowAfter
  <2>1. CASE InputSound(s, in)
    <3>1. ~in.replace /\ in.total \in 0..Len(s)
      BY <2>1 DEF InputSound
    <3>2. row'[l].turns = t \o Parse(in.text) /\ row'[l].bytes = IF b > in.total THEN b ELSE in.total
      BY <1>3, <3>1 DEF Watermark
    <3>3. in.text = << >> \/ \E i \in 1..in.total : in.text = <<s[i]>> /\ s[i] \notin Range(t)
      <4>1. CASE in.text # << >>
        <5>1. in.total \in 1..Len(s) /\ in.text = <<s[in.total]>>
          BY <2>1, <4>1 DEF InputSound
        <5>2. s[in.total] \in 1..MaxRecords
          BY <1>1, <5>1, TextIs
        <5>3. Range(in.text) = {s[in.total]}
          BY <5>1, <5>2, OneIs
        <5>4. s[in.total] \notin Range(t)
          BY <2>0, <3>1, <4>1, <5>3 DEF SkipsDuplicate, AllIndexed
        <5>5. in.total \in 1..in.total
          BY <5>1, <1>1
        <5> QED
          BY <5>1, <5>4, <5>5
      <4> QED
        BY <4>1
    <3>4. Covered(t \o Parse(in.text), s, IF b > in.total THEN b ELSE in.total)
      BY <1>1, <3>1, <3>3, CoveredAppend
    <3> QED
      BY <2>4, <3>2, <3>4
  <2>2. CASE WholeOf(s, in)
    <3>1. in.replace /\ in.text \in Text /\ Opens(in.text, s) /\ in.total \in 0..Len(in.text)
      BY <2>2 DEF WholeOf
    <3>2. Parse(in.text) \in Seq(1..MaxRecords)
      BY <3>1, ParseTurns DEF Text
    <3>3. row'[l].turns = Parse(in.text) /\ row'[l].bytes = in.total
      BY <1>3, <3>1, <3>2 DEF Watermark
    <3> QED
      BY <1>1, <2>4, <3>1, <3>3, CoveredWhole
  <2>3. ASSUME NEW text \in Text, NEW n \in Nat, TailOf(s, in, n, text)
        PROVE  Covered(row'[l].turns, canon[l], row'[l].bytes)
    <3>1. /\ ~in.replace /\ Opens(text, s) /\ n \in 1..Len(text) /\ n < Len(text) /\ in.total = Len(text)
          /\ in.text = SubSeq(text, n + 1, Len(text)) /\ in.expect = n /\ in.prior = Len(Parse(Start(text, n)))
      BY <2>3 DEF TailOf
    <3>2. Len(text) \in Nat /\ Len(Parse(Start(text, n))) \in Nat
      <4>1. Len(text) \in Nat
        BY TextIs
      <4>2. Start(text, n) \in Text
        BY <3>1, <4>1, StartIs
      <4> QED
        BY <4>1, <4>2, ParseTurns DEF Text
    <3>3. b = n /\ Len(t) = Len(Parse(Start(text, n)))
      <4>1. in.expect # NoCheck /\ in.prior # NoCheck
        BY <3>1, <3>2 DEF NoCheck
      <4> QED
        BY <1>1, <2>0, <3>1, <4>1 DEF IndexAdvanced, PrefixMismatch
    <3>4. row'[l].turns = t \o Parse(in.text) /\ row'[l].bytes = Len(text)
      <4>1. Watermark(l, in) = IF row[l].bytes > in.total THEN row[l].bytes ELSE in.total
        BY <3>1 DEF Watermark
      <4>2. ~(row[l].bytes > in.total)
        BY <3>1, <3>2, <3>3
      <4> QED
        BY <1>3, <3>1, <4>1, <4>2
    <3>5. Covered(t \o Parse(SubSeq(text, n + 1, Len(text))), s, Len(text))
      BY <1>1, <3>1, <3>3, CoveredTail
    <3> QED
      BY <3>1, <3>4, <3>5
  <2> QED
    BY <2>1, <2>2, <2>3, <2>4
<1> QED
  BY <1>1, <1>2, <1>3, TransactLeaves

LEMMA SoundParts ==
  ASSUME SoundInv, Calm
  PROVE  (\A l \in Lanes : LaneSound(l)) /\ ReindexSound /\ PassSound
BY DEF SoundInv

LEMMA ReadersKeep ==
  ASSUME ReindexSound, PassSound, UNCHANGED <<canon, reindex, g>>
  PROVE  ReindexSound' /\ PassSound'
<1>1. ReindexSound'
  BY DEF ReindexSound, Opens
<1>2. PassSound'
  BY DEF PassSound, Opens
<1> QED
  BY <1>1, <1>2

(* A step of one lane's commit that writes neither the canonical nor the queue. *)
LEMMA CommitKeepsSound ==
  ASSUME ArchiveInv, SoundInv, Calm, NEW l \in Lanes, NEW c, NEW w,
         commit' = [commit EXCEPT ![l] = c], written' = [written EXCEPT ![l] = w],
         UNCHANGED <<canon, queue, row, reindex, g>>,
         CommitSound(c, canon[l]),
         \A v \in 1..w : v \in Range(canon[l]) \/ (v = w /\ c.pc \in {"judge", "read", "put"} /\ c.recs = <<v>>)
  PROVE  SoundInv'
<1>1. /\ commit \in [Lanes -> CommitType] /\ written \in [Lanes -> 0..MaxRecords]
      /\ (\A k \in Lanes : LaneSound(k)) /\ ReindexSound /\ PassSound
  BY SoundParts DEF ArchiveInv, IngestTypes, CallTypes
<1>2. /\ commit'[l] = c /\ written'[l] = w
      /\ \A k \in Lanes \ {l} : commit'[k] = commit[k] /\ written'[k] = written[k]
  BY <1>1
<1>3. \A k \in Lanes \ {l} : LaneSound(k)'
  BY <1>1, <1>2, LaneStays
<1>4. LaneSound(l)'
  <2>1. LaneSound(l)
    BY <1>1
  <2>2. Ordered(canon[l])' /\ RowSound(l)'
    BY <2>1 DEF LaneSound, Ordered, RowSound
  <2>3. SentHeld(l)'
    BY <1>2 DEF SentHeld
  <2>4. CommitSound(commit[l], canon[l])' /\ QueueSound(queue[l], canon[l])'
    BY <1>2, <2>1 DEF LaneSound
  <2> QED
    BY <2>2, <2>3, <2>4 DEF LaneSound
<1>5. ReindexSound' /\ PassSound'
  BY <1>1, ReadersKeep
<1> QED
  BY <1>3, <1>4, <1>5 DEF SoundInv

(* Calm steps start in calm states. *)
LEMMA CalmBefore ==
  ASSUME ArchiveInv, Calm', tomb => tomb', replaces' = replaces \/ replaces' = replaces + 1
  PROVE  Calm
BY DEF Calm, ArchiveInv, IngestTypes, CallTypes

LEMMA NotFlying ==
  ASSUME NEW l \in Lanes, SentHeld(l), commit[l].pc \notin {"judge", "read", "put"}
  PROVE  \A v \in 1..written[l] : v \in Range(canon[l])
BY DEF SentHeld

LEMMA SendSound ==
  ASSUME ArchiveInv, SoundInv, NEW l \in Lanes, Send(l), Calm'
  PROVE  SoundInv'
<1>1. /\ IngestTypes /\ written[l] \in 0..MaxRecords /\ MaxRecords \in Nat
      /\ resends \in Nat /\ replaces \in Nat /\ written \in [Lanes -> 0..MaxRecords]
  BY PartsAre DEF ArchiveInv, IngestTypes, CallTypes
<1>2. UNCHANGED <<canon, row, tomb, queue, reindex, g>> /\ commit[l].pc = "idle"
  BY DEF Send, pg
<1>3. Calm /\ replaces' = 0
  <2>1. replaces' = replaces \/ replaces' = replaces + 1
    BY DEF Send
  <2> QED
    BY <1>2, <2>1, CalmBefore DEF Calm
<1>4. LaneSound(l)
  BY <1>3, SoundParts
<1>5. \A v \in 1..written[l] : v \in Range(canon[l])
  BY <1>2, <1>4, NotFlying DEF LaneSound
<1>6. ASSUME NEW w \in 0..MaxRecords, w = written[l] \/ w = written[l] + 1, NEW n, NEW r,
             w = written[l] + 1 => r = w,
             Staged(l, n, <<r>>, FALSE), written' = [written EXCEPT ![l] = w]
      PROVE  SoundInv'
  <2> DEFINE c == [NoCommit EXCEPT !.pc = "judge", !.chunk = n, !.recs = <<r>>, !.replace = FALSE]
  <2>1. commit' = [commit EXCEPT ![l] = c]
    BY <1>6 DEF Staged
  <2>2. c.pc = "judge" /\ c.recs = <<r>> /\ ~c.replace /\ c.text = << >>
    BY DEF NoCommit
  <2> HIDE DEF c
  <2>3. CommitSound(c, canon[l])
    BY <2>2 DEF CommitSound
  <2>4. \A v \in 1..w : v \in Range(canon[l]) \/ (v = w /\ c.pc \in {"judge", "read", "put"} /\ c.recs = <<v>>)
    <3> TAKE v \in 1..w
    <3>1. v \in 1..written[l] \/ (w = written[l] + 1 /\ v = w)
      BY <1>1, <1>6
    <3> QED
      BY <1>5, <1>6, <2>2, <3>1
  <2> QED
    BY <1>2, <1>3, <1>6, <2>1, <2>3, <2>4, CommitKeepsSound
<1>7. CASE /\ written[l] < MaxRecords
           /\ written' = [written EXCEPT ![l] = @ + 1]
           /\ Staged(l, written[l] + 1, <<written[l] + 1>>, FALSE)
  <2> DEFINE w == written[l] + 1
  <2>1. w \in 0..MaxRecords /\ w = written[l] + 1
    BY <1>1, <1>7
  <2>2. written' = [written EXCEPT ![l] = w] /\ Staged(l, w, <<w>>, FALSE)
    BY <1>1, <1>7
  <2> HIDE DEF w
  <2> QED
    BY <1>6, <2>1, <2>2
<1>8. CASE /\ UNCHANGED <<written, replaces>>
           /\ Staged(l, MaxRecords + resends + replaces + 1, <<written[l]>>, FALSE)
  <2>1. written' = [written EXCEPT ![l] = written[l]] /\ written[l] # written[l] + 1
    BY <1>1, <1>8
  <2> QED
    BY <1>1, <1>6, <1>8, <2>1
<1>9. replaces' # replaces + 1
  BY <1>1, <1>3
<1> QED
  BY <1>7, <1>8, <1>9 DEF Send

LEMMA JudgeSound ==
  ASSUME ArchiveInv, SoundInv, NEW l \in Lanes, JudgeCommit(l) \/ ComposeRead(l), Calm'
  PROVE  SoundInv'
<1> DEFINE c == commit[l]
<1>1. /\ IngestTypes /\ c \in CommitType /\ written \in [Lanes -> 0..MaxRecords]
      /\ UNCHANGED <<canon, row, tomb, queue, reindex, g, written, replaces>>
  BY PartsAre DEF ArchiveInv, IngestTypes, CallTypes, JudgeCommit, ComposeRead, pg, budget
<1>2. Calm /\ LaneSound(l) /\ written' = [written EXCEPT ![l] = written[l]] /\ ~tomb
  <2>1. Calm
    BY <1>1, CalmBefore
  <2> QED
    BY <1>1, <2>1, SoundParts DEF Calm
<1>3. CommitSound(c, canon[l]) /\ SentHeld(l)
  BY <1>2 DEF LaneSound
<1>4. ASSUME NEW d, commit' = [commit EXCEPT ![l] = d], CommitSound(d, canon[l]),
             \A v \in 1..written[l] : v \in Range(canon[l]) \/ (d.pc \in {"judge", "read", "put"} /\ d.recs = c.recs)
      PROVE  SoundInv'
  <2>1. \A v \in 1..written[l] : \/ v \in Range(canon[l])
                                 \/ v = written[l] /\ d.pc \in {"judge", "read", "put"} /\ d.recs = <<v>>
    BY <1>3, <1>4 DEF SentHeld
  <2> QED
    BY <1>1, <1>2, <1>4, <2>1, CommitKeepsSound
<1>5. ASSUME NEW d \in CommitType, d.pc \in {"read", "put"}, d.recs = c.recs, d.replace = c.replace,
             d.text \in {<< >>, c.recs}, c.pc # "idle", commit' = [commit EXCEPT ![l] = d]
      PROVE  SoundInv'
  <2>1. CommitSound(d, canon[l])
    BY <1>3, <1>5 DEF CommitSound
  <2> QED
    BY <1>4, <1>5, <2>1
<1>6. ASSUME JudgeCommit(l) PROVE SoundInv'
  <2>1. c.pc = "judge" /\ c.text \in {<< >>, c.recs} /\ ~c.replace
    BY <1>3, <1>6 DEF JudgeCommit, CommitSound
  <2>2. CASE Answer(l) /\ AllIndexed(l, c.recs)
    <3>1. commit' = [commit EXCEPT ![l] = NoCommit] /\ CommitSound(NoCommit, canon[l])
      BY <2>2 DEF Answer, CommitSound, NoCommit
    <3>2. Range(c.recs) \subseteq Range(canon[l])
      <4>1. Backed(l, row[l].turns)
        BY DEF ArchiveInv, IndexHeld
      <4> QED
        BY <1>2, <2>2, <4>1 DEF AllIndexed, Backed
    <3>3. \A v \in 1..written[l] : v \in Range(canon[l])
      <4> TAKE v \in 1..written[l]
      <4>1. CASE c.recs = <<v>>
        <5>1. v \in Range(<<v>>)
          BY OneIs
        <5> QED
          BY <3>2, <4>1, <5>1
      <4> QED
        BY <1>3, <4>1 DEF SentHeld
    <3> QED
      BY <1>4, <3>1, <3>3
  <2>3. CASE commit' = [commit EXCEPT ![l].pc = "read", ![l].text = c.recs]
    <3> DEFINE d == [c EXCEPT !.pc = "read", !.text = c.recs]
    <3>1. commit' = [commit EXCEPT ![l] = d] /\ d \in CommitType /\ d.pc = "read" /\ d.recs = c.recs
          /\ d.replace = c.replace /\ d.text = c.recs
      BY <1>1, <2>3 DEF CommitType
    <3> HIDE DEF d
    <3> QED
      BY <1>5, <2>1, <3>1
  <2>4. CASE commit' = [commit EXCEPT ![l].pc = "read"]
    <3> DEFINE d == [c EXCEPT !.pc = "read"]
    <3>1. commit' = [commit EXCEPT ![l] = d] /\ d \in CommitType /\ d.pc = "read" /\ d.recs = c.recs
          /\ d.replace = c.replace /\ d.text = c.text
      BY <1>1, <2>4 DEF CommitType
    <3> HIDE DEF d
    <3> QED
      BY <1>5, <2>1, <3>1
  <2> QED
    BY <1>2, <1>6, <2>2, <2>3, <2>4 DEF JudgeCommit, Refused
<1>7. ASSUME ComposeRead(l) PROVE SoundInv'
  <2>1. del # "done"
    BY <1>2 DEF ArchiveInv, DeleteHeld
  <2>2. c.pc = "read" /\ c.text \in {<< >>, c.recs} /\ ~c.replace
    BY <1>3, <1>7 DEF ComposeRead, CommitSound
  <2> DEFINE base == IF c.replace THEN << >> ELSE canon[l]
             d == [c EXCEPT !.pc = "put", !.base = base]
  <2>3. commit' = [commit EXCEPT ![l] = d]
    BY <1>7, <2>1 DEF ComposeRead
  <2>4. base \in Text
    BY <1>1, <2>2, PartsAre
  <2> HIDE DEF base
  <2>5. d \in CommitType /\ d.pc = "put" /\ d.recs = c.recs /\ d.replace = c.replace /\ d.text = c.text
    BY <1>1, <2>4 DEF CommitType
  <2> HIDE DEF d
  <2> QED
    BY <1>5, <2>2, <2>3, <2>5
<1> QED
  BY <1>6, <1>7

(* The put appends the commit's record to the canonical. *)
LEMMA AppendIs ==
  ASSUME NEW s \in Text, NEW r \in 1..MaxRecords
  PROVE  LET t == s \o <<r>> IN
         /\ t \in Text /\ Len(t) = Len(s) + 1 /\ t[Len(s) + 1] = r /\ Opens(s, t) /\ Len(s) \in Nat
         /\ Range(t) = Range(s) \cup {r}
<1> DEFINE t == s \o <<r>>
<1>1. <<r>> \in Seq(1..MaxRecords) /\ Range(<<r>>) = {r}
  BY OneIs
<1>2. t \in Seq(1..MaxRecords) /\ Range(t) = Range(s) \cup {r}
  <2>1. s \in Seq(1..MaxRecords)
    BY DEF Text
  <2>2. Range(s \o <<r>>) = Range(s) \cup Range(<<r>>)
    <3> DEFINE u == <<r>>
    <3>1. u \in Seq(1..MaxRecords)
      BY <1>1
    <3> HIDE DEF u
    <3>2. Range(s \o u) = Range(s) \cup Range(u)
      BY <2>1, <3>1, RangesAre
    <3> QED
      BY <3>2 DEF u
  <2> QED
    BY <1>1, <2>1, <2>2
<1>3. Len(t) = Len(s) + 1 /\ t[Len(s) + 1] = r /\ Len(s) \in Nat /\ \A i \in 1..Len(s) : t[i] = s[i]
  BY DEF Text
<1> HIDE DEF t
<1>4. Opens(s, t)
  BY <1>3 DEF Opens
<1> QED
  BY <1>2, <1>3, <1>4 DEF t, Text

LEMMA QueueGrows ==
  ASSUME NEW s \in Text, NEW u \in Text, Opens(s, u), NEW q, QueueSound(q, s)
  PROVE  QueueSound(q, u)
<1>1. Len(s) \in Nat /\ Len(u) \in Nat /\ Len(s) <= Len(u) /\ \A i \in 1..Len(s) : u[i] = s[i]
  BY TextIs DEF Opens
<1>2. ASSUME NEW e, InputSound(s, e) PROVE InputSound(u, e)
  <2>1. ~e.replace /\ e.total \in 0..Len(s)
    BY <1>2 DEF InputSound
  <2>2. e.total \in 0..Len(u)
    BY <1>1, <2>1
  <2>3. CASE e.text # << >>
    <3>1. e.total \in 1..Len(s) /\ e.text = <<s[e.total]>>
      BY <1>2, <2>3 DEF InputSound
    <3>2. e.total \in 1..Len(u) /\ u[e.total] = s[e.total]
      BY <1>1, <3>1
    <3> QED
      BY <2>1, <2>2, <3>1, <3>2 DEF InputSound
  <2>4. CASE e.text = << >>
    BY <2>1, <2>2, <2>4 DEF InputSound
  <2> QED
    BY <2>3, <2>4
<1> QED
  BY <1>2 DEF QueueSound

LEMMA OrderedMore ==
  ASSUME NEW s \in Text, Ordered(s), NEW r \in 1..MaxRecords, r > 1 => r - 1 \in Range(s)
  PROVE  Ordered(s \o <<r>>)
<1> DEFINE t == s \o <<r>>
           m == Len(s)
<1>1. t \in Text /\ Len(t) = m + 1 /\ t[m + 1] = r /\ m \in Nat /\ (\A i \in 1..m : t[i] = s[i]) /\ Range(s) = {s[i] : i \in 1..m}
  BY AppendIs, TextIs DEF Opens
<1> HIDE DEF t, m
<1>2. ASSUME NEW i \in 1..(m + 1), t[i] > 1 PROVE \E j \in 1..(m + 1) : j < i /\ t[j] = t[i] - 1
  <2>1. CASE i \in 1..m
    <3>1. PICK j \in 1..m : j < i /\ s[j] = s[i] - 1
      BY <1>1, <1>2, <2>1 DEF Ordered, m
    <3>2. j \in 1..(m + 1) /\ t[j] = s[j] /\ t[i] = s[i]
      BY <1>1, <2>1, <3>1
    <3> QED
      BY <3>1, <3>2
  <2>2. CASE i = m + 1
    <3>1. PICK j \in 1..m : r - 1 = s[j]
      BY <1>1, <1>2, <2>2
    <3>2. j \in 1..(m + 1) /\ t[j] = s[j] /\ j < i /\ t[i] = r
      BY <1>1, <2>2, <3>1
    <3> QED
      BY <3>1, <3>2
  <2> QED
    BY <1>1, <2>1, <2>2
<1> QED
  BY <1>1, <1>2 DEF Ordered, t

LEMMA PutSound ==
  ASSUME ArchiveInv, SoundInv, NEW l \in Lanes, ComposePut(l), Calm'
  PROVE  SoundInv'
<1> DEFINE c == commit[l]
           s == canon[l]
           d == [c EXCEPT !.pc = "intent"]
<1>1. /\ IngestTypes /\ c \in CommitType /\ s \in Text /\ canon \in [Lanes -> Text] /\ commit \in [Lanes -> CommitType]
      /\ written[l] \in 0..MaxRecords /\ MaxRecords \in Nat /\ c.pc = "put"
      /\ canon' = [canon EXCEPT ![l] = c.base \o c.recs] /\ commit' = [commit EXCEPT ![l] = d]
      /\ UNCHANGED <<row, tomb, queue, reindex, g, written, replaces>>
  BY PartsAre DEF ArchiveInv, IngestTypes, CallTypes, ComposePut, pg, budget
<1>2. Calm /\ LaneSound(l) /\ ~tomb /\ (\A k \in Lanes : LaneSound(k)) /\ ReindexSound /\ PassSound
  <2>1. Calm
    BY <1>1, CalmBefore
  <2> QED
    BY <2>1, SoundParts DEF Calm
<1>3. CommitSound(c, s) /\ SentHeld(l) /\ Ordered(s) /\ QueueSound(queue[l], s) /\ RowSound(l) /\ CommitHeld(l)
  BY <1>2 DEF LaneSound, ArchiveInv
<1>4. ~c.replace /\ c.text \in {<< >>, c.recs} /\ c.base = s
  BY <1>1, <1>2, <1>3 DEF CommitSound, CommitHeld
<1>5. PICK r \in 1..written[l] : c.recs = <<r>>
  BY <1>1, <1>3, <1>4 DEF CommitHeld, Carries
<1>6. r \in 1..MaxRecords
  BY <1>1
<1> DEFINE t == s \o <<r>>
<1>7. /\ t \in Text /\ Len(t) = Len(s) + 1 /\ t[Len(s) + 1] = r /\ Opens(s, t) /\ Len(s) \in Nat
      /\ Range(t) = Range(s) \cup {r}
  BY <1>1, <1>6, AppendIs
<1>8. d.pc = "intent" /\ d.recs = c.recs /\ d.replace = c.replace /\ d.text = c.text /\ d.base = c.base
  BY <1>1 DEF CommitType
<1>9. Ordered(t)
  <2>1. ASSUME r > 1 PROVE r - 1 \in Range(s)
    <3>1. r - 1 \in 1..written[l] /\ r - 1 # written[l]
      BY <1>1, <2>1
    <3> QED
      BY <1>3, <3>1 DEF SentHeld
  <2> QED
    BY <1>1, <1>3, <1>6, <2>1, OrderedMore
<1> HIDE DEF t, d
<1>10. /\ canon'[l] = t /\ commit'[l] = d /\ \A k \in Lanes \ {l} : canon'[k] = canon[k] /\ commit'[k] = commit[k]
  <2>1. canon' = [canon EXCEPT ![l] = t]
    BY <1>1, <1>4, <1>5 DEF t
  <2> QED
    BY <1>1, <2>1
<1>11. \A k \in Lanes \ {l} : LaneSound(k)'
  BY <1>1, <1>2, <1>10, LaneStays
<1>12. LaneSound(l)'
  <2>1. Ordered(canon[l])'
    BY <1>9, <1>10 DEF Ordered
  <2>2. SentHeld(l)'
    <3>1. ASSUME NEW v \in 1..written[l] PROVE v \in Range(t)
      <4>1. CASE c.recs = <<v>>
        <5>1. v = r
          BY <1>5, <4>1
        <5> QED
          BY <1>7, <5>1
      <4> QED
        BY <1>3, <1>7, <4>1 DEF SentHeld
    <3> QED
      BY <1>1, <1>10, <3>1 DEF SentHeld
  <2>3. CommitSound(commit[l], canon[l])'
    <3>1. Len(d.base) + Len(d.recs) = Len(s) + 1
      BY <1>4, <1>5, <1>8
    <3>2. Len(s) + 1 \in 1..Len(t) /\ d.recs = <<t[Len(s) + 1]>>
      BY <1>5, <1>7, <1>8
    <3>3. CommitSound(d, t)
      BY <1>4, <1>8, <3>1, <3>2 DEF CommitSound
    <3> QED
      BY <1>10, <3>3
  <2>4. QueueSound(queue[l], canon[l])'
    <3>1. QueueSound(queue[l], t)
      BY <1>1, <1>3, <1>7, QueueGrows
    <3> QED
      BY <1>1, <1>10, <3>1
  <2>5. RowSound(l)'
    <3>0. row[l].turns \in Text /\ row[l].bytes \in Nat
      BY <1>1, PartsAre
    <3>1. Covered(row[l].turns, t, row[l].bytes) /\ (~row[l].here => row[l].bytes = 0)
      BY <1>1, <1>3, <1>7, <3>0, CoveredGrows DEF RowSound
    <3> QED
      BY <1>1, <1>10, <3>1 DEF RowSound
  <2> QED
    BY <2>1, <2>2, <2>3, <2>4, <2>5 DEF LaneSound
<1>13. ASSUME NEW k \in Lanes PROVE canon'[k] \in Text /\ Opens(canon[k], canon'[k]) /\ Len(canon[k]) <= Len(canon'[k])
  <2>1. CASE k = l
    BY <1>7, <1>10, <2>1 DEF Opens
  <2>2. CASE k # l
    <3>1. canon'[k] = canon[k] /\ canon[k] \in Text /\ Len(canon[k]) \in Nat
      BY <1>1, <1>10, <2>2, PartsAre
    <3> QED
      BY <3>1 DEF Opens
  <2> QED
    BY <2>1, <2>2
<1>14. ReindexSound'
  <2>1. reindex.lane \in Lanes /\ reindex.stat \in Nat /\ reindex.text \in Text /\ canon[reindex.lane] \in Text
    BY <1>1, PartsAre
  <2>2. /\ canon'[reindex.lane] \in Text /\ Opens(canon[reindex.lane], canon'[reindex.lane])
        /\ Len(canon[reindex.lane]) <= Len(canon'[reindex.lane])
    BY <1>13, <2>1
  <2>3. Len(canon[reindex.lane]) \in Nat /\ Len(canon'[reindex.lane]) \in Nat
    BY <2>1, <2>2, TextIs
  <2>4. Opens(reindex.text, canon[reindex.lane]) => Opens(reindex.text, canon'[reindex.lane])
    BY <2>1, <2>2, OpensChain
  <2>5. reindex.pc = "read" => reindex.stat <= Len(canon'[reindex.lane])
    <3>1. reindex.pc = "read" => reindex.stat <= Len(canon[reindex.lane])
      BY <1>2 DEF ReindexSound
    <3> QED
      BY <2>1, <2>2, <2>3, <3>1
  <2>6. reindex.pc = "apply" => Opens(reindex.text, canon'[reindex.lane]) /\ reindex.stat <= Len(reindex.text)
    BY <1>2, <2>4 DEF ReindexSound
  <2> QED
    BY <1>1, <2>5, <2>6 DEF ReindexSound
<1>15. PassSound'
  <2>1. g.lane \in Lanes /\ g.text \in Text /\ canon[g.lane] \in Text
    BY <1>1, PartsAre
  <2>2. canon'[g.lane] \in Text /\ Opens(canon[g.lane], canon'[g.lane])
    BY <1>13, <2>1
  <2>3. Opens(g.text, canon[g.lane]) => Opens(g.text, canon'[g.lane])
    BY <2>1, <2>2, OpensChain
  <2> QED
    BY <1>1, <1>2, <2>3 DEF PassSound
<1> QED
  BY <1>11, <1>12, <1>14, <1>15 DEF SoundInv

(* A step of one lane's index write: its queue is what is left or was added, its
   row what the transaction leaves. *)
LEMMA IndexedStaysSound ==
  ASSUME ArchiveInv, SoundInv, Calm, NEW l \in Lanes, NEW in \in InputType, Transact(l, in),
         UNCHANGED <<canon, commit, written>>,
         \A k \in Lanes \ {l} : queue'[k] = queue[k],
         QueueSound(queue'[l], canon[l]),
         \/ InputSound(canon[l], in)
         \/ WholeOf(canon[l], in)
         \/ \E text \in Text : \E n \in Nat : TailOf(canon[l], in, n, text)
  PROVE  \A k \in Lanes : LaneSound(k)'
<1>1. /\ IngestTypes /\ \A k \in Lanes : LaneSound(k)
  BY SoundParts DEF ArchiveInv
<1>2. \A k \in Lanes \ {l} : row'[k] = row[k]
  BY <1>1, TransactLeaves
<1>3. \A k \in Lanes \ {l} : LaneSound(k)'
  BY <1>1, <1>2, LaneStays
<1>4. LaneSound(l)'
  <2>1. LaneSound(l)
    BY <1>1
  <2>2. Ordered(canon[l])' /\ SentHeld(l)' /\ CommitSound(commit[l], canon[l])'
    BY <2>1 DEF LaneSound, Ordered, SentHeld
  <2>3. QueueSound(queue[l], canon[l])'
    OBVIOUS
  <2>4. RowSound(l)'
    <3>1. Covered(row'[l].turns, canon[l], row'[l].bytes) /\ (~row'[l].here => row'[l].bytes = 0)
      BY <2>1, RowStaysSound
    <3> QED
      BY <3>1 DEF RowSound
  <2> QED
    BY <2>2, <2>3, <2>4 DEF LaneSound
<1> QED
  BY <1>3, <1>4

LEMMA TailsSound ==
  ASSUME NEW q \in Seq(InputType), q # << >>, NEW s, QueueSound(q, s)
  PROVE  InputSound(s, Head(q)) /\ QueueSound(Tail(q), s)
<1>1. Head(q) = q[1] /\ 1 \in 1..Len(q) /\ \A i \in 1..Len(Tail(q)) : Tail(q)[i] = q[i + 1] /\ i + 1 \in 1..Len(q)
  OBVIOUS
<1> QED
  BY <1>1 DEF QueueSound

LEMMA IndexWriteSound ==
  ASSUME ArchiveInv, SoundInv, NEW l \in Lanes, IndexWrite(l), Calm'
  PROVE  SoundInv'
<1>1. queue[l] # << >> /\ IndexHead(l)
  BY DEF IndexWrite, DeferredIndexWrite, RelayedIndexWrite
<1>2. /\ Transact(l, Head(queue[l])) /\ queue' = [queue EXCEPT ![l] = Tail(queue[l])]
      /\ UNCHANGED <<canon, commit, written, replaces, reindex, g, tomb>>
  BY <1>1 DEF IndexHead, Transact
<1>3. Calm
  BY <1>2, CalmBefore
<1>4. /\ LaneSound(l) /\ ReindexSound /\ PassSound /\ queue \in [Lanes -> Seq(InputType)] /\ queue[l] \in Seq(InputType)
      /\ Head(queue[l]) \in InputType
  BY <1>1, <1>3, SoundParts, TailsKeep DEF ArchiveInv, IngestTypes, CallTypes
<1>5. InputSound(canon[l], Head(queue[l])) /\ QueueSound(Tail(queue[l]), canon[l])
  BY <1>1, <1>4, TailsSound DEF LaneSound
<1>6. queue'[l] = Tail(queue[l]) /\ \A k \in Lanes \ {l} : queue'[k] = queue[k]
  BY <1>2, <1>4
<1>7. \A k \in Lanes : LaneSound(k)'
  BY <1>2, <1>3, <1>4, <1>5, <1>6, IndexedStaysSound
<1>8. ReindexSound' /\ PassSound'
  BY <1>2, <1>4, ReadersKeep
<1> QED
  BY <1>7, <1>8 DEF SoundInv

(* A step that only takes from the queues, or adds to one, or ends the commits. *)
LEMMA QueuesStaySound ==
  ASSUME SoundInv, Calm, UNCHANGED <<canon, row, written>>,
         \A k \in Lanes : QueueSound(queue'[k], canon[k]),
         \A k \in Lanes : CommitSound(commit'[k], canon[k]),
         \A k \in Lanes : SentHeld(k) => SentHeld(k)'
  PROVE  \A k \in Lanes : LaneSound(k)'
<1> TAKE k \in Lanes
<1>1. LaneSound(k)
  BY SoundParts
<1>2. Ordered(canon[k])' /\ RowSound(k)'
  BY <1>1 DEF LaneSound, Ordered, RowSound
<1>3. SentHeld(k)'
  BY <1>1 DEF LaneSound
<1>4. QueueSound(queue[k], canon[k])' /\ CommitSound(commit[k], canon[k])'
  OBVIOUS
<1> QED
  BY <1>2, <1>3, <1>4 DEF LaneSound

LEMMA LostSound ==
  ASSUME ArchiveInv, SoundInv, NEW l \in Lanes, IndexWriteLost(l), Calm'
  PROVE  SoundInv'
<1>1. /\ queue[l] # << >> /\ queue' = [queue EXCEPT ![l] = Tail(queue[l])]
      /\ UNCHANGED <<canon, row, tomb, commit, reindex, g, written, replaces>>
  BY DEF IndexWriteLost, pg
<1>2. Calm
  BY <1>1, CalmBefore
<1>3. /\ (\A k \in Lanes : LaneSound(k)) /\ ReindexSound /\ PassSound
      /\ queue \in [Lanes -> Seq(InputType)] /\ queue[l] \in Seq(InputType)
  BY <1>2, SoundParts DEF ArchiveInv, IngestTypes, CallTypes
<1>4. QueueSound(Tail(queue[l]), canon[l])
  BY <1>1, <1>3, TailsSound DEF LaneSound
<1>5. ASSUME NEW k \in Lanes PROVE QueueSound(queue'[k], canon[k]) /\ CommitSound(commit'[k], canon[k])
  <2>1. queue'[k] = IF k = l THEN Tail(queue[l]) ELSE queue[k]
    BY <1>1, <1>3
  <2> QED
    BY <1>1, <1>3, <1>4, <2>1 DEF LaneSound
<1>6. ASSUME NEW k \in Lanes, SentHeld(k) PROVE SentHeld(k)'
  BY <1>1, <1>6 DEF SentHeld
<1>7. \A k \in Lanes : LaneSound(k)'
  BY <1>1, <1>2, <1>5, <1>6, QueuesStaySound
<1>8. ReindexSound' /\ PassSound'
  BY <1>1, <1>3, ReadersKeep
<1> QED
  BY <1>7, <1>8 DEF SoundInv

LEMMA NoteSound ==
  ASSUME ArchiveInv, SoundInv, NEW l \in Lanes, NoteIntent(l), Calm'
  PROVE  SoundInv'
<1> DEFINE c == commit[l]
           s == canon[l]
           size == Len(c.base) + Len(c.recs)
           in == Live(c.chunk, c.text, size, c.replace)
           q == Append(queue[l], in)
<1>1. /\ IngestTypes /\ c \in CommitType /\ queue[l] \in Seq(InputType) /\ s \in Text
      /\ queue \in [Lanes -> Seq(InputType)] /\ commit \in [Lanes -> CommitType] /\ c.pc = "intent"
      /\ queue' = [queue EXCEPT ![l] = q] /\ commit' = [commit EXCEPT ![l] = NoCommit]
      /\ UNCHANGED <<canon, row, tomb, reindex, g, written, replaces>>
  BY PartsAre DEF ArchiveInv, IngestTypes, CallTypes, NoteIntent, Answer
<1>2. Calm
  BY <1>1, CalmBefore
<1>3. (\A k \in Lanes : LaneSound(k)) /\ ReindexSound /\ PassSound
  BY <1>2, SoundParts
<1>4. SentHeld(l) /\ CommitSound(c, s) /\ QueueSound(queue[l], s)
  BY <1>3 DEF LaneSound
<1>5. ~c.replace /\ c.text \in {<< >>, c.recs} /\ size \in 1..Len(s) /\ c.recs = <<s[size]>> /\ Len(s) \in Nat
  BY <1>1, <1>4, TextIs DEF CommitSound
<1>6. in.replace = c.replace /\ in.total = size /\ in.text = c.text
  BY DEF Live
<1> HIDE DEF in, size
<1>7. InputSound(s, in)
  BY <1>5, <1>6 DEF InputSound
<1>8. QueueSound(q, s)
  <2> DEFINE p == queue[l]
  <2>1. p \in Seq(InputType)
    BY <1>1
  <2> HIDE DEF p
  <2>2. Len(Append(p, in)) = Len(p) + 1 /\ Append(p, in)[Len(p) + 1] = in /\ Len(p) \in Nat
        /\ \A i \in 1..Len(p) : Append(p, in)[i] = p[i]
    BY <2>1
  <2>3. ASSUME NEW i \in 1..Len(Append(p, in)) PROVE InputSound(s, Append(p, in)[i])
    <3>1. i \in 1..Len(p) \/ i = Len(p) + 1
      BY <2>2
    <3>2. i \in 1..Len(p) => InputSound(s, p[i])
      BY <1>4 DEF QueueSound, p
    <3> QED
      BY <1>7, <2>2, <3>1, <3>2
  <2> QED
    BY <2>3 DEF QueueSound, p
<1> HIDE DEF q
<1>9. ASSUME NEW k \in Lanes PROVE QueueSound(queue'[k], canon[k]) /\ CommitSound(commit'[k], canon[k])
  <2>1. (queue'[k] = IF k = l THEN q ELSE queue[k]) /\ (commit'[k] = IF k = l THEN NoCommit ELSE commit[k])
    BY <1>1
  <2>2. CommitSound(NoCommit, s)
    BY DEF CommitSound, NoCommit
  <2>3. QueueSound(queue[k], canon[k]) /\ CommitSound(commit[k], canon[k])
    BY <1>3 DEF LaneSound
  <2> QED
    BY <1>8, <2>1, <2>2, <2>3
<1>10. ASSUME NEW k \in Lanes, SentHeld(k) PROVE SentHeld(k)'
  <2>1. CASE k # l
    <3>1. commit'[k] = commit[k]
      BY <1>1, <2>1
    <3> QED
      BY <1>1, <1>10, <3>1 DEF SentHeld
  <2>2. CASE k = l
    <3>1. \A v \in 1..written[l] : v \in Range(canon[l])
      BY <1>1, <1>4, NotFlying
    <3> QED
      BY <1>1, <2>2, <3>1 DEF SentHeld
  <2> QED
    BY <2>1, <2>2
<1>11. \A k \in Lanes : LaneSound(k)'
  BY <1>1, <1>2, <1>9, <1>10, QueuesStaySound
<1>12. ReindexSound' /\ PassSound'
  BY <1>1, <1>3, ReadersKeep
<1> QED
  BY <1>11, <1>12 DEF SoundInv

LEMMA CrashSound ==
  ASSUME ArchiveInv, SoundInv, Crash, Calm'
  PROVE  SoundInv'
<1> DEFINE Again(c) == [NoCommit EXCEPT !.pc = "judge", !.chunk = c.chunk, !.recs = c.recs, !.replace = c.replace]
<1>1. /\ IngestTypes /\ commit \in [Lanes -> CommitType] /\ queue \in [Lanes -> Seq(InputType)]
      /\ queue' = [k \in Lanes |-> IF k \in Tunnel THEN queue[k] ELSE << >>]
      /\ commit' = [k \in Lanes |-> IF commit[k].pc = "idle" THEN NoCommit ELSE Again(commit[k])]
      /\ reindex' = NoReindex /\ g' = NoPass
      /\ UNCHANGED <<canon, row, tomb, written, replaces>>
  BY DEF ArchiveInv, IngestTypes, CallTypes, Crash, pg
<1>2. Calm
  BY <1>1, CalmBefore
<1>3. \A k \in Lanes : LaneSound(k)
  BY <1>2, SoundParts
<1>4. \A c \in CommitType : /\ Again(c).pc = "judge" /\ Again(c).recs = c.recs
                            /\ Again(c).replace = c.replace /\ Again(c).text = << >>
  BY DEF NoCommit
<1> HIDE DEF Again
<1>5. ASSUME NEW k \in Lanes
      PROVE QueueSound(queue'[k], canon[k]) /\ CommitSound(commit'[k], canon[k]) /\ (SentHeld(k) => SentHeld(k)')
  <2>1. commit[k] \in CommitType /\ QueueSound(queue[k], canon[k]) /\ CommitSound(commit[k], canon[k])
    BY <1>1, <1>3 DEF LaneSound
  <2>2. QueueSound(queue'[k], canon[k])
    <3>1. queue'[k] = IF k \in Tunnel THEN queue[k] ELSE << >>
      BY <1>1
    <3>2. QueueSound(<< >>, canon[k])
      BY DEF QueueSound
    <3> QED
      BY <2>1, <3>1, <3>2
  <2>3. CASE commit[k].pc = "idle"
    <3>1. commit'[k] = NoCommit
      BY <1>1, <2>3
    <3>2. CommitSound(NoCommit, canon[k])
      BY DEF CommitSound, NoCommit
    <3> QED
      BY <1>1, <2>2, <2>3, <3>1, <3>2 DEF SentHeld
  <2>4. CASE commit[k].pc # "idle"
    <3> DEFINE d == Again(commit[k])
    <3>1. commit'[k] = d /\ d.pc = "judge" /\ d.recs = commit[k].recs /\ d.replace = commit[k].replace /\ d.text = << >>
      BY <1>1, <1>4, <2>1, <2>4
    <3> HIDE DEF d
    <3>2. CommitSound(d, canon[k])
      BY <2>1, <2>4, <3>1 DEF CommitSound
    <3> QED
      BY <1>1, <2>2, <3>1, <3>2 DEF SentHeld
  <2> QED
    BY <2>3, <2>4
<1>6. \A k \in Lanes : LaneSound(k)'
  BY <1>1, <1>2, <1>5, QueuesStaySound
<1>7. ReindexSound' /\ PassSound'
  BY <1>1 DEF ReindexSound, PassSound, NoReindex, NoPass, WithText
<1> QED
  BY <1>6, <1>7 DEF SoundInv

(* A step that leaves the lanes alone. *)
LEMMA LanesStay ==
  ASSUME SoundInv, Calm, UNCHANGED <<canon, written, commit, queue, row>>
  PROVE  \A k \in Lanes : LaneSound(k)'
BY SoundParts, LaneStays

LEMMA ReindexSteps ==
  ASSUME ArchiveInv, SoundInv, (\E l \in Lanes : ReindexStat(l)) \/ ReindexRead \/ ReindexApply, Calm'
  PROVE  SoundInv'
<1>1. UNCHANGED <<canon, tomb, commit, queue, g, written, replaces>>
  BY DEF ReindexStat, ReindexRead, ReindexApply, Transact, pg, budget
<1>2. Calm
  BY <1>1, CalmBefore
<1>3. /\ (\A k \in Lanes : LaneSound(k)) /\ ReindexSound /\ PassSound /\ IngestTypes
      /\ reindex \in ReindexType /\ reindex.lane \in Lanes /\ reindex.stat \in Nat /\ reindex.text \in Text
      /\ canon[reindex.lane] \in Text /\ queue[reindex.lane] \in Seq(InputType)
  BY <1>2, SoundParts, PartsAre DEF ArchiveInv, IngestTypes, CallTypes
<1>4. PassSound'
  BY <1>1, <1>3 DEF PassSound
<1>5. CASE \E l \in Lanes : ReindexStat(l)
  <2>1. PICK l \in Lanes :
          /\ row' = row
          /\ \/ reindex' = NoReindex
             \/ reindex' = [pc |-> "read", lane |-> l, stat |-> Len(canon[l]), text |-> << >>]
    BY <1>5 DEF ReindexStat, pg
  <2>2. Len(canon[l]) \in Nat
    BY <1>3, PartsAre
  <2>3. ReindexSound'
    BY <1>1, <2>1, <2>2 DEF ReindexSound, NoReindex
  <2> QED
    BY <1>1, <1>2, <1>4, <2>1, <2>3, LanesStay DEF SoundInv
<1>6. CASE ReindexRead
  <2> DEFINE s == canon[reindex.lane]
             r == [reindex EXCEPT !.pc = "apply", !.text = s]
  <2>1. row' = row /\ (reindex' = NoReindex \/ reindex' = r) /\ reindex.pc = "read"
    BY <1>6 DEF ReindexRead
  <2>2. ReindexSound'
    <3>1. CASE reindex' = NoReindex
      BY <3>1 DEF ReindexSound, NoReindex
    <3>2. CASE reindex' = r
      <4>1. r.pc = "apply" /\ r.text = s /\ r.lane = reindex.lane /\ r.stat = reindex.stat
        BY <1>3 DEF ReindexType
      <4>2. Opens(s, s) /\ reindex.stat <= Len(s)
        BY <1>3, <2>1, TextIs DEF Opens, ReindexSound
      <4> HIDE DEF r
      <4> QED
        BY <1>1, <3>2, <4>1, <4>2 DEF ReindexSound
    <3> QED
      BY <2>1, <3>1, <3>2
  <2> QED
    BY <1>1, <1>2, <1>4, <2>1, <2>2, LanesStay DEF SoundInv
<1>7. CASE ReindexApply
  <2> DEFINE l == reindex.lane
             in == Live(ReindexChunk, reindex.text, reindex.stat, TRUE)
  <2>1. Transact(l, in) /\ reindex' = NoReindex /\ reindex.pc = "apply"
    BY <1>7 DEF ReindexApply
  <2>2. ReindexChunk \in Nat
    BY <1>3, PartsAre DEF ReindexChunk, ArchiveInv, IngestTypes, CallTypes
  <2>3. in \in InputType
    BY <1>3, <2>2, LiveIs
  <2>4. in.replace /\ in.text = reindex.text /\ in.total = reindex.stat
    BY DEF Live
  <2> HIDE DEF in
  <2>5. Opens(reindex.text, canon[l]) /\ reindex.stat <= Len(reindex.text) /\ Len(reindex.text) \in Nat
    BY <1>3, <2>1, TextIs DEF ReindexSound
  <2>6. WholeOf(canon[l], in)
    BY <1>3, <2>4, <2>5 DEF WholeOf
  <2>7. QueueSound(queue'[l], canon[l])
    BY <1>1, <1>3 DEF LaneSound
  <2>8. \A k \in Lanes : LaneSound(k)'
    BY <1>1, <1>2, <1>3, <2>1, <2>3, <2>6, <2>7, IndexedStaysSound
  <2>9. ReindexSound'
    BY <2>1 DEF ReindexSound, NoReindex
  <2> QED
    BY <1>4, <2>8, <2>9 DEF SoundInv
<1> QED
  BY <1>5, <1>6, <1>7

LEMMA DeleteSound ==
  ASSUME ArchiveInv, SoundInv, DeleteCalled \/ DeleteStep, Calm'
  PROVE  SoundInv'
<1>1. CASE DeleteCalled
  <2>1. UNCHANGED <<canon, row, tomb, commit, queue, reindex, g, written, replaces>>
    BY <1>1 DEF DeleteCalled, pg, budget
  <2>2. Calm
    BY <2>1, CalmBefore
  <2>3. ReindexSound /\ PassSound
    BY <2>2, SoundParts
  <2> QED
    BY <2>1, <2>2, <2>3, LanesStay, ReadersKeep DEF SoundInv
<1>2. ~tomb'
  BY DEF Calm
<1>3. ASSUME DeleteStep PROVE FALSE
  <2>1. PurgeSessionPg \/ StoreDeleteSession => tomb /\ tomb' = tomb
    BY DEF PurgeSessionPg, StoreDeleteSession, pg, ArchiveInv, DeleteHeld
  <2>2. MarkSessionDeleted => tomb'
    BY DEF MarkSessionDeleted, Tombstoned
  <2> QED
    BY <1>2, <1>3, <2>1, <2>2 DEF DeleteStep
<1> QED
  BY <1>1, <1>3

(* A step of the pass that does not index. *)
LEMMA PassReadsSound ==
  ASSUME ArchiveInv, SoundInv, Calm', UNCHANGED passOnly, UNCHANGED row, PassSound'
  PROVE  SoundInv'
<1>1. UNCHANGED <<canon, row, tomb, commit, queue, reindex, written, replaces>>
  BY DEF passOnly
<1>2. Calm
  BY <1>1, CalmBefore
<1>3. ReindexSound'
  <2>1. ReindexSound
    BY <1>2, SoundParts
  <2> QED
    BY <1>1, <2>1 DEF ReindexSound
<1> QED
  BY <1>1, <1>2, <1>3, LanesStay DEF SoundInv

(* A step of the pass that indexes a whole text or the tail of one. *)
LEMMA PassIndexesSound ==
  ASSUME ArchiveInv, SoundInv, Calm', UNCHANGED passOnly, PassSound',
         NEW l \in Lanes, NEW in \in InputType, Transact(l, in),
         \/ WholeOf(canon[l], in)
         \/ \E text \in Text : \E n \in Nat : TailOf(canon[l], in, n, text)
  PROVE  SoundInv'
<1>1. UNCHANGED <<canon, tomb, commit, queue, reindex, written, replaces>>
  BY DEF passOnly
<1>2. Calm
  BY <1>1, CalmBefore
<1>3. ReindexSound /\ LaneSound(l)
  BY <1>2, SoundParts
<1>4. ReindexSound'
  BY <1>1, <1>3 DEF ReindexSound
<1>5. QueueSound(queue'[l], canon[l])
  BY <1>1, <1>3 DEF LaneSound
<1>6. \A k \in Lanes : LaneSound(k)'
  BY <1>1, <1>2, <1>5, IndexedStaysSound
<1> QED
  BY <1>4, <1>6 DEF SoundInv

LEMMA PassGoesOn ==
  /\ NextRow.pc = "sweep" /\ \A failed \in BOOLEAN : NextCanonical(failed).pc = "pick" \/ g \notin PassType
<1>1. NextRow.pc = "sweep"
  BY DEF NextRow, NoPass
<1>2. ASSUME NEW failed \in BOOLEAN, g \in PassType PROVE NextCanonical(failed).pc = "pick"
  <2> DEFINE todo == g.todo \ {g.lane}
             f == g.failed \/ (failed /\ g.lane = Parent)
             q == [g EXCEPT !.pc = "pick", !.todo = todo, !.text = << >>, !.anchor = 0, !.stale = FALSE,
                            !.lane = Parent, !.failed = f]
  <2>1. NextCanonical(failed) = q
    BY DEF NextCanonical
  <2> HIDE DEF todo, f
  <2>2. q.pc = "pick"
    BY <1>2 DEF PassType
  <2> QED
    BY <2>1, <2>2
<1> QED
  BY <1>1, <1>2

LEMMA PassSound0 ==
  ASSUME g'.pc \notin WithText
  PROVE  PassSound'
BY DEF PassSound, WithText

LEMMA PassSteps ==
  ASSUME ArchiveInv, SoundInv, Pass, Calm'
  PROVE  SoundInv'
<1>1. /\ IngestTypes /\ g \in PassType /\ PassHeld /\ g.lane \in Lanes /\ g.text \in Text /\ Parent \in Lanes
      /\ canon[g.lane] \in Text
  BY PartsAre DEF ArchiveInv, IngestTypes
<1>2. UNCHANGED passOnly
  BY DEF Pass, ListStore, StaleIntents, BulkGate, PickCanonical, HoldBack, CheckCanonical, ReadCanonical, AppendTail, VerifyTail,
         RebuildParent, RebuildLane, RebuildFrom, SweepRow, SweepStat, SweepRead, SweepJudge, Transact,
         guarantorOnly, others, pg, budget, passOnly
<1>3. Calm /\ PassSound
  <2>1. Calm
    BY <1>2, CalmBefore DEF passOnly
  <2> QED
    BY <2>1, SoundParts
<1>4. \A failed \in BOOLEAN : g' = NextCanonical(failed) => PassSound'
  BY <1>1, PassGoesOn, PassSound0 DEF WithText
<1>5. g' = NextRow => PassSound'
  BY PassGoesOn, PassSound0 DEF WithText
<1>6. ASSUME NEW pc \in {"verify", "full"}, NEW a, g.pc \in WithText,
             g' = [g EXCEPT !.pc = pc] \/ g' = [g EXCEPT !.pc = pc, !.anchor = a]
      PROVE  PassSound'
  <2>1. g'.text = g.text /\ g'.lane = g.lane
    BY <1>1, <1>6 DEF PassType
  <2> QED
    BY <1>2, <1>3, <1>6, <2>1 DEF PassSound, passOnly
<1>7. ASSUME NEW pc, NEW a, g' = [g EXCEPT !.pc = pc, !.text = canon[g.lane], !.anchor = a]
                            \/ g' = [g EXCEPT !.pc = pc, !.text = canon[g.lane]]
      PROVE  PassSound'
  <2>1. g'.text = canon[g.lane] /\ g'.lane = g.lane
    BY <1>1, <1>7 DEF PassType
  <2>2. Opens(canon[g.lane], canon[g.lane])
    BY <1>1, TextIs DEF Opens
  <2> QED
    BY <1>2, <2>1, <2>2 DEF PassSound, passOnly
<1>8. CASE ListStore \/ StaleIntents \/ BulkGate \/ PickCanonical \/ HoldBack \/ CheckCanonical \/ SweepRow \/ SweepStat
  <2>1. row' = row
    BY <1>8 DEF ListStore, StaleIntents, BulkGate, PickCanonical, HoldBack, CheckCanonical, SweepRow, SweepStat,
                guarantorOnly, pg
  <2>2. g'.pc \notin WithText
    <3>1. ListStore => g'.pc = "intents"
      BY DEF ListStore, NoPass
    <3>2. StaleIntents => g'.pc = "gate"
      BY <1>1 DEF StaleIntents, PassType
    <3>3. BulkGate => g'.pc = "pick"
      BY <1>1 DEF BulkGate, PassType
    <3>4. PickCanonical \/ HoldBack => g'.pc \in {"pick", "check", "sweep"}
      BY <1>1 DEF PickCanonical, HoldBack, PassType, NoPass
    <3>5. CheckCanonical => g'.pc \in {"pick", "read"}
      <4>1. g' = NextCanonical(FALSE) => g'.pc = "pick"
        BY <1>1, PassGoesOn
      <4> QED
        BY <1>1, <4>1 DEF CheckCanonical, PassType
    <3>6. SweepRow => g'.pc \in {"idle", "sweep", "stat"}
      <4>1. SweepRow => \/ g' = NoPass
                        \/ g.pc = "sweep" /\ \E l \in Lanes : \E a :
                             g' = [g EXCEPT !.todo = @ \ {l}] \/ g' = [g EXCEPT !.pc = "stat", !.lane = l, !.anchor = a]
        BY DEF SweepRow
      <4>2. g' = NoPass => g'.pc = "idle"
        BY DEF NoPass
      <4>3. \A l, a : /\ g.pc = "sweep" /\ g' = [g EXCEPT !.todo = @ \ {l}] => g'.pc = "sweep"
                      /\ g' = [g EXCEPT !.pc = "stat", !.lane = l, !.anchor = a] => g'.pc = "stat"
        BY <1>1 DEF PassType
      <4> QED
        BY <4>1, <4>2, <4>3
    <3>7. SweepStat => g'.pc \in {"sweep", "count"}
      <4>1. g' = NextRow => g'.pc = "sweep"
        BY PassGoesOn
      <4> DEFINE list == [g.list EXCEPT ![g.lane] = Len(canon[g.lane])]
      <4>2. SweepStat => g' = NextRow \/ g' = [g EXCEPT !.pc = "count", !.list = list]
        BY DEF SweepStat
      <4> HIDE DEF list
      <4> QED
        BY <1>1, <4>1, <4>2 DEF PassType
    <3> QED
      BY <1>8, <3>1, <3>2, <3>3, <3>4, <3>5, <3>6, <3>7 DEF WithText
  <2> QED
    BY <1>2, <2>1, <2>2, PassSound0, PassReadsSound
<1>9. CASE ReadCanonical \/ VerifyTail \/ SweepRead
  <2>1. row' = row
    BY <1>9 DEF ReadCanonical, VerifyTail, SweepRead, guarantorOnly
  <2>2. PassSound'
    <3>1. ReadCanonical => PassSound'
      BY <1>4, <1>7 DEF ReadCanonical
    <3>2. VerifyTail => PassSound'
      <4> DEFINE a == IF row[Parent].here THEN row[Parent].bytes ELSE NoCheck
      <4>1. VerifyTail => g.pc = "verify" /\ (g' = NextCanonical(FALSE) \/ g' = [g EXCEPT !.pc = "full", !.anchor = a])
        BY DEF VerifyTail
      <4> HIDE DEF a
      <4>2. ASSUME g.pc = "verify", g' = [g EXCEPT !.pc = "full", !.anchor = a] PROVE PassSound'
        <5>1. g.pc \in WithText /\ "full" \in {"verify", "full"}
          BY <4>2 DEF WithText
        <5> QED
          BY <1>6, <4>2, <5>1
      <4>3. g' = NextCanonical(FALSE) => PassSound'
        BY <1>4
      <4> QED
        BY <4>1, <4>2, <4>3
    <3>3. SweepRead => PassSound'
      BY <1>5, <1>7 DEF SweepRead
    <3> QED
      BY <1>9, <3>1, <3>2, <3>3
  <2> QED
    BY <1>2, <2>1, <2>2, PassReadsSound
<1>10. CASE AppendTail
  <2>1. g.pc = "tail" /\ Transact(Parent, TailInput) /\ TailInput \in InputType
    BY <1>10, RepairsAre DEF AppendTail
  <2>2. PassSound'
    BY <1>4, <1>6, <1>10, <2>1 DEF AppendTail, WithText
  <2>3. g.lane = Parent /\ 0 < g.bytes[Parent] /\ g.bytes[Parent] < Len(g.text) /\ Opens(g.text, canon[Parent])
        /\ g.bytes[Parent] \in Nat /\ Len(g.text) \in Nat
    BY <1>1, <1>3, <2>1, TextIs DEF PassHeld, PassSound, WithText, PassType
  <2> DEFINE n == g.bytes[Parent]
  <2>4. TailOf(canon[Parent], TailInput, n, g.text)
    <3>1. n \in 1..Len(g.text)
      BY <2>3
    <3>2. /\ ~TailInput.replace /\ TailInput.total = Len(g.text) /\ TailInput.text = SubSeq(g.text, n + 1, Len(g.text))
          /\ TailInput.expect = n /\ TailInput.prior = Len(Parse(Start(g.text, n)))
      BY DEF TailInput, TailText, ExpectPriorTurns, Prefix, Start
    <3> QED
      BY <2>3, <3>1, <3>2 DEF TailOf
  <2> QED
    BY <1>1, <1>2, <2>1, <2>2, <2>3, <2>4, PassIndexesSound
<1>11. ASSUME NEW l \in Lanes, RebuildFrom(l) PROVE SoundInv'
  <2>1. g.pc = "full" /\ g.lane = l /\ Transact(l, FullInput) /\ FullInput \in InputType
    BY <1>11, RepairsAre DEF RebuildFrom
  <2>2. PassSound'
    <3> DEFINE failed == Outcome(l, FullInput) \in {"session_deleted", "parent_not_indexed"}
    <3>1. failed \in BOOLEAN /\ g' = NextCanonical(failed)
      BY <1>11 DEF RebuildFrom
    <3> HIDE DEF failed
    <3> QED
      BY <1>4, <3>1
  <2>3. WholeOf(canon[l], FullInput)
    <3>1. FullInput.replace /\ FullInput.text = g.text /\ FullInput.total = Len(g.text)
      BY DEF FullInput
    <3>2. Opens(g.text, canon[l]) /\ Len(g.text) \in Nat
      BY <1>1, <1>3, <2>1, TextIs DEF PassSound, WithText
    <3> QED
      BY <1>1, <3>1, <3>2 DEF WholeOf
  <2> QED
    BY <1>2, <2>1, <2>2, <2>3, PassIndexesSound
<1>12. CASE SweepJudge
  <2>1. g.pc = "judge" /\ g' = NextRow /\ (row' = row \/ Transact(g.lane, CountInput)) /\ CountInput \in InputType
    BY <1>12, RepairsAre DEF SweepJudge, pg
  <2>2. WholeOf(canon[g.lane], CountInput)
    <3>1. CountInput.replace /\ CountInput.text = g.text /\ CountInput.total = Len(g.text)
      BY DEF CountInput
    <3>2. Opens(g.text, canon[g.lane]) /\ Len(g.text) \in Nat
      BY <1>1, <1>3, <2>1, TextIs DEF PassSound, WithText
    <3> QED
      BY <1>1, <3>1, <3>2 DEF WholeOf
  <2>3. CASE row' = row
    BY <1>2, <1>5, <2>1, <2>3, PassReadsSound
  <2>4. CASE Transact(g.lane, CountInput)
    BY <1>1, <1>2, <1>5, <2>1, <2>2, <2>4, PassIndexesSound
  <2> QED
    BY <2>1, <2>3, <2>4
<1> QED
  BY <1>8, <1>9, <1>10, <1>11, <1>12, LanesAssumption DEF Pass, RebuildParent, RebuildLane, Agents

LEMMA SoundInvInit == Init => SoundInv
<1> SUFFICES ASSUME Init PROVE SoundInv
  OBVIOUS
<1>1. << >> \in Text /\ Range(<< >>) = {} /\ Len(<< >>) = 0
  BY NothingIs
<1>2. ASSUME NEW l \in Lanes PROVE LaneSound(l)
  <2>1. canon[l] = << >> /\ written[l] = 0 /\ queue[l] = << >> /\ commit[l] = NoCommit /\ row[l] = NoRow
    BY DEF Init
  <2>2. Ordered(canon[l])
    BY <1>1, <2>1 DEF Ordered
  <2>3. SentHeld(l)
    BY <2>1 DEF SentHeld
  <2>4. CommitSound(commit[l], canon[l]) /\ QueueSound(queue[l], canon[l])
    BY <1>1, <2>1 DEF CommitSound, QueueSound, NoCommit
  <2>5. RowSound(l)
    BY <2>1, CoveredNone DEF RowSound, NoRow
  <2> QED
    BY <2>2, <2>3, <2>4, <2>5 DEF LaneSound
<1>3. ReindexSound /\ PassSound
  BY DEF Init, ReindexSound, PassSound, NoReindex, NoPass, WithText
<1> QED
  BY <1>2, <1>3 DEF SoundInv

LEMMA SoundInvNext == ArchiveInv /\ SoundInv /\ [Next]_vars => SoundInv'
<1> SUFFICES ASSUME ArchiveInv, SoundInv, [Next]_vars PROVE SoundInv'
  OBVIOUS
<1> SUFFICES ASSUME Calm' PROVE SoundInv'
  BY DEF SoundInv
<1>1. ASSUME NEW l \in Lanes, Send(l) \/ CommitStep(l) \/ IndexWrite(l) \/ IndexWriteLost(l) PROVE SoundInv'
  BY <1>1, SendSound, JudgeSound, PutSound, NoteSound, IndexWriteSound, LostSound DEF CommitStep
<1>2. CASE (\E l \in Lanes : ReindexStat(l)) \/ ReindexStep
  BY <1>2, ReindexSteps DEF ReindexStep
<1>3. CASE DeleteCalled \/ DeleteStep
  BY <1>3, DeleteSound
<1>4. CASE Pass
  BY <1>4, PassSteps
<1>5. CASE Crash
  BY <1>5, CrashSound
<1>6. CASE UNCHANGED vars
  <2>1. UNCHANGED <<passOnly, row, g>>
    BY <1>6 DEF vars, passOnly
  <2>2. Calm
    BY <2>1, CalmBefore DEF passOnly
  <2>3. PassSound'
    <3>1. PassSound
      BY <2>2, SoundParts
    <3> QED
      BY <2>1, <3>1 DEF PassSound, passOnly
  <2> QED
    BY <2>1, <2>3, PassReadsSound
<1> QED
  BY <1>1, <1>2, <1>3, <1>4, <1>5, <1>6 DEF Next, Step

LEMMA SoundHeld == Spec => []SoundInv
BY SoundInvInit, SoundInvNext, ArchiveHeld, PTL DEF Spec

LEMMA SoundIndexed ==
  ASSUME ArchiveInv, SoundInv
  PROVE  Findable /\ NoIndexDuplicates
<1>1. ASSUME NEW l \in Lanes, Calm
      PROVE row[l].turns \in Text /\ canon[l] \in Text /\ row[l].bytes \in Nat /\ Covered(row[l].turns, canon[l], row[l].bytes)
  BY <1>1, SoundParts, PartsAre DEF ArchiveInv, LaneSound, RowSound
<1>2. Findable
  <2>1. ASSUME NEW l \in Lanes, Calm, Missing(l) # {}, Surplus(l) = {} PROVE Events(l) < Len(Parse(canon[l]))
    <3>1. Range(row[l].turns) \subseteq Range(Parse(canon[l]))
      BY <2>1 DEF Surplus
    <3> QED
      BY <1>1, <2>1, <3>1, CoveredFound DEF Missing, Events
  <2> QED
    BY <2>1 DEF Findable, Calm
<1>3. NoIndexDuplicates
  BY <1>1, CoveredOnce DEF NoIndexDuplicates, Calm
<1> QED
  BY <1>2, <1>3

-----------------------------------------------------------------------------
(***************************************************************************)
(* The third invariant, of the parent lane, while at most one call failed  *)
(* or one restart happened and neither of the two rebuilds that may hide a *)
(* loss was asked for (Healthy; nothing of it is ever undone).             *)
(*                                                                         *)
(*  - Chunks: a chunk id is noted once.  A commit in flight has an id no   *)
(*    queued write, open intent or dedupe key has; a queued write an id no *)
(*    dedupe key has, and the intent of that id vouches for its record;    *)
(*  - Accounted: every record of the canonical is safe - indexed, dropped  *)
(*    by the parse of the whole, or vouched for by an open intent - or is  *)
(*    carried by the commit in flight or a queued write;                   *)
(*  - as long as nothing has failed, what is queued is safe already: the   *)
(*    queue is what the one failure can take;                              *)
(*  - RowWithin: the indexed turns come from the prefix the watermark      *)
(*    names, so that a compare-and-swap on the watermark keeps a rebuild   *)
(*    from a text that does not hold them;                                 *)
(*  - PassHeals: what the pass hands to such a rebuild - the object it     *)
(*    vouches for and the watermark it compares - lies in the text it read.*)
(***************************************************************************)
Healthy == ~tomb /\ replaces = 0 /\ reindexes = 0 /\ blanks = 0 /\ faults + crashes <= 1

ParentIntents == {i \in intents : i.lane = Parent}

Known(n, w, k) == n \in 1..w \/ n \in (MaxRecords + 1)..(MaxRecords + k)
Chunks(c, q, keys, open, w, k) ==
  /\ \A n \in keys : Known(n, w, k)
  /\ \A i \in open : Known(i.chunk, w, k)
  /\ c.pc # "idle" => /\ Known(c.chunk, w, k) /\ c.chunk \notin keys
                      /\ \A i \in open : i.chunk # c.chunk
                      /\ \A j \in 1..Len(q) : q[j].chunk # c.chunk
  /\ \A j \in 1..Len(q) : Known(q[j].chunk, w, k) /\ q[j].chunk \notin keys
  /\ \A j \in 1..Len(q) : \A i \in open : i.chunk = q[j].chunk => i.bytes = q[j].total
  /\ \A j, m \in 1..Len(q) : q[j].chunk = q[m].chunk => j = m

Yielded(s) == {v \in Range(s) : ~(v \in Twins /\ v - 1 \in Range(s))}
Safe(r, s, t, open) == r \in Range(t) \/ r \notin Yielded(s) \/ \E i \in open : s[i.bytes] = r
Accounted(s, t, open, c, q) ==
  \A r \in Range(s) :
    \/ Safe(r, s, t, open)
    \/ c.pc # "idle" /\ c.recs = <<r>>
    \/ \E j \in 1..Len(q) : s[q[j].total] = r
QueueSafe(s, t, open, q) == \A j \in 1..Len(q) : Safe(s[q[j].total], s, t, open)

Plain(e) == e.text # << >> /\ ~e.recovered /\ e.expect = NoCheck /\ e.prior = NoCheck
RowWithin(r, s) == r.bytes \in 0..Len(s) /\ Range(r.turns) \subseteq {s[i] : i \in 1..r.bytes}

Sweeping == {"sweep", "stat", "count", "judge"}
PassHeals(p, s, here) ==
  /\ Parent \notin p.closing /\ p.list[Parent] <= Len(s) /\ p.bytes[Parent] <= Len(s)
  /\ p.pc = "intents" => p.closing = {}
  /\ p.pc \in {"tail", "verify", "full"} /\ p.lane = Parent => p.list[Parent] <= Len(p.text)
  /\ p.pc \in {"tail", "full"} /\ p.lane = Parent /\ p.stale => p.anchor \in 0..Len(p.text)
  /\ p.pc = "verify" => here
  /\ p.pc \in Sweeping /\ Parent \in p.todo => here
  /\ p.pc \in {"stat", "count", "judge"} /\ p.lane = Parent => p.anchor \in 0..Len(s)
  /\ p.pc = "count" /\ p.lane = Parent => p.anchor <= p.list[Parent]
  /\ p.pc = "judge" /\ p.lane = Parent => p.list[Parent] = Len(p.text) /\ p.anchor \in 0..Len(p.text)

HealParts ==
  /\ reindex.pc = "idle"
  /\ commit[Parent].pc \in {"read", "put", "intent"} => commit[Parent].text = commit[Parent].recs
  /\ \A j \in 1..Len(queue[Parent]) : Plain(queue[Parent][j])
  /\ \A i \in ParentIntents : i.bytes \in 1..Len(canon[Parent])
  /\ Chunks(commit[Parent], queue[Parent], seen[Parent], ParentIntents, written[Parent], resends)
  /\ Accounted(canon[Parent], row[Parent].turns, ParentIntents, commit[Parent], queue[Parent])
  /\ faults + crashes = 0 => QueueSafe(canon[Parent], row[Parent].turns, ParentIntents, queue[Parent])
  /\ RowWithin(row[Parent], canon[Parent])
  /\ PassHeals(g, canon[Parent], row[Parent].here)

HealTypes ==
  /\ faults \in Nat /\ crashes \in Nat /\ blanks \in Nat /\ seen \in [Lanes -> SUBSET Nat]
HealInv == HealTypes /\ (Healthy => HealParts)

LEMMA YieldedIs ==
  ASSUME NEW s \in Text
  PROVE  Range(Parse(s)) = Yielded(s)
<1>1. Range(Parse(s)) = {s[i] : i \in Yields(s)}
  BY ParsePlaced DEF Text
<1>2. DOMAIN s = 1..Len(s) /\ Range(s) = {s[i] : i \in 1..Len(s)}
  BY TextIs
<1> QED
  BY <1>1, <1>2 DEF Yielded, Yields

(* An append, or a write that was skipped: what it takes from the intents is
   indexed now. *)
LEMMA SafeKept ==
  ASSUME NEW s, NEW t, NEW u, NEW open, NEW left, Range(t) \subseteq Range(u),
         \A i \in open : i \in left \/ s[i.bytes] \in Range(u),
         NEW r, Safe(r, s, t, open)
  PROVE  Safe(r, s, u, left)
BY DEF Safe

(* A rebuild from a text that holds whatever the index does. *)
LEMMA SafeRebuilt ==
  ASSUME NEW s \in Text, NEW text \in Text, Opens(text, s), NEW t, Range(t) \subseteq Range(text),
         NEW open, NEW left, \A i \in open : i.bytes \in 1..Len(s) /\ (i \in left \/ i.bytes <= Len(text)),
         NEW r, Safe(r, s, t, open)
  PROVE  Safe(r, s, Parse(text), left)
<1>1. Range(Parse(text)) = Yielded(text) /\ Range(text) \subseteq Range(s)
  BY YieldedIs, OpensIs
<1>2. CASE r \notin Yielded(s)
  BY <1>2 DEF Safe
<1>3. CASE r \in Yielded(s) /\ r \in Range(text)
  <2>1. r \in Yielded(text)
    BY <1>1, <1>3 DEF Yielded
  <2> QED
    BY <1>1, <2>1 DEF Safe
<1>4. CASE r \in Yielded(s) /\ r \notin Range(text)
  <2>1. PICK i \in open : s[i.bytes] = r
    BY <1>4 DEF Safe
  <2>2. i \in left
    <3>1. Len(text) \in Nat /\ DOMAIN text = 1..Len(text) /\ Range(text) = {s[j] : j \in 1..Len(text)}
      BY TextIs, OpensIs
    <3>2. i.bytes \in 1..Len(s) /\ Len(s) \in Nat
      BY TextIs
    <3>3. ~(i.bytes \in 1..Len(text))
      BY <1>4, <2>1, <3>1
    <3> QED
      BY <3>1, <3>2, <3>3
  <2> QED
    BY <2>1, <2>2 DEF Safe
<1> QED
  BY <1>2, <1>3, <1>4

(* The canonical grows: what its parse drops is dropped for good. *)
LEMMA SafeGrows ==
  ASSUME NEW s \in Text, NEW u \in Text, Opens(s, u), NEW open, \A i \in open : i.bytes \in 1..Len(s),
         NEW t, NEW r \in Range(s), Safe(r, s, t, open)
  PROVE  Safe(r, u, t, open)
<1>1. Range(s) \subseteq Range(u) /\ \A j \in 1..Len(s) : u[j] = s[j]
  BY OpensIs DEF Opens
<1> QED
  BY <1>1 DEF Safe, Yielded

LEMMA WithinGrows ==
  ASSUME NEW s \in Text, NEW u \in Text, Opens(s, u), NEW r, RowWithin(r, s)
  PROVE  RowWithin(r, u)
<1>1. Len(s) \in Nat /\ Len(u) \in Nat /\ Len(s) <= Len(u) /\ \A j \in 1..Len(s) : u[j] = s[j]
  BY TextIs DEF Opens
<1>2. r.bytes \in 0..Len(s) /\ \A j \in 1..r.bytes : j \in 1..Len(s)
  BY <1>1 DEF RowWithin
<1>3. {s[i] : i \in 1..r.bytes} = {u[i] : i \in 1..r.bytes}
  BY <1>1, <1>2
<1> QED
  BY <1>1, <1>2, <1>3 DEF RowWithin

LEMMA KnownGrows ==
  ASSUME NEW w \in Nat, NEW v \in Nat, w <= v, NEW k \in Nat, NEW m \in Nat, k <= m, NEW n, Known(n, w, k)
  PROVE  Known(n, v, m)
BY BoundAssumption DEF Known

LEMMA ChunksGrow ==
  ASSUME NEW w \in Nat, NEW v \in Nat, w <= v, NEW k \in Nat, NEW m \in Nat, k <= m,
         NEW c, NEW q, NEW keys, NEW open, Chunks(c, q, keys, open, w, k)
  PROVE  Chunks(c, q, keys, open, v, m)
<1>1. \A n : Known(n, w, k) => Known(n, v, m)
  BY KnownGrows
<1> QED
  BY <1>1 DEF Chunks

(* Another commit takes the place of one with its id, or none does, and intents
   are closed. *)
LEMMA ChunksKept ==
  ASSUME NEW w, NEW k, NEW c, NEW q, NEW keys, NEW open, Chunks(c, q, keys, open, w, k),
         NEW d, d.pc # "idle" => c.pc # "idle" /\ d.chunk = c.chunk, NEW left, left \subseteq open
  PROVE  Chunks(d, q, keys, left, w, k)
BY DEF Chunks

LEMMA ChunksFresh ==
  ASSUME NEW w, NEW k, NEW c, NEW q, NEW keys, NEW open, Chunks(c, q, keys, open, w, k), c.pc = "idle",
         NEW v, NEW m, \A n : Known(n, w, k) => Known(n, v, m),
         NEW d, Known(d.chunk, v, m), ~Known(d.chunk, w, k)
  PROVE  Chunks(d, q, keys, open, v, m)
<1>1. (\A n \in keys : n # d.chunk) /\ (\A i \in open : i.chunk # d.chunk) /\ (\A j \in 1..Len(q) : q[j].chunk # d.chunk)
  BY DEF Chunks
<1> QED
  BY <1>1 DEF Chunks

(* The head of the queue is gone; its id may be a key now. *)
LEMMA ChunksTaken ==
  ASSUME NEW w, NEW k, NEW c, NEW q \in Seq(InputType), q # << >>, NEW keys, NEW open, Chunks(c, q, keys, open, w, k),
         NEW left, left \subseteq open, NEW more, more \subseteq keys \cup {Head(q).chunk}
  PROVE  Chunks(c, Tail(q), more, left, w, k)
<1> DEFINE r == Tail(q)
<1>1. /\ Head(q) = q[1] /\ 1 \in 1..Len(q) /\ Len(q) \in Nat
      /\ \A j \in 1..Len(r) : j + 1 \in 1..Len(q) /\ r[j] = q[j + 1] /\ j + 1 # 1
  OBVIOUS
<1>2. \A j, m \in 1..Len(r) : j + 1 = m + 1 => j = m
  OBVIOUS
<1> HIDE DEF r
<1>3. \A n \in more : n \in keys \/ n = q[1].chunk
  BY <1>1
<1>4. \A n \in more : Known(n, w, k)
  BY <1>1, <1>3 DEF Chunks
<1>5. c.pc # "idle" => /\ Known(c.chunk, w, k) /\ c.chunk \notin more
                       /\ \A i \in left : i.chunk # c.chunk
                       /\ \A j \in 1..Len(r) : r[j].chunk # c.chunk
  BY <1>1, <1>3 DEF Chunks
<1>6. \A j \in 1..Len(r) : Known(r[j].chunk, w, k) /\ r[j].chunk \notin more
  <2> TAKE j \in 1..Len(r)
  <2>1. r[j] = q[j + 1] /\ j + 1 \in 1..Len(q) /\ j + 1 # 1
    BY <1>1
  <2>2. q[j + 1].chunk # q[1].chunk
    BY <1>1, <2>1 DEF Chunks
  <2> QED
    BY <1>3, <2>1, <2>2 DEF Chunks
<1>7. \A j \in 1..Len(r) : \A i \in left : i.chunk = r[j].chunk => i.bytes = r[j].total
  BY <1>1 DEF Chunks
<1>8. \A j, m \in 1..Len(r) : r[j].chunk = r[m].chunk => j = m
  BY <1>1, <1>2 DEF Chunks
<1>9. \A i \in left : Known(i.chunk, w, k)
  BY DEF Chunks
<1> QED
  BY <1>4, <1>5, <1>6, <1>7, <1>8, <1>9 DEF Chunks, r

(* The commit is noted: its id goes to the queue and, unless that failed, to an
   intent. *)
LEMMA ChunksNoted ==
  ASSUME NEW w, NEW k, NEW c, NEW q \in Seq(InputType), NEW keys, NEW open, Chunks(c, q, keys, open, w, k), c.pc # "idle",
         NEW e \in InputType, e.chunk = c.chunk, NEW d, d.pc = "idle",
         NEW more, \A i \in more : i \in open \/ (i.chunk = c.chunk /\ i.bytes = e.total)
  PROVE  Chunks(d, Append(q, e), keys, more, w, k)
<1> DEFINE r == Append(q, e)
<1>1. /\ Len(q) \in Nat /\ Len(r) = Len(q) + 1 /\ r[Len(q) + 1] = e
      /\ \A j \in 1..Len(r) : (j \in 1..Len(q) /\ r[j] = q[j]) \/ j = Len(q) + 1
  OBVIOUS
<1> HIDE DEF r
<1>2. \A i \in more : Known(i.chunk, w, k)
  BY DEF Chunks
<1>3. \A j \in 1..Len(r) : Known(r[j].chunk, w, k) /\ r[j].chunk \notin keys
  BY <1>1 DEF Chunks
<1>4. \A j \in 1..Len(r) : \A i \in more : i.chunk = r[j].chunk => i.bytes = r[j].total
  <2> TAKE j \in 1..Len(r)
  <2> TAKE i \in more
  <2> HAVE i.chunk = r[j].chunk
  <2>1. CASE j \in 1..Len(q) /\ r[j] = q[j]
    <3>1. q[j].chunk # c.chunk
      BY <2>1 DEF Chunks
    <3>2. i \in open
      BY <2>1, <3>1
    <3> QED
      BY <2>1, <3>2 DEF Chunks
  <2>2. CASE j = Len(q) + 1
    <3>1. r[j] = e /\ i.chunk = c.chunk
      BY <1>1, <2>2
    <3>2. i \notin open
      BY <3>1 DEF Chunks
    <3> QED
      BY <3>1, <3>2
  <2> QED
    BY <1>1, <2>1, <2>2
<1>5. \A j, m \in 1..Len(r) : r[j].chunk = r[m].chunk => j = m
  <2> TAKE j, m \in 1..Len(r)
  <2>1. \A a, b \in 1..Len(r) : a \in 1..Len(q) /\ r[a] = q[a] /\ b = Len(q) + 1 => r[a].chunk # r[b].chunk
    BY <1>1 DEF Chunks
  <2>2. j \in 1..Len(q) /\ r[j] = q[j] /\ m \in 1..Len(q) /\ r[m] = q[m] => (r[j].chunk = r[m].chunk => j = m)
    BY DEF Chunks
  <2> QED
    BY <1>1, <2>1, <2>2
<1>6. \A n \in keys : Known(n, w, k)
  BY DEF Chunks
<1> QED
  BY <1>2, <1>3, <1>4, <1>5, <1>6 DEF Chunks, r

LEMMA PassGrows ==
  ASSUME NEW p, NEW s \in Text, NEW u \in Text, Opens(s, u), NEW here, NEW still, here => still,
         p.list[Parent] \in Nat, p.bytes[Parent] \in Nat,
         PassHeals(p, s, here)
  PROVE  PassHeals(p, u, still)
<1>1. Len(s) \in Nat /\ Len(u) \in Nat /\ Len(s) <= Len(u) /\ \A n \in 0..Len(s) : n \in 0..Len(u)
  BY TextIs DEF Opens
<1>2. p.list[Parent] <= Len(u) /\ p.bytes[Parent] <= Len(u)
  BY <1>1 DEF PassHeals
<1> QED
  BY <1>1, <1>2 DEF PassHeals

(* What an indexing transaction of the parent does to its row, keys and intents. *)
LEMMA ParentTransacts ==
  ASSUME ArchiveInv, HealTypes, NEW in \in InputType, Transact(Parent, in)
  PROVE  \/ /\ Outcome(Parent, in) = "applied" /\ row'[Parent].here
            /\ row'[Parent].turns = (IF in.replace THEN << >> ELSE row[Parent].turns) \o Parse(in.text)
            /\ row'[Parent].bytes = Watermark(Parent, in)
            /\ seen'[Parent] = seen[Parent] \cup DedupeKeys(in.chunk)
            /\ ParentIntents' = {i \in ParentIntents : ~(i.chunk = in.chunk \/ (in.replace /\ i.bytes <= in.object))}
         \/ /\ Outcome(Parent, in) = "duplicate_records" /\ row' = row /\ seen' = seen
            /\ ParentIntents' = {i \in ParentIntents : i.chunk # in.chunk}
         \/ /\ Outcome(Parent, in) \notin {"applied", "duplicate_records"} /\ row' = row /\ seen' = seen
            /\ ParentIntents' = ParentIntents
<1>1. Parent \in Lanes /\ seen \in [Lanes -> SUBSET Nat] /\ row \in [Lanes -> RowType] /\ IngestTypes
  BY LanesAssumption DEF HealTypes, ArchiveInv, IngestTypes, IndexTypes
<1>2. CASE Outcome(Parent, in) = "applied"
  <2>1. row' = [row EXCEPT ![Parent] = RowAfter(Parent, in)] /\ seen' = [seen EXCEPT ![Parent] = @ \union DedupeKeys(in.chunk)]
        /\ intents' = intents \ Cleared(Parent, in)
    BY <1>2 DEF Transact, IntentsAfter
  <2>2. seen'[Parent] = seen[Parent] \cup DedupeKeys(in.chunk) /\ row'[Parent] = RowAfter(Parent, in)
    BY <1>1, <2>1
  <2>3. /\ row'[Parent].here /\ row'[Parent].bytes = Watermark(Parent, in)
        /\ row'[Parent].turns = (IF in.replace THEN << >> ELSE row[Parent].turns) \o Parse(in.text)
    <3>1. /\ RowAfter(Parent, in).here /\ RowAfter(Parent, in).bytes = Watermark(Parent, in)
          /\ RowAfter(Parent, in).turns = (IF in.replace THEN << >> ELSE row[Parent].turns) \o Parse(in.text)
      BY DEF RowAfter, InsertTurns
    <3> QED
      BY <2>2, <3>1
  <2>4. ParentIntents' = {i \in ParentIntents : ~(i.chunk = in.chunk \/ (in.replace /\ i.bytes <= in.object))}
    BY <2>1 DEF ParentIntents, Cleared
  <2> QED
    BY <1>2, <2>2, <2>3, <2>4
<1>3. CASE Outcome(Parent, in) = "duplicate_records"
  <2>1. row' = row /\ seen' = seen /\ intents' = intents \ {i \in intents : i.lane = Parent /\ i.chunk = in.chunk}
    BY <1>3 DEF Transact, IntentsAfter
  <2>2. ParentIntents' = {i \in ParentIntents : i.chunk # in.chunk}
    BY <2>1 DEF ParentIntents
  <2> QED
    BY <1>3, <2>1, <2>2
<1>4. CASE Outcome(Parent, in) \notin {"applied", "duplicate_records"}
  <2>1. row' = row /\ seen' = seen /\ intents' = intents
    BY <1>4 DEF Transact, IntentsAfter
  <2> QED
    BY <1>4, <2>1 DEF ParentIntents
<1> QED
  BY <1>2, <1>3, <1>4

LEMMA AgentTransacts ==
  ASSUME ArchiveInv, HealTypes, NEW l \in Lanes, l # Parent, NEW in \in InputType, Transact(l, in)
  PROVE  row'[Parent] = row[Parent] /\ seen'[Parent] = seen[Parent] /\ ParentIntents' = ParentIntents
<1>1. Parent \in Lanes /\ seen \in [Lanes -> SUBSET Nat] /\ IngestTypes
  BY LanesAssumption DEF HealTypes, ArchiveInv
<1>2. row'[Parent] = row[Parent]
  BY <1>1, TransactLeaves
<1>3. seen'[Parent] = seen[Parent]
  BY <1>1 DEF Transact
<1>4. ParentIntents' = ParentIntents
  <2>1. \A i \in intents : i.lane = Parent => i \in IntentsAfter(l, in)
    BY DEF IntentsAfter, Cleared
  <2>2. intents' = IntentsAfter(l, in) /\ IntentsAfter(l, in) \subseteq intents
    BY DEF Transact, IntentsAfter
  <2> QED
    BY <2>1, <2>2 DEF ParentIntents
<1> QED
  BY <1>2, <1>3, <1>4

LEMMA TransactCounts ==
  ASSUME HealTypes, NEW l \in Lanes, NEW in \in InputType, Transact(l, in)
  PROVE  seen' \in [Lanes -> SUBSET Nat] /\ (faults' = faults \/ faults' = faults + 1)
<1>1. DedupeKeys(in.chunk) \in SUBSET Nat
  BY DEF DedupeKeys, InputType
<1>2. seen' \in [Lanes -> SUBSET Nat]
  BY <1>1 DEF Transact, HealTypes
<1>3. faults' = faults \/ faults' = faults + 1
  BY DEF Transact, FactsRecomputed
<1> QED
  BY <1>2, <1>3

(* What a step may do to the budgets; and so a healthy step starts healthy. *)
Counts ==
  /\ tomb => tomb'
  /\ resends' = resends \/ resends' = resends + 1
  /\ replaces' = replaces \/ replaces' = replaces + 1
  /\ reindexes' = reindexes \/ reindexes' = reindexes + 1
  /\ blanks' = blanks \/ blanks' = blanks + 1
  /\ faults' = faults \/ faults' = faults + 1
  /\ crashes' = crashes \/ crashes' = crashes + 1

LEMMA HealthBefore ==
  ASSUME ArchiveInv, HealTypes, Counts, Healthy'
  PROVE  /\ Healthy /\ replaces' = replaces /\ reindexes' = reindexes /\ blanks' = blanks
         /\ faults \in Nat /\ crashes \in Nat /\ faults + crashes <= faults' + crashes'
         /\ faults' + crashes' = 0 => faults + crashes = 0
<1>1. /\ faults \in Nat /\ crashes \in Nat /\ blanks \in Nat /\ replaces \in Nat /\ reindexes \in Nat
  BY DEF HealTypes, ArchiveInv, IngestTypes, CallTypes
<1>2. replaces' = 0 /\ reindexes' = 0 /\ blanks' = 0 /\ faults' + crashes' <= 1 /\ ~tomb'
  BY DEF Healthy
<1>3. replaces = 0 /\ reindexes = 0 /\ blanks = 0 /\ ~tomb
  BY <1>1, <1>2 DEF Counts
<1>4. faults + crashes <= faults' + crashes' /\ (faults' + crashes' = 0 => faults + crashes = 0) /\ faults + crashes <= 1
  BY <1>1, <1>2 DEF Counts
<1> QED
  BY <1>1, <1>2, <1>3, <1>4 DEF Healthy

LEMMA HealTypesKept ==
  ASSUME HealTypes, Counts, seen' \in [Lanes -> SUBSET Nat]
  PROVE  HealTypes'
BY DEF HealTypes, Counts

(* What holds of the parent lane in a healthy state. *)
LEMMA HealPartsAre ==
  ASSUME ArchiveInv, SoundInv, HealInv, Healthy
  PROVE  /\ HealParts /\ HealTypes /\ LaneSound(Parent) /\ IngestTypes /\ Parent \in Lanes
         /\ canon[Parent] \in Text /\ row[Parent] \in RowType /\ row[Parent].turns \in Text
         /\ queue[Parent] \in Seq(InputType) /\ commit[Parent] \in CommitType
         /\ written[Parent] \in Nat /\ resends \in Nat /\ Len(canon[Parent]) \in Nat
<1>1. Parent \in Lanes /\ IngestTypes
  BY LanesAssumption DEF ArchiveInv
<1>2. written[Parent] \in Nat /\ resends \in Nat
  BY <1>1, PartsAre DEF IngestTypes, CallTypes
<1>3. Calm
  BY DEF Healthy, Calm
<1> QED
  BY <1>1, <1>2, <1>3, PartsAre, SoundParts DEF HealInv

(* A step that leaves the parent lane's commit, queue, row, keys and intents. *)
LEMMA HealStays ==
  ASSUME ArchiveInv, SoundInv, HealInv, Counts, Healthy', seen' \in [Lanes -> SUBSET Nat], reindex' = reindex,
         canon'[Parent] = canon[Parent], commit'[Parent] = commit[Parent], queue'[Parent] = queue[Parent],
         row'[Parent] = row[Parent], seen'[Parent] = seen[Parent], ParentIntents' = ParentIntents,
         written'[Parent] = written[Parent],
         PassHeals(g', canon[Parent], row[Parent].here)
  PROVE  HealParts'
<1>1. HealParts /\ written[Parent] \in Nat /\ resends \in Nat /\ (faults' + crashes' = 0 => faults + crashes = 0)
  BY HealthBefore, HealPartsAre DEF HealInv
<1>2. resends' \in Nat /\ resends <= resends'
  BY <1>1 DEF Counts
<1>3. Chunks(commit[Parent], queue[Parent], seen[Parent], ParentIntents, written[Parent], resends')
  BY <1>1, <1>2, ChunksGrow DEF HealParts
<1> QED
  BY <1>1, <1>3 DEF HealParts

(* A step that moves the parent's commit and nothing else of its lane. *)
LEMMA CommitHeals ==
  ASSUME ArchiveInv, SoundInv, HealInv, Counts, Healthy',
         UNCHANGED <<canon, queue, row, seen, intents, reindex, g>>, NEW d, commit'[Parent] = d,
         Chunks(d, queue[Parent], seen[Parent], ParentIntents, written'[Parent], resends'),
         d.pc \in {"read", "put", "intent"} => d.text = d.recs,
         \A r : commit[Parent].pc # "idle" /\ commit[Parent].recs = <<r>> =>
                  (d.pc # "idle" /\ d.recs = <<r>>) \/ Safe(r, canon[Parent], row[Parent].turns, ParentIntents)
  PROVE  HealParts'
<1>1. HealParts /\ (faults' + crashes' = 0 => faults + crashes = 0)
  BY HealthBefore DEF HealInv
<1>2. ParentIntents' = ParentIntents
  BY DEF ParentIntents
<1>3. Accounted(canon[Parent], row[Parent].turns, ParentIntents, d, queue[Parent])
  <2>1. Accounted(canon[Parent], row[Parent].turns, ParentIntents, commit[Parent], queue[Parent])
    BY <1>1 DEF HealParts
  <2> QED
    BY <2>1 DEF Accounted
<1> QED
  BY <1>1, <1>2, <1>3 DEF HealParts

LEMMA SendHeals ==
  ASSUME ArchiveInv, SoundInv, HealInv, NEW l \in Lanes, Send(l), Counts, Healthy'
  PROVE  HealParts'
<1>1. /\ HealTypes /\ HealParts /\ Healthy /\ written \in [Lanes -> 0..MaxRecords] /\ MaxRecords \in Nat /\ Parent \in Lanes
      /\ resends \in Nat /\ commit \in [Lanes -> CommitType] /\ written[Parent] \in 0..MaxRecords /\ replaces' = replaces
      /\ replaces = 0
  BY HealthBefore, HealPartsAre, BoundAssumption DEF HealInv, IngestTypes, CallTypes, Healthy
<1>2. UNCHANGED <<canon, queue, row, seen, intents, reindex, g, tomb>> /\ commit[l].pc = "idle"
  BY DEF Send, pg
<1>3. \/ /\ written[l] < MaxRecords /\ written' = [written EXCEPT ![l] = written[l] + 1] /\ resends' = resends
         /\ Staged(l, written[l] + 1, <<written[l] + 1>>, FALSE)
      \/ /\ written' = written /\ resends' = resends + 1
         /\ Staged(l, MaxRecords + resends + replaces + 1, <<written[l]>>, FALSE)
  <2>1. replaces' # replaces + 1
    BY <1>1
  <2>2. [written EXCEPT ![l] = @ + 1] = [written EXCEPT ![l] = written[l] + 1]
    OBVIOUS
  <2> QED
    BY <2>1, <2>2 DEF Send
<1>4. CASE l # Parent
  <2>1. commit'[Parent] = commit[Parent] /\ written'[Parent] = written[Parent]
    BY <1>1, <1>3, <1>4 DEF Staged
  <2>2. ParentIntents' = ParentIntents
    BY <1>2 DEF ParentIntents
  <2>3. PassHeals(g', canon[Parent], row[Parent].here)
    BY <1>1, <1>2 DEF HealParts
  <2> QED
    BY <1>1, <1>2, <2>1, <2>2, <2>3, HealStays DEF HealTypes
<1>5. CASE l = Parent
  <2>1. Chunks(commit[Parent], queue[Parent], seen[Parent], ParentIntents, written[Parent], resends)
    BY <1>1 DEF HealParts
  <2>2. ASSUME NEW n \in Nat, NEW recs, Staged(Parent, n, recs, FALSE), Known(n, written'[Parent], resends'),
               ~Known(n, written[Parent], resends), written'[Parent] \in Nat, resends' \in Nat,
               written[Parent] <= written'[Parent], resends <= resends'
        PROVE  HealParts'
    <3> DEFINE d == [NoCommit EXCEPT !.pc = "judge", !.chunk = n, !.recs = recs, !.replace = FALSE]
    <3>1. d.pc = "judge" /\ d.chunk = n
      BY DEF NoCommit
    <3>2. commit'[Parent] = d
      BY <1>1, <2>2 DEF Staged
    <3> HIDE DEF d
    <3>3. \A m : Known(m, written[Parent], resends) => Known(m, written'[Parent], resends')
      BY <1>1, <2>2, KnownGrows
    <3>4. Chunks(d, queue[Parent], seen[Parent], ParentIntents, written'[Parent], resends')
      BY <1>2, <1>5, <2>1, <2>2, <3>1, <3>3, ChunksFresh
    <3> QED
      BY <1>2, <1>5, <3>1, <3>2, <3>4, CommitHeals
  <2>3. CASE /\ written[l] < MaxRecords /\ written' = [written EXCEPT ![l] = written[l] + 1] /\ resends' = resends
             /\ Staged(l, written[l] + 1, <<written[l] + 1>>, FALSE)
    <3> DEFINE n == written[Parent] + 1
    <3>1. n \in Nat /\ n \in 1..n /\ n <= MaxRecords /\ ~(n \in 1..written[Parent]) /\ written[Parent] <= n
      BY <1>1, <1>5, <2>3
    <3>2. written'[Parent] = n /\ Staged(Parent, n, <<n>>, FALSE)
      BY <1>1, <1>5, <2>3
    <3> HIDE DEF n
    <3>3. Known(n, n, resends) /\ ~Known(n, written[Parent], resends)
      BY <1>1, <3>1 DEF Known
    <3>4. Known(n, written'[Parent], resends') /\ resends' \in Nat /\ resends <= resends'
      BY <1>1, <2>3, <3>2, <3>3
    <3>5. written'[Parent] \in Nat /\ written[Parent] <= written'[Parent]
      BY <3>1, <3>2
    <3> QED
      BY <2>2, <3>1, <3>2, <3>3, <3>4, <3>5
  <2>4. CASE /\ written' = written /\ resends' = resends + 1
             /\ Staged(l, MaxRecords + resends + replaces + 1, <<written[l]>>, FALSE)
    <3> DEFINE n == MaxRecords + resends + 1
    <3>1. n \in Nat /\ n = MaxRecords + (resends + 1) /\ ~(n \in 1..written[Parent]) /\ ~(n <= MaxRecords + resends)
          /\ MaxRecords + 1 <= n
      BY <1>1
    <3>2. Staged(Parent, n, <<written[l]>>, FALSE)
      <4>1. MaxRecords + resends + replaces + 1 = n
        BY <1>1
      <4> QED
        BY <1>5, <2>4, <4>1
    <3> HIDE DEF n
    <3>3. Known(n, written[Parent], resends + 1) /\ ~Known(n, written[Parent], resends)
      BY <1>1, <3>1 DEF Known
    <3>4. Known(n, written'[Parent], resends') /\ resends' \in Nat /\ resends <= resends'
      BY <1>1, <2>4, <3>3
    <3>5. written'[Parent] \in Nat /\ written[Parent] <= written'[Parent]
      BY <1>1, <2>4
    <3> QED
      BY <2>2, <3>1, <3>2, <3>3, <3>4, <3>5
  <2> QED
    BY <1>3, <2>3, <2>4
<1> QED
  BY <1>4, <1>5

LEMMA JudgeHeals ==
  ASSUME ArchiveInv, SoundInv, HealInv, NEW l \in Lanes, JudgeCommit(l) \/ ComposeRead(l), Counts, Healthy'
  PROVE  HealParts'
<1> DEFINE c == commit[Parent]
<1>1. /\ HealTypes /\ HealParts /\ Healthy /\ ~tomb /\ Parent \in Lanes /\ commit \in [Lanes -> CommitType] /\ c \in CommitType
      /\ LaneSound(Parent) /\ blanks = 0 /\ blanks' = 0 /\ written[Parent] \in Nat /\ resends \in Nat
  BY HealthBefore, HealPartsAre DEF HealInv, IngestTypes, CallTypes, Healthy
<1>2. UNCHANGED <<canon, queue, row, seen, intents, reindex, g, written, resends>>
  BY DEF JudgeCommit, ComposeRead, pg, budget
<1>3. Chunks(c, queue[Parent], seen[Parent], ParentIntents, written[Parent], resends)
  BY <1>1 DEF HealParts
<1>4. \E d : commit' = [commit EXCEPT ![l] = d]
  BY DEF JudgeCommit, ComposeRead, Answer
<1>5. CASE l # Parent
  <2>1. commit'[Parent] = commit[Parent]
    BY <1>1, <1>4, <1>5
  <2>2. ParentIntents' = ParentIntents
    BY <1>2 DEF ParentIntents
  <2>3. PassHeals(g', canon[Parent], row[Parent].here)
    BY <1>1, <1>2 DEF HealParts
  <2> QED
    BY <1>1, <1>2, <2>1, <2>2, <2>3, HealStays DEF HealTypes
<1>6. ASSUME NEW d, commit' = [commit EXCEPT ![Parent] = d], d.pc # "idle" => c.pc # "idle" /\ d.chunk = c.chunk,
             d.pc \in {"read", "put", "intent"} => d.text = d.recs,
             (d.pc # "idle" /\ d.recs = c.recs)
             \/ \A r : c.recs = <<r>> => Safe(r, canon[Parent], row[Parent].turns, ParentIntents)
      PROVE  HealParts'
  <2>1. Chunks(d, queue[Parent], seen[Parent], ParentIntents, written[Parent], resends)
    BY <1>3, <1>6, ChunksKept
  <2> QED
    BY <1>1, <1>2, <1>6, <2>1, CommitHeals
<1>7. CASE l = Parent /\ JudgeCommit(l)
  <2>1. c.pc = "judge" /\ ~c.replace /\ ~Refused(l)
    BY <1>1, <1>7 DEF JudgeCommit, LaneSound, CommitSound, Refused
  <2>2. CASE Answer(l) /\ AllIndexed(l, c.recs)
    <3>1. NoCommit.pc = "idle" /\ commit' = [commit EXCEPT ![Parent] = NoCommit]
      BY <1>7, <2>2, NoCommitIs DEF Answer
    <3>2. ASSUME NEW r, c.recs = <<r>> PROVE Safe(r, canon[Parent], row[Parent].turns, ParentIntents)
      <4>1. r \in Range(<<r>>)
        BY OneIs
      <4> QED
        BY <1>7, <2>2, <3>2, <4>1 DEF AllIndexed, Safe
    <3> QED
      BY <1>6, <3>1, <3>2
  <2>3. CASE commit' = [commit EXCEPT ![l].pc = "read", ![l].text = c.recs]
    <3> DEFINE d == [c EXCEPT !.pc = "read", !.text = c.recs]
    <3>1. commit' = [commit EXCEPT ![Parent] = d] /\ d.pc = "read" /\ d.recs = c.recs /\ d.text = c.recs /\ d.chunk = c.chunk
      BY <1>1, <1>7, <2>3 DEF CommitType
    <3> HIDE DEF d
    <3> QED
      BY <1>6, <2>1, <3>1
  <2>4. blanks' # blanks + 1
    BY <1>1
  <2> QED
    BY <1>7, <2>1, <2>2, <2>3, <2>4 DEF JudgeCommit
<1>8. CASE l = Parent /\ ComposeRead(l)
  <2>1. del # "done" /\ c.pc = "read" /\ c.text = c.recs
    BY <1>1, <1>8 DEF ArchiveInv, DeleteHeld, ComposeRead, HealParts
  <2> DEFINE base == IF c.replace THEN << >> ELSE canon[l]
             d == [c EXCEPT !.pc = "put", !.base = base]
  <2>2. commit' = [commit EXCEPT ![Parent] = d]
    BY <1>8, <2>1 DEF ComposeRead
  <2> HIDE DEF base
  <2>3. d.pc = "put" /\ d.recs = c.recs /\ d.text = c.text /\ d.chunk = c.chunk
    BY <1>1 DEF CommitType
  <2> HIDE DEF d
  <2> QED
    BY <1>6, <2>1, <2>2, <2>3
<1> QED
  BY <1>5, <1>7, <1>8

LEMMA PutHeals ==
  ASSUME ArchiveInv, SoundInv, HealInv, NEW l \in Lanes, ComposePut(l), Counts, Healthy'
  PROVE  HealParts'
<1> DEFINE c == commit[Parent]
           s == canon[Parent]
           d == [c EXCEPT !.pc = "intent"]
<1>1. /\ HealTypes /\ HealParts /\ Healthy /\ ~tomb /\ Parent \in Lanes /\ commit \in [Lanes -> CommitType] /\ c \in CommitType
      /\ LaneSound(Parent) /\ canon \in [Lanes -> Text] /\ s \in Text /\ written[Parent] \in 0..MaxRecords
      /\ queue[Parent] \in Seq(InputType) /\ (faults' + crashes' = 0 => faults + crashes = 0) /\ MaxRecords \in Nat
  BY HealthBefore, HealPartsAre, BoundAssumption DEF HealInv, IngestTypes, CallTypes, Healthy
<1>2. /\ UNCHANGED <<queue, row, seen, intents, reindex, g, written, resends>> /\ commit[l].pc = "put"
      /\ canon' = [canon EXCEPT ![l] = commit[l].base \o commit[l].recs] /\ commit' = [commit EXCEPT ![l].pc = "intent"]
  BY DEF ComposePut, pg, budget
<1>3. ParentIntents' = ParentIntents
  BY <1>2 DEF ParentIntents
<1>4. PassHeals(g, s, row[Parent].here)
  BY <1>1 DEF HealParts
<1>5. CASE l # Parent
  <2>1. commit'[Parent] = commit[Parent] /\ canon'[Parent] = canon[Parent]
    BY <1>1, <1>2, <1>5
  <2> QED
    BY <1>1, <1>2, <1>3, <1>4, <2>1, HealStays DEF HealTypes
<1>6. CASE l = Parent
  <2>1. CommitSound(c, s) /\ CommitHeld(Parent)
    BY <1>1 DEF LaneSound, ArchiveInv
  <2>2. c.base = s /\ ~c.replace /\ c.text = c.recs
    BY <1>1, <1>2, <1>6, <2>1 DEF CommitSound, CommitHeld, HealParts
  <2>3. PICK v \in 1..written[Parent] : c.recs = <<v>>
    BY <1>2, <1>6, <2>1, <2>2 DEF CommitHeld, Carries
  <2>4. v \in 1..MaxRecords
    BY <1>1
  <2> DEFINE u == s \o <<v>>
  <2>5. u \in Text /\ Opens(s, u) /\ Range(u) = Range(s) \cup {v} /\ Len(s) \in Nat /\ Len(u) = Len(s) + 1
    BY <1>1, <2>4, AppendIs
  <2> HIDE DEF u
  <2>6. canon'[Parent] = u /\ commit'[Parent] = d
    <3>1. canon' = [canon EXCEPT ![Parent] = u]
      BY <1>2, <1>6, <2>2, <2>3 DEF u
    <3> QED
      BY <1>1, <1>2, <1>6, <3>1
  <2>7. d.pc = "intent" /\ d.recs = c.recs /\ d.text = c.text /\ d.chunk = c.chunk
    BY <1>1 DEF CommitType
  <2> HIDE DEF d
  <2>8. Chunks(d, queue[Parent], seen[Parent], ParentIntents, written[Parent], resends)
    <3>1. Chunks(c, queue[Parent], seen[Parent], ParentIntents, written[Parent], resends) /\ c.pc # "idle"
      BY <1>1, <1>2, <1>6 DEF HealParts
    <3> QED
      BY <2>7, <3>1, ChunksKept
  <2>9. \A i \in ParentIntents : i.bytes \in 1..Len(s)
    BY <1>1 DEF HealParts
  <2>10. \A i \in ParentIntents : i.bytes \in 1..Len(u)
    BY <2>5, <2>9
  <2>11. \A j \in 1..Len(queue[Parent]) : s[queue[Parent][j].total] \in Range(s) /\ u[queue[Parent][j].total] = s[queue[Parent][j].total]
    <3> TAKE j \in 1..Len(queue[Parent])
    <3> DEFINE e == queue[Parent][j]
    <3>1. InputSound(s, e) /\ Plain(e)
      BY <1>1 DEF LaneSound, QueueSound, HealParts
    <3>2. e.total \in 1..Len(s)
      BY <3>1 DEF InputSound, Plain
    <3> HIDE DEF e
    <3>3. s[e.total] \in Range(s) /\ u[e.total] = s[e.total]
      BY <1>1, <2>5, <3>2, TextIs DEF Opens
    <3> QED
      BY <3>3 DEF e
  <2>12. \A r \in Range(s) : Safe(r, s, row[Parent].turns, ParentIntents) => Safe(r, u, row[Parent].turns, ParentIntents)
    BY <1>1, <2>5, <2>9, SafeGrows
  <2>13. Accounted(u, row[Parent].turns, ParentIntents, d, queue[Parent])
    <3>1. Accounted(s, row[Parent].turns, ParentIntents, c, queue[Parent])
      BY <1>1 DEF HealParts
    <3>2. ASSUME NEW r \in Range(s)
          PROVE \/ Safe(r, u, row[Parent].turns, ParentIntents)
                \/ d.pc # "idle" /\ d.recs = <<r>>
                \/ \E j \in 1..Len(queue[Parent]) : u[queue[Parent][j].total] = r
      BY <2>7, <2>11, <2>12, <3>1 DEF Accounted
    <3>3. d.pc # "idle" /\ d.recs = <<v>>
      BY <2>3, <2>7
    <3> QED
      BY <2>5, <3>2, <3>3 DEF Accounted
  <2>14. faults' + crashes' = 0 => QueueSafe(u, row[Parent].turns, ParentIntents, queue[Parent])
    <3>1. faults' + crashes' = 0 => QueueSafe(s, row[Parent].turns, ParentIntents, queue[Parent])
      BY <1>1 DEF HealParts
    <3> QED
      BY <2>11, <2>12, <3>1 DEF QueueSafe
  <2>15. RowWithin(row[Parent], u)
    <3>1. RowWithin(row[Parent], s)
      BY <1>1 DEF HealParts
    <3> QED
      BY <1>1, <2>5, <3>1, WithinGrows
  <2>16. PassHeals(g, u, row[Parent].here)
    <3>1. g.list[Parent] \in Nat /\ g.bytes[Parent] \in Nat
      <4>1. g \in PassType
        BY DEF ArchiveInv, IngestTypes
      <4> QED
        BY <1>1, <4>1 DEF PassType
    <3> QED
      BY <1>1, <1>4, <2>5, <3>1, PassGrows
  <2>17. reindex.pc = "idle" /\ \A j \in 1..Len(queue[Parent]) : Plain(queue[Parent][j])
    BY <1>1 DEF HealParts
  <2> QED
    BY <1>2, <1>3, <2>2, <2>6, <2>7, <2>8, <2>10, <2>13, <2>14, <2>15, <2>16, <2>17 DEF HealParts
<1> QED
  BY <1>5, <1>6

LEMMA NoteHeals ==
  ASSUME ArchiveInv, SoundInv, HealInv, NEW l \in Lanes, NoteIntent(l), Counts, Healthy'
  PROVE  HealParts'
<1> DEFINE c == commit[l]
           s == canon[l]
           size == Len(c.base) + Len(c.recs)
           e == Live(c.chunk, c.text, size, c.replace)
           noted == Intent(l, c.chunk, size)
<1>1. /\ HealTypes /\ HealParts /\ Healthy /\ Parent \in Lanes /\ commit \in [Lanes -> CommitType] /\ queue \in [Lanes -> Seq(InputType)]
      /\ LaneSound(l) /\ s \in Text /\ (faults' + crashes' = 0 => faults + crashes = 0) /\ c \in CommitType /\ Len(s) \in Nat
      /\ (faults' + crashes' = 0 => faults' # faults + 1)
  <2>1. HealTypes /\ HealParts /\ Healthy /\ Parent \in Lanes /\ IngestTypes /\ (faults' + crashes' = 0 => faults + crashes = 0)
    BY HealthBefore, HealPartsAre DEF HealInv
  <2>2. Calm
    BY <2>1 DEF Healthy, Calm
  <2>3. faults' + crashes' = 0 => faults' # faults + 1
    BY <2>1 DEF HealTypes, Counts
  <2> QED
    BY <2>1, <2>2, <2>3, PartsAre, SoundParts DEF IngestTypes, CallTypes
<1>2. /\ UNCHANGED <<canon, row, seen, reindex, g, written, resends>> /\ c.pc = "intent"
      /\ commit' = [commit EXCEPT ![l] = NoCommit] /\ queue' = [queue EXCEPT ![l] = Append(queue[l], e)]
      /\ \/ intents' = intents \cup {noted}
         \/ intents' = intents /\ faults' = faults + 1
  <2>1. /\ UNCHANGED <<canon, row, seen, reindex, g, written, resends>> /\ c.pc = "intent"
        /\ commit' = [commit EXCEPT ![l] = NoCommit] /\ queue' = [queue EXCEPT ![l] = Append(queue[l], e)]
    BY DEF NoteIntent, Answer
  <2>2. \/ intents' = intents \cup {noted}
        \/ intents' = intents /\ faults' = faults + 1
    BY DEF NoteIntent, Noted
  <2> QED
    BY <2>1, <2>2
<1>3. /\ commit'[l] = NoCommit /\ queue'[l] = Append(queue[l], e)
      /\ \A k \in Lanes \ {l} : commit'[k] = commit[k] /\ queue'[k] = queue[k]
  BY <1>1, <1>2
<1>4. ~c.replace /\ c.text \in {<< >>, c.recs} /\ size \in 1..Len(s) /\ c.recs = <<s[size]>>
  BY <1>1, <1>2 DEF LaneSound, CommitSound
<1>5. /\ e.chunk = c.chunk /\ e.text = c.text /\ e.total = size /\ e.expect = NoCheck /\ e.prior = NoCheck /\ ~e.recovered
      /\ e \in InputType /\ noted.lane = l /\ noted.chunk = c.chunk /\ noted.bytes = size
  <2>1. c.chunk \in Nat /\ c.text \in Text /\ c.replace \in BOOLEAN
    BY <1>1 DEF CommitType
  <2> HIDE DEF size
  <2>2. size \in 1..Len(s)
    BY <1>4
  <2>3. size \in Nat
    BY <1>1, <2>2
  <2> QED
    BY <2>1, <2>3, LiveIs DEF Live, Intent
<1> HIDE DEF e, noted, size
<1>6. CASE l # Parent
  <2>1. commit'[Parent] = commit[Parent] /\ queue'[Parent] = queue[Parent]
    BY <1>1, <1>3, <1>6
  <2>2. ParentIntents' = ParentIntents
    BY <1>2, <1>5, <1>6 DEF ParentIntents
  <2>3. PassHeals(g', canon[Parent], row[Parent].here)
    BY <1>1, <1>2 DEF HealParts
  <2> QED
    BY <1>1, <1>2, <2>1, <2>2, <2>3, HealStays DEF HealTypes
<1>7. CASE l = Parent
  <2> DEFINE q == queue[l]
             r == Append(q, e)
             t == row[l].turns
  <2>1. /\ ParentIntents \subseteq ParentIntents' /\ \A i \in ParentIntents' : i \in ParentIntents \/ (i.chunk = c.chunk /\ i.bytes = size)
        /\ intents' = intents \cup {noted} => noted \in ParentIntents'
    BY <1>2, <1>5, <1>7 DEF ParentIntents
  <2>2. q \in Seq(InputType)
    BY <1>1
  <2> HIDE DEF q
  <2>3. Len(q) \in Nat /\ Len(r) = Len(q) + 1 /\ r[Len(q) + 1] = e
        /\ \A j \in 1..Len(r) : (j \in 1..Len(q) /\ r[j] = q[j]) \/ j = Len(q) + 1
    BY <1>5, <2>2
  <2>4. \A j \in 1..Len(q) : j \in 1..Len(r) /\ r[j] = q[j]
    BY <1>5, <2>2
  <2>5. Chunks(NoCommit, r, seen[l], ParentIntents', written[l], resends)
    <3>1. Chunks(c, q, seen[l], ParentIntents, written[l], resends)
      BY <1>1, <1>7 DEF HealParts, q
    <3> QED
      BY <1>2, <1>5, <2>1, <2>2, <3>1, NoCommitIs, ChunksNoted
  <2> HIDE DEF r
  <2>6. \A j \in 1..Len(r) : Plain(r[j])
    <3>1. c.text = c.recs /\ \A j \in 1..Len(q) : Plain(q[j])
      BY <1>1, <1>2, <1>7 DEF HealParts, q
    <3>2. Plain(e)
      BY <1>4, <1>5, <3>1 DEF Plain
    <3> QED
      BY <2>3, <3>1, <3>2
  <2>7. \A x : Safe(x, s, t, ParentIntents) => Safe(x, s, t, ParentIntents')
    BY <2>1 DEF Safe
  <2>8. Accounted(s, t, ParentIntents', NoCommit, r)
    <3>1. Accounted(s, t, ParentIntents, c, q)
      BY <1>1, <1>7 DEF HealParts, q
    <3> SUFFICES ASSUME NEW x \in Range(s)
                 PROVE  Safe(x, s, t, ParentIntents') \/ \E j \in 1..Len(r) : s[r[j].total] = x
      BY DEF Accounted
    <3>2. CASE Safe(x, s, t, ParentIntents)
      BY <2>7, <3>2
    <3>3. CASE c.recs = <<x>>
      <4>1. x = s[size] /\ Len(q) + 1 \in 1..Len(r)
        BY <1>4, <2>3, <3>3
      <4> QED
        BY <1>5, <2>3, <4>1
    <3>4. CASE \E j \in 1..Len(q) : s[q[j].total] = x
      BY <2>4, <3>4
    <3> QED
      BY <3>1, <3>2, <3>3, <3>4 DEF Accounted
  <2>9. ASSUME faults' + crashes' = 0 PROVE QueueSafe(s, t, ParentIntents', r)
    <3>1. QueueSafe(s, t, ParentIntents, q)
      BY <1>1, <1>7, <2>9 DEF HealParts, q
    <3>2. noted \in ParentIntents'
      BY <1>1, <1>2, <2>1, <2>9
    <3>3. Safe(s[e.total], s, t, ParentIntents')
      BY <1>5, <3>2 DEF Safe
    <3> QED
      BY <2>3, <2>7, <3>1, <3>3 DEF QueueSafe
  <2>10. \A i \in ParentIntents' : i.bytes \in 1..Len(s)
    BY <1>1, <1>4, <1>7, <2>1 DEF HealParts
  <2>11. reindex.pc = "idle" /\ RowWithin(row[l], s) /\ PassHeals(g, s, row[l].here)
    BY <1>1, <1>7 DEF HealParts
  <2>12. queue'[l] = r /\ commit'[l] = NoCommit
    BY <1>3 DEF q, r
  <2> QED
    BY <1>2, <1>7, <2>5, <2>6, <2>8, <2>9, <2>10, <2>11, <2>12, NoCommitIs DEF HealParts
<1> QED
  BY <1>6, <1>7

(* The oldest queued write of the parent leaves the queue, and its record is
   safe: indexed by it, found indexed, or lost while its intent is open. *)
LEMMA HeadHeals ==
  ASSUME ArchiveInv, SoundInv, HealInv, Counts, Healthy', queue[Parent] # << >>,
         UNCHANGED <<canon, commit, written, resends, reindex, g>>, queue'[Parent] = Tail(queue[Parent]),
         Range(row[Parent].turns) \subseteq Range(row'[Parent].turns), row[Parent].here => row'[Parent].here,
         RowWithin(row'[Parent], canon[Parent]),
         ParentIntents' \subseteq ParentIntents,
         seen'[Parent] \subseteq seen[Parent] \cup {Head(queue[Parent]).chunk},
         \A i \in ParentIntents : i \in ParentIntents' \/ canon[Parent][i.bytes] \in Range(row'[Parent].turns),
         Safe(canon[Parent][Head(queue[Parent]).total], canon[Parent], row'[Parent].turns, ParentIntents')
  PROVE  HealParts'
<1> DEFINE s == canon[Parent]
           t == row[Parent].turns
           u == row'[Parent].turns
           q == queue[Parent]
           r == Tail(q)
           open == ParentIntents
           left == ParentIntents'
<1>1. /\ HealParts /\ q \in Seq(InputType) /\ s \in Text /\ (faults' + crashes' = 0 => faults + crashes = 0)
  BY HealthBefore, HealPartsAre DEF HealInv
<1>2. q # << >> /\ left \subseteq open /\ (\A i \in open : i \in left \/ s[i.bytes] \in Range(u)) /\ Range(t) \subseteq Range(u)
      /\ Safe(s[Head(q).total], s, u, left)
  OBVIOUS
<1>3. /\ Chunks(commit[Parent], q, seen[Parent], open, written[Parent], resends)
      /\ Accounted(s, t, open, commit[Parent], q) /\ (faults + crashes = 0 => QueueSafe(s, t, open, q))
      /\ (\A j \in 1..Len(q) : Plain(q[j])) /\ (\A i \in open : i.bytes \in 1..Len(s))
      /\ reindex.pc = "idle" /\ PassHeals(g, s, row[Parent].here)
      /\ (commit[Parent].pc \in {"read", "put", "intent"} => commit[Parent].text = commit[Parent].recs)
  BY <1>1 DEF HealParts
<1>4. seen'[Parent] \subseteq seen[Parent] \cup {Head(q).chunk} /\ RowWithin(row'[Parent], s) /\ (row[Parent].here => row'[Parent].here)
  OBVIOUS
<1>5. queue'[Parent] = r
  OBVIOUS
<1> HIDE DEF q, open, left, u, t
<1>6. /\ Head(q) = q[1] /\ Len(q) \in Nat
      /\ \A j \in 1..Len(r) : j + 1 \in 1..Len(q) /\ r[j] = q[j + 1]
      /\ \A j \in 1..Len(q) : j = 1 \/ (j - 1 \in 1..Len(r) /\ r[j - 1] = q[j])
  BY <1>1, <1>2
<1>7. Chunks(commit[Parent], r, seen'[Parent], left, written[Parent], resends)
  BY <1>1, <1>2, <1>3, <1>4, ChunksTaken
<1> HIDE DEF r
<1>8. \A x : Safe(x, s, t, open) => Safe(x, s, u, left)
  BY <1>2, SafeKept
<1>9. Accounted(s, u, left, commit[Parent], r)
  <2> SUFFICES ASSUME NEW x \in Range(s)
               PROVE  \/ Safe(x, s, u, left)
                      \/ commit[Parent].pc # "idle" /\ commit[Parent].recs = <<x>>
                      \/ \E j \in 1..Len(r) : s[r[j].total] = x
    BY DEF Accounted
  <2>1. CASE \E j \in 1..Len(q) : s[q[j].total] = x
    <3>1. PICK j \in 1..Len(q) : s[q[j].total] = x
      BY <2>1
    <3> QED
      BY <1>2, <1>6, <3>1
  <2> QED
    BY <1>3, <1>8, <2>1 DEF Accounted
<1>10. faults' + crashes' = 0 => QueueSafe(s, u, left, r)
  BY <1>1, <1>3, <1>6, <1>8 DEF QueueSafe
<1>11. \A j \in 1..Len(r) : Plain(r[j])
  BY <1>3, <1>6
<1>12. \A i \in left : i.bytes \in 1..Len(s)
  BY <1>2, <1>3
<1>13. PassHeals(g, s, row'[Parent].here)
  <2>1. g \in PassType /\ Parent \in Lanes
    BY LanesAssumption DEF ArchiveInv, IngestTypes
  <2>2. g.list[Parent] \in Nat /\ g.bytes[Parent] \in Nat
    BY <2>1 DEF PassType
  <2>3. Opens(s, s)
    BY <1>1, TextIs DEF Opens
  <2> QED
    BY <1>1, <1>3, <1>4, <2>2, <2>3, PassGrows
<1> QED
  BY <1>3, <1>4, <1>5, <1>7, <1>9, <1>10, <1>11, <1>12, <1>13 DEF HealParts, u, left

LEMMA IndexHeals ==
  ASSUME ArchiveInv, SoundInv, HealInv, NEW l \in Lanes, IndexWrite(l), Counts, Healthy'
  PROVE  HealParts'
<1> DEFINE e == Head(queue[l])
<1>1. queue[l] # << >> /\ IndexHead(l)
  BY DEF IndexWrite, DeferredIndexWrite, RelayedIndexWrite
<1>2. /\ Transact(l, e) /\ queue' = [queue EXCEPT ![l] = Tail(queue[l])]
      /\ UNCHANGED <<canon, commit, written, resends, reindex, g>>
  BY <1>1 DEF IndexHead
<1>3. /\ HealTypes /\ HealParts /\ Healthy /\ ~tomb /\ LaneSound(Parent) /\ IngestTypes /\ Parent \in Lanes
      /\ canon[Parent] \in Text /\ row[Parent].turns \in Text /\ row[Parent].bytes \in Nat /\ queue \in [Lanes -> Seq(InputType)]
  <2>1. HealTypes /\ HealParts /\ Healthy /\ Parent \in Lanes /\ IngestTypes /\ LaneSound(Parent)
    BY HealthBefore, HealPartsAre DEF HealInv
  <2> QED
    BY <2>1, PartsAre DEF Healthy, IngestTypes, CallTypes
<1>4. e \in InputType
  BY <1>1, TailsKeep
<1>5. seen' \in [Lanes -> SUBSET Nat]
  BY <1>2, <1>3, <1>4, TransactCounts
<1>6. CASE l # Parent
  <2>1. row'[Parent] = row[Parent] /\ seen'[Parent] = seen[Parent] /\ ParentIntents' = ParentIntents
    BY <1>2, <1>3, <1>4, <1>6, AgentTransacts
  <2>2. queue'[Parent] = queue[Parent]
    BY <1>2, <1>3, <1>6
  <2>3. PassHeals(g', canon[Parent], row[Parent].here)
    BY <1>2, <1>3 DEF HealParts
  <2> QED
    BY <1>2, <1>5, <2>1, <2>2, <2>3, HealStays
<1>7. CASE l = Parent
  <2> DEFINE s == canon[Parent]
             t == row[Parent].turns
             b == row[Parent].bytes
             u == row'[Parent].turns
             v == s[e.total]
  <2>1. InputSound(s, e) /\ Plain(e) /\ e.chunk \notin seen[Parent] /\ \A i \in ParentIntents : i.chunk = e.chunk => i.bytes = e.total
    <3> DEFINE q == queue[Parent]
    <3>1. q \in Seq(InputType) /\ q # << >>
      BY <1>1, <1>3, <1>7
    <3>2. QueueSound(q, s) /\ Chunks(commit[Parent], q, seen[Parent], ParentIntents, written[Parent], resends)
          /\ \A j \in 1..Len(q) : Plain(q[j])
      BY <1>3 DEF LaneSound, HealParts
    <3>3. e = q[1] /\ 1 \in 1..Len(q)
      BY <1>7, <3>1
    <3> HIDE DEF q, e
    <3> QED
      BY <3>2, <3>3 DEF QueueSound, Chunks
  <2>2. ~e.replace /\ e.total \in 1..Len(s) /\ e.text = <<v>> /\ ~e.recovered /\ e.expect = NoCheck /\ e.prior = NoCheck
    BY <2>1 DEF InputSound, Plain
  <2>3. v \in 1..MaxRecords /\ Len(s) \in Nat
    BY <1>3, <2>2, TextIs
  <2>4. RowWithin(row[Parent], s)
    BY <1>3 DEF HealParts
  <2> HIDE DEF e
  <2>5. CASE /\ row'[Parent].here
             /\ row'[Parent].turns = (IF e.replace THEN << >> ELSE row[Parent].turns) \o Parse(e.text)
             /\ row'[Parent].bytes = Watermark(Parent, e)
             /\ seen'[Parent] = seen[Parent] \cup DedupeKeys(e.chunk)
             /\ ParentIntents' = {i \in ParentIntents : ~(i.chunk = e.chunk \/ (e.replace /\ i.bytes <= e.object))}
    <3>1. u = t \o <<v>>
      BY <2>2, <2>3, <2>5, ParseShort
    <3>2. Range(u) = Range(t) \cup {v}
      BY <1>3, <2>3, <3>1, AppendIs
    <3>3. row'[Parent].bytes = IF b > e.total THEN b ELSE e.total
      BY <2>2, <2>5 DEF Watermark
    <3>4. RowWithin(row'[Parent], s)
      <4>1. b \in 0..Len(s) /\ Range(t) \subseteq {s[i] : i \in 1..b}
        BY <2>4 DEF RowWithin
      <4>2. row'[Parent].bytes \in 0..Len(s) /\ e.total \in 1..row'[Parent].bytes /\ \A i \in 1..b : i \in 1..row'[Parent].bytes
        BY <1>3, <2>2, <2>3, <3>3, <4>1
      <4>3. v \in {s[i] : i \in 1..row'[Parent].bytes}
        BY <4>2
      <4>4. Range(u) \subseteq {s[i] : i \in 1..row'[Parent].bytes}
        BY <3>2, <4>1, <4>2, <4>3
      <4> QED
        BY <4>2, <4>4 DEF RowWithin
    <3>5. \A i \in ParentIntents : i \in ParentIntents' \/ s[i.bytes] \in Range(u)
      BY <2>1, <2>2, <2>5, <3>2
    <3>6. seen'[Parent] \subseteq seen[Parent] \cup {e.chunk} /\ ParentIntents' \subseteq ParentIntents
      BY <2>5 DEF DedupeKeys
    <3>7. Safe(v, s, u, ParentIntents')
      BY <3>2 DEF Safe
    <3>8. Range(t) \subseteq Range(u) /\ row'[Parent].here
      BY <2>5, <3>2
    <3>9. queue'[Parent] = Tail(queue[Parent])
      BY <1>2, <1>3, <1>7
    <3> QED
      BY <1>1, <1>2, <1>7, <3>4, <3>5, <3>6, <3>7, <3>8, <3>9, HeadHeals DEF e
  <2>6. CASE /\ Outcome(Parent, e) = "duplicate_records" /\ row' = row /\ seen' = seen
             /\ ParentIntents' = {i \in ParentIntents : i.chunk # e.chunk}
    <3>1. SkipsDuplicate(Parent, e)
      BY <2>6 DEF Outcome
    <3>2. v \in Range(t)
      <4>1. Range(<<v>>) = {v}
        BY <2>3, OneIs
      <4> QED
        BY <2>2, <3>1, <4>1 DEF SkipsDuplicate, AllIndexed
    <3>3. \A i \in ParentIntents : i \in ParentIntents' \/ s[i.bytes] \in Range(t)
      BY <2>1, <2>6, <3>2
    <3>4. Safe(v, s, u, ParentIntents') /\ u = t
      BY <2>6, <3>2 DEF Safe
    <3>5. queue'[Parent] = Tail(queue[Parent])
      BY <1>2, <1>3, <1>7
    <3> QED
      BY <1>1, <1>2, <1>7, <2>4, <2>6, <3>3, <3>4, <3>5, HeadHeals DEF e
  <2>7. Outcome(Parent, e) \in {"applied", "duplicate_records"}
    BY <1>3, <2>1, <2>2 DEF Outcome, TombInLock, ParentMissing, RecoveredSkips, IndexAdvanced, PrefixMismatch
  <2>8. Transact(Parent, e)
    BY <1>2, <1>7 DEF e
  <2> QED
    BY <1>3, <1>4, <1>7, <2>5, <2>6, <2>7, <2>8, ParentTransacts DEF e
<1> QED
  BY <1>6, <1>7

LEMMA LostHeals ==
  ASSUME ArchiveInv, SoundInv, HealInv, NEW l \in Lanes, IndexWriteLost(l), Counts, Healthy'
  PROVE  HealParts'
<1>1. /\ queue[l] # << >> /\ queue' = [queue EXCEPT ![l] = Tail(queue[l])] /\ faults' = faults + 1
      /\ UNCHANGED <<canon, row, seen, intents, commit, written, resends, reindex, g, crashes>>
  BY DEF IndexWriteLost, pg
<1>2. HealTypes /\ HealParts /\ Healthy /\ queue \in [Lanes -> Seq(InputType)] /\ Parent \in Lanes
  BY HealthBefore, HealPartsAre DEF HealInv, IngestTypes, CallTypes
<1>3. ParentIntents' = ParentIntents
  BY <1>1 DEF ParentIntents
<1>4. CASE l # Parent
  <2>1. queue'[Parent] = queue[Parent]
    BY <1>1, <1>2, <1>4
  <2>2. PassHeals(g', canon[Parent], row[Parent].here)
    BY <1>1, <1>2 DEF HealParts
  <2> QED
    BY <1>1, <1>2, <1>3, <2>1, <2>2, HealStays DEF HealTypes
<1>5. CASE l = Parent
  <2> DEFINE q == queue[Parent]
  <2>1. faults + crashes = 0
    BY <1>1, <1>2 DEF Healthy, HealTypes
  <2>2. QueueSafe(canon[Parent], row[Parent].turns, ParentIntents, q) /\ RowWithin(row[Parent], canon[Parent])
    BY <1>2, <2>1 DEF HealParts
  <2>3. q \in Seq(InputType) /\ q # << >> /\ queue'[Parent] = Tail(q)
    BY <1>1, <1>2, <1>5
  <2>4. Head(q) = q[1] /\ 1 \in 1..Len(q)
    BY <2>3
  <2>5. Safe(canon[Parent][Head(q).total], canon[Parent], row[Parent].turns, ParentIntents)
    BY <2>2, <2>4 DEF QueueSafe
  <2> QED
    BY <1>1, <1>3, <2>2, <2>3, <2>5, HeadHeals
<1> QED
  BY <1>4, <1>5

LEMMA NoPassHeals ==
  ASSUME Parent \in Lanes, NEW s, Len(s) \in Nat, NEW here
  PROVE  PassHeals(NoPass, s, here)
BY DEF PassHeals, NoPass, Sweeping

(* A restart: what was queued in this process is gone, and it was safe. *)
LEMMA CrashHeals ==
  ASSUME ArchiveInv, SoundInv, HealInv, Crash, Counts, Healthy'
  PROVE  HealParts'
<1> DEFINE c == commit[Parent]
           s == canon[Parent]
           q == queue[Parent]
           again == [NoCommit EXCEPT !.pc = "judge", !.chunk = c.chunk, !.recs = c.recs, !.replace = c.replace]
           d == IF c.pc = "idle" THEN NoCommit ELSE again
           r == IF Parent \in Tunnel THEN q ELSE << >>
<1>1. /\ HealTypes /\ HealParts /\ Healthy /\ Parent \in Lanes /\ Len(s) \in Nat
  BY HealthBefore, HealPartsAre DEF HealInv
<1>2. /\ crashes' = crashes + 1 /\ reindex' = NoReindex /\ g' = NoPass /\ commit'[Parent] = d /\ queue'[Parent] = r
      /\ UNCHANGED <<canon, row, seen, intents, written, resends, faults>>
  BY <1>1 DEF Crash, pg
<1>3. faults + crashes = 0 /\ faults' + crashes' # 0
  BY <1>1, <1>2 DEF Healthy, HealTypes
<1>4. again.pc = "judge" /\ again.chunk = c.chunk /\ again.recs = c.recs /\ NoCommit.pc = "idle"
  BY DEF NoCommit
<1> HIDE DEF again
<1>5. /\ d.pc # "idle" => c.pc # "idle" /\ d.chunk = c.chunk
      /\ c.pc # "idle" => d.pc # "idle" /\ d.recs = c.recs
      /\ d.pc \in {"idle", "judge"}
  BY <1>4
<1> HIDE DEF d, r
<1>6. ParentIntents' = ParentIntents
  BY <1>2 DEF ParentIntents
<1>7. Chunks(d, r, seen[Parent], ParentIntents, written[Parent], resends)
  <2>1. Chunks(c, q, seen[Parent], ParentIntents, written[Parent], resends)
    BY <1>1 DEF HealParts
  <2>2. Chunks(d, q, seen[Parent], ParentIntents, written[Parent], resends)
    BY <1>5, <2>1, ChunksKept
  <2>3. Chunks(d, << >>, seen[Parent], ParentIntents, written[Parent], resends)
    BY <2>2 DEF Chunks
  <2> QED
    BY <2>2, <2>3 DEF r
<1>8. Accounted(s, row[Parent].turns, ParentIntents, d, r)
  <2>1. Accounted(s, row[Parent].turns, ParentIntents, c, q) /\ QueueSafe(s, row[Parent].turns, ParentIntents, q)
    BY <1>1, <1>3 DEF HealParts
  <2> QED
    BY <1>5, <2>1 DEF Accounted, QueueSafe
<1>9. \A j \in 1..Len(r) : Plain(r[j])
  BY <1>1 DEF HealParts, r
<1>10. PassHeals(NoPass, s, row[Parent].here) /\ NoReindex.pc = "idle"
  BY <1>1, NoPassHeals DEF NoReindex
<1>11. (\A i \in ParentIntents : i.bytes \in 1..Len(s)) /\ RowWithin(row[Parent], s)
  BY <1>1 DEF HealParts
<1> QED
  BY <1>2, <1>3, <1>5, <1>6, <1>7, <1>8, <1>9, <1>10, <1>11 DEF HealParts

-----------------------------------------------------------------------------
(* What every step does to the budgets. *)
LEMMA StepCounts ==
  ASSUME ArchiveInv, HealTypes, [Next]_vars
  PROVE  Counts /\ seen' \in [Lanes -> SUBSET Nat]
<1>1. IngestTypes /\ seen \in [Lanes -> SUBSET Nat]
  BY DEF ArchiveInv, HealTypes
<1>2. ASSUME NEW l \in Lanes, NEW in \in InputType, Transact(l, in), UNCHANGED <<resends, replaces, reindexes, blanks, crashes>>
      PROVE  Counts /\ seen' \in [Lanes -> SUBSET Nat]
  <2>1. tomb' = tomb
    BY <1>2 DEF Transact
  <2> QED
    BY <1>2, <2>1, TransactCounts DEF Counts
<1>3. ASSUME seen' = seen, tomb => tomb', UNCHANGED budget PROVE Counts /\ seen' \in [Lanes -> SUBSET Nat]
  BY <1>1, <1>3 DEF Counts, budget
<1>4. ASSUME NEW l \in Lanes, Send(l) \/ JudgeCommit(l) PROVE Counts /\ seen' \in [Lanes -> SUBSET Nat]
  <2>1. seen' = seen /\ tomb' = tomb /\ UNCHANGED <<reindexes, faults, crashes>>
    BY <1>4 DEF Send, JudgeCommit, pg
  <2>2. /\ resends' = resends \/ resends' = resends + 1
        /\ replaces' = replaces \/ replaces' = replaces + 1
        /\ blanks' = blanks \/ blanks' = blanks + 1
    BY <1>4 DEF Send, JudgeCommit
  <2> QED
    BY <1>1, <2>1, <2>2 DEF Counts
<1>5. ASSUME NEW l \in Lanes, ComposeRead(l) \/ ComposePut(l) PROVE Counts /\ seen' \in [Lanes -> SUBSET Nat]
  BY <1>3, <1>5 DEF ComposeRead, ComposePut, pg
<1>6. ASSUME NEW l \in Lanes, NoteIntent(l) \/ IndexWriteLost(l) \/ ReindexStat(l)
      PROVE  Counts /\ seen' \in [Lanes -> SUBSET Nat]
  <2>1. seen' = seen /\ tomb' = tomb /\ UNCHANGED <<resends, replaces, blanks, crashes>>
    BY <1>6 DEF NoteIntent, IndexWriteLost, ReindexStat, pg
  <2>2. (faults' = faults \/ faults' = faults + 1) /\ (reindexes' = reindexes \/ reindexes' = reindexes + 1)
    BY <1>6 DEF NoteIntent, IndexWriteLost, ReindexStat
  <2> QED
    BY <1>1, <2>1, <2>2 DEF Counts
<1>7. ASSUME NEW l \in Lanes, IndexWrite(l) PROVE Counts /\ seen' \in [Lanes -> SUBSET Nat]
  <2>1. queue[l] # << >> /\ Transact(l, Head(queue[l])) /\ UNCHANGED <<resends, replaces, reindexes, blanks, crashes>>
    BY <1>7 DEF IndexWrite, DeferredIndexWrite, RelayedIndexWrite, IndexHead
  <2>2. Head(queue[l]) \in InputType
    BY <1>1, <2>1, TailsKeep
  <2> QED
    BY <1>2, <2>1, <2>2
<1>8. CASE ReindexStep
  <2>1. CASE ReindexRead
    BY <1>3, <2>1 DEF ReindexRead
  <2>2. CASE ReindexApply
    <3> DEFINE e == Live(ReindexChunk, reindex.text, reindex.stat, TRUE)
    <3>1. Transact(reindex.lane, e) /\ UNCHANGED <<resends, replaces, reindexes, blanks, crashes>>
      BY <2>2 DEF ReindexApply
    <3>2. e \in InputType /\ reindex.lane \in Lanes
      <4>1. ReindexChunk \in Nat
        BY <1>1, PartsAre DEF ReindexChunk, IngestTypes, CallTypes
      <4> QED
        BY <1>1, <4>1, PartsAre, LiveIs
    <3> QED
      BY <1>2, <3>1, <3>2
  <2> QED
    BY <1>8, <2>1, <2>2 DEF ReindexStep
<1>9. CASE DeleteCalled \/ DeleteStep
  <2>1. CASE PurgeSessionPg
    <3>1. tomb' = tomb /\ UNCHANGED budget
      BY <2>1 DEF PurgeSessionPg
    <3>2. seen' = seen \/ seen' = [l \in Lanes |-> {}]
      BY <2>1 DEF PurgeSessionPg, PurgeRest, PurgeBatch
    <3> QED
      BY <1>1, <3>1, <3>2 DEF Counts, budget
  <2>2. CASE DeleteCalled \/ MarkSessionDeleted \/ StoreDeleteSession
    BY <1>3, <2>2 DEF DeleteCalled, MarkSessionDeleted, StoreDeleteSession, Tombstoned, pg
  <2> QED
    BY <1>9, <2>1, <2>2 DEF DeleteStep
<1>10. CASE Pass
  <2>1. UNCHANGED <<resends, replaces, reindexes, blanks, crashes>>
    BY <1>10 DEF Pass, ListStore, StaleIntents, BulkGate, PickCanonical, HoldBack, CheckCanonical, ReadCanonical, AppendTail, VerifyTail,
         RebuildParent, RebuildLane, RebuildFrom, SweepRow, SweepStat, SweepRead, SweepJudge, guarantorOnly, others, budget
  <2>2. CASE seen' = seen /\ tomb' = tomb /\ (faults' = faults \/ faults' = faults + 1)
    BY <1>1, <2>1, <2>2 DEF Counts
  <2>3. CASE ListStore \/ PickCanonical \/ HoldBack \/ CheckCanonical \/ ReadCanonical \/ VerifyTail \/ SweepRow \/ SweepStat \/ SweepRead
    BY <2>2, <2>3 DEF ListStore, PickCanonical, HoldBack, CheckCanonical, ReadCanonical, VerifyTail, SweepRow, SweepStat, SweepRead,
                      guarantorOnly, budget
  <2>4. CASE StaleIntents \/ BulkGate
    BY <2>2, <2>4 DEF StaleIntents, BulkGate, pg
  <2>5. CASE AppendTail
    BY <1>2, <2>1, <2>5, LanesAssumption, RepairsAre DEF AppendTail
  <2>6. CASE RebuildParent \/ RebuildLane
    BY <1>2, <2>1, <2>6, LanesAssumption, RepairsAre DEF RebuildParent, RebuildLane, RebuildFrom, Agents
  <2>7. CASE SweepJudge
    <3>1. UNCHANGED <<pg, faults>> \/ Transact(g.lane, CountInput)
      BY <2>7 DEF SweepJudge
    <3>2. CASE UNCHANGED <<pg, faults>>
      BY <2>2, <3>2 DEF pg
    <3> QED
      BY <1>1, <1>2, <2>1, <3>1, <3>2, PartsAre, RepairsAre
  <2> QED
    BY <1>10, <2>3, <2>4, <2>5, <2>6, <2>7 DEF Pass
<1>11. CASE Crash
  <2>1. seen' = seen /\ tomb' = tomb /\ UNCHANGED <<resends, replaces, blanks, faults, reindexes>> /\ crashes' = crashes + 1
    BY <1>11 DEF Crash, pg
  <2> QED
    BY <1>1, <2>1 DEF Counts
<1>12. CASE UNCHANGED vars
  BY <1>3, <1>12 DEF vars, budget
<1> QED
  BY <1>4, <1>5, <1>6, <1>7, <1>8, <1>9, <1>10, <1>11, <1>12 DEF Next, Step, CommitStep

-----------------------------------------------------------------------------
(* Where the pass goes on from. *)
LEMMA PassWalksOn ==
  ASSUME NEW p, NEW q, NEW s, NEW here, PassHeals(p, s, here), q.list = p.list, q.bytes = p.bytes,
         Parent \notin q.closing, q.pc \in {"idle", "gate", "pick", "check", "read"}
  PROVE  PassHeals(q, s, here)
BY DEF PassHeals, Sweeping

LEMMA NextHeals ==
  ASSUME ArchiveInv, NEW s, Len(s) \in Nat, NEW here, PassHeals(g, s, here)
  PROVE  /\ \A failed \in BOOLEAN : PassHeals(NextCanonical(failed), s, here)
         /\ g.pc \in Sweeping => PassHeals(NextRow, s, here)
<1>1. g \in PassType /\ Parent \in Lanes /\ g.failed \in BOOLEAN
  BY LanesAssumption DEF ArchiveInv, IngestTypes, PassType
<1>2. ASSUME NEW failed \in BOOLEAN PROVE PassHeals(NextCanonical(failed), s, here)
  <2> DEFINE todo == g.todo \ {g.lane}
             f == g.failed \/ (failed /\ g.lane = Parent)
             q == [g EXCEPT !.pc = "pick", !.todo = todo, !.text = << >>, !.anchor = 0, !.stale = FALSE,
                            !.lane = Parent, !.failed = f]
  <2>1. NextCanonical(failed) = q
    BY DEF NextCanonical
  <2> HIDE DEF todo, f
  <2>2. q.pc = "pick" /\ q.list = g.list /\ q.bytes = g.bytes /\ q.closing = g.closing
    BY <1>1 DEF PassType
  <2>3. Parent \notin g.closing
    BY DEF PassHeals
  <2> HIDE DEF q
  <2> QED
    BY <2>1, <2>2, <2>3, PassWalksOn
<1>3. ASSUME g.pc \in Sweeping PROVE PassHeals(NextRow, s, here)
  <2> DEFINE todo == g.todo \ {g.lane}
             q == [NoPass EXCEPT !.pc = "sweep", !.todo = todo]
  <2>1. NextRow = q
    BY DEF NextRow
  <2>2. Parent \in todo => here
    BY <1>3 DEF PassHeals
  <2> HIDE DEF todo
  <2>3. q.pc = "sweep" /\ q.todo = todo /\ q.list[Parent] = 0 /\ q.bytes[Parent] = 0 /\ q.closing = {}
    BY <1>1 DEF NoPass
  <2> HIDE DEF q
  <2> QED
    BY <2>1, <2>2, <2>3 DEF PassHeals, Sweeping
<1> QED
  BY <1>2, <1>3

(* A step of the pass that indexes nothing. *)
LEMMA PassStays ==
  ASSUME ArchiveInv, SoundInv, HealInv, Counts, Healthy', UNCHANGED passOnly, UNCHANGED <<row, seen>>,
         ParentIntents' = ParentIntents, PassHeals(g', canon[Parent], row[Parent].here)
  PROVE  HealParts'
<1>1. seen' \in [Lanes -> SUBSET Nat]
  BY DEF HealInv, HealTypes
<1> QED
  BY <1>1, HealStays DEF passOnly

LEMMA SelectHeals ==
  ASSUME ArchiveInv, SoundInv, HealInv, ListStore \/ StaleIntents \/ BulkGate, Counts, Healthy'
  PROVE  HealParts'
<1> DEFINE s == canon[Parent]
           here == row[Parent].here
<1>1. /\ HealParts /\ Healthy /\ Parent \in Lanes /\ Len(s) \in Nat /\ g \in PassType /\ row \in [Lanes -> RowType]
      /\ IngestTypes /\ ~tomb
  BY HealthBefore, HealPartsAre DEF HealInv, IngestTypes, IndexTypes, Healthy
<1>2. /\ UNCHANGED passOnly /\ UNCHANGED <<row, seen>>
  BY DEF ListStore, StaleIntents, BulkGate, guarantorOnly, others, pg, budget, passOnly
<1>3. PassHeals(g, s, here) /\ RowWithin(row[Parent], s) /\ \A i \in ParentIntents : i.bytes \in 1..Len(s)
  BY <1>1 DEF HealParts
<1>4. CASE ListStore
  <2> DEFINE list == [l \in Lanes |-> Len(canon[l])]
             q == [NoPass EXCEPT !.pc = "intents", !.list = list]
  <2>1. g' = q /\ intents' = intents /\ list[Parent] = Len(s)
    BY <1>1, <1>4 DEF ListStore, guarantorOnly
  <2> HIDE DEF list
  <2>2. q.pc = "intents" /\ q.list = list /\ q.bytes[Parent] = 0 /\ q.closing = {}
    BY <1>1 DEF NoPass
  <2> HIDE DEF q
  <2>3. PassHeals(q, s, here)
    BY <1>1, <2>1, <2>2 DEF PassHeals, Sweeping
  <2>4. ParentIntents' = ParentIntents
    BY <2>1 DEF ParentIntents
  <2> QED
    BY <1>2, <2>1, <2>3, <2>4, PassStays
<1>5. CASE StaleIntents
  <2> DEFINE open == {i.lane : i \in intents}
             terminal == {l \in open : TerminalIntent(l)}
             closed == open \ terminal
  <2>1. /\ g.pc = "intents" /\ intents' = intents
        /\ \/ g' = [g EXCEPT !.pc = "gate", !.closing = terminal, !.forced = closed]
           \/ g' = [g EXCEPT !.pc = "gate", !.forced = open]
    BY <1>5 DEF StaleIntents, pg
  <2>2. Parent \notin terminal
    <3>1. Parent \in open => \E i \in ParentIntents : TRUE
      BY DEF ParentIntents
    <3>2. Parent \in open => Len(s) # 0
      BY <1>1, <1>3, <3>1
    <3>3. Parent \in open => s # << >>
      BY <3>2
    <3> QED
      BY <1>1, <3>3 DEF TerminalIntent
  <2> HIDE DEF open, terminal, closed
  <2> DEFINE q == [g EXCEPT !.pc = "gate", !.closing = terminal, !.forced = closed]
             r == [g EXCEPT !.pc = "gate", !.forced = open]
  <2>3. q.pc = "gate" /\ q.list = g.list /\ q.bytes = g.bytes /\ q.closing = terminal
    BY <1>1 DEF PassType
  <2>4. r.pc = "gate" /\ r.list = g.list /\ r.bytes = g.bytes /\ r.closing = g.closing
    BY <1>1 DEF PassType
  <2>5. g' = q \/ g' = r
    BY <2>1
  <2> HIDE DEF q, r
  <2>6. Parent \notin g.closing
    BY <1>3 DEF PassHeals
  <2>7. PassHeals(q, s, here) /\ PassHeals(r, s, here)
    BY <1>3, <2>2, <2>3, <2>4, <2>6, PassWalksOn
  <2>8. ParentIntents' = ParentIntents
    BY <2>1 DEF ParentIntents
  <2> QED
    BY <1>2, <2>5, <2>7, <2>8, PassStays
<1>6. CASE BulkGate
  <2> DEFINE have == {l \in Lanes : Events(l) > 0}
             bytes == [l \in Lanes |-> row[l].bytes]
             todo == {l \in Lanes : g.list[l] > 0}
             q == [g EXCEPT !.pc = "pick", !.closing = {}, !.have = have, !.bytes = bytes, !.todo = todo]
  <2>1. g' = q /\ intents' = {i \in intents : i.lane \notin g.closing} /\ bytes[Parent] = row[Parent].bytes
    BY <1>1, <1>6 DEF BulkGate
  <2> HIDE DEF have, bytes, todo
  <2>2. q.pc = "pick" /\ q.list = g.list /\ q.bytes = bytes /\ q.closing = {}
    BY <1>1 DEF PassType
  <2> HIDE DEF q
  <2>3. bytes[Parent] <= Len(s)
    BY <1>3, <2>1 DEF RowWithin
  <2>4. PassHeals(q, s, here)
    BY <1>3, <2>2, <2>3 DEF PassHeals, Sweeping
  <2>5. ParentIntents' = ParentIntents
    BY <1>3, <2>1 DEF PassHeals, ParentIntents
  <2> QED
    BY <1>2, <2>1, <2>4, <2>5, PassStays
<1> QED
  BY <1>4, <1>5, <1>6

LEMMA WalkHeals ==
  ASSUME ArchiveInv, SoundInv, HealInv, PickCanonical \/ HoldBack \/ CheckCanonical \/ SweepRow, Counts, Healthy'
  PROVE  HealParts'
<1> DEFINE s == canon[Parent]
           here == row[Parent].here
<1>1. /\ HealParts /\ Healthy /\ Parent \in Lanes /\ Len(s) \in Nat /\ g \in PassType /\ row \in [Lanes -> RowType]
      /\ IngestTypes /\ ~tomb
  BY HealthBefore, HealPartsAre DEF HealInv, IngestTypes, IndexTypes, Healthy
<1>2. UNCHANGED passOnly /\ UNCHANGED <<row, seen>> /\ intents' = intents
  BY DEF PickCanonical, HoldBack, CheckCanonical, SweepRow, guarantorOnly, budget, passOnly
<1>3. PassHeals(g, s, here) /\ RowWithin(row[Parent], s) /\ Parent \notin g.closing
  BY <1>1 DEF HealParts, PassHeals
<1>4. ParentIntents' = ParentIntents
  BY <1>2 DEF ParentIntents
<1>5. ASSUME PassHeals(g', s, here) PROVE HealParts'
  BY <1>2, <1>4, <1>5, PassStays
<1>6. CASE PickCanonical \/ HoldBack
  <2>1. ASSUME NEW todo, todo = {l \in Lanes : row[l].here}, g' = [NoPass EXCEPT !.pc = "sweep", !.todo = todo] PROVE HealParts'
    <3>1. g'.pc = "sweep" /\ g'.todo = todo /\ g'.list[Parent] = 0 /\ g'.bytes[Parent] = 0 /\ g'.closing = {}
      BY <1>1, <2>1 DEF NoPass
    <3>2. Parent \in todo => here
      BY <2>1
    <3>3. PassHeals(g', s, here)
      BY <1>1, <3>1, <3>2 DEF PassHeals, Sweeping
    <3> QED
      BY <1>5, <3>3
  <2>2. ASSUME NEW todo, g.pc = "pick", g' = [g EXCEPT !.todo = todo] PROVE HealParts'
    <3>1. g'.pc = "pick" /\ g'.list = g.list /\ g'.bytes = g.bytes /\ g'.closing = g.closing
      BY <1>1, <2>2 DEF PassType
    <3>2. PassHeals(g', s, here)
      BY <1>3, <3>1, PassWalksOn
    <3> QED
      BY <1>5, <3>2
  <2>3. ASSUME NEW l, NEW stale, g' = [g EXCEPT !.pc = "check", !.lane = l, !.stale = stale] PROVE HealParts'
    <3>1. g'.pc = "check" /\ g'.list = g.list /\ g'.bytes = g.bytes /\ g'.closing = g.closing
      BY <1>1, <2>3 DEF PassType
    <3>2. PassHeals(g', s, here)
      BY <1>3, <3>1, PassWalksOn
    <3> QED
      BY <1>5, <3>2
  <2>4. \/ g' = [NoPass EXCEPT !.pc = "sweep", !.todo = {l \in Lanes : row[l].here}]
        \/ \E l \in Lanes : \/ g' = [g EXCEPT !.todo = g.todo \ {l}]
                            \/ g' = [g EXCEPT !.pc = "check", !.lane = l, !.stale = l \in g.have]
    <3>1. PickCanonical => \/ g' = [NoPass EXCEPT !.pc = "sweep", !.todo = {l \in Lanes : row[l].here}]
                           \/ \E l \in Lanes : \/ g' = [g EXCEPT !.todo = g.todo \ {l}]
                                               \/ g' = [g EXCEPT !.pc = "check", !.lane = l, !.stale = l \in g.have]
      BY DEF PickCanonical
    <3>2. HoldBack => \E l \in g.have : g' = [g EXCEPT !.todo = g.todo \ {l}]
      BY DEF HoldBack
    <3>3. g.have \subseteq Lanes
      BY <1>1 DEF PassType
    <3> QED
      BY <1>6, <3>1, <3>2, <3>3
  <2>5. g.pc = "pick"
    BY <1>6 DEF PickCanonical, HoldBack
  <2> QED
    BY <2>1, <2>2, <2>3, <2>4, <2>5
<1>7. CASE CheckCanonical
  <2>1. g' = NextCanonical(FALSE) \/ g' = [g EXCEPT !.pc = "read"]
    BY <1>7 DEF CheckCanonical
  <2>2. CASE g' = NextCanonical(FALSE)
    BY <1>1, <1>3, <1>5, <2>2, NextHeals
  <2>3. CASE g' = [g EXCEPT !.pc = "read"]
    <3>1. g'.pc = "read" /\ g'.list = g.list /\ g'.bytes = g.bytes /\ g'.closing = g.closing
      BY <1>1, <2>3 DEF PassType
    <3>2. PassHeals(g', s, here)
      BY <1>3, <3>1, PassWalksOn
    <3> QED
      BY <1>5, <3>2
  <2> QED
    BY <2>1, <2>2, <2>3
<1>8. CASE SweepRow
  <2>1. ASSUME NEW l \in Lanes, Walk(l), NEW a, a = IF row[l].here THEN row[l].bytes ELSE NoCheck, g.pc = "sweep",
               g' = [g EXCEPT !.pc = "stat", !.lane = l, !.anchor = a]
        PROVE  HealParts'
    <3>1. /\ g'.pc = "stat" /\ g'.list = g.list /\ g'.bytes = g.bytes /\ g'.closing = g.closing /\ g'.lane = l /\ g'.anchor = a
          /\ g'.todo = g.todo
      BY <1>1, <2>1 DEF PassType
    <3>2. l = Parent => here
      BY <1>3, <2>1 DEF Walk, PassHeals, Sweeping
    <3>3. l = Parent => a \in 0..Len(s)
      BY <1>3, <2>1, <3>2 DEF RowWithin
    <3>4. Parent \in g.todo => here
      BY <1>3, <2>1 DEF PassHeals, Sweeping
    <3>5. g.list[Parent] <= Len(s) /\ g.bytes[Parent] <= Len(s)
      BY <1>3 DEF PassHeals
    <3>6. PassHeals(g', s, here)
      BY <1>3, <3>1, <3>3, <3>4, <3>5 DEF PassHeals, Sweeping
    <3> QED
      BY <1>5, <3>6
  <2>2. g.pc = "sweep" /\ ~tomb /\ (g' = NoPass \/ \E l \in Lanes : /\ Walk(l)
              /\ g' = [g EXCEPT !.pc = "stat", !.lane = l, !.anchor = IF row[l].here THEN row[l].bytes ELSE NoCheck])
    BY <1>1, <1>8 DEF SweepRow
  <2>3. CASE g' = NoPass
    BY <1>1, <1>5, <2>3, NoPassHeals
  <2> QED
    BY <2>1, <2>2, <2>3
<1> QED
  BY <1>6, <1>7, <1>8

LEMMA ReadsHeal ==
  ASSUME ArchiveInv, SoundInv, HealInv, ReadCanonical \/ VerifyTail \/ SweepStat \/ SweepRead, Counts, Healthy'
  PROVE  HealParts'
<1> DEFINE s == canon[Parent]
           here == row[Parent].here
<1>1. /\ HealParts /\ Healthy /\ Parent \in Lanes /\ Len(s) \in Nat /\ g \in PassType /\ row[Parent].bytes \in Nat
      /\ IngestTypes /\ canon[g.lane] \in Text /\ Len(canon[g.lane]) \in Nat /\ Len(g.text) \in Nat /\ PassHeld
  <2>1. HealParts /\ Healthy /\ Parent \in Lanes /\ Len(s) \in Nat /\ IngestTypes /\ PassHeld /\ g \in PassType
    BY HealthBefore, HealPartsAre DEF HealInv, IngestTypes, ArchiveInv
  <2> QED
    BY <2>1, PartsAre, TextIs
<1>2. UNCHANGED passOnly /\ UNCHANGED <<row, seen>> /\ intents' = intents
  BY DEF ReadCanonical, VerifyTail, SweepStat, SweepRead, guarantorOnly, budget, passOnly
<1>3. PassHeals(g, s, here) /\ RowWithin(row[Parent], s) /\ Parent \notin g.closing
      /\ g.list[Parent] <= Len(s) /\ g.bytes[Parent] <= Len(s)
  BY <1>1 DEF HealParts, PassHeals
<1>4. ParentIntents' = ParentIntents
  BY <1>2 DEF ParentIntents
<1>5. ASSUME PassHeals(g', s, here) PROVE HealParts'
  BY <1>2, <1>4, <1>5, PassStays
<1>6. ASSUME NEW failed \in BOOLEAN, g' = NextCanonical(failed) PROVE HealParts'
  BY <1>1, <1>3, <1>5, <1>6, NextHeals
<1>7. ASSUME g.pc \in Sweeping, g' = NextRow PROVE HealParts'
  BY <1>1, <1>3, <1>5, <1>7, NextHeals
<1>8. CASE ReadCanonical
  <2> DEFINE a == IF g.stale THEN g.bytes[g.lane] ELSE NoCheck
  <2>1. ASSUME NEW pc \in {"tail", "full"}, g' = [g EXCEPT !.pc = pc, !.text = canon[g.lane], !.anchor = a]
        PROVE  HealParts'
    <3> HIDE DEF a
    <3>1. /\ g'.pc = pc /\ g'.list = g.list /\ g'.bytes = g.bytes /\ g'.closing = g.closing /\ g'.lane = g.lane
          /\ g'.text = canon[g.lane] /\ g'.anchor = a /\ g'.stale = g.stale
      BY <1>1, <2>1 DEF PassType
    <3>2. g.bytes[Parent] \in Nat
      BY <1>1 DEF PassType
    <3>3. g.lane = Parent /\ g.stale => a \in 0..Len(s)
      BY <1>1, <1>3, <3>2 DEF a
    <3>4. g.lane = Parent => g.list[Parent] <= Len(canon[g.lane])
      BY <1>3
    <3>5. PassHeals(g', s, here)
      BY <1>3, <2>1, <3>1, <3>3, <3>4 DEF PassHeals, Sweeping
    <3> QED
      BY <1>5, <3>5
  <2>2. \/ g' = NextCanonical(TRUE)
        \/ g' = [g EXCEPT !.pc = IF CanAppendTail(canon[g.lane]) THEN "tail" ELSE "full", !.text = canon[g.lane], !.anchor = a]
    BY <1>8 DEF ReadCanonical
  <2> HIDE DEF a
  <2>3. (IF CanAppendTail(canon[g.lane]) THEN "tail" ELSE "full") \in {"tail", "full"}
    OBVIOUS
  <2> QED
    BY <1>6, <2>1, <2>2, <2>3
<1>9. CASE VerifyTail
  <2> DEFINE a == IF row[Parent].here THEN row[Parent].bytes ELSE NoCheck
  <2>1. g.pc = "verify" /\ (\/ g' = NextCanonical(FALSE)
                            \/ ~(Len(canon[Parent]) > g.list[Parent]) /\ g' = [g EXCEPT !.pc = "full", !.anchor = a])
    BY <1>9 DEF VerifyTail
  <2>2. CASE ~(Len(canon[Parent]) > g.list[Parent]) /\ g' = [g EXCEPT !.pc = "full", !.anchor = a]
    <3>1. g.lane = Parent /\ here /\ g.list[Parent] <= Len(g.text)
      BY <1>1, <1>3, <2>1 DEF PassHeld, PassHeals
    <3>2. a = row[Parent].bytes /\ a \in 0..Len(s)
      BY <1>3, <3>1 DEF RowWithin
    <3> HIDE DEF a
    <3>3. /\ g'.pc = "full" /\ g'.list = g.list /\ g'.bytes = g.bytes /\ g'.closing = g.closing /\ g'.lane = g.lane
          /\ g'.text = g.text /\ g'.anchor = a /\ g'.stale = g.stale
      BY <1>1, <2>2 DEF PassType
    <3>4. g.list[Parent] \in Nat
      BY <1>1 DEF PassType
    <3>5. a \in 0..Len(g.text)
      BY <1>1, <2>2, <3>1, <3>2, <3>4
    <3>6. PassHeals(g', s, here)
      BY <1>3, <3>1, <3>3, <3>5 DEF PassHeals, Sweeping
    <3> QED
      BY <1>5, <3>6
  <2> QED
    BY <1>6, <2>1, <2>2
<1>10. CASE SweepStat
  <2> DEFINE stat == Len(canon[g.lane])
             list == [g.list EXCEPT ![g.lane] = stat]
  <2>1. g.pc = "stat" /\ (\/ g' = NextRow
                          \/ CoversCanonical(stat) /\ g' = [g EXCEPT !.pc = "count", !.list = list])
    BY <1>10 DEF SweepStat
  <2>2. CASE CoversCanonical(stat) /\ g' = [g EXCEPT !.pc = "count", !.list = list]
    <3>1. g.list \in [Lanes -> Nat] /\ g.lane \in Lanes
      BY <1>1 DEF PassType
    <3>2. list[Parent] <= Len(s) /\ (g.lane = Parent => list[Parent] = Len(s))
      BY <1>1, <1>3, <3>1
    <3> HIDE DEF list
    <3>3. /\ g'.pc = "count" /\ g'.list = list /\ g'.bytes = g.bytes /\ g'.closing = g.closing /\ g'.lane = g.lane
          /\ g'.anchor = g.anchor /\ g'.todo = g.todo
      BY <1>1, <2>2 DEF PassType
    <3>4. g.lane = Parent => g.anchor \in 0..Len(s)
      BY <1>3, <2>1 DEF PassHeals
    <3>5. g.lane = Parent => g.anchor <= list[Parent]
      BY <1>1, <3>2, <3>4
    <3>6. Parent \in g.todo => here
      BY <1>3, <2>1 DEF PassHeals, Sweeping
    <3>7. PassHeals(g', s, here)
      BY <1>3, <3>2, <3>3, <3>4, <3>5, <3>6 DEF PassHeals, Sweeping
    <3> QED
      BY <1>5, <3>7
  <2>3. g.pc \in Sweeping
    BY <2>1 DEF Sweeping
  <2> QED
    BY <1>7, <2>1, <2>2, <2>3
<1>11. CASE SweepRead
  <2>1. g.pc = "count" /\ (\/ g' = NextRow
                           \/ Len(canon[g.lane]) = g.list[g.lane] /\ g' = [g EXCEPT !.pc = "judge", !.text = canon[g.lane]])
    BY <1>11 DEF SweepRead
  <2>2. CASE Len(canon[g.lane]) = g.list[g.lane] /\ g' = [g EXCEPT !.pc = "judge", !.text = canon[g.lane]]
    <3>1. /\ g'.pc = "judge" /\ g'.list = g.list /\ g'.bytes = g.bytes /\ g'.closing = g.closing /\ g'.lane = g.lane
          /\ g'.text = canon[g.lane] /\ g'.anchor = g.anchor /\ g'.todo = g.todo
      BY <1>1, <2>2 DEF PassType
    <3>2. g.lane = Parent => g.anchor \in 0..Len(s)
      BY <1>3, <2>1 DEF PassHeals
    <3>3. Parent \in g.todo => here
      BY <1>3, <2>1 DEF PassHeals, Sweeping
    <3>4. g.lane = Parent => g.list[Parent] = Len(canon[g.lane])
      BY <2>2
    <3>5. g.lane = Parent => g.anchor \in 0..Len(canon[g.lane])
      BY <3>2
    <3>6. PassHeals(g', s, here)
      BY <1>3, <3>1, <3>2, <3>3, <3>4, <3>5 DEF PassHeals, Sweeping
    <3> QED
      BY <1>5, <3>6
  <2>3. g.pc \in Sweeping
    BY <2>1 DEF Sweeping
  <2> QED
    BY <1>7, <2>1, <2>2, <2>3
<1> QED
  BY <1>8, <1>9, <1>10, <1>11

-----------------------------------------------------------------------------
(* A repair of the parent: no commit or queued write moves, and no record that
   was safe ceases to be. *)
LEMMA RepairHeals ==
  ASSUME ArchiveInv, SoundInv, HealInv, Counts, Healthy', UNCHANGED passOnly,
         NEW u, row'[Parent].turns = u, RowWithin(row'[Parent], canon[Parent]),
         ParentIntents' \subseteq ParentIntents, seen'[Parent] = seen[Parent],
         \A r : Safe(r, canon[Parent], row[Parent].turns, ParentIntents) => Safe(r, canon[Parent], u, ParentIntents'),
         PassHeals(g', canon[Parent], row'[Parent].here)
  PROVE  HealParts'
<1> DEFINE s == canon[Parent]
           t == row[Parent].turns
           q == queue[Parent]
           c == commit[Parent]
           left == ParentIntents'
<1>1. HealParts /\ (faults' + crashes' = 0 => faults + crashes = 0)
  BY HealthBefore DEF HealInv
<1>2. UNCHANGED <<canon, commit, queue, reindex, written, resends>>
  BY DEF passOnly
<1> HIDE DEF left
<1>3. Chunks(c, q, seen[Parent], left, written[Parent], resends)
  <2>1. Chunks(c, q, seen[Parent], ParentIntents, written[Parent], resends)
    BY <1>1 DEF HealParts
  <2>2. left \subseteq ParentIntents
    BY DEF left
  <2> QED
    BY <2>1, <2>2, ChunksKept
<1>4. \A r : Safe(r, s, t, ParentIntents) => Safe(r, s, u, left)
  BY DEF left
<1>5. Accounted(s, u, left, c, q)
  <2>1. Accounted(s, t, ParentIntents, c, q)
    BY <1>1 DEF HealParts
  <2> QED
    BY <1>4, <2>1 DEF Accounted
<1>6. faults' + crashes' = 0 => QueueSafe(s, u, left, q)
  <2>1. faults' + crashes' = 0 => QueueSafe(s, t, ParentIntents, q)
    BY <1>1 DEF HealParts
  <2> QED
    BY <1>4, <2>1 DEF QueueSafe
<1>7. \A i \in left : i.bytes \in 1..Len(s)
  BY <1>1 DEF HealParts, left
<1>8. /\ reindex.pc = "idle" /\ (c.pc \in {"read", "put", "intent"} => c.text = c.recs)
      /\ \A j \in 1..Len(q) : Plain(q[j])
  BY <1>1 DEF HealParts
<1> QED
  BY <1>2, <1>3, <1>5, <1>6, <1>7, <1>8 DEF HealParts, left

(* No intent of the parent has the id of a repair. *)
LEMMA RepairsUnnoted ==
  ASSUME ArchiveInv, HealParts
  PROVE  \A i \in ParentIntents : i.chunk # RepairChunk
<1>1. written[Parent] \in Nat /\ MaxRecords \in Nat /\ resends \in Nat
  BY PartsAre, LanesAssumption, BoundAssumption DEF ArchiveInv, IngestTypes, CallTypes
<1>2. \A n : Known(n, written[Parent], resends) => n # RepairChunk
  BY <1>1 DEF Known, RepairChunk
<1> QED
  BY <1>2 DEF HealParts, Chunks

(* A rebuild of the parent from a text that holds whatever its index does. *)
LEMMA WholeHeals ==
  ASSUME ArchiveInv, SoundInv, HealInv, Counts, Healthy', UNCHANGED passOnly,
         NEW in \in InputType, Transact(Parent, in), in.replace, in.chunk = RepairChunk,
         Opens(in.text, canon[Parent]), in.total = Len(in.text), in.object <= Len(in.text),
         Outcome(Parent, in) = "applied" => Range(row[Parent].turns) \subseteq Range(in.text),
         \A here : (row[Parent].here => here) => PassHeals(g', canon[Parent], here)
  PROVE  HealParts'
<1> DEFINE s == canon[Parent]
           t == row[Parent].turns
           open == ParentIntents
           left == ParentIntents'
           text == in.text
<1>1. /\ HealParts /\ HealTypes /\ s \in Text /\ text \in Text /\ RowWithin(row[Parent], s) /\ Len(text) \in Nat
      /\ \A i \in open : i.bytes \in 1..Len(s) /\ i.chunk # RepairChunk
  <2>1. HealParts /\ HealTypes /\ s \in Text /\ text \in Text
    BY HealthBefore, HealPartsAre DEF HealInv, InputType
  <2> QED
    BY <2>1, TextIs, RepairsUnnoted DEF HealParts
<1>2. CASE /\ Outcome(Parent, in) = "applied" /\ row'[Parent].here
           /\ row'[Parent].turns = (IF in.replace THEN << >> ELSE row[Parent].turns) \o Parse(in.text)
           /\ row'[Parent].bytes = Watermark(Parent, in)
           /\ seen'[Parent] = seen[Parent] \cup DedupeKeys(in.chunk)
           /\ ParentIntents' = {i \in ParentIntents : ~(i.chunk = in.chunk \/ (in.replace /\ i.bytes <= in.object))}
  <2> DEFINE u == Parse(text)
  <2>1. u \in Text /\ Range(u) \subseteq Range(text) /\ Range(t) \subseteq Range(text)
    BY <1>1, <1>2, ParseTurns DEF Text
  <2>2. row'[Parent].turns = u
    BY <1>2, <2>1 DEF Text
  <2> HIDE DEF u
  <2>3. seen'[Parent] = seen[Parent]
    BY <1>2 DEF DedupeKeys
  <2>4. left \subseteq open /\ \A i \in open : i \in left \/ i.bytes <= in.object
    BY <1>1, <1>2
  <2>5. \A i \in open : i.bytes \in 1..Len(s) /\ (i \in left \/ i.bytes <= Len(text))
    <3>1. in.object \in Nat /\ in.object <= Len(text)
      BY DEF InputType
    <3> QED
      BY <1>1, <2>4, <3>1
  <2>6. \A r : Safe(r, s, t, open) => Safe(r, s, Parse(text), left)
    <3> HIDE DEF left, open
    <3> TAKE r
    <3> HAVE Safe(r, s, t, open)
    <3> QED
      BY <1>1, <2>1, <2>5, SafeRebuilt
  <2>7. RowWithin(row'[Parent], s)
    <3>1. row'[Parent].bytes = Len(text)
      BY <1>2 DEF Watermark
    <3>2. Range(text) = {s[i] : i \in 1..Len(text)} /\ Len(text) \in 0..Len(s)
      <4>1. Len(text) <= Len(s) /\ Len(s) \in Nat
        BY <1>1, TextIs DEF Opens
      <4> QED
        BY <1>1, <4>1, OpensIs
    <3> QED
      BY <2>1, <2>2, <3>1, <3>2 DEF RowWithin
  <2>8. PassHeals(g', s, row'[Parent].here)
    BY <1>2
  <2> QED
    BY <2>2, <2>3, <2>4, <2>6, <2>7, <2>8, RepairHeals DEF u
<1>3. CASE row' = row /\ seen' = seen /\ ParentIntents' = ParentIntents
  <2>1. PassHeals(g', s, row'[Parent].here)
    BY <1>3
  <2> QED
    BY <1>1, <1>3, <2>1, RepairHeals
<1>4. Outcome(Parent, in) = "duplicate_records" /\ ParentIntents' = {i \in ParentIntents : i.chunk # in.chunk}
      => ParentIntents' = ParentIntents
  BY <1>1
<1> QED
  BY <1>1, <1>2, <1>3, <1>4, ParentTransacts

(* What a repair of the parent starts from. *)
LEMMA RepairStarts ==
  ASSUME ArchiveInv, SoundInv, HealInv, Counts, Healthy'
  PROVE  /\ HealParts /\ HealTypes /\ Healthy /\ ~tomb /\ Parent \in Lanes /\ g \in PassType /\ g.text \in Text /\ PassHeld
         /\ Len(g.text) \in Nat /\ canon[Parent] \in Text /\ Len(canon[Parent]) \in Nat
         /\ row[Parent].turns \in Text /\ row[Parent].bytes \in Nat
         /\ RowWithin(row[Parent], canon[Parent]) /\ PassHeals(g, canon[Parent], row[Parent].here)
         /\ g.pc \in WithText /\ g.lane = Parent => Opens(g.text, canon[Parent])
         /\ \A here : (row[Parent].here => here) => PassHeals(g, canon[Parent], here)
<1>1. /\ HealParts /\ HealTypes /\ Healthy /\ Parent \in Lanes /\ IngestTypes /\ canon[Parent] \in Text
  BY HealthBefore, HealPartsAre DEF HealInv
<1>2. /\ g \in PassType /\ g.text \in Text /\ PassHeld /\ Len(g.text) \in Nat /\ Len(canon[Parent]) \in Nat
      /\ row[Parent].turns \in Text /\ row[Parent].bytes \in Nat
  BY <1>1, PartsAre, TextIs DEF ArchiveInv, IngestTypes
<1>3. ~tomb /\ PassSound
  <2>1. Calm
    BY <1>1 DEF Healthy, Calm
  <2> QED
    BY <2>1, SoundParts DEF Calm
<1>4. RowWithin(row[Parent], canon[Parent]) /\ PassHeals(g, canon[Parent], row[Parent].here)
  BY <1>1 DEF HealParts
<1>5. ASSUME NEW here, row[Parent].here => here PROVE PassHeals(g, canon[Parent], here)
  <2>1. g.list[Parent] \in Nat /\ g.bytes[Parent] \in Nat
    BY <1>1, <1>2 DEF PassType
  <2>2. Opens(canon[Parent], canon[Parent])
    BY <1>1, TextIs DEF Opens
  <2> QED
    BY <1>1, <1>4, <1>5, <2>1, <2>2, PassGrows
<1> QED
  BY <1>1, <1>2, <1>3, <1>4, <1>5 DEF PassSound

LEMMA AppendHeals ==
  ASSUME ArchiveInv, SoundInv, HealInv, AppendTail, Counts, Healthy'
  PROVE  HealParts'
<1> DEFINE s == canon[Parent]
           t == row[Parent].turns
           b == row[Parent].bytes
           n == g.bytes[Parent]
           text == g.text
           tail == TailText
           in == TailInput
           o == Outcome(Parent, in)
<1>1. /\ HealParts /\ HealTypes /\ Parent \in Lanes /\ g \in PassType /\ text \in Text /\ Len(text) \in Nat /\ s \in Text
      /\ Len(s) \in Nat /\ t \in Text /\ b \in Nat /\ RowWithin(row[Parent], s) /\ PassHeals(g, s, row[Parent].here) /\ PassHeld
      /\ \A here : (row[Parent].here => here) => PassHeals(g, s, here)
      /\ \A i \in ParentIntents : i.bytes \in 1..Len(s) /\ i.chunk # RepairChunk
  BY RepairStarts, RepairsUnnoted DEF HealParts
<1>2. g.pc = "tail" /\ Transact(Parent, in) /\ in \in InputType /\ g.lane = Parent /\ 0 < n /\ n < Len(text) /\ n \in Nat
      /\ Opens(text, s)
  <2>1. g.pc = "tail" /\ Transact(Parent, in) /\ in \in InputType
    BY RepairsAre DEF AppendTail
  <2> QED
    BY <1>1, <2>1, RepairStarts DEF PassHeld, PassType, WithText
<1>3. /\ in.chunk = RepairChunk /\ in.text = tail /\ in.total = Len(text) /\ in.replace = FALSE /\ in.expect = n
  BY DEF TailInput
<1>4. tail \in Text /\ Range(tail) \subseteq Range(text)
  <2>1. n + 1 \in 1..Len(text)
    BY <1>1, <1>2
  <2> HIDE DEF n
  <2>2. SubSeq(text, n + 1, Len(text)) \in Text /\ Range(SubSeq(text, n + 1, Len(text))) \subseteq Range(text)
    BY <1>1, <2>1, PartOf DEF Text
  <2> QED
    BY <2>2 DEF TailText, n
<1>5. UNCHANGED passOnly
  BY <1>2 DEF AppendTail, others, Transact, passOnly
<1> HIDE DEF in, tail
<1>6. \/ g' = NextCanonical(FALSE) \/ g' = NextCanonical(TRUE)
      \/ g' = [g EXCEPT !.pc = "full"]
      \/ o = "applied" /\ g' = [g EXCEPT !.pc = "verify"]
  BY DEF AppendTail, in
<1> HIDE DEF o
<1>7. ASSUME NEW here, row[Parent].here => here, o = "applied" => here PROVE PassHeals(g', s, here)
  <2>0. PassHeals(g, s, here) /\ Parent \notin g.closing /\ g.list[Parent] <= Len(s) /\ g.bytes[Parent] <= Len(s)
    BY <1>1, <1>7 DEF PassHeals
  <2>1. CASE g' = NextCanonical(FALSE) \/ g' = NextCanonical(TRUE)
    BY <1>1, <2>0, <2>1, NextHeals
  <2>2. ASSUME NEW pc \in {"full", "verify"}, g' = [g EXCEPT !.pc = pc], pc = "verify" => here PROVE PassHeals(g', s, here)
    <3>1. /\ g'.pc = pc /\ g'.list = g.list /\ g'.bytes = g.bytes /\ g'.closing = g.closing /\ g'.lane = g.lane
          /\ g'.text = g.text /\ g'.anchor = g.anchor /\ g'.stale = g.stale
      BY <1>1, <2>2 DEF PassType
    <3>2. g.list[Parent] <= Len(text) /\ (g.stale => g.anchor \in 0..Len(text))
      BY <1>2, <2>0 DEF PassHeals
    <3> QED
      BY <2>0, <2>2, <3>1, <3>2 DEF PassHeals, Sweeping
  <2> QED
    BY <1>6, <1>7, <2>1, <2>2
<1>8. CASE /\ o = "applied" /\ row'[Parent].here
           /\ row'[Parent].turns = (IF in.replace THEN << >> ELSE row[Parent].turns) \o Parse(in.text)
           /\ row'[Parent].bytes = Watermark(Parent, in)
           /\ seen'[Parent] = seen[Parent] \cup DedupeKeys(in.chunk)
           /\ ParentIntents' = {i \in ParentIntents : ~(i.chunk = in.chunk \/ (in.replace /\ i.bytes <= in.object))}
  <2> DEFINE p == Parse(tail)
             u == t \o p
  <2>1. p \in Text /\ Range(p) \subseteq Range(text)
    BY <1>4, ParseTurns DEF Text
  <2>2. row'[Parent].turns = u
    BY <1>3, <1>8
  <2>3. Range(u) = Range(t) \cup Range(p)
    <3> HIDE DEF p
    <3> QED
      BY <1>1, <2>1, RangesAre DEF Text
  <2> HIDE DEF p, u
  <2>4. seen'[Parent] = seen[Parent] /\ ParentIntents' = ParentIntents
    BY <1>1, <1>3, <1>8 DEF DedupeKeys
  <2>5. \A r : Safe(r, s, t, ParentIntents) => Safe(r, s, u, ParentIntents')
    BY <2>3, <2>4 DEF Safe
  <2>6. b = n
    <3>1. ~IndexAdvanced(Parent, in)
      BY <1>1, <1>2, <1>8, OutcomeApplied DEF o
    <3> QED
      BY <1>2, <1>3, <3>1 DEF IndexAdvanced, NoCheck
  <2>7. row'[Parent].bytes = Len(text)
    <3>1. Watermark(Parent, in) = IF b > in.total THEN b ELSE in.total
      BY <1>3 DEF Watermark
    <3> QED
      BY <1>1, <1>2, <1>3, <1>8, <2>6, <3>1
  <2>8. RowWithin(row'[Parent], s)
    <3>1. Range(text) = {s[i] : i \in 1..Len(text)} /\ Len(text) \in 0..Len(s)
      BY <1>1, <1>2, OpensIs
    <3>2. Range(t) \subseteq {s[i] : i \in 1..b}
      BY <1>1 DEF RowWithin
    <3>3. \A i \in 1..b : i \in 1..Len(text)
      BY <1>1, <1>2, <2>6
    <3>4. Range(u) \subseteq {s[i] : i \in 1..Len(text)}
      BY <2>1, <2>3, <3>1, <3>2, <3>3
    <3> QED
      BY <2>2, <2>7, <3>1, <3>4 DEF RowWithin
  <2>9. PassHeals(g', s, row'[Parent].here)
    BY <1>7, <1>8
  <2> QED
    BY <1>5, <2>2, <2>4, <2>5, <2>8, <2>9, RepairHeals
<1>9. ASSUME o # "applied", row' = row, seen' = seen, ParentIntents' = ParentIntents PROVE HealParts'
  <2>1. PassHeals(g', s, row'[Parent].here)
    BY <1>7, <1>9
  <2> QED
    BY <1>1, <1>5, <1>9, <2>1, RepairHeals
<1>10. CASE o = "duplicate_records" /\ row' = row /\ seen' = seen /\ ParentIntents' = {i \in ParentIntents : i.chunk # in.chunk}
  <2>1. ParentIntents' = ParentIntents
    BY <1>1, <1>3, <1>10
  <2> QED
    BY <1>9, <1>10, <2>1
<1> QED
  BY <1>1, <1>2, <1>8, <1>9, <1>10, ParentTransacts DEF o

LEMMA RebuildHeals ==
  ASSUME ArchiveInv, SoundInv, HealInv, NEW l \in Lanes, RebuildFrom(l), Counts, Healthy', seen' \in [Lanes -> SUBSET Nat]
  PROVE  HealParts'
<1> DEFINE s == canon[Parent]
           in == FullInput
           failed == Outcome(l, in) \in {"session_deleted", "parent_not_indexed"}
<1>1. /\ HealParts /\ HealTypes /\ Parent \in Lanes /\ g \in PassType /\ g.text \in Text /\ Len(g.text) \in Nat /\ s \in Text
      /\ Len(s) \in Nat /\ row[Parent].turns \in Text /\ row[Parent].bytes \in Nat
      /\ RowWithin(row[Parent], s) /\ PassHeals(g, s, row[Parent].here)
      /\ \A here : (row[Parent].here => here) => PassHeals(g, s, here)
  BY RepairStarts
<1>2. g.pc = "full" /\ g.lane = l /\ Transact(l, in) /\ in \in InputType /\ g' = NextCanonical(failed) /\ failed \in BOOLEAN
  BY RepairsAre DEF RebuildFrom
<1>3. /\ in.chunk = RepairChunk /\ in.text = g.text /\ in.total = Len(g.text) /\ in.object = g.list[l] /\ in.replace
      /\ in.recovered /\ in.rebuild = g.stale /\ in.expect = g.anchor
  BY <1>2 DEF FullInput
<1>4. UNCHANGED passOnly
  BY <1>2 DEF RebuildFrom, others, Transact, passOnly
<1> HIDE DEF in, failed
<1>5. \A here : (row[Parent].here => here) => PassHeals(g', s, here)
  BY <1>1, <1>2, NextHeals
<1>6. CASE l # Parent
  <2>1. row'[Parent] = row[Parent] /\ seen'[Parent] = seen[Parent] /\ ParentIntents' = ParentIntents
    BY <1>1, <1>2, <1>6, AgentTransacts
  <2>2. PassHeals(g', s, row[Parent].here)
    BY <1>5
  <2> QED
    BY <1>4, <2>1, <2>2, HealStays DEF passOnly
<1>7. CASE l = Parent
  <2>1. Opens(g.text, s) /\ g.list[Parent] <= Len(g.text) /\ (g.stale => g.anchor \in 0..Len(g.text))
    BY <1>1, <1>2, <1>7, RepairStarts DEF PassHeals, WithText
  <2>2. ASSUME Outcome(Parent, in) = "applied" PROVE Range(row[Parent].turns) \subseteq Range(g.text)
    <3>1. ~RecoveredSkips(Parent, in) /\ ~IndexAdvanced(Parent, in)
      BY <1>1, <1>2, <2>2, OutcomeApplied
    <3>2. CASE g.stale
      <4>1. row[Parent].bytes = g.anchor
        BY <1>1, <1>3, <2>1, <3>1, <3>2 DEF IndexAdvanced, NoCheck
      <4>2. Range(row[Parent].turns) \subseteq {s[i] : i \in 1..g.anchor}
        BY <1>1, <4>1 DEF RowWithin
      <4>3. \A i \in 1..g.anchor : i \in 1..Len(g.text)
        BY <1>1, <2>1, <3>2
      <4>4. Range(g.text) = {s[i] : i \in 1..Len(g.text)}
        BY <1>1, <2>1, OpensIs
      <4> QED
        BY <4>2, <4>3, <4>4
    <3>3. CASE ~g.stale
      <4>1. ~(Len(row[Parent].turns) > 0)
        BY <1>3, <3>1, <3>3 DEF RecoveredSkips, Events
      <4>2. Range(row[Parent].turns) = {}
        BY <1>1, <4>1, TextIs
      <4> QED
        BY <4>2
    <3> QED
      BY <3>2, <3>3
  <2> QED
    BY <1>2, <1>3, <1>4, <1>5, <1>7, <2>1, <2>2, WholeHeals
<1> QED
  BY <1>6, <1>7

LEMMA JudgedHeals ==
  ASSUME ArchiveInv, SoundInv, HealInv, SweepJudge, Counts, Healthy', seen' \in [Lanes -> SUBSET Nat]
  PROVE  HealParts'
<1> DEFINE s == canon[Parent]
           in == CountInput
<1>1. /\ HealParts /\ HealTypes /\ Parent \in Lanes /\ g \in PassType /\ g.lane \in Lanes /\ g.text \in Text /\ Len(g.text) \in Nat
      /\ s \in Text /\ Len(s) \in Nat /\ row[Parent].turns \in Text /\ row[Parent].bytes \in Nat
      /\ RowWithin(row[Parent], s) /\ PassHeals(g, s, row[Parent].here)
      /\ \A here : (row[Parent].here => here) => PassHeals(g, s, here)
  BY RepairStarts DEF PassType
<1>2. /\ g.pc = "judge" /\ g' = NextRow /\ in \in InputType
      /\ \/ UNCHANGED <<pg, faults>>
         \/ Transact(g.lane, in)
  BY RepairsAre DEF SweepJudge
<1>3. /\ in.chunk = RepairChunk /\ in.text = g.text /\ in.total = Len(g.text) /\ in.object = g.list[g.lane] /\ in.replace
      /\ in.expect = g.anchor
  BY DEF CountInput
<1>4. UNCHANGED passOnly
  BY <1>2 DEF SweepJudge, others, Transact, pg, passOnly
<1> HIDE DEF in
<1>5. \A here : (row[Parent].here => here) => PassHeals(g', s, here)
  BY <1>1, <1>2, NextHeals DEF Sweeping
<1>6. CASE UNCHANGED <<pg, faults>>
  <2>1. row' = row /\ seen' = seen /\ ParentIntents' = ParentIntents
    BY <1>6 DEF pg, ParentIntents
  <2>2. PassHeals(g', s, row[Parent].here)
    BY <1>5
  <2> QED
    BY <1>4, <2>1, <2>2, PassStays
<1>7. CASE Transact(g.lane, in) /\ g.lane # Parent
  <2>1. row'[Parent] = row[Parent] /\ seen'[Parent] = seen[Parent] /\ ParentIntents' = ParentIntents
    BY <1>1, <1>2, <1>7, AgentTransacts
  <2>2. PassHeals(g', s, row[Parent].here)
    BY <1>5
  <2> QED
    BY <1>4, <2>1, <2>2, HealStays DEF passOnly
<1>8. CASE Transact(g.lane, in) /\ g.lane = Parent
  <2>1. Opens(g.text, s) /\ g.list[Parent] = Len(g.text) /\ g.anchor \in 0..Len(g.text)
    BY <1>1, <1>2, <1>8, RepairStarts DEF PassHeals, WithText
  <2>2. ASSUME Outcome(Parent, in) = "applied" PROVE Range(row[Parent].turns) \subseteq Range(g.text)
    <3>1. row[Parent].bytes = g.anchor
      <4>1. ~IndexAdvanced(Parent, in)
        BY <1>1, <1>2, <2>2, OutcomeApplied
      <4> QED
        BY <1>1, <1>3, <2>1, <4>1 DEF IndexAdvanced, NoCheck
    <3>2. Range(row[Parent].turns) \subseteq {s[i] : i \in 1..g.anchor}
      BY <1>1, <3>1 DEF RowWithin
    <3>3. \A i \in 1..g.anchor : i \in 1..Len(g.text)
      BY <1>1, <2>1
    <3>4. Range(g.text) = {s[i] : i \in 1..Len(g.text)}
      BY <1>1, <2>1, OpensIs
    <3> QED
      BY <3>2, <3>3, <3>4
  <2>3. in.object <= Len(in.text) /\ in.total = Len(in.text) /\ Opens(in.text, s)
    BY <1>1, <1>3, <1>8, <2>1
  <2> QED
    BY <1>2, <1>3, <1>4, <1>5, <1>8, <2>2, <2>3, WholeHeals
<1> QED
  BY <1>2, <1>6, <1>7, <1>8

-----------------------------------------------------------------------------
LEMMA HealInvInit == Init => HealInv
<1> SUFFICES ASSUME Init PROVE HealInv
  OBVIOUS
<1>1. Parent \in Lanes /\ << >> \in Text /\ Range(<< >>) = {} /\ Len(<< >>) = 0
  BY LanesAssumption, NothingIs
<1>2. /\ canon[Parent] = << >> /\ row[Parent] = NoRow /\ seen[Parent] = {} /\ intents = {} /\ commit[Parent] = NoCommit
      /\ queue[Parent] = << >> /\ reindex = NoReindex /\ g = NoPass
  BY <1>1 DEF Init
<1>3. HealTypes
  BY DEF Init, HealTypes
<1>4. ParentIntents = {} /\ NoCommit.pc = "idle" /\ NoReindex.pc = "idle" /\ NoRow.turns = << >> /\ NoRow.bytes = 0
  BY <1>2 DEF ParentIntents, NoCommit, NoReindex, NoRow
<1>5. Chunks(NoCommit, << >>, {}, {}, written[Parent], resends)
  BY <1>1, <1>4 DEF Chunks
<1>6. Accounted(<< >>, << >>, {}, NoCommit, << >>) /\ QueueSafe(<< >>, << >>, {}, << >>)
  BY <1>1 DEF Accounted, QueueSafe
<1>7. RowWithin(NoRow, << >>)
  BY <1>1, <1>4 DEF RowWithin
<1>8. PassHeals(NoPass, << >>, NoRow.here)
  BY <1>1, NoPassHeals
<1> QED
  BY <1>1, <1>2, <1>3, <1>4, <1>5, <1>6, <1>7, <1>8 DEF HealInv, HealParts

LEMMA DeleteHeals ==
  ASSUME ArchiveInv, SoundInv, HealInv, DeleteCalled \/ DeleteStep, Counts, Healthy', seen' \in [Lanes -> SUBSET Nat]
  PROVE  HealParts'
<1>1. HealParts /\ ~tomb /\ ~tomb' /\ Parent \in Lanes
  BY HealthBefore, HealPartsAre DEF HealInv, Healthy
<1>2. DeleteCalled
  BY <1>1 DEF DeleteStep, MarkSessionDeleted, Tombstoned, PurgeSessionPg, StoreDeleteSession, ArchiveInv, DeleteHeld
<1>3. UNCHANGED <<canon, row, seen, intents, commit, queue, reindex, g, written>>
  BY <1>2 DEF DeleteCalled, pg
<1>4. ParentIntents' = ParentIntents /\ PassHeals(g', canon[Parent], row[Parent].here)
  BY <1>1, <1>3 DEF ParentIntents, HealParts
<1> QED
  BY <1>3, <1>4, HealStays

LEMMA HealInvNext == ArchiveInv /\ SoundInv /\ HealInv /\ [Next]_vars => HealInv'
<1> SUFFICES ASSUME ArchiveInv, SoundInv, HealInv, [Next]_vars PROVE HealInv'
  OBVIOUS
<1>1. HealTypes /\ Counts /\ seen' \in [Lanes -> SUBSET Nat]
  BY StepCounts DEF HealInv
<1>2. HealTypes'
  BY <1>1, HealTypesKept
<1> SUFFICES ASSUME Healthy' PROVE HealParts'
  BY <1>2 DEF HealInv
<1>3. HealParts /\ Healthy /\ reindexes' = reindexes /\ reindexes \in Nat
  BY <1>1, HealthBefore DEF HealInv, ArchiveInv, IngestTypes, CallTypes
<1>4. ASSUME NEW l \in Lanes, Send(l) \/ CommitStep(l) \/ IndexWrite(l) \/ IndexWriteLost(l) PROVE HealParts'
  BY <1>1, <1>4, SendHeals, JudgeHeals, PutHeals, NoteHeals, IndexHeals, LostHeals DEF CommitStep
<1>5. ASSUME NEW l \in Lanes, ReindexStat(l) PROVE HealParts'
  BY <1>3, <1>5 DEF ReindexStat
<1>6. CASE ReindexStep
  BY <1>3, <1>6 DEF ReindexStep, ReindexRead, ReindexApply, HealParts
<1>7. CASE DeleteCalled \/ DeleteStep
  BY <1>1, <1>7, DeleteHeals
<1>8. CASE Pass
  <2>1. CASE ListStore \/ StaleIntents \/ BulkGate
    BY <1>1, <2>1, SelectHeals
  <2>2. CASE PickCanonical \/ HoldBack \/ CheckCanonical \/ SweepRow
    BY <1>1, <2>2, WalkHeals
  <2>3. CASE ReadCanonical \/ VerifyTail \/ SweepStat \/ SweepRead
    BY <1>1, <2>3, ReadsHeal
  <2>4. CASE AppendTail
    BY <1>1, <2>4, AppendHeals
  <2>5. CASE RebuildParent \/ RebuildLane
    BY <1>1, <2>5, RebuildHeals, LanesAssumption DEF RebuildParent, RebuildLane, Agents
  <2>6. CASE SweepJudge
    BY <1>1, <2>6, JudgedHeals
  <2> QED
    BY <1>8, <2>1, <2>2, <2>3, <2>4, <2>5, <2>6 DEF Pass
<1>9. CASE Crash
  BY <1>1, <1>9, CrashHeals
<1>10. CASE UNCHANGED vars
  <2>1. UNCHANGED <<canon, row, seen, intents, commit, queue, reindex, g, written>>
    BY <1>10 DEF vars
  <2>2. ParentIntents' = ParentIntents /\ PassHeals(g', canon[Parent], row[Parent].here)
    BY <1>3, <2>1 DEF ParentIntents, HealParts
  <2> QED
    BY <1>1, <2>1, <2>2, HealStays
<1> QED
  BY <1>4, <1>5, <1>6, <1>7, <1>8, <1>9, <1>10 DEF Next, Step

LEMMA HealHeld == Spec => []HealInv
BY HealInvInit, HealInvNext, ArchiveHeld, SoundHeld, PTL DEF Spec

(* What a failure left out of the index is vouched for by an open intent. *)
LEMMA HealIndexed ==
  ASSUME ArchiveInv, SoundInv, HealInv
  PROVE  OneFailureHeals
<1> SUFFICES ASSUME Healthy, Missing(Parent) # {}, ~UnderWay(Parent)
             PROVE  \E i \in intents : i.lane = Parent
  BY DEF OneFailureHeals, Healthy
<1> DEFINE s == canon[Parent]
           t == row[Parent].turns
<1>1. HealParts /\ s \in Text /\ commit[Parent].pc = "idle" /\ queue[Parent] = << >>
  BY HealPartsAre DEF UnderWay
<1>2. Range(Parse(s)) = Yielded(s)
  BY <1>1, YieldedIs
<1>3. PICK r \in Yielded(s) : r \notin Range(t)
  BY <1>2 DEF Missing
<1>4. r \in Range(s)
  BY DEF Yielded
<1>5. Accounted(s, t, ParentIntents, commit[Parent], queue[Parent])
  BY <1>1 DEF HealParts
<1>6. Len(queue[Parent]) = 0
  BY <1>1
<1>7. Safe(r, s, t, ParentIntents)
  BY <1>1, <1>4, <1>5, <1>6 DEF Accounted
<1> QED
  BY <1>3, <1>7 DEF Safe, ParentIntents

(* What the index of a session misses can still be found - by its number, unless
   a turn the whole canonical would not yield makes that up - one failed call or
   one restart leaves an open chunk intent that forces the repair, and nothing is
   indexed more often than the canonical has it: whatever commits, index writes,
   repairs and the count sweep do to each other (ingest.ts ingestCommit,
   intents.ts recordChunkIntent, reconciler.ts repairs and deepVerifySweep,
   guarantor.ts). *)
THEOREM IndexSoundHolds == Spec => []IndexSound
<1>1. ArchiveInv /\ SoundInv /\ HealInv => IndexSound
  BY SoundIndexed, HealIndexed DEF IndexSound
<1> QED
  BY <1>1, ArchiveHeld, SoundHeld, HealHeld, PTL
=============================================================================
