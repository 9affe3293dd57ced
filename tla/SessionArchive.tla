---------------------------- MODULE SessionArchive ----------------------------
(***************************************************************************)
(* What the vault promises of one session, with no word about chunks,      *)
(* intents, watermarks or passes.  Each lane has a transcript and an index *)
(* over it.  A transcript only grows, unless the client replaces it.  The  *)
(* index of a lane never holds a record that was not uploaded, and may be  *)
(* rebuilt at any time.  Deleting is for ever: from then on transcripts    *)
(* can be erased, and no index ever gains a record.                        *)
(*                                                                         *)
(* One thing deletion does not promise: an upload that was composing when  *)
(* the bucket was purged may put its transcript back.                      *)
(***************************************************************************)
EXTENDS Sequences, SequencesExt

CONSTANTS Lane, Record

VARIABLES
  transcript,  \* [Lane -> Seq(Record)]
  index,       \* [Lane -> SUBSET Record]: the records that can be found
  deleted      \* the session was deleted

archive == <<transcript, index, deleted>>

Empty ==
  /\ transcript = [l \in Lane |-> << >>]
  /\ index = [l \in Lane |-> {}]
  /\ deleted = FALSE

Grow(l) ==
  /\ ~deleted
  /\ \E r \in Record : transcript' = [transcript EXCEPT ![l] = Append(@, r)]
  /\ UNCHANGED <<index, deleted>>

(* The client's whole file takes the place of the transcript; it holds at
   least the records the transcript held. *)
Replace(l) ==
  /\ ~deleted
  /\ \E t \in {transcript'[l]} :
       /\ Range(transcript[l]) \subseteq Range(t)
       /\ transcript' = [transcript EXCEPT ![l] = t]
  /\ UNCHANGED <<index, deleted>>

Reindex(l) ==
  /\ ~deleted
  /\ \E found \in SUBSET Range(transcript[l]) : index' = [index EXCEPT ![l] = found]
  /\ UNCHANGED <<transcript, deleted>>

Delete ==
  /\ deleted' = TRUE
  /\ UNCHANGED <<transcript, index>>

Unindex ==
  /\ deleted
  /\ \E left \in [Lane -> SUBSET Record] :
       (\A l \in Lane : left[l] \subseteq index[l]) /\ index' = left
  /\ UNCHANGED <<transcript, deleted>>

Erase ==
  /\ deleted
  /\ \E gone \in SUBSET Lane :
       transcript' = [l \in Lane |-> IF l \in gone THEN << >> ELSE transcript[l]]
  /\ UNCHANGED <<index, deleted>>

(* An upload in flight at the delete. *)
LateUpload(l) ==
  /\ deleted
  /\ transcript' = [transcript EXCEPT ![l] = transcript'[l]]
  /\ UNCHANGED <<index, deleted>>

Step ==
  \/ \E l \in Lane : Grow(l) \/ Replace(l) \/ Reindex(l) \/ LateUpload(l)
  \/ Delete \/ Unindex \/ Erase

Spec == Empty /\ [][Step]_archive
=============================================================================
