---------------------------- MODULE SessionRows ------------------------------
(***************************************************************************)
(* What the summarizer keeps of a session: its row and those of its audio  *)
(* chunks and transcripts in Postgres, and its audio files on disk.        *)
(*                                                                         *)
(* A chunk is the i-th one of a track.  Its file is named after the        *)
(* participant's identity, not after the track, so two tracks of one       *)
(* participant share their file names.                                     *)
(***************************************************************************)
EXTENDS Naturals, FiniteSets

CONSTANTS
    Sessions, Tracks, Users, None,
    SessionOf,   \* [Tracks -> Sessions], the session whose bot hears a track
    UserOf,      \* [Tracks -> Users], the identity of its participant
    MaxIndex,    \* a track is rotated at most this often
    MaxFaults    \* the database refuses at most this many commands

Chunks == Tracks \X (0..MaxIndex)

(* A text is counted at most this often.                                   *)
MaxCopies == 3

Stages == {"STARTED", "CAPTURED", "TRANSCRIBED", "NORMALIZED", "SUMMARIZED"}

ASSUME RowsAssumption ==
    /\ SessionOf \in [Tracks -> Sessions]
    /\ UserOf \in [Tracks -> Users]
    /\ MaxIndex \in Nat /\ MaxFaults \in Nat
    /\ None \notin Sessions \cup Tracks \cup Chunks

VARIABLES
    status,      \* status column of each session, "none" without a row
    err,         \* sessions whose error column is set
    old,         \* sessions whose row is older than stuckThreshold
    chunks,      \* rows of audio_chunks
    texts,       \* rows of transcripts: how many each chunk has
    doc,         \* how often a chunk's text is in the transcript column
    summarized,  \* sessions whose summary column is set
    audio,       \* which track's sound each file holds, None without a file
    dirs,        \* directories of participants
    faults

columns == <<status, err, old, summarized>>
rows    == <<columns, chunks, texts, doc>>
disk    == <<audio, dirs>>
store   == <<rows, disk, faults>>

Dir(t) == <<SessionOf[t], UserOf[t]>>

Path(c) == <<SessionOf[c[1]], UserOf[c[1]], c[2]>>

ChunksOf(s) == {c \in Chunks : SessionOf[c[1]] = s}

Texts(s) == {c \in ChunksOf(s) : texts[c] > 0}

Doc(s) == {c \in ChunksOf(s) : doc[c] > 0}

StoreTypeOK ==
    /\ status \in [Sessions -> Stages \cup {"none"}]
    /\ err \subseteq Sessions
    /\ old \subseteq Sessions
    /\ chunks \subseteq Chunks
    /\ texts \in [Chunks -> 0..MaxCopies]
    /\ doc \in [Chunks -> 0..MaxCopies]
    /\ summarized \subseteq Sessions
    /\ audio \in [Sessions \X Users \X (0..MaxIndex) -> Tracks \cup {None}]
    /\ dirs \subseteq Sessions \X Users
    /\ faults \in 0..MaxFaults

StoreInit ==
    /\ status = [s \in Sessions |-> "none"]
    /\ err = {}
    /\ old = {}
    /\ chunks = {}
    /\ texts = [c \in Chunks |-> 0]
    /\ doc = [c \in Chunks |-> 0]
    /\ summarized = {}
    /\ audio = [f \in Sessions \X Users \X (0..MaxIndex) |-> None]
    /\ dirs = {}
    /\ faults = 0

(* A command succeeds or is refused.                                       *)
Db(ok) ==
    \/ ok /\ faults' = faults
    \/ ~ok /\ faults < MaxFaults /\ faults' = faults + 1

(* UpdateStatus: no condition on the status the row has, no row is no      *)
(* error, and an error once set is never cleared.                          *)
UpdateStatus(ok, s, st, failed) ==
    /\ Db(ok)
    /\ IF ok /\ status[s] # "none"
       THEN /\ status' = [status EXCEPT ![s] = st]
            /\ err' = IF failed THEN err \cup {s} ELSE err
            /\ old' = old \ {s}
       ELSE UNCHANGED <<status, err, old>>

(* os.RemoveAll of the session's directory.                                *)
RemoveAll(s) ==
    /\ audio' = [f \in DOMAIN audio |-> IF f[1] = s THEN None ELSE audio[f]]
    /\ dirs' = {d \in dirs : d[1] # s}

(* DELETE of the session's rows in one of the two tables.                  *)
DeleteChunkRows(ok, s) ==
    chunks' = IF ok THEN chunks \ ChunksOf(s) ELSE chunks

DeleteTextRows(ok, s) ==
    texts' = IF ok THEN [c \in Chunks |-> IF c \in ChunksOf(s) THEN 0 ELSE texts[c]]
                   ELSE texts
=============================================================================
