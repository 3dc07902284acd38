------------------------------- MODULE Pipeline ------------------------------
(***************************************************************************)
(* TranscriptionService, NormalizationService and SummarizationService: a  *)
(* run takes one session through the stages it finds it ready for.  The    *)
(* end of a stage starts the next one in a goroutine and returns, so the   *)
(* model lets the same run go on.  Three workers start runs for sessions   *)
(* whose row has not changed for stuckThreshold.                           *)
(***************************************************************************)
EXTENDS SessionRows

CONSTANTS
    Runs     \* goroutines that process a session, at most so many at once

VARIABLES
    rpc,     \* where each run is
    work,    \* the session it works on
    todo,    \* chunks it still has to transcribe
    cur,     \* the chunk whose text it is about to store
    wrote,   \* runs with a positive successCount
    copy,    \* copies of each text in the document it is about to store
    hired    \* runs in the stage a worker called and waits for

local    == <<todo, cur, wrote, copy>>
pipeline == <<rpc, work, local, hired>>

TLabels == {"tget", "tchunks", "tshort", "tloop", "tsave", "tnone",
            "tdone", "tfiles", "tdelete"}
NLabels == {"nget", "ntexts", "nstatus", "nsave", "ndelete"}
SLabels == {"sget", "sgenerate", "sfail", "sstatus", "ssave"}

RunLabels == {"idle"} \cup TLabels \cup NLabels \cup SLabels

PipelineTypeOK ==
    /\ rpc \in [Runs -> RunLabels]
    /\ work \in [Runs -> Sessions \cup {None}]
    /\ todo \in [Runs -> SUBSET Chunks]
    /\ cur \in [Runs -> Chunks \cup {None}]
    /\ wrote \subseteq Runs
    /\ copy \in [Runs -> [Chunks -> 0..MaxCopies]]
    /\ hired \subseteq Runs

NoCopy == [c \in Chunks |-> 0]

PipelineInit ==
    /\ rpc = [p \in Runs |-> "idle"]
    /\ work = [p \in Runs |-> None]
    /\ todo = [p \in Runs |-> {}]
    /\ cur = [p \in Runs |-> None]
    /\ wrote = {}
    /\ copy = [p \in Runs |-> NoCopy]
    /\ hired = {}

RunAt(p, label) == rpc' = [rpc EXCEPT ![p] = label]

Begin(p, s, label) ==
    /\ rpc[p] = "idle"
    /\ RunAt(p, label)
    /\ work' = [work EXCEPT ![p] = s]
    /\ UNCHANGED local

(* A run that returns forgets its local variables.                         *)
Return(p) ==
    /\ RunAt(p, "idle")
    /\ work' = [work EXCEPT ![p] = None]
    /\ todo' = [todo EXCEPT ![p] = {}]
    /\ cur' = [cur EXCEPT ![p] = None]
    /\ wrote' = wrote \ {p}
    /\ copy' = [copy EXCEPT ![p] = NoCopy]
    /\ hired' = hired \ {p}

(* The read of a stage: the run goes on, or returns.                       *)
Proceed(p, cond, label) ==
    IF cond THEN RunAt(p, label) /\ UNCHANGED <<work, local, hired>>
            ELSE Return(p)

(* The end of a stage: the next one starts, whoever called this returns.   *)
StartNext(p, label) ==
    /\ RunAt(p, label)
    /\ hired' = hired \ {p}
    /\ UNCHANGED <<work, local>>

(***************************************************************************)
(* The workers' tick: FindStuck and, for the later stages, the test that   *)
(* the result is not there already.  A worker's loop takes one session at  *)
(* a time; the transcription worker has a second loop for its first tick.  *)
(***************************************************************************)
Hire(p, s, label, stage, loops) ==
    /\ s \in old
    /\ Cardinality({q \in hired : rpc[q] \in stage}) < loops
    /\ Begin(p, s, label)
    /\ hired' = hired \cup {p}
    /\ UNCHANGED store

(* A slip: the worker looks for sessions at the wrong stage.               *)
TickTranscriptionStarted(p, s) ==
    /\ status[s] = "STARTED"
    /\ Hire(p, s, "tget", TLabels, 2)

TickTranscription(p, s) ==
    /\ status[s] = "CAPTURED"
    /\ Hire(p, s, "tget", TLabels, 2)

(* The same slip for the normalization worker.                             *)
TickNormalizationNormalized(p, s) ==
    /\ status[s] = "NORMALIZED"
    /\ Doc(s) = {}
    /\ Hire(p, s, "nget", NLabels, 1)

TickNormalization(p, s) ==
    /\ status[s] = "TRANSCRIBED"
    /\ Doc(s) = {}
    /\ Hire(p, s, "nget", NLabels, 1)

TickSummarization(p, s) ==
    /\ status[s] = "NORMALIZED"
    /\ s \notin summarized
    /\ Hire(p, s, "sget", SLabels, 1)

Tick(p, s) == TickTranscription(p, s) \/ TickNormalization(p, s)
              \/ TickSummarization(p, s)

(***************************************************************************)
(* TranscriptionService.ProcessSession.                                    *)
(***************************************************************************)
TGet(p) ==
    /\ rpc[p] = "tget"
    /\ \E ok \in BOOLEAN :
         Db(ok) /\ Proceed(p, ok /\ status[work[p]] = "CAPTURED", "tchunks")
    /\ UNCHANGED <<rows, disk>>

(* Two chunks or fewer are not enough.                                     *)
TChunks(p) ==
    LET mine == chunks \cap ChunksOf(work[p]) IN
    /\ rpc[p] = "tchunks"
    /\ \E ok \in BOOLEAN :
         /\ Db(ok)
         /\ IF ok
            THEN /\ RunAt(p, IF Cardinality(mine) <= 2 THEN "tshort" ELSE "tloop")
                 /\ todo' = [todo EXCEPT ![p] = mine]
                 /\ UNCHANGED <<work, cur, wrote, copy, hired>>
            ELSE Return(p)
    /\ UNCHANGED <<rows, disk>>

(* Too few chunks, or no text in any of them: the error is stored with the *)
(* status CAPTURED.                                                        *)
TGiveUp(p) ==
    /\ rpc[p] \in {"tshort", "tnone"}
    /\ \E ok \in BOOLEAN : UpdateStatus(ok, work[p], "CAPTURED", TRUE)
    /\ Return(p)
    /\ UNCHANGED <<summarized, chunks, texts, doc, disk>>

(* A slip: a chunk that was transcribed stays on the list.                 *)
TWhisperAgain(p, c) ==
    /\ rpc[p] = "tloop"
    /\ c \in todo[p]
    /\ \/ todo' = [todo EXCEPT ![p] = @ \ {c}] /\ UNCHANGED <<rpc, cur>>
       \/ /\ audio[Path(c)] # None
          /\ RunAt(p, "tsave")
          /\ cur' = [cur EXCEPT ![p] = c]
          /\ UNCHANGED todo
    /\ UNCHANGED <<store, work, wrote, copy, hired>>

(* Whisper may fail on a file or find no words in it.                      *)
TWhisper(p, c) ==
    /\ rpc[p] = "tloop"
    /\ c \in todo[p]
    /\ todo' = [todo EXCEPT ![p] = @ \ {c}]
    /\ \/ UNCHANGED <<rpc, cur>>
       \/ /\ audio[Path(c)] # None
          /\ RunAt(p, "tsave")
          /\ cur' = [cur EXCEPT ![p] = c]
    /\ UNCHANGED <<store, work, wrote, copy, hired>>

(* A transcript row needs its session.                                     *)
TSave(p) ==
    LET c == cur[p] IN
    /\ rpc[p] = "tsave"
    /\ \E ok \in BOOLEAN :
         /\ Db(ok)
         /\ IF ok /\ status[work[p]] # "none"
            THEN /\ texts' = [texts EXCEPT ![c] =
                                IF @ < MaxCopies THEN @ + 1 ELSE @]
                 /\ wrote' = wrote \cup {p}
            ELSE UNCHANGED <<texts, wrote>>
    /\ RunAt(p, "tloop")
    /\ cur' = [cur EXCEPT ![p] = None]
    /\ UNCHANGED <<columns, chunks, doc, disk, work, todo, copy, hired>>

(* A slip: successCount is not looked at.                                  *)
TLoopEndsUnchecked(p) ==
    /\ rpc[p] = "tloop"
    /\ todo[p] = {}
    /\ RunAt(p, "tdone")
    /\ UNCHANGED <<store, work, local, hired>>

TLoopEnds(p) ==
    /\ rpc[p] = "tloop"
    /\ todo[p] = {}
    /\ RunAt(p, IF p \in wrote THEN "tdone" ELSE "tnone")
    /\ UNCHANGED <<store, work, local, hired>>

(* A slip: the files go although the status could not be stored.           *)
TDoneIgnoresError(p) ==
    /\ rpc[p] = "tdone"
    /\ \E ok \in BOOLEAN : UpdateStatus(ok, work[p], "TRANSCRIBED", FALSE)
    /\ RunAt(p, "tfiles")
    /\ UNCHANGED <<summarized, chunks, texts, doc, disk, work, local, hired>>

TDone(p) ==
    /\ rpc[p] = "tdone"
    /\ \E ok \in BOOLEAN :
         /\ UpdateStatus(ok, work[p], "TRANSCRIBED", FALSE)
         /\ Proceed(p, ok, "tfiles")
    /\ UNCHANGED <<summarized, chunks, texts, doc, disk>>

TFiles(p) ==
    /\ rpc[p] = "tfiles"
    /\ RemoveAll(work[p])
    /\ RunAt(p, "tdelete")
    /\ UNCHANGED <<rows, faults, work, local, hired>>

TDelete(p) ==
    /\ rpc[p] = "tdelete"
    /\ \E ok \in BOOLEAN : Db(ok) /\ DeleteChunkRows(ok, work[p])
    /\ StartNext(p, "nget")
    /\ UNCHANGED <<columns, texts, doc, disk>>

(***************************************************************************)
(* NormalizationService.ProcessSession: the document is made of all texts  *)
(* of the session.                                                         *)
(***************************************************************************)
NGet(p) ==
    /\ rpc[p] = "nget"
    /\ \E ok \in BOOLEAN :
         Db(ok) /\ Proceed(p, ok /\ status[work[p]] = "TRANSCRIBED", "ntexts")
    /\ UNCHANGED <<rows, disk>>

NTexts(p) ==
    LET s == work[p] IN
    /\ rpc[p] = "ntexts"
    /\ \E ok \in BOOLEAN :
         /\ Db(ok)
         /\ IF ok /\ Texts(s) # {}
            THEN /\ RunAt(p, "nstatus")
                 /\ copy' = [copy EXCEPT ![p] =
                      [c \in Chunks |-> IF c \in ChunksOf(s) THEN texts[c] ELSE 0]]
                 /\ UNCHANGED <<work, todo, cur, wrote, hired>>
            ELSE Return(p)
    /\ UNCHANGED <<rows, disk>>

NStatus(p) ==
    /\ rpc[p] = "nstatus"
    /\ \E ok \in BOOLEAN :
         /\ UpdateStatus(ok, work[p], "NORMALIZED", FALSE)
         /\ Proceed(p, ok, "nsave")
    /\ UNCHANGED <<summarized, chunks, texts, doc, disk>>

(* A slip: the texts go although the document could not be stored.         *)
NSaveIgnoresError(p) ==
    /\ rpc[p] = "nsave"
    /\ \E ok \in BOOLEAN :
         /\ Db(ok)
         /\ doc' = IF ok THEN [c \in Chunks |-> IF c \in ChunksOf(work[p])
                                                THEN copy[p][c] ELSE doc[c]]
                          ELSE doc
    /\ RunAt(p, "ndelete")
    /\ UNCHANGED <<columns, chunks, texts, disk, work, local, hired>>

NSave(p) ==
    LET s == work[p] IN
    /\ rpc[p] = "nsave"
    /\ \E ok \in BOOLEAN :
         /\ Db(ok)
         /\ IF ok /\ status[s] # "none"
            THEN /\ doc' = [c \in Chunks |-> IF c \in ChunksOf(s)
                                             THEN copy[p][c] ELSE doc[c]]
                 /\ old' = old \ {s}
            ELSE UNCHANGED <<doc, old>>
         /\ Proceed(p, ok, "ndelete")
    /\ UNCHANGED <<status, err, summarized, chunks, texts, disk>>

NDelete(p) ==
    /\ rpc[p] = "ndelete"
    /\ \E ok \in BOOLEAN : Db(ok) /\ DeleteTextRows(ok, work[p])
    /\ StartNext(p, "sget")
    /\ UNCHANGED <<columns, chunks, doc, disk>>

(***************************************************************************)
(* SummarizationService.ProcessSummarization.                              *)
(***************************************************************************)
SGet(p) ==
    LET s == work[p] IN
    /\ rpc[p] = "sget"
    /\ \E ok \in BOOLEAN :
         /\ Db(ok)
         /\ Proceed(p, ok /\ status[s] = "NORMALIZED" /\ Doc(s) # {}, "sgenerate")
    /\ UNCHANGED <<rows, disk>>

(* OpenRouter answers or, retries included, does not.                      *)
SGenerate(p) ==
    /\ rpc[p] = "sgenerate"
    /\ RunAt(p, "sstatus") \/ RunAt(p, "sfail")
    /\ UNCHANGED <<store, work, local, hired>>

(* A slip: the error of one stage is stored with the status of another.    *)
SFailCaptured(p) ==
    /\ rpc[p] = "sfail"
    /\ \E ok \in BOOLEAN : UpdateStatus(ok, work[p], "CAPTURED", TRUE)
    /\ Return(p)
    /\ UNCHANGED <<summarized, chunks, texts, doc, disk>>

SFail(p) ==
    /\ rpc[p] = "sfail"
    /\ \E ok \in BOOLEAN : UpdateStatus(ok, work[p], "NORMALIZED", TRUE)
    /\ Return(p)
    /\ UNCHANGED <<summarized, chunks, texts, doc, disk>>

SStatus(p) ==
    /\ rpc[p] = "sstatus"
    /\ \E ok \in BOOLEAN :
         /\ UpdateStatus(ok, work[p], "SUMMARIZED", FALSE)
         /\ Proceed(p, ok, "ssave")
    /\ UNCHANGED <<summarized, chunks, texts, doc, disk>>

(* The e-mail that follows leaves no trace.                                *)
SSave(p) ==
    LET s == work[p] IN
    /\ rpc[p] = "ssave"
    /\ \E ok \in BOOLEAN :
         /\ Db(ok)
         /\ IF ok /\ status[s] # "none"
            THEN summarized' = summarized \cup {s} /\ old' = old \ {s}
            ELSE UNCHANGED <<summarized, old>>
    /\ Return(p)
    /\ UNCHANGED <<status, err, chunks, texts, doc, disk>>

TStep(p) == TGet(p) \/ TChunks(p) \/ TGiveUp(p) \/ TSave(p) \/ TLoopEnds(p)
            \/ TDone(p) \/ TFiles(p) \/ TDelete(p)
            \/ (\E c \in Chunks : TWhisper(p, c))

NStep(p) == NGet(p) \/ NTexts(p) \/ NStatus(p) \/ NSave(p) \/ NDelete(p)

SStep(p) == SGet(p) \/ SGenerate(p) \/ SFail(p) \/ SStatus(p) \/ SSave(p)

RunStep(p) == TStep(p) \/ NStep(p) \/ SStep(p)
=============================================================================
