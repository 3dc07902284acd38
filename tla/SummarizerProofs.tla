--------------------------- MODULE SummarizerProofs --------------------------
(***************************************************************************)
(* Theorems about the summarizer, for every number of sessions, tracks,    *)
(* stops, runs and deletes, refused commands and crashes.                  *)
(***************************************************************************)
EXTENDS SummarizerProperties, TLAPS

USE RowsAssumption, CaptureAssumption, SummarizerAssumption
USE DEF columns, rows, disk, store, tracks, bot, capture, local, pipeline

-----------------------------------------------------------------------------
(* Types.                                                                  *)

(* A stop that has found a session knows it.                               *)
Found == \A st \in Stops :
    hpc[st] \in {"check", "room", "wait", "update", "count"} => target[st] \in Sessions

(* A chunk is only rotated if there may be another one.                    *)
Rotating == \A t \in Tracks : tpc[t] = "rotate" => idx[t] < MaxIndex

(* A run that is at work has a session, and a text to store a chunk.       *)
Assigned == \A p \in Runs :
    /\ rpc[p] # "idle" => work[p] \in Sessions
    /\ rpc[p] = "tsave" => cur[p] \in Chunks

TypeInv == TypeOK /\ Found /\ Rotating /\ Assigned

(* The variables of the two components and of the deletes.                 *)
CaptureInv  == StoreTypeOK /\ CaptureTypeOK /\ Found /\ Rotating
PipelineInv == StoreTypeOK /\ PipelineTypeOK /\ Assigned

(* The initial state is well typed.                                        *)
LEMMA InitType == Init => TypeInv
  BY DEF Init, TypeInv, TypeOK, Found, Rotating, Assigned, StoreInit,
         CaptureInit, PipelineInit, StoreTypeOK, CaptureTypeOK, PipelineTypeOK,
         Stages, StartLabels, StopLabels, TrackLabels, RunLabels, MaxCopies, NoCopy

(* A chunk of a track has a path on disk, its track a directory.           *)
LEMMA PathType ==
  ASSUME NEW t \in Tracks, NEW i \in 0..MaxIndex
  PROVE  /\ <<t, i>> \in Chunks
         /\ Path(<<t, i>>) \in Sessions \X Users \X (0..MaxIndex)
         /\ Dir(t) \in Sessions \X Users
  BY DEF Chunks, Path, Dir

(* A command that the database takes or refuses keeps the count typed.     *)
LEMMA DbType ==
  ASSUME StoreTypeOK, NEW ok \in BOOLEAN, Db(ok)
  PROVE  faults' \in 0..MaxFaults
  BY DEF StoreTypeOK, Db

(* UpdateStatus keeps the columns it writes typed.                         *)
LEMMA UpdateStatusType ==
  ASSUME StoreTypeOK, NEW ok \in BOOLEAN, NEW s \in Sessions,
         NEW st \in Stages, NEW failed \in BOOLEAN,
         UpdateStatus(ok, s, st, failed)
  PROVE  /\ status' \in [Sessions -> Stages \cup {"none"}]
         /\ err' \subseteq Sessions /\ old' \subseteq Sessions
         /\ faults' \in 0..MaxFaults
  BY DbType DEF StoreTypeOK, UpdateStatus

(* So do the deletions of rows and of files.                               *)
LEMMA DeleteType ==
  ASSUME StoreTypeOK, NEW ok \in BOOLEAN, NEW s \in Sessions
  PROVE  /\ DeleteChunkRows(ok, s) => chunks' \subseteq Chunks
         /\ DeleteTextRows(ok, s) => texts' \in [Chunks -> 0..MaxCopies]
         /\ RemoveAll(s) =>
              /\ audio' \in [Sessions \X Users \X (0..MaxIndex) -> Tracks \cup {None}]
              /\ dirs' \subseteq Sessions \X Users
  BY DEF StoreTypeOK, DeleteChunkRows, DeleteTextRows, RemoveAll, MaxCopies
(* StartSummarizer keeps its component well typed.                         *)
LEMMA StartType ==
  ASSUME CaptureInv, NEW s \in Sessions, StartCheck(s) \/ StartStep(s)
  PROVE  CaptureInv'
<1> USE DEF CaptureInv, StoreTypeOK, CaptureTypeOK, Found, Rotating, StartLabels,
            StopLabels, TrackLabels, HandlerAt, TrackAt, Leave, Stages
<1>1. CASE StartCheck(s)
  BY <1>1, DbType DEF StartCheck
<1>2. CASE StartCreate(s)
  BY <1>2, DbType DEF StartCreate
<1>3. CASE JoinConnect(s)
  BY <1>3 DEF JoinConnect
<1>4. CASE JoinStore(s)
  BY <1>4 DEF JoinStore
<1>5. CASE JoinFailed(s)
  BY <1>5, UpdateStatusType DEF JoinFailed
<1> QED BY <1>1, <1>2, <1>3, <1>4, <1>5 DEF StartStep

(* handleAudioTrack keeps its component well typed.                        *)
LEMMA TrackType ==
  ASSUME CaptureInv, NEW t \in Tracks,
         Subscribe(t) \/ TrackPacket(t) \/ TrackEof(t) \/ TrackStep(t)
  PROVE  CaptureInv'
<1> USE DEF CaptureInv, StoreTypeOK, CaptureTypeOK, Found, Rotating, StartLabels,
            StopLabels, TrackLabels, HandlerAt, TrackAt, Leave, Stages
<1>1. CASE Subscribe(t)
  BY <1>1 DEF Subscribe
<1>2. CASE TrackPacket(t)
  BY <1>2 DEF TrackPacket
<1>3. CASE TrackEof(t)
  BY <1>3 DEF TrackEof
<1>4. CASE TrackMkdir(t)
  BY <1>4, PathType DEF TrackMkdir
<1>5. CASE TrackOpen(t)
  <2>1. idx[t] \in 0..MaxIndex /\ Path(<<t, idx[t]>>) \in DOMAIN audio
    BY PathType
  <2>2. audio' \in [Sessions \X Users \X (0..MaxIndex) -> Tracks \cup {None}]
    <3>1. audio' = [audio EXCEPT ![Path(<<t, idx[t]>>)] = t] \/ audio' = audio
      BY <1>5 DEF TrackOpen
    <3> HIDE DEF CaptureTypeOK
    <3> QED BY <2>1, <3>1
  <2> QED BY <1>5, <2>2 DEF TrackOpen
<1>6. CASE TrackSave(t)
  <2>1. PICK ok \in BOOLEAN :
          /\ IF t \in heard THEN Db(ok) ELSE ok /\ UNCHANGED faults
          /\ IF t \in heard /\ ok /\ status[SessionOf[t]] # "none"
             THEN chunks' = chunks \cup {<<t, idx[t]>>} ELSE UNCHANGED chunks
    BY <1>6 DEF TrackSave
  <2>2. faults' \in 0..MaxFaults
    BY <2>1, DbType
  <2>4. chunks' \subseteq Chunks
    <3>1. idx[t] \in 0..MaxIndex
      OBVIOUS
    <3>2. <<t, idx[t]>> \in Chunks
      BY <3>1, PathType
    <3> QED BY <2>1, <3>2
  <2>3. idx' \in [Tracks -> 0..MaxIndex] /\ Rotating'
    BY <1>6 DEF TrackSave
  <2> QED BY <1>6, <2>2, <2>3, <2>4 DEF TrackSave
<1> QED BY <1>1, <1>2, <1>3, <1>4, <1>5, <1>6 DEF TrackStep

(* StopSummarizer keeps its component well typed.                          *)
LEMMA StopType ==
  ASSUME CaptureInv, NEW st \in Stops,
         StopFind(st) \/ StopStep(st) \/ (\E ok \in BOOLEAN : StopCount(st, ok))
  PROVE  CaptureInv'
<1> USE DEF CaptureInv, StoreTypeOK, CaptureTypeOK, Found, Rotating, StartLabels,
            StopLabels, TrackLabels, HandlerAt, TrackAt, Leave, Stages
<1>1. CASE StopFind(st)
  <2>1. CASE \E s \in Active(MeetingOf[st]) :
               /\ target' = [target EXCEPT ![st] = s]
               /\ HandlerAt(st, "check")
               /\ UNCHANGED faults
    BY <1>1, <2>1 DEF StopFind, Active
  <2>2. CASE /\ Db(FALSE) \/ Db(TRUE)
             /\ Leave(st)
             /\ UNCHANGED target
    BY <1>1, <2>2, DbType DEF StopFind
  <2> QED BY <1>1, <2>1, <2>2 DEF StopFind
<1>2. CASE StopCheck(st)
  BY <1>2, DbType DEF StopCheck
<1>3. CASE StopRoom(st)
  BY <1>3 DEF StopRoom
<1>4. CASE StopWait(st)
  BY <1>4 DEF StopWait
<1>5. CASE StopUpdate(st)
  BY <1>5, UpdateStatusType DEF StopUpdate
<1>6. CASE EndRoom(st)
  BY <1>6 DEF EndRoom
<1>7. CASE \E ok \in BOOLEAN : StopCount(st, ok)
  BY <1>7, DbType DEF StopCount
<1> QED BY <1>1, <1>2, <1>3, <1>4, <1>5, <1>6, <1>7 DEF StopStep

(* A run that returns keeps the runs well typed.                           *)
LEMMA ReturnType ==
  ASSUME PipelineTypeOK, Assigned, NEW p \in Runs, Return(p)
  PROVE  PipelineTypeOK' /\ Assigned'
<1>1. copy' \in [Runs -> [Chunks -> 0..MaxCopies]]
  BY DEF PipelineTypeOK, Return, NoCopy, MaxCopies
<1>2. todo' \in [Runs -> SUBSET Chunks]
  BY DEF PipelineTypeOK, Return
<1> QED BY <1>1, <1>2 DEF PipelineTypeOK, Assigned, Return, RunAt, RunLabels

(* So does one that goes on to a place other than the storing of a text.   *)
LEMMA MoveType ==
  ASSUME PipelineTypeOK, Assigned, NEW p \in Runs, rpc[p] # "idle",
         NEW label \in RunLabels \ {"tsave"}, RunAt(p, label),
         UNCHANGED <<work, cur>>, todo' \in [Runs -> SUBSET Chunks],
         wrote' \subseteq Runs, copy' \in [Runs -> [Chunks -> 0..MaxCopies]],
         hired' \subseteq Runs
  PROVE  PipelineTypeOK' /\ Assigned'
  BY DEF PipelineTypeOK, Assigned, RunAt

(* And one that goes on or returns, as a condition tells.                  *)
LEMMA ProceedType ==
  ASSUME PipelineTypeOK, Assigned, NEW p \in Runs, rpc[p] # "idle",
         NEW label \in RunLabels \ {"tsave"}, NEW cond, Proceed(p, cond, label)
  PROVE  PipelineTypeOK' /\ Assigned'
  BY ReturnType, MoveType DEF Proceed, PipelineTypeOK

(* And one that starts the next stage.                                     *)
LEMMA StartNextType ==
  ASSUME PipelineTypeOK, Assigned, NEW p \in Runs, rpc[p] # "idle",
         NEW label \in RunLabels \ {"tsave"}, StartNext(p, label)
  PROVE  PipelineTypeOK' /\ Assigned'
  BY MoveType DEF StartNext, PipelineTypeOK
(* The transcription keeps its component well typed.                       *)
LEMMA TranscriptionType ==
  ASSUME PipelineInv, NEW p \in Runs, TStep(p)
  PROVE  PipelineInv'
<1> USE DEF PipelineInv, RunLabels, TLabels, NLabels, SLabels
<1>1. CASE TGet(p)
  <2>1. StoreTypeOK'
    BY <1>1, DbType DEF TGet, StoreTypeOK
  <2>2. PipelineTypeOK' /\ Assigned'
    BY <1>1, ProceedType DEF TGet
  <2> QED BY <2>1, <2>2
<1>2. CASE TChunks(p)
  <2>1. StoreTypeOK'
    BY <1>2, DbType DEF TChunks, StoreTypeOK
  <2>2. PipelineTypeOK' /\ Assigned'
    <3>1. CASE \E label \in {"tshort", "tloop"} :
                 /\ RunAt(p, label)
                 /\ todo' = [todo EXCEPT ![p] = chunks \cap ChunksOf(work[p])]
                 /\ UNCHANGED <<work, cur, wrote, copy, hired>>
      <4>1. todo' \in [Runs -> SUBSET Chunks]
        BY <3>1 DEF PipelineTypeOK, StoreTypeOK
      <4> QED BY <1>2, <3>1, <4>1, MoveType DEF TChunks, PipelineTypeOK
    <3>2. CASE Return(p)
      BY <3>2, ReturnType
    <3> QED BY <1>2, <3>1, <3>2 DEF TChunks
  <2> QED BY <2>1, <2>2
<1>3. CASE TGiveUp(p)
  <2>1. StoreTypeOK'
    BY <1>3, UpdateStatusType DEF TGiveUp, StoreTypeOK, Assigned, Stages
  <2>2. PipelineTypeOK' /\ Assigned'
    BY <1>3, ReturnType DEF TGiveUp
  <2> QED BY <2>1, <2>2
<1>4. CASE TSave(p)
  <2>1. StoreTypeOK'
    BY <1>4, DbType DEF TSave, StoreTypeOK, MaxCopies
  <2>2. PipelineTypeOK' /\ Assigned'
    BY <1>4 DEF TSave, PipelineTypeOK, Assigned, RunAt
  <2> QED BY <2>1, <2>2
<1>5. CASE TLoopEnds(p)
  <2>1. StoreTypeOK'
    BY <1>5 DEF TLoopEnds, StoreTypeOK
  <2>2. PipelineTypeOK' /\ Assigned'
    BY <1>5, MoveType DEF TLoopEnds, PipelineTypeOK
  <2> QED BY <2>1, <2>2
<1>6. CASE TDone(p)
  <2>1. StoreTypeOK'
    BY <1>6, UpdateStatusType DEF TDone, StoreTypeOK, Assigned, Stages
  <2>2. PipelineTypeOK' /\ Assigned'
    BY <1>6, ProceedType DEF TDone
  <2> QED BY <2>1, <2>2
<1>7. CASE TFiles(p)
  <2>1. StoreTypeOK'
    BY <1>7, DeleteType DEF TFiles, StoreTypeOK, Assigned
  <2>2. PipelineTypeOK' /\ Assigned'
    BY <1>7, MoveType DEF TFiles, PipelineTypeOK
  <2> QED BY <2>1, <2>2
<1>8. CASE TDelete(p)
  <2>1. StoreTypeOK'
    BY <1>8, DbType, DeleteType DEF TDelete, StoreTypeOK, Assigned
  <2>2. PipelineTypeOK' /\ Assigned'
    BY <1>8, StartNextType DEF TDelete
  <2> QED BY <2>1, <2>2
<1>9. CASE \E c \in Chunks : TWhisper(p, c)
  <2>1. StoreTypeOK'
    BY <1>9 DEF TWhisper, StoreTypeOK
  <2>2. PipelineTypeOK' /\ Assigned'
    <3>1. PICK c \in Chunks : TWhisper(p, c)
      BY <1>9
    <3>2. todo' \in [Runs -> SUBSET Chunks]
      BY <3>1 DEF TWhisper, PipelineTypeOK
    <3>3. CASE UNCHANGED <<rpc, cur>>
      BY <3>1, <3>2, <3>3 DEF TWhisper, PipelineTypeOK, Assigned
    <3>4. CASE RunAt(p, "tsave") /\ cur' = [cur EXCEPT ![p] = c]
      BY <3>1, <3>2, <3>4 DEF TWhisper, PipelineTypeOK, Assigned, RunAt
    <3> QED BY <3>1, <3>3, <3>4 DEF TWhisper
  <2> QED BY <2>1, <2>2
<1> QED BY <1>1, <1>2, <1>3, <1>4, <1>5, <1>6, <1>7, <1>8, <1>9 DEF TStep

(* The normalization keeps its component well typed.                       *)
LEMMA NormalizationType ==
  ASSUME PipelineInv, NEW p \in Runs, NStep(p)
  PROVE  PipelineInv'
<1> USE DEF PipelineInv, RunLabels, TLabels, NLabels, SLabels
<1>1. CASE NGet(p)
  <2>1. StoreTypeOK'
    BY <1>1, DbType DEF NGet, StoreTypeOK
  <2>2. PipelineTypeOK' /\ Assigned'
    BY <1>1, ProceedType DEF NGet
  <2> QED BY <2>1, <2>2
<1>2. CASE NTexts(p)
  <2>1. StoreTypeOK'
    BY <1>2, DbType DEF NTexts, StoreTypeOK
  <2>2. PipelineTypeOK' /\ Assigned'
    <3>1. CASE /\ RunAt(p, "nstatus")
               /\ copy' = [copy EXCEPT ![p] =
                    [c \in Chunks |-> IF c \in ChunksOf(work[p]) THEN texts[c] ELSE 0]]
               /\ UNCHANGED <<work, todo, cur, wrote, hired>>
      <4>1. copy' \in [Runs -> [Chunks -> 0..MaxCopies]]
        BY <3>1 DEF PipelineTypeOK, StoreTypeOK, MaxCopies
      <4> QED BY <1>2, <3>1, <4>1, MoveType DEF NTexts, PipelineTypeOK
    <3>2. CASE Return(p)
      BY <3>2, ReturnType
    <3> QED BY <1>2, <3>1, <3>2 DEF NTexts
  <2> QED BY <2>1, <2>2
<1>3. CASE NStatus(p)
  <2>1. StoreTypeOK'
    BY <1>3, UpdateStatusType DEF NStatus, StoreTypeOK, Assigned, Stages
  <2>2. PipelineTypeOK' /\ Assigned'
    BY <1>3, ProceedType DEF NStatus
  <2> QED BY <2>1, <2>2
<1>4. CASE NSave(p)
  <2>1. StoreTypeOK'
    BY <1>4, DbType DEF NSave, StoreTypeOK, PipelineTypeOK, MaxCopies
  <2>2. PipelineTypeOK' /\ Assigned'
    BY <1>4, ProceedType DEF NSave
  <2> QED BY <2>1, <2>2
<1>5. CASE NDelete(p)
  <2>1. StoreTypeOK'
    BY <1>5, DbType, DeleteType DEF NDelete, StoreTypeOK, Assigned
  <2>2. PipelineTypeOK' /\ Assigned'
    BY <1>5, StartNextType DEF NDelete
  <2> QED BY <2>1, <2>2
<1> QED BY <1>1, <1>2, <1>3, <1>4, <1>5 DEF NStep

(* The summarization keeps its component well typed.                       *)
LEMMA SummarizationType ==
  ASSUME PipelineInv, NEW p \in Runs, SStep(p)
  PROVE  PipelineInv'
<1> USE DEF PipelineInv, RunLabels, TLabels, NLabels, SLabels
<1>1. CASE SGet(p)
  <2>1. StoreTypeOK'
    BY <1>1, DbType DEF SGet, StoreTypeOK
  <2>2. PipelineTypeOK' /\ Assigned'
    BY <1>1, ProceedType DEF SGet
  <2> QED BY <2>1, <2>2
<1>2. CASE SGenerate(p)
  <2>1. StoreTypeOK'
    BY <1>2 DEF SGenerate, StoreTypeOK
  <2>2. PipelineTypeOK' /\ Assigned'
    BY <1>2, MoveType DEF SGenerate, PipelineTypeOK
  <2> QED BY <2>1, <2>2
<1>3. CASE SFail(p)
  <2>1. StoreTypeOK'
    BY <1>3, UpdateStatusType DEF SFail, StoreTypeOK, Assigned, Stages
  <2>2. PipelineTypeOK' /\ Assigned'
    BY <1>3, ReturnType DEF SFail
  <2> QED BY <2>1, <2>2
<1>4. CASE SStatus(p)
  <2>1. StoreTypeOK'
    BY <1>4, UpdateStatusType DEF SStatus, StoreTypeOK, Assigned, Stages
  <2>2. PipelineTypeOK' /\ Assigned'
    BY <1>4, ProceedType DEF SStatus
  <2> QED BY <2>1, <2>2
<1>5. CASE SSave(p)
  <2>1. StoreTypeOK'
    BY <1>5, DbType, ReturnType DEF SSave, StoreTypeOK, Assigned
  <2>2. PipelineTypeOK' /\ Assigned'
    BY <1>5, ReturnType DEF SSave
  <2> QED BY <2>1, <2>2
<1> QED BY <1>1, <1>2, <1>3, <1>4, <1>5 DEF SStep

(* So do the workers.                                                      *)
LEMMA TickType ==
  ASSUME PipelineInv, NEW p \in Runs, NEW s \in Sessions, Tick(p, s)
  PROVE  PipelineInv'
<1>1. ASSUME NEW label \in {"tget", "nget", "sget"}, Begin(p, s, label),
             hired' = hired \cup {p}, UNCHANGED store
      PROVE  PipelineInv'
  BY <1>1 DEF PipelineInv, StoreTypeOK, PipelineTypeOK, Assigned, RunLabels, TLabels,
         NLabels, SLabels, RunAt, Begin
<1> QED BY <1>1 DEF Hire, Tick, TickTranscription, TickNormalization, TickSummarization

(* And the start of a run at the end of a stop.                            *)
LEMMA BeginType ==
  ASSUME PipelineTypeOK, Assigned, NEW p \in Runs, NEW s \in Sessions,
         Begin(p, s, "tget"), UNCHANGED hired
  PROVE  PipelineTypeOK' /\ Assigned'
  BY DEF PipelineTypeOK, Assigned, Begin, RunAt, RunLabels, TLabels
(* DeleteSession keeps the rows, the files and itself well typed.          *)
LEMMA DeleteSessionType ==
  ASSUME TypeOK, NEW d \in Deletes, DeleteFind(d) \/ DeleteStep(d)
  PROVE  StoreTypeOK' /\ dpc' \in [Deletes -> {"init", "files", "chunks", "texts",
                                            "row", "done", "dead"}]
<1> USE DEF TypeOK, StoreTypeOK, DeleteAt
<1>1. CASE DeleteFind(d)
  BY <1>1, DbType DEF DeleteFind
<1>2. CASE DeleteFiles(d)
  BY <1>2, DeleteType DEF DeleteFiles
<1>3. CASE DeleteChunks(d)
  BY <1>3, DbType, DeleteType DEF DeleteChunks
<1>4. CASE DeleteTexts(d)
  BY <1>4, DbType, DeleteType DEF DeleteTexts
<1>5. CASE DeleteRow(d)
  <2>1. PICK ok \in BOOLEAN :
          /\ Db(ok)
          /\ DeleteChunkRows(ok, Doomed[d])
          /\ DeleteTextRows(ok, Doomed[d])
          /\ IF ok
             THEN /\ status' = [status EXCEPT ![Doomed[d]] = "none"]
                  /\ doc' = [c \in Chunks |-> IF c \in ChunksOf(Doomed[d]) THEN 0 ELSE doc[c]]
                  /\ err' = err \ {Doomed[d]}
                  /\ old' = old \ {Doomed[d]}
                  /\ summarized' = summarized \ {Doomed[d]}
             ELSE UNCHANGED <<status, doc, err, old, summarized>>
    BY <1>5 DEF DeleteRow
  <2>2. faults' \in 0..MaxFaults /\ chunks' \subseteq Chunks
        /\ texts' \in [Chunks -> 0..MaxCopies]
    BY <2>1, DbType, DeleteType
  <2>3. doc' \in [Chunks -> 0..MaxCopies]
    BY <2>1 DEF MaxCopies
  <2> QED BY <1>5, <2>1, <2>2, <2>3 DEF DeleteRow
<1> QED BY <1>1, <1>2, <1>3, <1>4, <1>5 DEF DeleteStep

(* Every step keeps the state well typed.                                  *)
LEMMA TypeStep == TypeInv /\ [Next]_vars => TypeInv'
<1> SUFFICES ASSUME TypeInv, [Next]_vars PROVE TypeInv'
  OBVIOUS
<1> USE DEF TypeInv, TypeOK
<1>0. shared' \subseteq Sessions
  BY DEF Next, Remember, vars
<1>1. ASSUME CaptureNext, UNCHANGED <<pipeline, dpc, crashes>> PROVE TypeInv'
  <2>1. CaptureInv'
    BY <1>1, StartType, TrackType, StopType DEF CaptureNext, CaptureInv
  <2> QED BY <1>0, <1>1, <2>1 DEF CaptureInv, PipelineTypeOK, Assigned
<1>2. ASSUME NEW st \in Stops, StopEnds(st), UNCHANGED <<dpc, crashes>> PROVE TypeInv'
  <2>1. CaptureInv'
    BY <1>2, StopType DEF StopEnds, CaptureInv
  <2>2. PipelineTypeOK' /\ Assigned'
    <3>1. CASE UNCHANGED pipeline
      BY <3>1 DEF PipelineTypeOK, Assigned
    <3>2. CASE StopCount(st, TRUE) /\ (\E p \in Runs : Begin(p, target[st], "tget"))
               /\ UNCHANGED hired
      <4>1. target[st] \in Sessions
        BY <3>2 DEF StopCount, Found
      <4> QED BY <3>2, <4>1, BeginType
    <3> QED BY <1>2, <3>1, <3>2 DEF StopEnds
  <2> QED BY <1>0, <1>2, <2>1, <2>2 DEF CaptureInv
<1>3. ASSUME NEW p \in Runs, RunStep(p) \/ (\E s \in Sessions : Tick(p, s)),
             UNCHANGED <<capture, dpc, crashes>>
      PROVE  TypeInv'
  <2>1. PipelineInv'
    BY <1>3, TranscriptionType, NormalizationType, SummarizationType, TickType
       DEF RunStep, PipelineInv
  <2> QED BY <1>0, <1>3, <2>1 DEF PipelineInv, CaptureTypeOK, Found, Rotating
<1>4. ASSUME NEW d \in Deletes, DeleteFind(d) \/ DeleteStep(d),
             UNCHANGED <<capture, pipeline, crashes>>
      PROVE  TypeInv'
  BY <1>0, <1>4, DeleteSessionType
     DEF CaptureTypeOK, PipelineTypeOK, Found, Rotating, Assigned
<1>5. ASSUME NEW s \in Sessions, Age(s), UNCHANGED <<capture, pipeline, dpc, crashes>>
      PROVE  TypeInv'
  BY <1>0, <1>5 DEF Age, StoreTypeOK, CaptureTypeOK, PipelineTypeOK, Found, Rotating, Assigned
<1>6. ASSUME Crash PROVE TypeInv'
  <2>1. StoreTypeOK'
    BY <1>6 DEF Crash, StoreTypeOK
  <2>2. CaptureTypeOK' /\ Found' /\ Rotating'
    BY <1>6 DEF Crash, CaptureTypeOK, Found, Rotating, StartLabels, StopLabels, TrackLabels
  <2>3. PipelineTypeOK' /\ Assigned'
    BY <1>6 DEF Crash, PipelineTypeOK, Assigned, RunLabels, NoCopy, MaxCopies
  <2> QED BY <1>0, <1>6, <2>1, <2>2, <2>3 DEF Crash
<1>7. ASSUME UNCHANGED vars PROVE TypeInv'
  BY <1>0, <1>7 DEF vars, StoreTypeOK, CaptureTypeOK, PipelineTypeOK, Found, Rotating, Assigned
<1> QED BY <1>1, <1>2, <1>3, <1>4, <1>5, <1>6, <1>7 DEF Next, Step

(* The variables keep their types, however many sessions, tracks, stops    *)
(* and runs there are.                                                     *)
THEOREM SummarizerTypeCorrect == Spec => []TypeOK
<1>1. TypeInv => TypeOK
  BY DEF TypeInv
<1> QED BY <1>1, InitType, TypeStep, PTL DEF Spec

-----------------------------------------------------------------------------
(* What a stop has achieved: the bot it makes leave does not come back, and*)
(* once wg.Wait has returned nothing of the session's capture is left.     *)

(* Where StartSummarizer and its goroutine may end with a row.             *)
Returned == {"joined", "failed", "dead"}

Later == Stages \ {"STARTED"}

(* The capture of s is over for good.                                      *)
Ended(s) ==
    /\ hpc[s] \in Returned
    /\ s \notin bots
    /\ \A t \in Tracks : SessionOf[t] = s => t \notin Capturing

(* A session has been created before it has a row or anybody works on it.  *)
Created(s) == Joining(s) \/ hpc[s] \in Returned

Born ==
    /\ \A s \in Sessions : status[s] # "none" => Created(s)
    /\ \A st \in Stops : target[st] \in Sessions => Created(target[st])
    /\ \A p \in Runs : rpc[p] # "idle" => Created(work[p])

(* A bot in its room is remembered, or about to be.                        *)
BotKnown == \A s \in Sessions :
    /\ s \in bots => hpc[s] = "store" \/ (hpc[s] = "joined" /\ s \in rooms)
    /\ s \in rooms => hpc[s] = "joined"

(* Stops that have left the room.                                          *)
LeftSoFar == \A st \in left :
    /\ hpc[st] \in {"wait", "update", "count", "end", "done", "dead"}
    /\ target[st] \in Sessions
    /\ hpc[target[st]] \in Returned /\ target[st] \notin bots
    /\ hpc[st] # "wait" => Ended(target[st])

(* The history variable has noted where two goroutines are at work.        *)
MeetNoted == \A s \in Sessions : Meet(s) => s \in shared

(* What the stops of a session that is nobody else's have achieved.        *)
StopSoFar == \A st \in Stops : target[st] \notin shared =>
    /\ hpc[st] \in {"wait", "update", "count"} => target[st] \notin bots
    /\ hpc[st] \in {"update", "count"} => Ended(target[st])

LaterEnded == \A s \in Sessions \ shared : status[s] \in Later => Ended(s)

RunEnded == \A p \in Runs : rpc[p] # "idle" /\ work[p] \notin shared => Ended(work[p])

QuietInv == TypeInv /\ Born /\ BotKnown /\ LeftSoFar
            /\ MeetNoted /\ StopSoFar /\ LaterEnded /\ RunEnded

(* All of it holds initially.                                              *)
LEMMA InitQuiet == Init => QuietInv
<1> SUFFICES ASSUME Init PROVE QuietInv
  OBVIOUS
<1>1. TypeInv
  BY InitType
<1>2. Born /\ BotKnown /\ LeftSoFar /\ StopSoFar /\ LaterEnded /\ RunEnded
  BY DEF Born, BotKnown, LeftSoFar, StopSoFar, LaterEnded, RunEnded, Ended,
         Init, StoreInit, CaptureInit, PipelineInit, Later, Stages
<1>3. MeetNoted
  BY DEF MeetNoted, Meet, AtWork, Joining, Stopping, Init, CaptureInit, PipelineInit
<1> QED BY <1>1, <1>2, <1>3 DEF QuietInv

USE DEF HandlerAt, TrackAt

(* A start that has returned stays so, and its bot does not come back.     *)
LEMMA ReturnedStays ==
  ASSUME TypeInv, [Next]_vars, NEW s \in Sessions, hpc[s] \in Returned
  PROVE  hpc'[s] \in Returned /\ (s \in bots' => s \in bots)
<1> USE DEF TypeInv, TypeOK, CaptureTypeOK, Returned
<1>1. ASSUME NEW x \in Sessions, StartCheck(x) \/ StartStep(x)
      PROVE  hpc'[s] \in Returned /\ (s \in bots' => s \in bots)
  BY <1>1 DEF StartCheck, StartStep, StartCreate, JoinConnect, JoinStore, JoinFailed
<1>2. ASSUME NEW t \in Tracks,
             Subscribe(t) \/ TrackPacket(t) \/ TrackEof(t) \/ TrackStep(t)
      PROVE  hpc' = hpc /\ bots' = bots
  BY <1>2 DEF Subscribe, TrackPacket, TrackEof, TrackStep, TrackMkdir, TrackOpen, TrackSave
<1>3. ASSUME NEW st \in Stops,
             StopFind(st) \/ StopStep(st) \/ (\E ok \in BOOLEAN : StopCount(st, ok))
      PROVE  hpc'[s] \in Returned /\ (s \in bots' => s \in bots)
  BY <1>3 DEF StopFind, StopStep, StopCheck, StopRoom, StopWait, StopUpdate,
              EndRoom, StopCount, Leave
<1>4. CASE Crash
  BY <1>4 DEF Crash
<1>5. CASE UNCHANGED capture
  BY <1>5
<1> QED BY <1>1, <1>2, <1>3, <1>4, <1>5 DEF Next, Step, CaptureNext, StopEnds, vars

(* What has ended stays so: only a track whose bot is there begins.        *)
LEMMA EndedStays ==
  ASSUME TypeInv, [Next]_vars, NEW s \in Sessions, Ended(s)
  PROVE  Ended(s)'
<1>1. hpc'[s] \in Returned /\ s \notin bots'
  BY ReturnedStays DEF Ended
<1>2. ASSUME NEW t \in Tracks, SessionOf[t] = s PROVE t \notin Capturing'
  <2> USE DEF TypeInv, TypeOK, CaptureTypeOK, Capturing
  <2>1. t \notin Capturing /\ SessionOf[t] \notin bots
    BY <1>2 DEF Ended
  <2>2. ASSUME NEW x \in Tracks,
               Subscribe(x) \/ TrackPacket(x) \/ TrackEof(x) \/ TrackStep(x)
        PROVE  t \notin Capturing'
    BY <2>1, <2>2 DEF Subscribe, TrackPacket, TrackEof, TrackStep, TrackMkdir,
                      TrackOpen, TrackSave
  <2>3. ASSUME NEW x \in Sessions, StartCheck(x) \/ StartStep(x) PROVE tpc' = tpc
    BY <2>3 DEF StartCheck, StartStep, StartCreate, JoinConnect, JoinStore, JoinFailed
  <2>4. ASSUME NEW st \in Stops,
               StopFind(st) \/ StopStep(st) \/ (\E ok \in BOOLEAN : StopCount(st, ok))
        PROVE  tpc' = tpc
    BY <2>4 DEF StopFind, StopStep, StopCheck, StopRoom, StopWait, StopUpdate,
                EndRoom, StopCount
  <2>5. CASE Crash
    BY <2>1, <2>5 DEF Crash
  <2>6. CASE UNCHANGED capture
    BY <2>1, <2>6
  <2> QED BY <2>1, <2>2, <2>3, <2>4, <2>5, <2>6 DEF Next, Step, CaptureNext, StopEnds, vars
<1> QED BY <1>1, <1>2 DEF Ended

(* Who may write a status: the session's start or its failed join STARTED, *)
(* a stop CAPTURED, a run anything, a delete none.                         *)
LEMMA StatusWriters ==
  ASSUME TypeInv, [Next]_vars, NEW s \in Sessions, status'[s] # status[s]
  PROVE  \/ status'[s] = "STARTED" /\ hpc[s] = "create" /\ hpc'[s] = "join"
         \/ status'[s] = "STARTED" /\ status[s] # "none" /\ hpc[s] = "joinfail"
         \/ status'[s] = "none"
         \/ status[s] # "none" /\ \E st \in Stops : hpc[st] = "update" /\ target[st] = s
         \/ status[s] # "none" /\ \E p \in Runs : rpc[p] # "idle" /\ work[p] = s
<1> USE DEF TypeInv, TypeOK, StoreTypeOK, CaptureTypeOK
<1> DEFINE Goal == \/ status'[s] = "STARTED" /\ hpc[s] = "create" /\ hpc'[s] = "join"
                   \/ status'[s] = "STARTED" /\ status[s] # "none" /\ hpc[s] = "joinfail"
                   \/ status'[s] = "none"
                   \/ status[s] # "none" /\ \E st \in Stops : hpc[st] = "update" /\ target[st] = s
                   \/ status[s] # "none" /\ \E p \in Runs : rpc[p] # "idle" /\ work[p] = s
<1>1. ASSUME NEW x \in Sessions, StartCheck(x) \/ StartStep(x) PROVE Goal
  BY <1>1 DEF StartCheck, StartStep, StartCreate, JoinConnect, JoinStore,
              JoinFailed, UpdateStatus
<1>2. ASSUME NEW t \in Tracks,
             Subscribe(t) \/ TrackPacket(t) \/ TrackEof(t) \/ TrackStep(t)
      PROVE  status' = status
  BY <1>2 DEF Subscribe, TrackPacket, TrackEof, TrackStep, TrackMkdir, TrackOpen, TrackSave
<1>3. ASSUME NEW st \in Stops,
             StopFind(st) \/ StopStep(st) \/ (\E ok \in BOOLEAN : StopCount(st, ok))
      PROVE  Goal
  BY <1>3 DEF StopFind, StopStep, StopCheck, StopRoom, StopWait, StopUpdate,
              EndRoom, StopCount, UpdateStatus
<1>4. ASSUME NEW p \in Runs, RunStep(p) \/ (\E x \in Sessions : Tick(p, x)) PROVE Goal
  <2>1. CASE TStep(p)
    BY <2>1 DEF TStep, TGet, TChunks, TGiveUp, TWhisper, TSave, TLoopEnds, TDone,
                TFiles, TDelete, UpdateStatus
  <2>2. CASE NStep(p)
    BY <2>2 DEF NStep, NGet, NTexts, NStatus, NSave, NDelete, UpdateStatus
  <2>3. CASE SStep(p)
    BY <2>3 DEF SStep, SGet, SGenerate, SFail, SStatus, SSave, UpdateStatus
  <2>4. ASSUME NEW x \in Sessions, Tick(p, x) PROVE status' = status
    BY <2>4 DEF Tick, TickTranscription, TickNormalization,
                TickSummarization, Hire
  <2> QED BY <1>4, <2>1, <2>2, <2>3, <2>4 DEF RunStep
<1>5. ASSUME NEW d \in Deletes, DeleteFind(d) \/ DeleteStep(d) PROVE Goal
  BY <1>5 DEF DeleteFind, DeleteStep, DeleteFiles, DeleteChunks, DeleteTexts, DeleteRow
<1>6. ASSUME UNCHANGED status PROVE Goal
  BY <1>6
<1> QED BY <1>1, <1>2, <1>3, <1>4, <1>5, <1>6 DEF Next, Step, CaptureNext, StopEnds, vars, Age, Crash

(* A run changes the status of its own session only, and moves on.         *)
LEMMA RunEffect ==
  ASSUME TypeInv, NEW p \in Runs, RunStep(p)
  PROVE  /\ rpc[p] # "idle" /\ work[p] \in Sessions
         /\ \A q \in Runs : q # p => rpc'[q] = rpc[q] /\ work'[q] = work[q]
         /\ rpc'[p] = "idle" \/ work'[p] = work[p]
         /\ \A s \in Sessions : s # work[p] => status'[s] = status[s]
         /\ status' = status \/ status[work[p]] # "none"
<1> DEFINE Goal ==
         /\ rpc[p] # "idle" /\ work[p] \in Sessions
         /\ \A q \in Runs : q # p => rpc'[q] = rpc[q] /\ work'[q] = work[q]
         /\ rpc'[p] = "idle" \/ work'[p] = work[p]
         /\ \A s \in Sessions : s # work[p] => status'[s] = status[s]
         /\ status' = status \/ status[work[p]] # "none"
<1> USE DEF TypeInv, TypeOK, StoreTypeOK, PipelineTypeOK, Assigned
<1>1. CASE TStep(p)
  BY <1>1 DEF TStep, TGet, TChunks, TGiveUp, TWhisper, TSave, TLoopEnds, TDone,
              TFiles, TDelete, UpdateStatus, Proceed, Return, StartNext, RunAt
<1>2. CASE NStep(p)
  BY <1>2 DEF NStep, NGet, NTexts, NStatus, NSave, NDelete, UpdateStatus, Proceed,
              Return, StartNext, RunAt
<1>3. CASE SStep(p)
  BY <1>3 DEF SStep, SGet, SGenerate, SFail, SStatus, SSave, UpdateStatus, Proceed,
              Return, RunAt
<1> QED BY <1>1, <1>2, <1>3 DEF RunStep

(* A run is at work on what it was, or was begun by a stop or a worker.    *)
LEMMA RunOrigin ==
  ASSUME TypeInv, [Next]_vars, NEW p \in Runs, rpc'[p] # "idle"
  PROVE  \/ rpc[p] # "idle" /\ work'[p] = work[p]
         \/ \E st \in Stops : hpc[st] = "count" /\ target[st] = work'[p]
         \/ work'[p] \in Sessions /\ status[work'[p]] \in Later
<1> USE DEF TypeInv, TypeOK, PipelineTypeOK
<1> DEFINE Goal == \/ rpc[p] # "idle" /\ work'[p] = work[p]
                   \/ \E st \in Stops : hpc[st] = "count" /\ target[st] = work'[p]
                   \/ work'[p] \in Sessions /\ status[work'[p]] \in Later
<1>1. ASSUME NEW st \in Stops, StopEnds(st) PROVE Goal
  BY <1>1 DEF StopEnds, StopCount, Begin, RunAt
<1>2. ASSUME NEW q \in Runs, RunStep(q) PROVE Goal
  BY <1>2, RunEffect
<1>3. ASSUME NEW q \in Runs, NEW x \in Sessions, Tick(q, x) PROVE Goal
  BY <1>3 DEF Tick, TickTranscription, TickNormalization,
              TickSummarization, Hire, Begin, RunAt, Later, Stages
<1>4. CASE Crash
  BY <1>4 DEF Crash
<1>5. CASE UNCHANGED pipeline
  BY <1>5
<1> QED BY <1>1, <1>2, <1>3, <1>4, <1>5 DEF Next, Step, vars

(* What has been created stays so.                                         *)
LEMMA CreatedStays ==
  ASSUME TypeInv, [Next]_vars, NEW s \in Sessions, Created(s)
  PROVE  Created(s)'
<1> USE DEF TypeInv, TypeOK, CaptureTypeOK, Created, Joining, Returned
<1>1. ASSUME NEW x \in Sessions, StartCheck(x) \/ StartStep(x)
      PROVE  Created(s)'
  BY <1>1 DEF StartCheck, StartStep, StartCreate, JoinConnect, JoinStore, JoinFailed
<1>2. ASSUME NEW t \in Tracks,
             Subscribe(t) \/ TrackPacket(t) \/ TrackEof(t) \/ TrackStep(t)
      PROVE  hpc' = hpc
  BY <1>2 DEF Subscribe, TrackPacket, TrackEof, TrackStep, TrackMkdir, TrackOpen, TrackSave
<1>3. ASSUME NEW st \in Stops,
             StopFind(st) \/ StopStep(st) \/ (\E ok \in BOOLEAN : StopCount(st, ok))
      PROVE  hpc'[s] = hpc[s]
  BY <1>3 DEF StopFind, StopStep, StopCheck, StopRoom, StopWait, StopUpdate,
              EndRoom, StopCount, Leave
<1>4. CASE Crash
  BY <1>4 DEF Crash
<1>5. CASE UNCHANGED capture
  BY <1>5
<1> QED BY <1>1, <1>2, <1>3, <1>4, <1>5 DEF Next, Step, CaptureNext, StopEnds, vars

(* A stop keeps the session it has found, or finds one that is STARTED.    *)
LEMMA TargetOrigin ==
  ASSUME TypeInv, [Next]_vars, NEW st \in Stops
  PROVE  \/ target'[st] = target[st]
         \/ target'[st] \in Sessions /\ status[target'[st]] = "STARTED"
            /\ hpc'[st] = "check"
<1> USE DEF TypeInv, TypeOK, CaptureTypeOK
<1>1. ASSUME NEW x \in Stops, StopFind(x)
      PROVE  \/ target'[st] = target[st]
             \/ target'[st] \in Sessions /\ status[target'[st]] = "STARTED"
                /\ hpc'[st] = "check"
  BY <1>1 DEF StopFind, Active
<1>2. ASSUME NEW x \in Stops, StopStep(x) \/ (\E ok \in BOOLEAN : StopCount(x, ok))
      PROVE  target' = target
  BY <1>2 DEF StopStep, StopCheck, StopRoom, StopWait, StopUpdate, EndRoom, StopCount
<1>3. ASSUME NEW x \in Sessions, StartCheck(x) \/ StartStep(x)
      PROVE  target' = target
  BY <1>3 DEF StartCheck, StartStep, StartCreate, JoinConnect, JoinStore, JoinFailed
<1>4. ASSUME NEW t \in Tracks,
             Subscribe(t) \/ TrackPacket(t) \/ TrackEof(t) \/ TrackStep(t)
      PROVE  target' = target
  BY <1>4 DEF Subscribe, TrackPacket, TrackEof, TrackStep, TrackMkdir, TrackOpen, TrackSave
<1>5. CASE Crash
  BY <1>5 DEF Crash
<1>6. CASE UNCHANGED capture
  BY <1>6
<1> QED BY <1>1, <1>2, <1>3, <1>4, <1>5, <1>6 DEF Next, Step, CaptureNext, StopEnds, vars

(* The history variable grows and notes each meeting.                      *)
LEMMA MeetStep ==
  ASSUME MeetNoted, [Next]_vars
  PROVE  shared \subseteq shared' /\ MeetNoted'
<1>1. CASE Next
  BY <1>1 DEF Next, Remember, MeetNoted
<1>2. CASE UNCHANGED vars
  BY <1>2 DEF vars, MeetNoted, Meet, AtWork, Joining, Stopping
<1> QED BY <1>1, <1>2

(* Two goroutines at work on a session have made it a shared one.          *)
LEMMA StopFindsJoined ==
  ASSUME TypeInv, Born, MeetNoted, NEW st \in Stops, NEW s \in Sessions \ shared, Stopping(st, s)
  PROVE  hpc[s] \in Returned
<1>1. Created(s)
  BY DEF Born, Stopping
<1>2. ASSUME Joining(s) PROVE FALSE
  <2>1. s \in AtWork(s) /\ st \in AtWork(s) /\ s # st
    BY <1>2 DEF AtWork
  <2> QED BY <2>1 DEF Meet, MeetNoted
<1> QED BY <1>1, <1>2 DEF Created

(* The parts of the invariant, one by one.                                 *)
LEMMA BornStep ==
  ASSUME QuietInv, [Next]_vars
  PROVE  Born'
<1> USE DEF QuietInv
<1>1. ASSUME NEW s \in Sessions, status'[s] # "none" PROVE Created(s)'
  <2>1. CASE Created(s)
    BY <2>1, CreatedStays
  <2>2. CASE ~ Created(s)
    <3>1. status[s] = "none"
      BY <2>2 DEF Born
    <3>2. hpc'[s] = "join"
      BY <1>1, <2>2, <3>1, StatusWriters DEF Created, Joining
    <3> QED BY <3>2 DEF Created, Joining
  <2> QED BY <2>1, <2>2
<1>2. ASSUME NEW st \in Stops, target'[st] \in Sessions PROVE Created(target[st])'
  BY <1>2, TargetOrigin, CreatedStays DEF Born, Created, Joining
<1>3. ASSUME NEW p \in Runs, rpc'[p] # "idle" PROVE Created(work[p])'
  <2>1. work'[p] \in Sessions
    BY <1>3, TypeStep DEF TypeInv, Assigned
  <2>2. Created(work'[p])
    BY <1>3, <2>1, RunOrigin DEF Born, Later, Stages
  <2> QED BY <2>1, <2>2, CreatedStays DEF Created, Joining
<1> QED BY <1>1, <1>2, <1>3 DEF Born

(* The server remembers each bot it has, except while it stores it.        *)
LEMMA BotKnownStep ==
  ASSUME QuietInv, [Next]_vars
  PROVE  BotKnown'
<1> USE DEF QuietInv, TypeInv, TypeOK, CaptureTypeOK, BotKnown
<1>1. ASSUME NEW x \in Sessions, StartCheck(x) \/ StartStep(x) PROVE BotKnown'
  <2>1. CASE JoinConnect(x)
    BY <2>1 DEF JoinConnect
  <2>2. CASE JoinStore(x)
    BY <2>2 DEF JoinStore
  <2>3. CASE StartCheck(x)
    BY <2>3 DEF StartCheck
  <2>4. CASE StartCreate(x)
    BY <2>4 DEF StartCreate
  <2>5. CASE JoinFailed(x)
    BY <2>5 DEF JoinFailed
  <2> QED BY <1>1, <2>1, <2>2, <2>3, <2>4, <2>5 DEF StartStep
<1>2. ASSUME NEW t \in Tracks,
             Subscribe(t) \/ TrackPacket(t) \/ TrackEof(t) \/ TrackStep(t)
      PROVE  BotKnown'
  BY <1>2 DEF Subscribe, TrackPacket, TrackEof, TrackStep, TrackMkdir, TrackOpen, TrackSave
<1>3. ASSUME NEW st \in Stops,
             StopFind(st) \/ StopStep(st) \/ (\E ok \in BOOLEAN : StopCount(st, ok))
      PROVE  BotKnown'
  <2>1. \A x \in Sessions : hpc'[x] = hpc[x]
    BY <1>3 DEF StopFind, StopStep, StopCheck, StopRoom, StopWait, StopUpdate,
                EndRoom, StopCount, Leave
  <2>2. CASE StopRoom(st)
    BY <2>1, <2>2 DEF StopRoom
  <2>3. CASE EndRoom(st)
    BY <2>1, <2>3 DEF EndRoom
  <2>4. CASE UNCHANGED <<rooms, bots>>
    BY <2>1, <2>4
  <2> QED BY <1>3, <2>2, <2>3, <2>4 DEF StopFind, StopStep, StopCheck, StopWait,
                                        StopUpdate, StopCount
<1>4. CASE Crash
  BY <1>4 DEF Crash
<1>5. CASE UNCHANGED capture
  BY <1>5
<1> QED BY <1>1, <1>2, <1>3, <1>4, <1>5 DEF Next, Step, CaptureNext, StopEnds, vars

(* What a single step does to a stop: another one's step leaves it alone.   *)
LEMMA StopMoves ==
  ASSUME TypeInv, [Next]_vars, NEW st \in Stops
  PROVE  \/ hpc'[st] = hpc[st] /\ target'[st] = target[st]
         \/ StopFind(st) \/ StopStep(st)
         \/ \E ok \in BOOLEAN : StopCount(st, ok)
         \/ Crash
<1> USE DEF TypeInv, TypeOK, CaptureTypeOK
<1>1. ASSUME NEW x \in Stops, x # st,
             StopFind(x) \/ StopStep(x) \/ (\E ok \in BOOLEAN : StopCount(x, ok))
      PROVE  hpc'[st] = hpc[st] /\ target'[st] = target[st]
  BY <1>1 DEF StopFind, StopStep, StopCheck, StopRoom, StopWait, StopUpdate,
              EndRoom, StopCount, Leave
<1>2. ASSUME NEW x \in Sessions, StartCheck(x) \/ StartStep(x)
      PROVE  hpc'[st] = hpc[st] /\ target'[st] = target[st]
  BY <1>2 DEF StartCheck, StartStep, StartCreate, JoinConnect, JoinStore, JoinFailed
<1>3. ASSUME NEW t \in Tracks,
             Subscribe(t) \/ TrackPacket(t) \/ TrackEof(t) \/ TrackStep(t)
      PROVE  hpc'[st] = hpc[st] /\ target'[st] = target[st]
  BY <1>3 DEF Subscribe, TrackPacket, TrackEof, TrackStep, TrackMkdir, TrackOpen, TrackSave
<1>4. CASE UNCHANGED capture
  BY <1>4
<1> QED BY <1>1, <1>2, <1>3, <1>4 DEF Next, Step, CaptureNext, StopEnds, vars

(* Only a stop that finds the room becomes one that has left it.           *)
LEMMA LeftMoves ==
  ASSUME TypeInv, [Next]_vars, NEW st \in Stops, st \in left', st \notin left
  PROVE  /\ StopRoom(st) /\ target[st] \in rooms /\ target[st] \in Sessions
         /\ target'[st] = target[st] /\ hpc'[st] = "wait"
         /\ target[st] \notin bots' /\ \A s \in Sessions : hpc'[s] = hpc[s]
<1> USE DEF TypeInv, TypeOK, CaptureTypeOK
<1>1. ASSUME NEW x \in Stops, StopRoom(x)
      PROVE  x = st /\ target[st] \in rooms /\ target'[st] = target[st] /\ hpc'[st] = "wait"
             /\ target[st] \notin bots' /\ \A s \in Sessions : hpc'[s] = hpc[s]
  BY <1>1 DEF StopRoom
<1>2. ASSUME NEW x \in Stops, \/ StopFind(x) \/ StopCheck(x) \/ StopWait(x)
                               \/ StopUpdate(x) \/ EndRoom(x)
                               \/ (\E ok \in BOOLEAN : StopCount(x, ok))
      PROVE  left' = left
  BY <1>2 DEF StopFind, StopCheck, StopWait, StopUpdate, EndRoom, StopCount
<1>3. ASSUME NEW x \in Sessions, StartCheck(x) \/ StartStep(x) PROVE left' = left
  BY <1>3 DEF StartCheck, StartStep, StartCreate, JoinConnect, JoinStore, JoinFailed
<1>4. ASSUME NEW t \in Tracks,
             Subscribe(t) \/ TrackPacket(t) \/ TrackEof(t) \/ TrackStep(t)
      PROVE  left' = left
  BY <1>4 DEF Subscribe, TrackPacket, TrackEof, TrackStep, TrackMkdir, TrackOpen, TrackSave
<1>5. CASE Crash
  BY <1>5 DEF Crash
<1>6. CASE UNCHANGED capture
  BY <1>6
<1>7. \E x \in Stops : StopRoom(x)
  BY <1>2, <1>3, <1>4, <1>5, <1>6 DEF Next, Step, CaptureNext, StopEnds, StopStep, vars
<1> QED BY <1>1, <1>7 DEF Found, StopRoom

(* A bot that has been made to leave does not come back, and wg.Wait sees  *)
(* the last of its tracks end.                                             *)
LEMMA LeftStep ==
  ASSUME QuietInv, [Next]_vars
  PROVE  LeftSoFar'
<1> SUFFICES ASSUME NEW st \in Stops, st \in left'
             PROVE  /\ hpc'[st] \in {"wait", "update", "count", "end", "done", "dead"}
                    /\ target'[st] \in Sessions
                    /\ hpc'[target'[st]] \in Returned /\ target'[st] \notin bots'
                    /\ hpc'[st] # "wait" => Ended(target[st])'
  BY TypeStep DEF QuietInv, TypeInv, TypeOK, CaptureTypeOK, LeftSoFar, Ended
<1> USE DEF QuietInv
<1>1. CASE st \notin left
  BY <1>1, LeftMoves DEF BotKnown, Returned
<1>2. CASE st \in left
  <2>0. PICK s \in Sessions : s = target[st]
    BY <1>2 DEF LeftSoFar
  <2>1. hpc'[s] \in Returned /\ s \notin bots'
    BY <1>2, <2>0, ReturnedStays DEF LeftSoFar
  <2>2. Ended(s) => Ended(s)'
    BY EndedStays
  <2>3. CASE hpc'[st] = hpc[st] /\ target'[st] = target[st]
    BY <1>2, <2>0, <2>1, <2>2, <2>3 DEF LeftSoFar, Ended
  <2>4. CASE StopWait(st)
    <3>1. Ended(s)'
      BY <2>1, <2>4 DEF StopWait, Capturing, Ended
    <3>2. target'[st] = s /\ hpc'[st] = "update"
      BY <2>0, <2>4 DEF StopWait, TypeInv, TypeOK, CaptureTypeOK
    <3> QED BY <2>0, <2>1, <3>1, <3>2 DEF Ended
  <2>5. CASE StopUpdate(st) \/ EndRoom(st) \/ (\E ok \in BOOLEAN : StopCount(st, ok))
    <3>1. Ended(s)
      BY <1>2, <2>0, <2>5 DEF LeftSoFar, StopUpdate, EndRoom, StopCount
    <3>2. target'[st] = s /\ hpc'[st] \in {"count", "end", "done"}
      BY <2>0, <2>5 DEF StopUpdate, EndRoom, StopCount, Leave, TypeInv, TypeOK, CaptureTypeOK
    <3> QED BY <2>0, <2>1, <2>2, <3>1, <3>2 DEF Ended
  <2>6. CASE StopFind(st) \/ StopCheck(st) \/ StopRoom(st)
    BY <1>2, <2>6 DEF LeftSoFar, StopFind, StopCheck, StopRoom
  <2>7. CASE Crash
    <3>1. Ended(s)'
      BY <2>1, <2>7 DEF Crash, Capturing, Ended, TypeInv, TypeOK, CaptureTypeOK
    <3>2. target'[st] = s /\ hpc'[st] \in {"done", "dead"}
      BY <1>2, <2>0, <2>7 DEF LeftSoFar, Crash, TypeInv, TypeOK, CaptureTypeOK
    <3> QED BY <2>0, <2>1, <3>1, <3>2 DEF Ended
  <2> QED BY <2>3, <2>4, <2>5, <2>6, <2>7, StopMoves DEF StopStep
<1> QED BY <1>1, <1>2

(* The stops of a session nobody else works on: the bot had joined.        *)
LEMMA StopSoFarStep ==
  ASSUME QuietInv, [Next]_vars
  PROVE  StopSoFar'
<1> SUFFICES ASSUME NEW st \in Stops, NEW s, s = target'[st], s \notin shared'
             PROVE  /\ hpc'[st] \in {"wait", "update", "count"} => s \notin bots'
                    /\ hpc'[st] \in {"update", "count"} => Ended(s)'
  BY DEF StopSoFar, Ended
<1> USE DEF QuietInv
<1>0. s \notin shared
  BY MeetStep
<1>1. ASSUME s = target[st], hpc[st] \in {"room", "wait", "update", "count"}
      PROVE  s \in Sessions /\ hpc[s] \in Returned
  BY <1>0, <1>1, StopFindsJoined DEF TypeInv, Found, Stopping
<1> USE DEF TypeInv, TypeOK, CaptureTypeOK
<1>2. CASE hpc'[st] = hpc[st] /\ target'[st] = target[st]
  BY <1>0, <1>1, <1>2, ReturnedStays, EndedStays DEF StopSoFar, Ended
<1>3. CASE StopFind(st) \/ StopCheck(st) \/ EndRoom(st) \/ (\E ok \in BOOLEAN : StopCount(st, ok))
  BY <1>3 DEF StopFind, StopCheck, EndRoom, StopCount, Leave
<1>4. CASE StopRoom(st)
  <2>1. s = target[st] /\ hpc[st] = "room"
    BY <1>4 DEF StopRoom
  <2>2. s \notin bots'
    BY <1>1, <1>4, <2>1 DEF StopRoom, BotKnown, Returned
  <2> QED BY <1>4, <2>2 DEF StopRoom
<1>5. CASE StopWait(st)
  <2>1. s = target[st] /\ hpc[st] = "wait" /\ bots' = bots /\ Capturing' = {}
    BY <1>5 DEF StopWait, Capturing
  <2>2. s \notin bots /\ hpc'[s] \in Returned
    BY <1>0, <1>1, <2>1, ReturnedStays DEF StopSoFar
  <2> QED BY <2>1, <2>2 DEF Ended
<1>6. CASE StopUpdate(st)
  <2>1. s = target[st] /\ hpc[st] = "update" /\ bots' = bots
    BY <1>6 DEF StopUpdate
  <2>2. Ended(s) /\ s \in Sessions
    BY <1>0, <1>1, <2>1 DEF StopSoFar
  <2> QED BY <2>1, <2>2, EndedStays DEF Ended
<1>7. CASE Crash
  BY <1>7 DEF Crash
<1> QED BY <1>2, <1>3, <1>4, <1>5, <1>6, <1>7, StopMoves DEF StopStep

(* Whoever writes a later status knows that the capture has ended.         *)
LEMMA LaterEndedStep ==
  ASSUME QuietInv, [Next]_vars
  PROVE  LaterEnded'
<1> SUFFICES ASSUME NEW s \in Sessions, s \notin shared', status'[s] \in Later
             PROVE  Ended(s)'
  BY DEF LaterEnded, Ended
<1>1. s \notin shared
  BY MeetStep DEF QuietInv
<1>2. Ended(s)
  BY <1>1, StatusWriters DEF QuietInv, LaterEnded, StopSoFar, RunEnded, Later, Stages
<1> QED BY <1>2, EndedStays DEF QuietInv

(* A run begins on a session whose capture has ended.                      *)
LEMMA RunEndedStep ==
  ASSUME QuietInv, [Next]_vars
  PROVE  RunEnded'
<1> SUFFICES ASSUME NEW p \in Runs, rpc'[p] # "idle", NEW s, s = work'[p], s \notin shared'
             PROVE  Ended(s)'
  BY DEF RunEnded, Ended
<1>1. s \in Sessions /\ s \notin shared
  BY TypeStep, MeetStep DEF QuietInv, TypeInv, Assigned
<1>2. Ended(s)
  BY <1>1, RunOrigin DEF QuietInv, RunEnded, StopSoFar, LaterEnded
<1> QED BY <1>1, <1>2, EndedStays DEF QuietInv

(* Together.                                                               *)
LEMMA QuietStep == QuietInv /\ [Next]_vars => QuietInv'
  BY TypeStep, BornStep, BotKnownStep, LeftStep, MeetStep, StopSoFarStep, LaterEndedStep,
     RunEndedStep DEF QuietInv

(* wg.Wait of StopSummarizer does its work: after it has returned to a stop*)
(* that had found the bot's room, no track of its session is captured, now *)
(* or ever, for all sessions, tracks and stops, whatever else is going on. *)
THEOREM LeftIsQuietHolds == Spec => []LeftIsQuiet
<1>1. QuietInv => LeftIsQuiet
  BY DEF QuietInv, LeftSoFar, Ended, LeftIsQuiet
<1> QED BY <1>1, InitQuiet, QuietStep, PTL DEF Spec

-----------------------------------------------------------------------------
(* Deleting a session: its rows stay deleted, because whoever writes one    *)
(* writes it for its own session and the database checks that there is one.*)

(* The chunks a run has in hand are of the session it works on.            *)
OwnChunks == \A p \in Runs :
    /\ rpc[p] = "idle" => todo[p] = {}
    /\ todo[p] \subseteq ChunksOf(work[p])
    /\ rpc[p] = "tsave" => cur[p] \in ChunksOf(work[p])

RowInv == TypeInv /\ OwnChunks /\ DeletedLeavesNoRows

(* The first state has neither runs nor rows.                              *)
LEMMA InitRows == Init => RowInv
<1> SUFFICES ASSUME Init PROVE RowInv
  OBVIOUS
<1>1. TypeInv
  BY InitType
<1>2. OwnChunks
  BY DEF OwnChunks, Init, PipelineInit
<1>3. DeletedLeavesNoRows
  BY DEF DeletedLeavesNoRows, Init, StoreInit, ChunksOf, Texts, Doc
<1> QED BY <1>1, <1>2, <1>3 DEF RowInv

(* A run that returns has no chunk in hand, one that begins none yet.      *)
LEMMA ReturnOwn ==
  ASSUME TypeInv, OwnChunks, NEW p \in Runs, Return(p)
  PROVE  OwnChunks'
  BY DEF TypeInv, TypeOK, PipelineTypeOK, OwnChunks, Return, RunAt, ChunksOf

(* One that goes on to another label than "tsave" keeps what it has.       *)
LEMMA MoveOwn ==
  ASSUME TypeInv, OwnChunks, NEW p \in Runs, rpc[p] # "idle",
         NEW label \in RunLabels \ {"tsave", "idle"},
         RunAt(p, label), UNCHANGED <<work, todo, cur>>
  PROVE  OwnChunks'
  BY DEF TypeInv, TypeOK, PipelineTypeOK, OwnChunks, RunAt, ChunksOf

(* A step of a run leaves it with chunks of its own session.               *)
LEMMA RunStepOwn ==
  ASSUME TypeInv, OwnChunks, NEW p \in Runs, RunStep(p)
  PROVE  OwnChunks'
<1> USE DEF RunLabels, TLabels, NLabels, SLabels
<1>1. CASE TChunks(p)
  <2> DEFINE mine == chunks \cap ChunksOf(work[p])
  <2>1. PICK ok \in BOOLEAN : IF ok THEN
            /\ RunAt(p, IF Cardinality(mine) <= 2 THEN "tshort" ELSE "tloop")
            /\ todo' = [todo EXCEPT ![p] = mine]
            /\ UNCHANGED <<work, cur>>
          ELSE Return(p)
    BY <1>1 DEF TChunks
  <2>2. CASE ok
    BY <2>1, <2>2 DEF TypeInv, TypeOK, PipelineTypeOK, OwnChunks, RunAt, ChunksOf
  <2> QED BY <2>1, <2>2, ReturnOwn
<1>2. CASE \E c \in Chunks : TWhisper(p, c)
  BY <1>2 DEF TWhisper, TypeInv, TypeOK, PipelineTypeOK, OwnChunks, RunAt, ChunksOf
<1>3. CASE TSave(p)
  BY <1>3 DEF TSave, TypeInv, TypeOK, PipelineTypeOK, OwnChunks, RunAt, ChunksOf
<1>4. CASE TGet(p) \/ TGiveUp(p) \/ TLoopEnds(p) \/ TDone(p) \/ TFiles(p) \/ TDelete(p)
  BY <1>4, ReturnOwn, MoveOwn DEF TGet, TGiveUp, TLoopEnds, TDone, TFiles, TDelete,
                                  Proceed, StartNext
<1>5. CASE NStep(p)
  BY <1>5, ReturnOwn, MoveOwn DEF NStep, NGet, NTexts, NStatus, NSave, NDelete,
                                  Proceed, StartNext
<1>6. CASE SStep(p)
  BY <1>6, ReturnOwn, MoveOwn DEF SStep, SGet, SGenerate, SFail, SStatus, SSave, Proceed
<1> QED BY <1>1, <1>2, <1>3, <1>4, <1>5, <1>6 DEF RunStep, TStep

(* So does every step of the system.                                       *)
LEMMA OwnStep ==
  ASSUME TypeInv, OwnChunks, [Next]_vars
  PROVE  OwnChunks'
<1>1. ASSUME NEW p \in Runs, NEW s, NEW label \in {"tget", "nget", "sget"},
             Begin(p, s, label)
      PROVE  OwnChunks'
  BY <1>1 DEF Begin, RunAt, OwnChunks, TypeInv, TypeOK, PipelineTypeOK, ChunksOf
<1>2. ASSUME NEW st \in Stops, StopEnds(st) PROVE OwnChunks'
  <2>1. CASE UNCHANGED pipeline
    BY <2>1 DEF OwnChunks, ChunksOf
  <2> QED BY <1>1, <1>2, <2>1 DEF StopEnds
<1>3. ASSUME NEW p \in Runs, NEW s \in Sessions, Tick(p, s) PROVE OwnChunks'
  BY <1>1, <1>3 DEF Tick, TickTranscription, TickNormalization,
                    TickSummarization, Hire
<1>4. CASE Crash
  BY <1>4 DEF Crash, OwnChunks
<1>5. CASE UNCHANGED pipeline
  BY <1>5 DEF OwnChunks, ChunksOf
<1> QED BY <1>2, <1>3, <1>4, <1>5, RunStepOwn DEF Next, Step, vars

(* A track's row is stored only if its session has one, and tracks write   *)
(* no others; starts, stops and old rows touch none of a deleted session.  *)
LEMMA CaptureRows ==
  ASSUME RowInv, CaptureNext
  PROVE  DeletedLeavesNoRows'
<1> USE DEF RowInv, TypeInv, TypeOK, StoreTypeOK, CaptureTypeOK, DeletedLeavesNoRows,
            ChunksOf, Texts, Doc
<1>1. ASSUME NEW s \in Sessions, StartCheck(s) \/ StartStep(s)
      PROVE  DeletedLeavesNoRows'
  BY <1>1 DEF StartCheck, StartStep, StartCreate, JoinConnect, JoinStore, JoinFailed,
              UpdateStatus, Stages
<1>2. ASSUME NEW t \in Tracks, TrackSave(t) PROVE DeletedLeavesNoRows'
  BY <1>2 DEF TrackSave
<1>3. ASSUME NEW t \in Tracks, \/ Subscribe(t) \/ TrackPacket(t) \/ TrackEof(t)
                               \/ TrackMkdir(t) \/ TrackOpen(t)
      PROVE  UNCHANGED rows
  BY <1>3 DEF Subscribe, TrackPacket, TrackEof, TrackMkdir, TrackOpen
<1>4. ASSUME NEW st \in Stops, StopUpdate(st) PROVE DeletedLeavesNoRows'
  BY <1>4 DEF StopUpdate, UpdateStatus
<1>5. ASSUME NEW st \in Stops, \/ StopFind(st) \/ StopCheck(st) \/ StopRoom(st)
                               \/ StopWait(st) \/ EndRoom(st)
      PROVE  UNCHANGED rows
  BY <1>5 DEF StopFind, StopCheck, StopRoom, StopWait, EndRoom
<1>6. CASE UNCHANGED rows
  BY <1>6
<1> QED BY <1>1, <1>2, <1>3, <1>4, <1>5, <1>6 DEF CaptureNext, TrackStep, StopStep

(* A run stores a text, a transcript or a summary only if the session has  *)
(* a row, and each of them under its own session.                          *)
LEMMA RunRows ==
  ASSUME RowInv, NEW p \in Runs, RunStep(p)
  PROVE  DeletedLeavesNoRows'
<1> USE DEF RowInv, TypeInv, TypeOK, StoreTypeOK, PipelineTypeOK, DeletedLeavesNoRows,
            ChunksOf, Texts, Doc
<1>1. CASE TSave(p)
  <2> SUFFICES ASSUME NEW s \in Sessions, status[s] = "none" PROVE Texts(s)' = {}
    BY <1>1 DEF TSave
  <2>1. CASE UNCHANGED texts
    BY <2>1
  <2>2. CASE texts # texts'
    <3>1. work[p] # s
      BY <1>1, <2>2 DEF TSave
    <3>2. cur[p] \in Chunks /\ SessionOf[cur[p][1]] = work[p]
      BY <1>1 DEF TSave, OwnChunks
    <3>3. ASSUME NEW c \in Chunks, SessionOf[c[1]] = s PROVE texts'[c] = texts[c]
      BY <1>1, <3>1, <3>2, <3>3 DEF TSave
    <3> QED BY <3>3
  <2> QED BY <2>1, <2>2
<1>2. CASE TGiveUp(p) \/ TDone(p)
  BY <1>2 DEF TGiveUp, TDone, UpdateStatus
<1>3. CASE TDelete(p)
  BY <1>3 DEF TDelete, DeleteChunkRows
<1>4. CASE TGet(p) \/ TChunks(p) \/ TLoopEnds(p) \/ TFiles(p) \/ (\E c \in Chunks : TWhisper(p, c))
  BY <1>4 DEF TGet, TChunks, TLoopEnds, TFiles, TWhisper
<1>5. CASE NStatus(p)
  BY <1>5 DEF NStatus, UpdateStatus
<1>6. CASE NSave(p)
  <2>1. CASE UNCHANGED doc
    BY <1>6, <2>1 DEF NSave
  <2>2. CASE status[work[p]] # "none" /\ \A c \in Chunks :
                 SessionOf[c[1]] # work[p] => doc'[c] = doc[c]
    BY <1>6, <2>2 DEF NSave
  <2> QED BY <1>6, <2>1, <2>2 DEF NSave
<1>7. CASE NDelete(p)
  BY <1>7 DEF NDelete, DeleteTextRows
<1>8. CASE NGet(p) \/ NTexts(p)
  BY <1>8 DEF NGet, NTexts
<1>9. CASE SFail(p) \/ SStatus(p)
  BY <1>9 DEF SFail, SStatus, UpdateStatus
<1>10. CASE SSave(p) \/ SGet(p) \/ SGenerate(p)
  BY <1>10 DEF SSave, SGet, SGenerate
<1> QED BY <1>1, <1>2, <1>3, <1>4, <1>5, <1>6, <1>7, <1>8, <1>9, <1>10
        DEF RunStep, TStep, NStep, SStep

(* A delete takes rows away, the session's own with those that refer to it.*)
LEMMA DeleteRows ==
  ASSUME RowInv, NEW d \in Deletes, DeleteFind(d) \/ DeleteStep(d)
  PROVE  DeletedLeavesNoRows'
<1> USE DEF RowInv, TypeInv, TypeOK, StoreTypeOK, DeletedLeavesNoRows, ChunksOf, Texts, Doc
<1>1. CASE DeleteChunks(d) \/ DeleteTexts(d)
  BY <1>1 DEF DeleteChunks, DeleteTexts, DeleteChunkRows, DeleteTextRows
<1>2. CASE DeleteRow(d)
  BY <1>2 DEF DeleteRow, DeleteChunkRows, DeleteTextRows
<1>3. CASE DeleteFind(d) \/ DeleteFiles(d)
  BY <1>3 DEF DeleteFind, DeleteFiles
<1> QED BY <1>1, <1>2, <1>3 DEF DeleteStep

(* Every step keeps the rows away.                                         *)
LEMMA GoneStep ==
  ASSUME RowInv, [Next]_vars
  PROVE  DeletedLeavesNoRows'
<1>1. CASE UNCHANGED rows
  BY <1>1 DEF RowInv, DeletedLeavesNoRows, ChunksOf, Texts, Doc
<1>2. ASSUME NEW s \in Sessions, Age(s) PROVE DeletedLeavesNoRows'
  BY <1>2 DEF Age, RowInv, DeletedLeavesNoRows, ChunksOf, Texts, Doc
<1>3. ASSUME NEW st \in Stops, StopEnds(st) PROVE UNCHANGED rows
  BY <1>3 DEF StopEnds, StopCount
<1>4. ASSUME NEW p \in Runs, NEW s \in Sessions, Tick(p, s) PROVE UNCHANGED rows
  BY <1>4 DEF Tick, TickTranscription, TickNormalization,
              TickSummarization, Hire
<1>5. CASE Crash
  BY <1>1, <1>5 DEF Crash
<1> QED BY <1>1, <1>2, <1>3, <1>4, <1>5, CaptureRows, RunRows, DeleteRows
        DEF Next, Step, vars

(* Deleting a session leaves no rows of it behind, whatever the goroutines *)
(* still at work on it write afterwards: DeleteSession of the repository   *)
(* against closeChunk, the saving loop of ProcessSession and the updates   *)
(* of the later stages, whose rows need their session's row.               *)
THEOREM DeletedLeavesNoRowsHolds == Spec => []DeletedLeavesNoRows
<1>1. RowInv /\ [Next]_vars => RowInv'
  BY TypeStep, OwnStep, GoneStep DEF RowInv
<1>2. RowInv => DeletedLeavesNoRows
  BY DEF RowInv
<1> QED BY <1>1, <1>2, InitRows, PTL DEF Spec
=============================================================================
