------------------------- MODULE SummarizerFlowProofs ------------------------
(***************************************************************************)
(* The summarizer implements SessionFlow, for every number of sessions,    *)
(* tracks, stops, runs and deletes, refused commands and crashes; and what *)
(* participants said is not lost: each file is there until its text is,    *)
(* each text until it is in the transcript.  Both hold of a session until  *)
(* two goroutines have been at work on it at once.                         *)
(***************************************************************************)
EXTENDS SummarizerProofs

USE RowsAssumption, CaptureAssumption, SummarizerAssumption
USE DEF columns, rows, disk, store, tracks, bot, capture, local, pipeline, HandlerAt, TrackAt

At(p, s) == rpc[p] # "idle" /\ work[p] = s

(* A stop that has found its session and not yet ended it.                 *)
Early == {"check", "room", "wait", "update"}

EarlyStage == \A st \in Stops : hpc[st] \in Early /\ target[st] \notin shared =>
    status[target[st]] \in {"STARTED", "none"}

(* A run past the read of its stage finds the status it has read or has    *)
(* written, or no row.                                                     *)
AtStage == \A p \in Runs : work[p] \notin shared =>
    /\ rpc[p] \in {"tchunks", "tshort", "tloop", "tsave", "tnone", "tdone"}
          => status[work[p]] \in {"CAPTURED", "none"}
    /\ rpc[p] \in {"tfiles", "tdelete", "ntexts", "nstatus"}
          => status[work[p]] \in {"TRANSCRIBED", "none"}
    /\ rpc[p] \in {"nsave", "ndelete", "sgenerate", "sfail", "sstatus"}
          => status[work[p]] \in {"NORMALIZED", "none"}

(* The error goes with the row.                                            *)
ErrHasRow == \A s \in err : status[s] # "none"

FlowInv == QuietInv /\ EarlyStage /\ AtStage /\ ErrHasRow

(* Nothing is there yet.                                                   *)
LEMMA InitFlow == Init => FlowInv
<1> SUFFICES ASSUME Init PROVE FlowInv
  OBVIOUS
<1>1. QuietInv
  BY InitQuiet
<1>2. EarlyStage /\ AtStage /\ ErrHasRow
  BY DEF EarlyStage, Early, AtStage, ErrHasRow, Init, StoreInit, CaptureInit, PipelineInit
<1> QED BY <1>1, <1>2 DEF FlowInv

(* On a session that is not shared there is one goroutine at a time.       *)
LEMMA NobodyElse ==
  ASSUME MeetNoted, NEW s \in Sessions, s \notin shared
  PROVE  /\ \A p, q \in Runs : At(p, s) /\ At(q, s) => p = q
         /\ \A p \in Runs : At(p, s) => ~ Joining(s)
         /\ \A st \in Stops : Stopping(st, s) => ~ Joining(s)
         /\ \A st \in Stops, p \in Runs : Stopping(st, s) => ~ At(p, s)
         /\ \A st, x \in Stops : Stopping(st, s) /\ Stopping(x, s) => st = x
<1>1. \A a, b \in AtWork(s) : a = b
  BY DEF MeetNoted, Meet
<1>2. \A p \in Runs : At(p, s) => p \in AtWork(s)
  BY DEF At, AtWork
<1>3. \A st \in Stops : Stopping(st, s) => st \in AtWork(s)
  BY DEF AtWork
<1>4. Joining(s) => s \in AtWork(s)
  BY DEF AtWork
<1>5. s \notin Runs /\ s \notin Stops /\ \A st \in Stops : st \notin Runs
  OBVIOUS
<1> QED BY <1>1, <1>2, <1>3, <1>4, <1>5

-----------------------------------------------------------------------------
(* What a step does to one session.                                        *)

(* A run writes to no other session's row.                                 *)
LEMMA RunElsewhere ==
  ASSUME TypeInv, NEW p \in Runs, RunStep(p), NEW s \in Sessions, work[p] # s
  PROVE  status'[s] = status[s] /\ (s \in err' <=> s \in err)
<1> USE DEF TypeInv, TypeOK, StoreTypeOK
<1>1. CASE TStep(p)
  BY <1>1 DEF TStep, TGet, TChunks, TGiveUp, TWhisper, TSave, TLoopEnds, TDone,
              TFiles, TDelete, UpdateStatus
<1>2. CASE NStep(p)
  BY <1>2 DEF NStep, NGet, NTexts, NStatus, NSave, NDelete, UpdateStatus
<1>3. CASE SStep(p)
  BY <1>3 DEF SStep, SGet, SGenerate, SFail, SStatus, SSave, UpdateStatus
<1> QED BY <1>1, <1>2, <1>3 DEF RunStep

(* A run that takes no step is begun, ended by a crash, or left alone.     *)
LEMMA RunMoves ==
  ASSUME TypeInv, [Next]_vars, NEW p \in Runs, ~ RunStep(p)
  PROVE  \/ /\ rpc'[p] = rpc[p] /\ work'[p] = work[p] /\ copy'[p] = copy[p]
            /\ todo'[p] = todo[p] /\ cur'[p] = cur[p]
            /\ p \in wrote' <=> p \in wrote
         \/ Crash /\ rpc'[p] = "idle" /\ p \notin wrote' /\ copy'[p] = NoCopy
         \/ /\ rpc[p] = "idle" /\ rpc'[p] \in {"tget", "nget", "sget"}
            /\ copy'[p] = copy[p]
            /\ p \in wrote' <=> p \in wrote
<1> DEFINE Same == /\ rpc'[p] = rpc[p] /\ work'[p] = work[p] /\ copy'[p] = copy[p]
                   /\ todo'[p] = todo[p] /\ cur'[p] = cur[p]
                   /\ p \in wrote' <=> p \in wrote
           Begun == /\ rpc[p] = "idle" /\ rpc'[p] \in {"tget", "nget", "sget"}
                    /\ copy'[p] = copy[p]
                    /\ p \in wrote' <=> p \in wrote
<1> USE DEF TypeInv, TypeOK, PipelineTypeOK
<1>1. CASE UNCHANGED pipeline
  BY <1>1
<1>2. ASSUME NEW q \in Runs, NEW s, NEW label \in {"tget", "nget", "sget"},
             Begin(q, s, label)
      PROVE  Same \/ Begun
  BY <1>2 DEF Begin, RunAt
<1>3. ASSUME NEW st \in Stops, StopEnds(st) PROVE Same \/ Begun
  BY <1>1, <1>2, <1>3 DEF StopEnds
<1>4. ASSUME NEW q \in Runs, NEW s \in Sessions, Tick(q, s) PROVE Same \/ Begun
  BY <1>2, <1>4 DEF Tick, TickTranscription, TickNormalization,
                    TickSummarization, Hire
<1>5. ASSUME NEW q \in Runs, q # p, RunStep(q) PROVE Same
  <2>1. rpc'[p] = rpc[p] /\ work'[p] = work[p]
    BY <1>5, RunEffect
  <2>2. CASE Return(q)
    BY <1>5, <2>1, <2>2 DEF Return
  <2>3. CASE UNCHANGED local
    BY <2>1, <2>3
  <2>4. CASE TSave(q) \/ NTexts(q) \/ TChunks(q) \/ \E c \in Chunks : TWhisper(q, c)
    BY <1>5, <2>1, <2>2, <2>4 DEF TSave, NTexts, TChunks, TWhisper
  <2> QED BY <1>5, <2>2, <2>3, <2>4 DEF RunStep, TStep, NStep, SStep, TGet,
          TGiveUp, TLoopEnds, TDone, TFiles, TDelete, NGet, NStatus, NSave,
          NDelete, SGet, SGenerate, SFail, SStatus, SSave, Proceed, StartNext
<1>6. CASE Crash
  BY <1>6 DEF Crash
<1> QED BY <1>1, <1>3, <1>4, <1>5, <1>6 DEF Next, Step, vars

(* Who writes the status or the error of a session.                        *)
LEMMA ColumnWriters ==
  ASSUME TypeInv, [Next]_vars, NEW s \in Sessions
  PROVE  \/ status'[s] = status[s] /\ (s \in err' <=> s \in err)
         \/ StartCreate(s) \/ JoinFailed(s)
         \/ \E st \in Stops : StopUpdate(st) /\ target[st] = s
         \/ \E p \in Runs : RunStep(p) /\ At(p, s)
         \/ \E d \in Deletes : DeleteRow(d) /\ Doomed[d] = s
<1> DEFINE Same == status'[s] = status[s] /\ (s \in err' <=> s \in err)
<1> USE DEF TypeInv, TypeOK, StoreTypeOK
<1>1. ASSUME UNCHANGED <<status, err>> PROVE Same
  BY <1>1
<1>2. ASSUME NEW x \in Sessions, StartCheck(x) \/ StartStep(x)
      PROVE  Same \/ StartCreate(s) \/ JoinFailed(s)
  <2>1. CASE StartCreate(x) /\ x # s
    BY <2>1 DEF StartCreate
  <2>2. CASE JoinFailed(x) /\ x # s
    BY <2>2 DEF JoinFailed, UpdateStatus
  <2> QED BY <1>1, <1>2, <2>1, <2>2 DEF StartStep, StartCheck, JoinConnect, JoinStore
<1>3. ASSUME NEW t \in Tracks,
             Subscribe(t) \/ TrackPacket(t) \/ TrackEof(t) \/ TrackStep(t)
      PROVE  UNCHANGED <<status, err>>
  BY <1>3 DEF Subscribe, TrackPacket, TrackEof, TrackStep, TrackMkdir, TrackOpen, TrackSave
<1>4. ASSUME NEW st \in Stops, \/ StopFind(st) \/ StopCheck(st) \/ StopRoom(st)
                               \/ StopWait(st) \/ EndRoom(st) \/ StopEnds(st)
      PROVE  UNCHANGED <<status, err>>
  BY <1>4 DEF StopFind, StopCheck, StopRoom, StopWait, EndRoom, StopEnds, StopCount
<1>5. ASSUME NEW st \in Stops, StopUpdate(st), target[st] # s PROVE Same
  BY <1>5 DEF StopUpdate, UpdateStatus
<1>6. ASSUME NEW p \in Runs, RunStep(p), ~ At(p, s) PROVE Same
  BY <1>6, RunEffect, RunElsewhere DEF At
<1>7. ASSUME NEW p \in Runs, NEW x \in Sessions, Tick(p, x)
      PROVE  UNCHANGED <<status, err>>
  BY <1>7 DEF Tick, TickTranscription, TickNormalization, TickSummarization, Hire
<1>8. ASSUME NEW d \in Deletes, DeleteFind(d) \/ DeleteStep(d)
      PROVE  Same \/ (DeleteRow(d) /\ Doomed[d] = s)
  BY <1>8 DEF DeleteFind, DeleteStep, DeleteFiles, DeleteChunks, DeleteTexts, DeleteRow
<1>9. CASE Crash \/ UNCHANGED vars \/ \E x \in Sessions : Age(x)
  BY <1>1, <1>9 DEF Crash, vars, Age
<1> QED BY <1>1, <1>2, <1>3, <1>4, <1>5, <1>6, <1>7, <1>8, <1>9
        DEF Next, Step, CaptureNext, StopStep

(* The run's own label and status after its step.                          *)
LEMMA RunStage ==
  ASSUME TypeInv, AtStage, NEW p \in Runs, RunStep(p), work[p] \notin shared
  PROVE  /\ rpc'[p] \in {"tchunks", "tshort", "tloop", "tsave", "tnone", "tdone"}
                => status'[work[p]] \in {"CAPTURED", "none"}
         /\ rpc'[p] \in {"tfiles", "tdelete", "ntexts", "nstatus"}
                => status'[work[p]] \in {"TRANSCRIBED", "none"}
         /\ rpc'[p] \in {"nsave", "ndelete", "sgenerate", "sfail", "sstatus"}
                => status'[work[p]] \in {"NORMALIZED", "none"}
<1> USE DEF TypeInv, TypeOK, StoreTypeOK, PipelineTypeOK, AtStage
<1>1. CASE TStep(p)
  <2>1. CASE TDone(p)
    BY <1>1, <2>1 DEF TDone, UpdateStatus, Proceed, Return, RunAt, Assigned
  <2>2. CASE TGiveUp(p)
    BY <1>1, <2>2 DEF TGiveUp, Return, RunAt
  <2>3. CASE TGet(p) \/ TChunks(p)
    BY <1>1, <2>3 DEF TGet, TChunks, Proceed, Return, RunAt
  <2>4. CASE TSave(p) \/ TLoopEnds(p) \/ TFiles(p) \/ TDelete(p) \/ (\E c \in Chunks : TWhisper(p, c))
    BY <1>1, <2>4 DEF TSave, TLoopEnds, TFiles, TDelete, TWhisper, StartNext, RunAt
  <2> QED BY <1>1, <2>1, <2>2, <2>3, <2>4 DEF TStep
<1>2. CASE NStep(p)
  <2>1. CASE NStatus(p)
    BY <1>2, <2>1 DEF NStatus, UpdateStatus, Proceed, Return, RunAt, Assigned
  <2>2. CASE NGet(p) \/ NTexts(p)
    BY <1>2, <2>2 DEF NGet, NTexts, Proceed, Return, RunAt
  <2>3. CASE NSave(p) \/ NDelete(p)
    BY <1>2, <2>3 DEF NSave, NDelete, Proceed, Return, StartNext, RunAt
  <2> QED BY <1>2, <2>1, <2>2, <2>3 DEF NStep
<1>3. CASE SStep(p)
  BY <1>3 DEF SStep, SGet, SGenerate, SFail, SStatus, SSave, UpdateStatus, Proceed,
              Return, RunAt
<1> QED BY <1>1, <1>2, <1>3 DEF RunStep

(* The stages, and the moves a session's row may make.                     *)
Following == [STARTED |-> "CAPTURED", CAPTURED |-> "TRANSCRIBED",
              TRANSCRIBED |-> "NORMALIZED", NORMALIZED |-> "SUMMARIZED"]

Stays(s)    == status'[s] = status[s] /\ (s \in err' <=> s \in err)
Begins(s)   == status[s] = "none" /\ status'[s] = "STARTED" /\ (s \in err' <=> s \in err)
Advances(s) == /\ status[s] \in DOMAIN Following /\ status'[s] = Following[status[s]]
               /\ s \in err' <=> s \in err
Fails(s)    == status[s] \in DOMAIN Following /\ status'[s] = status[s] /\ s \in err'
Goes(s)     == status[s] # "none" /\ status'[s] = "none" /\ s \notin err'

(* A run moves its own session along the flow.                             *)
LEMMA RunFlow ==
  ASSUME TypeInv, AtStage, NEW p \in Runs, RunStep(p), NEW s \in Sessions,
         work[p] = s, s \notin shared
  PROVE  Stays(s) \/ Advances(s) \/ Fails(s)
<1> USE DEF TypeInv, TypeOK, StoreTypeOK, PipelineTypeOK, AtStage
<1>1. ASSUME NEW st \in Stages, NEW ok \in BOOLEAN, UpdateStatus(ok, s, st, FALSE),
             <<status[s], st>> \in {<<"CAPTURED", "TRANSCRIBED">>,
                 <<"TRANSCRIBED", "NORMALIZED">>, <<"NORMALIZED", "SUMMARIZED">>,
                 <<"none", st>>}
      PROVE  Stays(s) \/ Advances(s)
  BY <1>1 DEF UpdateStatus, Stays, Advances, Following
<1>2. ASSUME NEW st \in Stages, NEW ok \in BOOLEAN, UpdateStatus(ok, s, st, TRUE),
             status[s] \in {st, "none"}, st # "SUMMARIZED"
      PROVE  Stays(s) \/ Fails(s)
  BY <1>2 DEF UpdateStatus, Stays, Fails, Following, Stages
<1>4. CASE TGiveUp(p)
  BY <1>2, <1>4 DEF TGiveUp, Stages
<1>5. CASE TDone(p)
  BY <1>1, <1>5 DEF TDone, Stages
<1>6. CASE NStatus(p)
  BY <1>1, <1>6 DEF NStatus, Stages
<1>7. CASE SFail(p)
  BY <1>2, <1>7 DEF SFail, Stages
<1>8. CASE SStatus(p)
  BY <1>1, <1>8 DEF SStatus, Stages
<1>9. CASE UNCHANGED <<status, err>>
  BY <1>9 DEF Stays
<1> QED BY <1>4, <1>5, <1>6, <1>7, <1>8, <1>9 DEF RunStep, TStep, NStep, SStep, TGet,
        TChunks, TWhisper, TSave, TLoopEnds, TFiles, TDelete, NGet, NTexts, NSave,
        NDelete, SGet, SGenerate, SSave

(* So does whoever else writes to a session's row that is not shared.      *)
LEMMA SessionFlows ==
  ASSUME FlowInv, [Next]_vars, NEW s \in Sessions, s \notin shared'
  PROVE  Stays(s) \/ Begins(s) \/ Advances(s) \/ Fails(s) \/ Goes(s)
<1> USE DEF FlowInv, QuietInv, TypeInv, TypeOK, StoreTypeOK
<1>0. s \notin shared
  BY MeetStep
<1>1. CASE StartCreate(s)
  <2>1. status[s] = "none"
    BY <1>1 DEF StartCreate, Born, Created, Joining, Returned
  <2> QED BY <1>1, <2>1 DEF StartCreate, Stays, Begins
<1>2. CASE JoinFailed(s)
  <2>1. status[s] \in {"STARTED", "none"}
    BY <1>0, <1>2 DEF JoinFailed, LaterEnded, Later, Ended, Returned
  <2> QED BY <1>2, <2>1 DEF JoinFailed, UpdateStatus, Stays, Fails, Following
<1>3. ASSUME NEW st \in Stops, StopUpdate(st), target[st] = s PROVE Stays(s) \/ Advances(s)
  <2>1. status[s] \in {"STARTED", "none"}
    BY <1>0, <1>3 DEF StopUpdate, EarlyStage, Early
  <2> QED BY <1>3, <2>1 DEF StopUpdate, UpdateStatus, Stays, Advances, Following
<1>4. ASSUME NEW d \in Deletes, DeleteRow(d), Doomed[d] = s PROVE Stays(s) \/ Goes(s)
  BY <1>4 DEF DeleteRow, ErrHasRow, Stays, Goes
<1> QED BY <1>0, <1>1, <1>2, <1>3, <1>4, RunFlow, ColumnWriters DEF At, Stays

(* Nobody sets an error without a row.                                     *)
LEMMA ErrHasRowStep ==
  ASSUME TypeInv, ErrHasRow, [Next]_vars
  PROVE  ErrHasRow'
<1> SUFFICES ASSUME NEW s \in Sessions, s \in err' PROVE status'[s] # "none"
  BY TypeStep DEF ErrHasRow, TypeInv, TypeOK, StoreTypeOK
<1> USE DEF TypeInv, TypeOK, StoreTypeOK, ErrHasRow
<1>1. CASE StartCreate(s)
  BY <1>1 DEF StartCreate
<1>2. CASE JoinFailed(s)
  BY <1>2 DEF JoinFailed, UpdateStatus
<1>3. ASSUME NEW st \in Stops, StopUpdate(st) PROVE status'[s] # "none"
  BY <1>3 DEF StopUpdate, UpdateStatus
<1>4. ASSUME NEW d \in Deletes, DeleteRow(d), Doomed[d] = s PROVE status'[s] # "none"
  BY <1>4 DEF DeleteRow
<1>5. ASSUME NEW p \in Runs, RunStep(p), At(p, s) PROVE status'[s] # "none"
  <2>1. CASE UNCHANGED <<status, err>>
    BY <2>1
  <2>2. ASSUME NEW st \in Stages, NEW ok \in BOOLEAN, NEW failed \in BOOLEAN,
               UpdateStatus(ok, work[p], st, failed)
        PROVE  status'[s] # "none"
    BY <1>5, <2>2 DEF UpdateStatus, At, Stages
  <2>3. CASE TGiveUp(p) \/ TDone(p)
    BY <2>2, <2>3 DEF TGiveUp, TDone, Stages
  <2>4. CASE NStatus(p)
    BY <2>2, <2>4 DEF NStatus, Stages
  <2>5. CASE SFail(p) \/ SStatus(p)
    BY <2>2, <2>5 DEF SFail, SStatus, Stages
  <2> QED BY <1>5, <2>1, <2>3, <2>4, <2>5 DEF RunStep, TStep, NStep, SStep, TGet,
        TChunks, TWhisper, TSave, TLoopEnds, TFiles, TDelete, NGet, NTexts, NSave,
        NDelete, SGet, SGenerate, SSave
<1> QED BY <1>1, <1>2, <1>3, <1>4, <1>5, ColumnWriters

(* A stop on its way has nobody who ends its session before it.            *)
LEMMA EarlyStageStep ==
  ASSUME FlowInv, [Next]_vars
  PROVE  EarlyStage'
<1> SUFFICES ASSUME NEW st \in Stops, hpc'[st] \in Early, NEW s, s = target'[st],
                    s \notin shared'
             PROVE  status'[s] \in {"STARTED", "none"}
  BY DEF EarlyStage
<1> USE DEF FlowInv, QuietInv
<1>0. s \in Sessions /\ s \notin shared
  BY TypeStep, MeetStep DEF TypeInv, Found, Early
<1>1. CASE StopFind(st)
  <2>1. CASE Leave(st)
    BY <2>1 DEF Leave, Early, TypeInv, TypeOK, CaptureTypeOK
  <2>2. ASSUME NEW x \in Active(MeetingOf[st]), target' = [target EXCEPT ![st] = x]
        PROVE  status'[s] = "STARTED"
    <3>1. s = x
      BY <2>2 DEF TypeInv, TypeOK, CaptureTypeOK
    <3> QED BY <1>1, <3>1 DEF StopFind, Active
  <2> QED BY <1>1, <2>1, <2>2 DEF StopFind
<1>2. CASE target[st] = s /\ hpc[st] \in Early
  <2>1. Stopping(st, s) /\ status[s] \in {"STARTED", "none"}
    BY <1>0, <1>2 DEF EarlyStage, Stopping, Early
  <2>2. CASE Stays(s) \/ Begins(s) \/ Fails(s) \/ Goes(s)
    BY <2>1, <2>2 DEF Stays, Begins, Fails, Goes
  <2>3. CASE StartCreate(s)
    BY <1>0, <2>1, <2>3 DEF StartCreate, TypeInv, TypeOK, StoreTypeOK
  <2>4. CASE JoinFailed(s)
    BY <1>0, <2>1, <2>4, NobodyElse DEF JoinFailed, Joining
  <2>5. ASSUME NEW x \in Stops, StopUpdate(x), target[x] = s
        PROVE  status'[s] \in {"STARTED", "none"}
    <3>1. x = st
      BY <1>0, <2>1, <2>5, NobodyElse DEF StopUpdate, Stopping
    <3>2. hpc'[st] \in {"count", "end", "done"}
      BY <2>5, <3>1 DEF StopUpdate, Leave, TypeInv, TypeOK, CaptureTypeOK
    <3> QED BY <3>2 DEF Early
  <2>6. ASSUME NEW p \in Runs, At(p, s) PROVE FALSE
    BY <1>0, <2>1, <2>6, NobodyElse
  <2>7. ASSUME NEW d \in Deletes, DeleteRow(d), Doomed[d] = s
        PROVE  status'[s] \in {"STARTED", "none"}
    BY <1>0, <2>1, <2>7 DEF DeleteRow, TypeInv, TypeOK, StoreTypeOK
  <2> QED BY <1>0, <2>2, <2>3, <2>4, <2>5, <2>6, <2>7, ColumnWriters DEF Stays
<1>3. CASE StopStep(st) \/ (\E ok \in BOOLEAN : StopCount(st, ok))
  <2>1. target[st] = s /\ hpc[st] \in Early
    BY <1>3 DEF StopStep, StopCheck, StopRoom, StopWait, StopUpdate, EndRoom, StopCount,
                Leave, Early, TypeInv, TypeOK, CaptureTypeOK
  <2> QED BY <1>2, <2>1
<1>4. CASE Crash
  BY <1>4 DEF Crash, Early, TypeInv, TypeOK, CaptureTypeOK
<1> QED BY <1>1, <1>2, <1>3, <1>4, StopMoves

(* A run finds the status it has left.                                     *)
LEMMA AtStageStep ==
  ASSUME FlowInv, [Next]_vars
  PROVE  AtStage'
<1> USE DEF FlowInv, QuietInv
<1>1. ASSUME NEW p \in Runs, NEW s, s = work'[p], s \notin shared', rpc'[p] # "idle"
      PROVE  \/ RunStep(p) /\ work[p] = s /\ s \notin shared
             \/ rpc'[p] \in {"tget", "nget", "sget"}
             \/ rpc'[p] = rpc[p] /\ work[p] = s /\ s \notin shared
                /\ status'[s] \in {status[s], "none"}
  <2>0. s \in Sessions /\ s \notin shared
    BY <1>1, TypeStep, MeetStep DEF TypeInv, Assigned
  <2>1. CASE RunStep(p)
    BY <1>1, <2>0, <2>1, RunEffect
  <2>2. CASE ~ RunStep(p) /\ rpc'[p] = rpc[p] /\ work'[p] = work[p]
    <3>1. At(p, s)
      BY <1>1, <2>2 DEF At
    <3>2. ASSUME NEW q \in Runs, RunStep(q), At(q, s) PROVE FALSE
      BY <2>0, <2>2, <3>1, <3>2, NobodyElse
    <3>3. ~ StartCreate(s)
      BY <2>0, <3>1 DEF Born, Created, Joining, Returned, At, StartCreate
    <3>4. ~ JoinFailed(s)
      BY <2>0, <3>1, NobodyElse DEF JoinFailed, Joining
    <3>5. ASSUME NEW st \in Stops, StopUpdate(st), target[st] = s PROVE FALSE
      BY <2>0, <3>1, <3>5, NobodyElse DEF StopUpdate, Stopping
    <3>6. ASSUME NEW d \in Deletes, DeleteRow(d), Doomed[d] = s
          PROVE  status'[s] \in {status[s], "none"}
      BY <2>0, <3>6 DEF DeleteRow, TypeInv, TypeOK, StoreTypeOK
    <3> QED BY <1>1, <2>0, <2>2, <3>2, <3>3, <3>4, <3>5, <3>6, ColumnWriters
  <2> QED BY <1>1, <2>1, <2>2, RunMoves
<1>2. ASSUME NEW p \in Runs, RunStep(p), work[p] \notin shared, work'[p] = work[p]
      PROVE  work'[p] \notin shared' =>
               /\ rpc'[p] \in {"tchunks", "tshort", "tloop", "tsave", "tnone", "tdone"}
                     => status'[work'[p]] \in {"CAPTURED", "none"}
               /\ rpc'[p] \in {"tfiles", "tdelete", "ntexts", "nstatus"}
                     => status'[work'[p]] \in {"TRANSCRIBED", "none"}
               /\ rpc'[p] \in {"nsave", "ndelete", "sgenerate", "sfail", "sstatus"}
                     => status'[work'[p]] \in {"NORMALIZED", "none"}
  BY <1>2, RunStage
<1> QED BY <1>1, <1>2 DEF AtStage

(* The invariant is inductive.                                             *)
LEMMA FlowInvStep == FlowInv /\ [Next]_vars => FlowInv'
  BY QuietStep, EarlyStageStep, AtStageStep, ErrHasRowStep DEF FlowInv, QuietInv

-----------------------------------------------------------------------------
(* What a step does to the other sessions: nothing that is seen.           *)

Untouched(s) == Stays(s) /\ AtWork(s)' \subseteq AtWork(s)

(* The steps of a stop are about the session it has found.                 *)
LEMMA StopElsewhere ==
  ASSUME TypeInv, NEW st \in Stops, UNCHANGED <<rpc, work>>,
         StopFind(st) \/ StopStep(st), NEW s \in Sessions, target'[st] # s
  PROVE  Untouched(s)
<1> USE DEF TypeInv, TypeOK, StoreTypeOK, CaptureTypeOK
<1>1. /\ \A x \in Stops : x # st => hpc'[x] = hpc[x] /\ target'[x] = target[x]
      /\ hpc'[s] = hpc[s]
  <2>1. CASE StopFind(st)
    BY <2>1 DEF StopFind, Leave
  <2>2. CASE StopCheck(st) \/ StopRoom(st) \/ StopWait(st)
    BY <2>2 DEF StopCheck, StopRoom, StopWait, Leave
  <2>3. CASE StopUpdate(st)
    <3>1. target' = target /\ \E label : hpc' = [hpc EXCEPT ![st] = label]
      BY <2>3 DEF StopUpdate, Leave
    <3> QED BY <3>1
  <2>4. CASE EndRoom(st)
    BY <2>4 DEF EndRoom
  <2> QED BY <2>1, <2>2, <2>3, <2>4 DEF StopStep
<1>2. AtWork(s)' \subseteq AtWork(s)
  BY <1>1 DEF AtWork, Joining, Stopping
<1>3. Stays(s)
  <2>1. CASE StopUpdate(st)
    BY <2>1 DEF Stays, StopUpdate, UpdateStatus
  <2>2. CASE UNCHANGED <<status, err>>
    BY <2>2 DEF Stays
  <2> QED BY <2>1, <2>2 DEF StopFind, StopStep, StopCheck, StopRoom, StopWait, EndRoom
<1> QED BY <1>2, <1>3 DEF Untouched

(* Those of a start about its own.                                         *)
LEMMA StartElsewhere ==
  ASSUME TypeInv, NEW x \in Sessions, UNCHANGED <<rpc, work>>,
         StartCheck(x) \/ StartStep(x), NEW s \in Sessions, s # x
  PROVE  Untouched(s)
<1> USE DEF TypeInv, TypeOK, StoreTypeOK, CaptureTypeOK
<1>1. /\ \A st \in Stops : hpc'[st] = hpc[st]
      /\ hpc'[s] = hpc[s] /\ target' = target
  BY DEF StartCheck, StartStep, StartCreate, JoinConnect, JoinStore, JoinFailed
<1>2. AtWork(s)' \subseteq AtWork(s)
  BY <1>1 DEF AtWork, Joining, Stopping
<1>3. Stays(s)
  BY DEF Stays, StartCheck, StartStep, StartCreate, JoinConnect, JoinStore, JoinFailed,
         UpdateStatus
<1> QED BY <1>2, <1>3 DEF Untouched

(* A run begins on the session it is told.                                 *)
LEMMA BeginElsewhere ==
  ASSUME TypeInv, NEW p \in Runs, NEW x, NEW label, Begin(p, x, label),
         UNCHANGED <<target, status, err>>, NEW s \in Sessions, s # x,
         \A st \in Stops : Stopping(st, s)' => Stopping(st, s), Joining(s)' => Joining(s)
  PROVE  Untouched(s)
<1> USE DEF TypeInv, TypeOK, PipelineTypeOK
<1>1. \A q \in Runs : rpc'[q] # "idle" /\ work'[q] = s => rpc[q] # "idle" /\ work[q] = s
  BY DEF Begin, RunAt
<1>2. AtWork(s)' \subseteq AtWork(s)
  BY <1>1 DEF AtWork
<1> QED BY <1>2 DEF Untouched, Stays

(* Each step is about one session at most.                                 *)
LEMMA OneSession ==
  ASSUME TypeInv, [Next]_vars
  PROVE  \/ \A s \in Sessions : Untouched(s)
         \/ \E x \in Sessions : \A s \in Sessions : s # x => Untouched(s)
<1> DEFINE Goal == \/ \A s \in Sessions : Untouched(s)
                   \/ \E x \in Sessions : \A s \in Sessions : s # x => Untouched(s)
<1>1. ASSUME UNCHANGED <<status, err, hpc, target, rpc, work>> PROVE Goal
  BY <1>1 DEF Untouched, Stays, AtWork, Joining, Stopping
<1>2. ASSUME NEW x \in Sessions, StartCheck(x) \/ StartStep(x), UNCHANGED pipeline PROVE Goal
  BY <1>2, StartElsewhere
<1>3. ASSUME NEW t \in Tracks, Subscribe(t) \/ TrackPacket(t) \/ TrackEof(t) \/ TrackStep(t),
             UNCHANGED pipeline
      PROVE  Goal
  <2>1. UNCHANGED <<status, err, hpc, target>>
    BY <1>3 DEF Subscribe, TrackPacket, TrackEof, TrackStep, TrackMkdir, TrackOpen, TrackSave
  <2> QED BY <1>1, <1>3, <2>1
<1>4. ASSUME NEW st \in Stops, StopFind(st) \/ StopStep(st), UNCHANGED pipeline PROVE Goal
  <2>1. \A s \in Sessions : target'[st] # s => Untouched(s)
    BY <1>4, StopElsewhere
  <2> QED BY <2>1
<1>5. ASSUME NEW st \in Stops, StopEnds(st) PROVE Goal
  <2>0. /\ UNCHANGED <<target, status, err>> /\ target[st] \in Sessions
        /\ \A x \in Stops : x # st => hpc'[x] = hpc[x]
        /\ \A s \in Sessions : hpc'[s] = hpc[s]
        /\ hpc'[st] \in {"end", "done"}
    BY <1>5 DEF StopEnds, StopCount, Leave, TypeInv, TypeOK, CaptureTypeOK, Found
  <2>1. \A s \in Sessions, x \in Stops : Stopping(x, s)' => Stopping(x, s)
    BY <2>0 DEF Stopping
  <2>2. \A s \in Sessions : Joining(s)' => Joining(s)
    BY <2>0 DEF Joining
  <2>3. CASE UNCHANGED pipeline
    BY <2>0, <2>1, <2>2, <2>3 DEF Untouched, Stays, AtWork
  <2>4. ASSUME NEW p \in Runs, Begin(p, target[st], "tget") PROVE Goal
    BY <2>0, <2>1, <2>2, <2>4, BeginElsewhere
  <2> QED BY <1>5, <2>3, <2>4 DEF StopEnds
<1>6. ASSUME NEW p \in Runs, NEW x \in Sessions, Tick(p, x), UNCHANGED capture PROVE Goal
  <2>1. /\ UNCHANGED <<status, err>>
        /\ \E label \in {"tget", "nget", "sget"} : Begin(p, x, label)
    BY <1>6 DEF Tick, TickTranscription, TickNormalization, TickSummarization, Hire
  <2> QED BY <1>6, <2>1, BeginElsewhere DEF Stopping, Joining
<1>7. ASSUME NEW p \in Runs, RunStep(p), UNCHANGED capture PROVE Goal
  <2>1. /\ \A q \in Runs : q # p => rpc'[q] = rpc[q] /\ work'[q] = work[q]
        /\ rpc'[p] = "idle" \/ work'[p] = work[p]
        /\ rpc[p] # "idle" /\ work[p] \in Sessions
    BY <1>7, RunEffect
  <2>2. ASSUME NEW s \in Sessions, s # work[p] PROVE Untouched(s)
    <3>1. AtWork(s)' \subseteq AtWork(s)
      BY <1>7, <2>1, <2>2 DEF AtWork, Joining, Stopping
    <3>2. Stays(s)
      BY <1>7, <2>2, RunElsewhere DEF Stays
    <3> QED BY <3>1, <3>2 DEF Untouched
  <2> QED BY <2>1, <2>2
<1>8. ASSUME NEW d \in Deletes, DeleteFind(d) \/ DeleteStep(d), UNCHANGED <<capture, pipeline>>
      PROVE  Goal
  <2>1. ASSUME NEW s \in Sessions, s # Doomed[d] PROVE Untouched(s)
    BY <1>8, <2>1 DEF Untouched, Stays, AtWork, Joining, Stopping, DeleteFind, DeleteStep,
       DeleteFiles, DeleteChunks, DeleteTexts, DeleteRow, TypeInv, TypeOK, StoreTypeOK
  <2> QED BY <2>1
<1>9. ASSUME Crash, NEW s \in Sessions PROVE Untouched(s)
  <2>1. /\ ~ Joining(s)' /\ \A st \in Stops : ~ Stopping(st, s)'
        /\ \A p \in Runs : rpc'[p] = "idle"
    BY <1>9 DEF Crash, Joining, Stopping, TypeInv, TypeOK, CaptureTypeOK
  <2>2. AtWork(s)' = {}
    BY <2>1 DEF AtWork
  <2> QED BY <1>9, <2>2 DEF Crash, Untouched, Stays
<1>10. ASSUME NEW s \in Sessions, Age(s), UNCHANGED <<capture, pipeline>> PROVE Goal
  BY <1>1, <1>10 DEF Age
<1>11. CASE UNCHANGED vars
  BY <1>1, <1>11 DEF vars
<1> QED BY <1>2, <1>3, <1>4, <1>5, <1>6, <1>7, <1>8, <1>9, <1>10, <1>11
        DEF Next, Step, CaptureNext

-----------------------------------------------------------------------------
(* The mapping to the flow.                                                *)

Seen == [s \in Sessions |-> IF s \in shared THEN "shared" ELSE status[s]]
Flawed == err \ shared

(* An untouched session looks the same.                                    *)
LEMMA UntouchedSame ==
  ASSUME QuietInv, [Next]_vars, NEW s \in Sessions, Untouched(s)
  PROVE  Seen'[s] = Seen[s] /\ (s \in Flawed' <=> s \in Flawed)
<1>1. s \in shared' => s \in shared
  <2>1. CASE Next
    <3>1. Meet(s)' => Meet(s)
      BY DEF Untouched, Meet
    <3> QED BY <2>1, <3>1 DEF Next, Remember, QuietInv, MeetNoted
  <2>2. CASE UNCHANGED vars
    BY <2>2 DEF vars
  <2> QED BY <2>1, <2>2
<1>2. s \in shared => s \in shared'
  BY MeetStep DEF QuietInv
<1> QED BY <1>1, <1>2 DEF Untouched, Stays, Seen, Flawed

(* Every step is one of the flow.                                          *)
LEMMA FlowStep ==
  ASSUME FlowInv, [Next]_vars
  PROVE  [Flow!FlowNext]_<<Seen, Flawed>>
<1> USE DEF FlowInv, QuietInv
<1>0. TypeInv' /\ shared \subseteq shared'
  BY TypeStep, MeetStep
<1>1. Flawed \subseteq Sessions /\ Flawed' \subseteq Sessions
  BY <1>0 DEF Flawed, TypeInv, TypeOK, StoreTypeOK
<1>2. ASSUME \A s \in Sessions : Seen'[s] = Seen[s] /\ (s \in Flawed' <=> s \in Flawed)
      PROVE  UNCHANGED <<Seen, Flawed>>
  <2>1. Seen' = Seen
    BY <1>2 DEF Seen
  <2> QED BY <1>1, <1>2, <2>1
<1>3. CASE \A s \in Sessions : Untouched(s)
  BY <1>2, <1>3, UntouchedSame
<1>4. ASSUME NEW x \in Sessions, \A s \in Sessions : s # x => Untouched(s)
      PROVE  [Flow!FlowNext]_<<Seen, Flawed>>
  <2>1. \A s \in Sessions : s # x => Seen'[s] = Seen[s] /\ (s \in Flawed' <=> s \in Flawed)
    BY <1>4, UntouchedSame
  <2>2. Seen' = [Seen EXCEPT ![x] = Seen'[x]]
    BY <2>1 DEF Seen
  <2>3. CASE Seen'[x] = Seen[x] /\ (x \in Flawed' <=> x \in Flawed)
    BY <1>2, <2>1, <2>3
  <2>4. CASE x \in shared
    <3>1. Seen'[x] = Seen[x] /\ (x \in Flawed' <=> x \in Flawed)
      BY <1>0, <2>4 DEF Seen, Flawed
    <3> QED BY <2>3, <3>1
  <2>5. CASE x \notin shared /\ x \in shared'
    <3>1. Seen'[x] = "shared" /\ Flawed' = Flawed \ {x}
      BY <1>1, <2>1, <2>5 DEF Seen, Flawed
    <3>2. Flow!Share(x)
      BY <2>2, <3>1 DEF Flow!Share, Seen, Flawed
    <3> QED BY <3>2 DEF Flow!FlowNext
  <2>6. CASE x \notin shared'
    <3>0. /\ Seen[x] = status[x] /\ Seen'[x] = status'[x]
          /\ x \in Flawed <=> x \in err
          /\ x \in Flawed' <=> x \in err'
      BY <1>0, <2>6 DEF Seen, Flawed
    <3>1. CASE Stays(x)
      BY <2>3, <3>0, <3>1 DEF Stays
    <3>2. CASE Begins(x)
      <4>0. x \in Flawed' <=> x \in Flawed
        BY <3>0, <3>2 DEF Begins
      <4>1. Flawed' = Flawed
        BY <1>1, <2>1, <4>0
      <4>2. Flow!Create(x)
        BY <2>2, <3>0, <3>2, <4>1 DEF Begins, Flow!Create, Seen, Flawed
      <4> QED BY <4>2 DEF Flow!FlowNext
    <3>3. CASE Advances(x)
      <4>0. x \in Flawed' <=> x \in Flawed
        BY <3>0, <3>3 DEF Advances
      <4>1. Flawed' = Flawed
        BY <1>1, <2>1, <4>0
      <4>2. Flow!Advance(x)
        BY <2>2, <3>0, <3>3, <4>1 DEF Advances, Following, Flow!Advance, Flow!After, Seen, Flawed
      <4> QED BY <4>2 DEF Flow!FlowNext
    <3>4. CASE Fails(x)
      <4>1. Flawed' = Flawed \cup {x}
        BY <1>1, <2>1, <3>0, <3>4 DEF Fails
      <4>2. Seen' = Seen
        BY <2>1, <3>0, <3>4 DEF Fails, Seen
      <4>3. Flow!Fail(x)
        BY <3>0, <3>4, <4>1, <4>2 DEF Fails, Following, Flow!Fail, Flow!After, Seen, Flawed
      <4> QED BY <4>3 DEF Flow!FlowNext
    <3>5. CASE Goes(x)
      <4>1. Flawed' = Flawed \ {x}
        BY <1>1, <2>1, <3>0, <3>5 DEF Goes
      <4>2. status[x] # "shared"
        BY DEF TypeInv, TypeOK, StoreTypeOK, Stages
      <4>3. Flow!Delete(x)
        BY <2>2, <3>0, <3>5, <4>1, <4>2 DEF Goes, Flow!Delete, Seen, Flawed
      <4> QED BY <4>3 DEF Flow!FlowNext
    <3> QED BY <2>6, <3>1, <3>2, <3>3, <3>4, <3>5, SessionFlows
  <2> QED BY <2>4, <2>5, <2>6
<1> QED BY <1>3, <1>4, OneSession

(* A session moves through its stages one by one and never back, whatever  *)
(* is refused, retried, deleted or lost in a crash: StopSummarizer and the *)
(* three stages write a status only over the one before it, although       *)
(* UpdateStatus has no such condition, as long as no two goroutines are at *)
(* work on the session at once; where they are, nothing is promised.       *)
THEOREM FollowsFlowHolds == Spec => FollowsFlow
<1>1. FlowInv /\ [Next]_vars => FlowInv' /\ [Flow!FlowNext]_<<Seen, Flawed>>
  BY FlowInvStep, FlowStep
<1>2. Init => Flow!FlowInit
  BY DEF Init, StoreInit, Flow!FlowInit
<1>3. [Flow!FlowNext]_<<Seen, Flawed>> <=> [Flow!FlowNext]_Flow!flow
  BY DEF Flow!flow, Seen, Flawed
<1> QED BY <1>1, <1>2, <1>3, InitFlow, PTL DEF Spec, FollowsFlow, Flow!FlowSpec

-----------------------------------------------------------------------------
(* What participants said, in the sessions that are not shared.            *)

(* Before a session is normalized it has no transcript.                    *)
NoDocYet == \A s \in Sessions \ shared :
    status[s] \in {"none", "STARTED", "CAPTURED", "TRANSCRIBED"} => Doc(s) = {}

(* The document a run is about to store holds the texts that are there, it *)
(* is the first one, and the texts are in it before they are deleted.      *)
Copied == \A p \in Runs : work[p] \notin shared =>
    LET s == work[p] IN
    /\ rpc[p] \in {"nstatus", "nsave"} /\ Kept(s) =>
         \A c \in ChunksOf(s) : copy[p][c] = texts[c]
    /\ rpc[p] = "nsave" => Doc(s) = {}
    /\ rpc[p] = "ndelete" /\ Kept(s) => Texts(s) \subseteq Doc(s)

(* A positive successCount means that there is a text.                     *)
Counted == \A p \in Runs :
    /\ rpc[p] \in {"idle", "tget", "tchunks", "tshort"} => p \notin wrote
    /\ rpc[p] = "tdone" => p \in wrote
    /\ /\ rpc[p] \in {"tloop", "tsave", "tdone"} /\ p \in wrote
       /\ Kept(work[p]) /\ Own(work[p])
       => Texts(work[p]) # {}

(* The chunk a track writes has its file.                                  *)
Writing == \A t \in Tracks :
    /\ tpc[t] \in {"reading", "rotate", "last"}
    /\ Kept(SessionOf[t]) /\ Own(SessionOf[t])
    =>
        audio[Path(<<t, idx[t]>>)] # None

TextInv == FlowInv /\ RowInv /\ NoDocYet /\ Copied /\ Counted /\ Writing
           /\ StageHasInput /\ CapturedKeepsAudio

(* Nothing is there yet.                                                   *)
LEMMA InitText == Init => TextInv
<1> SUFFICES ASSUME Init PROVE TextInv
  OBVIOUS
<1>1. FlowInv /\ RowInv
  BY InitFlow, InitRows
<1>2. NoDocYet
  BY DEF NoDocYet, Init, StoreInit, Doc, ChunksOf
<1>3. Copied /\ Counted /\ Writing /\ StageHasInput /\ CapturedKeepsAudio
  BY DEF Copied, Counted, Writing, StageHasInput, CapturedKeepsAudio, Init, StoreInit,
         CaptureInit, PipelineInit
<1> QED BY <1>1, <1>2, <1>3 DEF TextInv

-----------------------------------------------------------------------------
(* Who writes what.                                                        *)

(* A session that no delete has begun on after the step had none before,   *)
(* and no delete has taken the step.                                       *)
LEMMA KeptBack ==
  ASSUME TypeInv, [Next]_vars, NEW s \in Sessions, Kept(s)'
  PROVE  /\ Kept(s)
         /\ \A d \in Deletes : DeleteFind(d) \/ DeleteStep(d) => Doomed[d] # s
<1> USE DEF TypeInv, TypeOK, Kept
<1>1. ASSUME NEW d \in Deletes, DeleteFind(d) \/ DeleteStep(d) PROVE dpc'[d] # "init"
  BY <1>1 DEF DeleteFind, DeleteStep, DeleteFiles, DeleteChunks, DeleteTexts,
              DeleteRow, DeleteAt
<1>2. ASSUME NEW d \in Deletes, dpc'[d] = "init" PROVE dpc[d] = "init"
  <2>1. ASSUME NEW x \in Deletes, DeleteFind(x) \/ DeleteStep(x) PROVE dpc[d] = "init"
    BY <1>2, <2>1 DEF DeleteFind, DeleteStep, DeleteFiles, DeleteChunks, DeleteTexts,
                DeleteRow, DeleteAt
  <2>2. CASE Crash
    BY <1>2, <2>2 DEF Crash
  <2> QED BY <1>2, <2>1, <2>2 DEF Next, Step, vars
<1> QED BY <1>1, <1>2

(* The texts of a session change only when a run on it saves one or        *)
(* deletes them all, or with the session.                                  *)
LEMMA TextWriters ==
  ASSUME TypeInv, OwnChunks, [Next]_vars, NEW s \in Sessions
  PROVE  \/ \A c \in ChunksOf(s) : texts'[c] = texts[c]
         \/ \E p \in Runs : At(p, s) /\ (TSave(p) \/ NDelete(p))
         \/ ~ Kept(s)' /\ Texts(s)' = {}
<1> DEFINE Same == \A c \in ChunksOf(s) : texts'[c] = texts[c]
<1> USE DEF TypeInv, TypeOK, StoreTypeOK
<1>1. CASE UNCHANGED texts
  BY <1>1
<1>2. CASE CaptureNext
  BY <1>1, <1>2 DEF CaptureNext, StartCheck, StartStep, StartCreate, JoinConnect,
     JoinStore, JoinFailed, Subscribe, TrackPacket, TrackEof, TrackStep, TrackMkdir,
     TrackOpen, TrackSave, StopFind, StopStep, StopCheck, StopRoom, StopWait,
     StopUpdate, EndRoom
<1>3. ASSUME NEW p \in Runs, RunStep(p), At(p, s), ~ TSave(p), ~ NDelete(p) PROVE Same
  BY <1>1, <1>3 DEF RunStep, TStep, NStep, SStep, TGet, TChunks, TGiveUp, TWhisper,
     TLoopEnds, TDone, TFiles, TDelete, NGet, NTexts, NStatus, NSave, SGet, SGenerate,
     SFail, SStatus, SSave
<1>4. ASSUME NEW p \in Runs, TSave(p), work[p] # s PROVE Same
  BY <1>4 DEF TSave, OwnChunks, ChunksOf
<1>5. ASSUME NEW p \in Runs, NDelete(p), work[p] # s PROVE Same
  BY <1>5 DEF NDelete, DeleteTextRows, ChunksOf
<1>6. ASSUME NEW p \in Runs, RunStep(p), ~ At(p, s) PROVE Same
  <2>1. work[p] # s
    BY <1>6, RunEffect DEF At
  <2>2. CASE ~ TSave(p) /\ ~ NDelete(p)
    BY <1>1, <1>6, <2>2 DEF RunStep, TStep, NStep, SStep, TGet, TChunks, TGiveUp,
       TWhisper, TLoopEnds, TDone, TFiles, TDelete, NGet, NTexts, NStatus, NSave, SGet,
       SGenerate, SFail, SStatus, SSave
  <2> QED BY <1>4, <1>5, <2>1, <2>2
<1>7. ASSUME NEW p \in Runs, NEW x \in Sessions, Tick(p, x) PROVE UNCHANGED texts
  BY <1>7 DEF Tick, TickTranscription, TickNormalization,
              TickSummarization, Hire
<1>8. ASSUME NEW d \in Deletes, DeleteFind(d) \/ DeleteStep(d)
      PROVE  Same \/ (~ Kept(s)' /\ Texts(s)' = {})
  <2>1. CASE Doomed[d] # s
    BY <1>8, <2>1 DEF DeleteFind, DeleteStep, DeleteFiles, DeleteChunks, DeleteTexts,
          DeleteRow, DeleteTextRows, ChunksOf
  <2>2. CASE (DeleteTexts(d) \/ DeleteRow(d)) /\ Doomed[d] = s
    <3>1. ~ Kept(s)'
      BY <2>2 DEF DeleteTexts, DeleteRow, DeleteAt, Kept
    <3>2. Same \/ Texts(s)' = {}
      BY <2>2 DEF DeleteTexts, DeleteRow, DeleteTextRows, ChunksOf, Texts
    <3> QED BY <3>1, <3>2
  <2> QED BY <1>1, <1>8, <2>1, <2>2 DEF DeleteFind, DeleteStep, DeleteFiles, DeleteChunks
<1>9. ASSUME NEW st \in Stops, StopEnds(st) PROVE UNCHANGED texts
  BY <1>9 DEF StopEnds, StopCount
<1>10. CASE Crash \/ UNCHANGED vars \/ \E x \in Sessions : Age(x)
  BY <1>1, <1>10 DEF Crash, vars, Age
<1> QED BY <1>1, <1>2, <1>3, <1>6, <1>7, <1>8, <1>9, <1>10, RunEffect DEF Next, Step, RunStep, TStep, NStep

(* Its transcript only when a run on it stores one.                        *)
LEMMA DocWriters ==
  ASSUME TypeInv, [Next]_vars, NEW s \in Sessions
  PROVE  \/ \A c \in ChunksOf(s) : doc'[c] = doc[c]
         \/ \E p \in Runs : At(p, s) /\ NSave(p)
         \/ ~ Kept(s)' /\ Doc(s)' = {}
<1> DEFINE Same == \A c \in ChunksOf(s) : doc'[c] = doc[c]
<1> USE DEF TypeInv, TypeOK, StoreTypeOK
<1>1. CASE UNCHANGED doc
  BY <1>1
<1>2. CASE CaptureNext
  BY <1>1, <1>2 DEF CaptureNext, StartCheck, StartStep, StartCreate, JoinConnect,
     JoinStore, JoinFailed, Subscribe, TrackPacket, TrackEof, TrackStep, TrackMkdir,
     TrackOpen, TrackSave, StopFind, StopStep, StopCheck, StopRoom, StopWait,
     StopUpdate, EndRoom
<1>3. ASSUME NEW p \in Runs, RunStep(p), ~ NSave(p) PROVE Same
  BY <1>1, <1>3 DEF RunStep, TStep, NStep, SStep, TGet, TChunks, TGiveUp, TWhisper,
     TSave, TLoopEnds, TDone, TFiles, TDelete, NGet, NTexts, NStatus, NDelete, SGet,
     SGenerate, SFail, SStatus, SSave
<1>4. ASSUME NEW p \in Runs, NSave(p), work[p] # s PROVE Same
  BY <1>4 DEF NSave, ChunksOf
<1>5. ASSUME NEW p \in Runs, NSave(p), work[p] = s PROVE At(p, s)
  BY <1>5 DEF NSave, At
<1>7. ASSUME NEW p \in Runs, NEW x \in Sessions, Tick(p, x) PROVE UNCHANGED doc
  BY <1>7 DEF Tick, TickTranscription, TickNormalization,
              TickSummarization, Hire
<1>8. ASSUME NEW d \in Deletes, DeleteFind(d) \/ DeleteStep(d)
      PROVE  Same \/ (~ Kept(s)' /\ Doc(s)' = {})
  <2>1. CASE Doomed[d] # s
    BY <1>8, <2>1 DEF DeleteFind, DeleteStep, DeleteFiles, DeleteChunks, DeleteTexts,
          DeleteRow, ChunksOf
  <2>2. CASE DeleteRow(d) /\ Doomed[d] = s
    <3>1. ~ Kept(s)'
      BY <2>2 DEF DeleteRow, DeleteAt, Kept
    <3>2. Same \/ Doc(s)' = {}
      BY <2>2 DEF DeleteRow, ChunksOf, Doc
    <3> QED BY <3>1, <3>2
  <2> QED BY <1>1, <1>8, <2>1, <2>2 DEF DeleteFind, DeleteStep, DeleteFiles, DeleteChunks,
          DeleteTexts
<1>9. ASSUME NEW st \in Stops, StopEnds(st) PROVE UNCHANGED doc
  BY <1>9 DEF StopEnds, StopCount
<1>10. CASE Crash \/ UNCHANGED vars \/ \E x \in Sessions : Age(x)
  BY <1>1, <1>10 DEF Crash, vars, Age
<1> QED BY <1>1, <1>2, <1>3, <1>4, <1>5, <1>7, <1>8, <1>9, <1>10 DEF Next, Step

-----------------------------------------------------------------------------
(* The parts of the invariant, one by one.                                 *)

(* A session gets its transcript when it is NORMALIZED.                    *)
LEMMA NoDocYetStep ==
  ASSUME TextInv, [Next]_vars, DeletedLeavesNoRows'
  PROVE  NoDocYet'
<1> SUFFICES ASSUME NEW s \in Sessions, s \notin shared',
                    status'[s] \in {"STARTED", "CAPTURED", "TRANSCRIBED"}
             PROVE  Doc(s)' = {}
  BY DEF NoDocYet, DeletedLeavesNoRows
<1> USE DEF TextInv, FlowInv, QuietInv, TypeInv, TypeOK, StoreTypeOK
<1>0. s \notin shared
  BY MeetStep
<1>1. status[s] \in {"none", "STARTED", "CAPTURED", "TRANSCRIBED"}
  BY SessionFlows DEF Stays, Begins, Advances, Following, Fails, Goes, Stages
<1>2. Doc(s) = {}
  BY <1>0, <1>1 DEF NoDocYet
<1>3. CASE \A c \in ChunksOf(s) : doc'[c] = doc[c]
  BY <1>2, <1>3 DEF Doc, ChunksOf
<1>4. ASSUME NEW p \in Runs, At(p, s), NSave(p) PROVE Doc(s)' = {}
  <2>1. status[s] \in {"NORMALIZED", "none"}
    BY <1>0, <1>4 DEF AtStage, NSave, At
  <2>2. status' = status
    BY <1>4 DEF NSave
  <2> QED BY <1>1, <2>1, <2>2
<1> QED BY <1>3, <1>4, DocWriters

(* The document is made of the texts, which stay as they are meanwhile.    *)
LEMMA CopiedStep ==
  ASSUME TextInv, [Next]_vars, TypeInv'
  PROVE  Copied'
<1> USE DEF TextInv, FlowInv, QuietInv
<1> SUFFICES ASSUME NEW p \in Runs, NEW s, s = work'[p], s \notin shared',
                    rpc'[p] \in {"nstatus", "nsave", "ndelete"}
             PROVE  /\ rpc'[p] \in {"nstatus", "nsave"} /\ Kept(s)' =>
                         \A c \in ChunksOf(s) : copy'[p][c] = texts'[c]
                    /\ rpc'[p] = "nsave" => Doc(s)' = {}
                    /\ rpc'[p] = "ndelete" /\ Kept(s)' => Texts(s)' \subseteq Doc(s)'
  BY DEF Copied, Kept, Texts, Doc, ChunksOf
<1>0. s \in Sessions /\ s \notin shared
  BY MeetStep DEF TypeInv, Assigned
<1>1. CASE RunStep(p)
  <2> USE DEF TypeInv, TypeOK, PipelineTypeOK, StoreTypeOK
  <2>0. /\ work[p] = s /\ At(p, s)
        /\ Kept(s)' => Kept(s)
    BY <1>0, <1>1, RunEffect, KeptBack DEF At
  <2>1. CASE NTexts(p)
    BY <1>0, <2>0, <2>1 DEF NTexts, Return, RunAt, ChunksOf
  <2>2. CASE NStatus(p)
    <3>1. rpc'[p] = "nsave" /\ UNCHANGED <<copy, texts, doc>> /\ rpc[p] = "nstatus"
      BY <1>0, <2>0, <2>2 DEF NStatus, Proceed, Return, RunAt
    <3>2. Doc(s) = {}
      BY <1>0, <2>0, <3>1 DEF AtStage, NoDocYet
    <3> QED BY <1>0, <2>0, <3>1, <3>2 DEF Copied, Doc, ChunksOf
  <2>3. CASE NSave(p)
    <3>1. rpc'[p] = "ndelete" /\ texts' = texts /\ rpc[p] = "nsave"
      BY <1>0, <2>3 DEF NSave, Proceed, Return, RunAt
    <3>2. CASE status[s] = "none"
      BY <1>0, <2>0, <2>3, <3>1, <3>2 DEF RowInv, DeletedLeavesNoRows, Texts, Doc, ChunksOf
    <3>3. CASE status[s] # "none"
      <4>1. \A c \in ChunksOf(s) : doc'[c] = copy[p][c]
        BY <1>0, <2>0, <2>3, <3>1, <3>3 DEF NSave, ChunksOf, Proceed, Return, RunAt
      <4> QED BY <1>0, <2>0, <3>1, <4>1 DEF Copied, Texts, Doc, ChunksOf
    <3> QED BY <3>2, <3>3
  <2>4. CASE TStep(p)
    <3>1. CASE TGet(p)
      BY <3>1 DEF TGet, Proceed, Return, RunAt
    <3>5. CASE TDone(p)
      BY <3>5 DEF TDone, Proceed, Return, RunAt
    <3>6. CASE TGiveUp(p)
      BY <3>6 DEF TGiveUp, Return, RunAt
    <3>2. CASE TChunks(p)
      BY <3>2 DEF TChunks, Return, RunAt
    <3>3. CASE TSave(p) \/ TLoopEnds(p) \/ TFiles(p) \/ TDelete(p)
      BY <3>3 DEF TSave, TLoopEnds, TFiles, TDelete, StartNext, RunAt
    <3>4. CASE \E c \in Chunks : TWhisper(p, c)
      BY <3>4 DEF TWhisper, RunAt
    <3> QED BY <2>4, <3>1, <3>2, <3>3, <3>4, <3>5, <3>6 DEF TStep
  <2>5. CASE NGet(p) \/ NDelete(p)
    BY <2>5 DEF NGet, NDelete, Proceed, Return, StartNext, RunAt
  <2>6. CASE SStep(p)
    <3>1. CASE SGet(p)
      <4>1. rpc'[p] \in {"sgenerate", "idle"}
        BY <3>1 DEF SGet, Proceed, Return, RunAt
      <4> QED BY <4>1
    <3>2. CASE SStatus(p)
      BY <3>2 DEF SStatus, Proceed, Return, RunAt
    <3>3. CASE SGenerate(p) \/ SFail(p) \/ SSave(p)
      BY <3>3 DEF SGenerate, SFail, SSave, Return, RunAt
    <3> QED BY <2>6, <3>1, <3>2, <3>3 DEF SStep
  <2> QED BY <1>1, <2>1, <2>2, <2>3, <2>4, <2>5, <2>6 DEF RunStep, NStep
<1>2. CASE ~ RunStep(p) /\ rpc'[p] = rpc[p] /\ work'[p] = work[p] /\ copy'[p] = copy[p]
  <2>1. At(p, s)
    BY <1>2 DEF At
  <2>2. \A q \in Runs : At(q, s) => ~ RunStep(q)
    BY <1>0, <1>2, <2>1, NobodyElse
  <2>3. Kept(s)' => Kept(s) /\ \A c \in ChunksOf(s) : texts'[c] = texts[c]
    BY <1>0, <2>2, KeptBack, TextWriters DEF RunStep, TStep, NStep, RowInv
  <2>4. (\A c \in ChunksOf(s) : doc'[c] = doc[c]) \/ (~ Kept(s)' /\ Doc(s)' = {})
    BY <1>0, <2>2, DocWriters DEF RunStep, NStep
  <2>5. ASSUME \A c \in ChunksOf(s) : doc'[c] = doc[c] PROVE Doc(s)' = Doc(s)
    BY <2>5 DEF Doc, ChunksOf
  <2>6. ASSUME \A c \in ChunksOf(s) : texts'[c] = texts[c] PROVE Texts(s)' = Texts(s)
    BY <2>6 DEF Texts, ChunksOf
  <2> QED BY <1>0, <1>2, <2>3, <2>4, <2>5, <2>6 DEF Copied
<1> QED BY <1>1, <1>2, RunMoves

(* No text is lost: see TextSurvives.                                      *)
LEMMA SurvivesStep ==
  ASSUME TextInv, [Next]_vars, NEW s \in Sessions, Kept(s)', Own(s)'
  PROVE  Texts(s) \cup Doc(s) \subseteq Texts(s)' \cup Doc(s)'
<1> USE DEF TextInv, FlowInv, QuietInv, TypeInv, TypeOK, StoreTypeOK, PipelineTypeOK
<1>0. Kept(s) /\ s \notin shared
  BY KeptBack, MeetStep DEF Own
<1>1. CASE \A c \in ChunksOf(s) : doc'[c] = doc[c] /\ texts'[c] = texts[c]
  BY <1>1 DEF Texts, Doc, ChunksOf
<1>2. ASSUME NEW p \in Runs, At(p, s), TSave(p)
      PROVE  Texts(s) \cup Doc(s) \subseteq Texts(s)' \cup Doc(s)'
  <2>1. doc' = doc
    BY <1>2 DEF TSave
  <2>2. ASSUME NEW c \in Chunks, texts[c] > 0 PROVE texts'[c] > 0
    <3>1. texts[c] \in 0..3
      BY DEF MaxCopies
    <3> QED BY <1>2, <2>2, <3>1 DEF TSave, MaxCopies
  <2> QED BY <2>1, <2>2 DEF Texts, Doc, ChunksOf
<1>3. ASSUME NEW p \in Runs, At(p, s), NDelete(p)
      PROVE  Texts(s) \cup Doc(s) \subseteq Texts(s)' \cup Doc(s)'
  <2>1. doc' = doc /\ Texts(s) \subseteq Doc(s)
    BY <1>0, <1>3 DEF NDelete, Copied, At
  <2> QED BY <2>1 DEF Doc, ChunksOf
<1>4. ASSUME NEW p \in Runs, At(p, s), NSave(p)
      PROVE  Texts(s) \cup Doc(s) \subseteq Texts(s)' \cup Doc(s)'
  <2>1. texts' = texts /\ Doc(s) = {}
    BY <1>0, <1>4 DEF NSave, Copied, At
  <2> QED BY <2>1 DEF Texts, ChunksOf
<1>5. ASSUME NEW p \in Runs, TSave(p) \/ NDelete(p) PROVE doc' = doc
  BY <1>5 DEF TSave, NDelete
<1>6. ASSUME NEW p \in Runs, NSave(p) PROVE texts' = texts
  BY <1>6 DEF NSave
<1> QED BY <1>1, <1>2, <1>3, <1>4, <1>5, <1>6, TextWriters, DocWriters DEF RowInv

(* A run that transcribed something goes on with what it has stored.       *)
LEMMA CountedStep ==
  ASSUME TextInv, [Next]_vars, TypeInv'
  PROVE  Counted'
<1> USE DEF TextInv, FlowInv, QuietInv
<1> SUFFICES ASSUME NEW p \in Runs, NEW s, s = work'[p]
             PROVE  /\ rpc'[p] \in {"idle", "tget", "tchunks", "tshort"} => p \notin wrote'
                    /\ rpc'[p] = "tdone" => p \in wrote'
                    /\ /\ rpc'[p] \in {"tloop", "tsave", "tdone"} /\ p \in wrote'
                       /\ Kept(s)' /\ s \notin shared'
                       => Texts(s)' # {}
  BY DEF Counted, Kept, Own, Texts, ChunksOf
<1>0. /\ rpc'[p] # "idle" => s \in Sessions
      /\ s \notin shared' => s \notin shared
  BY MeetStep DEF TypeInv, Assigned
<1>1. CASE RunStep(p)
  <2> USE DEF TypeInv, TypeOK, PipelineTypeOK, StoreTypeOK
  <2>0. /\ rpc'[p] # "idle" => work[p] = s
        /\ Kept(s)' /\ s \in Sessions => Kept(s)
    BY <1>1, RunEffect, KeptBack
  <2>1. CASE Return(p)
    BY <2>1 DEF Return, RunAt
  <2>2. CASE TGet(p)
    BY <2>1, <2>2 DEF TGet, Proceed, RunAt, Counted
  <2>3. CASE TChunks(p)
    BY <2>1, <2>3 DEF TChunks, RunAt, Counted
  <2>4. CASE \E c \in Chunks : TWhisper(p, c)
    <3>1. /\ texts' = texts /\ wrote' = wrote
          /\ rpc[p] = "tloop" /\ rpc'[p] \in {"tloop", "tsave"}
      BY <2>4 DEF TWhisper, RunAt
    <3> QED BY <1>0, <2>0, <3>1 DEF Counted, Own, Texts
  <2>5. CASE TSave(p)
    <3>1. rpc[p] = "tsave" /\ rpc'[p] = "tloop" /\ cur[p] \in ChunksOf(s)
      BY <2>0, <2>5 DEF TSave, RunAt, RowInv, OwnChunks
    <3>2. CASE UNCHANGED <<texts, wrote>>
      BY <1>0, <2>0, <3>1, <3>2 DEF Counted, Own, Texts
    <3>3. CASE texts' = [texts EXCEPT ![cur[p]] = IF @ < MaxCopies THEN @ + 1 ELSE @]
      <4>1. texts'[cur[p]] > 0
        BY <3>1, <3>3 DEF ChunksOf, MaxCopies
      <4> QED BY <3>1, <4>1 DEF Texts, ChunksOf
    <3> QED BY <2>5, <3>2, <3>3 DEF TSave
  <2>6. CASE TLoopEnds(p)
    <3>1. /\ texts' = texts /\ wrote' = wrote /\ rpc[p] = "tloop"
          /\ rpc'[p] = IF p \in wrote THEN "tdone" ELSE "tnone"
      BY <2>6 DEF TLoopEnds, RunAt
    <3> QED BY <1>0, <2>0, <3>1 DEF Counted, Own, Texts
  <2>7. CASE rpc'[p] \notin {"idle", "tget", "tchunks", "tshort", "tloop", "tsave", "tdone"}
    BY <2>7
  <2>8. CASE TGiveUp(p) \/ TDone(p) \/ TFiles(p) \/ TDelete(p)
    <3>1. CASE TGiveUp(p)
      BY <2>1, <3>1 DEF TGiveUp
    <3>2. CASE TDone(p)
      BY <2>1, <2>7, <3>2 DEF TDone, Proceed, RunAt
    <3>3. CASE TFiles(p) \/ TDelete(p)
      BY <2>7, <3>3 DEF TFiles, TDelete, StartNext, RunAt
    <3> QED BY <2>8, <3>1, <3>2, <3>3
  <2>9. CASE NStep(p)
    <3>1. CASE NGet(p) \/ NTexts(p)
      BY <2>1, <2>7, <3>1 DEF NGet, NTexts, Proceed, RunAt
    <3>2. CASE NStatus(p)
      BY <2>1, <2>7, <3>2 DEF NStatus, Proceed, RunAt
    <3>4. CASE NSave(p)
      BY <2>1, <2>7, <3>4 DEF NSave, Proceed, RunAt
    <3>3. CASE NDelete(p)
      BY <2>7, <3>3 DEF NDelete, StartNext, RunAt
    <3> QED BY <2>9, <3>1, <3>2, <3>3, <3>4 DEF NStep
  <2>10. CASE SStep(p)
    <3>1. CASE SGet(p)
      BY <2>1, <2>7, <3>1 DEF SGet, Proceed, RunAt
    <3>2. CASE SGenerate(p)
      BY <2>7, <3>2 DEF SGenerate, RunAt
    <3>3. CASE SStatus(p)
      BY <2>1, <2>7, <3>3 DEF SStatus, Proceed, RunAt
    <3>4. CASE SFail(p) \/ SSave(p)
      BY <2>1, <3>4 DEF SFail, SSave
    <3> QED BY <2>10, <3>1, <3>2, <3>3, <3>4 DEF SStep
  <2> QED BY <1>1, <2>2, <2>3, <2>4, <2>5, <2>6, <2>8, <2>9, <2>10 DEF RunStep, TStep
<1>2. CASE /\ ~ RunStep(p) /\ rpc'[p] = rpc[p] /\ work'[p] = work[p]
           /\ p \in wrote' <=> p \in wrote
  <2>1. CASE /\ rpc'[p] \in {"tloop", "tsave", "tdone"} /\ p \in wrote'
             /\ Kept(s)' /\ s \notin shared'
    <3>1. At(p, s) /\ s \in Sessions
      BY <1>0, <1>2, <2>1 DEF At
    <3>2. \A q \in Runs : At(q, s) => ~ RunStep(q)
      BY <1>0, <1>2, <2>1, <3>1, NobodyElse
    <3>3. Kept(s) /\ \A c \in ChunksOf(s) : texts'[c] = texts[c]
      BY <2>1, <3>1, <3>2, KeptBack, TextWriters DEF RunStep, TStep, NStep, RowInv
    <3>4. Texts(s)' = Texts(s)
      BY <3>3 DEF Texts, ChunksOf
    <3> QED BY <1>0, <1>2, <2>1, <3>3, <3>4 DEF Counted, Own
  <2> QED BY <1>2, <2>1 DEF Counted
<1>3. CASE rpc'[p] = "idle" /\ p \notin wrote'
  BY <1>3
<1>4. CASE /\ rpc[p] = "idle" /\ rpc'[p] \in {"tget", "nget", "sget"}
           /\ p \in wrote' <=> p \in wrote
  BY <1>4 DEF Counted
<1> QED BY <1>1, <1>2, <1>3, <1>4, RunMoves

(* Only the end of a transcription writes TRANSCRIBED.                     *)
LEMMA TranscribedWriter ==
  ASSUME TextInv, [Next]_vars, NEW s \in Sessions,
         status'[s] = "TRANSCRIBED", status[s] # "TRANSCRIBED"
  PROVE  \E p \in Runs : At(p, s) /\ TDone(p)
<1> USE DEF TextInv, FlowInv, QuietInv, TypeInv, TypeOK, StoreTypeOK, PipelineTypeOK
<1>1. ASSUME NEW x \in Sessions, StartCheck(x) \/ StartStep(x) PROVE FALSE
  BY <1>1 DEF StartCheck, StartStep, StartCreate, JoinConnect, JoinStore, JoinFailed,
              UpdateStatus
<1>2. ASSUME NEW st \in Stops, StopFind(st) \/ StopStep(st) \/ StopEnds(st) PROVE FALSE
  BY <1>2 DEF StopFind, StopStep, StopCheck, StopRoom, StopWait, StopUpdate, EndRoom,
              StopEnds, StopCount, UpdateStatus
<1>3. ASSUME NEW t \in Tracks,
             Subscribe(t) \/ TrackPacket(t) \/ TrackEof(t) \/ TrackStep(t)
      PROVE  status' = status
  BY <1>3 DEF Subscribe, TrackPacket, TrackEof, TrackStep, TrackMkdir, TrackOpen, TrackSave
<1>4. ASSUME NEW p \in Runs, RunStep(p), ~ TDone(p) PROVE FALSE
  <2>1. CASE TStep(p)
    BY <1>4, <2>1 DEF TStep, TGet, TChunks, TGiveUp, TWhisper, TSave, TLoopEnds, TFiles,
                TDelete, UpdateStatus
  <2>2. CASE NStep(p)
    BY <2>2 DEF NStep, NGet, NTexts, NStatus, NSave, NDelete, UpdateStatus
  <2>3. CASE SStep(p)
    BY <2>3 DEF SStep, SGet, SGenerate, SFail, SStatus, SSave, UpdateStatus
  <2> QED BY <1>4, <2>1, <2>2, <2>3 DEF RunStep
<1>5. ASSUME NEW p \in Runs, TDone(p) PROVE At(p, s)
  BY <1>5 DEF TDone, UpdateStatus, At
<1>6. ASSUME NEW p \in Runs, NEW x \in Sessions, Tick(p, x) PROVE status' = status
  BY <1>6 DEF Tick, TickTranscription, TickNormalization,
              TickSummarization, Hire
<1>7. ASSUME NEW d \in Deletes, DeleteFind(d) \/ DeleteStep(d) PROVE FALSE
  BY <1>7 DEF DeleteFind, DeleteStep, DeleteFiles, DeleteChunks, DeleteTexts, DeleteRow
<1>8. CASE Crash \/ UNCHANGED vars \/ \E x \in Sessions : Age(x)
  BY <1>8 DEF Crash, vars, Age
<1> QED BY <1>1, <1>2, <1>3, <1>4, <1>5, <1>6, <1>7, <1>8 DEF Next, Step, CaptureNext

(* TRANSCRIBED is written with a text, and lasts as long as there is one.  *)
LEMMA StageHasInputStep ==
  ASSUME TextInv, [Next]_vars
  PROVE  StageHasInput'
<1> USE DEF TextInv, FlowInv, QuietInv
<1> SUFFICES ASSUME NEW s \in Sessions, Kept(s)', Own(s)', status'[s] = "TRANSCRIBED"
             PROVE  Texts(s)' # {}
  BY DEF StageHasInput
<1>0. Kept(s) /\ s \notin shared
  BY KeptBack, MeetStep DEF Own
<1>1. CASE status[s] = "TRANSCRIBED"
  <2>1. ASSUME NEW p \in Runs, At(p, s), TSave(p) \/ NDelete(p) PROVE FALSE
    BY <1>0, <1>1, <2>1 DEF TSave, NDelete, AtStage, At
  <2>2. \A c \in ChunksOf(s) : texts'[c] = texts[c]
    BY <2>1, TextWriters DEF RowInv
  <2> QED BY <1>0, <1>1, <2>2 DEF StageHasInput, Own, Texts, ChunksOf
<1>2. CASE status[s] # "TRANSCRIBED"
  <2>1. PICK p \in Runs : At(p, s) /\ TDone(p)
    BY <1>2, TranscribedWriter
  <2>2. texts' = texts /\ Texts(s) # {}
    BY <1>0, <2>1 DEF TDone, Counted, Own, At
  <2> QED BY <2>2 DEF Texts
<1> QED BY <1>1, <1>2

(* A file of a kept session goes only when a run on it removes them all.   *)
LEMMA AudioWriters ==
  ASSUME TypeInv, [Next]_vars, NEW s \in Sessions, Kept(s)',
         NEW f \in DOMAIN audio, f[1] = s, audio[f] # None
  PROVE  audio'[f] # None \/ \E p \in Runs : At(p, s) /\ TFiles(p)
<1> USE DEF TypeInv, TypeOK, StoreTypeOK
<1>1. CASE UNCHANGED audio
  BY <1>1
<1>2. ASSUME NEW x \in Sessions, StartCheck(x) \/ StartStep(x) PROVE UNCHANGED audio
  BY <1>2 DEF StartCheck, StartStep, StartCreate, JoinConnect, JoinStore, JoinFailed
<1>3. ASSUME NEW st \in Stops, StopFind(st) \/ StopStep(st) \/ StopEnds(st)
      PROVE  UNCHANGED audio
  BY <1>3 DEF StopFind, StopStep, StopCheck, StopRoom, StopWait, StopUpdate, EndRoom,
              StopEnds, StopCount
<1>4. ASSUME NEW t \in Tracks, TrackOpen(t) PROVE audio'[f] # None
  BY <1>4 DEF TrackOpen
<1>5. ASSUME NEW t \in Tracks, \/ Subscribe(t) \/ TrackPacket(t) \/ TrackEof(t)
                               \/ TrackMkdir(t) \/ TrackSave(t)
      PROVE  UNCHANGED audio
  BY <1>5 DEF Subscribe, TrackPacket, TrackEof, TrackMkdir, TrackSave
<1>6. ASSUME NEW p \in Runs, RunStep(p), ~ TFiles(p) PROVE UNCHANGED audio
  BY <1>6 DEF RunStep, TStep, NStep, SStep, TGet, TChunks, TGiveUp, TWhisper,
     TSave, TLoopEnds, TDone, TDelete, NGet, NTexts, NStatus, NSave, NDelete, SGet,
     SGenerate, SFail, SStatus, SSave
<1>7. ASSUME NEW p \in Runs, TFiles(p) PROVE At(p, s) \/ audio'[f] # None
  BY <1>7 DEF TFiles, RemoveAll, At
<1>8. ASSUME NEW p \in Runs, NEW x \in Sessions, Tick(p, x) PROVE UNCHANGED audio
  BY <1>8 DEF Tick, TickTranscription, TickNormalization,
              TickSummarization, Hire
<1>9. ASSUME NEW d \in Deletes, DeleteFind(d) \/ DeleteStep(d) PROVE audio'[f] # None
  <2>1. Doomed[d] # s
    BY <1>9, KeptBack
  <2> QED BY <1>9, <2>1 DEF DeleteFind, DeleteStep, DeleteFiles, DeleteChunks, DeleteTexts,
          DeleteRow, RemoveAll
<1>10. CASE Crash \/ UNCHANGED vars \/ \E x \in Sessions : Age(x)
  BY <1>1, <1>10 DEF Crash, vars, Age
<1> QED BY <1>1, <1>2, <1>3, <1>4, <1>5, <1>6, <1>7, <1>8, <1>9, <1>10
        DEF Next, Step, CaptureNext, TrackStep

(* How a track comes to write.                                             *)
LEMMA TrackMoves ==
  ASSUME TypeInv, [Next]_vars, NEW t \in Tracks,
         tpc'[t] \in {"reading", "rotate", "last"}
  PROVE  \/ TrackOpen(t) /\ tpc'[t] = "reading"
         \/ tpc[t] \in {"reading", "rotate", "last"} /\ idx'[t] = idx[t]
<1> USE DEF TypeInv, TypeOK, CaptureTypeOK
<1>1. CASE UNCHANGED <<tpc, idx>>
  BY <1>1
<1>2. ASSUME NEW x \in Tracks, x # t,
             Subscribe(x) \/ TrackPacket(x) \/ TrackEof(x) \/ TrackStep(x)
      PROVE  tpc'[t] = tpc[t] /\ idx'[t] = idx[t]
  BY <1>2 DEF Subscribe, TrackPacket, TrackEof, TrackStep, TrackMkdir, TrackOpen, TrackSave
<1>3. CASE \/ Subscribe(t) \/ TrackPacket(t) \/ TrackEof(t) \/ TrackMkdir(t) \/ TrackSave(t)
  BY <1>3 DEF Subscribe, TrackPacket, TrackEof, TrackMkdir, TrackSave
<1>4. ASSUME NEW x \in Sessions, StartCheck(x) \/ StartStep(x) PROVE UNCHANGED <<tpc, idx>>
  BY <1>4 DEF StartCheck, StartStep, StartCreate, JoinConnect, JoinStore, JoinFailed
<1>5. ASSUME NEW st \in Stops, StopFind(st) \/ StopStep(st) \/ StopEnds(st)
      PROVE  UNCHANGED <<tpc, idx>>
  BY <1>5 DEF StopFind, StopStep, StopCheck, StopRoom, StopWait, StopUpdate, EndRoom,
              StopEnds, StopCount
<1>6. CASE Crash
  BY <1>6 DEF Crash
<1>7. CASE TrackOpen(t)
  BY <1>7 DEF TrackOpen
<1> QED BY <1>1, <1>2, <1>3, <1>4, <1>5, <1>6, <1>7 DEF Next, Step, CaptureNext, TrackStep, vars

(* A new chunk row is one that its track stores.                           *)
LEMMA ChunkWriters ==
  ASSUME TypeInv, [Next]_vars, NEW c \in chunks', c \notin chunks
  PROVE  \E t \in Tracks : TrackSave(t) /\ c = <<t, idx[t]>>
<1> USE DEF TypeInv, TypeOK, StoreTypeOK
<1>1. ASSUME NEW x \in Sessions, StartCheck(x) \/ StartStep(x) PROVE UNCHANGED chunks
  BY <1>1 DEF StartCheck, StartStep, StartCreate, JoinConnect, JoinStore, JoinFailed
<1>2. ASSUME NEW st \in Stops, StopFind(st) \/ StopStep(st) \/ StopEnds(st)
      PROVE  UNCHANGED chunks
  BY <1>2 DEF StopFind, StopStep, StopCheck, StopRoom, StopWait, StopUpdate, EndRoom,
              StopEnds, StopCount
<1>3. ASSUME NEW t \in Tracks, TrackSave(t) PROVE c = <<t, idx[t]>>
  BY <1>3 DEF TrackSave
<1>4. ASSUME NEW t \in Tracks, \/ Subscribe(t) \/ TrackPacket(t) \/ TrackEof(t)
                               \/ TrackMkdir(t) \/ TrackOpen(t)
      PROVE  UNCHANGED chunks
  BY <1>4 DEF Subscribe, TrackPacket, TrackEof, TrackMkdir, TrackOpen
<1>5. ASSUME NEW p \in Runs, RunStep(p) PROVE chunks' \subseteq chunks
  BY <1>5 DEF RunStep, TStep, NStep, SStep, TGet, TChunks, TGiveUp, TWhisper,
     TSave, TLoopEnds, TDone, TFiles, TDelete, NGet, NTexts, NStatus, NSave, NDelete, SGet,
     SGenerate, SFail, SStatus, SSave, DeleteChunkRows
<1>6. ASSUME NEW p \in Runs, NEW x \in Sessions, Tick(p, x) PROVE UNCHANGED chunks
  BY <1>6 DEF Tick, TickTranscription, TickNormalization,
              TickSummarization, Hire
<1>7. ASSUME NEW d \in Deletes, DeleteFind(d) \/ DeleteStep(d) PROVE chunks' \subseteq chunks
  BY <1>7 DEF DeleteFind, DeleteStep, DeleteFiles, DeleteChunks, DeleteTexts, DeleteRow,
              DeleteChunkRows
<1>8. CASE Crash \/ UNCHANGED vars \/ \E x \in Sessions : Age(x)
  BY <1>8 DEF Crash, vars, Age
<1> QED BY <1>1, <1>2, <1>3, <1>4, <1>5, <1>6, <1>7, <1>8 DEF Next, Step, CaptureNext, TrackStep

(* Nobody removes the file a track is writing.                             *)
LEMMA WritingStep ==
  ASSUME TextInv, [Next]_vars
  PROVE  Writing'
<1> USE DEF TextInv, FlowInv, QuietInv
<1> SUFFICES ASSUME NEW t \in Tracks, tpc'[t] \in {"reading", "rotate", "last"},
                    NEW s, s = SessionOf[t], Kept(s)', s \notin shared'
             PROVE  audio'[Path(<<t, idx'[t]>>)] # None
  BY DEF Writing, Kept, Own, Path
<1>0. s \in Sessions /\ idx[t] \in 0..MaxIndex /\ s \notin shared
  BY MeetStep DEF TypeInv, TypeOK, CaptureTypeOK
<1> DEFINE f == Path(<<t, idx[t]>>)
<1>1. f \in DOMAIN audio /\ f[1] = s
  BY <1>0 DEF Path, TypeInv, TypeOK, StoreTypeOK
<1>2. CASE TrackOpen(t) /\ tpc'[t] = "reading"
  BY <1>1, <1>2 DEF TrackOpen, TypeInv, TypeOK, CaptureTypeOK
<1>3. CASE tpc[t] \in {"reading", "rotate", "last"} /\ idx'[t] = idx[t]
  <2>1. audio[f] # None
    BY <1>0, <1>3, KeptBack DEF Writing, Own
  <2>2. ASSUME NEW p \in Runs, At(p, s) PROVE FALSE
    BY <1>0, <1>3, <2>2 DEF RunEnded, Ended, At, Capturing
  <2> QED BY <1>0, <1>1, <1>3, <2>1, <2>2, AudioWriters
<1> QED BY <1>2, <1>3, TrackMoves

(* Nor that of a stored chunk before the session is TRANSCRIBED.           *)
LEMMA CapturedKeepsAudioStep ==
  ASSUME TextInv, [Next]_vars, TypeInv'
  PROVE  CapturedKeepsAudio'
<1> USE DEF TextInv, FlowInv, QuietInv
<1> SUFFICES ASSUME NEW c \in chunks', NEW s, s = SessionOf[c[1]], Kept(s)', Own(s)',
                    status'[s] \in {"STARTED", "CAPTURED"}
             PROVE  audio'[Path(c)] # None
  BY DEF CapturedKeepsAudio, Kept, Own
<1>0. c \in Chunks /\ s \in Sessions /\ s \notin shared
  BY MeetStep DEF TypeInv, TypeOK, StoreTypeOK, Chunks, Own
<1>1. Path(c) \in DOMAIN audio /\ Path(c)[1] = s
  BY <1>0 DEF Path, TypeInv, TypeOK, StoreTypeOK, Chunks
<1>2. CASE c \in chunks
  <2>1. status[s] \in {"none", "STARTED", "CAPTURED"}
    BY <1>0, SessionFlows DEF Stays, Begins, Advances, Following, Fails, Goes, Own,
       TypeInv, TypeOK, StoreTypeOK, Stages
  <2>2. status[s] # "none"
    BY <1>0, <1>2 DEF RowInv, DeletedLeavesNoRows, ChunksOf
  <2>3. audio[Path(c)] # None
    BY <1>0, <1>2, <2>1, <2>2, KeptBack DEF CapturedKeepsAudio, Own
  <2>4. ASSUME NEW p \in Runs, At(p, s), TFiles(p) PROVE FALSE
    BY <1>0, <2>1, <2>2, <2>4 DEF AtStage, TFiles, At
  <2> QED BY <1>0, <1>1, <2>3, <2>4, AudioWriters
<1>3. CASE c \notin chunks
  <2>1. PICK t \in Tracks : TrackSave(t) /\ c = <<t, idx[t]>>
    BY <1>3, ChunkWriters
  <2>2. audio' = audio /\ tpc[t] \in {"rotate", "last"} /\ s = SessionOf[t]
    BY <2>1 DEF TrackSave
  <2> QED BY <1>0, <2>1, <2>2, KeptBack DEF Writing, Own
<1> QED BY <1>2, <1>3

-----------------------------------------------------------------------------
(* The invariant is inductive.                                             *)
LEMMA TextStep ==
  ASSUME TextInv, [Next]_vars
  PROVE  TextInv'
<1>1. TypeInv'
  BY TypeStep DEF TextInv, FlowInv, QuietInv
<1>2. FlowInv'
  BY FlowInvStep DEF TextInv
<1>3. RowInv'
  BY <1>1, OwnStep, GoneStep DEF TextInv, RowInv
<1> QED BY <1>1, <1>2, <1>3, NoDocYetStep, CopiedStep, CountedStep, WritingStep,
           StageHasInputStep, CapturedKeepsAudioStep DEF TextInv, RowInv

(* A text that was extracted is never lost: through refused commands,      *)
(* retries and crashes each chunk's words stay in the transcripts table or *)
(* in the transcript column until the session is deleted or two goroutines *)
(* have been at work on it at once, since NormalizationService deletes the *)
(* rows only after it has stored a document made of all of them.           *)
THEOREM TextSurvivesHolds == Spec => TextSurvives
<1>1. TextInv /\ [Next]_vars => TextInv'
  BY TextStep
<1>2. TextInv /\ [Next]_vars =>
        [\A s \in Sessions :
           Kept(s)' /\ Own(s)' => Texts(s) \cup Doc(s) \subseteq Texts(s)' \cup Doc(s)']_vars
  BY SurvivesStep
<1> QED BY <1>1, <1>2, InitText, PTL DEF Spec, TextSurvives

(* What a stage needs is there when the status says the stage is next: the *)
(* transcription stores TRANSCRIBED only with a positive successCount, and *)
(* who else might take the texts away would have to share the session.     *)
THEOREM StageHasInputHolds == Spec => []StageHasInput
<1>1. TextInv /\ [Next]_vars => TextInv'
  BY TextStep
<1>2. TextInv => StageHasInput
  BY DEF TextInv
<1> QED BY <1>1, <1>2, InitText, PTL DEF Spec

(* Audio is given up only for its text: the files of a session outlive its *)
(* CAPTURED status, however often the worker retries the transcription,    *)
(* unless two goroutines have been at work on the session at once.         *)
THEOREM CapturedKeepsAudioHolds == Spec => []CapturedKeepsAudio
<1>1. TextInv /\ [Next]_vars => TextInv'
  BY TextStep
<1>2. TextInv => CapturedKeepsAudio
  BY DEF TextInv
<1> QED BY <1>1, <1>2, InitText, PTL DEF Spec

-----------------------------------------------------------------------------
(* Each chunk once, and once more for each command that was refused and    *)
(* each crash.                                                             *)

Budget == faults + crashes

(* A run past the transcription works on a session that is past it.        *)
Onward == \A p \in Runs :
    work[p] \notin shared /\ rpc[p] \in {"tfiles", "tdelete"} \cup NLabels \cup SLabels =>
        status[work[p]] \notin {"STARTED", "CAPTURED"}

(* A run that gives up for want of a text has stored none.                 *)
Unwritten == \A p \in Runs : rpc[p] = "tnone" => p \notin wrote

(* Once a run has stored a text of a session that is not transcribed yet,  *)
(* only a refused command or a crash takes the session from it.            *)
Fresh == \A s \in Sessions \ shared :
    /\ status[s] \in {"STARTED", "CAPTURED"}
    /\ \A p \in Runs : At(p, s) => p \notin wrote
    => \A c \in ChunksOf(s) : texts[c] <= Budget

(* So the chunks a run still has in hand have no text of its own.          *)
Ahead == \A p \in Runs : work[p] \notin shared =>
    /\ rpc[p] \in {"tloop", "tsave"} => \A c \in todo[p] : texts[c] <= Budget
    /\ rpc[p] = "tsave" => texts[cur[p]] <= Budget /\ cur[p] \notin todo[p]

(* And each chunk has one, in the table, in a run and in the document.     *)
Single == \A c \in Chunks : Own(SessionOf[c[1]]) =>
    /\ texts[c] <= 1 + Budget /\ doc[c] <= 1 + Budget
    /\ \A p \in Runs : copy[p][c] <= 1 + Budget

OnceInv == TextInv /\ Onward /\ Unwritten /\ Fresh /\ Ahead /\ Single

(* Nothing is there yet.                                                   *)
LEMMA InitOnce == Init => OnceInv
<1> SUFFICES ASSUME Init PROVE OnceInv
  OBVIOUS
<1>1. TextInv
  BY InitText
<1>2. Onward /\ Unwritten /\ Fresh /\ Ahead /\ Single
  BY DEF Onward, Unwritten, Fresh, Ahead, Single, Budget, Init, StoreInit, PipelineInit,
         ChunksOf, NLabels, SLabels, NoCopy
<1> QED BY <1>1, <1>2 DEF OnceInv

(* Refusals and crashes are not forgotten.                                 *)
LEMMA BudgetGrows ==
  ASSUME TypeInv, [Next]_vars
  PROVE  Budget \in Nat /\ Budget' \in Nat /\ Budget' >= Budget
<1> USE DEF TypeInv, TypeOK, StoreTypeOK, Db
<1>1. crashes' \in {crashes, crashes + 1}
  BY DEF Next, Step, vars, Crash
<1>2. ASSUME NEW ok \in BOOLEAN, Db(ok) PROVE faults' \in {faults, faults + 1}
  BY <1>2
<1>3. ASSUME UNCHANGED faults PROVE faults' \in {faults, faults + 1}
  BY <1>3
<1>4. ASSUME NEW s \in Sessions, StartCheck(s) \/ StartStep(s)
      PROVE  faults' = faults \/ \E ok \in BOOLEAN : Db(ok)
  BY <1>4 DEF StartCheck, StartStep, StartCreate, JoinConnect, JoinStore, JoinFailed,
              UpdateStatus
<1>5. ASSUME NEW t \in Tracks,
             Subscribe(t) \/ TrackPacket(t) \/ TrackEof(t) \/ TrackStep(t)
      PROVE  faults' = faults \/ \E ok \in BOOLEAN : Db(ok)
  BY <1>5 DEF Subscribe, TrackPacket, TrackEof, TrackStep, TrackMkdir, TrackOpen, TrackSave
<1>6. ASSUME NEW st \in Stops, StopFind(st) \/ StopStep(st) \/ StopEnds(st)
      PROVE  faults' = faults \/ \E ok \in BOOLEAN : Db(ok)
  BY <1>6 DEF StopFind, StopStep, StopCheck, StopRoom, StopWait, StopUpdate, EndRoom,
              StopEnds, StopCount, UpdateStatus
<1>7. ASSUME NEW p \in Runs, RunStep(p)
      PROVE  faults' = faults \/ \E ok \in BOOLEAN : Db(ok)
  BY <1>7 DEF RunStep, TStep, NStep, SStep, TGet, TChunks, TGiveUp, TWhisper, TSave,
     TLoopEnds, TDone, TFiles, TDelete, NGet, NTexts, NStatus, NSave, NDelete, SGet,
     SGenerate, SFail, SStatus, SSave, UpdateStatus
<1>8. ASSUME NEW p \in Runs, NEW s \in Sessions, Tick(p, s) PROVE faults' = faults
  BY <1>8 DEF Tick, TickTranscription, TickNormalization, TickSummarization, Hire
<1>9. ASSUME NEW d \in Deletes, DeleteFind(d) \/ DeleteStep(d)
      PROVE  faults' = faults \/ \E ok \in BOOLEAN : Db(ok)
  BY <1>9 DEF DeleteFind, DeleteStep, DeleteFiles, DeleteChunks, DeleteTexts, DeleteRow
<1>10. ASSUME Crash \/ UNCHANGED vars \/ \E s \in Sessions : Age(s)
       PROVE  faults' = faults
  BY <1>10 DEF Crash, vars, Age
<1>11. faults' = faults \/ \E ok \in BOOLEAN : Db(ok)
  BY <1>4, <1>5, <1>6, <1>7, <1>8, <1>9, <1>10 DEF Next, Step, CaptureNext, Crash, vars, Age
<1> QED BY <1>1, <1>2, <1>3, <1>11 DEF Budget

(* A session that has run does not become STARTED or CAPTURED again.       *)
LEMMA NeverBackAtWork ==
  ASSUME TextInv, [Next]_vars, NEW p \in Runs, NEW s \in Sessions, At(p, s),
         s \notin shared', status[s] \notin {"STARTED", "CAPTURED"}
  PROVE  status'[s] \notin {"STARTED", "CAPTURED"}
<1> USE DEF TextInv, FlowInv, QuietInv, TypeInv, TypeOK, StoreTypeOK
<1>1. CASE Stays(s) \/ Advances(s) \/ Fails(s) \/ Goes(s)
  BY <1>1 DEF Stays, Advances, Following, Fails, Goes
<1>2. CASE Begins(s) /\ ~ Stays(s)
  <2>1. ~ StartCreate(s)
    BY DEF StartCreate, Born, Created, Joining, Returned, At
  <2>2. ASSUME NEW ok \in BOOLEAN, NEW st, NEW failed, UpdateStatus(ok, s, st, failed)
        PROVE  FALSE
    BY <1>2, <2>2 DEF Begins, Stays, UpdateStatus
  <2>3. ~ JoinFailed(s)
    BY <2>2 DEF JoinFailed
  <2>4. ASSUME NEW x \in Stops, StopUpdate(x), target[x] = s PROVE FALSE
    BY <2>2, <2>4 DEF StopUpdate
  <2>5. ASSUME NEW q \in Runs, RunStep(q), At(q, s) PROVE FALSE
    BY <1>2, <2>5, RunEffect DEF Begins, At
  <2>6. ASSUME NEW d \in Deletes, DeleteRow(d), Doomed[d] = s PROVE FALSE
    BY <1>2, <2>6 DEF DeleteRow, Begins
  <2> QED BY <1>2, <2>1, <2>3, <2>4, <2>5, <2>6, ColumnWriters DEF Stays
<1> QED BY <1>1, <1>2, SessionFlows

(* A run gets past the transcription when its session does.                *)
LEMMA OnwardStep ==
  ASSUME OnceInv, [Next]_vars, TypeInv'
  PROVE  Onward'
<1> USE DEF OnceInv, TextInv, FlowInv, QuietInv
<1> DEFINE Behind == {"tfiles", "tdelete"} \cup NLabels \cup SLabels
<1> SUFFICES ASSUME NEW p \in Runs, NEW s, s = work'[p], s \notin shared',
                    rpc'[p] \in Behind
             PROVE  status'[s] \notin {"STARTED", "CAPTURED"}
  BY DEF Onward
<1>0. s \in Sessions /\ s \notin shared
  BY MeetStep DEF TypeInv, Assigned, NLabels, SLabels
<1>1. ASSUME rpc[p] \in Behind, work[p] = s PROVE status'[s] \notin {"STARTED", "CAPTURED"}
  BY <1>0, <1>1, NeverBackAtWork DEF Onward, At, NLabels, SLabels
<1>2. CASE RunStep(p)
  <2>0. work[p] = s
    BY <1>2, RunEffect DEF NLabels, SLabels
  <2>1. CASE TDone(p)
    <3>1. rpc'[p] = "tfiles"
      BY <2>1 DEF TDone, Proceed, Return, RunAt, TypeInv, TypeOK, PipelineTypeOK,
                  NLabels, SLabels
    <3>2. status'[s] \in {"TRANSCRIBED", "none"}
      BY <1>0, <1>2, <2>0, <3>1, RunStage
    <3> QED BY <3>2
  <2>2. CASE rpc[p] \in Behind
    BY <1>1, <2>0, <2>2
  <2>3. CASE TGet(p) \/ TChunks(p) \/ TGiveUp(p) \/ TSave(p) \/ TLoopEnds(p)
             \/ \E c \in Chunks : TWhisper(p, c)
    <3> USE DEF TypeInv, TypeOK, PipelineTypeOK, Proceed, Return, RunAt, NLabels, SLabels
    <3>1. CASE TGet(p)
      BY <3>1 DEF TGet
    <3>2. CASE TChunks(p)
      BY <3>2 DEF TChunks
    <3>3. CASE TGiveUp(p)
      BY <3>3 DEF TGiveUp
    <3>4. CASE TSave(p)
      BY <3>4 DEF TSave
    <3>5. CASE TLoopEnds(p)
      BY <3>5 DEF TLoopEnds
    <3>6. ASSUME NEW c \in Chunks, TWhisper(p, c)
          PROVE  rpc'[p] \notin Behind
      BY <3>6 DEF TWhisper
    <3> QED BY <2>3, <3>1, <3>2, <3>3, <3>4, <3>5, <3>6
  <2> QED BY <1>2, <2>1, <2>2, <2>3 DEF RunStep, TStep, NStep, SStep, TFiles, TDelete, NGet,
          NTexts, NStatus, NSave, NDelete, SGet, SGenerate, SFail, SStatus, SSave, NLabels,
          SLabels
<1>3. CASE rpc[p] = "idle" /\ rpc'[p] \in {"tget", "nget", "sget"}
  <2>1. ASSUME NEW q \in Runs, NEW x \in Sessions, Tick(q, x)
        PROVE  status'[s] \notin {"STARTED", "CAPTURED"}
    <3>1. status' = status
      BY <2>1 DEF Tick, TickTranscription, TickNormalization,
                  TickSummarization, Hire
    <3>2. q = p /\ x = s
      BY <1>0, <1>3, <2>1 DEF Tick, TickTranscription, TickNormalization,
         TickSummarization, Hire, Begin, RunAt, TypeInv, TypeOK, PipelineTypeOK
    <3>3. status[s] \in {"TRANSCRIBED", "NORMALIZED"}
      BY <2>1, <3>2 DEF Tick, TickTranscription, TickNormalization,
         TickSummarization, Hire, Begin, RunAt, TypeInv, TypeOK, PipelineTypeOK, NLabels, SLabels
    <3> QED BY <3>1, <3>3
  <2>2. ASSUME NEW st \in Stops, StopEnds(st) PROVE rpc'[p] \in {"idle", "tget"}
    BY <1>3, <2>2 DEF StopEnds, Begin, RunAt, TypeInv, TypeOK, PipelineTypeOK
  <2>3. ASSUME NEW q \in Runs, RunStep(q) PROVE q = p
    BY <1>3, <2>3, RunEffect
  <2>4. CASE Crash
    BY <1>3, <2>4 DEF Crash
  <2>5. CASE UNCHANGED pipeline
    BY <1>3, <2>5
  <2> QED BY <1>2, <1>3, <2>1, <2>2, <2>3, <2>4, <2>5 DEF Next, Step, vars, NLabels, SLabels
<1> QED BY <1>1, <1>2, <1>3, RunMoves DEF NLabels, SLabels

(* A loop that ends knows whether it has stored a text.                    *)
LEMMA UnwrittenStep ==
  ASSUME OnceInv, [Next]_vars
  PROVE  Unwritten'
<1> USE DEF OnceInv, TextInv, FlowInv, QuietInv, TypeInv, TypeOK, PipelineTypeOK
<1> SUFFICES ASSUME NEW p \in Runs, rpc'[p] = "tnone" PROVE p \notin wrote'
  BY DEF Unwritten
<1>1. CASE TLoopEnds(p)
  BY <1>1 DEF TLoopEnds, RunAt
<1>2. ASSUME RunStep(p), ~ TLoopEnds(p) PROVE FALSE
  <2>1. CASE TStep(p)
    BY <1>2, <2>1 DEF TStep, TGet, TChunks, TGiveUp, TWhisper, TSave, TDone, TFiles,
       TDelete, Proceed, Return, StartNext, RunAt
  <2>2. CASE NStep(p)
    BY <2>2 DEF NStep, NGet, NTexts, NStatus, NSave, NDelete, Proceed, Return, StartNext, RunAt
  <2>3. CASE SStep(p)
    BY <2>3 DEF SStep, SGet, SGenerate, SFail, SStatus, SSave, Proceed, Return, RunAt
  <2> QED BY <1>2, <2>1, <2>2, <2>3 DEF RunStep
<1> QED BY <1>1, <1>2, RunMoves DEF Unwritten

(* What a run has stored stays known to it until the status says so, a     *)
(* command is refused or the server crashes.                               *)
LEMMA WrittenStays ==
  ASSUME OnceInv, [Next]_vars, NEW p \in Runs, NEW s \in Sessions,
         At(p, s), p \in wrote, status[s] \in {"STARTED", "CAPTURED"},
         status'[s] \in {"STARTED", "CAPTURED"}, s \notin shared
  PROVE  \/ At(p, s)' /\ p \in wrote'
         \/ texts' = texts /\ Budget' >= Budget + 1
<1> USE DEF OnceInv, TextInv, FlowInv, QuietInv, TypeInv, TypeOK, PipelineTypeOK, StoreTypeOK
<1>1. rpc[p] \in {"tloop", "tsave", "tdone"}
  BY DEF Onward, Unwritten, Counted, At, RunLabels, TLabels, NLabels, SLabels
<1>5. CASE Crash
  BY <1>5 DEF Crash, Budget
<1>2. CASE ~ RunStep(p) /\ ~ Crash
  BY <1>1, <1>2, RunMoves DEF At
<1>3. CASE TDone(p)
  <2>1. PICK ok \in BOOLEAN : /\ UpdateStatus(ok, s, "TRANSCRIBED", FALSE)
                              /\ Proceed(p, ok, "tfiles")
    BY <1>3 DEF TDone, At
  <2>2. ~ ok
    BY <2>1 DEF UpdateStatus
  <2>3. faults' = faults + 1
    BY <2>1, <2>2 DEF UpdateStatus, Db
  <2>4. crashes' \in {crashes, crashes + 1}
    BY DEF Next, Step, vars, Crash
  <2>5. texts' = texts
    BY <1>3 DEF TDone
  <2> QED BY <2>3, <2>4, <2>5 DEF Budget
<1>4. CASE TLoopEnds(p) \/ TSave(p) \/ \E c \in Chunks : TWhisper(p, c)
  BY <1>4 DEF TLoopEnds, TSave, TWhisper, RunAt, At
<1> QED BY <1>1, <1>2, <1>3, <1>4, <1>5 DEF RunStep, TStep, NStep, SStep, TGet, TChunks,
        TGiveUp, TFiles, TDelete, NGet, NTexts, NStatus, NSave, NDelete, SGet, SGenerate,
        SFail, SStatus, SSave

(* No text, or one within a bound that does not shrink.                    *)
LEMMA NoTextThere ==
  ASSUME StoreTypeOK, NEW s, Texts(s) = {}
  PROVE  \A c \in ChunksOf(s) : texts[c] = 0
<1>1. ASSUME NEW c \in ChunksOf(s) PROVE texts[c] = 0
  <2>1. c \in Chunks /\ ~ (texts[c] > 0)
    BY <1>1 DEF Texts, ChunksOf
  <2>2. texts[c] \in 0..MaxCopies
    BY <2>1 DEF StoreTypeOK
  <2> QED BY <2>1, <2>2 DEF MaxCopies
<1> QED BY <1>1

LEMMA WithinBudget ==
  ASSUME TypeInv, [Next]_vars, NEW c \in Chunks, texts[c] <= Budget,
         texts'[c] = texts[c]
  PROVE  texts'[c] <= Budget'
<1>1. texts[c] \in 0..3
  BY DEF TypeInv, TypeOK, StoreTypeOK, MaxCopies
<1> QED BY <1>1, BudgetGrows

(* A text of a session that is not transcribed has its run.                *)
LEMMA FreshStep ==
  ASSUME OnceInv, [Next]_vars, NEW s \in Sessions, s \notin shared',
         status'[s] \in {"STARTED", "CAPTURED"}, \A p \in Runs : At(p, s)' => p \notin wrote',
         NEW c \in ChunksOf(s)
  PROVE  texts'[c] <= Budget'
<1> USE DEF OnceInv, TextInv, FlowInv, QuietInv
<1>0. s \notin shared /\ c \in Chunks /\ SessionOf[c[1]] = s /\ TypeInv'
  BY MeetStep, TypeStep DEF ChunksOf
<1>1. status[s] \in {"none", "STARTED", "CAPTURED"}
  BY SessionFlows DEF Stays, Begins, Advances, Following, Fails, Goes, Stages,
     TypeInv, TypeOK, StoreTypeOK
<1>2. ASSUME texts[c] <= Budget PROVE texts'[c] <= Budget'
  <2>1. CASE texts'[c] = texts[c]
    BY <1>0, <1>2, <2>1, WithinBudget
  <2>2. ASSUME NEW p \in Runs, At(p, s), TSave(p) PROVE texts'[c] = texts[c]
    <3>1. At(p, s)'
      BY <2>2 DEF TSave, RunAt, At, TypeInv, TypeOK, PipelineTypeOK
    <3> QED BY <2>2, <3>1 DEF TSave
  <2>3. ASSUME NEW p \in Runs, At(p, s), NDelete(p) PROVE FALSE
    <3>1. status' = status /\ rpc[p] = "ndelete"
      BY <2>3 DEF NDelete
    <3> QED BY <1>0, <1>1, <2>3, <3>1 DEF AtStage, At
  <2>4. ASSUME Texts(s)' = {} PROVE texts'[c] <= Budget'
    <3>1. texts'[c] = 0
      <4>1. ~ (texts'[c] > 0)
        BY <1>0, <2>4 DEF Texts, ChunksOf
      <4>2. texts'[c] \in 0..3
        BY <1>0 DEF TypeInv, TypeOK, StoreTypeOK, MaxCopies
      <4> QED BY <4>1, <4>2
    <3> QED BY <3>1, BudgetGrows
  <2> QED BY <2>1, <2>2, <2>3, <2>4, TextWriters DEF RowInv
<1>3. CASE status[s] = "none"
  <2>1. texts[c] = 0
    BY <1>3, NoTextThere DEF RowInv, DeletedLeavesNoRows, TypeInv, TypeOK
  <2> QED BY <1>2, <2>1, BudgetGrows
<1>4. CASE status[s] \in {"STARTED", "CAPTURED"} /\ \A p \in Runs : At(p, s) => p \notin wrote
  BY <1>0, <1>2, <1>4 DEF Fresh
<1>5. ASSUME status[s] \in {"STARTED", "CAPTURED"}, NEW p \in Runs, At(p, s), p \in wrote
      PROVE  texts'[c] <= Budget'
  <2>1. texts' = texts /\ Budget' >= Budget + 1
    BY <1>0, <1>5, WrittenStays
  <2>2. texts[c] <= 1 + Budget
    BY <1>0 DEF Single, Own
  <2>3. texts[c] \in 0..3
    BY <1>0 DEF TypeInv, TypeOK, StoreTypeOK, MaxCopies
  <2> QED BY <2>1, <2>2, <2>3, BudgetGrows
<1> QED BY <1>1, <1>3, <1>4, <1>5

(* The later stages do not go back to the loop.                            *)
LEMMA LoopLeft ==
  ASSUME TypeInv, NEW p \in Runs, NStep(p) \/ SStep(p)
  PROVE  rpc'[p] \notin {"tloop", "tsave"}
<1> USE DEF TypeInv, TypeOK, PipelineTypeOK
<1>1. CASE NGet(p) \/ NTexts(p)
  BY <1>1 DEF NGet, NTexts, Proceed, Return, RunAt
<1>2. CASE NStatus(p)
  BY <1>2 DEF NStatus, Proceed, Return, RunAt
<1>3. CASE NSave(p)
  BY <1>3 DEF NSave, Proceed, Return, RunAt
<1>4. CASE NDelete(p) \/ SGenerate(p)
  BY <1>4 DEF NDelete, SGenerate, StartNext, RunAt
<1>5. CASE SGet(p)
  BY <1>5 DEF SGet, Proceed, Return, RunAt
<1>6. CASE SStatus(p)
  BY <1>6 DEF SStatus, Proceed, Return, RunAt
<1>7. CASE SFail(p) \/ SSave(p)
  BY <1>7 DEF SFail, SSave, Return, RunAt
<1> QED BY <1>1, <1>2, <1>3, <1>4, <1>5, <1>6, <1>7 DEF NStep, SStep

(* What a run that goes on in its loop finds.                              *)
LEMMA AheadStep ==
  ASSUME OnceInv, [Next]_vars, TypeInv', NEW p \in Runs, NEW s, s = work'[p],
         s \notin shared', rpc'[p] \in {"tloop", "tsave"}
  PROVE  /\ \A c \in todo'[p] : texts'[c] <= Budget'
         /\ rpc'[p] = "tsave" => texts'[cur'[p]] <= Budget' /\ cur'[p] \notin todo'[p]
<1> USE DEF OnceInv, TextInv, FlowInv, QuietInv
<1>0. s \in Sessions /\ s \notin shared
  BY MeetStep DEF TypeInv, Assigned
<1>1. CASE RunStep(p)
  <2>0. work[p] = s /\ At(p, s) /\ todo[p] \subseteq Chunks
    BY <1>0, <1>1, RunEffect DEF At, TypeInv, TypeOK, PipelineTypeOK
  <2>1. CASE TChunks(p)
    <3>1. /\ texts' = texts /\ rpc[p] = "tchunks" /\ rpc'[p] = "tloop"
          /\ todo'[p] = chunks \cap ChunksOf(s)
      BY <2>0, <2>1 DEF TChunks, Return, RunAt, TypeInv, TypeOK, PipelineTypeOK
    <3>2. status[s] \in {"CAPTURED", "none"} /\ p \notin wrote
      BY <1>0, <2>0, <3>1 DEF AtStage, Counted
    <3>3. \A c \in ChunksOf(s) : texts[c] <= Budget
      <4>1. CASE status[s] = "none"
        <5>1. \A c \in ChunksOf(s) : texts[c] = 0
          BY <1>0, <4>1, NoTextThere DEF RowInv, DeletedLeavesNoRows, TypeInv, TypeOK
        <5> QED BY <5>1, BudgetGrows
      <4>2. CASE status[s] = "CAPTURED"
        <5>1. \A q \in Runs : At(q, s) => q \notin wrote
          BY <1>0, <2>0, <3>2, NobodyElse
        <5> QED BY <1>0, <4>2, <5>1 DEF Fresh
      <4> QED BY <3>2, <4>1, <4>2
    <3> QED BY <3>1, <3>3, WithinBudget DEF ChunksOf
  <2>2. ASSUME NEW c \in Chunks, TWhisper(p, c)
        PROVE  /\ \A x \in todo'[p] : texts'[x] <= Budget'
               /\ rpc'[p] = "tsave" => texts'[cur'[p]] <= Budget' /\ cur'[p] \notin todo'[p]
    <3>1. /\ texts' = texts /\ rpc[p] = "tloop" /\ c \in todo[p] /\ todo'[p] = todo[p] \ {c}
          /\ rpc'[p] = "tsave" => cur'[p] = c
      BY <2>2 DEF TWhisper, RunAt, TypeInv, TypeOK, PipelineTypeOK
    <3>2. \A x \in todo[p] : texts[x] <= Budget
      BY <1>0, <2>0, <3>1 DEF Ahead
    <3> QED BY <2>0, <3>1, <3>2, WithinBudget
  <2>3. CASE TSave(p)
    <3>1. /\ rpc[p] = "tsave" /\ rpc'[p] = "tloop" /\ todo' = todo
          /\ \A c \in Chunks : c # cur[p] => texts'[c] = texts[c]
      BY <2>3 DEF TSave, RunAt, TypeInv, TypeOK, PipelineTypeOK, StoreTypeOK
    <3>2. \A x \in todo[p] : texts[x] <= Budget /\ x # cur[p]
      BY <1>0, <2>0, <3>1 DEF Ahead
    <3> QED BY <2>0, <3>1, <3>2, WithinBudget
  <2>4. CASE TGet(p) \/ TGiveUp(p) \/ TLoopEnds(p) \/ TDone(p) \/ TFiles(p) \/ TDelete(p)
    <3> USE DEF TypeInv, TypeOK, PipelineTypeOK
    <3>1. CASE TGet(p)
      BY <3>1 DEF TGet, Proceed, Return, RunAt
    <3>4. CASE TGiveUp(p)
      BY <3>4 DEF TGiveUp, Return, RunAt
    <3>2. CASE TDone(p)
      BY <3>2 DEF TDone, Proceed, Return, RunAt
    <3>3. CASE TLoopEnds(p) \/ TFiles(p) \/ TDelete(p)
      BY <3>3 DEF TLoopEnds, TFiles, TDelete, StartNext, RunAt
    <3> QED BY <2>4, <3>1, <3>2, <3>3, <3>4
  <2>5. CASE NStep(p) \/ SStep(p)
    BY <2>5, LoopLeft
  <2> QED BY <1>1, <2>1, <2>2, <2>3, <2>4, <2>5 DEF RunStep, TStep
<1>2. CASE ~ RunStep(p)
  <2>1. /\ rpc'[p] = rpc[p] /\ todo'[p] = todo[p] /\ cur'[p] = cur[p] /\ work[p] = s
    BY <1>2, RunMoves
  <2>2. /\ todo[p] \subseteq ChunksOf(s)
        /\ rpc[p] = "tsave" => cur[p] \in ChunksOf(s)
    BY <2>1 DEF RowInv, OwnChunks
  <2>3. ASSUME NEW q \in Runs, At(q, s) PROVE ~ TSave(q) /\ ~ NDelete(q)
    BY <1>0, <1>2, <2>1, <2>3, NobodyElse DEF At, RunStep, TStep, NStep
  <2>4. ASSUME NEW c \in ChunksOf(s), texts[c] <= Budget PROVE texts'[c] <= Budget'
    <3>1. CASE texts'[c] = texts[c]
      BY <2>4, <3>1, WithinBudget DEF ChunksOf
    <3>2. CASE Texts(s)' = {}
      <4>1. c \in Chunks /\ ~ (texts'[c] > 0)
        BY <2>4, <3>2 DEF Texts, ChunksOf
      <4>2. texts'[c] \in 0..3
        BY <4>1 DEF TypeInv, TypeOK, StoreTypeOK, MaxCopies
      <4>3. texts'[c] = 0
        BY <4>1, <4>2
      <4> QED BY <4>3, BudgetGrows
    <3> QED BY <1>0, <2>3, <2>4, <3>1, <3>2, TextWriters DEF RowInv
  <2> QED BY <1>0, <2>1, <2>2, <2>4 DEF Ahead
<1> QED BY <1>1, <1>2

(* No further copy of a text arises.                                       *)
LEMMA SingleStep ==
  ASSUME OnceInv, [Next]_vars, TypeInv', NEW c \in Chunks, Own(SessionOf[c[1]])'
  PROVE  /\ texts'[c] <= 1 + Budget' /\ doc'[c] <= 1 + Budget'
         /\ \A p \in Runs : copy'[p][c] <= 1 + Budget'
<1> DEFINE s == SessionOf[c[1]]
<1>a. TypeInv /\ TextInv /\ RowInv /\ Single /\ Ahead /\ MeetNoted
  BY DEF OnceInv, TextInv, FlowInv, QuietInv
<1>0. s \in Sessions /\ c \in ChunksOf(s) /\ s \notin shared
  BY <1>a, MeetStep DEF ChunksOf, Chunks, Own
<1>1. texts[c] <= 1 + Budget /\ doc[c] <= 1 + Budget /\ \A p \in Runs : copy[p][c] <= 1 + Budget
  BY <1>0, <1>a DEF Single, Own
<1>2. texts[c] \in Nat /\ doc[c] \in Nat /\ texts'[c] \in Nat /\ doc'[c] \in Nat
  BY <1>a DEF TypeInv, TypeOK, StoreTypeOK, MaxCopies
<1>b. Budget \in Nat /\ Budget' \in Nat /\ Budget' >= Budget
  BY <1>a, BudgetGrows
<1>c. ASSUME NEW n \in Nat, n <= 1 + Budget PROVE n <= 1 + Budget'
  BY <1>b, <1>c
<1>3. texts'[c] <= 1 + Budget'
  <2>1. ASSUME NEW p \in Runs, At(p, s), TSave(p) PROVE texts'[c] <= 1 + Budget'
    <3>1. texts[cur[p]] <= Budget /\ texts \in [Chunks -> 0..MaxCopies]
      BY <1>0, <1>a, <2>1 DEF Ahead, TSave, At, TypeInv, TypeOK, StoreTypeOK
    <3>2. texts'[c] = texts[c] \/ (c = cur[p] /\ texts'[c] = texts[c] + 1)
      BY <1>0, <2>1, <3>1 DEF TSave
    <3> QED BY <1>1, <1>2, <1>b, <1>c, <3>1, <3>2
  <2>2. ASSUME NEW p \in Runs, NDelete(p) PROVE texts'[c] \in {0, texts[c]}
    BY <1>a, <2>2 DEF NDelete, DeleteTextRows
  <2>3. ASSUME Texts(s)' = {} PROVE texts'[c] = 0
    <3>1. ~ (texts'[c] > 0)
      BY <1>0, <2>3 DEF Texts, ChunksOf
    <3> QED BY <1>2, <3>1
  <2>4. CASE texts'[c] \in {0, texts[c]}
    BY <1>1, <1>2, <1>b, <1>c, <2>4
  <2> QED BY <1>0, <1>a, <2>1, <2>2, <2>3, <2>4, TextWriters DEF RowInv
<1>4. doc'[c] <= 1 + Budget'
  <2>1. ASSUME NEW p \in Runs, NSave(p) PROVE doc'[c] = doc[c] \/ doc'[c] = copy[p][c]
    BY <1>a, <2>1 DEF NSave
  <2>2. ASSUME Doc(s)' = {} PROVE doc'[c] = 0
    <3>1. ~ (doc'[c] > 0)
      BY <1>0, <2>2 DEF Doc, ChunksOf
    <3> QED BY <1>2, <3>1
  <2>3. \/ doc'[c] = doc[c] \/ doc'[c] = 0
        \/ \E p \in Runs : doc'[c] = copy[p][c]
    BY <1>0, <1>a, <2>1, <2>2, DocWriters
  <2> QED BY <1>1, <1>2, <1>b, <1>c, <2>3
<1>5. ASSUME NEW p \in Runs PROVE copy'[p][c] <= 1 + Budget'
  <2>a. copy \in [Runs -> [Chunks -> 0..MaxCopies]]
    BY <1>a DEF TypeInv, TypeOK, PipelineTypeOK
  <2>b. copy[p] \in [Chunks -> 0..MaxCopies]
    BY <2>a
  <2>0. copy \in [Runs -> [Chunks -> 0..MaxCopies]] /\ copy[p][c] \in Nat
    BY <1>0, <1>a, <2>a, <2>b DEF MaxCopies
  <2>1. NoCopy[c] = 0
    BY DEF NoCopy
  <2>2. CASE copy'[p] = copy[p] \/ copy'[p] = NoCopy
    <3>1. copy'[p][c] \in {copy[p][c], 0}
      BY <2>1, <2>2
    <3> QED BY <1>1, <1>b, <1>c, <2>0, <3>1
  <2>3. CASE ~ RunStep(p)
    BY <1>a, <2>2, <2>3, RunMoves
  <2>4. CASE Return(p)
    BY <2>0, <2>2, <2>4 DEF Return
  <2>5. CASE UNCHANGED copy
    BY <2>2, <2>5
  <2>6. CASE NTexts(p)
    <3>1. CASE Return(p)
      BY <2>4, <3>1
    <3>2. CASE copy' = [copy EXCEPT ![p] =
                 [x \in Chunks |-> IF x \in ChunksOf(work[p]) THEN texts[x] ELSE 0]]
      <4>1. copy'[p] = [x \in Chunks |-> IF x \in ChunksOf(work[p]) THEN texts[x] ELSE 0]
        BY <2>0, <3>2
      <4>2. copy'[p][c] = texts[c] \/ copy'[p][c] = 0
        BY <4>1
      <4> QED BY <1>1, <1>2, <1>b, <1>c, <4>2
    <3> QED BY <2>6, <3>1, <3>2 DEF NTexts
  <2> QED BY <2>3, <2>4, <2>5, <2>6 DEF RunStep, TStep, NStep, SStep, TGet, TChunks, TGiveUp,
          TWhisper, TSave, TLoopEnds, TDone, TFiles, TDelete, NGet, NStatus, NSave, NDelete,
          SGet, SGenerate, SFail, SStatus, SSave, Proceed, StartNext
<1> QED BY <1>3, <1>4, <1>5

(* The invariant is inductive.                                             *)
LEMMA OnceStep ==
  ASSUME OnceInv, [Next]_vars
  PROVE  OnceInv'
<1>1. TextInv' /\ TypeInv'
  BY TextStep DEF OnceInv, TextInv, FlowInv, QuietInv
<1>2. Fresh'
  BY FreshStep DEF Fresh, ChunksOf
<1>3. Ahead'
  BY <1>1, AheadStep DEF Ahead
<1>4. Single'
  BY <1>1, SingleStep DEF Single
<1> QED BY <1>1, <1>2, <1>3, <1>4, OnwardStep, UnwrittenStep DEF OnceInv

(* The words of a chunk are in the transcript once, and once more at most  *)
(* for each refused command and each crash: the saving loop takes each     *)
(* chunk once, a session that is not shared is only transcribed again if   *)
(* no text was stored or the run could not say so, and the document is     *)
(* made of the rows.                                                       *)
THEOREM EachChunkOnceHolds == Spec => []EachChunkOnce
<1>1. OnceInv /\ [Next]_vars => OnceInv'
  BY OnceStep
<1>2. OnceInv => EachChunkOnce
  <2> SUFFICES ASSUME OnceInv, NEW c \in Chunks, Own(SessionOf[c[1]])
               PROVE  doc[c] <= 1 + faults + crashes
    BY DEF EachChunkOnce
  <2>1. doc[c] <= 1 + (faults + crashes)
    BY DEF OnceInv, Single, Budget
  <2>2. faults \in Nat /\ crashes \in Nat
    BY DEF OnceInv, TextInv, FlowInv, QuietInv, TypeInv, TypeOK, StoreTypeOK
  <2> QED BY <2>1, <2>2
<1> QED BY <1>1, <1>2, InitOnce, PTL DEF Spec
=============================================================================
