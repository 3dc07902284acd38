----------------------------- MODULE Summarizer ------------------------------
(***************************************************************************)
(* The summarizer as a whole: the capture of the sound and the stages that *)
(* follow share the session's rows and files; sessions are deleted, rows   *)
(* grow old and the server crashes.                                        *)
(***************************************************************************)
EXTENDS Capture, Pipeline

CONSTANTS
    Deletes,     \* DELETE /sessions/:id, one handler per element
    Doomed,      \* [Deletes -> Sessions], the session it names
    MaxCrashes

ASSUME SummarizerAssumption ==
    /\ Doomed \in [Deletes -> Sessions]
    /\ MaxCrashes \in Nat
    /\ Runs \cap (Sessions \cup Stops) = {}

VARIABLES
    dpc,      \* where each delete is
    crashes,
    shared    \* sessions two goroutines have worked on at once: a history variable

vars == <<store, capture, pipeline, dpc, crashes, shared>>

TypeOK ==
    /\ StoreTypeOK
    /\ CaptureTypeOK
    /\ PipelineTypeOK
    /\ dpc \in [Deletes -> {"init", "files", "chunks", "texts", "row",
                            "done", "dead"}]
    /\ crashes \in 0..MaxCrashes
    /\ shared \subseteq Sessions

Init ==
    /\ StoreInit
    /\ CaptureInit
    /\ PipelineInit
    /\ dpc = [d \in Deletes |-> "init"]
    /\ crashes = 0
    /\ shared = {}

(***************************************************************************)
(* DeleteSession, by the owner of the session, whatever its status.        *)
(***************************************************************************)
DeleteAt(d, label) == dpc' = [dpc EXCEPT ![d] = label]

DeleteFind(d) ==
    /\ dpc[d] = "init"
    /\ status[Doomed[d]] # "none"
    /\ \E ok \in BOOLEAN : Db(ok) /\ DeleteAt(d, IF ok THEN "files" ELSE "done")
    /\ UNCHANGED <<rows, disk>>

DeleteFiles(d) ==
    /\ dpc[d] = "files"
    /\ RemoveAll(Doomed[d])
    /\ DeleteAt(d, "chunks")
    /\ UNCHANGED <<rows, faults>>

DeleteChunks(d) ==
    /\ dpc[d] = "chunks"
    /\ \E ok \in BOOLEAN :
         /\ Db(ok)
         /\ DeleteChunkRows(ok, Doomed[d])
         /\ DeleteAt(d, IF ok THEN "texts" ELSE "done")
    /\ UNCHANGED <<columns, texts, doc, disk>>

DeleteTexts(d) ==
    /\ dpc[d] = "texts"
    /\ \E ok \in BOOLEAN :
         /\ Db(ok)
         /\ DeleteTextRows(ok, Doomed[d])
         /\ DeleteAt(d, IF ok THEN "row" ELSE "done")
    /\ UNCHANGED <<columns, chunks, doc, disk>>

(* The foreign keys delete the rows that refer to the session.             *)
DeleteRow(d) ==
    LET s == Doomed[d] IN
    /\ dpc[d] = "row"
    /\ \E ok \in BOOLEAN :
         /\ Db(ok)
         /\ DeleteChunkRows(ok, s)
         /\ DeleteTextRows(ok, s)
         /\ IF ok
            THEN /\ status' = [status EXCEPT ![s] = "none"]
                 /\ doc' = [c \in Chunks |-> IF c \in ChunksOf(s) THEN 0 ELSE doc[c]]
                 /\ err' = err \ {s}
                 /\ old' = old \ {s}
                 /\ summarized' = summarized \ {s}
            ELSE UNCHANGED <<status, doc, err, old, summarized>>
    /\ DeleteAt(d, "done")
    /\ UNCHANGED disk

DeleteStep(d) == DeleteFiles(d) \/ DeleteChunks(d) \/ DeleteTexts(d)
                 \/ DeleteRow(d)

(***************************************************************************)
(* The end of a stop starts the transcription.                             *)
(***************************************************************************)
StopEnds(st) ==
    \/ /\ StopCount(st, TRUE)
       /\ \E p \in Runs : Begin(p, target[st], "tget")
       /\ UNCHANGED hired
    \/ StopCount(st, FALSE) /\ UNCHANGED pipeline

(* stuckThreshold has passed since the row's last update, whether or not   *)
(* somebody still works on the session.                                    *)
Age(s) ==
    /\ status[s] \in Stages \ {"STARTED", "SUMMARIZED"}
    /\ s \notin old
    /\ old' = old \cup {s}
    /\ UNCHANGED <<status, err, summarized, chunks, texts, doc, disk, faults>>

(* The server stops: its goroutines are gone, rows and files stay.         *)
Crash ==
    /\ crashes < MaxCrashes
    /\ crashes' = crashes + 1
    /\ hpc' = [h \in Sessions \cup Stops |->
                 IF hpc[h] \in {"init", "joined", "refused", "failed", "done"}
                 THEN hpc[h] ELSE "dead"]
    /\ rooms' = {}
    /\ bots' = {}
    /\ tpc' = [t \in Tracks |->
                 IF tpc[t] \in {"init", "done"} THEN tpc[t] ELSE "dead"]
    /\ rpc' = [p \in Runs |-> "idle"]
    /\ work' = [p \in Runs |-> None]
    /\ todo' = [p \in Runs |-> {}]
    /\ cur' = [p \in Runs |-> None]
    /\ wrote' = {}
    /\ copy' = [p \in Runs |-> NoCopy]
    /\ hired' = {}
    /\ dpc' = [d \in Deletes |->
                 IF dpc[d] \in {"init", "done"} THEN dpc[d] ELSE "dead"]
    /\ UNCHANGED <<store, target, idx, heard, left>>

Step ==
    \/ CaptureNext /\ UNCHANGED <<pipeline, dpc, crashes>>
    \/ \E st \in Stops : StopEnds(st) /\ UNCHANGED <<dpc, crashes>>
    \/ \E p \in Runs : /\ RunStep(p) \/ (\E s \in Sessions : Tick(p, s))
                       /\ UNCHANGED <<capture, dpc, crashes>>
    \/ \E d \in Deletes : /\ DeleteFind(d) \/ DeleteStep(d)
                          /\ UNCHANGED <<capture, pipeline, crashes>>
    \/ \E s \in Sessions : Age(s) /\ UNCHANGED <<capture, pipeline, dpc, crashes>>
    \/ Crash

(***************************************************************************)
(* Nothing in the code keeps two goroutines off one session: a stop may    *)
(* come before the bot has joined or twice, a worker may take up what a    *)
(* run has not finished.  The history variable remembers where it happened.*)
(***************************************************************************)
Joining(s) == hpc[s] \in {"join", "store", "joinfail"}

Stopping(st, s) ==
    target[st] = s /\ hpc[st] \in {"check", "room", "wait", "update", "count"}

AtWork(s) ==
    {x \in {s} : Joining(x)} \cup {st \in Stops : Stopping(st, s)}
        \cup {p \in Runs : rpc[p] # "idle" /\ work[p] = s}

Meet(s) == \E a, b \in AtWork(s) : a # b

Remember == shared' = shared \cup {s \in Sessions : Meet(s)'}

Next == Step /\ Remember

Spec == Init /\ [][Next]_vars

(* Goroutines and handlers that can go on do, rows grow old and the        *)
(* workers tick; nothing makes a host, a participant or a crash act.       *)
Fairness ==
    /\ \A s \in Sessions :
         WF_vars(StartStep(s) /\ UNCHANGED <<pipeline, dpc, crashes>> /\ Remember)
    /\ \A t \in Tracks :
         WF_vars(TrackStep(t) /\ UNCHANGED <<pipeline, dpc, crashes>> /\ Remember)
    /\ \A st \in Stops :
         /\ WF_vars(StopStep(st) /\ UNCHANGED <<pipeline, dpc, crashes>> /\ Remember)
         /\ WF_vars(StopEnds(st) /\ UNCHANGED <<dpc, crashes>> /\ Remember)
    /\ \A p \in Runs :
         WF_vars(RunStep(p) /\ UNCHANGED <<capture, dpc, crashes>> /\ Remember)
    /\ \A d \in Deletes :
         WF_vars(DeleteStep(d) /\ UNCHANGED <<capture, pipeline, crashes>> /\ Remember)
    /\ \A s \in Sessions :
         /\ WF_vars(Age(s) /\ UNCHANGED <<capture, pipeline, dpc, crashes>> /\ Remember)
         /\ WF_vars((\E p \in Runs : Tick(p, s))
                      /\ UNCHANGED <<capture, dpc, crashes>> /\ Remember)

FairSpec == Spec /\ Fairness
=============================================================================
