------------------------------- MODULE Capture -------------------------------
(***************************************************************************)
(* SummarizerService: starting and stopping a session, the bot that joins  *)
(* the LiveKit room, and one goroutine per audio track that cuts the sound *)
(* into chunk files.  A session of the model is one StartSummarizer, the   *)
(* row it creates and the goroutine that joins; a stop is one request to   *)
(* stop the summarizer or, for Ends, to end the meeting.                   *)
(***************************************************************************)
EXTENDS SessionRows

CONSTANTS
    Stops, Ends, Meetings,
    MeetingOf    \* [Sessions \cup Stops -> Meetings]

ASSUME CaptureAssumption ==
    /\ Ends \subseteq Stops
    /\ MeetingOf \in [Sessions \cup Stops -> Meetings]
    /\ Sessions \cap Stops = {}

VARIABLES
    hpc,     \* where each start and each stop is
    target,  \* the session a stop has found
    rooms,   \* SummarizerService.activeRooms
    bots,    \* sessions whose bot is in its LiveKit room
    tpc,     \* where each handleAudioTrack is
    idx,     \* chunkIndex
    heard,   \* tracks whose packetCount is positive
    left     \* stops that have found a room to leave: a history variable

capture == <<hpc, target, rooms, bots, tpc, idx, heard, left>>

StartLabels == {"init", "create", "join", "store", "joinfail",
                "joined", "refused", "failed", "dead"}
StopLabels  == {"init", "check", "room", "wait", "update", "count",
                "end", "done", "dead"}
TrackLabels == {"init", "mkdir", "open", "reading", "rotate", "last",
                "done", "dead"}

CaptureTypeOK ==
    /\ hpc \in [Sessions \cup Stops -> StartLabels \cup StopLabels]
    /\ target \in [Stops -> Sessions \cup {None}]
    /\ rooms \subseteq Sessions
    /\ bots \subseteq Sessions
    /\ tpc \in [Tracks -> TrackLabels]
    /\ idx \in [Tracks -> 0..MaxIndex]
    /\ heard \subseteq Tracks
    /\ left \subseteq Stops

CaptureInit ==
    /\ hpc = [h \in Sessions \cup Stops |-> "init"]
    /\ target = [st \in Stops |-> None]
    /\ rooms = {}
    /\ bots = {}
    /\ tpc = [t \in Tracks |-> "init"]
    /\ idx = [t \in Tracks |-> 0]
    /\ heard = {}
    /\ left = {}

HandlerAt(h, label) == hpc' = [hpc EXCEPT ![h] = label]
TrackAt(t, label)   == tpc' = [tpc EXCEPT ![t] = label]

tracks == <<tpc, idx, heard>>
bot    == <<rooms, bots, left>>

(***************************************************************************)
(* StartSummarizer, by the creator of the meeting.                         *)
(***************************************************************************)
Active(m) == {s \in Sessions : MeetingOf[s] = m /\ status[s] = "STARTED"}

StartCheck(s) ==
    /\ hpc[s] = "init"
    /\ \E ok \in BOOLEAN :
         /\ Db(ok)
         /\ HandlerAt(s, IF ok /\ Active(MeetingOf[s]) # {}
                         THEN "refused" ELSE "create")
    /\ UNCHANGED <<rows, disk, target, bot, tracks>>

StartCreate(s) ==
    /\ hpc[s] = "create"
    /\ \E ok \in BOOLEAN :
         /\ Db(ok)
         /\ status' = IF ok THEN [status EXCEPT ![s] = "STARTED"] ELSE status
         /\ HandlerAt(s, IF ok THEN "join" ELSE "failed")
    /\ UNCHANGED <<err, old, summarized, chunks, texts, doc, disk,
                   target, bot, tracks>>

(* joinLiveKitRoom: connect, then remember the room.                       *)
JoinConnect(s) ==
    /\ hpc[s] = "join"
    /\ \/ bots' = bots \cup {s} /\ HandlerAt(s, "store")
       \/ UNCHANGED bots /\ HandlerAt(s, "joinfail")
    /\ UNCHANGED <<store, target, rooms, left, tracks>>

JoinStore(s) ==
    /\ hpc[s] = "store"
    /\ rooms' = rooms \cup {s}
    /\ HandlerAt(s, "joined")
    /\ UNCHANGED <<store, target, bots, left, tracks>>

JoinFailed(s) ==
    /\ hpc[s] = "joinfail"
    /\ \E ok \in BOOLEAN : UpdateStatus(ok, s, "STARTED", TRUE)
    /\ HandlerAt(s, "failed")
    /\ UNCHANGED <<summarized, chunks, texts, doc, disk,
                   target, bot, tracks>>

(***************************************************************************)
(* handleAudioTrack.  The bot subscribes to a track while it is in the     *)
(* room; a track ends with the bot's connection or with its participant's. *)
(***************************************************************************)
Subscribe(t) ==
    /\ tpc[t] = "init"
    /\ SessionOf[t] \in bots
    /\ TrackAt(t, "mkdir")
    /\ UNCHANGED <<store, hpc, target, bot, idx, heard>>

(* A slip: a track without its directory returns without wg.Done.          *)
TrackMkdirStays(t) ==
    /\ tpc[t] = "mkdir"
    /\ \/ dirs' = dirs \cup {Dir(t)} /\ TrackAt(t, "open")
       \/ UNCHANGED dirs /\ TrackAt(t, "counted")
    /\ UNCHANGED <<rows, audio, faults, hpc, target, bot,
                   idx, heard>>

(* setupUserDirectory, without whose directory the track is not recorded.  *)
TrackMkdir(t) ==
    /\ tpc[t] = "mkdir"
    /\ \/ dirs' = dirs \cup {Dir(t)} /\ TrackAt(t, "open")
       \/ UNCHANGED dirs /\ TrackAt(t, "done")
    /\ UNCHANGED <<rows, audio, faults, hpc, target, bot,
                   idx, heard>>

(* openNewChunk creates the file, over the one of the same name if there   *)
(* is one, and fails without its directory.                                *)
TrackOpen(t) ==
    /\ tpc[t] = "open"
    /\ IF Dir(t) \in dirs
       THEN /\ audio' = [audio EXCEPT ![Path(<<t, idx[t]>>)] = t]
            /\ TrackAt(t, "reading")
       ELSE TrackAt(t, "done") /\ UNCHANGED audio
    /\ UNCHANGED <<rows, dirs, faults, hpc, target, bot, idx, heard>>

(* A packet is written; once the chunk is long enough it is closed.        *)
TrackPacket(t) ==
    /\ tpc[t] = "reading"
    /\ SessionOf[t] \in bots
    /\ heard' = heard \cup {t}
    /\ \/ UNCHANGED tpc
       \/ idx[t] < MaxIndex /\ TrackAt(t, "rotate")
    /\ UNCHANGED <<store, hpc, target, bot, idx>>

TrackEof(t) ==
    /\ tpc[t] = "reading"
    /\ TrackAt(t, "last")
    /\ UNCHANGED <<store, hpc, target, bot, idx, heard>>

(* A slip: a row is stored although its session is gone.                   *)
TrackSaveOrphans(t) ==
    /\ tpc[t] \in {"rotate", "last"}
    /\ chunks' = IF t \in heard THEN chunks \cup {<<t, idx[t]>>} ELSE chunks
    /\ IF tpc[t] = "rotate"
       THEN TrackAt(t, "open") /\ idx' = [idx EXCEPT ![t] = @ + 1]
       ELSE TrackAt(t, "done") /\ UNCHANGED idx
    /\ UNCHANGED <<columns, texts, doc, disk, faults, hpc, target, bot,
                   heard>>

(* closeChunk stores the metadata if the track has had any packet at all;  *)
(* the row needs its session.  Errors are ignored.                         *)
TrackSave(t) ==
    LET c == <<t, idx[t]>> IN
    /\ tpc[t] \in {"rotate", "last"}
    /\ \E ok \in BOOLEAN :
         /\ IF t \in heard THEN Db(ok) ELSE ok /\ UNCHANGED faults
         /\ IF t \in heard /\ ok /\ status[SessionOf[t]] # "none"
            THEN chunks' = chunks \cup {c}
            ELSE UNCHANGED chunks
    /\ IF tpc[t] = "rotate"
       THEN TrackAt(t, "open") /\ idx' = [idx EXCEPT ![t] = @ + 1]
       ELSE TrackAt(t, "done") /\ UNCHANGED idx
    /\ UNCHANGED <<columns, texts, doc, disk, hpc, target, bot, heard>>

(* The goroutines SummarizerService.wg counts, those of all sessions.      *)
Capturing == {t \in Tracks : tpc[t] \notin {"init", "done", "dead"}}

(***************************************************************************)
(* StopSummarizer, called by the stop handler and by EndMeeting, which     *)
(* ignores its result and then deletes the room.                           *)
(***************************************************************************)
Leave(st) == HandlerAt(st, IF st \in Ends THEN "end" ELSE "done")

(* GetActiveSession.                                                       *)
StopFind(st) ==
    /\ hpc[st] = "init"
    /\ \/ \E s \in Active(MeetingOf[st]) :
            /\ target' = [target EXCEPT ![st] = s]
            /\ HandlerAt(st, "check")
            /\ UNCHANGED faults
       \/ /\ Db(FALSE) \/ (Active(MeetingOf[st]) = {} /\ Db(TRUE))
          /\ Leave(st)
          /\ UNCHANGED target
    /\ UNCHANGED <<rows, disk, bot, tracks>>

StopCheck(st) ==
    /\ hpc[st] = "check"
    /\ \E ok \in BOOLEAN :
         /\ Db(ok)
         /\ IF ok /\ status[target[st]] = "STARTED"
            THEN HandlerAt(st, "room") ELSE Leave(st)
    /\ UNCHANGED <<rows, disk, target, bot, tracks>>

StopRoom(st) ==
    LET s == target[st] IN
    /\ hpc[st] = "room"
    /\ IF s \in rooms
       THEN /\ rooms' = rooms \ {s}
            /\ bots' = bots \ {s}
            /\ left' = left \cup {st}
       ELSE UNCHANGED bot
    /\ HandlerAt(st, "wait")
    /\ UNCHANGED <<store, target, tracks>>

(* A slip: nobody waits for the tracks.                                    *)
StopDoesNotWait(st) ==
    /\ hpc[st] = "wait"
    /\ HandlerAt(st, "update")
    /\ UNCHANGED <<store, target, bot, tracks>>

(* wg.Wait.                                                                *)
StopWait(st) ==
    /\ hpc[st] = "wait"
    /\ Capturing = {}
    /\ HandlerAt(st, "update")
    /\ UNCHANGED <<store, target, bot, tracks>>

(* A slip: a status that is none of the constants.                         *)
StopUpdateStopped(st) ==
    /\ hpc[st] = "update"
    /\ UpdateStatus(TRUE, target[st], "STOPPED", FALSE)
    /\ HandlerAt(st, "count")
    /\ UNCHANGED <<summarized, chunks, texts, doc, disk,
                   target, bot, tracks>>

StopUpdate(st) ==
    /\ hpc[st] = "update"
    /\ \E ok \in BOOLEAN :
         /\ UpdateStatus(ok, target[st], "CAPTURED", FALSE)
         /\ IF ok THEN HandlerAt(st, "count") ELSE Leave(st)
    /\ UNCHANGED <<summarized, chunks, texts, doc, disk,
                   target, bot, tracks>>

(* CountBySessionID; when it succeeds the transcription is started.        *)
StopCount(st, ok) ==
    /\ hpc[st] = "count"
    /\ Db(ok)
    /\ Leave(st)
    /\ UNCHANGED <<rows, disk, target, bot, tracks>>

(* DeleteRoom, which LiveKit may refuse.                                   *)
EndRoom(st) ==
    /\ hpc[st] = "end"
    /\ bots' \in {bots, {s \in bots : MeetingOf[s] # MeetingOf[st]}}
    /\ HandlerAt(st, "done")
    /\ UNCHANGED <<store, target, rooms, left, tracks>>

StartStep(s) == StartCreate(s) \/ JoinConnect(s) \/ JoinStore(s) \/ JoinFailed(s)

(* The steps a track takes by itself: a participant talks and leaves at    *)
(* will, the sound ends once the bot is gone.                              *)
TrackStep(t) == TrackMkdir(t) \/ TrackOpen(t) \/ TrackSave(t)
                \/ (SessionOf[t] \notin bots /\ TrackEof(t))

StopStep(st) == StopCheck(st) \/ StopRoom(st) \/ StopWait(st)
                \/ StopUpdate(st) \/ EndRoom(st)

CaptureNext ==
    \/ \E s \in Sessions : StartCheck(s) \/ StartStep(s)
    \/ \E t \in Tracks : Subscribe(t) \/ TrackPacket(t) \/ TrackEof(t)
                         \/ TrackStep(t)
    \/ \E st \in Stops : StopFind(st) \/ StopStep(st)
=============================================================================
