------------------------ MODULE SummarizerProperties -------------------------
(***************************************************************************)
(* What the summarizer promises, and the claims of its comments.           *)
(***************************************************************************)
EXTENDS Summarizer

(* A session's flow is read off its row: the stage and the Error field.    *)
Flow == INSTANCE SessionFlow WITH
    Sessions <- Sessions,
    status <- [s \in Sessions |-> IF s \in shared THEN "shared" ELSE status[s]],
    err <- err \ shared

(* A session moves through its stages one by one and never back, a failed  *)
(* step leaves it at its stage: no reader of the row sees it regress, from *)
(* refused commands, retries by the worker and crashes alike, until two    *)
(* goroutines have been at work on it at once.                             *)
FollowsFlow == Flow!FlowSpec

(* No delete has begun on s, and no two goroutines have met on it.         *)
Kept(s) == \A d \in Deletes : Doomed[d] = s => dpc[d] = "init"

Own(s) == s \notin shared

(* wg.Wait does its work for a stop that has left the room: once it has    *)
(* returned, no goroutine writes the session's audio and none will, so the *)
(* transcription this stop starts sees every chunk.                        *)
LeftIsQuiet ==
    \A st \in left, t \in Tracks :
        hpc[st] # "wait" /\ SessionOf[t] = target[st] => t \notin Capturing

(* A text that was extracted is never lost: from the transcript row to the *)
(* document, through refused commands, retries and crashes, each chunk's   *)
(* words stay in one of the two until the session is deleted or two        *)
(* goroutines have been at work on it at once.                             *)
TextSurvives ==
    [][\A s \in Sessions :
         Kept(s)' /\ Own(s)' => Texts(s) \cup Doc(s) \subseteq Texts(s)' \cup Doc(s)']_vars

(* What a stage needs is there when the status says the stage is next:     *)
(* else the workers would retry a session that can never go on.            *)
StageHasInput ==
    \A s \in Sessions :
        Kept(s) /\ Own(s) /\ status[s] = "TRANSCRIBED" => Texts(s) # {}

(* Audio is given up only for its text: while the session is CAPTURED,     *)
(* each chunk row still has its file, or the rest of it, on disk.          *)
CapturedKeepsAudio ==
    \A c \in chunks :
        LET s == SessionOf[c[1]] IN
        Kept(s) /\ Own(s) /\ status[s] \in {"STARTED", "CAPTURED"} => audio[Path(c)] # None

(* The words of a chunk are in the transcript once, and once more at most  *)
(* for each command the database has refused and each crash, as long as no *)
(* two goroutines have been at work on the session at once.                *)
EachChunkOnce ==
    \A c \in Chunks : Own(SessionOf[c[1]]) => doc[c] <= 1 + faults + crashes

(* After a crash, too, the workers see to it that captured audio is        *)
(* transcribed, or the row says why not.                                   *)
CapturedMovesOn ==
    \A s \in Sessions :
        status[s] = "CAPTURED" ~> status[s] # "CAPTURED" \/ s \in err

(* The same for a session whose text waits for its normalization, until    *)
(* its owner begins to delete it: a delete that is cut off leaves it there *)
(* without its texts.                                                      *)
TranscribedMovesOn ==
    \A s \in Sessions :
        status[s] = "TRANSCRIBED" ~> status[s] # "TRANSCRIBED" \/ ~ Kept(s)

(* wg counts the tracks of all sessions.  A stop that waits for ever waits *)
(* for a bot that is still in a room, another session's or one that joined *)
(* after the stop had looked for it; tracks whose bot has gone hold up     *)
(* nobody, however they end.                                               *)
Held == \E t \in Capturing : SessionOf[t] \in bots

OnlyABotHoldsAStop ==
    \A st \in Stops : <>[](hpc[st] = "wait") => <>[]Held

(* Deleting a session leaves no rows of it behind, whatever a track or a   *)
(* run that is still at work on it writes afterwards.                      *)
DeletedLeavesNoRows ==
    \A s \in Sessions : status[s] = "none" =>
        chunks \cap ChunksOf(s) = {} /\ Texts(s) \cup Doc(s) = {} /\ s \notin summarized

-----------------------------------------------------------------------------
(* Claims the code does not keep.                                          *)

(* "Status flow: STARTED -> CAPTURED -> TRANSCRIBED -> NORMALIZED ->       *)
(* SUMMARIZED": the status never goes back.                                *)
Rank(st) == CASE st = "STARTED" -> 1 [] st = "CAPTURED" -> 2
              [] st = "TRANSCRIBED" -> 3 [] st = "NORMALIZED" -> 4
              [] st = "SUMMARIZED" -> 5 [] OTHER -> 0

NeverBack ==
    [][\A s \in Sessions :
         status'[s] # "none" => Rank(status[s]) <= Rank(status'[s])]_vars

(* "NORMALIZED: Text normalized, ready for summarization": a normalized    *)
(* session nobody is working on has its transcript.                        *)
NormalizedHasText ==
    \A s \in Sessions :
        status[s] = "NORMALIZED" /\ AtWork(s) = {} /\ Kept(s) => Doc(s) # {}

(* "we ignore errors here as the scheduled task would clean it up anyway": *)
(* the session of a meeting that has ended does not stay STARTED.          *)
EndedIsCleanedUp ==
    \A st \in Ends, s \in Sessions :
        target[st] = s /\ hpc[st] = "done" ~> status[s] # "STARTED"

-----------------------------------------------------------------------------
(* Further claims it does not keep; the README names the instance on which *)
(* each fails.                                                             *)

(* "AudioChunk represents metadata for a captured audio chunk": the file   *)
(* a row names holds the sound of the row's track.                         *)
ChunkNamesItsAudio ==
    \A c \in chunks : audio[Path(c)] \in {c[1], None}

(* DeleteSession deletes the audio files: none appear after it.            *)
DeletedLeavesNoFiles ==
    \A d \in Deletes :
        dpc[d] = "done" /\ status[Doomed[d]] = "none" =>
            \A f \in DOMAIN audio : f[1] = Doomed[d] => audio[f] = None

(* "Wait for all track goroutines to finish": no track is captured once    *)
(* the status says that the audio is complete.                             *)
CapturedIsQuiet ==
    \A t \in Tracks :
        status[SessionOf[t]] \in Stages \ {"STARTED"} => t \notin Capturing

(* The same comment: a stop returns.                                       *)
StopReturns ==
    \A st \in Stops : hpc[st] = "wait" ~> hpc[st] # "wait"

(* "Check if there's already an active session": a meeting has one.        *)
OneActiveSession == \A m \in Meetings : Cardinality(Active(m)) <= 1
=============================================================================
