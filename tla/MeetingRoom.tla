----------------------------- MODULE MeetingRoom -----------------------------
(***************************************************************************)
(* The meeting room as its tabs see it: the side panels, ending the        *)
(* meeting for all, removing a participant, recording for a summary, and   *)
(* the ways out.  The calls of a tab live on when the tab has left; the    *)
(* server handles each in one step (Summarizer has its inside).            *)
(***************************************************************************)
EXTENDS Naturals, FiniteSets

CONSTANTS
    Tabs,        \* browser tabs
    Hosts,       \* those in which the meeting's creator is signed in
    MaxJoins,    \* bound: rooms entered, over all tabs
    MaxStarts,   \* bound: recordings
    MaxCalls,    \* bound: calls under way when a button sends another
    MaxFaults    \* bound: commands the server refuses

ASSUME RoomAssumption ==
    /\ IsFiniteSet(Tabs) /\ Hosts \subseteq Tabs
    /\ {MaxJoins, MaxStarts, MaxCalls, MaxFaults} \subseteq Nat

VARIABLES
    tab,      \* what each tab shows
    calls,    \* calls under way
    active,   \* the meeting's session that is STARTED, or 0
    starts, joins, faults,
    slipped   \* what runs, or may still be started, has lost its stop: see Slip

server == <<active, starts>>
bounds == <<joins, faults>>
vars == <<tab, calls, server, bounds, slipped>>

Reasons == {"left", "ended", "removed", "duplicate"}
Kinds == {"start", "stop", "leave", "end"}

NoSession == [id |-> 0, status |-> "none"]

Away == [place |-> "away", why |-> "none", cut |-> "none", known |-> FALSE,
         chat |-> FALSE, panel |-> FALSE,
         confirm |-> FALSE, ending |-> FALSE,
         session |-> NoSession, busy |-> FALSE, toast |-> FALSE]

GetDisconnectMessage(reason) ==
    CASE reason = "removed" -> "You were removed from the meeting"
      [] reason = "ended" -> "Meeting ended by host"
      [] OTHER -> "You left the meeting"

(* All that is left of the room.                                           *)
DisconnectMessage(reason) ==
    [Away EXCEPT !.place = "message", !.why = GetDisconnectMessage(reason)]

InRoom(t) == tab[t].place = "room"
IsAdmin(t) == t \in Hosts
Update(t, r) == tab' = [tab EXCEPT ![t] = r]

(* A call, told apart from those of earlier visits.                        *)
Call(t, kind) ==
    [tab |-> t, kind |-> kind, visit |-> joins, own |-> TRUE, stage |-> "sent", id |-> 0]
CanCall == Cardinality(calls) < MaxCalls
StartSent == \E c \in calls : c.kind = "start" /\ c.stage = "sent"

(* History: a stop that was owed will not come.  Forgiven once nothing runs *)
(* and no start is under way.                                              *)
Slip(lost) == slipped' = ((slipped \/ lost) /\ (active' # 0 \/ StartSent'))

(* A tab that records, or has asked to, goes without a parting stop.       *)
GoesSilently(t) == tab[t].busy \/ tab[t].session.status = "STARTED"

(* The components that wait for these answers are unmounted.               *)
Detached(t, kinds) ==
    {IF c.tab = t /\ c.kind \in kinds THEN [c EXCEPT !.own = FALSE] ELSE c : c \in calls}

Init ==
    /\ tab = [t \in Tabs |-> Away]
    /\ calls = {} /\ active = 0 /\ starts = 0
    /\ joins = 0 /\ faults = 0 /\ slipped = FALSE

-----------------------------------------------------------------------------
(* Entering and leaving.                                                   *)

(* handleJoinMeeting: the meeting's id may still be under way, or never    *)
(* arrive.  LiveKit knows a participant by account and name: joining again *)
(* under the same name takes the place of the first.                       *)
Join(t) ==
    /\ tab[t].place = "away" /\ joins < MaxJoins
    /\ joins' = joins + 1
    /\ \E known \in BOOLEAN, same \in SUBSET {u \in Hosts : IsAdmin(t) /\ InRoom(u)} :
          tab' = [u \in Tabs |->
             IF u = t THEN [Away EXCEPT !.place = "room", !.known = known]
             ELSE IF u \in same THEN [tab[u] EXCEPT !.cut = "duplicate"] ELSE tab[u]]
    /\ UNCHANGED <<calls, server, faults, slipped>>

MeetingArrives(t) ==
    /\ InRoom(t) /\ ~tab[t].known
    /\ Update(t, [tab[t] EXCEPT !.known = TRUE])
    /\ UNCHANGED <<calls, server, bounds, slipped>>

(* A slip: only a tab that shows a recording stops it.                     *)
HandleDisconnectIfListening(t, reason) ==
    /\ Update(t, DisconnectMessage(reason))
    /\ calls' = Detached(t, Kinds) \cup
                (IF IsAdmin(t) /\ tab[t].session.status = "STARTED"
                 THEN {Call(t, "leave")} ELSE {})

(* A host's page stops the summarizer, whoever started it, and does not    *)
(* wait for the answer.                                                    *)
HandleDisconnect(t, reason) ==
    /\ Update(t, DisconnectMessage(reason))
    /\ calls' = Detached(t, Kinds) \cup
                (IF IsAdmin(t) /\ tab[t].known THEN {Call(t, "leave")} ELSE {})

(* The leave button, or a connection that is lost for good.                *)
Leave(t) ==
    /\ InRoom(t)
    /\ HandleDisconnect(t, "left")
    /\ UNCHANGED <<server, bounds, slipped>>

(* The server has closed the connection.                                   *)
CutOff(t) ==
    /\ InRoom(t) /\ tab[t].cut # "none"
    /\ HandleDisconnect(t, tab[t].cut)
    /\ UNCHANGED <<server, bounds, slipped>>

MessageShown(t) == tab[t].place = "message"

(* The tab leads on to the dashboard or the start page.                    *)
HandleLeaveMeeting(t) == Update(t, Away)

(* Three seconds after the message appeared.                               *)
TimerLeaves(t) ==
    /\ MessageShown(t)
    /\ HandleLeaveMeeting(t)
    /\ UNCHANGED <<calls, server, bounds, slipped>>

(* The tab is closed or another page opened: no handler of the room runs.  *)
GoAway(t) ==
    /\ InRoom(t) \/ MessageShown(t)
    /\ Update(t, Away)
    /\ calls' = Detached(t, Kinds)
    /\ UNCHANGED <<server, bounds>>
    /\ Slip(GoesSilently(t))

-----------------------------------------------------------------------------
(* The side panels.                                                        *)

AdminButtonShown(t) == InRoom(t) /\ IsAdmin(t)
ChatButtonShown(t) == InRoom(t)
ChatShown(t) == InRoom(t) /\ tab[t].chat
PanelShown(t) == InRoom(t) /\ tab[t].panel

(* A closed admin panel forgets its question and whether it is ending.     *)
PanelClosed(r) == [r EXCEPT !.panel = FALSE, !.confirm = FALSE, !.ending = FALSE]

ToggleAdmin(t) ==
    /\ AdminButtonShown(t)
    /\ IF PanelShown(t)
          THEN Update(t, PanelClosed(tab[t])) /\ calls' = Detached(t, {"end"})
          ELSE Update(t, [tab[t] EXCEPT !.chat = FALSE, !.panel = TRUE]) /\ UNCHANGED calls
    /\ UNCHANGED <<server, bounds, slipped>>

(* A slip: the chat opens beside the admin panel.                          *)
ToggleChatBeside(t) ==
    /\ ChatButtonShown(t)
    /\ Update(t, [tab[t] EXCEPT !.chat = ~@])
    /\ UNCHANGED <<calls, server, bounds, slipped>>

ToggleChat(t) ==
    /\ ChatButtonShown(t)
    /\ IF ChatShown(t)
          THEN Update(t, [tab[t] EXCEPT !.chat = FALSE]) /\ UNCHANGED calls
          ELSE /\ Update(t, [PanelClosed(tab[t]) EXCEPT !.chat = TRUE])
               /\ calls' = Detached(t, {"end"})
    /\ UNCHANGED <<server, bounds, slipped>>

Others(t) == {u \in Tabs \ {t} : InRoom(u)}
KickShown(t, u) == PanelShown(t) /\ u \in Others(t)

(* handleKickParticipant and the server's RemoveParticipant; a refused     *)
(* removal only tells the host.                                            *)
Kick(t, u) ==
    /\ KickShown(t, u) /\ tab[u].cut = "none"
    /\ Update(u, [tab[u] EXCEPT !.cut = "removed"])
    /\ UNCHANGED <<calls, server, bounds, slipped>>

-----------------------------------------------------------------------------
(* Ending the meeting for all.                                             *)

EndButtonShown(t) == PanelShown(t) /\ ~tab[t].confirm

ClickEnd(t) ==
    /\ EndButtonShown(t)
    /\ Update(t, [tab[t] EXCEPT !.confirm = TRUE])
    /\ UNCHANGED <<calls, server, bounds, slipped>>

ConfirmShown(t) == PanelShown(t) /\ tab[t].confirm /\ ~tab[t].ending

CancelEnd(t) ==
    /\ ConfirmShown(t)
    /\ Update(t, [tab[t] EXCEPT !.confirm = FALSE])
    /\ UNCHANGED <<calls, server, bounds, slipped>>

HandleEndMeeting(t) ==
    /\ ConfirmShown(t) /\ CanCall
    /\ Update(t, [tab[t] EXCEPT !.ending = TRUE])
    /\ calls' = calls \cup {Call(t, "end")}
    /\ UNCHANGED <<server, bounds, slipped>>

(* EndMeeting: the session is stopped if that can be done, then the room   *)
(* is deleted, which cuts everyone off.                                    *)
EndMeeting(c) ==
    /\ c.kind = "end" /\ c.stage = "sent"
    /\ \/ active' = 0 /\ UNCHANGED faults
       \/ active # 0 /\ faults < MaxFaults /\ faults' = faults + 1 /\ UNCHANGED active
    /\ \/ /\ calls' = (calls \ {c}) \cup {[c EXCEPT !.stage = "ok"]}
          /\ tab' = [t \in Tabs |-> IF InRoom(t) THEN [tab[t] EXCEPT !.cut = "ended"]
                                    ELSE tab[t]]
       \/ /\ faults < MaxFaults
          /\ calls' = (calls \ {c}) \cup {[c EXCEPT !.stage = "failed"]}
          /\ UNCHANGED tab
    /\ UNCHANGED <<starts, joins>>
    /\ Slip(FALSE)

(* The answer takes the tab to the dashboard wherever it is by then; a room*)
(* it shows is unmounted and hears nothing of its end.                     *)
EndAnswered(c) ==
    /\ c.kind = "end" /\ c.stage = "ok"
    /\ HandleLeaveMeeting(c.tab)
    /\ calls' = Detached(c.tab, Kinds) \ {c, [c EXCEPT !.own = FALSE]}
    /\ UNCHANGED <<server, bounds>>
    /\ Slip(GoesSilently(c.tab))

(* A slip: the button stays disabled after a failure.                      *)
EndFailsBusy(c) ==
    /\ c.kind = "end" /\ c.stage = "failed"
    /\ calls' = calls \ {c}
    /\ UNCHANGED <<tab, server, bounds, slipped>>

EndFails(c) ==
    /\ c.kind = "end" /\ c.stage = "failed"
    /\ calls' = calls \ {c}
    /\ IF c.own THEN Update(c.tab, [tab[c.tab] EXCEPT !.ending = FALSE]) ELSE UNCHANGED tab
    /\ UNCHANGED <<server, bounds, slipped>>

-----------------------------------------------------------------------------
(* Recording for a summary.                                                *)

SummarizerShown(t) == InRoom(t) /\ IsAdmin(t) /\ tab[t].known
ButtonEnabled(t) == ~tab[t].busy
IsActive(t) == tab[t].session.status = "STARTED"

HandleToggle(t) ==
    /\ SummarizerShown(t) /\ ButtonEnabled(t) /\ CanCall
    /\ ~IsActive(t) => starts < MaxStarts
    /\ Update(t, [tab[t] EXCEPT !.busy = TRUE])
    /\ calls' = calls \cup {Call(t, IF IsActive(t) THEN "stop" ELSE "start")}
    /\ UNCHANGED <<server, bounds, slipped>>

Replied(c, stage, id) == calls' = (calls \ {c}) \cup {[c EXCEPT !.stage = stage, !.id = id]}

(* StartSummarizer: one session of a meeting at a time.                    *)
StartSummarizer(c) ==
    /\ c.kind = "start" /\ c.stage = "sent"
    /\ \/ /\ active = 0 /\ starts < MaxStarts
          /\ active' = starts + 1 /\ starts' = starts + 1
          /\ Replied(c, "ok", starts + 1)
          /\ UNCHANGED faults
       \/ active # 0 /\ Replied(c, "failed", 0) /\ UNCHANGED <<server, faults>>
       \/ /\ active = 0 /\ faults < MaxFaults /\ faults' = faults + 1
          /\ Replied(c, "failed", 0) /\ UNCHANGED server
    /\ UNCHANGED <<tab, joins>>
    /\ Slip(FALSE)

(* StopSummarizer: the answer to a tab that has left is not looked at.     *)
StopSummarizer(c) ==
    LET Reply(stage, id) == IF c.kind = "leave" THEN calls' = calls \ {c} ELSE Replied(c, stage, id)
    IN  /\ c.kind \in {"stop", "leave"} /\ c.stage = "sent"
        /\ \/ /\ active # 0 /\ active' = 0 /\ Reply("ok", active)
              /\ Slip(FALSE) /\ UNCHANGED faults
           \/ /\ active # 0 /\ faults < MaxFaults /\ faults' = faults + 1
              /\ Reply("failed", 0) /\ UNCHANGED active
              /\ Slip(c.kind = "leave")
           \/ /\ active = 0 /\ Reply("failed", 0) /\ UNCHANGED <<active, faults>>
              /\ Slip(c.kind = "leave")
        /\ UNCHANGED <<tab, starts, joins>>

ShowSession(r, session) ==
    [r EXCEPT !.session = session, !.busy = FALSE,
              !.toast = IF session.status = r.session.status THEN @
                        ELSE session.status = "CAPTURED"]

SessionArrives(c) ==
    /\ c.kind \in {"start", "stop"} /\ c.stage = "ok"
    /\ calls' = calls \ {c}
    /\ IF c.own
          THEN Update(c.tab, ShowSession(tab[c.tab],
                  [id |-> c.id, status |-> IF c.kind = "start" THEN "STARTED" ELSE "CAPTURED"]))
          ELSE UNCHANGED tab
    /\ UNCHANGED <<server, bounds, slipped>>

(* A slip: a stop that failed is shown as done.                            *)
ToggleFailsCaptured(c) ==
    /\ c.kind \in {"start", "stop"} /\ c.stage = "failed"
    /\ calls' = calls \ {c}
    /\ IF c.own THEN Update(c.tab, [tab[c.tab] EXCEPT !.busy = FALSE, !.session.status = "CAPTURED"])
                ELSE UNCHANGED tab
    /\ UNCHANGED <<server, bounds, slipped>>

(* Either refusal leaves what the button shows as it was.                  *)
ToggleFails(c) ==
    /\ c.kind \in {"start", "stop"} /\ c.stage = "failed"
    /\ calls' = calls \ {c}
    /\ IF c.own THEN Update(c.tab, [tab[c.tab] EXCEPT !.busy = FALSE]) ELSE UNCHANGED tab
    /\ UNCHANGED <<server, bounds, slipped>>

ToastEnds(t) ==
    /\ tab[t].toast
    /\ Update(t, [tab[t] EXCEPT !.toast = FALSE])
    /\ UNCHANGED <<calls, server, bounds, slipped>>

-----------------------------------------------------------------------------
ServerStep == \E c \in calls : EndMeeting(c) \/ StartSummarizer(c) \/ StopSummarizer(c)

AnswerStep ==
    \E c \in calls : EndAnswered(c) \/ EndFails(c) \/ SessionArrives(c) \/ ToggleFails(c)

WayOut(t) == Leave(t) \/ CutOff(t) \/ GoAway(t)

UserStep(t) ==
    \/ Join(t) \/ MeetingArrives(t) \/ WayOut(t)
    \/ ToggleAdmin(t) \/ ToggleChat(t) \/ (\E u \in Tabs : Kick(t, u))
    \/ ClickEnd(t) \/ CancelEnd(t) \/ HandleEndMeeting(t)
    \/ HandleToggle(t) \/ ToastEnds(t)

Next ==
    \/ ServerStep \/ AnswerStep
    \/ \E t \in Tabs : UserStep(t) \/ TimerLeaves(t)

Spec == Init /\ [][Next]_vars

-----------------------------------------------------------------------------
TypeOK ==
    /\ \A t \in Tabs :
          /\ tab[t].place \in {"away", "room", "message"}
          /\ ~(tab[t].chat /\ tab[t].panel)
          /\ tab[t].ending => tab[t].confirm
          /\ tab[t].session.id \in 0..MaxStarts
    /\ \A c \in calls : c.kind \in Kinds /\ c.tab \in Tabs
    /\ active \in 0..starts /\ starts \in 0..MaxStarts

(* Nobody is recorded behind the hosts' backs: while a session runs, a host*)
(* is in the room or a call that can end it is under way.  Excepted, until *)
(* nothing runs again: a tab that was recording went without its parting   *)
(* stop (closed, or taken to the dashboard by the answer to End Meeting),  *)
(* or a parting stop was refused or found nothing to stop because it had   *)
(* overtaken the start.                                                    *)
RecordingIsAttended ==
    active # 0 /\ ~slipped =>
        \/ \E t \in Hosts : InRoom(t)
        \/ \E c \in calls : c.kind \in {"stop", "leave", "end"} /\ c.stage = "sent"

(* The tab whose session is running offers to stop it, whatever became of  *)
(* earlier attempts.                                                       *)
StarterCanStop ==
    \A t \in Tabs : active # 0 /\ tab[t].session.id = active => IsActive(t)

(* No button stays disabled for good: the summarizer button and the one    *)
(* that ends the meeting wait for an answer still to come, to this very    *)
(* component.                                                              *)
BusyMeansCall ==
    \A t \in Tabs :
        /\ tab[t].busy => \E c \in calls : c.tab = t /\ c.own /\ c.kind \in {"start", "stop"}
        /\ tab[t].ending => \E c \in calls : c.tab = t /\ c.own /\ c.kind = "end"

(* Claims the code does not keep.                                          *)

(* "Listening...": a tab that shows it is being listened to.               *)
ListeningIsTrue == \A t \in Tabs : IsActive(t) => tab[t].session.id = active
=============================================================================
