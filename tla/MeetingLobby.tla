---------------------------- MODULE MeetingLobby -----------------------------
(***************************************************************************)
(* The page in front of a meeting: it verifies the meeting, prepares the   *)
(* devices (LobbyDevices), asks to join and waits for admission, until the *)
(* meeting room takes over or the visitor leaves.                          *)
(***************************************************************************)
EXTENDS LobbyDevices

VARIABLES
    named,       \* isAuthenticated, or the guest's name is not blank
    ready,       \* meetingData is set
    bound,       \* the stream that the cleanup of useDeviceLifecycle captured
    pageErr,     \* an error text of the page's own hooks is set
    goHome,      \* the timer of useMeetingData that leads home is running
    joining,     \* isJoining
    asked,       \* the join request under way with what its handler captured, or None
    prefs,       \* device preferences handed to the waiting room or the meeting room
    outrun,      \* calls that saw another stream come into the preview
    stray        \* streams whose place was taken by a call that did not know them

visit == <<named, ready, bound, pageErr, goHome, joining, asked, prefs>>
vars == <<page, devices, visit, outrun, stray>>

Init ==
    /\ page = "loading" /\ DevicesInit
    /\ named \in BOOLEAN
    /\ ready = FALSE /\ bound = None /\ pageErr = FALSE /\ goHome = FALSE
    /\ joining = FALSE /\ asked = None /\ prefs = None
    /\ outrun = {} /\ stray = {}

(* The effect of useDeviceLifecycle when meetingReady changes: it cleans up*)
(* what the last run captured, captures the stream of this render, and on  *)
(* a desktop shows the site's prompt.                                      *)
LifecycleEffect ==
    /\ live' = live \ {bound}
    /\ CleanupAnalyzer
    /\ bound' = stream
    /\ prompt' = IF ~mobile /\ ~granted /\ prompt = "hidden" THEN "shown" ELSE prompt

(* useMeetingData: the lobby opens, or an error is shown that leads home.  *)
VerifyMeeting ==
    /\ page = "loading"
    /\ page' = "lobby"
    /\ \/ ready' = TRUE /\ LifecycleEffect /\ UNCHANGED <<pageErr, goHome>>
       \/ /\ pageErr' = TRUE /\ goHome' = TRUE
          /\ UNCHANGED <<ready, bound, prompt, live, meter>>
    /\ UNCHANGED <<mobile, button, choice, stream, kinds, on, errors,
                   calls, made, named, joining, asked, prefs>>

TypeName ==
    /\ LobbyShown /\ ~named
    /\ named' = TRUE
    /\ UNCHANGED <<page, devices, ready, bound, pageErr, goHome, joining, asked, prefs>>

(* Dismissing an error that is no device error clears every error text.    *)
ClearError ==
    /\ LobbyShown /\ devErr = None
    /\ pageErr \/ err
    /\ pageErr' = FALSE /\ err' = FALSE
    /\ UNCHANGED <<page, prompts, choice, media, meter, devErr, calls, made,
                   named, ready, bound, goHome, joining, asked, prefs>>

-----------------------------------------------------------------------------
Prefs == [video |-> granted /\ cam, audio |-> granted /\ mic,
          listener |-> Listener /\ ~granted]

CanJoin == (granted \/ Listener) /\ named

(* handleJoinClick up to its await: the preferences and the devices of this*)
(* render are what the answer will be handled with.                        *)
JoinClick ==
    /\ LobbyShown /\ ~joining /\ CanJoin
    /\ joining' = TRUE /\ pageErr' = FALSE
    /\ asked' = [prefs |-> Prefs, stream |-> stream]
    /\ UNCHANGED <<page, devices, named, ready, bound, goHome, prefs>>

(* A slip: the tracks are left to the room.                                *)
CleanupMeterOnly == live' = live /\ CleanupAnalyzer

(* devices.cleanup() of the captured render.                               *)
CleanupDevices ==
    /\ live' = live \ {asked.stream}
    /\ CleanupAnalyzer

(* The request is answered: straight into the room, or into the waiting    *)
(* room.  A page that is gone only cleans up.                              *)
JoinAnswered ==
    /\ asked # None
    /\ CleanupDevices
    /\ asked' = None
    /\ IF Mounted
          THEN \/ page' = "room" /\ prefs' = asked.prefs /\ UNCHANGED joining
               \/ page' = "waiting" /\ prefs' = asked.prefs /\ joining' = FALSE
          ELSE UNCHANGED <<page, prefs, joining>>
    /\ UNCHANGED <<prompts, choice, stream, kinds, on, errors, calls, made,
                   named, ready, bound, pageErr, goHome>>

(* A slip: the error path leaves the button busy.                          *)
JoinFailsBusy ==
    /\ asked # None /\ asked' = None
    /\ pageErr' = (pageErr \/ Mounted)
    /\ UNCHANGED <<page, devices, named, ready, bound, goHome, joining, prefs>>

JoinFails ==
    /\ asked # None
    /\ asked' = None
    /\ IF Mounted THEN pageErr' = TRUE /\ joining' = FALSE ELSE UNCHANGED <<pageErr, joining>>
    /\ UNCHANGED <<page, devices, named, ready, bound, goHome, prefs>>

(* Meeting unmounts the lobby: the last effect cleans up what it captured. *)
Unmount(to) ==
    /\ page' = to
    /\ live' = live \ {bound}
    /\ CleanupAnalyzer
    /\ UNCHANGED <<prompts, choice, stream, kinds, on, errors, calls, made,
                   named, ready, bound, pageErr, joining, asked, prefs>>

(* The waiting room has the token: handleApproved joins with saved prefs.  *)
HandleApproved ==
    page = "waiting" /\ prefs # None /\ Unmount("room") /\ UNCHANGED goHome

(* Cancelling the request, going back, following a link.                   *)
Leave == Mounted /\ Unmount("gone") /\ UNCHANGED goHome

(* The timer is not cleared by anything that happens in between.           *)
TimerHome ==
    /\ goHome /\ goHome' = FALSE
    /\ IF Mounted THEN Unmount("gone")
                  ELSE /\ page' = "gone"
                       /\ UNCHANGED <<devices, named, ready, bound, pageErr, joining,
                                      asked, prefs>>

-----------------------------------------------------------------------------
Devices == Click \/ Frame \/ \E c \in calls : Answer(c)

(* What the closures cannot know: the stream that an answer replaces came  *)
(* after its call, or the call is a setup and has captured none; the stream*)
(* came after the click on Join; the answer came after the lobby was left. *)
Replaced ==
    IF stream' # stream /\ \E c \in calls : c.id = stream' /\ (c.kind = "setup" \/ c.id \in outrun)
    THEN {stream} \ {None} ELSE {}
ShownSince ==
    IF page = "lobby" /\ page' \in {"waiting", "room"} /\ asked.stream # stream
    THEN {stream} \ {None} ELSE {}
CameLate == IF page \in {"loading", "lobby"} THEN {} ELSE live' \ live

Track ==
    /\ outrun' = IF stream' = stream THEN outrun ELSE outrun \cup {c.id : c \in calls}
    /\ stray' = stray \cup Replaced \cup ShownSince \cup CameLate

Answered == (JoinAnswered \/ JoinFails) /\ Track

Next ==
    \/ Answered
    \/ /\ \/ Devices /\ UNCHANGED visit
          \/ VerifyMeeting \/ TypeName \/ ClearError
          \/ JoinClick \/ HandleApproved \/ Leave \/ TimerHome
       /\ Track

(* The server answers a join request or the client reports that it failed.  *)
Spec == Init /\ [][Next]_vars /\ WF_vars(Answered)

-----------------------------------------------------------------------------
TypeOK ==
    /\ page \in {"loading", "lobby", "waiting", "room", "gone"}
    /\ prompt \in {"hidden", "shown", "allowed", "dismissed"}
    /\ {mobile, button, granted, cam, mic, err, loop, named, ready, pageErr, goHome,
        joining} \subseteq BOOLEAN
    /\ devErr \in DeviceErrors \cup {None}
    /\ {stream, ctxRef, bound} \subseteq Ids \cup {None}
    /\ live \cup contexts \subseteq 1..made /\ on \subseteq kinds /\ kinds \subseteq {"audio", "video"}
    /\ outrun \cup stray \subseteq 1..made
    /\ made \in 0..MaxCalls
    /\ \A c \in calls : c.id \in 1..made /\ c.old \in (1..made) \cup {None}

(* The preview never goes black by itself: a switch that fails, or one that*)
(* is overtaken by another, leaves a running stream in front of the visitor.*)
PreviewIsLive == Preview # None => Preview \in live

(* The site never makes the browser ask before the visitor agreed on the   *)
(* site ("never auto-request browser permissions"), and a listener's       *)
(* devices stay untouched.                                                 *)
AskedOnlyAfterConsent ==
    prompt # "allowed" /\ (mobile => button) =>
        live = {} /\ \A c \in calls : c.kind = "list"

(* However switches, retries and leaving interleave, at most one audio     *)
(* context is open, and the level meter runs on that one.                  *)
OneAudioContext == contexts \subseteq {ctxRef} /\ (loop => ctxRef \in contexts)

(* However switches, setups and retries overlap, no stream runs beside the *)
(* shown one but those whose place was taken by an answer that could not   *)
(* know them: whoever replaces the stream it captured releases it.         *)
OnlyStraysRun == page = "lobby" => live \subseteq {stream} \cup stray

(* The lobby hands its devices back before the waiting room or the meeting *)
(* room, which asks for them anew, takes over: again but for the streams   *)
(* that came into the preview since the click on Join, or come later still.*)
HandsOverDevices == page \in {"waiting", "room"} => live \subseteq stray

(* A click on Join ends in a room, in the waiting room or with the button  *)
(* back, whatever the devices do meanwhile.                                *)
JoinSettles == joining ~> ~joining \/ page \in {"room", "gone"}

(* Claims the code does not keep.                                          *)

(* A switch stops the stream it replaces: nothing but the preview runs.    *)
NoLeak == page = "lobby" => live \subseteq {stream}

(* Joining cleans the devices up, whatever was switched in the meantime.   *)
DevicesAreFree == page \in {"waiting", "room"} => live = {}

(* "We only use your devices during the meeting": a visitor who went away  *)
(* from the lobby, and has nothing under way, has his devices back.        *)
OnlyDuringMeeting == page = "gone" /\ calls = {} => live = {}

(* "Please allow camera and microphone access to join": while it is shown  *)
(* and nothing is under way, there is a way to allow it.                   *)
CanStillAllow ==
    page = "lobby" /\ ready /\ calls = {} /\ ~granted /\ ~Listener =>
        prompt = "shown" \/ button \/ devErr # None
=============================================================================
