---------------------------- MODULE LobbyDevices -----------------------------
(***************************************************************************)
(* Camera and microphone in front of a meeting: the hooks of               *)
(* hooks/useLobbyDevices and the prompts, selectors and error modal that   *)
(* call them.  A media request is a call that may be answered much later;  *)
(* what its closure captured travels in its record, and so does the number *)
(* of the stream it will produce.  State updates of one event and the      *)
(* effects of the render they cause are one step.                          *)
(***************************************************************************)
EXTENDS Naturals, Sequences, FiniteSets

CONSTANTS CamList, MicList,   \* what enumerateDevices returns, in its order
          MaxCalls,           \* bound on the calls of one visit
          None

ASSUME DevicesAssumption ==
    /\ CamList # <<>> /\ MicList # <<>>
    /\ MaxCalls \in Nat
    /\ None \notin Nat /\ \A i \in DOMAIN CamList : CamList[i] # None

Ids == 1..MaxCalls

VARIABLES
    page,        \* what Meeting shows: "loading", "lobby", "waiting", "room"; "gone" once left
    mobile,      \* isMobileDevice
    prompt,      \* the site's own prompt: "hidden", "shown", "allowed", "dismissed"
    button,      \* showPermissionButton
    granted,     \* permissionsGranted
    cam, mic,    \* cameraEnabled, micEnabled
    selCam, selMic,
    devErr,      \* deviceError
    err,         \* an error text of the device hooks is set
    stream,      \* the stream the preview shows
    live,        \* streams whose tracks run
    kinds, on,   \* kinds of tracks of the shown stream, and those enabled
    contexts,    \* open AudioContexts, by their stream
    ctxRef,      \* audioContextRef and analyserRef
    loop,        \* a frame of the level meter is scheduled
    calls, made  \* calls under way, calls made

prompts == <<mobile, prompt, button>>
choice == <<granted, cam, mic, selCam, selMic>>
media == <<stream, live, kinds, on>>
meter == <<contexts, ctxRef, loop>>
errors == <<devErr, err>>
devices == <<prompts, choice, media, meter, errors, calls, made>>

DeviceErrors == {"access-denied", "not-found", "generic"}

Mounted == page \in {"loading", "lobby", "waiting"}
Listener == prompt = "dismissed"

(* A slip: an effect does not capture the stream it will replace.          *)
CallForgetsStream(kind, n, old, with) ==
    [kind |-> kind, id |-> made + n, at |-> "both", old |-> None, with |-> with, why |-> None]

Call(kind, n, old, with) ==
    [kind |-> kind, id |-> made + n, at |-> "both", old |-> old, with |-> with, why |-> None]

(* What the page shows, and so what can be clicked: the lobby itself, the  *)
(* site's prompt, the error modal, the permission button of mobile devices.*)
LobbyShown == page = "lobby"
PromptShown == LobbyShown /\ prompt = "shown"
ErrorShown == LobbyShown /\ devErr # None
ButtonShown == LobbyShown /\ button /\ ~granted

(* The stream in the preview, and a selector that is shown, filled and not *)
(* switched off.                                                           *)
Preview == IF LobbyShown /\ cam THEN stream ELSE None
SelectorUsable(selected, enabled) ==
    LobbyShown /\ ~Listener /\ enabled /\ selected # None

(* A click starts one call; at the bound nobody clicks any more.           *)
Begin(kind) ==
    /\ made < MaxCalls
    /\ calls' = calls \cup {Call(kind, 1, None, FALSE)}
    /\ made' = made + 1

(* The effects of useVideoDeviceSwitching and useAudioDeviceSwitching after*)
(* a render: each asks for a stream of its own when its selection or the   *)
(* permission changed, and both capture the stream of that render.         *)
Effects(left) ==
    LET ask(sel, new, enabled) ==
            Mounted /\ granted' /\ new # None /\ enabled /\ (new # sel \/ granted' # granted)
        video == ask(selCam, selCam', cam')
        audio == ask(selMic, selMic', mic')
        first == IF video THEN {Call("camera", 1, stream', mic')} ELSE {}
        next == Cardinality(first) + 1
        second == IF audio THEN {Call("mic", next, stream', cam' /\ selCam' # None)} ELSE {}
    IN  /\ calls' = left \cup first \cup second
        /\ made' = made + Cardinality(first \cup second)
        /\ made' <= MaxCalls

(* A slip: the old context is not closed.                                  *)
SetupAudioAnalyzerLeaks(s) ==
    contexts' = contexts \cup {s} /\ ctxRef' = s /\ loop' = mic'

(* setupAudioAnalyzer: the old context is closed, and the loop goes on only*)
(* while the microphone is on.                                             *)
SetupAudioAnalyzer(s) ==
    /\ contexts' = (contexts \ {ctxRef}) \cup {s}
    /\ ctxRef' = s
    /\ loop' = mic'

(* cleanup of the analyzer; the reference to the closed context stays.     *)
CleanupAnalyzer ==
    /\ contexts' = contexts \ {ctxRef}
    /\ loop' = FALSE
    /\ ctxRef' = ctxRef

(* A slip: a stream that is shown is never replaced.                       *)
SetStreamOnce(s, tracks) ==
    IF Mounted /\ stream = None THEN stream' = s /\ kinds' = tracks /\ on' = tracks
                                ELSE UNCHANGED <<stream, kinds, on>>

(* setStream with the stream of a call: its tracks come enabled.           *)
SetStream(s, tracks) ==
    IF Mounted THEN stream' = s /\ kinds' = tracks /\ on' = tracks
               ELSE UNCHANGED <<stream, kinds, on>>

-----------------------------------------------------------------------------
(* What the visitor clicks.                                                *)

(* "Allow Access" in the site's prompt: only now the browser is asked.     *)
HandleAllowPermissions ==
    /\ PromptShown
    /\ prompt' = "allowed"
    /\ Begin("setup")
    /\ UNCHANGED <<page, mobile, button, choice, media, meter, errors>>

(* A slip: both buttons of the prompt begin the setup.                     *)
HandleDismissPromptAsks ==
    /\ PromptShown
    /\ prompt' = "dismissed"
    /\ Begin("setup")
    /\ UNCHANGED <<page, mobile, button, choice, media, meter, errors>>

(* "Listen Only": the devices are listed for the speaker selector.         *)
HandleDismissPrompt ==
    /\ PromptShown
    /\ prompt' = "dismissed"
    /\ Begin("list")
    /\ UNCHANGED <<page, mobile, button, choice, media, meter, errors>>

(* The button for mobile devices hides itself, whatever comes of it.       *)
RequestPermissions ==
    /\ ButtonShown
    /\ button' = FALSE
    /\ Begin("setup")
    /\ UNCHANGED <<page, mobile, prompt, choice, media, meter, errors>>

(* "Try Again": the page asks within the gesture, then runs the setup.     *)
RetryDeviceAccess ==
    /\ ErrorShown
    /\ Begin("ask")
    /\ UNCHANGED <<page, prompts, choice, media, meter, errors>>

DismissDeviceError ==
    /\ ErrorShown
    /\ devErr' = None /\ err' = FALSE
    /\ UNCHANGED <<page, prompts, choice, media, meter, calls, made>>

(* A slip: a toggle assumes that the stream has the track.                 *)
ToggleAnyway(kind, off) == on' = IF off THEN on \ {kind} ELSE on \cup {kind}

(* A toggle also enables or disables the track of the shown stream.        *)
Toggle(kind, off) == on' = IF off THEN on \ {kind} ELSE on \cup (kinds \cap {kind})

ToggleCamera ==
    /\ LobbyShown
    /\ Toggle("video", cam)
    /\ cam' = ~cam
    /\ UNCHANGED <<page, prompts, granted, mic, selCam, selMic, stream, live, kinds,
                   meter, errors, calls, made>>

ToggleMic ==
    /\ LobbyShown
    /\ Toggle("audio", mic)
    /\ mic' = ~mic
    /\ loop' = (~mic /\ ctxRef # None)
    /\ UNCHANGED <<page, prompts, granted, cam, selCam, selMic, stream, live, kinds,
                   contexts, ctxRef, errors, calls, made>>

(* Another device is chosen: the next render's effect switches to it.      *)
SelectCamera ==
    /\ SelectorUsable(selCam, cam)
    /\ \E i \in DOMAIN CamList : selCam' = CamList[i] /\ selCam' # selCam
    /\ UNCHANGED <<page, prompts, granted, cam, mic, selMic, media, meter, errors>>
    /\ Effects(calls)

SelectMic ==
    /\ SelectorUsable(selMic, mic)
    /\ \E i \in DOMAIN MicList : selMic' = MicList[i] /\ selMic' # selMic
    /\ UNCHANGED <<page, prompts, granted, cam, mic, selCam, media, meter, errors>>
    /\ Effects(calls)

-----------------------------------------------------------------------------
(* What the browser answers.                                               *)

(* setupDevices has a stream: shown, permission noted, error cleared, and  *)
(* the call goes on to enumerateDevices.                                   *)
Grant(c, tracks) ==
    /\ SetStream(c.id, tracks)
    /\ live' = live \cup {c.id}
    /\ IF Mounted THEN granted' = TRUE /\ devErr' = None /\ err' = FALSE
                  ELSE UNCHANGED <<granted, errors>>
    /\ UNCHANGED <<page, prompts, selCam, selMic, meter>>
    /\ Effects((calls \ {c}) \cup {[c EXCEPT !.at = "enumerate", !.with = "audio" \in tracks]})

(* Both at once; if that fails each alone, and a part that fails is turned *)
(* off.                                                                    *)
SetupBoth(c) ==
    /\ c.kind = "setup" /\ c.at = "both"
    /\ \/ UNCHANGED <<cam, mic>> /\ Grant(c, {"audio", "video"})
       \/ /\ \E e \in {"denied", "missing", "other"} :
                calls' = (calls \ {c}) \cup {[c EXCEPT !.at = "video", !.why = e]}
          /\ UNCHANGED <<page, prompts, choice, media, meter, errors, made>>

SetupVideo(c) ==
    /\ c.kind = "setup" /\ c.at = "video"
    /\ \E ok \in BOOLEAN :
          /\ calls' = (calls \ {c}) \cup {[c EXCEPT !.at = "audio", !.with = ok]}
          /\ cam' = IF ok \/ ~Mounted THEN cam ELSE FALSE
    /\ UNCHANGED <<page, prompts, granted, mic, selCam, selMic, media, meter, errors, made>>

(* handleMediaError: a missing device is explained after a look at the     *)
(* list, everything else at once.                                          *)
HandleMediaError(c) ==
    /\ IF c.why = "missing"
          THEN /\ calls' = (calls \ {c}) \cup {[c EXCEPT !.kind = "explain"]}
               /\ UNCHANGED errors
          ELSE /\ calls' = calls \ {c}
               /\ IF Mounted
                     THEN /\ devErr' = IF c.why = "denied" THEN "access-denied" ELSE "generic"
                          /\ err' = TRUE
                     ELSE UNCHANGED errors
    /\ granted' = (granted /\ ~Mounted)
    /\ UNCHANGED <<page, prompts, selCam, selMic, media, meter, made>>

SetupAudio(c) ==
    /\ c.kind = "setup" /\ c.at = "audio"
    /\ UNCHANGED cam
    /\ LET parts == IF c.with THEN {"video"} ELSE {} IN
       \/ UNCHANGED mic /\ Grant(c, parts \cup {"audio"})
       \/ /\ mic' = (mic /\ ~Mounted)
          /\ IF c.with THEN Grant(c, parts) ELSE HandleMediaError(c)

Explain(c) ==
    /\ c.kind = "explain"
    /\ calls' = calls \ {c}
    /\ IF Mounted THEN devErr' \in {"access-denied", "not-found"} /\ err' = TRUE
                  ELSE UNCHANGED errors
    /\ UNCHANGED <<page, prompts, choice, media, meter, made>>

(* enumerateDevices: a selection that exists is kept, and of a kind that   *)
(* is missing nothing is selected.                                         *)
Selects ==
    /\ selCam' = selCam \/ (Mounted /\ selCam = None /\ selCam' = CamList[1])
    /\ selMic' = selMic \/ (Mounted /\ selMic = None /\ selMic' = MicList[1])

Enumerated(c) ==
    /\ \/ c.kind = "setup" /\ c.at = "enumerate"
       \/ c.kind = "list"
    /\ Selects
    /\ UNCHANGED <<page, prompts, granted, cam, mic, media, errors>>
    /\ IF c.kind = "setup" /\ c.with THEN SetupAudioAnalyzer(c.id) ELSE UNCHANGED meter
    /\ Effects(calls \ {c})

(* The first request of a retry ends: its stream is stopped at once, and   *)
(* the setup begins, whatever the answer was.                              *)
Asked(c) ==
    /\ c.kind = "ask"
    /\ calls' = (calls \ {c}) \cup {[c EXCEPT !.kind = "setup"]}
    /\ UNCHANGED <<page, prompts, choice, media, meter, errors, made>>

Parts(c) == IF c.kind = "camera" \/ c.with THEN {"audio", "video"} ELSE {"audio"}

(* A switch has its stream: the stream it captured is stopped, the new one *)
(* shown.                                                                  *)
Switched(c) ==
    /\ c.kind \in {"camera", "mic"}
    /\ live' = (live \ {c.old}) \cup {c.id}
    /\ SetStream(c.id, Parts(c))
    /\ calls' = calls \ {c}
    /\ UNCHANGED <<page, prompts, choice, errors, made>>
    /\ IF c.kind = "mic" \/ c.with THEN SetupAudioAnalyzer(c.id) ELSE UNCHANGED meter

(* A switch fails: the old stream stays; a device that is not there is     *)
(* replaced by the first of the list, which may start the next switch.     *)
SwitchFails(c) ==
    /\ c.kind \in {"camera", "mic"}
    /\ err' = (err \/ Mounted)
    /\ \/ UNCHANGED <<selCam, selMic>>
       \/ Mounted /\ c.kind = "camera" /\ selCam' = CamList[1] /\ UNCHANGED selMic
       \/ Mounted /\ c.kind = "mic" /\ selMic' = MicList[1] /\ UNCHANGED selCam
    /\ UNCHANGED <<page, prompts, granted, cam, mic, media, meter, devErr>>
    /\ Effects(calls \ {c})

(* The meter's next frame ends a loop whose microphone was turned off.     *)
Frame ==
    /\ loop /\ ~mic
    /\ loop' = FALSE
    /\ UNCHANGED <<page, prompts, choice, media, contexts, ctxRef, errors, calls, made>>

DevicesInit ==
    /\ mobile \in BOOLEAN /\ prompt = "hidden" /\ button = mobile
    /\ granted = FALSE /\ cam = TRUE /\ mic = TRUE /\ selCam = None /\ selMic = None
    /\ devErr = None /\ err = FALSE
    /\ stream = None /\ live = {} /\ kinds = {} /\ on = {}
    /\ contexts = {} /\ ctxRef = None /\ loop = FALSE
    /\ calls = {} /\ made = 0

Click ==
    \/ HandleAllowPermissions \/ HandleDismissPrompt \/ RequestPermissions
    \/ RetryDeviceAccess \/ DismissDeviceError
    \/ ToggleCamera \/ ToggleMic \/ SelectCamera \/ SelectMic

Answer(c) ==
    \/ SetupBoth(c) \/ SetupVideo(c) \/ SetupAudio(c) \/ Explain(c)
    \/ Enumerated(c) \/ Asked(c) \/ Switched(c) \/ SwitchFails(c)
=============================================================================
