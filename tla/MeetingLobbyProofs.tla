-------------------------- MODULE MeetingLobbyProofs -------------------------
(***************************************************************************)
(* Theorems about the page in front of a meeting, for any lists of devices *)
(* and any number of media requests, answered in any order.                *)
(***************************************************************************)
EXTENDS MeetingLobby, FiniteSetTheorems, TLAPS

USE DevicesAssumption
USE DEF prompts, choice, media, meter, errors, devices, visit

(* The streams made so far, and the records of the calls that make them.   *)
Known == (1..made) \cup {None}

CallType == [kind : {"setup", "list", "ask", "explain", "camera", "mic"},
             id : 1..made, at : {"both", "video", "audio", "enumerate"},
             old : Known, with : BOOLEAN,
             why : {"denied", "missing", "other", None}]

FlagsOK ==
    /\ page \in {"loading", "lobby", "waiting", "room", "gone"}
    /\ prompt \in {"hidden", "shown", "allowed", "dismissed"}
    /\ {mobile, button, granted, cam, mic, err, loop, named, ready, pageErr, goHome,
        joining} \subseteq BOOLEAN
    /\ devErr \in DeviceErrors \cup {None}

MediaOK ==
    /\ {stream, ctxRef, bound} \subseteq Known
    /\ live \cup contexts \subseteq 1..made
    /\ on \subseteq kinds /\ kinds \subseteq {"audio", "video"}

CallsOK == made \in 0..MaxCalls /\ calls \subseteq CallType /\ IsFiniteSet(calls)

HistoryOK == outrun \subseteq 1..made /\ stray \subseteq 1..made

TypeInv == FlagsOK /\ MediaOK /\ CallsOK /\ HistoryOK

(* Until the meeting is verified nothing has been asked for.               *)
Untouched ==
    page = "loading" =>
        /\ calls = {} /\ live = {} /\ stream = None /\ ctxRef = None
        /\ prompt = "hidden" /\ ~granted /\ devErr = None /\ asked = None

(* The site asks once and in one way: by the prompt or by the button.      *)
OneWayToAsk == (button => mobile) /\ (mobile => prompt = "hidden")

(* Before the visitor agreed nothing was granted, shown or refused.        *)
NotAskedYet ==
    prompt # "allowed" /\ (mobile => button) =>
        /\ live = {} /\ stream = None /\ ~granted /\ devErr = None
        /\ \A c \in calls : c.kind = "list"

(* In the lobby the meter's context is open once there is one.             *)
MeterInv ==
    /\ OneAudioContext
    /\ page = "lobby" /\ ctxRef # None => ctxRef \in contexts

ShownIsLive == page = "lobby" /\ stream # None => stream \in live

(* A switch that saw no other stream come has captured the shown one.      *)
KnowsShown ==
    page = "lobby" =>
        \A c \in calls : c.kind \in {"camera", "mic"} /\ c.id \notin outrun => c.old = stream

(* What runs beside the preview has lost its place.                        *)
OnlyStrays ==
    /\ page = "loading" => live = {}
    /\ OnlyStraysRun /\ HandsOverDevices

Inv == /\ TypeInv /\ Untouched /\ OneWayToAsk /\ NotAskedYet
       /\ MeterInv /\ ShownIsLive /\ KnowsShown /\ OnlyStrays

-----------------------------------------------------------------------------
(* Types.                                                                  *)

(* What the effects of a render add.                                       *)
Switches == [kind : {"camera", "mic"}, id : 1..made', at : {"both"}, old : {stream'},
             with : BOOLEAN, why : {None}]

LEMMA NoneOrOne ==
  ASSUME NEW S, NEW x, S = {} \/ S = {x}
  PROVE  IsFiniteSet(S) /\ Cardinality(S) = IF S = {} THEN 0 ELSE 1
<1>1. CASE S = {}
  BY <1>1, FS_EmptySet
<1>2. CASE S = {x}
  BY <1>2, FS_Singleton
<1> QED BY <1>1, <1>2

LEMMA SwitchType ==
  ASSUME NEW kind \in {"camera", "mic"}, NEW n, made + n \in 1..made', NEW with \in BOOLEAN
  PROVE  Call(kind, n, stream', with) \in Switches
  BY DEF Call, Switches

LEMMA EffectsAdd ==
  ASSUME made \in Nat, mic' \in BOOLEAN, NEW left, Effects(left)
  PROVE  /\ made' \in made..MaxCalls
         /\ \E new \in SUBSET Switches :
               /\ calls' = left \cup new /\ IsFiniteSet(new)
               /\ new # {} => Mounted /\ granted'
<1> DEFINE ask(sel, new, enabled) ==
             Mounted /\ granted' /\ new # None /\ enabled /\ (new # sel \/ granted' # granted)
           video == ask(selCam, selCam', cam')
           audio == ask(selMic, selMic', mic')
           first == IF video THEN {Call("camera", 1, stream', mic')} ELSE {}
           next == Cardinality(first) + 1
           second == IF audio THEN {Call("mic", next, stream', cam' /\ selCam' # None)} ELSE {}
<1>1. /\ calls' = left \cup first \cup second
      /\ made' = made + Cardinality(first \cup second)
      /\ made' <= MaxCalls
  BY Zenon DEF Effects
<1>2. /\ first = {} \/ first = {Call("camera", 1, stream', mic')}
      /\ second = {} \/ second = {Call("mic", next, stream', cam' /\ selCam' # None)}
      /\ first # {} => video
      /\ second # {} => audio
  BY Zenon
<1> HIDE DEF first, second
<1>3. IsFiniteSet(first) /\ Cardinality(first) = IF first = {} THEN 0 ELSE 1
  BY <1>2, NoneOrOne
<1>4. IsFiniteSet(second) /\ Cardinality(second) = IF second = {} THEN 0 ELSE 1
  BY <1>2, NoneOrOne
<1>5. \A c \in first, d \in second : c # d
  BY <1>2 DEF Call
<1>6. /\ IsFiniteSet(first \cup second)
      /\ Cardinality(first \cup second) = Cardinality(first) + Cardinality(second)
  <2>1. CASE second = {}
    BY <1>3, <1>4, <2>1
  <2>2. ASSUME NEW x, second = {x}
        PROVE  /\ IsFiniteSet(first \cup second)
               /\ Cardinality(first \cup second) = Cardinality(first) + Cardinality(second)
    BY <1>3, <1>4, <1>5, <2>2, FS_AddElement
  <2> QED BY <1>2, <2>1, <2>2
<1>7. made' \in made..MaxCalls
  BY <1>1, <1>3, <1>4, <1>6
<1>8. first \subseteq Switches
  <2>1. CASE first # {}
    <3>1. made + 1 \in 1..made'
      BY <1>1, <1>3, <1>4, <1>6, <2>1
    <3> QED BY <1>2, <2>1, <3>1, SwitchType
  <2> QED BY <2>1
<1>9. second \subseteq Switches
  <2>1. CASE second # {}
    <3>1. made + next \in 1..made'
      BY <1>1, <1>3, <1>4, <1>6, <2>1
    <3>2. (cam' /\ selCam' # None) \in BOOLEAN
      OBVIOUS
    <3> HIDE DEF next
    <3> QED BY <1>2, <2>1, <3>1, <3>2, SwitchType
  <2> QED BY <2>1
<1>10. first \cup second # {} => Mounted /\ granted'
  BY <1>2
<1> QED BY <1>1, <1>6, <1>7, <1>8, <1>9, <1>10

LEMMA Grows ==
  ASSUME made' \in made..MaxCalls, made \in Nat
  PROVE  /\ made' \in Nat /\ CallType \subseteq CallType' /\ Known \subseteq Known'
         /\ 1..made \subseteq 1..made'
<1>1. made' \in Nat /\ 1..made \subseteq 1..made'
  OBVIOUS
<1>2. Known \subseteq Known'
  BY <1>1 DEF Known
<1> QED BY <1>1, <1>2 DEF CallType

LEMMA EffectsType ==
  ASSUME TypeInv, mic' \in BOOLEAN, stream' \in Known,
         NEW left \in SUBSET CallType, IsFiniteSet(left), Effects(left)
  PROVE  /\ calls' \subseteq CallType' /\ IsFiniteSet(calls')
         /\ made' \in made..MaxCalls
<1>0. made \in Nat
  BY DEF TypeInv, CallsOK
<1>1. /\ made' \in made..MaxCalls
      /\ \E new \in SUBSET Switches : calls' = left \cup new /\ IsFiniteSet(new)
  BY <1>0, EffectsAdd
<1>2. PICK new \in SUBSET Switches : calls' = left \cup new /\ IsFiniteSet(new)
  BY <1>1
<1>3. IsFiniteSet(calls')
  BY <1>2, FS_Union
<1>4. stream' \in Known' /\ left \subseteq CallType'
  BY <1>0, <1>1, Grows
<1>5. Switches \subseteq CallType'
  BY <1>4 DEF Switches, CallType
<1> QED BY <1>1, <1>2, <1>3, <1>4, <1>5

(* A call goes on, or ends.                                                *)
LEMMA CallsGoOn ==
  ASSUME TypeInv, NEW c \in calls, NEW d \in CallType
  PROVE  /\ calls \ {c} \in SUBSET CallType /\ IsFiniteSet(calls \ {c})
         /\ (calls \ {c}) \cup {d} \in SUBSET CallType /\ IsFiniteSet((calls \ {c}) \cup {d})
  BY FS_RemoveElement, FS_AddElement DEF TypeInv, CallsOK

LEMMA BeginType ==
  ASSUME TypeInv, NEW kind \in {"setup", "list", "ask"}, Begin(kind)
  PROVE  /\ calls' \subseteq CallType' /\ IsFiniteSet(calls')
         /\ made' \in made..MaxCalls
<1>1. /\ made \in Nat /\ made' = made + 1 /\ made < MaxCalls
      /\ calls' = calls \cup {Call(kind, 1, None, FALSE)}
  BY DEF TypeInv, CallsOK, Begin
<1>2. made' \in made..MaxCalls /\ made + 1 \in 1..made'
  BY <1>1
<1>3. Call(kind, 1, None, FALSE) \in CallType'
  BY <1>2 DEF Call, CallType, Known
<1>4. calls \subseteq CallType'
  BY <1>1, <1>2, Grows DEF TypeInv, CallsOK
<1> QED BY <1>1, <1>2, <1>3, <1>4, FS_AddElement DEF TypeInv, CallsOK

LEMMA TypesImply == TypeInv => TypeOK
<1> SUFFICES ASSUME TypeInv PROVE TypeOK
  OBVIOUS
<1>1. \A c \in calls : c.id \in 1..made /\ c.old \in (1..made) \cup {None}
  BY DEF TypeInv, CallsOK, CallType, Known
<1>2. {stream, ctxRef, bound} \subseteq Ids \cup {None}
  BY DEF TypeInv, CallsOK, MediaOK, Known, Ids
<1> QED BY <1>1, <1>2 DEF TypeInv, FlagsOK, MediaOK, CallsOK, HistoryOK, TypeOK

(* Every answer, the labels it may move its call to, and what it keeps.    *)
LEMMA FlagsStep ==
  ASSUME TypeInv, [Next]_vars
  PROVE  FlagsOK'
<1> USE DEF TypeInv, FlagsOK, Mounted, LobbyShown, PromptShown, ErrorShown, ButtonShown
<1>0. CASE UNCHANGED vars
  BY <1>0 DEF vars
<1>1. CASE (JoinAnswered \/ JoinFails)
  BY <1>1 DEF JoinAnswered, JoinFails, CleanupDevices, CleanupAnalyzer
<1>2. CASE (VerifyMeeting \/ TypeName \/ ClearError \/ JoinClick)
  BY <1>2 DEF VerifyMeeting, TypeName, ClearError, JoinClick, LifecycleEffect,
     CleanupAnalyzer
<1>3. CASE (HandleApproved \/ Leave \/ TimerHome)
  BY <1>3 DEF HandleApproved, Leave, TimerHome, Unmount, CleanupAnalyzer
<1>4. CASE UNCHANGED visit /\ (Click \/ Frame)
  <2>2. CASE \/ HandleAllowPermissions \/ HandleDismissPrompt \/ RequestPermissions
             \/ RetryDeviceAccess \/ DismissDeviceError
    BY <1>4, <2>2 DEF HandleAllowPermissions, HandleDismissPrompt, RequestPermissions,
       RetryDeviceAccess, DismissDeviceError
  <2>3. CASE ToggleCamera \/ ToggleMic \/ SelectCamera \/ SelectMic \/ Frame
    BY <1>4, <2>3 DEF ToggleCamera, ToggleMic, SelectCamera, SelectMic, Frame
  <2> QED BY <1>4, <2>2, <2>3 DEF Click
<1>5. ASSUME UNCHANGED visit, NEW c \in calls, Answer(c) PROVE FlagsOK'
  <2> USE DEF Grant
  <2>2. CASE SetupBoth(c)
    BY <1>5, <2>2 DEF SetupBoth
  <2>3. CASE SetupVideo(c)
    BY <1>5, <2>3 DEF SetupVideo
  <2>4. CASE SetupAudio(c)
    BY <1>5, <2>4 DEF SetupAudio, HandleMediaError, DeviceErrors
  <2>5. CASE Explain(c)
    BY <1>5, <2>5 DEF Explain, DeviceErrors
  <2>6. CASE Enumerated(c)
    BY <1>5, <2>6 DEF Enumerated, SetupAudioAnalyzer
  <2>7. CASE Asked(c)
    BY <1>5, <2>7 DEF Asked
  <2>8. CASE Switched(c)
    BY <1>5, <2>8 DEF Switched, SetupAudioAnalyzer
  <2>9. CASE SwitchFails(c)
    BY <1>5, <2>9 DEF SwitchFails
  <2> QED BY <1>5, <2>2, <2>3, <2>4, <2>5, <2>6, <2>7, <2>8, <2>9 DEF Answer
<1> QED BY <1>0, <1>1, <1>2, <1>3, <1>4, <1>5 DEF Next, Answered, Devices

LEMMA MovedType ==
  ASSUME NEW c \in CallType, NEW w \in BOOLEAN
  PROVE  /\ [c EXCEPT !.at = "enumerate", !.with = w] \in CallType
         /\ [c EXCEPT !.at = "audio", !.with = w] \in CallType
         /\ \A e \in {"denied", "missing", "other"} :
               [c EXCEPT !.at = "video", !.why = e] \in CallType
         /\ [c EXCEPT !.kind = "explain"] \in CallType
         /\ [c EXCEPT !.kind = "setup"] \in CallType
  BY DEF CallType

CallsFollow == CallsOK' /\ made' \in made..MaxCalls

LEMMA Moved ==
  ASSUME TypeInv, NEW c \in calls, made' = made,
         calls' = calls \/ calls' = calls \ {c}
         \/ \E d \in CallType : calls' = (calls \ {c}) \cup {d}
  PROVE  CallsFollow
<1>1. made \in Nat /\ made <= MaxCalls
  BY DEF TypeInv, CallsOK
<1>2. CallType' = CallType
  BY DEF CallType, Known
<1>3. calls' \subseteq CallType /\ IsFiniteSet(calls')
  BY CallsGoOn DEF TypeInv, CallsOK
<1> QED BY <1>1, <1>2, <1>3 DEF CallsFollow, CallsOK

LEMMA SameCalls ==
  ASSUME TypeInv, UNCHANGED <<calls, made>>
  PROVE  CallsFollow
<1>1. made \in Nat /\ made <= MaxCalls
  BY DEF TypeInv, CallsOK
<1>2. CallType' = CallType
  BY DEF CallType, Known
<1> QED BY <1>1, <1>2 DEF CallsFollow, CallsOK, TypeInv

LEMMA AskedOnce ==
  ASSUME TypeInv, NEW kind \in {"setup", "list", "ask"}, Begin(kind)
  PROVE  CallsFollow
<1>1. made \in Nat
  BY DEF TypeInv, CallsOK
<1>2. made' \in 0..MaxCalls
  BY <1>1, BeginType
<1> QED BY <1>2, BeginType DEF CallsFollow, CallsOK

LEMMA EffectsFollow ==
  ASSUME TypeInv, FlagsOK', stream' \in Known,
         NEW left \in SUBSET CallType, IsFiniteSet(left), Effects(left)
  PROVE  CallsFollow
<1>1. made \in Nat /\ mic' \in BOOLEAN
  BY DEF TypeInv, CallsOK, FlagsOK
<1>2. /\ calls' \subseteq CallType' /\ IsFiniteSet(calls')
      /\ made' \in made..MaxCalls
  BY <1>1, EffectsType
<1> QED BY <1>1, <1>2 DEF CallsFollow, CallsOK

(* The stream of a call that is granted is one of those made.              *)
LEMMA GrantFollows ==
  ASSUME TypeInv, FlagsOK', NEW c \in calls, NEW tracks, Grant(c, tracks)
  PROVE  CallsFollow
<1>1. c \in CallType /\ c.id \in Known /\ stream \in Known /\ ("audio" \in tracks) \in BOOLEAN
  BY DEF TypeInv, CallsOK, CallType, Known, MediaOK
<1>2. stream' \in Known
  BY <1>1 DEF Grant, SetStream
<1>3. [c EXCEPT !.at = "enumerate", !.with = "audio" \in tracks] \in CallType
  BY <1>1, MovedType
<1> DEFINE left == (calls \ {c}) \cup {[c EXCEPT !.at = "enumerate", !.with = "audio" \in tracks]}
<1>4. left \in SUBSET CallType /\ IsFiniteSet(left)
  BY <1>3, CallsGoOn
<1>5. Effects(left)
  BY DEF Grant
<1> HIDE DEF left
<1> QED BY <1>2, <1>4, <1>5, EffectsFollow

LEMMA CallsStep ==
  ASSUME TypeInv, FlagsOK', [Next]_vars
  PROVE  CallsFollow
<1>0. CASE UNCHANGED vars
  BY <1>0, SameCalls DEF vars
<1>1. CASE JoinAnswered \/ JoinFails
  BY <1>1, SameCalls DEF JoinAnswered, JoinFails
<1>2. CASE VerifyMeeting \/ TypeName \/ ClearError \/ JoinClick
  BY <1>2, SameCalls DEF VerifyMeeting, TypeName, ClearError, JoinClick
<1>3. CASE HandleApproved \/ Leave \/ TimerHome
  BY <1>3, SameCalls DEF HandleApproved, Leave, TimerHome, Unmount
<1>4. CASE Click \/ Frame
  <2>1. CASE DismissDeviceError \/ ToggleCamera \/ ToggleMic \/ Frame
    BY <2>1, SameCalls DEF DismissDeviceError, ToggleCamera, ToggleMic, Frame
  <2>2. CASE \/ HandleAllowPermissions \/ HandleDismissPrompt \/ RequestPermissions
             \/ RetryDeviceAccess
    BY <2>2, AskedOnce DEF HandleAllowPermissions, HandleDismissPrompt, RequestPermissions,
       RetryDeviceAccess
  <2>3. CASE SelectCamera \/ SelectMic
    <3>1. Effects(calls) /\ stream' = stream
      BY <2>3 DEF SelectCamera, SelectMic
    <3> QED BY <3>1, EffectsFollow DEF TypeInv, CallsOK, MediaOK
  <2> QED BY <1>4, <2>1, <2>2, <2>3 DEF Click
<1>5. ASSUME NEW c \in calls, Answer(c) PROVE CallsFollow
  <2>0. /\ c \in CallType /\ c.id \in Known /\ stream \in Known
        /\ calls \ {c} \in SUBSET CallType /\ IsFiniteSet(calls \ {c})
    BY CallsGoOn DEF TypeInv, CallsOK, MediaOK, CallType, Known
  <2>2. CASE SetupBoth(c)
    BY <2>0, <2>2, GrantFollows, Moved, MovedType DEF SetupBoth
  <2>3. CASE SetupVideo(c)
    BY <2>0, <2>3, Moved, MovedType DEF SetupVideo
  <2>4. CASE SetupAudio(c)
    BY <2>0, <2>4, GrantFollows, Moved, MovedType DEF SetupAudio, HandleMediaError
  <2>5. CASE Explain(c)
    BY <2>0, <2>5, Moved DEF Explain
  <2>6. CASE Enumerated(c)
    BY <2>0, <2>6, EffectsFollow DEF Enumerated
  <2>7. CASE Asked(c)
    BY <2>0, <2>7, Moved, MovedType DEF Asked
  <2>8. CASE Switched(c)
    BY <2>0, <2>8, Moved DEF Switched
  <2>9. CASE SwitchFails(c)
    BY <2>0, <2>9, EffectsFollow DEF SwitchFails
  <2> QED BY <1>5, <2>2, <2>3, <2>4, <2>5, <2>6, <2>7, <2>8, <2>9 DEF Answer
<1> QED BY <1>0, <1>1, <1>2, <1>3, <1>4, <1>5 DEF Next, Answered, Devices

LEMMA MediaStep ==
  ASSUME TypeInv, CallsFollow, [Next]_vars
  PROVE  MediaOK'
<1>0. /\ 1..made \subseteq 1..made' /\ Known \subseteq Known' /\ None \in Known'
      /\ \A c \in calls : c.id \in 1..made
  BY Grows DEF TypeInv, CallsOK, CallsFollow, CallType, Known
<1> HIDE DEF Known
<1> USE DEF TypeInv, MediaOK
<1>1. CASE JoinAnswered \/ JoinFails \/ UNCHANGED vars
  BY <1>0, <1>1 DEF JoinAnswered, JoinFails, CleanupDevices, CleanupAnalyzer, vars
<1>2. CASE VerifyMeeting \/ TypeName \/ ClearError \/ JoinClick
  BY <1>0, <1>2 DEF VerifyMeeting, TypeName, ClearError, JoinClick, LifecycleEffect,
     CleanupAnalyzer
<1>3. CASE HandleApproved \/ Leave \/ TimerHome
  BY <1>0, <1>3 DEF HandleApproved, Leave, TimerHome, Unmount, CleanupAnalyzer
<1>4. CASE UNCHANGED visit /\ (Click \/ Frame)
  <2>1. CASE \/ HandleAllowPermissions \/ HandleDismissPrompt \/ RequestPermissions
             \/ RetryDeviceAccess \/ DismissDeviceError \/ SelectCamera \/ SelectMic \/ Frame
    BY <1>0, <1>4, <2>1 DEF HandleAllowPermissions, HandleDismissPrompt, RequestPermissions,
       RetryDeviceAccess, DismissDeviceError, SelectCamera, SelectMic, Frame
  <2>2. CASE ToggleCamera \/ ToggleMic
    BY <1>0, <1>4, <2>2 DEF ToggleCamera, ToggleMic, Toggle
  <2> QED BY <1>4, <2>1, <2>2 DEF Click
<1>5. ASSUME UNCHANGED visit, NEW c \in calls, Answer(c) PROVE MediaOK'
  <2>1. c.id \in 1..made' /\ c.id \in Known'
    BY <1>0 DEF Known
  <2>a. ASSUME NEW tracks \in SUBSET {"audio", "video"}, Grant(c, tracks) PROVE MediaOK'
    BY <1>0, <1>5, <2>1, <2>a DEF Grant, SetStream
  <2>2. CASE SetupBoth(c)
    BY <1>0, <1>5, <2>2, <2>a DEF SetupBoth
  <2>3. CASE SetupVideo(c) \/ Explain(c) \/ Asked(c) \/ SwitchFails(c)
    BY <1>0, <1>5, <2>3 DEF SetupVideo, Explain, Asked, SwitchFails
  <2>4. CASE SetupAudio(c)
    BY <1>0, <1>5, <2>4, <2>a DEF SetupAudio, HandleMediaError
  <2>6. CASE Enumerated(c)
    BY <1>0, <1>5, <2>1, <2>6 DEF Enumerated, SetupAudioAnalyzer
  <2>8. CASE Switched(c)
    BY <1>0, <1>5, <2>1, <2>8 DEF Switched, SetupAudioAnalyzer, SetStream, Parts
  <2> QED BY <1>5, <2>2, <2>3, <2>4, <2>6, <2>8 DEF Answer
<1> QED BY <1>1, <1>2, <1>3, <1>4, <1>5 DEF Next, Answered, Devices

LEMMA InitTyped == Init => TypeInv
<1> SUFFICES ASSUME Init PROVE TypeInv
  OBVIOUS
<1>1. FlagsOK
  BY DEF Init, DevicesInit, FlagsOK
<1>2. MediaOK
  BY DEF Init, DevicesInit, MediaOK, Known
<1>3. CallsOK
  BY FS_EmptySet DEF Init, DevicesInit, CallsOK
<1>4. HistoryOK
  BY DEF Init, HistoryOK
<1> QED BY <1>1, <1>2, <1>3, <1>4 DEF TypeInv

LEMMA HistoryStep ==
  ASSUME TypeInv, CallsFollow, MediaOK', [Next]_vars
  PROVE  HistoryOK'
<1>1. /\ 1..made \subseteq 1..made' /\ live' \subseteq 1..made'
      /\ \A c \in calls : c.id \in 1..made
  BY Grows DEF TypeInv, CallsOK, CallsFollow, CallType, MediaOK
<1>2. stream \in (1..made) \cup {None}
  BY DEF TypeInv, MediaOK, Known
<1>3. CASE UNCHANGED vars
  BY <1>1, <1>3 DEF vars, TypeInv, HistoryOK
<1>4. CASE Track
  BY <1>1, <1>2, <1>4 DEF Track, Replaced, ShownSince, CameLate, TypeInv, HistoryOK
<1> QED BY <1>3, <1>4 DEF Next, Answered

LEMMA TypeStep == TypeInv /\ [Next]_vars => TypeInv'
  BY FlagsStep, CallsStep, MediaStep, HistoryStep DEF TypeInv, CallsFollow

-----------------------------------------------------------------------------
(* The devices before the visitor agreed, the preview and the meter.       *)

LEMMA BeforeStep ==
  ASSUME TypeInv, Untouched, OneWayToAsk, NotAskedYet, [Next]_vars
  PROVE  Untouched' /\ OneWayToAsk' /\ NotAskedYet'
<1> USE DEF Untouched, OneWayToAsk, NotAskedYet, Mounted, LobbyShown, PromptShown,
     ErrorShown, ButtonShown
<1>1. CASE JoinAnswered \/ JoinFails \/ UNCHANGED vars
  BY <1>1 DEF JoinAnswered, JoinFails, CleanupDevices, CleanupAnalyzer, vars
<1>2. CASE VerifyMeeting \/ TypeName \/ ClearError \/ JoinClick
  BY <1>2 DEF VerifyMeeting, TypeName, ClearError, JoinClick, LifecycleEffect,
     CleanupAnalyzer
<1>3. CASE HandleApproved \/ Leave \/ TimerHome
  BY <1>3 DEF HandleApproved, Leave, TimerHome, Unmount, CleanupAnalyzer
<1>4. CASE UNCHANGED visit /\ (Click \/ Frame)
  <2>1. CASE \/ HandleAllowPermissions \/ HandleDismissPrompt \/ RequestPermissions
             \/ RetryDeviceAccess
    BY <1>4, <2>1 DEF HandleAllowPermissions, HandleDismissPrompt, RequestPermissions,
       RetryDeviceAccess, Begin, Call
  <2>2. CASE DismissDeviceError \/ ToggleCamera \/ ToggleMic \/ Frame
    BY <1>4, <2>2 DEF DismissDeviceError, ToggleCamera, ToggleMic, Frame
  <2>3. CASE SelectCamera \/ SelectMic
    <3>1. ~ granted' => calls' = calls
      <4>1. made \in Nat /\ mic' \in BOOLEAN /\ Effects(calls) /\ granted' = granted
        BY <2>3 DEF SelectCamera, SelectMic, TypeInv, CallsOK, FlagsOK
      <4> QED BY <4>1, EffectsAdd
    <3> QED BY <1>4, <2>3, <3>1 DEF SelectCamera, SelectMic
  <2> QED BY <1>4, <2>1, <2>2, <2>3 DEF Click
<1>5. ASSUME UNCHANGED visit, NEW c \in calls, Answer(c)
      PROVE  Untouched' /\ OneWayToAsk' /\ NotAskedYet'
  <2>1. page' = page /\ prompt' = prompt /\ button' = button /\ mobile' = mobile
    BY <1>5 DEF Answer, SetupBoth, SetupVideo, SetupAudio, Explain, Enumerated, Asked,
       Switched, SwitchFails, Grant, HandleMediaError
  <2>2. CASE c.kind # "list"
    BY <1>5, <2>1, <2>2
  <2>3. CASE c.kind = "list"
    <3>1. Enumerated(c)
      BY <1>5, <2>3 DEF Answer, SetupBoth, SetupVideo, SetupAudio, Explain, Asked,
         Switched, SwitchFails
    <3>2. ~ granted => calls' = calls \ {c}
      <4>1. /\ made \in Nat /\ mic' \in BOOLEAN /\ granted' = granted
            /\ Effects(calls \ {c})
        BY <2>3, <3>1 DEF Enumerated, TypeInv, CallsOK, FlagsOK
      <4> QED BY <4>1, EffectsAdd
    <3> QED BY <1>5, <2>1, <2>3, <3>1, <3>2 DEF Enumerated
  <2> QED BY <2>2, <2>3
<1> QED BY <1>1, <1>2, <1>3, <1>4, <1>5 DEF Next, Answered, Devices

LEMMA MeterStep ==
  ASSUME Untouched, MeterInv, [Next]_vars
  PROVE  MeterInv'
<1> USE DEF MeterInv, OneAudioContext, LobbyShown, Mounted, Untouched
<1>1. CASE JoinAnswered \/ JoinFails \/ UNCHANGED vars
  BY <1>1 DEF JoinAnswered, JoinFails, CleanupDevices, CleanupAnalyzer, vars
<1>2. CASE VerifyMeeting \/ TypeName \/ ClearError \/ JoinClick
  BY <1>2 DEF VerifyMeeting, TypeName, ClearError, JoinClick, LifecycleEffect,
     CleanupAnalyzer
<1>3. CASE HandleApproved \/ Leave \/ TimerHome
  BY <1>3 DEF HandleApproved, Leave, TimerHome, Unmount, CleanupAnalyzer
<1>4. CASE UNCHANGED visit /\ (Click \/ Frame)
  <2>1. page' = page /\ contexts' = contexts /\ ctxRef' = ctxRef
    BY <1>4 DEF Click, HandleAllowPermissions, HandleDismissPrompt, RequestPermissions,
       RetryDeviceAccess, DismissDeviceError, ToggleCamera, ToggleMic, SelectCamera,
       SelectMic, Frame
  <2>2. CASE ToggleMic
    BY <2>1, <2>2 DEF ToggleMic
  <2>3. CASE loop' = loop \/ loop' = FALSE
    BY <2>1, <2>3
  <2> QED BY <1>4, <2>2, <2>3 DEF Click, HandleAllowPermissions, HandleDismissPrompt,
       RequestPermissions, RetryDeviceAccess, DismissDeviceError, ToggleCamera,
       SelectCamera, SelectMic, Frame
<1>5. ASSUME UNCHANGED visit, NEW c \in calls, Answer(c) PROVE MeterInv'
  <2>1. page' = page /\ (UNCHANGED meter \/ SetupAudioAnalyzer(c.id))
    BY <1>5 DEF Answer, SetupBoth, SetupVideo, SetupAudio, Explain, Enumerated, Asked,
       Switched, SwitchFails, Grant, HandleMediaError
  <2> QED BY <2>1 DEF SetupAudioAnalyzer
<1> QED BY <1>1, <1>2, <1>3, <1>4, <1>5 DEF Next, Answered, Devices

LEMMA ShownStep ==
  ASSUME TypeInv, Untouched, ShownIsLive, [Next]_vars
  PROVE  ShownIsLive'
<1> USE DEF ShownIsLive, LobbyShown, Mounted, Untouched
<1>1. CASE JoinAnswered \/ JoinFails \/ UNCHANGED vars
  BY <1>1 DEF JoinAnswered, JoinFails, CleanupDevices, vars
<1>2. CASE VerifyMeeting \/ TypeName \/ ClearError \/ JoinClick
  BY <1>2 DEF VerifyMeeting, TypeName, ClearError, JoinClick, LifecycleEffect
<1>3. CASE HandleApproved \/ Leave \/ TimerHome
  BY <1>3 DEF HandleApproved, Leave, TimerHome, Unmount
<1>4. CASE UNCHANGED visit /\ (Click \/ Frame)
  BY <1>4 DEF Click, HandleAllowPermissions, HandleDismissPrompt, RequestPermissions,
     RetryDeviceAccess, DismissDeviceError, ToggleCamera, ToggleMic, SelectCamera,
     SelectMic, Frame
<1>5. ASSUME UNCHANGED visit, NEW c \in calls, Answer(c) PROVE ShownIsLive'
  <2>1. CASE \E tracks : Grant(c, tracks)
    BY <1>5, <2>1 DEF Grant, SetStream
  <2>2. CASE UNCHANGED <<page, media>>
    BY <2>2
  <2>3. CASE Switched(c)
    BY <1>5, <2>3 DEF Switched, SetStream
  <2> QED BY <1>5, <2>1, <2>2, <2>3 DEF Answer, SetupBoth, SetupVideo, SetupAudio, Explain,
       Enumerated, Asked, SwitchFails, HandleMediaError
<1> QED BY <1>1, <1>2, <1>3, <1>4, <1>5 DEF Next, Answered, Devices

-----------------------------------------------------------------------------
(* What runs beside the preview.                                           *)

(* What the effects add.                                                   *)
LEMMA EffectsCapture ==
  ASSUME TypeInv, FlagsOK', NEW left, Effects(left)
  PROVE  \A d \in calls' : d \in left \/ d.old = stream'
<1>1. made \in Nat /\ mic' \in BOOLEAN
  BY DEF TypeInv, CallsOK, FlagsOK
<1>2. PICK new \in SUBSET Switches : calls' = left \cup new
  BY <1>1, EffectsAdd
<1> QED BY <1>2 DEF Switches

(* Who is under way after a step was so before, as the same call, or is new*)
(* and has captured the stream that is shown now.                          *)
Carried ==
    \A d \in calls' :
        \/ d.kind \notin {"camera", "mic"}
        \/ d \in calls
        \/ d.old = stream'

LEMMA CarriedStep ==
  ASSUME TypeInv, FlagsOK', [Next]_vars
  PROVE  Carried
<1> USE DEF Carried
<1>1. CASE UNCHANGED calls
  BY <1>1
<1>2. CASE \/ HandleAllowPermissions \/ HandleDismissPrompt \/ RequestPermissions
           \/ RetryDeviceAccess
  BY <1>2 DEF HandleAllowPermissions, HandleDismissPrompt, RequestPermissions,
     RetryDeviceAccess, Begin, Call
<1>3. CASE SelectCamera \/ SelectMic
  BY <1>3, EffectsCapture DEF SelectCamera, SelectMic
<1>4. ASSUME NEW c \in calls, Answer(c) PROVE Carried
  <2>0. c \in CallType
    BY DEF TypeInv, CallsOK
  <2>1. ASSUME NEW tracks, c.kind = "setup", Grant(c, tracks) PROVE Carried
    <3> DEFINE e == [c EXCEPT !.at = "enumerate", !.with = "audio" \in tracks]
    <3>1. e.kind = "setup"
      BY <2>0, <2>1 DEF CallType
    <3>2. \A d \in calls' : d \in (calls \ {c}) \cup {e} \/ d.old = stream'
      BY <2>1, EffectsCapture DEF Grant
    <3> HIDE DEF e
    <3> QED BY <3>1, <3>2
  <2>2. CASE SetupBoth(c)
    <3>1. c.kind = "setup"
      BY <2>2 DEF SetupBoth
    <3>2. ASSUME NEW e, calls' = (calls \ {c}) \cup {[c EXCEPT !.at = "video", !.why = e]}
          PROVE  Carried
      <4>1. [c EXCEPT !.at = "video", !.why = e].kind = "setup"
        BY <2>0, <3>1 DEF CallType
      <4> QED BY <3>2, <4>1
    <3> QED BY <2>1, <2>2, <3>1, <3>2 DEF SetupBoth
  <2>3. CASE SetupVideo(c)
    BY <2>0, <2>3 DEF SetupVideo, CallType
  <2>4. CASE SetupAudio(c)
    BY <2>0, <2>1, <2>4 DEF SetupAudio, HandleMediaError, CallType
  <2>5. CASE Explain(c) \/ Switched(c)
    BY <2>5 DEF Explain, Switched
  <2>6. CASE Enumerated(c) \/ SwitchFails(c)
    BY <2>6, EffectsCapture DEF Enumerated, SwitchFails
  <2>7. CASE Asked(c)
    BY <2>0, <2>7 DEF Asked, CallType
  <2> QED BY <1>4, <2>2, <2>3, <2>4, <2>5, <2>6, <2>7 DEF Answer
<1>5. CASE \E c \in calls : Answer(c)
  BY <1>4, <1>5
<1> QED BY <1>1, <1>2, <1>3, <1>5 DEF Next, Answered, Devices, Click, vars, VerifyMeeting,
     TypeName, ClearError, JoinClick, JoinAnswered, JoinFails, HandleApproved, Leave, TimerHome,
     Unmount, DismissDeviceError, ToggleCamera, ToggleMic, Frame

(* The page is never shown anew, and its media change only with an answer, *)
(* or are given back.                                                      *)
MediaSame == stream' = stream /\ live' \subseteq live /\ page' # "loading"

LEMMA MediaOfStep ==
  ASSUME TypeInv, Next
  PROVE  \/ MediaSame /\ (page' = "lobby" => page \in {"loading", "lobby"})
         \/ page' = page /\ UNCHANGED <<stream, live>>
         \/ \E c \in calls : page' = page /\ ((\E tracks : c.kind = "setup" /\ Grant(c, tracks)) \/ Switched(c))
<1> USE DEF MediaSame
<1>1. CASE JoinAnswered \/ JoinFails
  BY <1>1 DEF JoinAnswered, JoinFails, CleanupDevices, Mounted
<1>2. CASE VerifyMeeting \/ TypeName \/ ClearError \/ JoinClick
  BY <1>2 DEF VerifyMeeting, TypeName, ClearError, JoinClick, LifecycleEffect, LobbyShown
<1>3. CASE HandleApproved \/ Leave \/ TimerHome
  BY <1>3 DEF HandleApproved, Leave, TimerHome, Unmount
<1>4. CASE Click \/ Frame
  BY <1>4 DEF Click, HandleAllowPermissions, HandleDismissPrompt, RequestPermissions,
     RetryDeviceAccess, DismissDeviceError, ToggleCamera, ToggleMic, SelectCamera,
     SelectMic, Frame
<1>5. ASSUME NEW c \in calls, Answer(c)
      PROVE  \/ page' = page /\ UNCHANGED <<stream, live>>
             \/ page' = page /\ ((\E tracks : c.kind = "setup" /\ Grant(c, tracks)) \/ Switched(c))
  BY <1>5 DEF Answer, SetupBoth, SetupVideo, SetupAudio, Explain, Enumerated, Asked,
     SwitchFails, Switched, Grant, HandleMediaError
<1> QED BY <1>1, <1>2, <1>3, <1>4, <1>5 DEF Next, Answered, Devices

LEMMA KnowsStep ==
  ASSUME Inv, FlagsOK', [Next]_vars
  PROVE  KnowsShown'
<1>1. Carried
  BY CarriedStep DEF Inv
<1>2. CASE UNCHANGED vars
  BY <1>2 DEF vars, Inv, KnowsShown
<1>3. CASE Next
  <2> SUFFICES ASSUME page' = "lobby", NEW d \in calls', d.kind \in {"camera", "mic"},
                      d.id \notin outrun', d \in calls
               PROVE  d.old = stream'
    BY <1>1 DEF KnowsShown, Carried
  <2>1. Track
    BY <1>3 DEF Next, Answered
  <2>2. stream' = stream /\ d.id \notin outrun
    BY <2>1 DEF Track
  <2>3. page = "lobby"
    <3>1. page \in {"loading", "lobby"}
      BY <1>3, MediaOfStep DEF Inv, Grant, Switched
    <3>2. page # "loading"
      BY DEF Inv, Untouched
    <3> QED BY <3>1, <3>2
  <2> QED BY <2>2, <2>3 DEF Inv, KnowsShown
<1> QED BY <1>2, <1>3

(* The lobby is left for the waiting room or the meeting room.             *)
LEMMA HandOver ==
  ASSUME Inv, Next, page = "lobby", page' \in {"waiting", "room"}
  PROVE  live' \subseteq stray'
<1>1. JoinAnswered
  BY DEF Next, Answered, Devices, Click, HandleAllowPermissions, HandleDismissPrompt,
     RequestPermissions, RetryDeviceAccess, DismissDeviceError, ToggleCamera, ToggleMic,
     SelectCamera, SelectMic, Frame, Answer, SetupBoth, SetupVideo, SetupAudio, Explain,
     Enumerated, Asked, Switched, SwitchFails, Grant, HandleMediaError, VerifyMeeting,
     TypeName, ClearError, JoinClick, JoinFails, HandleApproved, Leave, TimerHome, Unmount
<1>2. live' = live \ {asked.stream} /\ live \subseteq {stream} \cup stray
  BY <1>1 DEF JoinAnswered, CleanupDevices, Inv, OnlyStrays, OnlyStraysRun
<1>3. /\ stray' = stray \cup Replaced \cup ShownSince \cup CameLate
      /\ None \notin live
  BY DEF Next, Answered, Track, Inv, TypeInv, MediaOK
<1>4. asked.stream # stream => {stream} \ {None} \subseteq stray'
  BY <1>3 DEF ShownSince
<1> QED BY <1>2, <1>3, <1>4

(* Into the meeting room leads no other way but by the waiting room.       *)
LEMMA WaitsBefore ==
  ASSUME Inv, Next, page # "lobby", page' \in {"waiting", "room"}
  PROVE  page \in {"waiting", "room"}
<1>1. page' = page \/ JoinAnswered \/ HandleApproved
  BY DEF Next, Answered, Devices, Click, HandleAllowPermissions, HandleDismissPrompt,
     RequestPermissions, RetryDeviceAccess, DismissDeviceError, ToggleCamera, ToggleMic,
     SelectCamera, SelectMic, Frame, Answer, SetupBoth, SetupVideo, SetupAudio, Explain,
     Enumerated, Asked, Switched, SwitchFails, Grant, HandleMediaError, VerifyMeeting,
     TypeName, ClearError, JoinClick, JoinFails, Leave, TimerHome, Unmount
<1>2. JoinAnswered => page' = page \/ page \in {"waiting", "lobby"}
  BY DEF JoinAnswered, Mounted, Inv, Untouched
<1> QED BY <1>1, <1>2 DEF HandleApproved

LEMMA StraysStep ==
  ASSUME Inv, [Next]_vars
  PROVE  OnlyStrays'
<1> USE DEF OnlyStrays, OnlyStraysRun, HandsOverDevices
<1>1. CASE UNCHANGED vars
  BY <1>1 DEF vars, Inv
<1>2. CASE Next
  <2>1. Track /\ stray \subseteq stray'
    BY <1>2 DEF Next, Answered, Track
  <2>2. page \in {"loading", "lobby", "waiting", "room", "gone"}
    BY DEF Inv, TypeInv, FlagsOK
  <2>3. CASE page' = page /\ UNCHANGED <<stream, live>>
    BY <2>1, <2>3 DEF Inv
  <2>4. CASE MediaSame /\ (page' = "lobby" => page \in {"loading", "lobby"})
    <3>1. CASE page' \in {"waiting", "room"} /\ page = "lobby"
      BY <1>2, <2>1, <3>1, HandOver DEF Inv
    <3>2. CASE page' = "lobby"
      BY <2>1, <2>4, <3>2 DEF Inv, MediaSame
    <3>3. CASE page' \in {"waiting", "room"} /\ page # "lobby"
      BY <1>2, <2>1, <2>2, <2>4, <3>3, WaitsBefore DEF Inv, MediaSame
    <3> QED BY <2>4, <3>1, <3>2, <3>3 DEF MediaSame
  <2>5. ASSUME NEW c \in calls, page' = page,
               (\E tracks : c.kind = "setup" /\ Grant(c, tracks)) \/ Switched(c)
        PROVE  OnlyStrays'
    <3>1. page # "loading"
      BY DEF Inv, Untouched
    <3>2. live' \subseteq live \cup {c.id}
      BY <2>5 DEF Grant, Switched
    <3>3. CASE page # "lobby"
      BY <2>1, <2>2, <2>5, <3>1, <3>2, <3>3 DEF Inv, Track, CameLate
    <3>4. CASE page = "lobby"
      <4>1. stream' = c.id
        BY <2>5, <3>4 DEF Grant, Switched, SetStream, Mounted
      <4>2. None \notin live
        BY DEF Inv, TypeInv, MediaOK
      <4>3. CASE stream' = stream
        BY <2>1, <2>5, <3>2, <3>4, <4>1, <4>3 DEF Inv
      <4>4. CASE stream' # stream /\ (c.kind = "setup" \/ c.id \in outrun)
        <5>1. {stream} \ {None} \subseteq stray'
          BY <2>1, <4>1, <4>4 DEF Track, Replaced
        <5> QED BY <2>1, <2>5, <3>2, <3>4, <4>1, <4>2, <5>1 DEF Inv
      <4>5. CASE c.kind # "setup" /\ c.id \notin outrun
        <5>1. Switched(c) /\ c.old = stream
          BY <2>5, <3>4, <4>5 DEF Inv, KnowsShown, Switched
        <5>2. live' = (live \ {stream}) \cup {stream'}
          BY <4>1, <5>1 DEF Switched
        <5> QED BY <2>1, <2>5, <3>4, <5>2 DEF Inv
      <4> QED BY <4>3, <4>4, <4>5
    <3> QED BY <3>3, <3>4
  <2> QED BY <1>2, <2>3, <2>4, <2>5, MediaOfStep DEF Inv
<1> QED BY <1>1, <1>2

-----------------------------------------------------------------------------
LEMMA InitInv == Init => Inv
<1> SUFFICES ASSUME Init PROVE Inv
  OBVIOUS
<1>1. TypeInv
  BY InitTyped
<1>2. Untouched /\ OneWayToAsk /\ NotAskedYet
  BY DEF Init, DevicesInit, Untouched, OneWayToAsk, NotAskedYet
<1>3. MeterInv /\ ShownIsLive
  BY DEF Init, DevicesInit, MeterInv, OneAudioContext, ShownIsLive
<1>4. KnowsShown /\ OnlyStrays
  BY DEF Init, DevicesInit, KnowsShown, OnlyStrays, OnlyStraysRun, HandsOverDevices
<1> QED BY <1>1, <1>2, <1>3, <1>4 DEF Inv

LEMMA NextInv == Inv /\ [Next]_vars => Inv'
<1> SUFFICES ASSUME Inv, [Next]_vars PROVE Inv'
  OBVIOUS
<1>1. TypeInv'
  BY TypeStep DEF Inv
<1>2. Untouched' /\ OneWayToAsk' /\ NotAskedYet'
  BY BeforeStep DEF Inv
<1>3. MeterInv'
  BY MeterStep DEF Inv
<1>4. ShownIsLive'
  BY ShownStep DEF Inv
<1>5. KnowsShown' /\ OnlyStrays'
  BY <1>1, KnowsStep, StraysStep DEF TypeInv
<1> QED BY <1>1, <1>2, <1>3, <1>4, <1>5 DEF Inv

LEMMA Invariance == Spec => []Inv
  BY InitInv, NextInv, PTL DEF Spec

(* Every variable keeps its type.                                          *)
THEOREM LobbyPageTypeCorrect == Spec => []TypeOK
<1>1. Inv => TypeOK
  BY TypesImply DEF Inv
<1> QED BY <1>1, Invariance, PTL

(* The preview of the lobby never shows a stream that has ended.           *)
THEOREM PreviewIsLiveHolds == Spec => []PreviewIsLive
<1>1. Inv => PreviewIsLive
  BY DEF Inv, ShownIsLive, PreviewIsLive, Preview, LobbyShown
<1> QED BY <1>1, Invariance, PTL

(* The browser is asked for devices only after the visitor agreed to it on *)
(* the site.                                                               *)
THEOREM AskedOnlyAfterConsentHolds == Spec => []AskedOnlyAfterConsent
<1>1. Inv => AskedOnlyAfterConsent
  BY DEF Inv, NotAskedYet, AskedOnlyAfterConsent
<1> QED BY <1>1, Invariance, PTL

(* However switches, retries and leaving interleave, at most one           *)
(* AudioContext is open, and the level meter runs on that one.             *)
THEOREM OneAudioContextHolds == Spec => []OneAudioContext
<1>1. Inv => OneAudioContext
  BY DEF Inv, MeterInv
<1> QED BY <1>1, Invariance, PTL

(* In the lobby a stream runs beside the shown one only if its place was   *)
(* taken by an answer whose closure could not know it: a setup's, or that  *)
(* of a switch that another answer had overtaken.                          *)
THEOREM OnlyStraysRunHolds == Spec => []OnlyStraysRun
<1>1. Inv => OnlyStraysRun
  BY DEF Inv, OnlyStrays
<1> QED BY <1>1, Invariance, PTL

(* When the waiting room or the meeting room takes over, every other       *)
(* stream has been given back, but for the one that came into the preview  *)
(* after the click on Join and those that come after the lobby was left.   *)
THEOREM HandsOverDevicesHolds == Spec => []HandsOverDevices
<1>1. Inv => HandsOverDevices
  BY DEF Inv, OnlyStrays
<1> QED BY <1>1, Invariance, PTL
=============================================================================
