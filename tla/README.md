# Mini-Meeting in TLA+

TLA+ modules of the stateful parts of Mini-Meeting, server and client, TLC
configurations that check them on small instances, and proofs, checked by
TLAPS, of what holds for every instance.  Paths are relative to the repository;
`internal/` stands for `src/backend/internal/`, `frontend/` for
`src/frontend/src/`.

    tlc -config lobby_tabs.cfg LobbyMC.tla           # model-check a run
    tlapm LobbyProofs.tla                            # check the proofs

## 1. The system

A Go server (Fiber, GORM on Postgres, Redis, LiveKit) and a React client.

| Part | State it keeps | Operations | Talks to |
|---|---|---|---|
| Lobby store, `internal/cache/lobby.go` | Redis: one key per join request (JSON, TTL 1 h), one set of identifiers per meeting | store, get, update status, list, clean up | called by the lobby handlers |
| Lobby hub, `internal/cache/lobby_hub.go` | maps from meeting to admin sockets and from request to visitor socket, one mutex | register, unregister, notify | called by the lobby handlers, writes to web sockets |
| Lobby handlers, `internal/handlers/lobby_handler.go`, `lobby_ws_handler.go` | their place in a handler, a goroutine that cleans up after 5 s | request to join, cancel, visitor socket, admin socket, respond | store, hub, LiveKit tokens |
| Summarizer capture, `internal/services/summarizer_service.go` | `activeRooms`, a `WaitGroup`, a goroutine per track, chunk files | start, stop, delete, capture a track | LiveKit room as a hidden bot, session rows, disk |
| Stages, `transcription_service.go`, `normalization_service.go`, `summarization_service.go` | their place in a run | transcribe, normalise, summarise a session; each starts the next | Whisper, OpenRouter, rows, disk, e-mail |
| Workers, `internal/workers` | none but their place in a loop | take up sessions whose row has not changed for 15 min | the stages |
| Tables, `internal/models`, `internal/repositories`, `src/backend/migrations` | users, meetings, sessions, chunks, transcripts | one statement each, cascading foreign keys | everything |
| OpenRouter client | none | count tokens, split, retry on 429 | OpenRouter |
| OAuth login, `auth_handler.go`, `cache/oauth_state.go`, `pkg/oauth` | state tokens in memory | login, callback | Google, GitHub, users, the client's auth store |
| Meetings, users, LiveKit moderation | rows, LiveKit's rooms | CRUD, tokens, kick, mute, end | rows, LiveKit |
| Client: auth store and API client, `frontend/store/auth`, `frontend/services/api` | user, token, flags per tab; two entries of the local storage shared by the tabs; one promise for the user | initialize, sign in, sign out, save the name, react to a refused token | the API, the router's protected pages |
| Client: page before a meeting, `frontend/pages/MeetingLobby`, `frontend/hooks/useLobbyDevices` | the page shown, streams, analyser, selected devices, errors, the timer home | verify, prompt, switch, toggle, retry, join, leave | `getUserMedia`, the API, the waiting page |
| Client: waiting page and host's panel, `frontend/components/meeting/WaitingRoom`, `LobbyRequests` | the list shown, the verdict shown, the socket, the countdown | connect, reconnect, give up, cancel, respond, admit all | the lobby's two web sockets |
| Client: meeting room, `frontend/components/meeting/LiveKitMeetingRoom`, `AdminControls`, summarizer's button | panels, questions, busy buttons, the session shown | record, end for all, remove, the ways out | the API, LiveKit's events |
| Client: data pages, `frontend/pages/AdminUsers`, `Sessions`, `SessionDetail` | rows, page, search, requests under way, modals | search, turn pages, open, delete | the API, the router |

What is hard in it, component by component (`PROJECT.json`, "hazards", lists each
at its line):

* **Lobby.**  Two stores (Redis, the hub) and web sockets, changed by HTTP
  handlers, web socket loops and a delayed goroutine with no common lock; every
  read-modify-write of a key is two commands; a visitor may reconnect before
  the server notices its first connection is gone; Redis may refuse a command;
  the server may restart and lose the hub, not the keys; keys expire.
* **Capture.**  A bot that joins in the background while the host may already
  stop it; goroutines per track; one `WaitGroup` for all sessions; a stop by
  the host and one by the end of the meeting; deletion at any time.
* **Stages.**  Each stores a status and then does what the status announces, or
  the other way round, with commands that may fail and a server that may stop
  in between; workers retry what looks stuck and may overtake what is slow.
* **Auth store.**  Three places hold a token (the store, the token entry and the
  persisted store), two of them shared with other tabs; the user arrives later
  than the token, for two waiting actions at once; answers arrive after the
  user has signed out, on another page.
* **Devices.**  Each media request is answered after others were made; the
  stream it replaces is the one its closure captured; joining hands over what
  was captured before the server answered.
* **Waiting page and panel.**  Snapshots, notices and answers cross; a
  connection breaks while any of them is on its way; a countdown runs on.
* **Meeting room.**  A tab leaves while its start, stop or end is under way; the
  stop a leaving host sends may overtake the start sent before; another tab of
  the same account takes its place.
* **Data pages.**  Answers in any order, requests made from a closure of an
  earlier render, deletions whose answer finds another page.

## 2. Modules

    Lobby <- LobbyProperties <- LobbyMC                                     (TLC)
                   |         <- LobbyProofs                                 (TLAPS)
    WaitingRoom (abstract) = = INSTANCE ... WITH

    SessionRows <- Capture  \
                <- Pipeline  > Summarizer <- SummarizerProperties <- SummarizerMC
    SessionFlow (abstract) = = = = = = INSTANCE ... WITH = =  |
                             SummarizerProofs <- SummarizerFlowProofs       (TLAPS)

    AuthStore <- AppShell <- AppShellMC, AppShellProofs
    LobbyDevices <- MeetingLobby <- MeetingLobbyMC, MeetingLobbyProofs
    LobbyPages <- LobbyPagesProofs
    MeetingRoom <- MeetingRoomProofs
    PagedRows <- UsersPage    \
              <- SessionPages  > DataPages <- DataPagesProofs

A definition whose comment begins "A slip" is not part of the model: it is what a
plausible bug would make of the definition that follows it, and `PROJECT.json`
("mutants") names the property that finds it.

### Lobby

One module holds the store, the hub, the handlers and what the pages have seen,
since their interleaving is the subject.  A *process* is one HTTP request
(`Requests`: the POST of a visitor; `Cancels`), one web socket with the handler
that serves it (`Conns` of visitors, `Admins`), or one message of an admin with
what follows it (`Responses`, up to the end of its delayed cleanup).  `pc` is the
place of each; an action is one Redis command, one critical section of the hub's
mutex or one write to a socket, the granularity at which the code can be
interleaved.

| TLA+ | code |
|---|---|
| `status`, `members` | the key `lobby:request:<id>`, its Status field; the set `lobby:meeting:<code>` |
| `visitors`, `admins` | `LobbyHub.visitorConns`, `adminConns` |
| `sock` | whether the page still holds its end of a web socket |
| `sent`, `view`, `got` | what an admin socket was told of, what its page lists, what the visitor's page shows |
| `PostSet`, `PostAdd` | `StoreLobbyRequest`: SET, then SADD |
| `UpdateGet`, `UpdateSet`, `UpdateSRem` | `UpdateLobbyRequestStatus` |
| `CleanupGet`, `CleanupSRem`, `CleanupDel` | `CleanupLobbyRequest` |
| `AdminRegister`, `AdminSMembers`, `AdminGet`, `AdminSnapshot` | `HandleAdmin` up to its read loop |
| `VisitorRegister`, `VisitorUnregister`, `VisitorRecheck` | `HandleVisitor` and its deferred function |
| `RespondGet` ... `SleepEnds` | `handleAdminRespond` and the goroutine that cleans up |
| `KeyExpires`, `SetExpires` | the TTL of one hour |

A visitor's socket tells the admins of the meeting that its query names
(`lobby_ws_handler.go:138`); the waiting page puts there the code it sent with its
request, so the model uses the request's meeting.  LiveKit may refuse the token of
an approval (`RespondGet`), and the listing's clean-up of the set may be refused
by itself (`AdminGet`).

Bounds: `MaxFaults` refused Redis commands, `MaxCrashes` restarts, and the sizes
of the sets of processes.

`WaitingRoom` is the abstract specification: requests that are asked for, answered
by the host and forgotten, and answers that are heard, stored and told, in that
order and each at most once.  It has no Redis, no sockets and no processes.
`FollowsWaitingRoom` says that `Lobby` implements it.  The refinement mapping takes
a request's stage from its key (`Stage`), an answer's phase from the place of its
handler (`PhaseAt`), the verdicts told from what the visitor's page shows, and the
answers of the host from the meetings of the socket and of the request.

### Summarizer

`SessionRows` holds the rows and files and what one SQL statement or one file
command does to them; `Capture` and `Pipeline` are the two components that share
them; `Summarizer` composes the two with deletion, the ageing of rows and
crashes.  A session is one `StartSummarizer` with its row and joining goroutine,
a stop one request to stop it (or, for `Ends`, to end the meeting), a track one
`handleAudioTrack`, a run one goroutine of the three stages.  A run that starts
the next stage in a new goroutine and returns is one run that goes on; if a
worker waited for it, the worker is free again (`hired`).

| TLA+ | code |
|---|---|
| `status`, `err`, `summarized`, `doc` | columns of `summarizer_sessions`; the transcript column as the number of times each chunk's text is in it |
| `old` | `updated_at` lies before the cutoff of `FindStuck` |
| `chunks`, `texts` | rows of `audio_chunks` and `transcripts` |
| `audio`, `dirs` | chunk files, by session, identity and index as the code names them; directories |
| `hpc`, `target`, `rooms`, `bots` | place of a start or stop, the session it found, `activeRooms`, bots in their room |
| `tpc`, `idx`, `heard` | place of a track, `chunkIndex`, `packetCount > 0` |
| `rpc`, `work`, `todo`, `cur`, `wrote`, `copy` | place and local variables of a run |

What a text says is abstract: a chunk stands for its words.  Whisper may fail on
any chunk or find no words in it; OpenRouter may answer or not; a directory may
not be made.  The database refuses at most `MaxFaults` statements, the server
crashes at most `MaxCrashes` times, a track is rotated at most `MaxIndex` times,
at most `|Runs|` runs are at work at once and texts are counted up to
`MaxCopies` = 3.

Nothing in the code keeps two goroutines from working on one session: a host may
stop a session whose bot is still joining in the background, a host and the end
of a meeting may stop it both, and a worker takes up a session whose run has
lasted more than 15 minutes (`src/backend/cmd/server/main.go:93`).  The model has
all of it.  Two history variables say when it has happened: `shared` holds the
sessions on which two goroutines have met (a join that is under way, a stop from
its find to its run, a run), `left` the stops that found a room to leave.  What the
stages promise is stated of the sessions outside `shared`.

`SessionFlow` is the abstract specification: the status flow that
`internal/models/summarizer_session.go:6` documents.  `FollowsFlow` says that
`Summarizer` implements it; the refinement mapping takes the status column for
the abstract status, and takes a session out once it is in `shared`.

### AuthStore and AppShell

`AuthStore` is the store of the tabs of one browser: `stored` and `persisted` are
the two entries of the shared local storage, a tab's record holds its user,
token, flags and the promise of `userFetcher` with the actions that wait for it.
`AppShell` adds the router: what `ProtectedRoute` grants, to whom it redirects,
the OAuth pages with their timers, the profile's form, one pending call of the
page, and the interceptor that signs out on a refused token.  A state change, the
render and the redirections it causes are one step (`Show`), as React runs them
without giving other events a turn.

| TLA+ | code |
|---|---|
| `Open`, `Loaded` | a page load: `AuthInitializer`, the rehydrated store, `initialize` |
| `FetchWithLock`, `UserArrives`, `UserFails` | `fetchWithLock` and what `initialize`, `setAuthData` do with its result |
| `ProcessOAuth`, `TimerLogin` | the page of a sign-in and its timers of three seconds |
| `InitiateOAuthLogin` | the way to the provider and back, to one of the two pages `OAuthCallback` redirects to |
| `HandleLogout`, `Expelled` | `logout`; the response interceptor on 401 |
| `HandleSaveName`, `Answered` | `useProfileEdit`, and any other answer |
| `Follow`, `Redirection`, `GoTo` | links; redirecting pages; unmounting |
| `History` | the browser's Back and Forward, to a page of `Revisited` the tab has shown |

Navigations push (`OAuthSuccess.tsx:47`), so a page a tab has left may be mounted
again; `visited` holds the pages it has shown since it was loaded.  The order of
the entries is not kept: Back and Forward lead to any of them.

Bounds: `MaxLoads` page loads, `MaxReturns` uses of Back and Forward, `Revisited`
the pages they lead to, one pending call of a page per tab.  Tokens expire
and are never renewed; nothing writes a token into the session storage, so the
client's fallback to it is left out.

### LobbyDevices and MeetingLobby

The page in front of a meeting, one visit of it.  A stream is the number of the
request that produced it; `live` are the streams whose tracks run, `contexts` the
open audio contexts; a call's record holds what its closure captured (`old`: the
stream it will stop).  `MeetingLobby` adds verification, name, join request,
waiting and the way home.  Two history variables say what the code's closures
cannot know: `outrun` holds the calls under way while another's answer changed
the stream, `stray` the streams whose place was taken by an answer that had not
captured them, that came into the preview after the click on Join, or that came
after the lobby was left.  Cameras and microphones are enumerated and selected
independently.  Bound: `MaxCalls` calls of one visit.

### LobbyPages

Both ends of the lobby's sockets: the waiting page of each visitor (`page`: what
is shown, its socket, its countdown, verdicts on their way) and the panel of a
host (`requests`, `prevCount`, `toast`; `wire` and `out` are the messages under
way).  The server's handlers, whose inside is `Lobby`'s subject, are single steps
here.  `GivesUp` stands for ten attempts in a row that did not open.  The history
variable `overtaken` names requests taken off the list by a snapshot older than
it.  A cancel is handled by the server in one step and answered in another.  The
countdown's effect depends on `onCancel`, which each render of the page above makes
anew, so a level meter that was left running restarts its second with every frame:
`metered` says whether it does.  Bounds: `MaxDrops` broken connections, `MaxWire`
messages to the host, `Restless` visitors, `Metered` visitors whose meter may run
on, `Seconds` of the countdown.

### MeetingRoom

The tabs in a meeting's room.  A tab's record is what it shows; a call lives on
when its tab has left (`own` turns FALSE: the component that waits is gone), and
its `visit` tells it from later ones.  `active` is the meeting's STARTED session.
The server handles a call in one step; the answer is another.  LiveKit's events
are the flag `cut` that a tab will notice (`CutOff`); a room that is unmounted
hears no event.  The history variable `slipped` says that a stop which was owed
will not come: a tab that records is closed or led away without a word
(`GoesSilently`: by the browser, or by the answer to its own End Meeting), or the
stop of a tab that left was refused or came before its start.  It is forgotten once
nothing runs and no start is under way.  A refused button, a refused end of the
meeting and a closed tab that does not record are no excuse.  Bounds: `MaxJoins`, `MaxStarts`,
`MaxCalls`, `MaxFaults`.

### PagedRows, UsersPage, SessionPages, DataPages

`PagedRows` is what the repositories' LIMIT and OFFSET and the services' page
count return.  `UsersPage` is the administrator's table with its debounced search
and every request it waits for; `SessionPages` the list and the page of a user's
sessions; `DataPages` the tab that shows one of them at a time.  History
variables: a request's `overtaken` (a later one has been answered) and `outdated`
(asked for under parameters no longer shown).  A deletion of a user or a session
may be carried out and its answer lost.  Bounds: `MaxPage`, `MaxCalls`
requests of the table, `MaxRemovals` deletions of sessions under way.

## 3. Runs

All sets are as small as the case needs; the interesting overlaps need two
actors on one request, session, tab or page, so a second request or session adds
states, not cases.

| Run | Instance | Shows |
|---|---|---|
| `lobby_tabs` | 1 request, 1 visitor socket, 2 admin tabs, one approves, one rejects | `TypeOK`, `IndexComplete`, `EveryWaitingWasSent` |
| `lobby_hosts` | admins of 2 meetings respond to one request whose visitor may reconnect, 1 fault, 1 crash; his two sockets are symmetric | `HubHoldsLiveHandlers`, `VerdictFromOwnHost`, `FollowsWaitingRoom` |
| `lobby_live` | fairness, a visitor, a cancel, an approval | `DecidedHasCleanup`, `DecidedIsDeleted`, `DisconnectEndsWaiting` |
| `summarizer_stages` | 2 participants, 4 chunks, 2 stops, 2 runs, 1 fault, 1 crash, up to a state in which two goroutines have met on the session | `TypeOK`, `StageHasInput`, `EachChunkOnce`, `CapturedKeepsAudio`, `FollowsFlow`, `TextSurvives` |
| `summarizer_live` | fairness, 3 chunks, a deletion at any time, 1 fault, 1 crash | `DeletedLeavesNoRows`, `CapturedMovesOn`, `TranscribedMovesOn` |
| `summarizer_stop` | fairness, 2 sessions of 2 meetings, the end of one of them, 1 fault, 1 crash | `LeftIsQuiet`, `OnlyABotHoldsAStop` |
| `summarizer_normalized_claim` | a crash | violation of `NormalizedHasText` |
| `devices` | 2 cameras, 2 microphones, 3 calls | `TypeOK`, `PreviewIsLive`, `AskedOnlyAfterConsent`, `OneAudioContext`, `OnlyStraysRun`, `HandsOverDevices`, `JoinSettles` |
| `auth` | 2 tabs, 2 accounts (one of them an administrator) with a token each, 2 page loads, 2 uses of Back or Forward | `TypeOK`, `AuthenticatedHasBoth`, `WritesAgree`, `LoadingEnds` |
| `room` | 2 tabs of the creator, 2 rooms entered, 2 recordings, 2 calls under way, 1 fault | `TypeOK`, `RecordingIsAttended`, `StarterCanStop`, `BusyMeansCall` |
| `pages` | 2 visitors (one restless, one whose meter may run on), a host, 1 broken connection, 1 message under way | `WaitingIsListed`, `QuietLeaves` |
| `data` | 2 users, 2 sessions, pages of one row, 3 requests, 1 deletion of a session | `TableIsAsked`, `DeletedNotListed` |

Why the bounds are enough:

* What the stages promise ends where two goroutines meet on a session, so
  `summarizer_stages` does not go on from there (`Unshared`); what happens
  afterwards is in `summarizer_live` and `summarizer_stop`, which explore all of it,
  and in the proofs.
* A stop that waits for the tracks of another meeting needs two sessions, one of
  them still recorded; `summarizer_stop` has no chunk but the first of each track
  and one run, since it asks nothing of the stages.
* Transcription needs more than two chunks (`len(chunks) <= 2` gives up), hence
  two tracks rotated once or one rotated twice.
* Three device calls are a request, one that replaces its stream, and one that
  overlaps either; a fourth repeats one of these.
* Of the pages the browser's history leads back to, those with a timer or a form of
  their own matter: `Revisited` holds the page of a sign-in and the login page.
* In the room a tab that leaves and enters again, or two tabs that take each
  other's place, need two entries; two calls are a stop that overtakes a start.
  Larger instances are not needed, since its properties are proved (section 5).
* One message under way makes the server wait before it tells the host more; the
  crossing of a snapshot with an answer needs one in each direction.
* Pages of one row make every deletion and every turn change the rows shown.

Deadlock is not checked: people may simply do nothing more, bounds are used up,
and every request, stop and crash of an instance happens once.

### Fairness

`FairSpec` of the lobby and of the summarizer assumes weak fairness of each
handler, goroutine and worker loop by itself: Go's scheduler runs every runnable
goroutine, and Redis, Postgres and the providers answer or refuse (their clients
have timeouts).  A connection that is gone is noticed by its read loop.  Rows
grow old and tickers tick.  On the client, `AppShell` assumes that a request for
the user is answered or fails and `MeetingLobby` the same of a join request.
`LobbyPages` assumes that the countdown ticks only while nothing renders the page
(`UndisturbedTick`): an animation frame that renders it clears the timer and starts
another.  Nothing is assumed of people: nobody clicks, responds, speaks or leaves,
and nothing fails or expires because of fairness.

## 4. What the code does that its comments do not say

One disagreement has a run of its own and is the finding of `PROJECT.json`:
`NormalizedHasText`.  NORMALIZED is stored before the transcript
(`internal/services/normalization_service.go:69`); after a crash in between the
session "is ready for summarization" (`internal/models/summarizer_session.go:34`)
without a text, and no worker can take it on.

The property modules state further claims of comments, documents and labels,
under "Claims the code does not keep".  Each fails on the instance given here
(put the property into the cfg, with the changes named):

| Property | Instance on which it fails | What happens |
|---|---|---|
| `DisconnectSparesReconnected` | `lobby_live`, `Spec`, `Conns = {c1, c2}`, no cancel, admin or response | the deferred cleanup of a visitor's first connection (`lobby_ws_handler.go:130`) deletes the request a second one waits for |
| `HubTracksVisitor` | the same | the old handler's unregister removes the new connection |
| `DelayDeliversToken` | `lobby_live`, `Spec` | the push finds no connection, the visitor connects within the delay |
| `PageListsEveryWaiting` | `lobby_tabs` | a `new_request` arrives before an older snapshot |
| `ListingDropsOnlyGone` | `lobby_hosts` | a refused GET counts as a missing key |
| `ChunkNamesItsAudio` | `summarizer_stages`, `UserOf <- OneUser` | a participant who rejoins overwrites `chunk_0000.ogg` |
| `DeletedLeavesNoFiles` | `summarizer_live` | the bot of a deleted session records on |
| `OneActiveSession` | `summarizer_stop`, `MeetingOf <- OneMeeting` | two starts pass the check (`summarizer_service.go:72`) |
| `CapturedIsQuiet` ("Wait for all track goroutines to finish", `summarizer_service.go:134`) | `summarizer_stop` | the bot joins after the stop, which finds no room to leave |
| `NeverBack` ("Status flow", `summarizer_session.go:6`) | `summarizer_stages` without `CONSTRAINT` | of two stops the second writes CAPTURED (`summarizer_service.go:139`) over TRANSCRIBED, or a worker's retry meets the run it took for stuck |
| `EndedIsCleanedUp` (`livekit_handler.go:337`) | `summarizer_stop` | no scheduled task looks for STARTED |
| `StopReturns` ("Wait for all track goroutines to finish") | `summarizer_stop` | the stop of one meeting waits for the tracks of all (`summarizer_service.go:135`), or for the bot that joined after it |
| `NoLeak` | `devices` | two requests overlap, or a setup does, and the stream of one is never released |
| `DevicesAreFree` | `devices` | a switch after the click on Join: only the stream shown at the click is cleaned up |
| `OnlyDuringMeeting` ("We only use your devices during the meeting", `PermissionPrompt.tsx:139`) | `devices` | two requests overlap and the stream of one is never released |
| `CanStillAllow` ("Please allow camera and microphone access", `LobbyContent.tsx`) | `devices` | an error that is dismissed leaves no way to ask again |
| `TimerOnOwnPage` ("Redirecting to login...") | `auth` | Back to the page of a sign-in, Forward, and its timer, which nothing clears, fires on another page |
| `MeetingOpenToAll` ("authenticated and guests", `meetingRoutes.tsx`) | `auth` | a refused token leads a guest of a meeting to the login page (`services/api/client.ts:43`), as does an old timer of a sign-in |
| `ListeningIsTrue` ("Listening...", `InlineButton.tsx:33`) | `room` | another tab has stopped the recording |
| `WaitingIsKnown` ("You'll join the meeting once the host approves", `PendingScreen.tsx:48`) | `pages` | the request was cleaned up while the visitor reconnected |
| `ReconnectingIsTrue` ("Reconnecting...", `PendingScreen.tsx:52`) | `pages` | ten attempts failed and the page no longer tries |
| `RejectedLeaves` ("Redirecting in ... seconds") | `pages` | a level meter that was left running restarts the countdown's timer with every frame (`WaitingRoom/index.tsx:62`, `useWaitingRoom.ts:33`) |
| `DeniedIsFinal` | `pages` | a rejected visitor is approved by an answer sent before, during the countdown |

Met while modelling the data pages, none of them promised otherwise: "Try again"
only clears the error; an older answer that arrives late fills the table; the
refetch after a deletion asks for the page shown when the button was clicked; the
users' modal closes on Escape during a deletion, whose answer then closes the
next one; a deletion that empties the last page leaves an empty page; a list of
sessions that could not be fetched is shown as empty, or as the page before; the
answer to a session's deletion takes the user from whatever page is shown by then.

## 5. Proofs

The theorems hold for every value of the constants that satisfies the named
assumptions (`LobbyAssumption`, `RowsAssumption`, `CaptureAssumption`,
`SummarizerAssumption`, `OwnerAssumption`, `BoundsAssumption`, `DevicesAssumption`, `PagesAssumption`, `RoomAssumption`,
`UsersAssumption`, `SessionsAssumption`), that is for any sets of requests,
sockets, sessions, tracks, stops, runs, deletes, tabs, devices and users and any
number of faults and crashes.  Where a theorem has a further assumption its
statement shows it.  Every invariant below was first checked by TLC on the
instances of section 3.

### Lobby

| Theorem | Module | Further assumptions |
|---|---|---|
| `TypeCorrect`: `TypeOK` | `LobbyProofs` | none |
| `HubSafe`: `HubHoldsLiveHandlers` | `LobbyProofs` | none |
| `VerdictSafe`: `VerdictFromOwnHost` | `LobbyProofs` | none |
| `NeverPendingAgainHolds` | `LobbyProofs` | none |
| `DecidedHasCleanupHolds`, `IndexCompleteHolds` | `LobbyProofs` | none; the properties speak of no faults, no crash |
| `EveryWaitingWasSentHolds` | `LobbyProofs` | the same |
| `FollowsWaitingRoomHolds`: `Spec => FollowsWaitingRoom` | `LobbyProofs` | none |

* `HubInv` adds to the property that an idle socket has no handler yet
  (`IdleHasNoHandler`) and that a response belongs to a handler that has started
  (`RespondingHasHandler`): only live handlers can have registered something.
* `VerdictInv` adds that a response past its meeting check decides a request of
  its own admin's meeting (`DecidersOwnRequest`); a request never changes its
  meeting, so the check is still true after the sleep.
* `IndexInv` adds that a response names a request that exists (`RespondersKnow`)
  and that the SREM of a rejection comes after its SET (`SRemSettled`), so no
  response takes a request that still waits out of the set.
* `SentInv` says that a socket that is up stays in the hub while its handler is
  registered (`UpIsRegistered`), and that once it has listed the set, each
  waiting request was sent to it, is still to be read and sent, or is on its way
  from a POST that copies the hub later (`ListedOrInformed`).  It needs
  `IndexInv`, since the listing is only as good as the set, and `OneResponse`, at
  most one response of an admin's read loop at a time.
* `NeverPendingAgain` needs types only: no action but a request's own POST stores
  `pending`.  No run checks it by itself, since the waiting room promises it too: a
  request is only ever asked for once.
* The refinement is proved step by step.  Most actions are `Quiet`, they map to a
  stutter (`MostStepsQuiet`, `RoomStands`); a POST's SET maps to `Ask`, the DEL of
  a cleanup and an expiry to `Forget`, the steps of a response to those of its
  answer (`SeenIsRoom`), a crash to `Crash`.  A POST that is refused is the `Ask`
  of a request that is not taken because no key was there before
  (`NewIsUnstored`), and the SET of a response is a `Store` because the request it
  names exists (`RespondersKnow`), whether or not its key still does.

### Summarizer

| Theorem | Module |
|---|---|
| `SummarizerTypeCorrect`: `TypeOK` | `SummarizerProofs` |
| `LeftIsQuietHolds` | `SummarizerProofs` |
| `DeletedLeavesNoRowsHolds` | `SummarizerProofs` |
| `FollowsFlowHolds`: `Spec => FollowsFlow` | `SummarizerFlowProofs` |
| `TextSurvivesHolds`, `StageHasInputHolds`, `CapturedKeepsAudioHolds` | `SummarizerFlowProofs` |
| `EachChunkOnceHolds` | `SummarizerFlowProofs` |

They hold for every number of stops, runs, faults and crashes, with bots that join
late and runs that outlast the workers' threshold.  The last three rows speak of a
session until two goroutines have met on it; that nothing better can be said is
shown by `NeverBack` (section 4).

* `TypeInv` adds to `TypeOK` that a stop, a track and a run have the session,
  index or chunk their place calls for (`Found`, `Rotating`, `Assigned`).
* `QuietInv` is the argument for `wg.Wait`.  A bot in its room is in `activeRooms`
  or about to be stored there (`BotKnown`), so a stop that found it makes it leave
  for good (`LeftSoFar`); no track begins without a bot, so what `wg.Wait` sees
  ended stays ended (`EndedStays`).  For the sessions that no two goroutines have
  met on (`MeetNoted`) the stop always finds the bot (`StopSoFar`), and every later
  status or run comes from such a stop (`LaterEnded`, `RunEnded`).
* `RowInv` says that a run only ever holds chunks of its own session
  (`OwnChunks`): what it writes under its session's row is deleted with it.
* `FlowInv` says what being alone on a session gives (`NobodyElse`): while a stop is
  at work the row is still STARTED (`EarlyStage`), and the status a run has read is
  still there when it writes the next one (`AtStage`), so each UpdateStatus, which
  itself has no condition, is a step of `SessionFlow`.  A step that works on one
  session leaves the others as they were (`OneSession`).
* `TextInv` follows the data along that argument: the file of a chunk being
  written or stored is there (`Writing`), `successCount` counts texts that are
  there (`Counted`), the document a run is about to store is made of all texts
  and is the first one (`Copied`, `NoDocYet`).
* `OnceInv` counts: with `Budget` the commands refused and the crashes so far, a
  session that is still to be transcribed has at most `Budget` texts of a chunk but
  for the one that the run at work on it has stored (`Fresh`), the chunks a run has
  still in hand have at most `Budget` (`Ahead`), and hence none is there more than
  `1 + Budget` times, in the table, in a run's copy or in the document (`Single`).

### Authentication

| Theorem | Module |
|---|---|
| `ShellTypeCorrect`: `TypeOK` | `AppShellProofs` |
| `AuthenticatedHasBothHolds` | `AppShellProofs` |
| `WritesAgreeHolds` | `AppShellProofs` |

The invariant (`Inv`) is one condition on each tab by itself, `Sound`: whoever is
signed in has user and token; who waits for the user of a promise has a token to
set; a sign-in that has ended waits for none, and its page is the one shown, also
after Back and Forward.  It holds without a word on the other tabs, except that an
"auth-storage" that was never written means that all tabs are still as they were
loaded.  `WritesAgree` is then read off each step (`Agrees`).

### Meeting lobby page

| Theorem | Module |
|---|---|
| `LobbyPageTypeCorrect`: `TypeOK` | `MeetingLobbyProofs` |
| `PreviewIsLiveHolds` | `MeetingLobbyProofs` |
| `AskedOnlyAfterConsentHolds` | `MeetingLobbyProofs` |
| `OneAudioContextHolds` | `MeetingLobbyProofs` |
| `OnlyStraysRunHolds`, `HandsOverDevicesHolds` | `MeetingLobbyProofs` |

* Consent: before the meeting is verified nothing was asked for (`Untouched`), the
  site asks in one way, by its prompt or by the button (`OneWayToAsk`), and until
  the visitor has agreed there is no call but the listing of devices and nothing
  granted, shown or refused (`NotAskedYet`).
* `MeterInv`: the context the meter refers to is open as long as the lobby is
  shown, so an effect that runs again closes it before it makes another.
* `ShownIsLive`: the stream shown runs, though every switch stops the stream its
  closure captured.
* `KnowsShown`: a switch that was not outrun has captured the stream shown, so its
  answer stops the stream it replaces.  `OnlyStrays`: hence whatever else runs is
  the shown stream or has lost its place to an answer that could not know it, in the
  lobby and after it.

### Waiting page and panel

| Theorem | Module | Further assumptions |
|---|---|---|
| `WaitingIsListedHolds` | `LobbyPagesProofs` | `Requests` is finite |

Finiteness is used where the snapshot, a set, becomes a list on the panel.
The invariant says that whoever is spoken of, in a message, on the list or
in an answer, has sent the form, which is sent once (`SentOnce`); that a notice on
its way which says that a request is settled is true and stays so (`NoticeIsTrue`),
so a page that obeys it takes no waiting visitor off its list; and that from the
listing of a snapshot on, each request that waits is in what was listed, on its
way to the page, on its list or among its answers, or was overtaken
(`WaitingIsCovered`).  The module begins with lemmas on the elements of a sequence
after `Append`, `Tail`, `\o`, `SetToSeq` and `Without`.

### Data pages

| Theorem | Module |
|---|---|
| `TableIsAskedHolds` | `DataPagesProofs` |
| `DeletedNotListedHolds` | `DataPagesProofs` |

* `TableInv`, on the table and its open requests in the order they were made:
  those overtaken come first (`PrefixOvertaken`); the request made last has the
  key that `useUsers` remembers (`LastIsKey`), also once it was answered
  (`AskedIsKey`); the key is that of the parameters shown unless a deletion asked
  last (`KeyIsShown`).  So when no request is open the rows are those of the page,
  size and search that are set, unless the last answer was overtaken or is the one
  a deletion asked for.
* A deletion asks for the rows once (`RefetchOnce`), and answers from then on do
  not hold whom it removed (`CallsClean`, `RowsClean`, `Gone`): an answer that was
  computed earlier counts as overtaken when it arrives late.
* `SessionsInv`: a deletion that was confirmed has removed its row
  (`DeletedIsGone`), and the list it leads to was fetched afterwards
  (`ListIsFresh`).

`DeletedNotListed` is therefore about where the code asks anew.  It does not speak
of a table whose last answer was overtaken by one to a later request or whose last
request failed, nor of a list of sessions that was shown already when the deletion
was confirmed and is not fetched again, nor of a deletion whose answer was lost: in
each of these what was deleted may be listed.

### Meeting room

| Theorem | Module |
|---|---|
| `RoomTypeCorrect`: `TypeOK` | `MeetingRoomProofs` |
| `RecordingIsAttendedHolds` | `MeetingRoomProofs` |
| `StarterCanStopHolds` | `MeetingRoomProofs` |
| `BusyMeansCallHolds` | `MeetingRoomProofs` |

`RecordingIsAttended` is far from inductive: a host in the room is no use if it
will not stop what runs.  The invariant counts (`Covered`): the sessions that run
or may still be started by a call under way are at most as many as the tabs that
will stop one, if only by leaving (`Engaged`: busy with the button or showing a
recording, with no answer on its way that says otherwise), and the parting stops
the server has not handled.  A start adds one to both sides, a leaving tab turns
into its parting stop, and a stop that is obeyed takes one from both.  What breaks
the count is `slipped`: a recording tab that goes silently, a parting stop that is
refused or finds nothing because its start is still under way.  Once nothing runs
and no start is under way the count holds by itself (`IdleCovered`), so the slip is
forgotten.  The count needs `Orderly`:
an answer is waited for by at most one component and that component is waiting
(`Apart`, `InOrder`, `Awaited`), calls of earlier visits are told apart from this
one's, and only a host whose meeting is known has used the button (`Sound`).  The
constant `Tabs` is assumed finite for the sake of the count.

### What is only model-checked

* All liveness: `DecidedIsDeleted`, `DisconnectEndsWaiting`, `CapturedMovesOn`,
  `TranscribedMovesOn`, `OnlyABotHoldsAStop`, `LoadingEnds`, `JoinSettles`,
  `QuietLeaves`; the backends do not reason about fairness.
* The claims of section 4, which are refuted and so need no proof.

## 6. What is not modelled

* What LiveKit, Whisper, OpenRouter, the OAuth providers, the browser's media
  devices and the mail server do inside; each is an answer or a failure where the
  code calls it.
* Authentication middleware and ownership checks in front of the handlers: a
  request of the model is one that has passed them, or one the client sees refused.
* The state tokens of an OAuth login, in the memory of the server: the way to the
  provider and back is one step of `AppShell`, which ends on one of the two pages
  the callback redirects to; its other failures leave the application.
* The order of the entries of the browser's history, and Back and Forward to pages
  outside `Revisited`.
* Merging of speakers, the wording of prompts, the splitting of long transcripts
  and the backoff between retries: sequential algorithms on texts that change no
  state another part sees.  E-mail: one call that leaves no state.
* Meetings, users and roles on the server: one statement per request, on rows no
  other modelled part changes.  The forms that create or enter a meeting.
* In the meeting room: media controls, muting, tiles and the badge of unread
  messages, which show or forward what LiveKit keeps.
* Client code that no page uses: `frontend/utils/performance`, the contexts, the
  stores `meeting` and `ui`, `useMediaDevices`, `useVideoPreview`, `useApi`,
  `useLiveKit`, `usePanelToggle`, and `setToken` of the auth store.
* Layout, animation, sounds, and the level a microphone shows.
* Torn writes: two goroutines that write to one web socket at a time.  The model
  takes a write as atomic, and nothing in the repository says what else happens.

Simplifications inside the modelled parts: a React state change runs with the
effects of the render it causes; the pages' modules take a handler of the server
as one step, its inside being the subject of `Lobby` and `Summarizer`; reconnects
of a waiting page are not counted but may give up at any time; of a page's own
calls one is under way per tab (`AppShell`); the data pages are reached by links
and history, a typed address loads the application anew.

## 7. What is left

* The OAuth state cache with two callbacks for one token and a restart in
  between; the transcript's algorithms as functions with a declarative definition.
