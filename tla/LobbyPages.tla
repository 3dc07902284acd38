------------------------------ MODULE LobbyPages -----------------------------
(***************************************************************************)
(* Both ends of the lobby's sockets: the waiting page of each visitor and  *)
(* the panel of a host's meeting room, over connections that break.  The   *)
(* server's handlers are single steps here; Lobby has their inside.        *)
(***************************************************************************)
EXTENDS Naturals, Sequences, SequencesExt

CONSTANTS
    Requests,
    Seconds,     \* redirectCountdown
    MaxDrops,    \* bound: connections that break
    MaxWire,     \* bound: messages on their way to the host
    Restless,    \* bound: visitors who cancel, or whose connection breaks
    Metered      \* bound: visitors whose level meter may have been left running

ASSUME PagesAssumption == {Seconds, MaxDrops, MaxWire} \subseteq Nat /\ Restless \subseteq Requests

VARIABLES
    status,      \* the request in Redis
    hub,         \* requests with a registered visitor
    ending,      \* HandleVisitor calls whose socket has closed, per request
    page,        \* the visitor's page
    socket,      \* the host's socket: down, listing, writing, up
    snapshot,    \* what HandleAdmin has listed
    wire,        \* messages to the host's page
    out,         \* responds of the host's page
    requests,    \* the list in the panel
    prevCount,   \* prevCountRef
    toast,       \* hasNewRequests
    overtaken,   \* requests taken off the list by an older snapshot
    drops

server == <<status, hub, ending>>
panel  == <<requests, prevCount, toast, overtaken>>
host   == <<socket, snapshot, wire, out, panel>>
vars   == <<server, page, host, drops>>

NewPage == [at |-> "form", sock |-> "closed", left |-> Seconds,
            cancelling |-> "no", metered |-> FALSE, mail |-> <<>>]

Init ==
    /\ status = [r \in Requests |-> "none"] /\ hub = {}
    /\ ending = [r \in Requests |-> 0]
    /\ page = [r \in Requests |-> NewPage]
    /\ socket = "down" /\ snapshot = {} /\ wire = <<>> /\ out = <<>>
    /\ requests = <<>> /\ prevCount = 0 /\ toast = FALSE
    /\ overtaken = {} /\ drops = 0

Update(r, p) == page' = [page EXCEPT ![r] = p]

NotifyAdmins(type, r) ==
    /\ Len(wire) < MaxWire
    /\ wire' = IF socket = "down" THEN wire ELSE Append(wire, [type |-> type, about |-> {r}])

-----------------------------------------------------------------------------
(* The visitor.                                                            *)

RequestToJoin(r) ==
    /\ page[r].at = "form"
    /\ Update(r, [page[r] EXCEPT !.at = "pending", !.sock = "connecting"])
    /\ status' = [status EXCEPT ![r] = "pending"]
    /\ NotifyAdmins("new_request", r)
    /\ UNCHANGED <<hub, ending, socket, snapshot, out, panel, drops>>

(* HandleVisitor lets in whoever names a stored request, decided or not.   *)
Connect(r) ==
    /\ page[r].sock = "connecting" /\ status[r] # "gone"
    /\ Update(r, [page[r] EXCEPT !.sock = "up"])
    /\ hub' = hub \cup {r}
    /\ UNCHANGED <<status, ending, host, drops>>

(* Ten attempts in a row that did not open, and the page gives up.  While  *)
(* it tries, attempts that fail change nothing; nor do those the server    *)
(* opens and closes because the request is gone, which start the count anew*)
GivesUp(r) ==
    /\ page[r].sock = "connecting"
    /\ Update(r, [page[r] EXCEPT !.sock = "closed"])
    /\ UNCHANGED <<server, host, drops>>

(* The page's end of its socket, when the page goes to another place.      *)
Closed(r, place) ==
    [NewPage EXCEPT !.at = place, !.cancelling = page[r].cancelling]

GoTo(r, place) ==
    /\ Update(r, Closed(r, place))
    /\ ending' = IF page[r].sock = "up" THEN [ending EXCEPT ![r] = @ + 1] ELSE ending

(* shouldReconnect asks whether the visitor still waits.                   *)
ConnectionBreaks(r) ==
    /\ r \in Restless /\ page[r].sock = "up" /\ drops < MaxDrops
    /\ drops' = drops + 1
    /\ Update(r, [page[r] EXCEPT !.mail = <<>>,
                                 !.sock = IF page[r].at = "pending" THEN "connecting" ELSE "closed"])
    /\ ending' = [ending EXCEPT ![r] = @ + 1]
    /\ UNCHANGED <<status, hub, host>>

(* The deferred end of HandleVisitor: a visitor who went while the request *)
(* was pending has cancelled it.                                           *)
HandlerEnds(r) ==
    /\ ending[r] > 0
    /\ ending' = [ending EXCEPT ![r] = @ - 1]
    /\ hub' = hub \ {r}
    /\ IF status[r] = "pending"
          THEN /\ status' = [status EXCEPT ![r] = "gone"]
               /\ NotifyAdmins("visitor_cancelled", r)
          ELSE UNCHANGED <<status, wire>>
    /\ UNCHANGED <<page, socket, snapshot, out, panel, drops>>

PendingShown(r) == page[r].at = "pending"
RejectedShown(r) == page[r].at = "rejected"

(* A token leads into the room, even from the page that says no.           *)
Message(r) ==
    /\ PendingShown(r) \/ RejectedShown(r)
    /\ page[r].mail # <<>>
    /\ IF Head(page[r].mail) = "approved" THEN GoTo(r, "room")
       ELSE /\ Update(r, [page[r] EXCEPT !.at = "rejected", !.mail = Tail(@)])
            /\ UNCHANGED ending
    /\ UNCHANGED <<status, hub, host, drops>>

HandleCancel(r) ==
    /\ r \in Restless /\ page[r].cancelling = "no"
    /\ PendingShown(r) \/ RejectedShown(r)
    /\ Update(r, [page[r] EXCEPT !.cancelling = "sent"])
    /\ UNCHANGED <<server, host, drops>>

(* The server deletes the request, or fails.                               *)
CancelRequest(r) ==
    /\ page[r].cancelling = "sent"
    /\ Update(r, [page[r] EXCEPT !.cancelling = "answered"])
    /\ \/ /\ status' = [status EXCEPT ![r] = "gone"]
          /\ IF status[r] = "gone" THEN UNCHANGED wire ELSE NotifyAdmins("visitor_cancelled", r)
       \/ UNCHANGED <<status, wire>>
    /\ UNCHANGED <<hub, ending, socket, snapshot, out, panel, drops>>

(* Either answer leads away from whatever the tab shows by then, the       *)
(* meeting room included.                                                  *)
CancelAnswered(r) ==
    /\ page[r].cancelling = "answered"
    /\ Update(r, [Closed(r, "home") EXCEPT !.cancelling = "no"])
    /\ ending' = IF page[r].sock = "up" THEN [ending EXCEPT ![r] = @ + 1] ELSE ending
    /\ UNCHANGED <<status, hub, host, drops>>

(* A level meter that a late switch of devices has left running hears      *)
(* something, or falls silent.  While it hears something it renders the    *)
(* page at every frame, each time with another onCancel.                   *)
MeterHears(r) ==
    /\ r \in Metered /\ RejectedShown(r)
    /\ Update(r, [page[r] EXCEPT !.metered = ~@])
    /\ UNCHANGED <<server, host, drops>>

(* A slip: the countdown waits until the socket is closed.                 *)
TickOnceClosed(r) ==
    /\ RejectedShown(r) /\ page[r].sock = "closed"
    /\ IF page[r].left > 0
          THEN Update(r, [page[r] EXCEPT !.left = @ - 1]) /\ UNCHANGED ending
          ELSE GoTo(r, "home")
    /\ UNCHANGED <<status, hub, host, drops>>

(* The countdown of the page that says no.  Its effect depends on onCancel:*)
(* each rendering of the page sets the timer of one second anew.           *)
Tick(r) ==
    /\ RejectedShown(r)
    /\ IF page[r].left > 0
          THEN Update(r, [page[r] EXCEPT !.left = @ - 1]) /\ UNCHANGED ending
          ELSE GoTo(r, "home")
    /\ UNCHANGED <<status, hub, host, drops>>

-----------------------------------------------------------------------------
(* The host's panel.                                                       *)

HostConnects ==
    /\ socket = "down" /\ socket' = "listing"
    /\ UNCHANGED <<server, page, snapshot, wire, out, panel, drops>>

GetPendingRequests ==
    /\ socket = "listing" /\ socket' = "writing"
    /\ snapshot' = {r \in Requests : status[r] = "pending"}
    /\ UNCHANGED <<server, page, wire, out, panel, drops>>

WriteSnapshot ==
    /\ socket = "writing" /\ Len(wire) < MaxWire /\ socket' = "up"
    /\ wire' = Append(wire, [type |-> "pending_requests", about |-> snapshot])
    /\ snapshot' = {}
    /\ UNCHANGED <<server, page, out, panel, drops>>

(* What is on its way is lost; what is sent later waits for the socket.    *)
HostDrops ==
    /\ socket # "down" /\ drops < MaxDrops
    /\ socket' = "down" /\ snapshot' = {} /\ wire' = <<>> /\ out' = <<>>
    /\ drops' = drops + 1
    /\ UNCHANGED <<server, page, panel>>

(* requests.filter, as a function of the length that was filtered.         *)
Without(rs) ==
    LET kept[n \in 0 .. Len(requests)] ==
            IF n = 0 THEN <<>>
            ELSE IF requests[n] \in rs THEN kept[n - 1]
            ELSE Append(kept[n - 1], requests[n])
    IN  kept[Len(requests)]

(* A slip: a snapshot only takes requests off the list.                    *)
SnapshotKeepsOthers(rs) ==
    /\ requests' = SelectSeq(requests, LAMBDA r : r \in rs)
    /\ prevCount' = Len(requests')
    /\ overtaken' = (overtaken \cup (ToSet(requests) \ rs)) \ rs
    /\ UNCHANGED toast

PendingRequests(rs) ==
    /\ requests' = SetToSeq(rs)
    /\ prevCount' = Len(requests')
    /\ overtaken' = (overtaken \cup ToSet(requests)) \ rs
    /\ UNCHANGED toast

HandleNewRequest == toast' = TRUE

(* The count is that of the last message: after an answer of this page it  *)
(* is too high, and the next visitor comes in silence.                     *)
NewRequest(rs) ==
    /\ requests' = requests \o SetToSeq(rs)
    /\ prevCount' = Len(requests')
    /\ overtaken' = overtaken \ rs
    /\ IF Len(requests') > prevCount THEN HandleNewRequest ELSE UNCHANGED toast

RequestResolved(rs) ==
    /\ requests' = Without(rs)
    /\ prevCount' = Len(requests')
    /\ UNCHANGED <<toast, overtaken>>

OnMessage ==
    /\ wire # <<>> /\ wire' = Tail(wire)
    /\ LET m == Head(wire)
       IN  \/ m.type = "pending_requests" /\ PendingRequests(m.about)
           \/ m.type = "new_request" /\ NewRequest(m.about)
           \/ m.type \in {"request_resolved", "visitor_cancelled"} /\ RequestResolved(m.about)
    /\ UNCHANGED <<server, page, socket, snapshot, out, drops>>

(* setTimeout in handleNewRequest; the timer of an earlier visitor may hide*)
(* a toast as soon as it is shown.                                         *)
ToastEnds ==
    /\ toast /\ toast' = FALSE
    /\ UNCHANGED <<server, page, socket, snapshot, wire, out, requests, prevCount, overtaken, drops>>

PanelShown == requests # <<>>
ItemShown(r) == PanelShown /\ r \in ToSet(requests)
ToastShown == PanelShown /\ toast

HandleRespond(r, action) ==
    /\ ItemShown(r)
    /\ out' = Append(out, [about |-> r, action |-> action])
    /\ requests' = Without({r})
    /\ UNCHANGED <<server, page, socket, snapshot, wire, prevCount, toast, overtaken, drops>>

HandleAdmitAll ==
    /\ Len(requests) > 1
    /\ out' = out \o [i \in 1..Len(requests) |-> [about |-> requests[i], action |-> "approved"]]
    /\ requests' = <<>>
    /\ UNCHANGED <<server, page, socket, snapshot, wire, prevCount, toast, overtaken, drops>>

(* A verdict for a visitor who is not registered is dropped, and a dead    *)
(* connection with it.                                                     *)
NotifyVisitor(r, verdict) ==
    IF r \in hub /\ page[r].sock = "up"
    THEN Update(r, [page[r] EXCEPT !.mail = Append(@, verdict)]) /\ UNCHANGED hub
    ELSE hub' = hub \ {r} /\ UNCHANGED page

HandleAdminRespond ==
    /\ socket = "up" /\ out # <<>> /\ out' = Tail(out)
    /\ LET r == Head(out).about
           action == Head(out).action
       IN  IF status[r] = "gone" THEN UNCHANGED <<status, hub, page, wire>>
           ELSE /\ status' = [status EXCEPT ![r] = action]
                /\ NotifyVisitor(r, action)
                /\ NotifyAdmins("request_resolved", r)
    /\ UNCHANGED <<ending, socket, snapshot, panel, drops>>

(* At once after a rejection, after a delay following an approval.         *)
Cleanup(r) ==
    /\ status[r] \in {"approved", "rejected"}
    /\ status' = [status EXCEPT ![r] = "gone"]
    /\ UNCHANGED <<hub, ending, page, host, drops>>

-----------------------------------------------------------------------------
VisitorStep(r) ==
    \/ RequestToJoin(r) \/ Connect(r) \/ GivesUp(r) \/ ConnectionBreaks(r)
    \/ Message(r) \/ HandleCancel(r) \/ CancelAnswered(r) \/ MeterHears(r)

ServerStep(r) == HandlerEnds(r) \/ CancelRequest(r) \/ Cleanup(r)

HostStep ==
    \/ HostConnects \/ GetPendingRequests \/ WriteSnapshot \/ HostDrops
    \/ OnMessage \/ ToastEnds \/ HandleAdmitAll \/ HandleAdminRespond
    \/ \E r \in Requests, action \in {"approved", "rejected"} : HandleRespond(r, action)

Next == HostStep \/ \E r \in Requests : VisitorStep(r) \/ ServerStep(r) \/ Tick(r)

UndisturbedTick(r) == ~page[r].metered /\ Tick(r)

(* A browser's timers run while their page is shown, unless its effect is  *)
(* renewed before they fire.                                               *)
Spec == Init /\ [][Next]_vars /\ \A r \in Requests : WF_vars(UndisturbedTick(r))

-----------------------------------------------------------------------------
(* The host sees everyone who waits: on the list, in a message on its way, *)
(* or as one the host has just answered, unless a snapshot that is older   *)
(* than the list took the request off it.                                  *)
WaitingIsListed ==
    \A r \in Requests :
        status[r] = "pending" /\ socket = "up" /\ r \notin overtaken =>
            \/ ItemShown(r)
            \/ \E i \in DOMAIN wire :
                  wire[i].type \in {"pending_requests", "new_request"} /\ r \in wire[i].about
            \/ \E i \in DOMAIN out : out[i].about = r

(* "Redirecting in ...": a visitor who was turned down is led away, if the *)
(* level meter falls silent in the end.                                    *)
QuietLeaves ==
    \A r \in Requests :
        <>[]~page[r].metered => (RejectedShown(r) ~> ~RejectedShown(r))

(* Claims the code does not keep.                                          *)

(* "Redirecting in ... seconds".                                           *)
RejectedLeaves == \A r \in Requests : RejectedShown(r) ~> ~RejectedShown(r)

(* "You'll join the meeting once the host approves your request": while it *)
(* is shown, the host still can, or has.                                   *)
WaitingIsKnown ==
    \A r \in Requests : PendingShown(r) => status[r] # "gone" \/ page[r].mail # <<>>

(* "Reconnecting..." is shown while the page does try.                     *)
ReconnectingIsTrue == \A r \in Requests : PendingShown(r) => page[r].sock # "closed"

(* A visitor who was turned down does not enter.                           *)
DeniedIsFinal == [][\A r \in Requests : RejectedShown(r) => page'[r].at # "room"]_vars
=============================================================================
