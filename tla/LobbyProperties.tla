--------------------------- MODULE LobbyProperties ---------------------------
(***************************************************************************)
(* What the lobby promises, and the claims of its comments.                *)
(***************************************************************************)
EXTENDS Lobby

(* Neither Redis nor the server has failed so far.                         *)
Untroubled == faults = 0 /\ crashes = 0

(* Between the SREM and the DEL of a CleanupLobbyRequest.                  *)
Leaving(r) == At(r, Cleaners, {"cdel"})

(* The stages of a response that has written its decision to Redis.        *)
AfterSet == {"usrem", "vlook", "vwrite", "copy", "write", "sleep",
             "cget", "csrem", "cdel"}

(* A request the page holds an answer for and that waits for a verdict.    *)
Waiting(r) == status[r] = "pending" /\ pc[r] = "done"

(* An admin socket in its read loop, as far as both ends know.             *)
Watching(a, r) == /\ pc[a] = "reading" /\ sock[a] = "up"
                  /\ AdminMeeting[a] = MeetingOf[r]

(* A pending request can be found through the set of its meeting, except   *)
(* while its POST is about to add it or a cleanup is about to delete it:   *)
(* SET comes before SADD in StoreLobbyRequest, SREM before DEL in          *)
(* CleanupLobbyRequest, and no listing throws a live request out.          *)
IndexComplete ==
    \A r \in Requests :
        Untroubled /\ status[r] = "pending" =>
            r \in members \/ pc[r] = "sadd" \/ Leaving(r)

(* The hub never keeps a connection whose handler has left its read loop:  *)
(* no reference to a closed socket survives HandleVisitor or HandleAdmin.  *)
HubHoldsLiveHandlers ==
    /\ \A r \in Requests : visitors[r] # None =>
          About[visitors[r]] = r /\ pc[visitors[r]] = "reading"
    /\ \A a \in admins : pc[a] \in {"smembers", "listing", "reading", "busy"}

(* Whatever races with a respond, a key it left approved or rejected has a *)
(* cleanup still to come: a decided request never stays in Redis for the   *)
(* hour of its TTL, even if another handler deleted it before the SET.     *)
DecidedHasCleanup ==
    \A r \in Requests :
        Untroubled /\ status[r] \in Decisions => At(r, Responses, AfterSet)

(* A visitor page shows a verdict only if an admin of that very meeting    *)
(* gave it: the respond that carried it came over a socket of the meeting  *)
(* the request was made for, whatever identifier the message named.        *)
VerdictFromOwnHost ==
    \A r \in Requests : \A d \in got[r] :
        \E t \in Responses :
            /\ About[t] = r /\ Act[t] = d /\ pc[t] # "init"
            /\ AdminMeeting[By[t]] = MeetingOf[r]

(* Once stored, a request is pending at most once: decided or deleted, it  *)
(* never waits again, although UpdateLobbyRequestStatus can write a key    *)
(* back that a cleanup has just deleted.                                   *)
NeverPendingAgain ==
    [][\A r \in Requests :
         pc[r] # "init" /\ status[r] # "pending" => status'[r] # "pending"]_vars

(* Registering before listing loses nothing on the wire: an admin socket   *)
(* in its read loop was told of every request that waits, by the snapshot  *)
(* or by new_request, however the connect and the POST overlap.            *)
EveryWaitingWasSent ==
    \A r \in Requests, a \in Admins :
        Untroubled /\ Waiting(r) /\ Watching(a, r) =>
            r \in sent[a] \/ Leaving(r)

(* A key that an approval or a rejection left in Redis is deleted.         *)
DecidedIsDeleted ==
    \A r \in Requests : status[r] \in Decisions ~> status[r] = "absent"

(* "When the connection closes (e.g., tab closed), the request is          *)
(* automatically cleaned up": it does not stay pending.                    *)
DisconnectEndsWaiting ==
    \A c \in Conns :
        pc[c] = "reading" /\ sock[c] = "down" ~> status[About[c]] # "pending"

(* The store and the goroutines of handleAdminRespond as the waiting room  *)
(* they make up: a request is in store as its key says once its POST has   *)
(* run, a response is heard until its SET and stored until NotifyVisitor   *)
(* is done with it.                                                        *)
Stage == [r \in Requests |-> IF pc[r] = "init" THEN "new" ELSE status[r]]

PhaseAt(label) == CASE label = "init" -> "none"
                    [] label \in {"uget", "uset"} -> "heard"
                    [] label \in {"usrem", "vlook", "vwrite"} -> "stored"
                    [] OTHER -> "over"

Phase == [t \in Responses |-> PhaseAt(pc[t])]

OwnAnswers == {t \in Responses : AdminMeeting[By[t]] = MeetingOf[About[t]]}

Room == INSTANCE WaitingRoom
          WITH Answers <- Responses, Own <- OwnAnswers,
               stage <- Stage, phase <- Phase, told <- got

(* The lobby implements the waiting room: whatever its handlers interleave *)
(* with, only the host's answers to a request in store are carried out, a  *)
(* visitor is told an answer once and only after Redis has it, and what a  *)
(* cleanup deleted comes back only as an answer that had been heard.       *)
FollowsWaitingRoom == Room!RoomSpec

-----------------------------------------------------------------------------
(* Claims the code does not keep.                                          *)

(* The request is cleaned up when the visitor's connection closes, not     *)
(* while another connection of the same visitor waits for the verdict.     *)
DisconnectSparesReconnected ==
    [][\A c \in Conns :
         pc[c] = "cdel" /\ pc'[c] = "copy" /\ status[About[c]] = "pending" =>
           ~ \E d \in Conns : /\ About[d] = About[c]
                              /\ pc[d] = "reading" /\ sock[d] = "up"]_vars

-----------------------------------------------------------------------------
(* Further claims it does not keep; the README names the instance on which *)
(* each fails.                                                             *)

(* The hub "tracks [...] visitor connections per request": a visitor whose *)
(* socket is up and whose handler waits in its read loop can be reached.   *)
HubTracksVisitor ==
    \A c \in Conns :
        pc[c] = "reading" /\ sock[c] = "up" => visitors[About[c]] = c

(* The delay before the cleanup gives the visitor time to receive the      *)
(* token: it is not over while a connected visitor still waits for it.     *)
DelayDeliversToken ==
    [][\A t \in Responses :
         pc[t] = "cdel" /\ pc'[t] = "done" /\ status[About[t]] = "approved" =>
           ~ \E c \in Conns :
               /\ About[c] = About[t] /\ pc[c] = "reading" /\ sock[c] = "up"
               /\ visitors[About[t]] = c /\ got[About[t]] = {}]_vars

(* "On connect: sends all current pending requests", and pushes the later  *)
(* ones: the page of an admin in its read loop lists every request that    *)
(* waits and that nobody has responded to or started to cancel.            *)
PageListsEveryWaiting ==
    \A r \in Requests, a \in Admins :
        /\ Untroubled /\ Waiting(r) /\ Watching(a, r)
        /\ ~ At(r, Responses \cup Cancels, Labels \ {"init"})
        /\ ~ At(r, Conns, {"csrem", "cdel"})
        => r \in view[a]

(* GetPendingRequests takes out of the set only what "expired or was       *)
(* deleted".                                                               *)
ListingDropsOnlyGone ==
    [][\A a \in Admins : \A r \in Requests :
         pc[a] = "listing" /\ ids'[a] # ids[a] /\ r \in members \ members' =>
            status[r] = "absent"]_vars
=============================================================================
