-------------------------------- MODULE Lobby --------------------------------
(***************************************************************************)
(* The lobby of a meeting: visitors ask to join, the meeting's creator     *)
(* (the admin) approves or rejects them.  Four kinds of goroutine share    *)
(* Redis and the in-memory hub of web socket connections, and every Redis  *)
(* command, every critical section of the hub's mutex and every write on a *)
(* socket is an action of its own:                                         *)
(*                                                                         *)
(*   Requests   POST /lobby/request, the handler that creates request r    *)
(*   Cancels    DELETE /lobby/request, one handler per element             *)
(*   Conns      HandleVisitor, one per socket a waiting page opens         *)
(*   Admins     HandleAdmin, one per socket an admin page opens            *)
(*   Responses  handleAdminRespond, one per respond message received, and  *)
(*              the cleanup goroutine it starts                            *)
(*                                                                         *)
(* Redis may refuse a command (at most MaxFaults times) and the server may *)
(* crash (at most MaxCrashes times); keys expire.  The visitor page and    *)
(* the admin page are the other ends of the sockets.                       *)
(***************************************************************************)
EXTENDS Naturals, FiniteSets

CONSTANTS
    Requests, Cancels, Conns, Admins, Responses, Meetings, None,
    MeetingOf,     \* [Requests -> Meetings], LobbyRequest.MeetingCode
    AdminMeeting,  \* [Admins -> Meetings], meeting_code of the admin's socket
    About,         \* request_id each handler works on
    By,            \* [Responses -> Admins], the socket that sent the respond
    Act,           \* [Responses -> Decisions], what it asks for
    MaxFaults, MaxCrashes

Decisions == {"approved", "rejected"}

(* The handlers that work on one request.                                  *)
Workers == Requests \cup Cancels \cup Conns \cup Responses

(* The handlers that call CleanupLobbyRequest.                             *)
Cleaners == Cancels \cup Conns \cup Responses

Procs == Workers \cup Admins

ASSUME LobbyAssumption ==
    /\ MeetingOf \in [Requests -> Meetings]
    /\ AdminMeeting \in [Admins -> Meetings]
    /\ About \in [Workers -> Requests]
    /\ \A r \in Requests : About[r] = r
    /\ By \in [Responses -> Admins]
    /\ Act \in [Responses -> Decisions]
    /\ MaxFaults \in Nat /\ MaxCrashes \in Nat
    /\ None \notin Conns
    /\ Requests \cap (Cancels \cup Conns \cup Responses \cup Admins) = {}
    /\ Cancels \cap (Conns \cup Responses \cup Admins) = {}
    /\ Conns \cap (Responses \cup Admins) = {}
    /\ Responses \cap Admins = {}

VARIABLES
    status,    \* Redis key lobby:request:<r>: its status, or "absent"
    members,   \* Redis sets lobby:meeting:<code>:requests, all together
    visitors,  \* LobbyHub.visitors
    admins,    \* LobbyHub.admins, all meetings together
    pc,        \* where each handler is
    targets,   \* conns of NotifyAdmins, still to be written to
    vconn,     \* conn of NotifyVisitor
    known,     \* cancels whose first read found the request
    ids,       \* requestIDs of GetPendingRequests, still to be read
    entries,   \* pending requests GetPendingRequests has found
    sock,      \* client end of each socket
    view,      \* admin page's list, once it has handled all that was sent
    sent,      \* requests each admin socket was ever told of
    got,       \* verdicts the visitor page of r has received
    faults, crashes

redis == <<status, members>>
hub   == <<visitors, admins>>
local == <<targets, vconn, known, ids, entries>>
pages == <<sock, view, sent, got>>
env   == <<faults, crashes>>
vars  == <<redis, hub, pc, local, pages, env>>

Labels == {"init", "sadd", "copy", "write", "done", "failed", "dead",
           "get", "register", "reading", "recheck", "closed",
           "cget", "csrem", "cdel", "smembers", "listing", "busy",
           "uget", "uset", "usrem", "vlook", "vwrite", "sleep"}

Ended == {"init", "done", "closed", "failed", "dead"}

TypeOK ==
    /\ status \in [Requests -> Decisions \cup {"absent", "pending"}]
    /\ members \subseteq Requests
    /\ visitors \in [Requests -> Conns \cup {None}]
    /\ admins \subseteq Admins
    /\ pc \in [Procs -> Labels]
    /\ targets \in [Workers -> SUBSET Admins]
    /\ vconn \in [Responses -> Conns \cup {None}]
    /\ known \subseteq Cancels
    /\ ids \in [Admins -> SUBSET Requests]
    /\ entries \in [Admins -> SUBSET Requests]
    /\ sock \in [Conns \cup Admins -> {"idle", "up", "down"}]
    /\ view \in [Admins -> SUBSET Requests]
    /\ sent \in [Admins -> SUBSET Requests]
    /\ got \in [Requests -> SUBSET Decisions]
    /\ faults \in 0..MaxFaults
    /\ crashes \in 0..MaxCrashes

Init ==
    /\ status = [r \in Requests |-> "absent"]
    /\ members = {}
    /\ visitors = [r \in Requests |-> None]
    /\ admins = {}
    /\ pc = [p \in Procs |-> "init"]
    /\ targets = [p \in Workers |-> {}]
    /\ vconn = [t \in Responses |-> None]
    /\ known = {}
    /\ ids = [a \in Admins |-> {}]
    /\ entries = [a \in Admins |-> {}]
    /\ sock = [s \in Conns \cup Admins |-> "idle"]
    /\ view = [a \in Admins |-> {}]
    /\ sent = [a \in Admins |-> {}]
    /\ got = [r \in Requests |-> {}]
    /\ faults = 0
    /\ crashes = 0

Goto(p, label) == pc' = [pc EXCEPT ![p] = label]

(* A Redis command succeeds or is refused.                                 *)
Redis(ok) ==
    \/ ok /\ faults' = faults
    \/ ~ok /\ faults < MaxFaults /\ faults' = faults + 1

(* GetLobbyRequest: every error reads as a missing request.                *)
Read(r, ok) == IF ok THEN status[r] ELSE "absent"

(* Is the handler p in one of the stages ls of its work on request r ?     *)
At(r, ps, ls) == \E p \in ps : About[p] = r /\ pc[p] \in ls

(***************************************************************************)
(* POST /lobby/request: StoreLobbyRequest, then NotifyAdmins.  The creator *)
(* of the meeting gets a token at once and leaves no trace here.           *)
(***************************************************************************)
PostSet(r) ==
    /\ pc[r] = "init"
    /\ \E ok \in BOOLEAN :
         /\ Redis(ok)
         /\ status' = IF ok THEN [status EXCEPT ![r] = "pending"] ELSE status
         /\ Goto(r, IF ok THEN "sadd" ELSE "failed")
    /\ UNCHANGED <<members, hub, local, pages, crashes>>

(* SADD, then EXPIRE, which only moves the moment of SetExpires.           *)
PostAdd(r) ==
    /\ pc[r] = "sadd"
    /\ \E ok \in BOOLEAN :
         /\ Redis(ok)
         /\ members' = IF ok THEN members \cup {r} ELSE members
         /\ Goto(r, IF ok THEN "copy" ELSE "failed")
    /\ UNCHANGED <<status, hub, local, pages, crashes>>

(***************************************************************************)
(* LobbyHub.NotifyAdmins: copy the meeting's connections under the read    *)
(* lock, write to each outside it, evict those whose write fails.  A write *)
(* to a dead socket may also succeed, into a buffer nobody reads.          *)
(* HandleVisitor names the meeting of its query, where the waiting page    *)
(* puts the code it has asked to join with.                                *)
(***************************************************************************)
Tell(p, a) == IF p \in Requests THEN view[a] \cup {About[p]}
                                ELSE view[a] \ {About[p]}

(* A slip: admins whose page is still loading are left out.                *)
NotifyCopySkipsLoading(p) ==
    /\ pc[p] = "copy"
    /\ targets' = [targets EXCEPT ![p] =
         {a \in admins : /\ AdminMeeting[a] = MeetingOf[About[p]]
                        /\ pc[a] \in {"reading", "busy"}}]
    /\ Goto(p, "write")
    /\ UNCHANGED <<redis, hub, vconn, known, ids, entries, pages, env>>

NotifyCopy(p) ==
    /\ pc[p] = "copy"
    /\ targets' = [targets EXCEPT ![p] =
         {a \in admins : AdminMeeting[a] = MeetingOf[About[p]]}]
    /\ Goto(p, "write")
    /\ UNCHANGED <<redis, hub, vconn, known, ids, entries, pages, env>>

NotifyWrite(p, a) ==
    /\ pc[p] = "write"
    /\ a \in targets[p]
    /\ targets' = [targets EXCEPT ![p] = @ \ {a}]
    /\ \/ /\ sock[a] = "up"
          /\ view' = [view EXCEPT ![a] = Tell(p, a)]
          /\ sent' = IF p \in Requests
                     THEN [sent EXCEPT ![a] = @ \cup {About[p]}] ELSE sent
          /\ UNCHANGED admins
       \/ /\ sock[a] = "down"
          /\ admins' \in {admins, admins \ {a}}
          /\ UNCHANGED <<view, sent>>
    /\ UNCHANGED <<redis, visitors, pc, vconn, known, ids, entries,
                   sock, got, env>>

(* A slip: no cleanup goroutine after an approval.                         *)
NotifyEndForgetsCleanup(p) ==
    /\ pc[p] = "write"
    /\ targets[p] = {}
    /\ \/ p \in Requests \cup Cancels /\ Goto(p, "done")
       \/ p \in Conns /\ Goto(p, "closed")
       \/ /\ p \in Responses
          /\ pc' = [pc EXCEPT
               ![p] = IF Act[p] = "approved" THEN "done" ELSE "cget",
               ![By[p]] = "reading"]
    /\ UNCHANGED <<redis, hub, local, pages, env>>

(* After a respond the cleanup goroutine starts, five seconds late after   *)
(* an approval, and the admin's handler returns to its read loop.          *)
NotifyEnd(p) ==
    /\ pc[p] = "write"
    /\ targets[p] = {}
    /\ \/ p \in Requests \cup Cancels /\ Goto(p, "done")
       \/ p \in Conns /\ Goto(p, "closed")
       \/ /\ p \in Responses
          /\ pc' = [pc EXCEPT
               ![p] = IF Act[p] = "approved" THEN "sleep" ELSE "cget",
               ![By[p]] = "reading"]
    /\ UNCHANGED <<redis, hub, local, pages, env>>

(***************************************************************************)
(* CleanupLobbyRequest: GET, SREM if the key was there, DEL.  Refused      *)
(* commands are ignored.                                                   *)
(***************************************************************************)
(* A slip: only a request that still waits is cleaned up.                  *)
CleanupGetOnlyPending(p) ==
    /\ pc[p] = "cget"
    /\ \E ok \in BOOLEAN :
         /\ Redis(ok)
         /\ Goto(p, IF Read(About[p], ok) # "pending" THEN "done" ELSE "csrem")
    /\ UNCHANGED <<redis, hub, local, pages, crashes>>

CleanupGet(p) ==
    /\ pc[p] = "cget"
    /\ \E ok \in BOOLEAN :
         /\ Redis(ok)
         /\ Goto(p, IF Read(About[p], ok) = "absent" THEN "cdel" ELSE "csrem")
    /\ UNCHANGED <<redis, hub, local, pages, crashes>>

CleanupSRem(p) ==
    /\ pc[p] = "csrem"
    /\ \E ok \in BOOLEAN :
         /\ Redis(ok)
         /\ members' = IF ok THEN members \ {About[p]} ELSE members
    /\ Goto(p, "cdel")
    /\ UNCHANGED <<status, hub, local, pages, crashes>>

CleanupDel(p) ==
    /\ pc[p] = "cdel"
    /\ \E ok \in BOOLEAN :
         /\ Redis(ok)
         /\ status' = IF ok THEN [status EXCEPT ![About[p]] = "absent"]
                            ELSE status
    /\ Goto(p, IF p \in Conns \cup known THEN "copy" ELSE "done")
    /\ UNCHANGED <<members, hub, local, pages, crashes>>

(***************************************************************************)
(* DELETE /lobby/request, sent by the waiting page.                        *)
(***************************************************************************)
CancelGet(x) ==
    /\ pc[x] = "init"
    /\ pc[About[x]] = "done"
    /\ "approved" \notin got[About[x]]
    /\ \E ok \in BOOLEAN :
         /\ Redis(ok)
         /\ known' = IF Read(About[x], ok) = "absent" THEN known
                                                      ELSE known \cup {x}
    /\ Goto(x, "cget")
    /\ UNCHANGED <<redis, hub, targets, vconn, ids, entries, pages, crashes>>

(***************************************************************************)
(* HandleVisitor.                                                          *)
(***************************************************************************)
VisitorGet(c) ==
    /\ pc[c] = "get"
    /\ \E ok \in BOOLEAN :
         /\ Redis(ok)
         /\ IF Read(About[c], ok) = "absent"
            THEN Goto(c, "closed") /\ sock' = [sock EXCEPT ![c] = "down"]
            ELSE Goto(c, "register") /\ UNCHANGED sock
    /\ UNCHANGED <<redis, hub, local, view, sent, got, crashes>>

VisitorRegister(c) ==
    /\ pc[c] = "register"
    /\ visitors' = [visitors EXCEPT ![About[c]] = c]
    /\ Goto(c, "reading")
    /\ UNCHANGED <<redis, admins, local, pages, env>>

(* A slip: the deferred function leaves the hub alone.                     *)
VisitorUnregisterForgotten(c) ==
    /\ pc[c] = "reading"
    /\ sock[c] = "down"
    /\ Goto(c, "recheck")
    /\ UNCHANGED <<redis, hub, local, pages, env>>

(* ReadMessage fails; the deferred function deletes the hub entry of the   *)
(* request, whichever connection it holds.                                 *)
VisitorUnregister(c) ==
    /\ pc[c] = "reading"
    /\ sock[c] = "down"
    /\ visitors' = [visitors EXCEPT ![About[c]] = None]
    /\ Goto(c, "recheck")
    /\ UNCHANGED <<redis, admins, local, pages, env>>

(* A slip: the test of the status is the wrong way round.                  *)
VisitorRecheckInverted(c) ==
    /\ pc[c] = "recheck"
    /\ \E ok \in BOOLEAN :
         /\ Redis(ok)
         /\ Goto(c, IF Read(About[c], ok) # "pending" THEN "cget" ELSE "closed")
    /\ UNCHANGED <<redis, hub, local, pages, crashes>>

VisitorRecheck(c) ==
    /\ pc[c] = "recheck"
    /\ \E ok \in BOOLEAN :
         /\ Redis(ok)
         /\ Goto(c, IF Read(About[c], ok) = "pending" THEN "cget" ELSE "closed")
    /\ UNCHANGED <<redis, hub, local, pages, crashes>>

(***************************************************************************)
(* HandleAdmin, for sockets that passed the token and creator checks.      *)
(***************************************************************************)
AdminRegister(a) ==
    /\ pc[a] = "register"
    /\ admins' = admins \cup {a}
    /\ Goto(a, "smembers")
    /\ UNCHANGED <<redis, visitors, local, pages, env>>

AdminSMembers(a) ==
    /\ pc[a] = "smembers"
    /\ \E ok \in BOOLEAN :
         /\ Redis(ok)
         /\ ids' = [ids EXCEPT ![a] = IF ok
              THEN {r \in members : MeetingOf[r] = AdminMeeting[a]} ELSE {}]
    /\ Goto(a, "listing")
    /\ UNCHANGED <<redis, hub, targets, vconn, known, entries, pages, crashes>>

(* A slip: the listing drains the set it reads.                            *)
AdminGetDrains(a, r) ==
    /\ pc[a] = "listing"
    /\ r \in ids[a]
    /\ ids' = [ids EXCEPT ![a] = @ \ {r}]
    /\ members' = members \ {r}
    /\ \E ok \in BOOLEAN :
         /\ Redis(ok)
         /\ entries' = IF Read(r, ok) = "pending"
                       THEN [entries EXCEPT ![a] = @ \cup {r}] ELSE entries
    /\ UNCHANGED <<status, hub, pc, targets, vconn, known, pages, crashes>>

(* One GET of the loop; a request that cannot be read is dropped from the  *)
(* set.  Nothing ever puts an identifier back, so the SREM is folded in; a *)
(* refusal is that of the GET, of the SREM or of both.                     *)
AdminGet(a, r) ==
    /\ pc[a] = "listing"
    /\ r \in ids[a]
    /\ ids' = [ids EXCEPT ![a] = @ \ {r}]
    /\ \E ok \in BOOLEAN :
         /\ Redis(ok)
         /\ \/ members' = IF Read(r, ok) = "absent" THEN members \ {r} ELSE members
            \/ ~ok /\ members' = members
         /\ entries' = IF Read(r, ok) = "pending"
                       THEN [entries EXCEPT ![a] = @ \cup {r}] ELSE entries
    /\ UNCHANGED <<status, hub, pc, targets, vconn, known, pages, crashes>>

(* The snapshot replaces the list of the page.                             *)
AdminSnapshot(a) ==
    /\ pc[a] = "listing"
    /\ ids[a] = {}
    /\ Goto(a, "reading")
    /\ view' = [view EXCEPT ![a] = entries[a]]
    /\ sent' = [sent EXCEPT ![a] = @ \cup entries[a]]
    /\ entries' = [entries EXCEPT ![a] = {}]
    /\ UNCHANGED <<redis, hub, targets, vconn, known, ids, sock, got, env>>

AdminUnregister(a) ==
    /\ pc[a] = "reading"
    /\ sock[a] = "down"
    /\ admins' = admins \ {a}
    /\ Goto(a, "closed")
    /\ UNCHANGED <<redis, visitors, local, pages, env>>

(***************************************************************************)
(* handleAdminRespond.  The page may name any request it ever showed, its  *)
(* list outlives a socket, so the identifier need not be current nor even  *)
(* of this meeting; the page drops it from its list as it sends.           *)
(***************************************************************************)
(* A slip: the meeting of the request is not compared.                     *)
RespondGetAnyMeeting(t) ==
    LET a == By[t]  r == About[t] IN
    /\ pc[t] = "init"
    /\ pc[a] = "reading" /\ sock[a] = "up"
    /\ pc[r] # "init"
    /\ view' = [view EXCEPT ![a] = @ \ {r}]
    /\ \E ok \in BOOLEAN :
         /\ Redis(ok)
         /\ IF Read(r, ok) # "absent"
            THEN pc' = [pc EXCEPT ![t] = "uget", ![a] = "busy"]
            ELSE Goto(t, "done")
    /\ UNCHANGED <<redis, hub, local, sock, sent, got, crashes>>

(* An approval makes the visitor's token first, which may fail.            *)
RespondGet(t) ==
    LET a == By[t]  r == About[t] IN
    /\ pc[t] = "init"
    /\ pc[a] = "reading" /\ sock[a] = "up"
    /\ pc[r] # "init"
    /\ view' = [view EXCEPT ![a] = @ \ {r}]
    /\ \E ok \in BOOLEAN, token \in {TRUE, Act[t] = "rejected"} :
         /\ Redis(ok)
         /\ IF Read(r, ok) # "absent" /\ MeetingOf[r] = AdminMeeting[a] /\ token
            THEN pc' = [pc EXCEPT ![t] = "uget", ![a] = "busy"]
            ELSE Goto(t, "done")
    /\ UNCHANGED <<redis, hub, local, sock, sent, got, crashes>>

(* UpdateLobbyRequestStatus reads the request again.                       *)
UpdateGet(t) ==
    /\ pc[t] = "uget"
    /\ \E ok \in BOOLEAN :
         /\ Redis(ok)
         /\ IF Read(About[t], ok) # "absent"
            THEN Goto(t, "uset")
            ELSE pc' = [pc EXCEPT ![t] = "done", ![By[t]] = "reading"]
    /\ UNCHANGED <<redis, hub, local, pages, crashes>>

(* A slip: the action of the message is stored, not the status it means.   *)
UpdateSetStoresAction(t) ==
    /\ pc[t] = "uset"
    /\ Redis(TRUE)
    /\ status' = [status EXCEPT ![About[t]] =
                    IF Act[t] = "rejected" THEN "reject" ELSE "approve"]
    /\ Goto(t, IF Act[t] = "rejected" THEN "usrem" ELSE "vlook")
    /\ UNCHANGED <<members, hub, local, pages, crashes>>

(* A slip: the visitor is told of a decision that Redis has refused.       *)
UpdateSetIgnoresError(t) ==
    /\ pc[t] = "uset"
    /\ \E ok \in BOOLEAN :
         /\ Redis(ok)
         /\ status' = IF ok THEN [status EXCEPT ![About[t]] = Act[t]] ELSE status
    /\ Goto(t, IF Act[t] = "rejected" THEN "usrem" ELSE "vlook")
    /\ UNCHANGED <<members, hub, local, pages, crashes>>

(* SET, whatever the key has become since.                                 *)
UpdateSet(t) ==
    /\ pc[t] = "uset"
    /\ \E ok \in BOOLEAN :
         /\ Redis(ok)
         /\ status' = IF ok THEN [status EXCEPT ![About[t]] = Act[t]] ELSE status
         /\ IF ok
            THEN Goto(t, IF Act[t] = "rejected" THEN "usrem" ELSE "vlook")
            ELSE pc' = [pc EXCEPT ![t] = "done", ![By[t]] = "reading"]
    /\ UNCHANGED <<members, hub, local, pages, crashes>>

UpdateSRem(t) ==
    /\ pc[t] = "usrem"
    /\ \E ok \in BOOLEAN :
         /\ Redis(ok)
         /\ members' = IF ok THEN members \ {About[t]} ELSE members
    /\ Goto(t, "vlook")
    /\ UNCHANGED <<status, hub, local, pages, crashes>>

(* LobbyHub.NotifyVisitor: look the connection up, write outside the lock. *)
VisitorLook(t) ==
    /\ pc[t] = "vlook"
    /\ vconn' = [vconn EXCEPT ![t] = visitors[About[t]]]
    /\ Goto(t, IF visitors[About[t]] = None THEN "copy" ELSE "vwrite")
    /\ UNCHANGED <<redis, hub, targets, known, ids, entries, pages, env>>

VisitorWrite(t) ==
    LET c == vconn[t]  r == About[t] IN
    /\ pc[t] = "vwrite"
    /\ \/ /\ sock[c] = "up"
          /\ got' = [got EXCEPT ![r] = @ \cup {Act[t]}]
          /\ UNCHANGED visitors
       \/ /\ sock[c] = "down"
          /\ visitors' \in {visitors, [visitors EXCEPT ![r] = None]}
          /\ UNCHANGED got
    /\ vconn' = [vconn EXCEPT ![t] = None]
    /\ Goto(t, "copy")
    /\ UNCHANGED <<redis, admins, targets, known, ids, entries,
                   sock, view, sent, env>>

SleepEnds(t) ==
    /\ pc[t] = "sleep"
    /\ Goto(t, "cget")
    /\ UNCHANGED <<redis, hub, local, pages, env>>

(***************************************************************************)
(* The pages.  A waiting page that was answered "pending" opens a socket,  *)
(* and another when that one closed, as long as it shows "pending".        *)
(***************************************************************************)
VisitorConnect(c) ==
    LET r == About[c] IN
    /\ sock[c] = "idle"
    /\ pc[r] = "done"
    /\ got[r] = {}
    /\ ~ At(r, Cancels, {"done"})
    /\ \A d \in Conns : About[d] = r => sock[d] # "up"
    /\ sock' = [sock EXCEPT ![c] = "up"]
    /\ Goto(c, "get")
    /\ UNCHANGED <<redis, hub, local, view, sent, got, env>>

AdminConnect(a) ==
    /\ sock[a] = "idle"
    /\ sock' = [sock EXCEPT ![a] = "up"]
    /\ Goto(a, "register")
    /\ UNCHANGED <<redis, hub, local, view, sent, got, env>>

(* A tab closes or the network fails; the server has not noticed yet.      *)
Drop(s) ==
    /\ sock[s] = "up"
    /\ sock' = [sock EXCEPT ![s] = "down"]
    /\ UNCHANGED <<redis, hub, pc, local, view, sent, got, env>>

(***************************************************************************)
(* Expiry.  A key lives one hour from its last SET, so a decided one never *)
(* expires under the five seconds of its response; the set of a meeting is *)
(* renewed after each key is stored and outlives its pending keys.         *)
(***************************************************************************)
KeyExpires(r) ==
    /\ status[r] # "absent"
    /\ pc[r] \in Ended
    /\ status[r] = "pending" \/ ~ At(r, Responses, Labels \ Ended)
    /\ status' = [status EXCEPT ![r] = "absent"]
    /\ UNCHANGED <<members, hub, pc, local, pages, env>>

SetExpires(m) ==
    /\ \E r \in members : MeetingOf[r] = m
    /\ \A r \in Requests : MeetingOf[r] = m => status[r] # "pending"
    /\ members' = {r \in members : MeetingOf[r] # m}
    /\ UNCHANGED <<status, hub, pc, local, pages, env>>

(* The server stops: goroutines, hub and sockets are gone, Redis stays.    *)
Crash ==
    /\ crashes < MaxCrashes
    /\ crashes' = crashes + 1
    /\ pc' = [p \in Procs |-> IF pc[p] \in Ended THEN pc[p] ELSE "dead"]
    /\ visitors' = [r \in Requests |-> None]
    /\ admins' = {}
    /\ sock' = [s \in Conns \cup Admins |->
                  IF sock[s] = "up" THEN "down" ELSE sock[s]]
    /\ UNCHANGED <<redis, local, view, sent, got, faults>>

(***************************************************************************)
(* The steps of one handler, each of which the scheduler lets run on.      *)
(***************************************************************************)
PostStep(r) == PostSet(r) \/ PostAdd(r)

CleanupStep(p) == CleanupGet(p) \/ CleanupSRem(p) \/ CleanupDel(p)

NotifyStep(p) == NotifyCopy(p) \/ (\E a \in Admins : NotifyWrite(p, a))
                               \/ NotifyEnd(p)

VisitorStep(c) == VisitorGet(c) \/ VisitorRegister(c)
                  \/ VisitorUnregister(c) \/ VisitorRecheck(c)

AdminStep(a) == AdminRegister(a) \/ AdminSMembers(a)
                \/ (\E r \in Requests : AdminGet(a, r))
                \/ AdminSnapshot(a) \/ AdminUnregister(a)

RespondStep(t) == UpdateGet(t) \/ UpdateSet(t) \/ UpdateSRem(t)
                  \/ VisitorLook(t) \/ VisitorWrite(t) \/ SleepEnds(t)

ServerStep ==
    \/ \E r \in Requests : PostStep(r)
    \/ \E p \in Cleaners : CleanupStep(p)
    \/ \E p \in Workers : NotifyStep(p)
    \/ \E c \in Conns : VisitorStep(c)
    \/ \E a \in Admins : AdminStep(a)
    \/ \E t \in Responses : RespondStep(t)

PageStep ==
    \/ \E x \in Cancels : CancelGet(x)
    \/ \E c \in Conns : VisitorConnect(c)
    \/ \E a \in Admins : AdminConnect(a)
    \/ \E s \in Conns \cup Admins : Drop(s)
    \/ \E t \in Responses : RespondGet(t)

Next ==
    \/ ServerStep
    \/ PageStep
    \/ \E r \in Requests : KeyExpires(r)
    \/ \E m \in Meetings : SetExpires(m)
    \/ Crash

Spec == Init /\ [][Next]_vars

(* The Go scheduler runs every handler that can take a step; nothing makes *)
(* a page act, a key expire or the server crash.                           *)
Fairness ==
    /\ \A r \in Requests : WF_vars(pc[r] # "init" /\ PostStep(r))
    /\ \A p \in Cleaners : WF_vars(CleanupStep(p))
    /\ \A p \in Workers : WF_vars(NotifyStep(p))
    /\ \A c \in Conns : WF_vars(VisitorStep(c))
    /\ \A a \in Admins : WF_vars(AdminStep(a))
    /\ \A t \in Responses : WF_vars(RespondStep(t))

FairSpec == Spec /\ Fairness
=============================================================================
