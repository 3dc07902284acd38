---------------------------- MODULE SessionPages ----------------------------
(***************************************************************************)
(* A user's summarizer sessions: the list of them, the page of one, and    *)
(* its deletion, whose answer may find the user elsewhere.                 *)
(***************************************************************************)
EXTENDS PagedRows, SequencesExt

CONSTANTS
    SessionIds,  \* numbered in the order in which they started
    PageSize,
    MaxRemovals  \* bound: deletions under way

ASSUME SessionsAssumption ==
    SessionIds \subseteq Nat /\ PageSize \in Nat \ {0} /\ MaxRemovals \in Nat

VARIABLES
    stored,   \* the user's rows of the sessions table
    at,       \* the page shown: "sessions", "session", "users" or "elsewhere"
    list,     \* the list's state, None while it is not shown
    detail,   \* the state of a session's page, None while it is not shown
    removals  \* deletions asked for and not answered, of this page or an earlier one

sessions == <<stored, at, list, detail, removals>>

(* from: the session whose deletion led here.  A list is asked for when it *)
(* is opened or turned; leaving it aborts the request.                     *)
AskList(page) == [page |-> page, served |-> FALSE, rows |-> {}, pages |-> 0]

NewList(from) ==
    [page |-> 1, loading |-> TRUE, rows |-> {}, pages |-> 1, call |-> AskList(1),
     failed |-> FALSE, from |-> from]

NewDetail(id) ==
    [id |-> id, loading |-> TRUE, session |-> None, error |-> FALSE, call |-> "sent",
     modal |-> FALSE, deleting |-> FALSE, deleteError |-> FALSE]

(* A page that is left: its request is aborted, its deletion goes on.      *)
Orphans == [i \in DOMAIN removals |-> [removals[i] EXCEPT !.here = FALSE]]

(* The way to a page: what is shown is mounted anew.                       *)
GoTo(page, id, from, left) ==
    /\ at' = page
    /\ list' = IF page = "sessions" THEN NewList(from) ELSE None
    /\ detail' = IF page = "session" THEN NewDetail(id) ELSE None
    /\ removals' = left

-----------------------------------------------------------------------------
(* The list.                                                               *)

ListShown == at = "sessions" /\ ~list.loading

OpenSession(id) ==
    /\ ListShown /\ id \in list.rows
    /\ GoTo("session", id, None, Orphans)
    /\ UNCHANGED stored

(* The buttons are there only if there is more than one page.              *)
TurnPage(page) ==
    /\ ListShown /\ list.pages > 1
    /\ \/ page = list.page - 1 /\ page >= 1
       \/ page = list.page + 1 /\ page <= list.pages
    /\ list' = [list EXCEPT !.page = page, !.loading = TRUE, !.call = AskList(page)]
    /\ UNCHANGED <<stored, at, detail, removals>>

GetSessions ==
    /\ at = "sessions" /\ list.call # None /\ ~list.call.served
    /\ list' = [list EXCEPT !.call.served = TRUE,
                            !.call.rows = PageOf(stored, list.call.page, PageSize),
                            !.call.pages = TotalPages(stored, PageSize)]
    /\ UNCHANGED <<stored, at, detail, removals>>

ListAnswered ==
    /\ at = "sessions" /\ list.call # None /\ list.call.served
    /\ list' = [list EXCEPT !.rows = list.call.rows, !.pages = list.call.pages,
                            !.loading = FALSE, !.call = None, !.failed = FALSE]
    /\ UNCHANGED <<stored, at, detail, removals>>

(* A failure is not shown: the rows of the page before stay.               *)
ListFailed ==
    /\ at = "sessions" /\ list.call # None /\ ~list.call.served
    /\ list' = [list EXCEPT !.loading = FALSE, !.call = None, !.failed = TRUE]
    /\ UNCHANGED <<stored, at, detail, removals>>

-----------------------------------------------------------------------------
(* The page of a session.                                                  *)

GetSession ==
    /\ at = "session" /\ detail.call = "sent"
    /\ detail' = [detail EXCEPT !.call = IF detail.id \in stored THEN "found" ELSE "missing"]
    /\ UNCHANGED <<stored, at, list, removals>>

SessionLoaded ==
    /\ at = "session" /\ detail.call = "found"
    /\ detail' = [detail EXCEPT !.call = "none", !.loading = FALSE, !.session = detail.id]
    /\ UNCHANGED <<stored, at, list, removals>>

SessionNotLoaded ==
    /\ at = "session" /\ detail.call \in {"sent", "missing"}
    /\ detail' = [detail EXCEPT !.call = "none", !.loading = FALSE, !.error = TRUE]
    /\ UNCHANGED <<stored, at, list, removals>>

ContentShown == at = "session" /\ ~detail.loading /\ detail.session # None

(* The button of the header, or of the notice of a session that failed.    *)
OnDelete ==
    /\ ContentShown /\ ~detail.modal
    /\ detail' = [detail EXCEPT !.modal = TRUE]
    /\ UNCHANGED <<stored, at, list, removals>>

ModalShows == at = "session" /\ detail.modal

(* Unlike the users' modal, this one does not close during the deletion.   *)
CloseModal ==
    /\ ModalShows /\ ~detail.deleting
    /\ detail' = [detail EXCEPT !.modal = FALSE]
    /\ UNCHANGED <<stored, at, list, removals>>

CanDelete ==
    /\ ModalShows /\ ~detail.deleting
    /\ Len(removals) < MaxRemovals

Removal(id, here) == [id |-> id, here |-> here, phase |-> "sent"]

(* A slip: the list is opened without waiting for the answer.              *)
HandleDeleteAtOnce ==
    /\ CanDelete
    /\ GoTo("sessions", None, detail.session,
            Append(Orphans, Removal(detail.session, FALSE)))
    /\ UNCHANGED stored

HandleDelete ==
    /\ CanDelete
    /\ detail' = [detail EXCEPT !.deleting = TRUE, !.deleteError = FALSE]
    /\ removals' = Append(removals, Removal(detail.session, TRUE))
    /\ UNCHANGED <<stored, at, list>>

(* The server may refuse, or fail at any of its own calls.                 *)
DeleteSession(i) ==
    /\ removals[i].phase = "sent"
    /\ \/ /\ removals[i].id \in stored
          /\ stored' = stored \ {removals[i].id}
          /\ removals' = [removals EXCEPT ![i].phase = "deleted"]
       \/ /\ removals' = [removals EXCEPT ![i].phase = "refused"]
          /\ UNCHANGED stored
    /\ UNCHANGED <<at, list, detail>>

(* The answer opens the list even if the page it belongs to was left; a    *)
(* list that is shown already is not asked for again.                      *)
Deleted(i) ==
    /\ removals[i].phase = "deleted"
    /\ LET left == RemoveAt(removals, i) IN
       IF at = "sessions" THEN /\ removals' = left
                               /\ UNCHANGED <<at, list, detail>>
       ELSE GoTo("sessions", None, removals[i].id,
                 [k \in DOMAIN left |-> [left[k] EXCEPT !.here = FALSE]])
    /\ UNCHANGED stored

(* A refusal, or an answer that was lost.  Nobody hears of it once the     *)
(* page was left.                                                          *)
NotDeleted(i) ==
    /\ removals' = RemoveAt(removals, i)
    /\ detail' = IF removals[i].here
                 THEN [detail EXCEPT !.deleting = FALSE, !.deleteError = TRUE] ELSE detail
    /\ UNCHANGED <<stored, at, list>>

-----------------------------------------------------------------------------
SessionsInit ==
    /\ stored = SessionIds /\ at = "elsewhere"
    /\ list = None /\ detail = None /\ removals = <<>>

(* The links of the header, of the session's page and of its error, and    *)
(* the browser's history; a link to the page that is shown does nothing.   *)
Visit(page, id) ==
    /\ page # at
    /\ GoTo(page, id, None, Orphans)
    /\ UNCHANGED stored

SessionsStep ==
    \/ \E id \in SessionIds : OpenSession(id)
    \/ \E page \in 1 .. Cardinality(SessionIds) : TurnPage(page)
    \/ GetSessions \/ ListAnswered \/ ListFailed
    \/ GetSession \/ SessionLoaded \/ SessionNotLoaded
    \/ OnDelete \/ CloseModal \/ HandleDelete
    \/ \E i \in DOMAIN removals : DeleteSession(i) \/ Deleted(i) \/ NotDeleted(i)

-----------------------------------------------------------------------------
(* The list that a deletion opened does not hold the session deleted,      *)
(* however its request and the server's other steps interleave.  A list    *)
(* that is shown when the answer arrives is not asked for again, and is    *)
(* not meant here.                                                         *)
BroughtToFreshList ==
    at = "sessions" /\ list.from # None => list.from \notin list.rows
=============================================================================
