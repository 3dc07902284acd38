------------------------------ MODULE UsersPage ------------------------------
(***************************************************************************)
(* The administrator's table of users: search, pages, deletion, and the    *)
(* requests behind them, which are answered in any order.                  *)
(***************************************************************************)
EXTENDS PagedRows, SequencesExt

CONSTANTS
    Users,     \* accounts, numbered in the order of their creation
    Admins,    \* those the server does not delete
    Self,      \* the administrator in front of the page
    Found,     \* accounts the search term finds
    Sizes,     \* page sizes on offer
    DefaultSize,
    MaxPage,   \* bound: pages asked for
    MaxCalls   \* bound: requests under way

ASSUME UsersAssumption ==
    /\ Users \subseteq Nat /\ Found \subseteq Users
    /\ Self \in Admins /\ Admins \subseteq Users
    /\ Sizes \subseteq Nat \ {0} /\ DefaultSize \in Sizes
    /\ {MaxPage, MaxCalls} \subseteq Nat

VARIABLES
    accounts,  \* rows of the users table
    doomed,    \* accounts whose deletion the server was asked for
    table      \* the page: its hooks' state and the requests it waits for,
               \* None while the page is not shown

users == <<accounts, doomed, table>>

Terms == {"", "term"}

Params(t) == [page |-> t.page, size |-> t.size, search |-> t.search]

Call(t, p, refetch) ==
    [p |-> p, refetch |-> refetch, served |-> FALSE, rows |-> {}, pages |-> 0,
     overtaken |-> FALSE, outdated |-> p # Params(t)]

Asked(t, p, refetch) ==
    [t EXCEPT !.key = p, !.loading = TRUE, !.error = FALSE,
              !.calls = Append(@, Call(t, p, refetch))]

(* A slip: a search counts as the request for the same page and size.      *)
FetchByPage(t, p, refetch) ==
    IF ~refetch /\ t.key # None /\ p.page = t.key.page /\ p.size = t.key.size
    THEN t ELSE Asked(t, p, refetch)

(* The same parameters are not asked for twice in a row, unless forced.    *)
Fetch(t, p, refetch) == IF ~refetch /\ p = t.key THEN t ELSE Asked(t, p, refetch)

(* The effect that follows a change of the parameters.                     *)
FetchUsers(t) == Fetch(t, Params(t), FALSE)

NewTable ==
    FetchUsers([term |-> "", timer |-> FALSE, search |-> "", page |-> 1, size |-> DefaultSize,
                key |-> None, calls |-> <<>>, rows |-> {}, pages |-> 0, asked |-> None, newest |-> FALSE,
                loading |-> TRUE, error |-> FALSE, modal |-> FALSE, selected |-> None,
                acting |-> "no", target |-> None, closure |-> None, deleted |-> {}])

CanCall == Len(table.calls) + 2 <= MaxCalls

-----------------------------------------------------------------------------
(* The administrator.  While a request is awaited the page shows nothing   *)
(* but that it loads.                                                      *)

PageShown == ~table.loading
ModalShown == PageShown /\ table.modal

Type(term) ==
    /\ PageShown /\ ~table.modal /\ term # table.term
    /\ table' = [table EXCEPT !.term = term, !.timer = TRUE]
    /\ UNCHANGED <<accounts, doomed>>

(* The debounced term, the fetch for the page that was shown, and only then*)
(* the first page and its fetch.                                           *)
Debounced ==
    /\ table.timer /\ CanCall
    /\ table' = LET t == [table EXCEPT !.timer = FALSE, !.search = table.term]
                IN  IF t.search = table.search THEN t
                    ELSE FetchUsers([FetchUsers(t) EXCEPT !.page = 1])
    /\ UNCHANGED <<accounts, doomed>>

PageNumbers(page, pages) ==
    IF pages <= 5 THEN 1 .. pages
    ELSE {1, pages} \cup (IF page <= 3 THEN 2 .. 4
                          ELSE IF page >= pages - 2 THEN (pages - 3) .. pages
                          ELSE (page - 1) .. (page + 1))

(* The arrows step beyond the last page only where there is no page at all,*)
(* or the last page went with its last user.                               *)
PageOffered(p) ==
    \/ p \in PageNumbers(table.page, table.pages)
    \/ p = table.page - 1 /\ table.page # 1
    \/ p = table.page + 1 /\ table.page # table.pages

OnPageChange(p) ==
    /\ PageShown /\ ~table.modal /\ CanCall /\ PageOffered(p) /\ p <= MaxPage
    /\ table' = FetchUsers([table EXCEPT !.page = p])
    /\ UNCHANGED <<accounts, doomed>>

OnPageSizeChange(size) ==
    /\ PageShown /\ ~table.modal /\ CanCall
    /\ table' = FetchUsers([table EXCEPT !.size = size, !.page = 1])
    /\ UNCHANGED <<accounts, doomed>>

(* "Try again" hides the message; nothing is asked for.                    *)
OnClearError ==
    /\ PageShown /\ table.error
    /\ table' = [table EXCEPT !.error = FALSE]
    /\ UNCHANGED <<accounts, doomed>>

RowsShown == IF PageShown THEN table.rows ELSE {}

DeletionOffered(x) == x \in RowsShown /\ x # Self

OpenDeleteModal(x) ==
    /\ ~table.modal /\ DeletionOffered(x)
    /\ table' = [table EXCEPT !.modal = TRUE, !.selected = x]
    /\ UNCHANGED <<accounts, doomed>>

(* Escape and a click beside the modal close it while a deletion is under  *)
(* way, too.                                                               *)
CloseDeleteModal ==
    /\ ModalShown
    /\ table' = [table EXCEPT !.modal = FALSE, !.selected = None]
    /\ UNCHANGED <<accounts, doomed>>

HandleDeleteUser ==
    /\ ModalShown /\ table.acting = "no"
    /\ table' = [table EXCEPT !.acting = "sent", !.target = table.selected, !.closure = Params(table)]
    /\ doomed' = doomed \cup {table.selected}
    /\ UNCHANGED accounts

-----------------------------------------------------------------------------
(* The server and its answers.                                             *)

(* The page it was asked from may be gone, the server may fail, and the    *)
(* answer to what it did may be lost, which the page takes for a failure.  *)
DeleteUser(x) ==
    LET told(how) == IF table # None /\ table.acting = "sent" /\ table.target = x
                     THEN [table EXCEPT !.acting = how] ELSE table
    IN  /\ x \in doomed
        /\ doomed' = doomed \ {x}
        /\ \/ /\ x \in accounts \ Admins /\ accounts' = accounts \ {x}
              /\ table' \in {told("deleted"), told("refused")}
           \/ accounts' = accounts /\ table' = told("refused")

(* refetch asks for what the page showed when the button was clicked.      *)
DeleteAnswered ==
    /\ table.acting \in {"deleted", "refused"} /\ CanCall
    /\ table' = IF table.acting = "deleted"
                THEN Fetch([table EXCEPT !.acting = "refetch", !.deleted = @ \cup {table.target}],
                           table.closure, TRUE)
                ELSE [table EXCEPT !.acting = "no", !.target = None, !.closure = None, !.error = TRUE]
    /\ UNCHANGED <<accounts, doomed>>

GetAllUsers(i) ==
    /\ ~table.calls[i].served
    /\ LET p == table.calls[i].p
           rows == IF p.search = "" THEN accounts ELSE accounts \cap Found
       IN  table' = [table EXCEPT !.calls[i] =
                        [@ EXCEPT !.served = TRUE, !.rows = PageOf(rows, p.page, p.size),
                                  !.pages = TotalPages(rows, p.size)]]
    /\ UNCHANGED <<accounts, doomed>>

(* handleDeleteUser goes on when the refetch it awaits has ended.          *)
Settled(t, i) ==
    LET later == [t EXCEPT !.loading = FALSE,
                           !.calls = RemoveAt([k \in DOMAIN @ |->
                               IF k < i THEN [@[k] EXCEPT !.overtaken = TRUE] ELSE @[k]], i)]
    IN  IF t.calls[i].refetch
        THEN [later EXCEPT !.modal = FALSE, !.selected = None,
                           !.acting = "no", !.target = None, !.closure = None]
        ELSE later

Answered(i) ==
    LET c == table.calls[i]
        fresh == ~c.overtaken /\ ~c.outdated
    IN  /\ c.served
        /\ table' = [Settled(table, i) EXCEPT
                       !.rows = c.rows, !.pages = c.pages,
                       !.newest = ~c.overtaken, !.asked = IF fresh THEN c.p ELSE None]
        /\ UNCHANGED <<accounts, doomed>>

Failed(i) ==
    /\ ~table.calls[i].served
    /\ table' = [Settled(table, i) EXCEPT !.error = TRUE, !.newest = FALSE, !.asked = None]
    /\ UNCHANGED <<accounts, doomed>>

-----------------------------------------------------------------------------
UsersInit == accounts = Users /\ doomed = {} /\ table = None

Clicks ==
    \/ \E term \in Terms : Type(term)
    \/ \E p \in 1 .. MaxPage : OnPageChange(p)
    \/ \E size \in Sizes : OnPageSizeChange(size)
    \/ \E x \in Users : OpenDeleteModal(x)
    \/ OnClearError \/ CloseDeleteModal \/ HandleDeleteUser

Answers ==
    \/ Debounced \/ DeleteAnswered
    \/ \E i \in DOMAIN table.calls : GetAllUsers(i) \/ Answered(i) \/ Failed(i)

UsersStep ==
    \/ table # None /\ (Clicks \/ Answers)
    \/ \E x \in Users : DeleteUser(x)

-----------------------------------------------------------------------------
Still == table # None /\ table.calls = <<>>

(* Once nothing is under way the rows are those of the page, the size and  *)
(* the search that are shown, unless the last answer came late, failed, or *)
(* was asked for by a deletion that began under other parameters.          *)
TableIsAsked == Still /\ table.asked # None => table.asked = Params(table)

(* A user whose deletion was confirmed is not offered again, unless the    *)
(* last answer to arrive was overtaken by one to a later request, or the   *)
(* last request failed, which leaves the rows of before.                   *)
DeletedUserNotListed ==
    Still /\ table.newest => table.deleted \cap table.rows = {}
=============================================================================
