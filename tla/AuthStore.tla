------------------------------ MODULE AuthStore ------------------------------
(***************************************************************************)
(* The authentication store of the browser tabs of one user agent.  Each   *)
(* tab has a store of its own; the tabs share the local storage, which     *)
(* holds the token the API client sends ("token") and the token a store    *)
(* starts from ("auth-storage").  The code never writes a token into the   *)
(* session storage, so "token" is the local one.                           *)
(***************************************************************************)
EXTENDS Naturals, FiniteSets

CONSTANTS
    Tabs,
    Tokens,      \* the tokens the server issues
    Owner,       \* the account a token belongs to
    Admins,      \* the accounts with the role admin
    None,
    Absent       \* "auth-storage" was never written

ASSUME OwnerAssumption ==
    /\ None \notin Tokens /\ Absent \notin Tokens /\ None # Absent
    /\ DOMAIN Owner = Tokens
    /\ None \notin {Owner[x] : x \in Tokens}

Accounts == {Owner[x] : x \in Tokens}
MaybeToken == Tokens \cup {None}

VARIABLES
    stored,      \* localStorage "token"
    persisted,   \* the token in localStorage "auth-storage", or Absent
    valid,       \* the tokens the server accepts
    tab          \* the store of each tab, with the page it shows

storage == <<stored, persisted>>

(* The promise of userFetcher: the token its request carries and the store *)
(* actions that wait for it.  No one waits: there is no promise.           *)
NoFetch == [with |-> None, waiting |-> {}]

(* fetchWithLock: who comes while a fetch is under way waits for that one. *)
FetchWithLock(fetch, token, who) ==
    IF fetch.waiting = {}
    THEN [with |-> token, waiting |-> {who}]
    ELSE [fetch EXCEPT !.waiting = @ \cup {who}]

(* The request interceptor: the token comes from the storage, not from the *)
(* store.                                                                  *)
RequestToken == stored

(* tokenStorage.set and tokenStorage.remove.                               *)
SetToken(token) == stored' = token
RemoveToken == stored' = None

(* Every set of the store writes its token to "auth-storage".              *)
Persist(c) == persisted' = c.token

(* A slip: the missing entry of "auth-storage" is taken for a token.       *)
InitialTokenUnchecked == persisted

(* The store of a page that is loaded: rehydrated from "auth-storage".     *)
InitialToken == IF persisted = Absent THEN stored ELSE persisted

SetUser(c, u) ==
    [c EXCEPT !.user = u, !.isAuthenticated = (u # None /\ c.token # None)]

(* A slip: signing out forgets the user and the token only.                *)
ClearedStaying(c) == [c EXCEPT !.user = None, !.token = None]

Cleared(c) ==
    [c EXCEPT !.user = None, !.token = None, !.isAuthenticated = FALSE]

(* What the two store actions that wait for the user make of the answer:   *)
(* initialize keeps the token of the store, setAuthData sets its own.      *)
Initialized(c, u) ==
    [c EXCEPT !.user = u, !.isAuthenticated = TRUE, !.isLoading = FALSE]

AuthDataSet(c, u, token) ==
    [Initialized(c, u) EXCEPT !.token = token]

(* A slip: the failed fetch leaves the token in the store.                 *)
FetchFailedKeepsToken(c) ==
    [c EXCEPT !.user = None, !.isAuthenticated = FALSE, !.isLoading = FALSE]

FetchFailed(c) == [Cleared(c) EXCEPT !.isLoading = FALSE]
=============================================================================
