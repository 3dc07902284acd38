------------------------------- MODULE AppShell ------------------------------
(***************************************************************************)
(* The pages of the web application as far as signing in decides on them:  *)
(* the router and its protected routes, the OAuth pages, the profile, and  *)
(* the API client with its reaction to a refused token.                    *)
(***************************************************************************)
EXTENDS AuthStore

CONSTANTS
    MaxLoads,    \* bound: page loads by the user, over all tabs
    MaxReturns,  \* bound: uses of Back and Forward, over all tabs
    Revisited    \* bound: the pages they lead to

ASSUME BoundsAssumption == MaxLoads \in Nat /\ MaxReturns \in Nat

VARIABLES loads, returns

bounds == <<loads, returns>>
vars == <<stored, persisted, valid, tab, bounds>>

(* "dashboard" stands for each protected page without a form of its own.   *)
PublicPages == {"landing", "login", "register", "oauth_error", "not_found"}
ProtectedPages == {"dashboard", "profile"}
AdminPages == {"admin"}
MeetingPages == {"meeting"}
Guarded == ProtectedPages \cup AdminPages
Pages == PublicPages \cup Guarded \cup MeetingPages \cup {"oauth_success"}

(* The pages on which the client does not react to a refused token.        *)
AuthPages == {"login", "register", "oauth_success", "oauth_error"}

NoCall == [kind |-> "none", with |-> None]
(* What ProtectedRoute renders: the page, a spinner, or a redirection.     *)
Granted(c) ==
    /\ c.route \in Guarded
    /\ ~c.isLoading /\ c.isAuthenticated
    /\ c.route \in AdminPages => c.user \in Admins

NotSignedIn(c) == c.route \in Guarded /\ ~c.isLoading /\ ~c.isAuthenticated
NotAdmin(c) == c.route \in AdminPages /\ c.isAuthenticated /\ ~c.isLoading /\ ~Granted(c)

(* The start page and the page that completed a sign-in lead on.           *)
AtHome(c) == c.route = "landing" /\ ~c.isLoading /\ c.isAuthenticated
SignInDone(c) ==
    /\ c.phase \in {"done", "failed"}
    /\ c.isAuthenticated /\ c.user # None

Redirection(c) ==
    CASE NotSignedIn(c) -> "login"
      [] NotAdmin(c) \/ AtHome(c) \/ SignInDone(c) -> "dashboard"
      [] OTHER -> c.route

(* A page that is left loses its state, not its timers and its calls: a    *)
(* name that is being saved is then saved for no page, and a sign-in goes  *)
(* on.  A page that is entered starts anew.                                *)
GoTo(c, page) ==
    IF page = c.route THEN c
    ELSE [c EXCEPT !.route = page, !.visited = @ \cup ({page} \cap Revisited), !.editing = FALSE,
                   !.phase = IF page = "oauth_success" THEN "opening" ELSE "off",
                   !.call.kind = IF @ = "save" THEN "lateSave" ELSE @]

(* The page that completed a sign-in takes itself out of the history.      *)
Replaced(c) ==
    IF SignInDone(c)
    THEN [c EXCEPT !.visited = @ \ {"oauth_success"}, !.urlToken = None]
    ELSE c

(* The tab renders and its pages redirect: the admin page may lead to the  *)
(* dashboard, no redirection leads to a page that redirects once more.     *)
Show(t, c) == tab' = [tab EXCEPT ![t] = GoTo(Replaced(c), Redirection(c))]

(* A slip: initialize returns without a token and the store keeps loading. *)
LoadedForEver(page, urlToken, token, request) ==
    [route |-> page, visited |-> {page} \cap Revisited, urlToken |-> urlToken,
     user |-> None, token |-> token,
     isAuthenticated |-> FALSE, isLoading |-> TRUE,
     fetch |-> IF token = None THEN NoFetch
               ELSE FetchWithLock(NoFetch, request, "initialize"),
     phase |-> IF page = "oauth_success" THEN "opening" ELSE "off",
     timers |-> "none", editing |-> FALSE, call |-> NoCall]

(* AuthInitializer on a page that is loaded: initialize ends at once       *)
(* without a token and fetches the user otherwise.                         *)
Loaded(page, urlToken, token, request) ==
    [route |-> page, visited |-> {page} \cap Revisited, urlToken |-> urlToken,
     user |-> None, token |-> token,
     isAuthenticated |-> FALSE, isLoading |-> token # None,
     fetch |-> IF token = None THEN NoFetch
               ELSE FetchWithLock(NoFetch, request, "initialize"),
     phase |-> IF page = "oauth_success" THEN "opening" ELSE "off",
     timers |-> "none", editing |-> FALSE, call |-> NoCall]

PersistLoad(token) == persisted' = IF token = None THEN None ELSE persisted

Init ==
    /\ stored = None /\ persisted = Absent /\ valid = Tokens
    /\ tab = [t \in Tabs |-> Loaded("landing", None, None, None)]
    /\ loads = 0 /\ returns = 0

(* The user opens an address or reloads the page.  The address of a failed *)
(* sign-in may lack the token.                                             *)
Open(t, page, urlToken) ==
    /\ loads < MaxLoads
    /\ page # "oauth_success" => urlToken = None
    /\ loads' = loads + 1
    /\ LET token == InitialToken
       IN  /\ Show(t, Loaded(page, urlToken, token, RequestToken))
           /\ PersistLoad(token)
    /\ UNCHANGED <<stored, valid, returns>>

LoginFormShown(c) == c.route = "login"
RegisterFormShown(c) == c.route = "register"

(* The buttons of the sign-in forms lead to the provider, which comes back *)
(* with a token of the account the user chose there or with an error; the  *)
(* other failures of OAuthCallback end on a page that is not the client's. *)
InitiateOAuthLogin(t) ==
    /\ LoginFormShown(tab[t]) \/ RegisterFormShown(tab[t])
    /\ \/ \E x \in valid : Open(t, "oauth_success", x)
       \/ Open(t, "oauth_error", None)

(* A timer that is not cleared when its page is left; several may run.     *)
AnotherTimer(c) == [c EXCEPT !.timers = IF @ = "none" THEN "one" ELSE "more"]

(* OAuthSuccess is shown: without a token it fails; with one it stores the *)
(* token and asks for the user.  Someone who leaves it with the browser's  *)
(* buttons and comes back signs in once more, with the same token.         *)
ProcessOAuth(t) ==
    LET c == tab[t]
        who == IF "setAuthData" \in c.fetch.waiting THEN "again" ELSE "setAuthData"
    IN  /\ c.phase = "opening"
        /\ \/ /\ c.urlToken = None
              /\ Show(t, [AnotherTimer(c) EXCEPT !.phase = "failed"])
              /\ UNCHANGED stored
           \/ /\ c.urlToken # None
              /\ SetToken(c.urlToken)
              /\ Show(t, [c EXCEPT !.phase = "processing",
                              !.fetch = FetchWithLock(@, c.urlToken, who)])
        /\ UNCHANGED <<persisted, valid, bounds>>

(* What processOAuth makes of the end of setAuthData, on its own page.     *)
Processed(c, phase) ==
    [c EXCEPT !.phase = IF @ = "processing" THEN phase ELSE @]

(* The user has arrived: initialize continues first, it waited first.      *)
UserArrives(t) ==
    LET c == [tab[t] EXCEPT !.fetch = NoFetch]
        f == tab[t].fetch
        u == Owner[f.with]
        done == IF "setAuthData" \in f.waiting
                THEN Processed(AuthDataSet(c, u, c.urlToken), "done")
                ELSE Initialized(c, u)
    IN  /\ f.waiting # {} /\ f.with \in valid
        /\ Show(t, done) /\ Persist(done)
        /\ UNCHANGED <<stored, valid, bounds>>

(* The response interceptor: outside the sign-in pages a refused token     *)
(* is removed from the storage and the sign-in page is loaded.             *)
Expelled(t, token) ==
    /\ RemoveToken
    /\ Show(t, Loaded("login", None, token, None))

(* No user: the waiting actions remove the token and clear the store.      *)
UserFails(t, refused) ==
    LET c == [tab[t] EXCEPT !.fetch = NoFetch]
        f == tab[t].fetch
        timed == IF "again" \in f.waiting THEN AnotherTimer(AnotherTimer(c)) ELSE AnotherTimer(c)
        failed == IF "setAuthData" \in f.waiting
                  THEN Processed(FetchFailed(timed), "failed") ELSE FetchFailed(c)
    IN  /\ f.waiting # {}
        /\ refused => f.with \notin valid
        /\ persisted' = None
        /\ IF refused /\ c.route \notin AuthPages
           THEN Expelled(t, None)
           ELSE RemoveToken /\ Show(t, failed)
        /\ UNCHANGED <<valid, bounds>>

(* The sign-in page after a failed OAuth sign-in.                          *)
TimerLogin(t) ==
    /\ tab[t].timers # "none"
    /\ \E timers \in IF tab[t].timers = "one" THEN {"none"} ELSE {"one", "more"} :
          Show(t, GoTo([tab[t] EXCEPT !.timers = timers], "login"))
    /\ UNCHANGED <<stored, persisted, valid, bounds>>

(* The links and buttons of each page.                                     *)
LandingLinks(c) == IF c.isLoading THEN {} ELSE {"login", "register", "meeting"}
LoginLinks == {"landing", "register"}
RegisterLinks == {"landing", "login"}
OAuthErrorLinks == {"login", "register"}
NotFoundLinks == {"landing", "dashboard"}
DashboardLinks == {"meeting"}
HeaderLinks(c) == ProtectedPages \cup (IF c.user \in Admins THEN AdminPages ELSE {})
MeetingLinks(c) == {IF c.isAuthenticated THEN "dashboard" ELSE "landing"}

Links(c) ==
    CASE c.route = "landing" -> LandingLinks(c)
      [] LoginFormShown(c) -> LoginLinks
      [] RegisterFormShown(c) -> RegisterLinks
      [] c.route = "oauth_error" -> OAuthErrorLinks
      [] c.route = "not_found" -> NotFoundLinks
      [] c.route = "meeting" -> MeetingLinks(c)
      [] Granted(c) -> HeaderLinks(c) \cup
                       (IF c.route = "dashboard" THEN DashboardLinks ELSE {})
      [] OTHER -> {}

Follow(t, page) ==
    /\ page \in Links(tab[t]) \ {tab[t].route}
    /\ Show(t, GoTo(tab[t], page))
    /\ UNCHANGED <<stored, persisted, valid, bounds>>

(* Back and Forward in the browser's history, to a page this document has  *)
(* shown.  (Other documents of the history are loaded, as Open does.)      *)
History(t, page) ==
    /\ returns < MaxReturns
    /\ page \in tab[t].visited \ {tab[t].route}
    /\ returns' = returns + 1
    /\ Show(t, GoTo(tab[t], page))
    /\ UNCHANGED <<stored, persisted, valid, loads>>

(* Sign out in the menu of the header, on every protected page.            *)
UserMenuShown(c) == Granted(c)

HandleLogout(t) ==
    LET c == Cleared(tab[t]) IN
    /\ UserMenuShown(tab[t])
    /\ RemoveToken /\ Persist(c)
    /\ Show(t, GoTo(c, "login"))
    /\ UNCHANGED <<valid, bounds>>

ProfileShown(c) == c.route = "profile" /\ Granted(c)

(* The name can be edited, and not be saved or given up while it is saved. *)
Editing(c) == ProfileShown(c) /\ c.editing /\ c.call.kind # "save"

HandleEditName(t) ==
    /\ ProfileShown(tab[t]) /\ ~tab[t].editing
    /\ tab' = [tab EXCEPT ![t].editing = TRUE]
    /\ UNCHANGED <<stored, persisted, valid, bounds>>

HandleCancelEdit(t) ==
    /\ Editing(tab[t])
    /\ tab' = [tab EXCEPT ![t].editing = FALSE]
    /\ UNCHANGED <<stored, persisted, valid, bounds>>

(* Bound: one call of the pages per tab.                                   *)
Call(t, kind) ==
    /\ tab[t].call = NoCall
    /\ tab' = [tab EXCEPT ![t].call = [kind |-> kind, with |-> RequestToken]]
    /\ UNCHANGED <<stored, persisted, valid, bounds>>

(* A name that is long enough and changed is saved.                        *)
HandleSaveName(t) == Editing(tab[t]) /\ Call(t, "save")

(* Any other page asks the server for its data.                            *)
Request(t) == Granted(tab[t]) /\ ~ProfileShown(tab[t]) /\ Call(t, "page")

(* The answer: the saved user goes into the store, wherever the tab is by  *)
(* then; a failure shows an error; a refused token ends the session.       *)
Answered(t) ==
    LET c == [tab[t] EXCEPT !.call = NoCall]
        call == tab[t].call
        saved == [SetUser(c, Owner[call.with]) EXCEPT !.editing = call.kind = "lateSave" /\ @]
    IN  /\ call # NoCall
        /\ \/ /\ call.with \in valid /\ call.kind \in {"save", "lateSave"}
              /\ Show(t, saved) /\ Persist(saved)
              /\ UNCHANGED stored
           \/ Show(t, c) /\ UNCHANGED storage
           \/ /\ call.with \notin valid /\ c.route \notin AuthPages
              /\ Expelled(t, persisted)
              /\ UNCHANGED persisted
        /\ UNCHANGED <<valid, bounds>>

Expire(x) ==
    /\ valid' = valid \ {x} /\ x \in valid
    /\ UNCHANGED <<stored, persisted, tab, bounds>>

Next ==
    \/ \E x \in Tokens : Expire(x)
    \/ \E t \in Tabs :
        \/ \E page \in Pages, x \in MaybeToken : Open(t, page, x)
        \/ InitiateOAuthLogin(t)
        \/ ProcessOAuth(t) \/ TimerLogin(t)
        \/ UserArrives(t) \/ UserFails(t, TRUE) \/ UserFails(t, FALSE)
        \/ \E page \in Pages : Follow(t, page) \/ History(t, page)
        \/ HandleLogout(t)
        \/ HandleEditName(t) \/ HandleCancelEdit(t)
        \/ Request(t) \/ HandleSaveName(t) \/ Answered(t)

(* Each request for the user is answered or fails.                         *)
Fairness ==
    \A t \in Tabs :
        WF_vars(UserArrives(t) \/ UserFails(t, TRUE) \/ UserFails(t, FALSE))

Spec == Init /\ [][Next]_vars /\ Fairness

-----------------------------------------------------------------------------
TabType ==
    [route : Pages, visited : SUBSET Pages, urlToken : MaybeToken,
     user : Accounts \cup {None}, token : MaybeToken,
     isAuthenticated : BOOLEAN, isLoading : BOOLEAN,
     fetch : [with : MaybeToken,
              waiting : SUBSET {"initialize", "setAuthData", "again"}],
     phase : {"off", "opening", "processing", "done", "failed"},
     timers : {"none", "one", "more"}, editing : BOOLEAN,
     call : [kind : {"none", "page", "save", "lateSave"}, with : MaybeToken]]

(* The types of the variables.                                             *)
TypeOK ==
    /\ stored \in MaybeToken
    /\ persisted \in MaybeToken \cup {Absent}
    /\ valid \subseteq Tokens
    /\ tab \in [Tabs -> TabType]
    /\ loads \in 0 .. MaxLoads
    /\ returns \in 0 .. MaxReturns

(* A tab that is signed in has a user and a token, although initialize and *)
(* the profile's late answer set a user without looking at what has        *)
(* happened to the token meanwhile.                                        *)
AuthenticatedHasBoth ==
    \A t \in Tabs : tab[t].isAuthenticated =>
        tab[t].user # None /\ tab[t].token # None

(* The client sends the token of the storage, the pages go by that of the  *)
(* store: a tab that writes the storage leaves the two equal, or is still  *)
(* waiting for its user.                                                   *)
WritesAgree ==
    [][\A t \in Tabs : stored' # stored /\ tab'[t] # tab[t] =>
        \/ stored' = tab'[t].token
        \/ tab'[t].isLoading
        \/ tab'[t].phase = "processing"]_vars

(* No tab shows the spinner of the protected routes or "Completing Sign    *)
(* In" for ever: whoever waits for a user, on a page that is loaded, that  *)
(* was left or to which the visitor has come back, waits for one promise.  *)
Waits(c) == c.isLoading \/ c.phase = "processing"

LoadingEnds ==
    \A t \in Tabs : Waits(tab[t]) ~> ~Waits(tab[t])

-----------------------------------------------------------------------------
(* Claims the code does not keep.                                          *)

(* "Redirecting to login...": a timer fires on the page that says so.      *)
TimerOnOwnPage ==
    \A t \in Tabs : tab[t].timers # "none" => tab[t].route = "oauth_success"

(* meetingRoutes.tsx: a meeting's page is "accessible to everyone          *)
(* (authenticated and guests)": only the visitor leaves it.                *)
MeetingOpenToAll ==
    [][\A t \in Tabs :
        tab[t].route = "meeting" /\ loads' = loads =>
            \/ tab'[t].route \in {"meeting", "landing", "dashboard"}
            \/ \E page \in Pages : History(t, page)]_vars
=============================================================================
