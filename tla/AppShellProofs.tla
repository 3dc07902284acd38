---------------------------- MODULE AppShellProofs ---------------------------
(***************************************************************************)
(* Proofs about the sign-in of the web application, for any number of tabs,*)
(* accounts, tokens and page loads.                                        *)
(***************************************************************************)
EXTENDS AppShell, TLAPS

USE OwnerAssumption, BoundsAssumption

(* What each tab keeps to itself: who waits for a user has a token to set, *)
(* and a sign-in that has ended waits for none.                            *)
Sound(c) ==
    /\ c.isAuthenticated => c.user # None /\ c.token # None
    /\ "initialize" \in c.fetch.waiting => c.isLoading /\ c.token # None
    /\ "setAuthData" \in c.fetch.waiting => c.urlToken # None
    /\ "again" \in c.fetch.waiting => "setAuthData" \in c.fetch.waiting
    /\ c.phase \in {"done", "failed"} => "setAuthData" \notin c.fetch.waiting
    /\ c.phase # "off" => c.route = "oauth_success"

(* A tab that has never been signed in.                                    *)
Fresh(c) == ~c.isAuthenticated /\ c.call = NoCall

(* The inductive invariant.  A store that has signed in was written to     *)
(* "auth-storage", so that a page loaded after a refused token does not    *)
(* take the missing entry for a token.                                     *)
Inv ==
    /\ TypeOK
    /\ \A t \in Tabs : Sound(tab[t])
    /\ persisted = Absent => \A t \in Tabs : Fresh(tab[t])

(* What a step of a tab leaves as it is.                                   *)
Same(c, d) ==
    /\ d.token = c.token /\ d.isLoading = c.isLoading /\ d.user = c.user
    /\ d.isAuthenticated = c.isAuthenticated

-----------------------------------------------------------------------------
(* The pages that lead elsewhere.                                          *)

LEMMA RedirectionLeads ==
    ASSUME NEW c \in TabType
    PROVE  Redirection(c) \in Pages
  <1>1. Redirection(c) \in {"login", "dashboard", c.route}
    BY DEF Redirection
  <1>2. c.route \in Pages
    BY DEF TabType
  <1> QED
    BY <1>1, <1>2 DEF Pages, PublicPages, Guarded, ProtectedPages

(* Going to a page changes what is shown, not who is signed in.            *)
LEMMA GoToKeeps ==
    ASSUME NEW c \in TabType, Sound(c), NEW page \in Pages
    PROVE  LET d == GoTo(c, page) IN
           /\ d \in TabType /\ Sound(d) /\ Same(c, d)
           /\ Fresh(c) => Fresh(d)
           /\ page = c.route => d = c
  <1> DEFINE d == GoTo(c, page)
  <1>1. CASE page = c.route
    <2>1. d = c
      BY <1>1 DEF GoTo
    <2> QED
      BY <1>1, <2>1 DEF Same
  <1>2. CASE page # c.route
    <2>1. d = [c EXCEPT !.route = page, !.visited = @ \cup ({page} \cap Revisited), !.editing = FALSE,
                        !.phase = IF page = "oauth_success" THEN "opening" ELSE "off",
                        !.call.kind = IF @ = "save" THEN "lateSave" ELSE @]
      BY <1>2 DEF GoTo
    <2>2. /\ d.call = IF c.call.kind = "save" THEN [c.call EXCEPT !.kind = "lateSave"] ELSE c.call
          /\ d.visited = c.visited \cup ({page} \cap Revisited)
          /\ d.phase = IF page = "oauth_success" THEN "opening" ELSE "off"
          /\ d.route = page
          /\ d.urlToken = c.urlToken /\ d.fetch = c.fetch /\ Same(c, d)
      BY <2>1 DEF TabType, Same
    <2>3. d = [c EXCEPT !.route = page, !.visited = d.visited, !.editing = FALSE,
                        !.phase = d.phase, !.call = d.call]
      BY <2>1 DEF TabType
    <2>4. d.call \in [kind : {"none", "page", "save", "lateSave"}, with : MaybeToken]
      BY <2>2 DEF TabType
    <2>5. d.visited \in SUBSET Pages
      BY <2>2 DEF TabType
    <2>6. d \in TabType
      BY <2>2, <2>3, <2>4, <2>5 DEF TabType
    <2>7. Sound(d)
      BY <2>2 DEF Sound, Same
    <2>8. Fresh(c) => Fresh(d)
      BY <2>2 DEF Fresh, NoCall, Same
    <2> QED
      BY <1>2, <2>2, <2>6, <2>7, <2>8
  <1> QED
    BY <1>1, <1>2

(* So does taking a page out of the history.                               *)
LEMMA ReplacedKeeps ==
    ASSUME NEW c \in TabType, Sound(c)
    PROVE  LET d == Replaced(c) IN
           /\ d \in TabType /\ Sound(d) /\ Same(c, d)
           /\ Fresh(c) => Fresh(d)
           /\ ~SignInDone(c) => d = c
  <1> DEFINE d == Replaced(c)
  <1>1. CASE ~SignInDone(c)
    BY <1>1 DEF Replaced, Same
  <1>2. CASE SignInDone(c)
    <2>1. d = [c EXCEPT !.visited = @ \ {"oauth_success"}, !.urlToken = None]
      BY <1>2 DEF Replaced
    <2>2. d \in TabType
      <3>1. c.visited \ {"oauth_success"} \in SUBSET Pages /\ None \in MaybeToken
        BY DEF TabType, MaybeToken
      <3> HIDE DEF d
      <3> QED
        BY <2>1, <3>1 DEF TabType
    <2>3. Same(c, d) /\ d.fetch = c.fetch /\ d.call = c.call /\ d.phase = c.phase
          /\ d.route = c.route
      BY <2>1 DEF TabType, Same
    <2> QED
      BY <1>2, <2>2, <2>3 DEF Sound, Fresh, Same, SignInDone
  <1> QED
    BY <1>1, <1>2

(* A store that is loaded has not signed in yet.                           *)
LEMMA LoadedIsSound ==
    ASSUME NEW page \in Pages, NEW urlToken \in MaybeToken,
           NEW token \in MaybeToken, NEW request \in MaybeToken
    PROVE  LET c == Loaded(page, urlToken, token, request) IN
           /\ c \in TabType /\ Sound(c) /\ Fresh(c)
           /\ c.token = token /\ c.isLoading = (token # None)
  <1> DEFINE c == Loaded(page, urlToken, token, request)
             fetch == IF token = None THEN NoFetch ELSE FetchWithLock(NoFetch, request, "initialize")
             phase == IF page = "oauth_success" THEN "opening" ELSE "off"
  <1>1. /\ fetch \in [with : MaybeToken, waiting : SUBSET {"initialize", "setAuthData", "again"}]
        /\ fetch.waiting = IF token = None THEN {} ELSE {"initialize"}
    <2>1. FetchWithLock(NoFetch, request, "initialize") = [with |-> request, waiting |-> {"initialize"}]
      BY DEF NoFetch, FetchWithLock
    <2>2. NoFetch = [with |-> None, waiting |-> {}]
      BY DEF NoFetch
    <2>3. CASE token = None
      BY <2>2, <2>3 DEF MaybeToken
    <2>4. CASE token # None
      BY <2>1, <2>4
    <2> QED
      BY <2>3, <2>4
  <1>2. phase \in {"opening", "off"}
    OBVIOUS
  <1>3. NoCall \in [kind : {"none", "page", "save", "lateSave"}, with : MaybeToken]
    BY DEF NoCall, MaybeToken
  <1>4. c = [route |-> page, visited |-> {page} \cap Revisited, urlToken |-> urlToken,
             user |-> None, token |-> token,
             isAuthenticated |-> FALSE, isLoading |-> token # None,
             fetch |-> fetch, phase |-> phase,
             timers |-> "none", editing |-> FALSE, call |-> NoCall]
    BY DEF Loaded
  <1> HIDE DEF fetch, phase
  <1>5. c \in TabType
    BY <1>1, <1>2, <1>3, <1>4 DEF TabType
  <1>6. /\ c.route = page /\ c.token = token /\ c.isAuthenticated = FALSE
        /\ c.isLoading = (token # None) /\ c.fetch = fetch
        /\ c.phase = IF page = "oauth_success" THEN "opening" ELSE "off"
        /\ c.call = NoCall
    BY <1>4 DEF phase
  <1>7. Sound(c)
    <2>1. c.fetch.waiting \subseteq {"initialize"}
          /\ ("initialize" \in c.fetch.waiting => c.isLoading /\ c.token # None)
      BY <1>1, <1>6
    <2>2. c.phase # "off" => c.phase = "opening" /\ c.route = "oauth_success"
      BY <1>6
    <2> QED
      BY <1>6, <2>1, <2>2 DEF Sound
  <1>8. Fresh(c)
    BY <1>6 DEF Fresh
  <1> QED
    BY <1>5, <1>6, <1>7, <1>8

-----------------------------------------------------------------------------
(* One step changes one tab: the invariant follows from what it makes of   *)
(* that tab and of the storage.                                            *)
LEMMA PutStep ==
    ASSUME Inv, NEW t \in Tabs, NEW d \in TabType, Sound(d),
           tab' = [tab EXCEPT ![t] = d],
           stored' \in MaybeToken, persisted' \in MaybeToken \cup {Absent},
           valid' \subseteq Tokens, loads' \in 0 .. MaxLoads, returns' \in 0 .. MaxReturns,
           persisted' = Absent => persisted = Absent /\ Fresh(d)
    PROVE  Inv'
  <1>1. tab \in [Tabs -> TabType] /\ \A u \in Tabs : Sound(tab[u])
    BY DEF Inv, TypeOK
  <1>2. tab' \in [Tabs -> TabType]
    BY <1>1
  <1>3. tab'[t] = d /\ \A u \in Tabs : u # t => tab'[u] = tab[u]
    BY <1>1
  <1>4. \A u \in Tabs : Sound(tab'[u])
    BY <1>1, <1>3
  <1>5. persisted' = Absent => \A u \in Tabs : Fresh(tab'[u])
    BY <1>3 DEF Inv
  <1>6. TypeOK'
    BY <1>2 DEF TypeOK, TabType, Pages, PublicPages, Guarded, ProtectedPages, AdminPages,
                MeetingPages, Accounts, MaybeToken
  <1> QED
    BY <1>4, <1>5, <1>6 DEF Inv, Sound, Fresh, NoCall

LEMMA ShowStep ==
    ASSUME Inv, NEW t \in Tabs, NEW c \in TabType, Sound(c), Show(t, c),
           stored' \in MaybeToken, persisted' \in MaybeToken \cup {Absent},
           valid' \subseteq Tokens, loads' \in 0 .. MaxLoads, returns' \in 0 .. MaxReturns,
           persisted' = Absent => persisted = Absent /\ Fresh(c)
    PROVE  Inv'
  <1> DEFINE b == Replaced(c)
             d == GoTo(b, Redirection(c))
  <1>1. Redirection(c) \in Pages
    BY RedirectionLeads
  <1>2. b \in TabType /\ Sound(b) /\ (Fresh(c) => Fresh(b))
    BY ReplacedKeeps
  <1>3. tab' = [tab EXCEPT ![t] = d]
    BY DEF Show
  <1> HIDE DEF b
  <1>4. d \in TabType /\ Sound(d) /\ (Fresh(c) => Fresh(d))
    BY <1>1, <1>2, GoToKeeps
  <1> HIDE DEF d
  <1> QED
    BY <1>3, <1>4, PutStep

(* What every step starts from.                                            *)
LEMMA Before ==
    ASSUME Inv, NEW t \in Tabs
    PROVE  /\ tab[t] \in TabType /\ Sound(tab[t])
           /\ persisted = Absent => Fresh(tab[t])
           /\ stored \in MaybeToken /\ persisted \in MaybeToken \cup {Absent}
           /\ valid \subseteq Tokens /\ loads \in 0 .. MaxLoads /\ returns \in 0 .. MaxReturns
  BY DEF Inv, TypeOK

(* A step that shows a store shows its token and whether it loads.         *)
LEMMA ShowKeeps ==
    ASSUME Inv, NEW t \in Tabs, NEW c \in TabType, Sound(c), Show(t, c)
    PROVE  /\ tab'[t].token = c.token /\ tab'[t].isLoading = c.isLoading
           /\ Redirection(c) = c.route /\ ~SignInDone(c) => tab'[t] = c
           /\ \A u \in Tabs : u # t => tab'[u] = tab[u]
  <1> DEFINE b == Replaced(c)
             d == GoTo(b, Redirection(c))
  <1>1. Redirection(c) \in Pages
    BY RedirectionLeads
  <1>2. b \in TabType /\ Sound(b) /\ Same(c, b) /\ (~SignInDone(c) => b = c)
    BY ReplacedKeeps
  <1>3. tab' = [tab EXCEPT ![t] = d] /\ tab \in [Tabs -> TabType]
    BY DEF Show, Inv, TypeOK
  <1> HIDE DEF b
  <1>4. Same(b, d) /\ (Redirection(c) = b.route => d = b)
    BY <1>1, <1>2, GoToKeeps
  <1> HIDE DEF d
  <1> QED
    BY <1>2, <1>3, <1>4 DEF Same

(* What a tab that writes the storage leaves behind.                       *)
Agrees ==
    \A t \in Tabs : stored' # stored /\ tab'[t] # tab[t] =>
        \/ stored' = tab'[t].token
        \/ tab'[t].isLoading
        \/ tab'[t].phase = "processing"

LEMMA AgreesByShow ==
    ASSUME Inv, NEW t \in Tabs, NEW c \in TabType, Sound(c), Show(t, c),
           stored' = c.token \/ c.isLoading
    PROVE  Agrees
  BY ShowKeeps DEF Agrees

LEMMA OpenStep ==
    ASSUME Inv, NEW t \in Tabs, NEW page \in Pages, NEW x \in MaybeToken, Open(t, page, x)
    PROVE  Inv'
  <1> DEFINE token == InitialToken
             c == Loaded(page, x, token, RequestToken)
  <1>1. token \in MaybeToken /\ RequestToken \in MaybeToken
    BY Before DEF InitialToken, RequestToken
  <1>3. c \in TabType /\ Sound(c) /\ Fresh(c)
    BY <1>1, LoadedIsSound
  <1>4. Show(t, c) /\ PersistLoad(token) /\ UNCHANGED <<stored, valid, returns>>
        /\ loads < MaxLoads /\ loads' = loads + 1
    BY DEF Open
  <1>5. persisted' \in MaybeToken \cup {Absent} /\ (persisted' = Absent => persisted = Absent)
    BY <1>4, Before DEF PersistLoad, MaybeToken
  <1>6. loads' \in 0 .. MaxLoads
    BY <1>4, Before
  <1> HIDE DEF c, token
  <1> QED
    BY <1>3, <1>4, <1>5, <1>6, Before, ShowStep

LEMMA LoginStep ==
    ASSUME Inv, NEW t \in Tabs, InitiateOAuthLogin(t)
    PROVE  Inv'
  <1>1. "oauth_success" \in Pages /\ "oauth_error" \in Pages
    BY DEF Pages, PublicPages
  <1>2. valid \subseteq MaybeToken /\ None \in MaybeToken
    BY Before DEF MaybeToken
  <1> QED
    BY <1>1, <1>2, OpenStep DEF InitiateOAuthLogin

(* A fetch that is over, and one that is shared.                           *)
LEMMA FetchTypes ==
    ASSUME NEW f \in [with : MaybeToken, waiting : SUBSET {"initialize", "setAuthData", "again"}],
           NEW token \in MaybeToken
    PROVE  /\ NoFetch \in [with : MaybeToken, waiting : SUBSET {"initialize", "setAuthData", "again"}]
           /\ NoFetch.waiting = {}
           /\ \A who \in {"setAuthData", "again"} :
                LET g == FetchWithLock(f, token, who) IN
                /\ g \in [with : MaybeToken, waiting : SUBSET {"initialize", "setAuthData", "again"}]
                /\ g.waiting = f.waiting \cup {who}
  <1>1. NoFetch = [with |-> None, waiting |-> {}]
    BY DEF NoFetch
  <1> SUFFICES ASSUME NEW who \in {"setAuthData", "again"}
               PROVE  LET g == FetchWithLock(f, token, who) IN
                      /\ g \in [with : MaybeToken, waiting : SUBSET {"initialize", "setAuthData", "again"}]
                      /\ g.waiting = f.waiting \cup {who}
    BY <1>1 DEF MaybeToken
  <1>2. CASE f.waiting = {}
    <2>1. FetchWithLock(f, token, who) = [with |-> token, waiting |-> {who}]
      BY <1>2 DEF FetchWithLock
    <2> QED
      BY <1>2, <2>1
  <1>3. CASE f.waiting # {}
    <2>1. FetchWithLock(f, token, who) = [f EXCEPT !.waiting = @ \cup {who}]
      BY <1>3 DEF FetchWithLock
    <2> QED
      BY <2>1
  <1> QED
    BY <1>2, <1>3

(* A timer more, and the end of a sign-in on its page, change nothing else.*)
LEMMA MinorSteps ==
    ASSUME NEW c \in TabType, Sound(c)
    PROVE  /\ AnotherTimer(c) \in TabType /\ Sound(AnotherTimer(c))
           /\ Same(c, AnotherTimer(c)) /\ (Fresh(c) => Fresh(AnotherTimer(c)))
           /\ AnotherTimer(c).fetch = c.fetch /\ AnotherTimer(c).urlToken = c.urlToken
           /\ AnotherTimer(c).route = c.route
           /\ c.fetch.waiting = {} => \A phase \in {"done", "failed"} :
                LET d == Processed(c, phase) IN
                d \in TabType /\ Sound(d) /\ Same(c, d)
  <1> DEFINE a == AnotherTimer(c)
  <1>1. a = [c EXCEPT !.timers = a.timers] /\ a.timers \in {"one", "more"}
    BY DEF AnotherTimer, TabType
  <1> HIDE DEF a
  <1>2. a \in TabType
    BY <1>1 DEF TabType
  <1>3. Same(c, a) /\ a.fetch = c.fetch /\ a.urlToken = c.urlToken /\ a.phase = c.phase
        /\ a.call = c.call /\ a.route = c.route
    BY <1>1 DEF TabType, Same
  <1>4. Sound(a) /\ (Fresh(c) => Fresh(a))
    BY <1>3 DEF Sound, Fresh, Same
  <1>5. ASSUME c.fetch.waiting = {}, NEW phase \in {"done", "failed"}
        PROVE  LET d == Processed(c, phase) IN
               d \in TabType /\ Sound(d) /\ Same(c, d)
    <2> DEFINE d == Processed(c, phase)
    <2>1. d = [c EXCEPT !.phase = d.phase] /\ d.phase \in {c.phase, phase}
          /\ (d.phase # "off" => c.phase # "off")
      BY DEF Processed, TabType
    <2> HIDE DEF d
    <2>2. d \in TabType
      BY <2>1 DEF TabType
    <2>3. Same(c, d) /\ d.fetch = c.fetch /\ d.urlToken = c.urlToken /\ d.route = c.route
      BY <2>1 DEF TabType, Same
    <2>4. Sound(d)
      BY <1>5, <2>1, <2>3 DEF Sound, Same
    <2> QED
      BY <2>2, <2>3, <2>4 DEF d
  <1> QED
    BY <1>2, <1>3, <1>4, <1>5 DEF a

LEMMA ProcessOAuthStep ==
    ASSUME Inv, NEW t \in Tabs, ProcessOAuth(t)
    PROVE  Inv' /\ Agrees
  <1> DEFINE c == tab[t]
             failed == [AnotherTimer(c) EXCEPT !.phase = "failed"]
             who == IF "setAuthData" \in c.fetch.waiting THEN "again" ELSE "setAuthData"
             fetch == FetchWithLock(c.fetch, c.urlToken, who)
             waits == [c EXCEPT !.phase = "processing", !.fetch = fetch]
  <1>1. c \in TabType /\ Sound(c) /\ c.phase = "opening"
        /\ UNCHANGED <<persisted, valid, bounds>>
    BY Before DEF ProcessOAuth
  <1>2. CASE c.urlToken = None /\ Show(t, failed) /\ UNCHANGED stored
    <2>1. /\ AnotherTimer(c) \in TabType /\ Sound(AnotherTimer(c))
          /\ Same(c, AnotherTimer(c)) /\ (Fresh(c) => Fresh(AnotherTimer(c)))
          /\ AnotherTimer(c).fetch = c.fetch /\ AnotherTimer(c).urlToken = c.urlToken
          /\ AnotherTimer(c).route = c.route
      BY <1>1, MinorSteps
    <2>2. failed \in TabType
      BY <2>1 DEF TabType
    <2>3. /\ Same(c, failed) /\ failed.fetch = c.fetch /\ failed.urlToken = c.urlToken
          /\ failed.call = AnotherTimer(c).call /\ failed.route = c.route
      BY <2>1 DEF TabType, Same
    <2>4. Sound(failed) /\ (Fresh(c) => Fresh(failed))
      BY <1>1, <1>2, <2>1, <2>3 DEF Sound, Fresh, Same
    <2> HIDE DEF failed
    <2> QED
      BY <1>1, <1>2, <2>2, <2>4, Before, ShowStep DEF Agrees, bounds
  <1>3. CASE c.urlToken # None /\ SetToken(c.urlToken) /\ Show(t, waits)
    <2>1. /\ c.urlToken \in MaybeToken
          /\ c.fetch \in [with : MaybeToken, waiting : SUBSET {"initialize", "setAuthData", "again"}]
      BY <1>1 DEF TabType
    <2>2. /\ fetch \in [with : MaybeToken, waiting : SUBSET {"initialize", "setAuthData", "again"}]
          /\ fetch.waiting = c.fetch.waiting \cup {who}
      BY <2>1, FetchTypes
    <2> HIDE DEF fetch
    <2>3. waits \in TabType
      BY <1>1, <2>2 DEF TabType
    <2>4. /\ waits.phase = "processing" /\ waits.fetch = fetch /\ waits.call = c.call
          /\ waits.urlToken = c.urlToken /\ Same(c, waits) /\ waits.route = c.route
      BY <1>1 DEF TabType, Same
    <2> HIDE DEF waits
    <2>5. Sound(waits) /\ (Fresh(c) => Fresh(waits))
      BY <1>1, <1>3, <2>2, <2>4 DEF Sound, Fresh, Same
    <2>6. stored' \in MaybeToken
      BY <1>3, <2>1 DEF SetToken
    <2>7. ~SignInDone(waits) /\ waits.route = "oauth_success"
      BY <1>1, <2>4 DEF SignInDone, Sound
    <2>8. Redirection(waits) = waits.route
      BY <2>7 DEF Redirection, NotSignedIn, NotAdmin, AtHome, Guarded, ProtectedPages, AdminPages
    <2>9. Agrees
      BY <1>3, <2>3, <2>4, <2>5, <2>7, <2>8, ShowKeeps DEF Agrees
    <2> QED
      BY <1>1, <1>3, <2>3, <2>5, <2>6, <2>9, Before, ShowStep DEF bounds
  <1> QED
    BY <1>2, <1>3 DEF ProcessOAuth

LEMMA UserArrivesStep ==
    ASSUME Inv, NEW t \in Tabs, UserArrives(t)
    PROVE  Inv'
  <1> DEFINE c == [tab[t] EXCEPT !.fetch = NoFetch]
             f == tab[t].fetch
             u == Owner[f.with]
             signed == AuthDataSet(c, u, c.urlToken)
             done == IF "setAuthData" \in f.waiting THEN Processed(signed, "done")
                     ELSE Initialized(c, u)
  <1>1. tab[t] \in TabType /\ Sound(tab[t])
    BY Before
  <1>2. f.waiting # {} /\ f.with \in valid /\ Show(t, done) /\ Persist(done)
        /\ UNCHANGED <<stored, valid, bounds>>
    BY DEF UserArrives
  <1>3. u \in Accounts /\ u # None
    BY <1>2, Before DEF Accounts
  <1>4. f \in [with : MaybeToken, waiting : SUBSET {"initialize", "setAuthData", "again"}]
    BY <1>1 DEF TabType
  <1>5. /\ NoFetch \in [with : MaybeToken, waiting : SUBSET {"initialize", "setAuthData", "again"}]
        /\ NoFetch.waiting = {}
    BY <1>4, FetchTypes DEF MaybeToken
  <1> HIDE DEF u
  <1>6. done \in TabType /\ Sound(done)
    <2>1. CASE "setAuthData" \in f.waiting
      <3>1. tab[t].urlToken # None /\ tab[t].urlToken \in MaybeToken
        BY <1>1, <2>1 DEF Sound, TabType
      <3>2. signed = [tab[t] EXCEPT !.fetch = NoFetch, !.user = u, !.isAuthenticated = TRUE,
                        !.isLoading = FALSE, !.token = tab[t].urlToken]
        BY <1>1 DEF AuthDataSet, Initialized, TabType
      <3> HIDE DEF signed
      <3>3. signed \in TabType
        BY <1>1, <1>3, <1>5, <3>1, <3>2 DEF TabType
      <3>4. /\ signed.fetch = NoFetch /\ signed.user = u /\ signed.isAuthenticated
            /\ signed.token = tab[t].urlToken /\ signed.urlToken = tab[t].urlToken
            /\ signed.phase = tab[t].phase /\ signed.route = tab[t].route
        BY <1>1, <3>2 DEF TabType
      <3>5. Sound(signed)
        BY <1>1, <1>3, <1>5, <3>1, <3>4 DEF Sound
      <3> QED
        BY <1>5, <2>1, <3>3, <3>4, <3>5, MinorSteps
    <2>2. CASE "setAuthData" \notin f.waiting
      <3>1. "initialize" \in f.waiting
        BY <1>1, <1>2, <1>4, <2>2 DEF Sound
      <3>2. done = [tab[t] EXCEPT !.fetch = NoFetch, !.user = u, !.isAuthenticated = TRUE,
                        !.isLoading = FALSE]
        BY <1>1, <2>2 DEF Initialized, TabType
      <3> HIDE DEF done
      <3>3. done \in TabType
        BY <1>1, <1>3, <1>5, <3>2 DEF TabType
      <3>4. /\ done.fetch = NoFetch /\ done.user = u /\ done.token = tab[t].token
            /\ done.isAuthenticated
            /\ done.phase = tab[t].phase /\ done.route = tab[t].route
        BY <1>1, <3>2 DEF TabType
      <3>5. Sound(done)
        BY <1>1, <1>3, <1>5, <2>2, <3>1, <3>4 DEF Sound
      <3> QED
        BY <3>3, <3>5
    <2> QED
      BY <2>1, <2>2
  <1>7. persisted' \in MaybeToken
    <2> HIDE DEF done
    <2> QED
      BY <1>2, <1>6 DEF Persist, TabType
  <1>8. persisted' # Absent
    BY <1>7 DEF MaybeToken
  <1> HIDE DEF done
  <1> QED
    BY <1>2, <1>6, <1>7, <1>8, Before, ShowStep DEF bounds

(* A tab whose store was cleared, or that is sent to the sign-in page.     *)
LEMMA ExpelledStep ==
    ASSUME Inv, NEW t \in Tabs, NEW token \in MaybeToken, Expelled(t, token),
           persisted' \in MaybeToken, UNCHANGED <<valid, bounds>>
    PROVE  Inv' /\ Agrees
  <1> DEFINE c == Loaded("login", None, token, None)
  <1>1. "login" \in Pages /\ None \in MaybeToken
    BY DEF Pages, PublicPages, MaybeToken
  <1>2. c \in TabType /\ Sound(c) /\ c.token = token /\ c.isLoading = (token # None)
    BY <1>1, LoadedIsSound
  <1>3. Show(t, c) /\ stored' = None /\ persisted' # Absent
    BY <1>1 DEF Expelled, RemoveToken, MaybeToken
  <1> HIDE DEF c
  <1> QED
    BY <1>1, <1>2, <1>3, Before, ShowStep, AgreesByShow DEF bounds

LEMMA UserFailsStep ==
    ASSUME Inv, NEW t \in Tabs, NEW refused \in BOOLEAN, UserFails(t, refused)
    PROVE  Inv' /\ Agrees
  <1> DEFINE c == [tab[t] EXCEPT !.fetch = NoFetch]
             f == tab[t].fetch
             timed == IF "again" \in f.waiting THEN AnotherTimer(AnotherTimer(c)) ELSE AnotherTimer(c)
             failed == IF "setAuthData" \in f.waiting THEN Processed(FetchFailed(timed), "failed")
                       ELSE FetchFailed(c)
  <1>1. tab[t] \in TabType /\ Sound(tab[t])
    BY Before
  <1>2. persisted' = None /\ UNCHANGED <<valid, bounds>>
    BY DEF UserFails
  <1>3. None \in MaybeToken /\ None # Absent
    BY DEF MaybeToken
  <1>4. CASE refused /\ c.route \notin AuthPages
    <2>1. Expelled(t, None)
      BY <1>4 DEF UserFails
    <2> QED
      BY <1>2, <1>3, <2>1, ExpelledStep
  <1>5. CASE ~(refused /\ c.route \notin AuthPages)
    <2>1. RemoveToken /\ Show(t, failed)
      BY <1>5 DEF UserFails
    <2>2. /\ NoFetch \in [with : MaybeToken, waiting : SUBSET {"initialize", "setAuthData", "again"}]
          /\ NoFetch.waiting = {}
      BY <1>1, <1>3, FetchTypes DEF TabType
    <2>3. c \in TabType /\ Sound(c) /\ c.fetch = NoFetch
      <3>1. c \in TabType
        BY <1>1, <2>2 DEF TabType
      <3>2. /\ c.fetch = NoFetch /\ Same(tab[t], c) /\ c.urlToken = tab[t].urlToken
            /\ c.phase = tab[t].phase /\ c.route = tab[t].route
        BY <1>1 DEF TabType, Same
      <3> QED
        BY <1>1, <2>2, <3>1, <3>2 DEF Sound, Same
    <2>5. timed \in TabType /\ Sound(timed) /\ timed.fetch = NoFetch
      BY <2>3, MinorSteps
    <2>6. ASSUME NEW b \in TabType, Sound(b), b.fetch = NoFetch
          PROVE  LET d == FetchFailed(b) IN
                 /\ d \in TabType /\ Sound(d) /\ d.token = None /\ d.fetch = NoFetch
      <3> DEFINE d == FetchFailed(b)
      <3>1. d = [b EXCEPT !.user = None, !.token = None, !.isAuthenticated = FALSE, !.isLoading = FALSE]
        BY DEF FetchFailed, Cleared
      <3> HIDE DEF d
      <3>2. d \in TabType
        BY <1>3, <2>6, <3>1 DEF TabType
      <3>3. /\ d.fetch = NoFetch /\ d.token = None /\ d.isAuthenticated = FALSE
            /\ d.urlToken = b.urlToken /\ d.phase = b.phase /\ d.route = b.route
        BY <2>6, <3>1 DEF TabType
      <3>4. Sound(d)
        BY <2>2, <2>6, <3>3 DEF Sound
      <3> QED
        BY <3>2, <3>3, <3>4 DEF d
    <2> HIDE DEF c, timed
    <2>7. failed \in TabType /\ Sound(failed) /\ failed.token = None
      <3>1. CASE "setAuthData" \in f.waiting
        <4> DEFINE b == FetchFailed(timed)
        <4>1. b \in TabType /\ Sound(b) /\ b.token = None /\ b.fetch = NoFetch
          BY <2>5, <2>6
        <4> HIDE DEF b
        <4>2. LET d == Processed(b, "failed") IN d \in TabType /\ Sound(d) /\ d.token = None
          BY <2>2, <4>1, MinorSteps DEF Same
        <4> QED
          BY <3>1, <4>2 DEF b
      <3>2. CASE "setAuthData" \notin f.waiting
        BY <2>3, <2>6, <3>2
      <3> QED
        BY <3>1, <3>2
    <2>4. stored' = None
      BY <2>1 DEF RemoveToken
    <2> HIDE DEF failed
    <2> QED
      BY <1>2, <1>3, <2>1, <2>4, <2>7, Before, ShowStep, AgreesByShow DEF bounds
  <1> QED
    BY <1>4, <1>5

LEMMA TimerLoginStep ==
    ASSUME Inv, NEW t \in Tabs, TimerLogin(t)
    PROVE  Inv'
  <1>1. PICK timers \in {"none", "one", "more"} :
             Show(t, GoTo([tab[t] EXCEPT !.timers = timers], "login"))
    BY DEF TimerLogin
  <1> DEFINE c == [tab[t] EXCEPT !.timers = timers]
             d == GoTo(c, "login")
  <1>2. tab[t] \in TabType /\ Sound(tab[t]) /\ UNCHANGED <<stored, persisted, valid, bounds>>
    BY Before DEF TimerLogin
  <1>3. c \in TabType
    BY <1>2 DEF TabType
  <1>4. /\ c.route = tab[t].route /\ c.call = tab[t].call /\ c.phase = tab[t].phase
        /\ c.urlToken = tab[t].urlToken /\ c.fetch = tab[t].fetch /\ Same(tab[t], c)
    BY <1>2 DEF TabType, Same
  <1>5. Sound(c) /\ (Fresh(tab[t]) => Fresh(c))
    BY <1>2, <1>4 DEF Sound, Fresh, Same
  <1> HIDE DEF c
  <1>6. "login" \in Pages
    BY DEF Pages, PublicPages
  <1>7. d \in TabType /\ Sound(d) /\ (Fresh(c) => Fresh(d))
    BY <1>3, <1>5, <1>6, GoToKeeps
  <1>8. Show(t, d)
    BY <1>1 DEF c
  <1> HIDE DEF d
  <1> QED
    BY <1>2, <1>5, <1>7, <1>8, Before, ShowStep DEF bounds

(* A link, and the browser's buttons, lead to a page.                      *)
LEMMA FollowStep ==
    ASSUME Inv, NEW t \in Tabs, NEW page \in Pages, Follow(t, page) \/ History(t, page)
    PROVE  Inv'
  <1> DEFINE d == GoTo(tab[t], page)
  <1>1. /\ tab[t] \in TabType /\ Sound(tab[t]) /\ Show(t, d)
        /\ UNCHANGED <<stored, persisted, valid, loads>> /\ returns' \in 0 .. MaxReturns
    BY Before DEF Follow, History, bounds
  <1>2. d \in TabType /\ Sound(d) /\ (Fresh(tab[t]) => Fresh(d))
    BY <1>1, GoToKeeps
  <1> HIDE DEF d
  <1> QED
    BY <1>1, <1>2, Before, ShowStep

LEMMA HandleLogoutStep ==
    ASSUME Inv, NEW t \in Tabs, HandleLogout(t)
    PROVE  Inv' /\ Agrees
  <1> DEFINE c == Cleared(tab[t])
             d == GoTo(c, "login")
  <1>1. tab[t] \in TabType /\ Sound(tab[t]) /\ Granted(tab[t])
        /\ RemoveToken /\ Persist(c) /\ Show(t, d) /\ UNCHANGED <<valid, bounds>>
    BY Before DEF HandleLogout, UserMenuShown
  <1>2. None \in MaybeToken /\ None # Absent
    BY DEF MaybeToken
  <1>3. c = [tab[t] EXCEPT !.user = None, !.token = None, !.isAuthenticated = FALSE]
    BY DEF Cleared
  <1> HIDE DEF c
  <1>4. c \in TabType
    BY <1>1, <1>2, <1>3 DEF TabType
  <1>5. /\ c.route = tab[t].route /\ c.call = tab[t].call /\ c.phase = tab[t].phase
        /\ c.urlToken = tab[t].urlToken /\ c.fetch = tab[t].fetch /\ c.token = None
        /\ c.isAuthenticated = FALSE
    BY <1>1, <1>3 DEF TabType
  <1>6. ~tab[t].isLoading
    BY <1>1 DEF Granted
  <1>7. Sound(c)
    BY <1>1, <1>5, <1>6 DEF Sound
  <1>8. "login" \in Pages
    BY DEF Pages, PublicPages
  <1>9. d \in TabType /\ Sound(d) /\ d.token = None
    BY <1>4, <1>5, <1>7, <1>8, GoToKeeps DEF Same
  <1>10. stored' = None /\ persisted' = None
    BY <1>1, <1>2, <1>5 DEF RemoveToken, Persist
  <1> HIDE DEF d
  <1> QED
    BY <1>1, <1>2, <1>9, <1>10, Before, ShowStep, AgreesByShow DEF bounds

(* The name's form.                                                        *)
LEMMA EditStep ==
    ASSUME Inv, NEW t \in Tabs, HandleEditName(t) \/ HandleCancelEdit(t)
    PROVE  Inv'
  <1>1. tab[t] \in TabType /\ Sound(tab[t])
        /\ UNCHANGED <<stored, persisted, valid, bounds>>
    BY Before DEF HandleEditName, HandleCancelEdit
  <1>2. PICK b \in BOOLEAN : tab' = [tab EXCEPT ![t] = [tab[t] EXCEPT !.editing = b]]
    BY DEF HandleEditName, HandleCancelEdit
  <1> DEFINE c == [tab[t] EXCEPT !.editing = b]
  <1>3. c \in TabType
    BY <1>1 DEF TabType
  <1>4. /\ c.route = tab[t].route /\ c.call = tab[t].call /\ c.phase = tab[t].phase
        /\ c.urlToken = tab[t].urlToken /\ c.fetch = tab[t].fetch /\ c.user = tab[t].user
        /\ c.token = tab[t].token /\ c.isLoading = tab[t].isLoading
        /\ c.isAuthenticated = tab[t].isAuthenticated
    BY <1>1 DEF TabType
  <1>5. Sound(c) /\ (Fresh(tab[t]) => Fresh(c))
    BY <1>1, <1>4 DEF Sound, Fresh
  <1> HIDE DEF c
  <1> QED
    BY <1>1, <1>2, <1>3, <1>5, Before, PutStep DEF c, bounds

(* Only a page that is granted to someone who is signed in makes calls.    *)
LEMMA CallStep ==
    ASSUME Inv, NEW t \in Tabs, HandleSaveName(t) \/ Request(t)
    PROVE  Inv'
  <1>1. PICK kind \in {"save", "page"} : Granted(tab[t]) /\ Call(t, kind)
    BY DEF HandleSaveName, Request, Editing, ProfileShown
  <1> DEFINE call == [kind |-> kind, with |-> RequestToken]
             c == [tab[t] EXCEPT !.call = call]
  <1>2. tab[t] \in TabType /\ Sound(tab[t]) /\ tab' = [tab EXCEPT ![t] = c]
        /\ UNCHANGED <<stored, persisted, valid, bounds>>
    BY <1>1, Before DEF Call
  <1>3. call \in [kind : {"none", "page", "save", "lateSave"}, with : MaybeToken]
    BY Before DEF RequestToken
  <1> HIDE DEF call
  <1>4. c \in TabType
    BY <1>2, <1>3 DEF TabType
  <1>5. /\ c.route = tab[t].route /\ c.phase = tab[t].phase
        /\ c.urlToken = tab[t].urlToken /\ c.fetch = tab[t].fetch /\ c.user = tab[t].user
        /\ c.token = tab[t].token /\ c.isLoading = tab[t].isLoading
        /\ c.isAuthenticated = tab[t].isAuthenticated
    BY <1>2 DEF TabType
  <1>6. tab[t].route # "oauth_success" /\ tab[t].isAuthenticated
    BY <1>1 DEF Granted, Guarded, ProtectedPages, AdminPages
  <1>7. Sound(c)
    BY <1>2, <1>5, <1>6 DEF Sound
  <1>8. persisted # Absent
    BY <1>6, Before DEF Fresh
  <1> HIDE DEF c
  <1> QED
    BY <1>2, <1>4, <1>7, <1>8, Before, PutStep DEF bounds

LEMMA AnsweredStep ==
    ASSUME Inv, NEW t \in Tabs, Answered(t)
    PROVE  Inv' /\ Agrees
  <1> DEFINE call == tab[t].call
             c == [tab[t] EXCEPT !.call = NoCall]
             u == Owner[call.with]
             saved == [SetUser(c, u) EXCEPT !.editing = call.kind = "lateSave" /\ @]
  <1>1. tab[t] \in TabType /\ Sound(tab[t]) /\ call # NoCall /\ UNCHANGED <<valid, bounds>>
    BY Before DEF Answered
  <1>2. persisted \in MaybeToken
    BY <1>1, Before DEF Fresh
  <1>4. NoCall \in [kind : {"none", "page", "save", "lateSave"}, with : MaybeToken]
    BY DEF NoCall, MaybeToken
  <1>5. c \in TabType
    BY <1>1, <1>4 DEF TabType
  <1>6. /\ c.route = tab[t].route /\ c.phase = tab[t].phase /\ c.call = NoCall
        /\ c.urlToken = tab[t].urlToken /\ c.fetch = tab[t].fetch /\ c.user = tab[t].user
        /\ c.token = tab[t].token /\ c.isLoading = tab[t].isLoading
        /\ c.isAuthenticated = tab[t].isAuthenticated
    BY <1>1 DEF TabType
  <1>7. Sound(c)
    BY <1>1, <1>6 DEF Sound
  <1>8. ASSUME call.with \in valid, Show(t, saved), Persist(saved), UNCHANGED stored
        PROVE  Inv' /\ Agrees
    <2>1. u \in Accounts /\ u # None
      BY <1>8, Before DEF Accounts
    <2> HIDE DEF u
    <2>2. PICK b \in BOOLEAN : saved = [c EXCEPT !.user = u, !.editing = b,
                                          !.isAuthenticated = (u # None /\ c.token # None)]
      BY <1>1, <1>5 DEF SetUser, TabType
    <2> HIDE DEF c, saved
    <2>3. saved \in TabType
      BY <1>5, <2>1, <2>2 DEF TabType
    <2>4. /\ saved.route = c.route /\ saved.phase = c.phase /\ saved.call = NoCall
          /\ saved.urlToken = c.urlToken /\ saved.fetch = c.fetch /\ saved.user = u
          /\ saved.token = c.token /\ saved.isLoading = c.isLoading
          /\ saved.isAuthenticated = (u # None /\ c.token # None)
      BY <1>5, <1>6, <2>2 DEF TabType
    <2>6. Sound(saved)
      BY <1>7, <2>1, <2>4 DEF Sound
    <2>7. persisted' \in MaybeToken /\ persisted' # Absent
      BY <1>8, <2>3 DEF Persist, TabType, MaybeToken
    <2> QED
      BY <1>1, <1>8, <2>3, <2>6, <2>7, Before, ShowStep DEF Agrees, bounds
  <1>9. ASSUME Show(t, c), UNCHANGED storage
        PROVE  Inv' /\ Agrees
    <2> HIDE DEF c
    <2>1. persisted' # Absent
      BY <1>2, <1>9 DEF storage, MaybeToken
    <2> QED
      BY <1>1, <1>5, <1>7, <1>9, <2>1, Before, ShowStep DEF storage, Agrees, bounds
  <1>10. ASSUME Expelled(t, persisted), UNCHANGED persisted
         PROVE  Inv' /\ Agrees
    BY <1>1, <1>2, <1>10, ExpelledStep
  <1> QED
    BY <1>8, <1>9, <1>10 DEF Answered

-----------------------------------------------------------------------------
LEMMA ShellStarts == Init => Inv
  <1> SUFFICES ASSUME Init
               PROVE  Inv
    OBVIOUS
  <1> DEFINE c == Loaded("landing", None, None, None)
  <1>1. "landing" \in Pages /\ None \in MaybeToken
    BY DEF Pages, PublicPages, MaybeToken
  <1>2. c \in TabType /\ Sound(c) /\ Fresh(c)
    BY <1>1, LoadedIsSound
  <1>3. tab = [t \in Tabs |-> c]
    BY DEF Init
  <1> HIDE DEF c
  <1>4. stored \in MaybeToken /\ persisted \in MaybeToken \cup {Absent}
        /\ valid \subseteq Tokens /\ loads \in 0 .. MaxLoads /\ returns \in 0 .. MaxReturns
    BY <1>1 DEF Init
  <1>5. tab \in [Tabs -> TabType] /\ \A t \in Tabs : Sound(tab[t]) /\ Fresh(tab[t])
    BY <1>2, <1>3
  <1> QED
    BY <1>4, <1>5 DEF Inv, TypeOK

LEMMA ShellStep == Inv /\ [Next]_vars => Inv' /\ Agrees
  <1> SUFFICES ASSUME Inv, [Next]_vars
               PROVE  Inv' /\ Agrees
    OBVIOUS
  <1>1. ASSUME NEW x \in Tokens, Expire(x)
        PROVE  Inv' /\ Agrees
    BY <1>1 DEF Agrees, Expire, bounds, Inv, TypeOK, Sound, Fresh, TabType, Pages, PublicPages, Guarded,
                ProtectedPages, AdminPages, MeetingPages, Accounts, MaybeToken, NoCall
  <1>2. CASE UNCHANGED vars
    BY <1>2 DEF Agrees, vars, bounds, Inv, TypeOK, Sound, Fresh, TabType, Pages, PublicPages, Guarded,
                ProtectedPages, AdminPages, MeetingPages, Accounts, MaybeToken, NoCall
  <1>3. ASSUME NEW t \in Tabs, NEW page \in Pages, NEW x \in MaybeToken, Open(t, page, x)
        PROVE  Inv' /\ Agrees
    BY <1>3, OpenStep DEF Open, Agrees
  <1>4. ASSUME NEW t \in Tabs, NEW page \in Pages, Follow(t, page) \/ History(t, page)
        PROVE  Inv' /\ Agrees
    BY <1>4, FollowStep DEF Follow, History, Agrees
  <1>5. ASSUME NEW t \in Tabs,
               InitiateOAuthLogin(t) \/ TimerLogin(t) \/ UserArrives(t)
        PROVE  Inv' /\ Agrees
    BY <1>5, LoginStep, TimerLoginStep, UserArrivesStep
    DEF InitiateOAuthLogin, Open, TimerLogin, UserArrives, Agrees
  <1>6. ASSUME NEW t \in Tabs,
               \/ HandleEditName(t) \/ HandleCancelEdit(t)
               \/ Request(t) \/ HandleSaveName(t)
        PROVE  Inv' /\ Agrees
    BY <1>6, EditStep, CallStep
    DEF HandleEditName, HandleCancelEdit, Request, HandleSaveName, Call, Agrees
  <1>7. ASSUME NEW t \in Tabs,
               \/ ProcessOAuth(t) \/ UserFails(t, TRUE) \/ UserFails(t, FALSE)
               \/ HandleLogout(t) \/ Answered(t)
        PROVE  Inv' /\ Agrees
    BY <1>7, ProcessOAuthStep, UserFailsStep, HandleLogoutStep, AnsweredStep
  <1> QED
    BY <1>1, <1>2, <1>3, <1>4, <1>5, <1>6, <1>7 DEF Next

LEMMA ShellInvariant == Spec => []Inv
  BY ShellStarts, ShellStep, PTL DEF Spec

(* Every variable keeps its type: in particular no store ever takes the    *)
(* missing entry of "auth-storage" for a token.                            *)
THEOREM ShellTypeCorrect == Spec => []TypeOK
  <1>1. Inv => TypeOK
    BY DEF Inv
  <1> QED
    BY <1>1, ShellInvariant, PTL

(* A tab that counts as signed in has a user and a token, whichever of the *)
(* shared request, the profile's late answer and a refused token comes     *)
(* first.                                                                  *)
THEOREM AuthenticatedHasBothHolds == Spec => []AuthenticatedHasBoth
  <1>1. Inv => AuthenticatedHasBoth
    BY DEF Inv, AuthenticatedHasBoth, Sound
  <1> QED
    BY <1>1, ShellInvariant, PTL

(* A tab that writes the storage ends with the store and the storage equal *)
(* or waits for its user, whatever the other tabs do to the storage.       *)
THEOREM WritesAgreeHolds == Spec => WritesAgree
  <1>1. Inv /\ [Next]_vars => [Agrees]_vars
    BY ShellStep
  <1>2. [][Agrees]_vars => WritesAgree
    BY DEF Agrees, WritesAgree
  <1> QED
    BY <1>1, <1>2, ShellInvariant, PTL DEF Spec
=============================================================================
