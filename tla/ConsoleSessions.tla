-------------------------- MODULE ConsoleSessions --------------------------
(***************************************************************************)
(* How the console signs people in: auth/session.py and the /auth/ routes  *)
(* of gui_server.py.  Requests run on threads and share two dictionaries   *)
(* without a lock: the logins under way (_pkce_store) and the sessions     *)
(* (_store).  A session whose access token is about to expire is refreshed *)
(* at the identity provider by whichever request notices it.               *)
(***************************************************************************)
EXTENDS Integers, Sequences, FiniteSets

CONSTANTS
  Requests,   \* the threads serving the console
  Browsers,
  Logins,     \* login states, each drawn once
  Sessions,   \* session ids, each drawn once
  MaxLogins,  \* _MAX_PKCE_ENTRIES
  MaxRefresh, \* bound: how often the provider renews one session
  Rotates,    \* the provider accepts a refresh token once
  Gone,       \* no entry in the session store
  NoLogin, NoSession, Nobody

ASSUME LoginBound == MaxLogins \in Nat \ {0}
ASSUME RefreshBound == MaxRefresh \in Nat
ASSUME Rotation == Rotates \in BOOLEAN
ASSUME Outsiders == NoLogin \notin Logins /\ NoSession \notin Sessions /\ Nobody \notin Browsers

(* What a session holds: the refresh token by its number (or none), and    *)
(* whether the access token and the session itself are in their last       *)
(* minute or past their life.                                              *)
Data == [refresh : 0..MaxRefresh, renewable : BOOLEAN, expiring : BOOLEAN, over : BOOLEAN]

ASSUME NoData == Gone \notin Data

Stages == {"idle", "login_purge", "login_cap", "login_sort", "login_evict", "login_url", "exchange", "session_purge",
           "lookup", "refresh", "update", "merge", "logout"}

(* A request in progress, the logins it is sorting or about to evict, and  *)
(* whether the dictionary it iterates over has changed its size under it.  *)
Work == [at : Stages, browser : Browsers \cup {Nobody}, login : Logins \cup {NoLogin},
         session : Sessions \cup {NoSession}, refresh : 0..MaxRefresh,
         listed : SUBSET Logins, raced : BOOLEAN]

Idle == [at |-> "idle", browser |-> Nobody, login |-> NoLogin, session |-> NoSession,
         refresh |-> 0, listed |-> {}, raced |-> FALSE]

VARIABLES
  work,          \* the request each thread is serving
  pending,       \* _pkce_store: the logins under way
  begun,         \* every login there has been, by created_at, the oldest first
  stale,         \* logins older than _PKCE_TTL
  startedBy,     \* the browser that began a login
  stateCookie,   \* the login each browser remembers
  store,         \* _store
  madeFrom,      \* the login a session was made from
  sessionCookie, \* the session each browser holds
  issued,        \* the refresh token the provider issued last for a session
  loggedOut      \* sessions somebody has logged out of

loginVars == <<pending, begun, stale, startedBy, stateCookie>>
sessionVars == <<store, madeFrom, sessionCookie, issued, loggedOut>>
vars == <<work, pending, begun, stale, startedBy, stateCookie,
          store, madeFrom, sessionCookie, issued, loggedOut>>

TypeOK ==
  /\ work \in [Requests -> Work]
  /\ pending \subseteq Logins
  /\ begun \in Seq(Logins)
  /\ stale \subseteq Logins
  /\ startedBy \in [Logins -> Browsers \cup {Nobody}]
  /\ stateCookie \in [Browsers -> Logins \cup {NoLogin}]
  /\ store \in [Sessions -> Data \cup {Gone}]
  /\ madeFrom \in [Sessions -> Logins \cup {NoLogin}]
  /\ sessionCookie \in [Browsers -> Sessions \cup {NoSession}]
  /\ issued \in [Sessions -> 0..MaxRefresh]
  /\ loggedOut \subseteq Sessions

Init ==
  /\ work = [r \in Requests |-> Idle]
  /\ pending = {}
  /\ begun = <<>>
  /\ stale = {}
  /\ startedBy = [l \in Logins |-> Nobody]
  /\ stateCookie = [b \in Browsers |-> NoLogin]
  /\ store = [s \in Sessions |-> Gone]
  /\ madeFrom = [s \in Sessions |-> NoLogin]
  /\ sessionCookie = [b \in Browsers |-> NoSession]
  /\ issued = [s \in Sessions |-> 0]
  /\ loggedOut = {}

----------------------------------------------------------------------------
(* Request r goes on to its next stage; the others that iterate over the   *)
(* dictionary it has changed notice.                                       *)
Advance(r, next, disturbed) ==
  work' = [q \in Requests |->
             IF q = r THEN next
             ELSE IF work[q].at \in disturbed THEN [work[q] EXCEPT !.raced = TRUE]
             ELSE work[q]]

Answer(r, disturbed) == Advance(r, Idle, disturbed)

(* The stages that iterate over the logins and notice that one has gone.   *)
Iterating == {"login_purge", "login_sort"}

Older(k, l) == \E i \in DOMAIN begun : begun[i] = l /\ \E j \in 1..(i - 1) : begun[j] = k
Earliest(logins, n) == {l \in logins : Cardinality({k \in logins : Older(k, l)}) < n}

----------------------------------------------------------------------------
(* Signing in.                                                             *)

(* Bound: logins and sessions are drawn only while there are ids left for  *)
(* every thread about to draw one.                                         *)
AtStage(stage) == {r \in Requests : work[r].at = stage}
LoginLeft == Cardinality({l \in Logins : startedBy[l] = Nobody}) > Cardinality(AtStage("login_purge"))
SessionLeft == Cardinality({s \in Sessions : madeFrom[s] = NoLogin}) > Cardinality(AtStage("session_purge"))

(* GET /auth/login looks for logins that are too old.                      *)
BeginLogin(r, b) ==
  /\ work[r].at = "idle" /\ LoginLeft
  /\ Advance(r, [Idle EXCEPT !.at = "login_purge", !.browser = b], {})
  /\ UNCHANGED <<loginVars, sessionVars>>

(* It drops them and adds its own; the iteration raises when the           *)
(* dictionary has changed its size meanwhile.                              *)
AddLogin(r) ==
  /\ work[r].at = "login_purge"
  /\ \/ work[r].raced /\ Answer(r, {}) /\ UNCHANGED <<pending, begun, startedBy>>
     \/ \E l \in Logins :
          /\ startedBy[l] = Nobody
          /\ startedBy' = [startedBy EXCEPT ![l] = work[r].browser]
          /\ pending' = (pending \ stale) \cup {l}
          /\ begun' = Append(begun, l)
          /\ Advance(r, [work[r] EXCEPT !.at = "login_cap", !.login = l, !.raced = FALSE],
                     IF pending \cap stale = {} THEN {"login_purge"} ELSE Iterating)
  /\ UNCHANGED <<stale, stateCookie, sessionVars>>

(* When there are too many, a sort of the logins there are begins.         *)
CheckBound(r) ==
  /\ work[r].at = "login_cap"
  /\ Advance(r, IF Cardinality(pending) > MaxLogins
                THEN [work[r] EXCEPT !.at = "login_sort", !.listed = pending]
                ELSE [work[r] EXCEPT !.at = "login_url"], {})
  /\ UNCHANGED <<loginVars, sessionVars>>

(* The sort reads the age of each of them, and raises when another thread  *)
(* has removed one meanwhile.  Sorted, the oldest beyond the bound are     *)
(* chosen by the number of logins there are now; when that has fallen      *)
(* below the bound the end of the slice is negative, and counts from the   *)
(* newest.                                                                 *)
SortLogins(r) ==
  /\ work[r].at = "login_sort"
  /\ \/ work[r].raced /\ Answer(r, {})
     \/ LET excess == Cardinality(pending) - MaxLogins
            end == IF excess < 0 THEN Cardinality(work[r].listed) + excess ELSE excess IN
        Advance(r, [work[r] EXCEPT !.at = "login_evict", !.listed = Earliest(@, end), !.raced = FALSE], {})
  /\ UNCHANGED <<loginVars, sessionVars>>

EvictLogins(r) ==
  /\ work[r].at = "login_evict"
  /\ pending' = pending \ work[r].listed
  /\ Advance(r, [work[r] EXCEPT !.at = "login_url", !.listed = {}],
             IF pending' = pending THEN {} ELSE Iterating)
  /\ UNCHANGED <<begun, stale, startedBy, stateCookie, sessionVars>>

(* The browser is sent to the provider with a cookie that names its login; *)
(* when the address cannot be built the login stays in the store.          *)
SendToProvider(r) ==
  /\ work[r].at = "login_url"
  /\ \/ UNCHANGED stateCookie
     \/ stateCookie' = [stateCookie EXCEPT ![work[r].browser] = work[r].login]
  /\ Answer(r, {})
  /\ UNCHANGED <<pending, begun, stale, startedBy, sessionVars>>

(* Defect: the login is taken from the store before it is known whose it   *)
(* is.                                                                     *)
PopsFirst(r, b, l) ==
  /\ work[r].at = "idle" /\ startedBy[l] # Nobody
  /\ pending' = pending \ {l}
  /\ IF stateCookie[b] = l /\ l \in pending /\ l \notin stale
     THEN Advance(r, [Idle EXCEPT !.at = "exchange", !.browser = b, !.login = l], Iterating)
     ELSE Answer(r, Iterating)
  /\ UNCHANGED <<begun, stale, startedBy, stateCookie, sessionVars>>

(* Defect: any browser may finish a login.                                 *)
AnyBrowser(r, b, l) ==
  /\ work[r].at = "idle" /\ startedBy[l] # Nobody
  /\ l \in pending
  /\ pending' = pending \ {l}
  /\ IF l \in stale THEN Answer(r, Iterating)
     ELSE Advance(r, [Idle EXCEPT !.at = "exchange", !.browser = b, !.login = l], Iterating)
  /\ UNCHANGED <<begun, stale, startedBy, stateCookie, sessionVars>>

(* GET /auth/callback reaches the console from browser b for login l: it   *)
(* is refused unless b holds the cookie of that very login, which is then  *)
(* spent, even when it turns out to be too old.                            *)
Callback(r, b, l) ==
  /\ work[r].at = "idle" /\ startedBy[l] # Nobody
  /\ IF stateCookie[b] # l \/ l \notin pending
     THEN UNCHANGED <<work, pending>>
     ELSE /\ pending' = pending \ {l}
          /\ IF l \in stale
             THEN Answer(r, Iterating)
             ELSE Advance(r, [Idle EXCEPT !.at = "exchange", !.browser = b, !.login = l],
                          Iterating)
  /\ UNCHANGED <<begun, stale, startedBy, stateCookie, sessionVars>>

(* The code is exchanged and the token validated.                          *)
Exchange(r) ==
  /\ work[r].at = "exchange"
  /\ \/ Answer(r, {})
     \/ SessionLeft /\ Advance(r, [work[r] EXCEPT !.at = "session_purge"], {})
  /\ UNCHANGED <<loginVars, sessionVars>>

(* create_session purges the sessions that are over and stores the new     *)
(* one; the purge raises when the store has changed its size meanwhile.    *)
CreateSession(r) ==
  /\ work[r].at = "session_purge"
  /\ \/ work[r].raced /\ UNCHANGED <<store, madeFrom, sessionCookie>>
     \/ \E s \in Sessions, renewable \in BOOLEAN :
          /\ madeFrom[s] = NoLogin
          /\ madeFrom' = [madeFrom EXCEPT ![s] = work[r].login]
          /\ store' = [q \in Sessions |->
               IF q = s THEN [refresh |-> 0, renewable |-> renewable, expiring |-> FALSE, over |-> FALSE]
               ELSE IF store[q] # Gone /\ store[q].over THEN Gone
               ELSE store[q]]
          /\ sessionCookie' = [sessionCookie EXCEPT ![work[r].browser] = s]
  /\ Answer(r, IF store' = store THEN {} ELSE {"session_purge"})
  /\ UNCHANGED <<loginVars, issued, loggedOut>>

----------------------------------------------------------------------------
(* Using a session.                                                        *)

Remove(s) == store' = [store EXCEPT ![s] = Gone]

BeginRequest(r, b) ==
  /\ work[r].at = "idle" /\ sessionCookie[b] # NoSession
  /\ Advance(r, [Idle EXCEPT !.at = "lookup", !.browser = b, !.session = sessionCookie[b]], {})
  /\ UNCHANGED <<loginVars, sessionVars>>

(* get_session, and the decision to refresh: a session that is over, or    *)
(* has no refresh token when it needs one, is removed.                     *)
Lookup(r) ==
  /\ work[r].at = "lookup"
  /\ LET s == work[r].session IN
     IF store[s] = Gone THEN Answer(r, {}) /\ UNCHANGED store
     ELSE IF store[s].over \/ (store[s].expiring /\ ~store[s].renewable)
     THEN Remove(s) /\ Answer(r, {"session_purge"})
     ELSE /\ UNCHANGED store
          /\ IF store[s].expiring
             THEN Advance(r, [work[r] EXCEPT !.at = "refresh", !.refresh = store[s].refresh], {})
             ELSE Answer(r, {})
  /\ UNCHANGED <<loginVars, madeFrom, sessionCookie, issued, loggedOut>>

(* The provider renews the session, for a refresh token it still accepts.  *)
(* It may refuse, the call or the validation of the new token may fail;    *)
(* then the session is removed.                                            *)
Refresh(r) ==
  /\ work[r].at = "refresh"
  /\ LET s == work[r].session
         accepted == (Rotates => work[r].refresh = issued[s]) /\ issued[s] < MaxRefresh
         next == IF Rotates THEN issued[s] + 1 ELSE work[r].refresh
     IN \/ Remove(s) /\ Answer(r, {"session_purge"}) /\ UNCHANGED issued
        \/ /\ accepted
           /\ issued' = [issued EXCEPT ![s] = next]
           /\ \/ Remove(s) /\ Answer(r, {"session_purge"})
              \/ UNCHANGED store /\ Advance(r, [work[r] EXCEPT !.at = "update", !.refresh = next], {})
  /\ UNCHANGED <<loginVars, madeFrom, sessionCookie, loggedOut>>

(* update_session: first whether the session is still there ...            *)
Update(r) ==
  /\ work[r].at = "update"
  /\ IF store[work[r].session] = Gone THEN Answer(r, {})
     ELSE Advance(r, [work[r] EXCEPT !.at = "merge"], {})
  /\ UNCHANGED <<loginVars, sessionVars>>

(* Defect: the renewed session is written whether or not it is there.      *)
WritesBack(r) ==
  /\ work[r].at = "merge"
  /\ store' = [store EXCEPT ![work[r].session] =
       [refresh |-> work[r].refresh, renewable |-> TRUE, expiring |-> FALSE, over |-> FALSE]]
  /\ Answer(r, {})
  /\ UNCHANGED <<loginVars, madeFrom, sessionCookie, issued, loggedOut>>

(* Defect: the new refresh token is not kept.                              *)
KeepsOldToken(r) ==
  /\ work[r].at = "merge"
  /\ LET s == work[r].session IN
     IF store[s] = Gone THEN UNCHANGED store
     ELSE store' = [store EXCEPT ![s].expiring = FALSE]
  /\ Answer(r, {})
  /\ UNCHANGED <<loginVars, madeFrom, sessionCookie, issued, loggedOut>>

(* Defect: a provider that renews without a new refresh token leaves none. *)
LosesToken(r) ==
  /\ work[r].at = "merge"
  /\ LET s == work[r].session IN
     IF store[s] = Gone THEN UNCHANGED store
     ELSE store' = [store EXCEPT ![s].refresh = Gone, ![s].expiring = FALSE]
  /\ Answer(r, {})
  /\ UNCHANGED <<loginVars, madeFrom, sessionCookie, issued, loggedOut>>

(* ... then the new tokens are merged into it; an entry that has gone in   *)
(* between raises, which ends as a session that is removed already.        *)
Merge(r) ==
  /\ work[r].at = "merge"
  /\ LET s == work[r].session IN
     IF store[s] = Gone THEN UNCHANGED store
     ELSE store' = [store EXCEPT ![s].refresh = work[r].refresh, ![s].expiring = FALSE]
  /\ Answer(r, {})
  /\ UNCHANGED <<loginVars, madeFrom, sessionCookie, issued, loggedOut>>

(* GET /auth/logout removes the session at once; the browser drops its     *)
(* cookie with the answer.                                                 *)
BeginLogout(r, b) ==
  /\ work[r].at = "idle" /\ sessionCookie[b] # NoSession
  /\ Remove(sessionCookie[b])
  /\ loggedOut' = loggedOut \cup {sessionCookie[b]}
  /\ Advance(r, [Idle EXCEPT !.at = "logout", !.browser = b], {"session_purge"})
  /\ UNCHANGED <<loginVars, madeFrom, sessionCookie, issued>>

EndLogout(r) ==
  /\ work[r].at = "logout"
  /\ sessionCookie' = [sessionCookie EXCEPT ![work[r].browser] = NoSession]
  /\ Answer(r, {})
  /\ UNCHANGED <<loginVars, store, madeFrom, issued, loggedOut>>

----------------------------------------------------------------------------
(* Time.                                                                   *)

LoginAges ==
  /\ \E l \in Earliest(pending \ stale, 1) : stale' = stale \cup {l}
  /\ UNCHANGED <<work, pending, begun, startedBy, stateCookie, sessionVars>>

StateCookieLapses(b) ==
  /\ stateCookie[b] \in stale
  /\ stateCookie' = [stateCookie EXCEPT ![b] = NoLogin]
  /\ UNCHANGED <<work, pending, begun, stale, startedBy, sessionVars>>

AccessExpires(s) ==
  /\ store[s] # Gone /\ ~store[s].expiring
  /\ store' = [store EXCEPT ![s].expiring = TRUE]
  /\ UNCHANGED <<work, loginVars, madeFrom, sessionCookie, issued, loggedOut>>

SessionEnds(s) ==
  /\ store[s] # Gone /\ ~store[s].over
  /\ store' = [store EXCEPT ![s].over = TRUE]
  /\ UNCHANGED <<work, loginVars, madeFrom, sessionCookie, issued, loggedOut>>

----------------------------------------------------------------------------
SigningIn(r) ==
  \/ \E b \in Browsers : BeginLogin(r, b) \/ \E l \in Logins : Callback(r, b, l)
  \/ AddLogin(r) \/ CheckBound(r) \/ SortLogins(r) \/ EvictLogins(r) \/ SendToProvider(r) \/ Exchange(r)
  \/ CreateSession(r)
Using(r) ==
  \/ \E b \in Browsers : BeginRequest(r, b) \/ BeginLogout(r, b)
  \/ Lookup(r) \/ Refresh(r) \/ Update(r) \/ Merge(r) \/ EndLogout(r)
Clock ==
  \/ LoginAges \/ \E b \in Browsers : StateCookieLapses(b)
  \/ \E s \in Sessions : AccessExpires(s) \/ SessionEnds(s)

Next == (\E r \in Requests : SigningIn(r) \/ Using(r)) \/ Clock

Spec == Init /\ [][Next]_vars

----------------------------------------------------------------------------
(* Properties.                                                             *)

(* A browser holds a session only from a login it began itself, and a      *)
(* login makes at most one session, though callbacks are repeated and      *)
(* carry any state.                                                        *)
SessionsBelong ==
  /\ \A b \in Browsers : sessionCookie[b] # NoSession => startedBy[madeFrom[sessionCookie[b]]] = b
  /\ \A s, t \in Sessions : madeFrom[s] = madeFrom[t] /\ madeFrom[s] # NoLogin => s = t

(* A session somebody logged out of never comes back, though a refresh of  *)
(* it may be under way.                                                    *)
LoggedOutStaysOut == \A s \in loggedOut : store[s] = Gone

Since(l) == {k \in Logins : Older(l, k)}

(* A login under way disappears by the callback of the browser that began  *)
(* it, or because it is too old, or evicted as one of the oldest: never by *)
(* a callback that is refused, and never as long as it is the newest.      *)
OnlyItsBrowserRedeems ==
  [][\A l \in Logins :
       l \in pending /\ l \notin pending'
         => \/ l \in stale \/ Since(l) # {}
            \/ \E r \in Requests : work'[r].at = "exchange" /\ work'[r].browser = startedBy[l]]_vars

(* A stored session holds the refresh token the provider issued last,      *)
(* unless a request is about to store it: otherwise its next refresh would *)
(* be refused.                                                             *)
RefreshTokenIsCurrent ==
  \A s \in Sessions :
    store[s] # Gone => \/ store[s].refresh = issued[s]
                       \/ \E r \in Requests : work[r].session = s /\ work[r].at \in {"update", "merge"}

(* What holds of the store whatever the threads interleave: types, every    *)
(* session is its browser's, and none comes back after its logout.          *)
SessionInv == TypeOK /\ SessionsBelong /\ LoggedOutStaysOut
=============================================================================
