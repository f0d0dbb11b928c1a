----------------------- MODULE ConsoleSessionsProofs -----------------------
(* Sessions belong to the browsers that began their logins, logged-out     *)
(* ones stay out, what is stored can be renewed, and a login waits for its *)
(* own browser, for any number of threads, browsers, logins and sessions   *)
(* and any bounds.                                                         *)
EXTENDS ConsoleSessions, FiniteSetTheorems, TLAPS

Adding == {"login_cap", "login_sort", "login_evict", "login_url"}
Redeeming == {"exchange", "session_purge"}
InSession == {"lookup", "refresh", "update", "merge"}
ForBrowser == Adding \cup Redeeming \cup {"login_purge", "logout"}

(* What the stage of a request says about what it carries.                 *)
Sound(w) ==
  /\ w.at \in ForBrowser => w.browser \in Browsers
  /\ w.at \in Adding => w.login \in Logins /\ startedBy[w.login] = w.browser
  /\ w.at \in Redeeming =>
       /\ w.login \in Logins \ pending /\ startedBy[w.login] = w.browser
       /\ \A s \in Sessions : madeFrom[s] # w.login
  /\ w.at \in InSession => w.session \in Sessions

WorkIsSound == \A r \in Requests : Sound(work[r])

(* Two requests never redeem one login.                                    *)
RedeemedOnce ==
  \A q, r \in Requests :
    work[q].at \in Redeeming /\ work[r].at \in Redeeming /\ work[q].login = work[r].login
      => q = r

(* Logins under way, and those a cookie names, were begun by somebody; a   *)
(* login that made a session is no longer under way.                       *)
LoginsAreBegun ==
  /\ \A l \in pending : startedBy[l] # Nobody
  /\ \A b \in Browsers : stateCookie[b] # NoLogin => startedBy[stateCookie[b]] = b
  /\ \A s \in Sessions : madeFrom[s] # NoLogin =>
       madeFrom[s] \notin pending /\ startedBy[madeFrom[s]] # Nobody

(* Sessions that browsers hold, or have left, have been made.              *)
SessionsAreMade ==
  /\ \A b \in Browsers : sessionCookie[b] # NoSession => madeFrom[sessionCookie[b]] # NoLogin
  /\ \A s \in loggedOut : madeFrom[s] # NoLogin

IInv ==
  /\ TypeOK /\ WorkIsSound /\ RedeemedOnce /\ LoginsAreBegun /\ SessionsAreMade
  /\ SessionsBelong /\ LoggedOutStaysOut

(* Whose sessions are made is what requests carry and what is stored; what  *)
(* has not been made has not been renewed.                                  *)
MadeIsUsed ==
  /\ \A r \in Requests : work[r].at \in InSession => madeFrom[work[r].session] # NoLogin
  /\ \A s \in Sessions : madeFrom[s] = NoLogin => issued[s] = 0 /\ store[s] = Gone

(* A provider that does not rotate never gives another token.               *)
NoneRotates ==
  ~Rotates =>
    /\ \A s \in Sessions : issued[s] = 0 /\ (store[s] # Gone => store[s].refresh = 0)
    /\ \A r \in Requests : work[r].refresh = 0

(* One that does: nobody holds a later token than the store, except the one *)
(* request that is about to store the latest.                               *)
Renews(r, s) == work[r].session = s /\ work[r].at \in {"update", "merge"}
Current(s) ==
  /\ store[s].refresh <= issued[s]
  /\ \A r \in Requests :
       work[r].session = s /\ work[r].at = "refresh" => work[r].refresh <= store[s].refresh
  /\ \A r \in Requests :
       Renews(r, s) => work[r].refresh = issued[s] /\ store[s].refresh < issued[s]
  /\ \A q, r \in Requests : Renews(q, s) /\ Renews(r, s) => q = r
  /\ (\A r \in Requests : ~Renews(r, s)) => store[s].refresh = issued[s]
TokensAreCurrent == Rotates => \A s \in Sessions : store[s] # Gone => Current(s)

TokenIInv == MadeIsUsed /\ NoneRotates /\ TokensAreCurrent

(* The logins in the order they began: each once, and those under way among *)
(* them.                                                                    *)
IsBegun(l) == \E i \in DOMAIN begun : begun[i] = l
BegunOnce ==
  /\ \A i, j \in DOMAIN begun : begun[i] = begun[j] => i = j
  /\ \A l \in Logins : IsBegun(l) => startedBy[l] # Nobody
  /\ \A l \in pending : IsBegun(l)
  /\ IsFiniteSet(pending)

(* What is added after a list of the logins has been taken is newer than    *)
(* all of it, and what is about to be evicted is not the newest.            *)
Listing(w) ==
  /\ w.at = "login_sort" =>
       /\ IsFiniteSet(w.listed) /\ \A l \in w.listed : IsBegun(l)
       /\ \A l \in w.listed, k \in pending \ w.listed : Older(l, k)
  /\ w.at = "login_evict" => \A l \in w.listed : Since(l) # {}

LoginIInv == BegunOnce /\ \A r \in Requests : Listing(work[r])

----------------------------------------------------------------------------
(* A step of one request leaves the others what they carry.                *)
LEMMA Advances ==
  ASSUME work \in [Requests -> Work], NEW r \in Requests, NEW next \in Work, NEW disturbed,
         Advance(r, next, disturbed)
  PROVE  /\ work' \in [Requests -> Work] /\ work'[r] = next
         /\ \A q \in Requests \ {r} :
              /\ work'[q].at = work[q].at /\ work'[q].browser = work[q].browser
              /\ work'[q].login = work[q].login /\ work'[q].session = work[q].session
BY DEF Advance, Work

LEMMA IdleIsWork == Idle \in Work /\ Idle.at = "idle"
BY RefreshBound DEF Idle, Work, Stages

(* Where one request stands changes nothing for the others, as long as it  *)
(* redeems nothing it did not redeem before.                               *)
LEMMA WorkMoves ==
  ASSUME IInv, NEW r \in Requests, NEW next \in Work, NEW disturbed,
         Advance(r, next, disturbed), UNCHANGED <<startedBy, pending, madeFrom>>, Sound(next),
         next.at \in Redeeming => work[r].at \in Redeeming /\ next.login = work[r].login
  PROVE  work' \in [Requests -> Work] /\ WorkIsSound' /\ RedeemedOnce'
<1>1. /\ work' \in [Requests -> Work] /\ work'[r] = next
      /\ \A q \in Requests \ {r} :
           /\ work'[q].at = work[q].at /\ work'[q].browser = work[q].browser
           /\ work'[q].login = work[q].login /\ work'[q].session = work[q].session
  BY Advances DEF IInv, TypeOK
<1>2. WorkIsSound'
  BY <1>1 DEF IInv, WorkIsSound, Sound
<1>3. RedeemedOnce'
  BY <1>1 DEF IInv, RedeemedOnce
<1> QED BY <1>1, <1>2, <1>3

(* Answering a request is such a move.                                     *)
LEMMA Answers ==
  ASSUME IInv, NEW r \in Requests, NEW disturbed, Answer(r, disturbed),
         UNCHANGED <<startedBy, pending, madeFrom>>
  PROVE  work' \in [Requests -> Work] /\ WorkIsSound' /\ RedeemedOnce'
<1>1. Idle \in Work /\ Sound(Idle) /\ Idle.at \notin Redeeming
  BY IdleIsWork DEF Sound, ForBrowser, Adding, Redeeming, InSession
<1> QED BY <1>1, WorkMoves DEF Answer

(* So is a step that changes nothing but the stage.                        *)
LEMMA OnlyWorkMoves ==
  ASSUME IInv, UNCHANGED <<loginVars, sessionVars>>,
         work' \in [Requests -> Work], WorkIsSound', RedeemedOnce'
  PROVE  IInv'
BY DEF IInv, TypeOK, LoginsAreBegun, SessionsAreMade, SessionsBelong, LoggedOutStaysOut,
       loginVars, sessionVars

(* A step that may remove sessions or change what is stored of them, but   *)
(* brings none back.                                                       *)
LEMMA StoreMoves ==
  ASSUME IInv, UNCHANGED <<loginVars, madeFrom, sessionCookie, loggedOut>>,
         store' \in [Sessions -> Data \cup {Gone}], issued' \in [Sessions -> 0..MaxRefresh],
         \A s \in Sessions : store[s] = Gone => store'[s] = Gone,
         work' \in [Requests -> Work], WorkIsSound', RedeemedOnce'
  PROVE  IInv'
<1>1. TypeOK'
  BY DEF IInv, TypeOK, loginVars
<1>2. (LoginsAreBegun /\ SessionsAreMade /\ SessionsBelong)'
  BY DEF IInv, LoginsAreBegun, SessionsAreMade, SessionsBelong, loginVars
<1>3. LoggedOutStaysOut'
  BY DEF IInv, TypeOK, LoggedOutStaysOut
<1> QED BY <1>1, <1>2, <1>3 DEF IInv

(* An entry that is there may get another value: none comes back by it.    *)
LEMMA StoredChanges ==
  ASSUME IInv, NEW s \in Sessions, store[s] # Gone,
         NEW data \in Data, store' = [store EXCEPT ![s] = data]
  PROVE  /\ store' \in [Sessions -> Data \cup {Gone}]
         /\ \A q \in Sessions : store[q] = Gone => store'[q] = Gone
BY DEF IInv, TypeOK

----------------------------------------------------------------------------
LEMMA Starts == Init => IInv
<1> SUFFICES ASSUME Init PROVE IInv
  OBVIOUS
<1> USE Outsiders, IdleIsWork DEF Init
<1>1. TypeOK
  BY RefreshBound DEF TypeOK
<1>2. WorkIsSound /\ RedeemedOnce
  BY DEF WorkIsSound, RedeemedOnce, Sound, ForBrowser, Adding, Redeeming, InSession
<1>3. LoginsAreBegun /\ SessionsAreMade /\ SessionsBelong /\ LoggedOutStaysOut
  BY DEF LoginsAreBegun, SessionsAreMade, SessionsBelong, LoggedOutStaysOut
<1> QED BY <1>1, <1>2, <1>3 DEF IInv

----------------------------------------------------------------------------
(* Signing in.                                                             *)

LEMMA BeginLoginKeeps ==
  ASSUME IInv, NEW r \in Requests, NEW b \in Browsers, BeginLogin(r, b)
  PROVE  IInv'
<1> DEFINE next == [Idle EXCEPT !.at = "login_purge", !.browser = b]
<1>1. next \in Work /\ next.at = "login_purge" /\ next.browser = b
  BY IdleIsWork DEF Work, Stages
<1>2. Sound(next) /\ next.at \notin Redeeming
  BY <1>1 DEF Sound, ForBrowser, Adding, Redeeming, InSession
<1> QED BY <1>1, <1>2, WorkMoves, OnlyWorkMoves DEF BeginLogin, loginVars, sessionVars

LEMMA AddLoginKeeps ==
  ASSUME IInv, NEW r \in Requests, AddLogin(r)
  PROVE  IInv'
<1>1. CASE Answer(r, {}) /\ UNCHANGED <<pending, begun, startedBy>>
  BY <1>1, Answers, OnlyWorkMoves DEF AddLogin, loginVars, sessionVars
<1>2. ASSUME NEW l \in Logins, startedBy[l] = Nobody,
             startedBy' = [startedBy EXCEPT ![l] = work[r].browser],
             pending' = (pending \ stale) \cup {l},
             begun' = Append(begun, l),
             NEW disturbed,
             Advance(r, [work[r] EXCEPT !.at = "login_cap", !.login = l, !.raced = FALSE],
                     disturbed)
      PROVE  IInv'
  <2> DEFINE next == [work[r] EXCEPT !.at = "login_cap", !.login = l, !.raced = FALSE]
  <2>0. work[r] \in Work /\ work[r].at = "login_purge" /\ work[r].browser \in Browsers
    BY DEF AddLogin, IInv, TypeOK, WorkIsSound, Sound, ForBrowser
  <2>1. /\ next \in Work /\ next.at = "login_cap" /\ next.login = l
        /\ next.browser = work[r].browser
    BY <2>0 DEF Work, Stages
  <2>2. /\ work' \in [Requests -> Work] /\ work'[r] = next
        /\ \A q \in Requests \ {r} :
             /\ work'[q].at = work[q].at /\ work'[q].browser = work[q].browser
             /\ work'[q].login = work[q].login /\ work'[q].session = work[q].session
    BY <1>2, <2>1, Advances DEF IInv, TypeOK
  <2>3. UNCHANGED <<stale, stateCookie, sessionVars>>
    BY DEF AddLogin
  <2>4. /\ \A k \in Logins : startedBy[k] # Nobody => startedBy'[k] = startedBy[k]
        /\ startedBy'[l] = work[r].browser /\ startedBy'[l] # Nobody
    BY <1>2, <2>0, Outsiders DEF IInv, TypeOK
  <2>5. TypeOK'
    BY <1>2, <2>0, <2>2, <2>3 DEF IInv, TypeOK, sessionVars
  <2>6. WorkIsSound'
    <3> SUFFICES ASSUME NEW q \in Requests PROVE Sound(work[q])'
      BY DEF WorkIsSound
    <3>1. CASE q = r
      BY <3>1, <2>0, <2>1, <2>2, <2>4
         DEF Sound, ForBrowser, Adding, Redeeming, InSession
    <3>2. CASE q # r
      <4>1. Sound(work[q])
        BY DEF IInv, WorkIsSound
      <4>2. work[q].at \in Redeeming => work[q].login # l
        BY <4>1, <1>2, Outsiders DEF Sound, ForBrowser
      <4> QED BY <3>2, <4>1, <4>2, <1>2, <2>2, <2>3, <2>4, Outsiders
              DEF Sound, ForBrowser, sessionVars
    <3> QED BY <3>1, <3>2
  <2>7. RedeemedOnce'
    BY <2>1, <2>2 DEF IInv, RedeemedOnce, Redeeming
  <2>8. LoginsAreBegun'
    BY <1>2, <2>3, <2>4, Outsiders DEF IInv, TypeOK, LoginsAreBegun, sessionVars
  <2>9. SessionsBelong'
    BY <2>3, <2>4, Outsiders
       DEF IInv, TypeOK, SessionsBelong, SessionsAreMade, LoginsAreBegun, sessionVars
  <2>10. SessionsAreMade' /\ LoggedOutStaysOut'
    BY <2>3 DEF IInv, SessionsAreMade, LoggedOutStaysOut, sessionVars
  <2> QED BY <2>5, <2>6, <2>7, <2>8, <2>9, <2>10 DEF IInv
<1> QED BY <1>1, <1>2 DEF AddLogin

LEMMA CheckBoundKeeps ==
  ASSUME IInv, NEW r \in Requests, CheckBound(r)
  PROVE  IInv'
<1> DEFINE next == IF Cardinality(pending) > MaxLogins
                   THEN [work[r] EXCEPT !.at = "login_sort", !.listed = pending]
                   ELSE [work[r] EXCEPT !.at = "login_url"]
<1>1. work[r] \in Work /\ work[r].at = "login_cap" /\ Sound(work[r])
  BY DEF CheckBound, IInv, TypeOK, WorkIsSound
<1>2. /\ next \in Work /\ next.at \in {"login_sort", "login_url"}
      /\ next.browser = work[r].browser /\ next.login = work[r].login
  BY <1>1 DEF IInv, TypeOK, Work, Stages
<1>3. Sound(next) /\ next.at \notin Redeeming
  BY <1>1, <1>2 DEF Sound, ForBrowser, Adding, Redeeming, InSession
<1> QED BY <1>2, <1>3, WorkMoves, OnlyWorkMoves DEF CheckBound, loginVars, sessionVars

LEMMA SortLoginsKeeps ==
  ASSUME IInv, NEW r \in Requests, SortLogins(r)
  PROVE  IInv'
<1>1. CASE Answer(r, {})
  BY <1>1, Answers, OnlyWorkMoves DEF SortLogins, loginVars, sessionVars
<1>2. ASSUME NEW n,
             Advance(r, [work[r] EXCEPT !.at = "login_evict", !.listed = Earliest(@, n),
                                        !.raced = FALSE], {})
      PROVE  IInv'
  <2> DEFINE next == [work[r] EXCEPT !.at = "login_evict",
                                     !.listed = Earliest(work[r].listed, n), !.raced = FALSE]
  <2>1. work[r] \in Work /\ work[r].at = "login_sort" /\ Sound(work[r])
    BY DEF SortLogins, IInv, TypeOK, WorkIsSound
  <2>2. /\ next \in Work /\ next.at = "login_evict"
        /\ next.browser = work[r].browser /\ next.login = work[r].login
    BY <2>1 DEF Work, Stages, Earliest
  <2>3. Sound(next) /\ next.at \notin Redeeming
    BY <2>1, <2>2 DEF Sound, ForBrowser, Adding, Redeeming, InSession
  <2> QED BY <1>2, <2>2, <2>3, WorkMoves, OnlyWorkMoves DEF SortLogins, loginVars, sessionVars
<1> QED BY <1>1, <1>2 DEF SortLogins

LEMMA EvictLoginsKeeps ==
  ASSUME IInv, NEW r \in Requests, EvictLogins(r)
  PROVE  IInv'
<1> DEFINE next == [work[r] EXCEPT !.at = "login_url", !.listed = {}]
<1>1. work[r] \in Work /\ work[r].at = "login_evict" /\ Sound(work[r])
  BY DEF EvictLogins, IInv, TypeOK, WorkIsSound
<1>2. /\ next \in Work /\ next.at = "login_url"
      /\ next.browser = work[r].browser /\ next.login = work[r].login
  BY <1>1 DEF Work, Stages
<1>3. PICK disturbed : Advance(r, next, disturbed)
  BY DEF EvictLogins
<1>4. /\ work' \in [Requests -> Work] /\ work'[r] = next
      /\ \A q \in Requests \ {r} :
           /\ work'[q].at = work[q].at /\ work'[q].browser = work[q].browser
           /\ work'[q].login = work[q].login /\ work'[q].session = work[q].session
  BY <1>2, <1>3, Advances DEF IInv, TypeOK
<1>5. /\ pending' \subseteq pending
      /\ UNCHANGED <<begun, stale, startedBy, stateCookie, sessionVars>>
  BY DEF EvictLogins
<1>6. TypeOK'
  BY <1>4, <1>5 DEF IInv, TypeOK, sessionVars
<1>7. WorkIsSound'
  <2> SUFFICES ASSUME NEW q \in Requests PROVE Sound(work[q])'
    BY DEF WorkIsSound
  <2>1. CASE q = r
    BY <2>1, <1>1, <1>2, <1>4, <1>5 DEF Sound, ForBrowser, Adding, Redeeming, InSession
  <2>2. CASE q # r
    BY <2>2, <1>4, <1>5 DEF IInv, WorkIsSound, Sound, sessionVars
  <2> QED BY <2>1, <2>2
<1>8. RedeemedOnce'
  BY <1>2, <1>4 DEF IInv, RedeemedOnce, Redeeming
<1>9. (LoginsAreBegun /\ SessionsAreMade /\ SessionsBelong /\ LoggedOutStaysOut)'
  BY <1>5 DEF IInv, LoginsAreBegun, SessionsAreMade, SessionsBelong, LoggedOutStaysOut,
              sessionVars
<1> QED BY <1>6, <1>7, <1>8, <1>9 DEF IInv

LEMMA SendToProviderKeeps ==
  ASSUME IInv, NEW r \in Requests, SendToProvider(r)
  PROVE  IInv'
<1>1. /\ work[r].login \in Logins /\ work[r].browser \in Browsers
      /\ startedBy[work[r].login] = work[r].browser
  BY DEF SendToProvider, IInv, WorkIsSound, Sound, ForBrowser, Adding
<1>2. UNCHANGED <<pending, begun, stale, startedBy, sessionVars>>
  BY DEF SendToProvider
<1>3. work' \in [Requests -> Work] /\ WorkIsSound' /\ RedeemedOnce'
  BY <1>2, Answers DEF SendToProvider, sessionVars
<1>4. /\ stateCookie' \in [Browsers -> Logins \cup {NoLogin}]
      /\ \A b \in Browsers : stateCookie'[b] # NoLogin => startedBy[stateCookie'[b]] = b
  BY <1>1 DEF SendToProvider, IInv, TypeOK, LoginsAreBegun
<1>5. TypeOK'
  BY <1>2, <1>3, <1>4 DEF IInv, TypeOK, sessionVars
<1>6. (LoginsAreBegun /\ SessionsAreMade /\ SessionsBelong /\ LoggedOutStaysOut)'
  BY <1>2, <1>4 DEF IInv, LoginsAreBegun, SessionsAreMade, SessionsBelong,
                    LoggedOutStaysOut, sessionVars
<1> QED BY <1>3, <1>5, <1>6 DEF IInv

(* The login a callback redeems was under way, so nobody else redeems it    *)
(* and no session has been made from it.                                    *)
LEMMA CallbackKeeps ==
  ASSUME IInv, NEW r \in Requests, NEW b \in Browsers, NEW l \in Logins, Callback(r, b, l)
  PROVE  IInv'
<1> DEFINE next == [Idle EXCEPT !.at = "exchange", !.browser = b, !.login = l]
<1>1. UNCHANGED <<begun, stale, startedBy, stateCookie, sessionVars>>
  BY DEF Callback
<1>2. CASE UNCHANGED <<work, pending>>
  <2>1. UNCHANGED <<loginVars, sessionVars>> /\ work' = work
    BY <1>1, <1>2 DEF loginVars
  <2>2. work' \in [Requests -> Work] /\ WorkIsSound' /\ RedeemedOnce'
    BY <2>1 DEF IInv, TypeOK, WorkIsSound, Sound, RedeemedOnce, loginVars, sessionVars
  <2> QED BY <2>1, <2>2, OnlyWorkMoves
<1>3. ASSUME stateCookie[b] = l, l \in pending, pending' = pending \ {l},
             \/ Answer(r, Iterating)
             \/ Advance(r, next, Iterating)
      PROVE  IInv'
  <2>0. startedBy[l] = b
    BY <1>3, Outsiders DEF IInv, LoginsAreBegun
  <2>1. PICK new \in {Idle, next} : Advance(r, new, Iterating)
    BY <1>3 DEF Answer
  <2>2. /\ new \in Work
        /\ new.at # "idle" => new.at = "exchange" /\ new.browser = b /\ new.login = l
    <3>1. next \in Work /\ next.at = "exchange" /\ next.browser = b /\ next.login = l
      BY IdleIsWork DEF Work, Stages
    <3>2. new = Idle \/ new = next
      OBVIOUS
    <3> QED BY <3>1, <3>2, IdleIsWork
  <2>3. /\ work' \in [Requests -> Work] /\ work'[r] = new
        /\ \A q \in Requests \ {r} :
             /\ work'[q].at = work[q].at /\ work'[q].browser = work[q].browser
             /\ work'[q].login = work[q].login /\ work'[q].session = work[q].session
    BY <2>1, <2>2, Advances DEF IInv, TypeOK
  <2>4. \A s \in Sessions : madeFrom[s] # l
    BY <1>3, Outsiders DEF IInv, LoginsAreBegun
  <2>5. \A q \in Requests : work[q].at \in Redeeming => work[q].login # l
    BY <1>3 DEF IInv, WorkIsSound, Sound
  <2>6. TypeOK'
    BY <1>1, <1>3, <2>3 DEF IInv, TypeOK, sessionVars
  <2>7. WorkIsSound'
    <3> SUFFICES ASSUME NEW q \in Requests PROVE Sound(work[q])'
      BY DEF WorkIsSound
    <3>1. CASE q = r
      BY <3>1, <1>1, <1>3, <2>0, <2>2, <2>3, <2>4
         DEF Sound, ForBrowser, Adding, Redeeming, InSession, sessionVars
    <3>2. CASE q # r
      BY <3>2, <1>1, <1>3, <2>3 DEF IInv, WorkIsSound, Sound, sessionVars
    <3> QED BY <3>1, <3>2
  <2>8. RedeemedOnce'
    BY <2>2, <2>3, <2>5 DEF IInv, RedeemedOnce, Redeeming
  <2>9. (LoginsAreBegun /\ SessionsAreMade /\ SessionsBelong /\ LoggedOutStaysOut)'
    BY <1>1, <1>3 DEF IInv, LoginsAreBegun, SessionsAreMade, SessionsBelong,
                      LoggedOutStaysOut, sessionVars
  <2> QED BY <2>6, <2>7, <2>8, <2>9 DEF IInv
<1> QED BY <1>2, <1>3 DEF Callback

LEMMA ExchangeKeeps ==
  ASSUME IInv, NEW r \in Requests, Exchange(r)
  PROVE  IInv'
<1>1. CASE Answer(r, {})
  BY <1>1, Answers, OnlyWorkMoves DEF Exchange, loginVars, sessionVars
<1>2. CASE Advance(r, [work[r] EXCEPT !.at = "session_purge"], {})
  <2> DEFINE next == [work[r] EXCEPT !.at = "session_purge"]
  <2>1. work[r] \in Work /\ work[r].at = "exchange" /\ Sound(work[r])
    BY DEF Exchange, IInv, TypeOK, WorkIsSound
  <2>2. /\ next \in Work /\ next.at = "session_purge"
        /\ next.browser = work[r].browser /\ next.login = work[r].login
    BY <2>1 DEF Work, Stages
  <2>3. Sound(next) /\ work[r].at \in Redeeming
    BY <2>1, <2>2 DEF Sound, ForBrowser, Adding, Redeeming, InSession
  <2> QED BY <1>2, <2>2, <2>3, WorkMoves, OnlyWorkMoves DEF Exchange, loginVars, sessionVars
<1> QED BY <1>1, <1>2 DEF Exchange

(* The session is a new one, so nobody has logged out of it; its login is   *)
(* redeemed by this request alone, so no other session comes from it.       *)
LEMMA CreateSessionKeeps ==
  ASSUME IInv, NEW r \in Requests, CreateSession(r)
  PROVE  IInv'
<1>0. PICK disturbed : Answer(r, disturbed)
  BY DEF CreateSession
<1>1. CASE UNCHANGED <<store, madeFrom, sessionCookie>>
  BY <1>0, <1>1, Answers, OnlyWorkMoves DEF CreateSession, loginVars, sessionVars
<1>2. ASSUME NEW s \in Sessions, NEW renewable \in BOOLEAN, madeFrom[s] = NoLogin,
             madeFrom' = [madeFrom EXCEPT ![s] = work[r].login],
             store' = [q \in Sessions |->
               IF q = s THEN [refresh |-> 0, renewable |-> renewable, expiring |-> FALSE, over |-> FALSE]
               ELSE IF store[q] # Gone /\ store[q].over THEN Gone
               ELSE store[q]],
             sessionCookie' = [sessionCookie EXCEPT ![work[r].browser] = s]
      PROVE  IInv'
  <2> DEFINE l == work[r].login
  <2>0. UNCHANGED <<loginVars, issued, loggedOut>>
    BY DEF CreateSession
  <2>1. /\ work[r].at \in Redeeming /\ l \in Logins \ pending /\ work[r].browser \in Browsers
        /\ startedBy[l] = work[r].browser /\ \A q \in Sessions : madeFrom[q] # l
    BY DEF CreateSession, IInv, WorkIsSound, Sound, ForBrowser, Redeeming
  <2>2. /\ work' \in [Requests -> Work] /\ work'[r] = Idle
        /\ \A q \in Requests \ {r} :
             /\ work'[q].at = work[q].at /\ work'[q].browser = work[q].browser
             /\ work'[q].login = work[q].login /\ work'[q].session = work[q].session
    BY <1>0, IdleIsWork, Advances DEF Answer, IInv, TypeOK
  <2>3. [refresh |-> 0, renewable |-> renewable, expiring |-> FALSE, over |-> FALSE] \in Data
    BY RefreshBound DEF Data
  <2>4. TypeOK'
    BY <1>2, <2>0, <2>1, <2>2, <2>3 DEF IInv, TypeOK, loginVars
  <2>5. madeFrom'[s] = l /\ \A q \in Sessions \ {s} : madeFrom'[q] = madeFrom[q]
    BY <1>2 DEF IInv, TypeOK
  <2>6. WorkIsSound'
    <3> SUFFICES ASSUME NEW q \in Requests PROVE Sound(work[q])'
      BY DEF WorkIsSound
    <3>1. CASE q = r
      BY <3>1, <2>2, IdleIsWork DEF Sound, ForBrowser, Adding, Redeeming, InSession
    <3>2. CASE q # r
      <4>1. Sound(work[q])
        BY DEF IInv, WorkIsSound
      <4>2. work[q].at \in Redeeming => work[q].login # l
        BY <3>2, <2>1 DEF IInv, RedeemedOnce
      <4> QED BY <3>2, <4>1, <4>2, <2>0, <2>2, <2>5 DEF Sound, loginVars
    <3> QED BY <3>1, <3>2
  <2>7. RedeemedOnce'
    BY <2>2, IdleIsWork DEF IInv, RedeemedOnce, Redeeming
  <2>8. LoginsAreBegun'
    BY <2>0, <2>1, <2>5, Outsiders DEF IInv, TypeOK, LoginsAreBegun, loginVars
  <2>9. SessionsAreMade'
    BY <1>2, <2>0, <2>1, <2>5, Outsiders DEF IInv, TypeOK, SessionsAreMade
  <2>10. SessionsBelong'
    BY <1>2, <2>0, <2>1, <2>5, Outsiders
       DEF IInv, TypeOK, SessionsBelong, SessionsAreMade, loginVars
  <2>11. LoggedOutStaysOut'
    BY <1>2, <2>0 DEF IInv, TypeOK, LoggedOutStaysOut, SessionsAreMade
  <2> QED BY <2>4, <2>6, <2>7, <2>8, <2>9, <2>10, <2>11 DEF IInv
<1> QED BY <1>1, <1>2 DEF CreateSession

----------------------------------------------------------------------------
(* Using a session: nothing of this puts an entry where there is none.      *)

LEMMA BeginRequestKeeps ==
  ASSUME IInv, NEW r \in Requests, NEW b \in Browsers, BeginRequest(r, b)
  PROVE  IInv'
<1> DEFINE next == [Idle EXCEPT !.at = "lookup", !.browser = b, !.session = sessionCookie[b]]
<1>1. sessionCookie[b] \in Sessions
  BY DEF BeginRequest, IInv, TypeOK
<1>2. next \in Work /\ next.at = "lookup" /\ next.session = sessionCookie[b]
  BY <1>1, IdleIsWork DEF Work, Stages
<1>3. Sound(next) /\ next.at \notin Redeeming
  BY <1>1, <1>2 DEF Sound, ForBrowser, Adding, Redeeming, InSession
<1> QED BY <1>2, <1>3, WorkMoves, OnlyWorkMoves DEF BeginRequest, loginVars, sessionVars

LEMMA LookupKeeps ==
  ASSUME IInv, NEW r \in Requests, Lookup(r)
  PROVE  IInv'
<1> DEFINE s == work[r].session
           next == [work[r] EXCEPT !.at = "refresh", !.refresh = store[s].refresh]
<1>1. work[r] \in Work /\ work[r].at = "lookup" /\ s \in Sessions
  BY DEF Lookup, IInv, TypeOK, WorkIsSound, Sound, InSession
<1>2. UNCHANGED <<loginVars, madeFrom, sessionCookie, issued, loggedOut>>
  BY DEF Lookup
<1>3. /\ store' \in [Sessions -> Data \cup {Gone}]
      /\ \A q \in Sessions : store[q] = Gone => store'[q] = Gone
  BY <1>1 DEF Lookup, Remove, IInv, TypeOK
<1>4. ASSUME store[s] # Gone
      PROVE  next \in Work /\ Sound(next) /\ next.at \notin Redeeming
  <2>1. store[s].refresh \in 0..MaxRefresh
    BY <1>1, <1>4 DEF IInv, TypeOK, Data
  <2>2. next \in Work /\ next.at = "refresh" /\ next.session = s
    BY <1>1, <2>1 DEF Work, Stages
  <2> QED BY <1>1, <2>2 DEF Sound, ForBrowser, Adding, Redeeming, InSession
<1>5. \/ \E disturbed : Answer(r, disturbed)
      \/ store[s] # Gone /\ Advance(r, next, {})
  BY DEF Lookup
<1>6. work' \in [Requests -> Work] /\ WorkIsSound' /\ RedeemedOnce'
  BY <1>2, <1>4, <1>5, Answers, WorkMoves DEF loginVars
<1> QED BY <1>2, <1>3, <1>6, StoreMoves DEF IInv, TypeOK

LEMMA RefreshKeeps ==
  ASSUME IInv, NEW r \in Requests, Refresh(r)
  PROVE  IInv'
<1> DEFINE s == work[r].session
           number == IF Rotates THEN issued[s] + 1 ELSE work[r].refresh
           next == [work[r] EXCEPT !.at = "update", !.refresh = number]
<1>1. work[r] \in Work /\ work[r].at = "refresh" /\ s \in Sessions
  BY DEF Refresh, IInv, TypeOK, WorkIsSound, Sound, InSession
<1>2. UNCHANGED <<loginVars, madeFrom, sessionCookie, loggedOut>>
  BY DEF Refresh
<1>3. /\ store' \in [Sessions -> Data \cup {Gone}]
      /\ \A q \in Sessions : store[q] = Gone => store'[q] = Gone
  BY <1>1 DEF Refresh, Remove, IInv, TypeOK
<1>4. issued[s] < MaxRefresh => number \in 0..MaxRefresh
  <2>1. issued[s] \in 0..MaxRefresh /\ work[r].refresh \in 0..MaxRefresh
    BY <1>1 DEF IInv, TypeOK, Work
  <2> QED BY <2>1, RefreshBound
<1>5. issued' \in [Sessions -> 0..MaxRefresh]
  BY <1>1, <1>4 DEF Refresh, IInv, TypeOK
<1>6. ASSUME issued[s] < MaxRefresh
      PROVE  next \in Work /\ Sound(next) /\ next.at \notin Redeeming
  <2>1. next \in Work /\ next.at = "update" /\ next.session = s
    BY <1>1, <1>4, <1>6 DEF Work, Stages
  <2> QED BY <1>1, <2>1 DEF Sound, ForBrowser, Adding, Redeeming, InSession
<1>7. \/ \E disturbed : Answer(r, disturbed)
      \/ issued[s] < MaxRefresh /\ Advance(r, next, {})
  BY DEF Refresh
<1>8. work' \in [Requests -> Work] /\ WorkIsSound' /\ RedeemedOnce'
  BY <1>2, <1>6, <1>7, Answers, WorkMoves DEF loginVars
<1> QED BY <1>2, <1>3, <1>5, <1>8, StoreMoves

LEMMA UpdateKeeps ==
  ASSUME IInv, NEW r \in Requests, Update(r)
  PROVE  IInv'
<1>1. CASE Answer(r, {})
  BY <1>1, Answers, OnlyWorkMoves DEF Update, loginVars, sessionVars
<1>2. CASE Advance(r, [work[r] EXCEPT !.at = "merge"], {})
  <2> DEFINE next == [work[r] EXCEPT !.at = "merge"]
  <2>1. work[r] \in Work /\ work[r].session \in Sessions
    BY DEF Update, IInv, TypeOK, WorkIsSound, Sound, InSession
  <2>2. next \in Work /\ next.at = "merge" /\ next.session = work[r].session
    BY <2>1 DEF Work, Stages
  <2>3. Sound(next) /\ next.at \notin Redeeming
    BY <2>1, <2>2 DEF Sound, ForBrowser, Adding, Redeeming, InSession
  <2> QED BY <1>2, <2>2, <2>3, WorkMoves, OnlyWorkMoves DEF Update, loginVars, sessionVars
<1> QED BY <1>1, <1>2 DEF Update

LEMMA MergeKeeps ==
  ASSUME IInv, NEW r \in Requests, Merge(r)
  PROVE  IInv'
<1>1. work[r].refresh \in 0..MaxRefresh /\ work[r].session \in Sessions
  BY DEF Merge, IInv, TypeOK, WorkIsSound, Sound, InSession, Work
<1>2. UNCHANGED <<loginVars, madeFrom, sessionCookie, issued, loggedOut>>
  BY DEF Merge
<1>3. /\ store' \in [Sessions -> Data \cup {Gone}]
      /\ \A q \in Sessions : store[q] = Gone => store'[q] = Gone
  <2> DEFINE s == work[r].session
             data == [store[s] EXCEPT !.refresh = work[r].refresh, !.expiring = FALSE]
  <2>1. CASE store[s] = Gone
    BY <2>1 DEF Merge, IInv, TypeOK
  <2>2. CASE store[s] # Gone
    <3>1. store[s] \in Data
      BY <1>1, <2>2 DEF IInv, TypeOK
    <3>2. data \in Data
      BY <1>1, <3>1 DEF Data
    <3>3. store' = [store EXCEPT ![s] = data]
      BY <2>2 DEF Merge
    <3> QED BY <1>1, <2>2, <3>2, <3>3, StoredChanges
  <2> QED BY <2>1, <2>2
<1>4. work' \in [Requests -> Work] /\ WorkIsSound' /\ RedeemedOnce'
  BY <1>2, Answers DEF Merge, loginVars
<1> QED BY <1>2, <1>3, <1>4, StoreMoves DEF IInv, TypeOK

(* Who logs out holds a session that has been made, so it is not made again.*)
LEMMA BeginLogoutKeeps ==
  ASSUME IInv, NEW r \in Requests, NEW b \in Browsers, BeginLogout(r, b)
  PROVE  IInv'
<1> DEFINE next == [Idle EXCEPT !.at = "logout", !.browser = b]
           s == sessionCookie[b]
<1>1. s \in Sessions /\ madeFrom[s] # NoLogin
  BY DEF BeginLogout, IInv, TypeOK, SessionsAreMade
<1>2. /\ UNCHANGED <<loginVars, madeFrom, sessionCookie, issued>>
      /\ store' = [store EXCEPT ![s] = Gone] /\ loggedOut' = loggedOut \cup {s}
  BY DEF BeginLogout, Remove
<1>3. next \in Work /\ next.at = "logout" /\ next.browser = b
  BY IdleIsWork DEF Work, Stages
<1>4. Sound(next) /\ next.at \notin Redeeming
  BY <1>3 DEF Sound, ForBrowser, Adding, Redeeming, InSession
<1>5. work' \in [Requests -> Work] /\ WorkIsSound' /\ RedeemedOnce'
  BY <1>2, <1>3, <1>4, WorkMoves DEF BeginLogout, loginVars
<1>6. TypeOK'
  BY <1>1, <1>2, <1>5 DEF IInv, TypeOK, loginVars
<1>7. LoginsAreBegun' /\ SessionsBelong'
  BY <1>2 DEF IInv, LoginsAreBegun, SessionsBelong, loginVars
<1>8. SessionsAreMade' /\ LoggedOutStaysOut'
  BY <1>1, <1>2 DEF IInv, TypeOK, SessionsAreMade, LoggedOutStaysOut
<1> QED BY <1>5, <1>6, <1>7, <1>8 DEF IInv

LEMMA EndLogoutKeeps ==
  ASSUME IInv, NEW r \in Requests, EndLogout(r)
  PROVE  IInv'
<1>1. work[r].browser \in Browsers
  BY DEF EndLogout, IInv, WorkIsSound, Sound, ForBrowser
<1>2. /\ UNCHANGED <<loginVars, store, madeFrom, issued, loggedOut>>
      /\ sessionCookie' = [sessionCookie EXCEPT ![work[r].browser] = NoSession]
  BY DEF EndLogout
<1>3. work' \in [Requests -> Work] /\ WorkIsSound' /\ RedeemedOnce'
  BY <1>2, Answers DEF EndLogout, loginVars
<1>4. TypeOK'
  BY <1>1, <1>2, <1>3 DEF IInv, TypeOK, loginVars
<1>5. (LoginsAreBegun /\ LoggedOutStaysOut)'
  BY <1>2 DEF IInv, LoginsAreBegun, LoggedOutStaysOut, loginVars
<1>6. (SessionsAreMade /\ SessionsBelong)'
  BY <1>1, <1>2 DEF IInv, TypeOK, SessionsAreMade, SessionsBelong, loginVars
<1> QED BY <1>3, <1>4, <1>5, <1>6 DEF IInv

----------------------------------------------------------------------------
(* Time takes cookies and adds to what is stale; of the store it changes    *)
(* only entries that are there.                                             *)
LEMMA ClockKeeps ==
  ASSUME IInv, Clock
  PROVE  IInv'
<1>1. CASE LoginAges
  <2>1. stale' \subseteq Logins
    BY <1>1 DEF LoginAges, Earliest, IInv, TypeOK
  <2>2. UNCHANGED <<work, pending, begun, startedBy, stateCookie, sessionVars>>
    BY <1>1 DEF LoginAges
  <2> QED BY <2>1, <2>2 DEF IInv, TypeOK, WorkIsSound, Sound, RedeemedOnce, LoginsAreBegun,
             SessionsAreMade, SessionsBelong, LoggedOutStaysOut, sessionVars
<1>2. ASSUME NEW b \in Browsers, StateCookieLapses(b) PROVE IInv'
  <2>1. /\ UNCHANGED <<work, pending, begun, stale, startedBy, sessionVars>>
        /\ stateCookie' = [stateCookie EXCEPT ![b] = NoLogin]
    BY <1>2 DEF StateCookieLapses
  <2>2. TypeOK' /\ LoginsAreBegun'
    BY <2>1 DEF IInv, TypeOK, LoginsAreBegun, sessionVars
  <2> QED BY <2>1, <2>2 DEF IInv, WorkIsSound, Sound, RedeemedOnce, SessionsAreMade,
             SessionsBelong, LoggedOutStaysOut, sessionVars
<1>3. ASSUME NEW s \in Sessions, AccessExpires(s) \/ SessionEnds(s) PROVE IInv'
  <2>1. UNCHANGED <<work, loginVars, madeFrom, sessionCookie, issued, loggedOut>>
    BY <1>3 DEF AccessExpires, SessionEnds
  <2>2. /\ store' \in [Sessions -> Data \cup {Gone}]
        /\ \A q \in Sessions : store[q] = Gone => store'[q] = Gone
    <3> DEFINE expired == [store[s] EXCEPT !.expiring = TRUE]
               ended == [store[s] EXCEPT !.over = TRUE]
    <3>1. store[s] \in Data /\ store[s] # Gone
      BY <1>3 DEF AccessExpires, SessionEnds, IInv, TypeOK
    <3>2. expired \in Data /\ ended \in Data
      BY <3>1 DEF Data
    <3>3. store' = [store EXCEPT ![s] = expired] \/ store' = [store EXCEPT ![s] = ended]
      BY <1>3 DEF AccessExpires, SessionEnds
    <3> QED BY <3>1, <3>2, <3>3, StoredChanges
  <2>3. work' \in [Requests -> Work] /\ WorkIsSound' /\ RedeemedOnce'
    BY <2>1 DEF IInv, TypeOK, WorkIsSound, Sound, RedeemedOnce, loginVars
  <2> QED BY <2>1, <2>2, <2>3, StoreMoves DEF IInv, TypeOK
<1> QED BY <1>1, <1>2, <1>3 DEF Clock

----------------------------------------------------------------------------
LEMMA StepKeeps ==
  ASSUME IInv, [Next]_vars
  PROVE  IInv'
<1>1. ASSUME NEW r \in Requests, SigningIn(r) PROVE IInv'
  BY <1>1, BeginLoginKeeps, CallbackKeeps, AddLoginKeeps, CheckBoundKeeps, SortLoginsKeeps,
     EvictLoginsKeeps, SendToProviderKeeps, ExchangeKeeps, CreateSessionKeeps DEF SigningIn
<1>2. ASSUME NEW r \in Requests, Using(r) PROVE IInv'
  BY <1>2, BeginRequestKeeps, BeginLogoutKeeps, LookupKeeps, RefreshKeeps, UpdateKeeps,
     MergeKeeps, EndLogoutKeeps DEF Using
<1>3. CASE UNCHANGED vars
  BY <1>3 DEF vars, IInv, TypeOK, WorkIsSound, Sound, RedeemedOnce, LoginsAreBegun,
     SessionsAreMade, SessionsBelong, LoggedOutStaysOut
<1> QED BY <1>1, <1>2, <1>3, ClockKeeps DEF Next

(* Whatever the threads interleave: every session is of the browser that    *)
(* began its login, a login makes at most one, and a session somebody has   *)
(* logged out of never comes back (session.py and the /auth/ routes).       *)
THEOREM SessionsHold == Spec => []SessionInv
<1>1. IInv => SessionInv
  BY DEF IInv, SessionInv
<1> QED BY Starts, StepKeeps, <1>1, PTL DEF Spec

----------------------------------------------------------------------------
(* What tokens the requests hold, and the store.                            *)

LEMMA Carries ==
  ASSUME IInv, NEW r \in Requests, NEW next, NEW disturbed, Advance(r, next, disturbed)
  PROVE  /\ work'[r] = next
         /\ \A q \in Requests \ {r} :
              /\ work'[q].at = work[q].at /\ work'[q].session = work[q].session
              /\ work'[q].refresh = work[q].refresh /\ work'[q].listed = work[q].listed
BY DEF Advance, IInv, TypeOK, Work

LEMMA CurrentStays ==
  ASSUME NEW s \in Sessions, Current(s), store'[s] = store[s], issued'[s] = issued[s],
         \A q \in Requests : /\ Renews(q, s)' <=> Renews(q, s)
                             /\ Renews(q, s) => work'[q].refresh = work[q].refresh,
         \A q \in Requests : work'[q].session = s /\ work'[q].at = "refresh" =>
           work[q].session = s /\ work[q].at = "refresh" /\ work'[q].refresh = work[q].refresh
  PROVE  Current(s)'
<1> DEFINE number == store[s].refresh
<1>1. number' = number
  OBVIOUS
<1> HIDE DEF number
<1>2. /\ number' <= issued'[s]
      /\ \A r \in Requests :
           work'[r].session = s /\ work'[r].at = "refresh" => work'[r].refresh <= number'
  BY <1>1 DEF Current, number
<1>3. \A r \in Requests : Renews(r, s)' => work'[r].refresh = issued'[s] /\ number' < issued'[s]
  BY <1>1 DEF Current, number
<1>4. /\ \A q, r \in Requests : Renews(q, s)' /\ Renews(r, s)' => q = r
      /\ (\A r \in Requests : ~Renews(r, s)') => number' = issued'[s]
  BY <1>1 DEF Current, number
<1> QED BY <1>2, <1>3, <1>4 DEF Current, number

(* A request that was not renewing anything and uses no session afterwards. *)
LEMMA LeavesTokens ==
  ASSUME IInv, TokenIInv, NEW r \in Requests, NEW next, NEW disturbed,
         Advance(r, next, disturbed),
         next.at \notin InSession, next.refresh \in {0, work[r].refresh},
         work[r].at \notin {"update", "merge"},
         UNCHANGED <<store, madeFrom, issued>>
  PROVE  TokenIInv'
<1>1. /\ work'[r] = next
      /\ \A q \in Requests \ {r} :
           /\ work'[q].at = work[q].at /\ work'[q].session = work[q].session
           /\ work'[q].refresh = work[q].refresh
  BY Carries
<1>2. MadeIsUsed'
  BY <1>1 DEF TokenIInv, MadeIsUsed
<1>3. NoneRotates'
  BY <1>1 DEF TokenIInv, NoneRotates
<1>4. TokensAreCurrent'
  <2>1. \A s \in Sessions, q \in Requests : Renews(q, s)' <=> Renews(q, s)
    BY <1>1 DEF Renews, InSession
  <2> SUFFICES ASSUME Rotates, NEW s \in Sessions, store'[s] # Gone PROVE Current(s)'
    BY DEF TokensAreCurrent
  <2>2. Current(s)
    BY DEF TokenIInv, TokensAreCurrent
  <2> QED BY <1>1, <2>1, <2>2, CurrentStays DEF Renews, InSession
<1> QED BY <1>2, <1>3, <1>4 DEF TokenIInv

(* A request that ends while its session goes, or was not being renewed by   *)
(* it, with whatever else of the store goes.                                 *)
LEMMA EndsWithSessions ==
  ASSUME IInv, TokenIInv, NEW r \in Requests, NEW next, NEW disturbed,
         Advance(r, next, disturbed), next.at \notin InSession, next.refresh = 0,
         \A s \in Sessions : store'[s] \in {store[s], Gone},
         work[r].at \in {"update", "merge"} => store'[work[r].session] = Gone,
         UNCHANGED <<madeFrom, issued>>
  PROVE  TokenIInv'
<1>1. /\ work'[r] = next
      /\ \A q \in Requests \ {r} :
           /\ work'[q].at = work[q].at /\ work'[q].session = work[q].session
           /\ work'[q].refresh = work[q].refresh
  BY Carries
<1>2. MadeIsUsed'
  BY <1>1 DEF TokenIInv, MadeIsUsed
<1>3. NoneRotates'
  BY <1>1 DEF TokenIInv, NoneRotates
<1>4. TokensAreCurrent'
  <2> SUFFICES ASSUME Rotates, NEW s \in Sessions, store'[s] # Gone PROVE Current(s)'
    BY DEF TokensAreCurrent
  <2>1. store'[s] = store[s] /\ Current(s)
    BY DEF TokenIInv, TokensAreCurrent
  <2>2. \A q \in Requests : Renews(q, s)' <=> Renews(q, s)
    BY <1>1 DEF Renews, InSession
  <2> QED BY <1>1, <2>1, <2>2, CurrentStays DEF Renews, InSession
<1> QED BY <1>2, <1>3, <1>4 DEF TokenIInv

LEMMA SigningInKeepsTokens ==
  ASSUME IInv, TokenIInv, NEW r \in Requests, SigningIn(r)
  PROVE  TokenIInv'
<1>1. Idle.at \notin InSession /\ Idle.refresh = 0
  BY DEF Idle, InSession
<1>2. work[r] \in Work
  BY DEF IInv, TypeOK
<1>3. ASSUME NEW next, NEW disturbed, Advance(r, next, disturbed),
             next.at \notin InSession, next.refresh \in {0, work[r].refresh},
             work[r].at \notin {"update", "merge"}, UNCHANGED sessionVars
      PROVE  TokenIInv'
  BY <1>3, LeavesTokens DEF sessionVars
<1>4. ASSUME NEW b \in Browsers, BeginLogin(r, b) PROVE TokenIInv'
  <2> DEFINE next == [Idle EXCEPT !.at = "login_purge", !.browser = b]
  <2>1. next.at = "login_purge" /\ next.refresh = 0
    BY DEF Idle
  <2> HIDE DEF next
  <2> QED BY <1>3, <1>4, <2>1 DEF BeginLogin, next, InSession
<1>5. ASSUME NEW b \in Browsers, NEW l \in Logins, Callback(r, b, l) PROVE TokenIInv'
  <2> DEFINE next == [Idle EXCEPT !.at = "exchange", !.browser = b, !.login = l]
  <2>1. next.at = "exchange" /\ next.refresh = 0
    BY DEF Idle
  <2>2. CASE UNCHANGED work
    BY <1>5, <2>2 DEF Callback, sessionVars, TokenIInv, MadeIsUsed, NoneRotates,
       TokensAreCurrent, Current, Renews
  <2>3. CASE Answer(r, Iterating)
    BY <1>1, <1>3, <1>5, <2>3 DEF Callback, Answer
  <2>4. CASE Advance(r, next, Iterating)
    <3> HIDE DEF next
    <3> QED BY <1>3, <1>5, <2>1, <2>4 DEF Callback, InSession
  <2> QED BY <1>5, <2>2, <2>3, <2>4 DEF Callback
<1>6. CASE AddLogin(r)
  <2>1. CASE Answer(r, {})
    BY <1>1, <1>3, <1>6, <2>1 DEF AddLogin, Answer
  <2>2. ASSUME NEW l \in Logins, NEW disturbed,
               Advance(r, [work[r] EXCEPT !.at = "login_cap", !.login = l, !.raced = FALSE],
                       disturbed)
        PROVE  TokenIInv'
    <3> PICK next : next = [work[r] EXCEPT !.at = "login_cap", !.login = l, !.raced = FALSE]
      OBVIOUS
    <3>1. next.at = "login_cap" /\ next.refresh = work[r].refresh
      BY <1>2 DEF Work
    <3> QED BY <1>3, <1>6, <2>2, <3>1 DEF AddLogin, InSession
  <2> QED BY <1>6, <2>1, <2>2 DEF AddLogin
<1>7. CASE CheckBound(r)
  <2> PICK next : next = IF Cardinality(pending) > MaxLogins
                         THEN [work[r] EXCEPT !.at = "login_sort", !.listed = pending]
                         ELSE [work[r] EXCEPT !.at = "login_url"]
    OBVIOUS
  <2>1. next.at \in {"login_sort", "login_url"} /\ next.refresh = work[r].refresh
    BY <1>2 DEF Work
  <2> QED BY <1>3, <1>7, <2>1 DEF CheckBound, InSession
<1>8. CASE SortLogins(r)
  <2>1. CASE Answer(r, {})
    BY <1>1, <1>3, <1>8, <2>1 DEF SortLogins, Answer
  <2>2. ASSUME NEW n,
               Advance(r, [work[r] EXCEPT !.at = "login_evict", !.listed = Earliest(@, n),
                                          !.raced = FALSE], {})
        PROVE  TokenIInv'
    <3> PICK next : next = [work[r] EXCEPT !.at = "login_evict",
                                  !.listed = Earliest(work[r].listed, n), !.raced = FALSE]
      OBVIOUS
    <3>1. next.at = "login_evict" /\ next.refresh = work[r].refresh
      BY <1>2 DEF Work
    <3> QED BY <1>3, <1>8, <2>2, <3>1 DEF SortLogins, InSession
  <2> QED BY <1>8, <2>1, <2>2 DEF SortLogins
<1>9. CASE EvictLogins(r)
  <2> PICK next : next = [work[r] EXCEPT !.at = "login_url", !.listed = {}]
    OBVIOUS
  <2>1. next.at = "login_url" /\ next.refresh = work[r].refresh
    BY <1>2 DEF Work
  <2> QED BY <1>3, <1>9, <2>1 DEF EvictLogins, InSession
<1>10. CASE SendToProvider(r)
  BY <1>1, <1>3, <1>10 DEF SendToProvider, Answer
<1>11. CASE Exchange(r)
  <2>1. CASE Answer(r, {})
    BY <1>1, <1>3, <1>11, <2>1 DEF Exchange, Answer
  <2>2. CASE Advance(r, [work[r] EXCEPT !.at = "session_purge"], {})
    <3> PICK next : next = [work[r] EXCEPT !.at = "session_purge"]
      OBVIOUS
    <3>1. next.at = "session_purge" /\ next.refresh = work[r].refresh
      BY <1>2 DEF Work
    <3> QED BY <1>3, <1>11, <2>2, <3>1 DEF Exchange, InSession
  <2> QED BY <1>11, <2>1, <2>2 DEF Exchange
<1>12. CASE CreateSession(r)
  <2>0. PICK disturbed : Answer(r, disturbed)
    BY <1>12 DEF CreateSession
  <2>1. CASE UNCHANGED <<store, madeFrom, sessionCookie>>
    BY <1>1, <1>12, <2>0, <2>1, LeavesTokens DEF CreateSession, Answer
  <2>2. ASSUME NEW s \in Sessions, NEW renewable \in BOOLEAN, madeFrom[s] = NoLogin,
               madeFrom' = [madeFrom EXCEPT ![s] = work[r].login],
               store' = [q \in Sessions |->
                 IF q = s THEN [refresh |-> 0, renewable |-> renewable, expiring |-> FALSE, over |-> FALSE]
                 ELSE IF store[q] # Gone /\ store[q].over THEN Gone
                 ELSE store[q]]
        PROVE  TokenIInv'
    <3>1. /\ work'[r] = Idle
          /\ \A q \in Requests \ {r} :
               /\ work'[q].at = work[q].at /\ work'[q].session = work[q].session
               /\ work'[q].refresh = work[q].refresh
      BY <2>0, Carries DEF Answer
    <3>2. work[r].at = "session_purge" /\ work[r].login # NoLogin /\ issued' = issued
      BY <1>12, Outsiders DEF CreateSession, IInv, WorkIsSound, Sound, Redeeming
    <3>3. \A q \in Sessions : madeFrom'[q] = NoLogin => q # s /\ madeFrom[q] = NoLogin
      BY <2>2, <3>2 DEF IInv, TypeOK
    <3>4. MadeIsUsed'
      <4>1. ASSUME NEW q \in Requests, work'[q].at \in InSession
            PROVE  madeFrom'[work'[q].session] # NoLogin
        <5>1. q # r /\ work[q].at \in InSession /\ work[q].session \in Sessions
          BY <1>1, <3>1, <4>1 DEF IInv, WorkIsSound, Sound
        <5> QED BY <3>1, <3>3, <5>1 DEF TokenIInv, MadeIsUsed
      <4> QED BY <2>2, <3>2, <3>3, <4>1 DEF TokenIInv, MadeIsUsed
    <3>5. NoneRotates'
      BY <1>1, <2>2, <3>1, <3>2 DEF TokenIInv, NoneRotates
    <3>6. TokensAreCurrent'
      <4> SUFFICES ASSUME Rotates, NEW q \in Sessions, store'[q] # Gone PROVE Current(q)'
        BY DEF TokensAreCurrent
      <4>1. \A p \in Requests : work'[p].session = q /\ work'[p].at \in InSession
              => work[p].session = q /\ work[p].at \in InSession /\ p # r
        BY <1>1, <3>1
      <4>2. CASE q = s
        <5>1. \A p \in Requests : ~(work'[p].session = q /\ work'[p].at \in InSession)
          BY <2>2, <4>1, <4>2 DEF TokenIInv, MadeIsUsed
        <5>2. store'[q].refresh = 0 /\ issued'[q] = 0
          BY <2>2, <3>2, <4>2 DEF TokenIInv, MadeIsUsed
        <5> QED BY <5>1, <5>2 DEF Current, Renews, InSession
      <4>3. CASE q # s
        <5>1. store'[q] = store[q] /\ Current(q)
          BY <2>2, <4>3 DEF TokenIInv, TokensAreCurrent
        <5>2. \A p \in Requests : Renews(p, q)' <=> Renews(p, q)
          BY <1>1, <3>1, <3>2 DEF Renews, InSession
        <5> QED BY <3>1, <3>2, <4>1, <5>1, <5>2, CurrentStays DEF Renews, InSession
      <4> QED BY <4>2, <4>3
    <3> QED BY <3>4, <3>5, <3>6 DEF TokenIInv
  <2> QED BY <1>12, <2>1, <2>2 DEF CreateSession
<1> QED BY <1>4, <1>5, <1>6, <1>7, <1>8, <1>9, <1>10, <1>11, <1>12 DEF SigningIn

LEMMA LookupKeepsTokens ==
  ASSUME IInv, TokenIInv, NEW r \in Requests, Lookup(r)
  PROVE  TokenIInv'
<1>0. PICK s \in Sessions : s = work[r].session
  BY DEF Lookup, IInv, WorkIsSound, Sound, InSession
<1>1. /\ work[r].at = "lookup" /\ s = work[r].session /\ work[r] \in Work
      /\ UNCHANGED <<madeFrom, issued>>
  BY <1>0 DEF Lookup, IInv, TypeOK
<1>2. Idle.at \notin InSession /\ Idle.refresh = 0
  BY DEF Idle, InSession
<1>3. CASE \E disturbed : Answer(r, disturbed)
  <2>1. \A q \in Sessions : store'[q] \in {store[q], Gone}
    BY DEF Lookup, Remove, IInv, TypeOK
  <2> QED BY <1>1, <1>2, <1>3, <2>1, EndsWithSessions DEF Answer
<1>4. CASE /\ store[s] # Gone /\ UNCHANGED store
           /\ Advance(r, [work[r] EXCEPT !.at = "refresh", !.refresh = store[s].refresh], {})
  <2> PICK next : next = [work[r] EXCEPT !.at = "refresh", !.refresh = store[s].refresh]
    OBVIOUS
  <2>1. /\ next.at = "refresh" /\ next.session = s /\ next.refresh = store[s].refresh
        /\ store[s].refresh \in Nat /\ UNCHANGED <<store, madeFrom, issued>>
    BY <1>1, <1>4 DEF Work, IInv, TypeOK, Data
  <2>2. /\ work'[r] = next
        /\ \A q \in Requests \ {r} :
             /\ work'[q].at = work[q].at /\ work'[q].session = work[q].session
             /\ work'[q].refresh = work[q].refresh
    BY <1>4, Carries
  <2>3. MadeIsUsed'
    <3>1. madeFrom[s] # NoLogin
      BY <1>1 DEF TokenIInv, MadeIsUsed, InSession
    <3> QED BY <2>1, <2>2, <3>1 DEF TokenIInv, MadeIsUsed
  <2>4. NoneRotates'
    BY <1>1, <1>4, <2>1, <2>2 DEF TokenIInv, NoneRotates
  <2>5. ASSUME Rotates, NEW q \in Sessions, store[q] # Gone PROVE Current(q)'
    <3>1. Current(q)
      BY <2>5 DEF TokenIInv, TokensAreCurrent
    <3>2. \A p \in Requests : Renews(p, q)' <=> Renews(p, q)
      BY <1>1, <2>1, <2>2 DEF Renews
    <3>3. CASE q # s
      <4>1. \A p \in Requests : Renews(p, q) => work'[p].refresh = work[p].refresh
        BY <1>1, <2>2 DEF Renews
      <4>2. \A p \in Requests : work'[p].session = q /\ work'[p].at = "refresh" =>
              work[p].session = q /\ work[p].at = "refresh" /\ work'[p].refresh = work[p].refresh
        BY <2>1, <2>2, <3>3
      <4> QED BY <2>1, <3>1, <3>2, <4>1, <4>2, CurrentStays
    <3>4. CASE q = s
      <4>1. \A p \in Requests : work'[p].session = q /\ work'[p].at = "refresh"
              => work'[p].refresh <= store'[q].refresh
        <5> SUFFICES ASSUME NEW p \in Requests, work'[p].session = q, work'[p].at = "refresh"
                     PROVE  work'[p].refresh <= store[q].refresh
          BY <2>1
        <5>1. CASE p = r
          <6>1. work'[p].refresh = store[q].refresh /\ store[q].refresh \in Nat
            BY <2>1, <2>2, <3>4, <5>1
          <6>2. \A n \in Nat : n <= n
            OBVIOUS
          <6> QED BY <6>1, <6>2
        <5>2. CASE p # r
          BY <2>2, <3>1, <5>2 DEF Current
        <5> QED BY <5>1, <5>2
      <4>2. \A p \in Requests : Renews(p, q) => work'[p].refresh = work[p].refresh
        BY <1>1, <2>2 DEF Renews
      <4> QED BY <2>1, <3>1, <3>2, <4>1, <4>2 DEF Current
    <3> QED BY <3>3, <3>4
  <2> QED BY <2>1, <2>3, <2>4, <2>5 DEF TokenIInv, TokensAreCurrent
<1> QED BY <1>0, <1>3, <1>4 DEF Lookup

(* The provider renews for whoever holds the latest token: nobody is about   *)
(* to store another one then.                                                *)
LEMMA RefreshKeepsTokens ==
  ASSUME IInv, TokenIInv, NEW r \in Requests, Refresh(r)
  PROVE  TokenIInv'
<1> DEFINE s == work[r].session
<1>0. PICK number : number = IF Rotates THEN issued[s] + 1 ELSE work[r].refresh
  OBVIOUS
<1>1. /\ work[r].at = "refresh" /\ s \in Sessions /\ work[r] \in Work
      /\ issued[s] \in Nat /\ work[r].refresh \in Nat /\ number \in Nat
      /\ UNCHANGED madeFrom
  BY <1>0 DEF Refresh, IInv, TypeOK, WorkIsSound, Sound, InSession, Work
<1>2. Idle.at \notin InSession /\ Idle.refresh = 0
  BY DEF Idle, InSession
<1>3. CASE Remove(s) /\ Answer(r, {"session_purge"}) /\ UNCHANGED issued
  <2>1. \A q \in Sessions : store'[q] \in {store[q], Gone}
    BY <1>3 DEF Remove, IInv, TypeOK
  <2> QED BY <1>1, <1>2, <1>3, <2>1, EndsWithSessions DEF Answer
<1>4. ASSUME Rotates => work[r].refresh = issued[s],
             issued' = [issued EXCEPT ![s] = number],
             NEW next, NEW disturbed, Advance(r, next, disturbed),
             \/ next = Idle /\ Remove(s)
             \/ next.at = "update" /\ next.session = s /\ next.refresh = number /\ store' = store
      PROVE  TokenIInv'
  <2>1. /\ work'[r] = next
        /\ \A q \in Requests \ {r} :
             /\ work'[q].at = work[q].at /\ work'[q].session = work[q].session
             /\ work'[q].refresh = work[q].refresh
    BY <1>4, Carries
  <2>2. /\ issued'[s] = number /\ \A q \in Sessions \ {s} : issued'[q] = issued[q]
        /\ \A q \in Sessions : store'[q] \in {store[q], Gone}
    BY <1>1, <1>4 DEF Remove, IInv, TypeOK
  <2>3. MadeIsUsed'
    BY <1>1, <1>2, <1>4, <2>1, <2>2 DEF TokenIInv, MadeIsUsed, InSession
  <2>4. NoneRotates'
    BY <1>0, <1>1, <1>2, <1>4, <2>1, <2>2 DEF TokenIInv, NoneRotates
  <2>5. ASSUME Rotates, NEW q \in Sessions, store'[q] # Gone PROVE Current(q)'
    <3>1. Current(q) /\ store'[q] = store[q]
      BY <2>2, <2>5 DEF TokenIInv, TokensAreCurrent
    <3>2. CASE q # s
      <4>1. \A p \in Requests : Renews(p, q)' <=> Renews(p, q)
        BY <1>1, <1>2, <1>4, <2>1, <3>2 DEF Renews, InSession
      <4>2. \A p \in Requests : work'[p].session = q /\ work'[p].at = "refresh" =>
              work[p].session = q /\ work[p].at = "refresh" /\ work'[p].refresh = work[p].refresh
        BY <1>1, <1>2, <1>4, <2>1, <3>2 DEF InSession
      <4>3. \A p \in Requests : Renews(p, q) => work'[p].refresh = work[p].refresh
        BY <1>1, <2>1 DEF Renews
      <4> QED BY <2>2, <3>1, <3>2, <4>1, <4>2, <4>3, CurrentStays
    <3>3. CASE q = s
      <4>1. next.at = "update" /\ next.session = s /\ next.refresh = number /\ store' = store
        BY <1>1, <1>4, <2>5, <3>3 DEF Remove, IInv, TypeOK
      <4>2. store[s].refresh \in Nat
        BY <1>1, <2>5, <3>1, <3>3 DEF IInv, TypeOK, Data
      <4>3. store[s].refresh = issued[s] /\ issued'[s] = issued[s] + 1
        BY <1>0, <1>1, <1>4, <2>2, <2>5, <3>1, <3>3, <4>2 DEF Current
      <4>4. \A p \in Requests : ~Renews(p, s)
        BY <1>1, <3>1, <3>3, <4>2, <4>3 DEF Current
      <4>5. \A p \in Requests : Renews(p, s)' <=> p = r
        BY <2>1, <4>1, <4>4 DEF Renews
      <4>6. \A p \in Requests : work'[p].session = s /\ work'[p].at = "refresh"
              => work'[p].refresh <= store'[s].refresh
        BY <2>1, <3>1, <3>3, <4>1 DEF Current
      <4> QED BY <1>0, <1>1, <2>1, <2>2, <2>5, <3>3, <4>1, <4>2, <4>3, <4>5, <4>6 DEF Current
    <3> QED BY <3>2, <3>3
  <2> QED BY <2>3, <2>4, <2>5 DEF TokenIInv, TokensAreCurrent
<1>5. PICK next : next = [work[r] EXCEPT !.at = "update", !.refresh = number]
  OBVIOUS
<1>6. next.at = "update" /\ next.session = s /\ next.refresh = number
  BY <1>1, <1>5 DEF Work
<1> QED BY <1>0, <1>3, <1>4, <1>5, <1>6 DEF Refresh, Answer

LEMMA UpdateKeepsTokens ==
  ASSUME IInv, TokenIInv, NEW r \in Requests, Update(r)
  PROVE  TokenIInv'
<1>0. PICK s \in Sessions : s = work[r].session
  BY DEF Update, IInv, WorkIsSound, Sound, InSession
<1>1. /\ work[r].at = "update" /\ s = work[r].session /\ work[r] \in Work
      /\ UNCHANGED <<store, madeFrom, issued>>
  BY <1>0 DEF Update, IInv, TypeOK, sessionVars
<1>2. CASE store[s] = Gone /\ Answer(r, {})
  <2>1. Idle.at \notin InSession /\ Idle.refresh = 0
    BY DEF Idle, InSession
  <2> QED BY <1>1, <1>2, <2>1, EndsWithSessions DEF Answer
<1>3. CASE Advance(r, [work[r] EXCEPT !.at = "merge"], {})
  <2> PICK next : next = [work[r] EXCEPT !.at = "merge"]
    OBVIOUS
  <2>1. next.at = "merge" /\ next.session = s /\ next.refresh = work[r].refresh
    BY <1>1 DEF Work
  <2>2. /\ work'[r] = next
        /\ \A q \in Requests \ {r} :
             /\ work'[q].at = work[q].at /\ work'[q].session = work[q].session
             /\ work'[q].refresh = work[q].refresh
    BY <1>3, Carries
  <2>3. MadeIsUsed'
    <3>1. madeFrom[s] # NoLogin
      BY <1>1 DEF TokenIInv, MadeIsUsed, InSession
    <3>2. ASSUME NEW q \in Requests, work'[q].at \in InSession
          PROVE  madeFrom'[work'[q].session] # NoLogin
      <4>1. CASE q = r
        BY <1>1, <2>1, <2>2, <3>1, <4>1
      <4>2. CASE q # r
        <5>1. work[q].at \in InSession /\ work'[q].session = work[q].session
          BY <2>2, <3>2, <4>2
        <5> QED BY <1>1, <5>1 DEF TokenIInv, MadeIsUsed
      <4> QED BY <4>1, <4>2
    <3>3. \A q \in Sessions : madeFrom'[q] = NoLogin => issued'[q] = 0 /\ store'[q] = Gone
      BY <1>1 DEF TokenIInv, MadeIsUsed
    <3> QED BY <3>2, <3>3 DEF MadeIsUsed
  <2>4. NoneRotates'
    BY <1>1, <2>1, <2>2 DEF TokenIInv, NoneRotates
  <2>5. ASSUME Rotates, NEW q \in Sessions, store[q] # Gone PROVE Current(q)'
    <3>1. Current(q)
      BY <2>5 DEF TokenIInv, TokensAreCurrent
    <3>2. ASSUME NEW p \in Requests PROVE Renews(p, q)' <=> Renews(p, q)
      <4>1. CASE p = r
        BY <1>1, <2>1, <2>2, <4>1 DEF Renews
      <4>2. CASE p # r
        BY <2>2, <4>2 DEF Renews
      <4> QED BY <4>1, <4>2
    <3>3. \A p \in Requests : Renews(p, q) => work'[p].refresh = work[p].refresh
      BY <2>1, <2>2
    <3>4. \A p \in Requests : work'[p].session = q /\ work'[p].at = "refresh" =>
            work[p].session = q /\ work[p].at = "refresh" /\ work'[p].refresh = work[p].refresh
      BY <2>1, <2>2
    <3> QED BY <1>1, <3>1, <3>2, <3>3, <3>4, CurrentStays
  <2> QED BY <1>1, <2>3, <2>4, <2>5 DEF TokenIInv, TokensAreCurrent
<1> QED BY <1>0, <1>2, <1>3 DEF Update

LEMMA MergeKeepsTokens ==
  ASSUME IInv, TokenIInv, NEW r \in Requests, Merge(r)
  PROVE  TokenIInv'
<1>0. PICK s \in Sessions : s = work[r].session
  BY DEF Merge, IInv, WorkIsSound, Sound, InSession
<1>1. /\ work[r].at = "merge" /\ s = work[r].session /\ work[r] \in Work
      /\ UNCHANGED <<madeFrom, issued>> /\ Answer(r, {})
  BY <1>0 DEF Merge, IInv, TypeOK
<1>2. Idle.at \notin InSession /\ Idle.refresh = 0
  BY DEF Idle, InSession
<1>3. CASE store[s] = Gone
  BY <1>1, <1>2, <1>3, EndsWithSessions DEF Merge, Answer
<1>4. CASE store[s] # Gone
  <2>1. /\ work'[r] = Idle
        /\ \A q \in Requests \ {r} :
             /\ work'[q].at = work[q].at /\ work'[q].session = work[q].session
             /\ work'[q].refresh = work[q].refresh
    BY <1>1, Carries DEF Answer
  <2>2. PICK data : data = [store[s] EXCEPT !.refresh = work[r].refresh, !.expiring = FALSE]
    OBVIOUS
  <2>3. /\ store'[s] = data /\ data.refresh = work[r].refresh
        /\ \A q \in Sessions \ {s} : store'[q] = store[q]
    BY <1>1, <1>4, <2>2 DEF Merge, IInv, TypeOK, Data
  <2>4. MadeIsUsed'
    BY <1>1, <1>2, <1>4, <2>1, <2>3 DEF TokenIInv, MadeIsUsed
  <2>5. NoneRotates'
    BY <1>1, <1>2, <2>1, <2>3 DEF TokenIInv, NoneRotates
  <2>6. ASSUME Rotates, NEW q \in Sessions, store'[q] # Gone PROVE Current(q)'
    <3>1. CASE q # s
      <4>1. Current(q) /\ store'[q] = store[q]
        BY <2>3, <2>6, <3>1 DEF TokenIInv, TokensAreCurrent
      <4>2. \A p \in Requests : Renews(p, q)' <=> Renews(p, q)
        BY <1>1, <1>2, <2>1, <3>1 DEF Renews, InSession
      <4> QED BY <1>1, <1>2, <2>1, <4>1, <4>2, CurrentStays DEF Renews, InSession
    <3>2. CASE q = s
      <4>1. Current(s) /\ Renews(r, s)
        BY <1>1, <1>4, <2>6 DEF TokenIInv, TokensAreCurrent, Renews
      <4>2. issued[s] \in Nat /\ store[s].refresh \in Nat
        BY <1>1, <1>4 DEF IInv, TypeOK, Data
      <4>3. store'[s].refresh = issued[s] /\ store[s].refresh < issued[s]
        BY <1>1, <2>3, <4>1 DEF Current
      <4>4. \A p \in Requests : ~Renews(p, s)'
        BY <1>2, <2>1, <4>1 DEF Current, Renews, InSession
      <4>5. \A p \in Requests : work'[p].session = s /\ work'[p].at = "refresh"
              => work'[p].refresh <= store'[s].refresh
        <5> SUFFICES ASSUME NEW p \in Requests, work'[p].session = s, work'[p].at = "refresh"
                     PROVE  work'[p].refresh <= store'[s].refresh
          OBVIOUS
        <5>1. work[p] \in Work /\ p # r /\ work[p].at = "refresh" /\ work[p].session = s
          BY <1>2, <2>1 DEF IInv, TypeOK, InSession
        <5>2. work[p].refresh <= store[s].refresh /\ work[p].refresh \in Nat
          BY <4>1, <5>1 DEF Current, Work
        <5> QED BY <2>1, <4>2, <4>3, <5>1, <5>2
      <4> QED BY <1>1, <3>2, <4>2, <4>3, <4>4, <4>5 DEF Current
    <3> QED BY <3>1, <3>2
  <2> QED BY <2>4, <2>5, <2>6 DEF TokenIInv, TokensAreCurrent
<1> QED BY <1>3, <1>4

LEMMA UsingKeepsTokens ==
  ASSUME IInv, TokenIInv, NEW r \in Requests, Using(r)
  PROVE  TokenIInv'
<1>1. ASSUME NEW b \in Browsers, BeginRequest(r, b) PROVE TokenIInv'
  <2> PICK next : next = [Idle EXCEPT !.at = "lookup", !.browser = b, !.session = sessionCookie[b]]
    OBVIOUS
  <2>1. /\ next.at = "lookup" /\ next.session = sessionCookie[b] /\ next.refresh = 0
        /\ work[r].at = "idle" /\ madeFrom[sessionCookie[b]] # NoLogin
        /\ UNCHANGED <<store, madeFrom, issued>>
    BY <1>1 DEF BeginRequest, Idle, IInv, SessionsAreMade, sessionVars
  <2>2. /\ work'[r] = next
        /\ \A q \in Requests \ {r} :
             /\ work'[q].at = work[q].at /\ work'[q].session = work[q].session
             /\ work'[q].refresh = work[q].refresh
    BY <1>1, Carries DEF BeginRequest
  <2>3. MadeIsUsed'
    BY <2>1, <2>2 DEF TokenIInv, MadeIsUsed
  <2>4. NoneRotates'
    BY <2>1, <2>2 DEF TokenIInv, NoneRotates
  <2>5. ASSUME Rotates, NEW q \in Sessions, store[q] # Gone PROVE Current(q)'
    <3>1. Current(q)
      BY <2>5 DEF TokenIInv, TokensAreCurrent
    <3>2. \A p \in Requests : Renews(p, q)' <=> Renews(p, q)
      BY <2>1, <2>2 DEF Renews
    <3> QED BY <2>1, <2>2, <3>1, <3>2, CurrentStays DEF Renews
  <2> QED BY <2>1, <2>3, <2>4, <2>5 DEF TokenIInv, TokensAreCurrent
<1>2. ASSUME NEW b \in Browsers, BeginLogout(r, b) PROVE TokenIInv'
  <2> PICK next : next = [Idle EXCEPT !.at = "logout", !.browser = b]
    OBVIOUS
  <2>1. next.at = "logout" /\ next.refresh = 0 /\ work[r].at = "idle"
    BY <1>2 DEF Idle, BeginLogout
  <2>2. \A q \in Sessions : store'[q] \in {store[q], Gone}
    BY <1>2 DEF BeginLogout, Remove, IInv, TypeOK
  <2> QED BY <1>2, <2>1, <2>2, EndsWithSessions DEF BeginLogout, InSession
<1>3. CASE EndLogout(r)
  <2>1. Idle.at \notin InSession /\ Idle.refresh = 0
    BY DEF Idle, InSession
  <2> QED BY <1>3, <2>1, LeavesTokens DEF EndLogout, Answer
<1> QED BY <1>1, <1>2, <1>3, LookupKeepsTokens, RefreshKeepsTokens, UpdateKeepsTokens,
       MergeKeepsTokens DEF Using

LEMMA TokenStepKeeps ==
  ASSUME IInv, TokenIInv, [Next]_vars
  PROVE  TokenIInv'
<1>1. CASE UNCHANGED <<work, madeFrom, issued, store>>
  BY <1>1 DEF TokenIInv, MadeIsUsed, NoneRotates, TokensAreCurrent, Current, Renews
<1>2. ASSUME NEW s \in Sessions, AccessExpires(s) \/ SessionEnds(s) PROVE TokenIInv'
  <2>1. store[s] \in Data /\ store[s] # Gone /\ UNCHANGED <<work, madeFrom, issued>>
    BY <1>2 DEF AccessExpires, SessionEnds, IInv, TypeOK
  <2>2. PICK data : /\ data \in {[store[s] EXCEPT !.expiring = TRUE], [store[s] EXCEPT !.over = TRUE]}
                    /\ store' = [store EXCEPT ![s] = data]
    BY <1>2 DEF AccessExpires, SessionEnds
  <2>3. data \in Data /\ data.refresh = store[s].refresh
    BY <2>1, <2>2 DEF Data
  <2>4. \A q \in Sessions : /\ store'[q] # Gone <=> store[q] # Gone
                            /\ store[q] # Gone => store'[q].refresh = store[q].refresh
    BY <2>1, <2>2, <2>3, NoData DEF IInv, TypeOK
  <2>5. MadeIsUsed' /\ NoneRotates'
    BY <2>1, <2>4 DEF TokenIInv, MadeIsUsed, NoneRotates
  <2>6. TokensAreCurrent'
    BY <2>1, <2>4 DEF TokenIInv, TokensAreCurrent, Current, Renews
  <2> QED BY <2>5, <2>6 DEF TokenIInv
<1>3. CASE LoginAges \/ \E b \in Browsers : StateCookieLapses(b)
  BY <1>1, <1>3 DEF LoginAges, StateCookieLapses, sessionVars
<1>4. CASE UNCHANGED vars
  BY <1>1, <1>4 DEF vars
<1> QED BY <1>2, <1>3, <1>4, SigningInKeepsTokens, UsingKeepsTokens DEF Next, Clock

LEMMA TokensStart == Init => TokenIInv
BY IdleIsWork DEF Init, Idle, TokenIInv, MadeIsUsed, NoneRotates, TokensAreCurrent, InSession

LEMMA TokensSuffice == IInv /\ TokenIInv => RefreshTokenIsCurrent
<1> SUFFICES ASSUME IInv, TokenIInv, NEW s \in Sessions, store[s] # Gone,
                    \A r \in Requests : ~Renews(r, s)
             PROVE  store[s].refresh = issued[s]
  BY DEF RefreshTokenIsCurrent, Renews
<1> QED BY DEF TokenIInv, TokensAreCurrent, Current, NoneRotates

(* Whichever requests renew a session at once, and whether or not the        *)
(* provider rotates its tokens: a session that is stored can be renewed.     *)
THEOREM TokensStayCurrent == Spec => []RefreshTokenIsCurrent
<1>1. Init => IInv /\ TokenIInv
  BY Starts, TokensStart
<1>2. IInv /\ TokenIInv /\ [Next]_vars => (IInv /\ TokenIInv)'
  BY StepKeeps, TokenStepKeeps
<1> QED BY <1>1, <1>2, TokensSuffice, PTL DEF Spec

----------------------------------------------------------------------------
(* Which logins are evicted.                                                *)

(* Logins are ordered by when they began, and a login that begins is newer  *)
(* than all there were.                                                     *)
LEMMA OlderOrders ==
  ASSUME IInv, BegunOnce, NEW k \in Logins, NEW l \in Logins, IsBegun(k), IsBegun(l), k # l
  PROVE  Older(k, l) \/ Older(l, k)
<1>1. begun \in Seq(Logins)
  BY DEF IInv, TypeOK
<1>2. PICK i \in DOMAIN begun : begun[i] = k
  BY DEF IsBegun
<1>3. PICK j \in DOMAIN begun : begun[j] = l
  BY DEF IsBegun
<1>4. i \in Nat \ {0} /\ j \in Nat \ {0} /\ i # j
  BY <1>1, <1>2, <1>3
<1>5. CASE i < j
  <2>1. i \in 1..(j - 1)
    BY <1>4, <1>5
  <2> QED BY <1>2, <1>3, <2>1 DEF Older
<1>6. CASE j < i
  <2>1. j \in 1..(i - 1)
    BY <1>4, <1>6
  <2> QED BY <1>2, <1>3, <2>1 DEF Older
<1> QED BY <1>4, <1>5, <1>6

LEMMA Begins ==
  ASSUME begun \in Seq(Logins), NEW l \in Logins, begun' = Append(begun, l)
  PROVE  /\ \A k : IsBegun(k)' <=> IsBegun(k) \/ k = l
         /\ \A j, k : Older(j, k) => Older(j, k)'
         /\ \A k : IsBegun(k) => Older(k, l)'
<1> DEFINE n == Len(begun)
<1>1. /\ n \in Nat /\ DOMAIN begun = 1..n /\ DOMAIN begun' = 1..(n + 1)
      /\ begun'[n + 1] = l /\ \A i \in 1..n : begun'[i] = begun[i]
  OBVIOUS
<1>2. PICK m : m = n
  OBVIOUS
<1>3. /\ m \in Nat /\ DOMAIN begun = 1..m /\ DOMAIN begun' = 1..(m + 1)
      /\ begun'[m + 1] = l /\ \A i \in 1..m : begun'[i] = begun[i]
  BY <1>1, <1>2
<1> HIDE DEF n
<1>4. ASSUME NEW k PROVE IsBegun(k)' <=> IsBegun(k) \/ k = l
  <2>1. \A i : i \in 1..(m + 1) <=> i \in 1..m \/ i = m + 1
    BY <1>3
  <2> QED BY <1>3, <2>1 DEF IsBegun
<1>5. ASSUME NEW j, NEW k, Older(j, k) PROVE Older(j, k)'
  <2>1. PICK i \in DOMAIN begun : begun[i] = k /\ \E h \in 1..(i - 1) : begun[h] = j
    BY <1>5 DEF Older
  <2>2. PICK h \in 1..(i - 1) : begun[h] = j
    BY <2>1
  <2>3. i \in 1..m /\ i \in 1..(m + 1) /\ h \in 1..m
    BY <1>3, <2>1, <2>2
  <2> QED BY <1>3, <2>1, <2>2, <2>3 DEF Older
<1>6. ASSUME NEW k, IsBegun(k) PROVE Older(k, l)'
  <2>1. PICK h \in 1..m : begun[h] = k
    BY <1>3, <1>6 DEF IsBegun
  <2>2. m + 1 \in 1..(m + 1) /\ h \in 1..((m + 1) - 1)
    BY <1>3
  <2> QED BY <1>3, <2>1, <2>2 DEF Older
<1> QED BY <1>4, <1>5, <1>6

(* The evicted are the oldest beyond the bound of those listed: as they are *)
(* fewer than all that are under way, the newest is not among them.         *)
LEMMA NewestStays ==
  ASSUME IInv, LoginIInv, NEW r \in Requests, work[r].at = "login_sort",
         NEW l \in Logins,
         l \in Earliest(work[r].listed,
                 IF Cardinality(pending) - MaxLogins < 0
                 THEN Cardinality(work[r].listed) + (Cardinality(pending) - MaxLogins)
                 ELSE Cardinality(pending) - MaxLogins)
  PROVE  Since(l) # {}
<1> SUFFICES ASSUME Since(l) = {} PROVE FALSE
  OBVIOUS
<1>0. PICK listed : listed = work[r].listed
  OBVIOUS
<1>1. /\ IsFiniteSet(listed) /\ IsFiniteSet(pending) /\ l \in listed
      /\ listed \subseteq Logins /\ pending \subseteq Logins
      /\ \A k \in listed : IsBegun(k)
      /\ \A j \in listed, k \in pending \ listed : Older(j, k)
  BY <1>0 DEF LoginIInv, BegunOnce, Listing, Earliest, IInv, TypeOK, Work
<1>2. \A k \in Logins : ~Older(l, k)
  BY DEF Since
<1>3. pending \subseteq listed
  BY <1>1, <1>2
<1> DEFINE before == {k \in listed : Older(k, l)}
<1>4. listed \ {l} \subseteq before
  BY <1>1, <1>2, OlderOrders DEF LoginIInv
<1>5. /\ Cardinality(pending) \in Nat /\ Cardinality(listed) \in Nat
      /\ Cardinality(pending) <= Cardinality(listed)
  BY <1>1, <1>3, FS_Subset, FS_CardinalityType
<1>6. /\ Cardinality(listed \ {l}) = Cardinality(listed) - 1
      /\ IsFiniteSet(before) /\ Cardinality(before) \in Nat
      /\ Cardinality(listed \ {l}) <= Cardinality(before)
  <2>1. Cardinality(listed \ {l}) = Cardinality(listed) - 1
    BY <1>1, FS_RemoveElement
  <2>2. IsFiniteSet(before) /\ Cardinality(before) \in Nat
    BY <1>1, FS_Subset, FS_CardinalityType
  <2>3. Cardinality(listed \ {l}) <= Cardinality(before)
    BY <1>4, <2>2, FS_Subset
  <2> QED BY <2>1, <2>2, <2>3
<1>7. Cardinality(before) < (IF Cardinality(pending) - MaxLogins < 0
                             THEN Cardinality(listed) + (Cardinality(pending) - MaxLogins)
                             ELSE Cardinality(pending) - MaxLogins)
  BY <1>0 DEF Earliest
<1> HIDE DEF before
<1>8. PICK b \in Nat, c \in Nat, p \in Nat :
        b = Cardinality(before) /\ c = Cardinality(listed) /\ p = Cardinality(pending)
  BY <1>5, <1>6
<1> QED BY <1>5, <1>6, <1>7, <1>8, LoginBound

(* A request that goes on to a stage at which it lists nothing that matters *)
(* later, or something that is as it should be, while logins only go.       *)
LEMMA ListsStay ==
  ASSUME IInv, LoginIInv, NEW r \in Requests, NEW next, NEW disturbed,
         Advance(r, next, disturbed), UNCHANGED <<begun, startedBy>>,
         pending' \subseteq pending, Listing(next)'
  PROVE  LoginIInv'
<1>1. /\ work'[r] = next
      /\ \A q \in Requests \ {r} : work'[q].at = work[q].at /\ work'[q].listed = work[q].listed
  BY Carries
<1>2. BegunOnce'
  BY FS_Subset DEF LoginIInv, BegunOnce, IsBegun
<1>3. \A q \in Requests \ {r} : Listing(work[q])'
  BY <1>1 DEF LoginIInv, Listing, IsBegun, Older, Since
<1> QED BY <1>1, <1>2, <1>3 DEF LoginIInv

LEMMA Unlisted ==
  ASSUME NEW next, next.at \notin {"login_sort", "login_evict"}
  PROVE  Listing(next)'
BY DEF Listing

LEMMA SigningInKeepsLists ==
  ASSUME IInv, LoginIInv, NEW r \in Requests, SigningIn(r)
  PROVE  LoginIInv'
<1>1. work[r] \in Work /\ Idle.at = "idle"
  BY DEF IInv, TypeOK, Idle
<1>2. ASSUME NEW next, NEW disturbed, Advance(r, next, disturbed),
             UNCHANGED <<begun, startedBy>>, pending' \subseteq pending,
             next.at \notin {"login_sort", "login_evict"}
      PROVE  LoginIInv'
  BY <1>2, ListsStay, Unlisted
<1>3. ASSUME NEW disturbed, Answer(r, disturbed), UNCHANGED <<begun, startedBy>>,
             pending' \subseteq pending
      PROVE  LoginIInv'
  BY <1>1, <1>2, <1>3 DEF Answer
<1>4. ASSUME NEW b \in Browsers, BeginLogin(r, b) PROVE LoginIInv'
  <2> PICK next : next = [Idle EXCEPT !.at = "login_purge", !.browser = b]
    OBVIOUS
  <2>1. next.at = "login_purge"
    BY DEF Idle
  <2> QED BY <1>2, <1>4, <2>1 DEF BeginLogin, loginVars
<1>5. ASSUME NEW b \in Browsers, NEW l \in Logins, Callback(r, b, l) PROVE LoginIInv'
  <2>1. UNCHANGED <<begun, startedBy>> /\ pending' \subseteq pending
    BY <1>5 DEF Callback
  <2>2. CASE UNCHANGED <<work, pending>>
    BY <2>1, <2>2 DEF LoginIInv, BegunOnce, Listing, IsBegun, Older, Since
  <2>3. CASE Answer(r, Iterating)
    BY <1>3, <2>1, <2>3
  <2>4. CASE Advance(r, [Idle EXCEPT !.at = "exchange", !.browser = b, !.login = l], Iterating)
    <3> PICK next : next = [Idle EXCEPT !.at = "exchange", !.browser = b, !.login = l]
      OBVIOUS
    <3>1. next.at = "exchange"
      BY DEF Idle
    <3> QED BY <1>2, <2>1, <2>4, <3>1
  <2> QED BY <1>5, <2>2, <2>3, <2>4 DEF Callback
<1>6. CASE AddLogin(r)
  <2>1. CASE Answer(r, {}) /\ UNCHANGED <<pending, begun, startedBy>>
    BY <1>3, <2>1
  <2>2. ASSUME NEW l \in Logins, NEW disturbed,
               startedBy[l] = Nobody,
               startedBy' = [startedBy EXCEPT ![l] = work[r].browser],
               pending' = (pending \ stale) \cup {l}, begun' = Append(begun, l),
               Advance(r, [work[r] EXCEPT !.at = "login_cap", !.login = l, !.raced = FALSE],
                       disturbed)
        PROVE  LoginIInv'
    <3> PICK next : next = [work[r] EXCEPT !.at = "login_cap", !.login = l, !.raced = FALSE]
      OBVIOUS
    <3>1. next.at = "login_cap"
      BY <1>1 DEF Work
    <3>2. /\ work'[r] = next
          /\ \A q \in Requests \ {r} :
               work'[q].at = work[q].at /\ work'[q].listed = work[q].listed
      BY <2>2, Carries
    <3>3. work[r].browser # Nobody
      BY <1>6, Outsiders DEF AddLogin, IInv, WorkIsSound, Sound, ForBrowser
    <3>4. begun \in Seq(Logins) /\ ~IsBegun(l)
      BY <2>2 DEF IInv, TypeOK, LoginIInv, BegunOnce
    <3>5. /\ \A k : IsBegun(k)' <=> IsBegun(k) \/ k = l
          /\ \A j, k : Older(j, k) => Older(j, k)'
          /\ \A k : IsBegun(k) => Older(k, l)'
      BY <2>2, <3>4, Begins
    <3>6. \A i, j \in DOMAIN begun' : begun'[i] = begun'[j] => i = j
      <4>1. PICK n \in Nat : n = Len(begun)
        BY <3>4
      <4>2. /\ DOMAIN begun = 1..n /\ DOMAIN begun' = 1..(n + 1)
            /\ begun'[n + 1] = l /\ \A i \in 1..n : begun'[i] = begun[i]
        BY <2>2, <3>4, <4>1
      <4>3. \A i \in 1..n : begun'[i] # l
        BY <3>4, <4>2 DEF IsBegun
      <4>4. \A i \in 1..(n + 1) : i \in 1..n \/ i = n + 1
        BY <4>1
      <4> QED BY <4>2, <4>3, <4>4 DEF LoginIInv, BegunOnce
    <3>7. \A k \in Logins : IsBegun(k)' => startedBy'[k] # Nobody
      BY <2>2, <3>3, <3>5 DEF LoginIInv, BegunOnce, IInv, TypeOK
    <3>8. IsFiniteSet(pending')
      <4>1. IsFiniteSet(pending \ stale)
        BY FS_Subset DEF LoginIInv, BegunOnce
      <4> QED BY <2>2, <4>1, FS_AddElement
    <3>9. \A k \in pending' : IsBegun(k)'
      BY <2>2, <3>5 DEF LoginIInv, BegunOnce
    <3>10. BegunOnce'
      BY <3>6, <3>7, <3>8, <3>9 DEF BegunOnce
    <3>11. ASSUME NEW q \in Requests \ {r} PROVE Listing(work[q])'
      <4>1. Listing(work[q]) /\ work[q] \in Work
        BY DEF LoginIInv, IInv, TypeOK
      <4>2. PICK listed : listed = work[q].listed
        OBVIOUS
      <4>3. listed = work'[q].listed /\ listed \subseteq Logins
        BY <3>2, <4>1, <4>2 DEF Work
      <4>4. work[q].at = "login_sort" =>
              /\ IsFiniteSet(listed) /\ \A k \in listed : IsBegun(k)'
              /\ \A j \in listed, k \in pending' \ listed : Older(j, k)'
        BY <2>2, <3>5, <4>1, <4>2 DEF Listing
      <4>5. work[q].at = "login_evict" => \A k \in listed : Since(k)' # {}
        BY <3>5, <4>1, <4>2 DEF Listing, Since
      <4> QED BY <3>2, <4>3, <4>4, <4>5 DEF Listing
    <3> QED BY <3>1, <3>2, <3>10, <3>11, Unlisted DEF LoginIInv
  <2> QED BY <1>6, <2>1, <2>2 DEF AddLogin
<1>7. CASE CheckBound(r)
  <2>1. UNCHANGED <<begun, startedBy, pending>>
    BY <1>7 DEF CheckBound, loginVars
  <2>2. CASE Advance(r, [work[r] EXCEPT !.at = "login_sort", !.listed = pending], {})
    <3> PICK next : next = [work[r] EXCEPT !.at = "login_sort", !.listed = pending]
      OBVIOUS
    <3>1. next.at = "login_sort" /\ next.listed = pending
      BY <1>1 DEF Work
    <3>2. IsFiniteSet(pending) /\ \A l \in pending : IsBegun(l)'
      BY <2>1 DEF LoginIInv, BegunOnce, IsBegun
    <3>3. Listing(next)'
      BY <2>1, <3>1, <3>2 DEF Listing
    <3> QED BY <2>1, <2>2, <3>3, ListsStay
  <2>3. CASE Advance(r, [work[r] EXCEPT !.at = "login_url"], {})
    <3> PICK next : next = [work[r] EXCEPT !.at = "login_url"]
      OBVIOUS
    <3>1. next.at = "login_url"
      BY <1>1 DEF Work
    <3> QED BY <1>2, <2>1, <2>3, <3>1
  <2> QED BY <1>7, <2>2, <2>3 DEF CheckBound
<1>8. CASE SortLogins(r)
  <2>1. work[r].at = "login_sort" /\ UNCHANGED <<begun, startedBy, pending>>
    BY <1>8 DEF SortLogins, loginVars
  <2>2. CASE Answer(r, {})
    BY <1>3, <2>1, <2>2
  <2> DEFINE end == IF Cardinality(pending) - MaxLogins < 0
                    THEN Cardinality(work[r].listed) + (Cardinality(pending) - MaxLogins)
                    ELSE Cardinality(pending) - MaxLogins
  <2>3. CASE Advance(r, [work[r] EXCEPT !.at = "login_evict", !.listed = Earliest(@, end),
                                        !.raced = FALSE], {})
    <3>1. PICK evicted : evicted = Earliest(work[r].listed, end)
      OBVIOUS
    <3>2. \A l \in evicted : l \in Logins
      BY <1>1, <3>1 DEF Earliest, Work
    <3>3. \A l \in evicted : Since(l) # {}
      BY <2>1, <3>1, <3>2, NewestStays
    <3> HIDE DEF end
    <3> PICK next : next = [work[r] EXCEPT !.at = "login_evict", !.listed = evicted, !.raced = FALSE]
      OBVIOUS
    <3>4. next.at = "login_evict" /\ next.listed = evicted
      BY <1>1 DEF Work
    <3>5. Listing(next)'
      BY <2>1, <3>3, <3>4 DEF Listing, Since, Older
    <3> QED BY <2>1, <2>3, <3>1, <3>5, ListsStay
  <2> QED BY <1>8, <2>2, <2>3 DEF SortLogins
<1>9. CASE EvictLogins(r)
  <2> PICK next : next = [work[r] EXCEPT !.at = "login_url", !.listed = {}]
    OBVIOUS
  <2>1. next.at = "login_url"
    BY <1>1 DEF Work
  <2>2. UNCHANGED <<begun, startedBy>> /\ pending' \subseteq pending
    BY <1>9 DEF EvictLogins
  <2> QED BY <1>2, <1>9, <2>1, <2>2 DEF EvictLogins
<1>10. CASE SendToProvider(r)
  BY <1>3, <1>10 DEF SendToProvider
<1>11. CASE Exchange(r)
  <2>1. UNCHANGED <<begun, startedBy, pending>>
    BY <1>11 DEF Exchange, loginVars
  <2>2. CASE Answer(r, {})
    BY <1>3, <2>1, <2>2
  <2>3. CASE Advance(r, [work[r] EXCEPT !.at = "session_purge"], {})
    <3> PICK next : next = [work[r] EXCEPT !.at = "session_purge"]
      OBVIOUS
    <3>1. next.at = "session_purge"
      BY <1>1 DEF Work
    <3> QED BY <1>2, <2>1, <2>3, <3>1
  <2> QED BY <1>11, <2>2, <2>3 DEF Exchange
<1>12. CASE CreateSession(r)
  BY <1>3, <1>12 DEF CreateSession, loginVars
<1> QED BY <1>4, <1>5, <1>6, <1>7, <1>8, <1>9, <1>10, <1>11, <1>12 DEF SigningIn

LEMMA UsingKeepsLists ==
  ASSUME IInv, LoginIInv, NEW r \in Requests, Using(r)
  PROVE  LoginIInv'
<1>1. work[r] \in Work /\ Idle.at = "idle"
  BY DEF IInv, TypeOK, Idle
<1>2. UNCHANGED <<pending, begun, startedBy>>
  BY DEF Using, BeginRequest, BeginLogout, Lookup, Refresh, Update, Merge, EndLogout, loginVars
<1>3. ASSUME NEW next, NEW disturbed, Advance(r, next, disturbed),
             next.at \notin {"login_sort", "login_evict"}
      PROVE  LoginIInv'
  BY <1>2, <1>3, ListsStay, Unlisted
<1>4. ASSUME NEW disturbed, Answer(r, disturbed) PROVE LoginIInv'
  BY <1>1, <1>3, <1>4 DEF Answer
<1>5. ASSUME NEW b \in Browsers, BeginRequest(r, b) PROVE LoginIInv'
  <2> PICK next : next = [Idle EXCEPT !.at = "lookup", !.browser = b, !.session = sessionCookie[b]]
    OBVIOUS
  <2>1. next.at = "lookup"
    BY DEF Idle
  <2> QED BY <1>3, <1>5, <2>1 DEF BeginRequest
<1>6. ASSUME NEW b \in Browsers, BeginLogout(r, b) PROVE LoginIInv'
  <2> PICK next : next = [Idle EXCEPT !.at = "logout", !.browser = b]
    OBVIOUS
  <2>1. next.at = "logout"
    BY DEF Idle
  <2> QED BY <1>3, <1>6, <2>1 DEF BeginLogout
<1>7. ASSUME NEW stage \in {"refresh", "update", "merge"}, NEW number,
             \/ Advance(r, [work[r] EXCEPT !.at = stage, !.refresh = number], {})
             \/ Advance(r, [work[r] EXCEPT !.at = stage], {})
      PROVE  LoginIInv'
  <2> PICK next : /\ Advance(r, next, {})
                  /\ \/ next = [work[r] EXCEPT !.at = stage, !.refresh = number]
                     \/ next = [work[r] EXCEPT !.at = stage]
    BY <1>7
  <2>1. next.at = stage
    BY <1>1 DEF Work
  <2> QED BY <1>3, <2>1
<1>8. CASE Lookup(r)
  BY <1>4, <1>7, <1>8 DEF Lookup
<1>9. CASE Refresh(r)
  BY <1>4, <1>7, <1>9 DEF Refresh
<1>10. CASE Update(r)
  BY <1>4, <1>7, <1>10 DEF Update
<1>11. CASE Merge(r)
  BY <1>4, <1>11 DEF Merge
<1>12. CASE EndLogout(r)
  BY <1>4, <1>12 DEF EndLogout
<1> QED BY <1>5, <1>6, <1>8, <1>9, <1>10, <1>11, <1>12 DEF Using

LEMMA ListStepKeeps ==
  ASSUME IInv, LoginIInv, [Next]_vars
  PROVE  LoginIInv'
<1>1. CASE UNCHANGED <<work, pending, begun, startedBy>>
  BY <1>1 DEF LoginIInv, BegunOnce, Listing, IsBegun, Older, Since
<1>2. CASE Clock
  <2>1. UNCHANGED <<work, pending, begun, startedBy>>
    BY <1>2 DEF Clock, LoginAges, StateCookieLapses, AccessExpires, SessionEnds, loginVars
  <2> QED BY <1>1, <2>1
<1>3. CASE UNCHANGED vars
  BY <1>1, <1>3 DEF vars
<1> QED BY <1>2, <1>3, SigningInKeepsLists, UsingKeepsLists DEF Next

LEMMA ListsStart == Init => LoginIInv
<1> SUFFICES ASSUME Init PROVE LoginIInv
  OBVIOUS
<1>1. DOMAIN begun = {} /\ pending = {}
  BY DEF Init
<1>2. BegunOnce
  BY <1>1, FS_EmptySet DEF BegunOnce, IsBegun
<1>3. \A r \in Requests : work[r].at = "idle"
  BY IdleIsWork DEF Init
<1> QED BY <1>2, <1>3 DEF LoginIInv, Listing

(* Only these four stages of signing in take a login from the store.        *)
LEMMA LoginLeaves ==
  ASSUME IInv, LoginIInv, [Next]_vars, NEW l \in Logins, l \in pending, l \notin pending'
  PROVE  \/ l \in stale \/ Since(l) # {}
         \/ \E r \in Requests : work'[r].at = "exchange" /\ work'[r].browser = startedBy[l]
<1>1. ASSUME NEW r \in Requests, SigningIn(r)
      PROVE  \/ l \in stale \/ Since(l) # {}
             \/ \E q \in Requests : work'[q].at = "exchange" /\ work'[q].browser = startedBy[l]
  <2>1. CASE AddLogin(r)
    BY <2>1 DEF AddLogin
  <2>2. CASE EvictLogins(r)
    BY <2>2 DEF EvictLogins, LoginIInv, Listing
  <2>3. ASSUME NEW b \in Browsers, NEW k \in Logins, Callback(r, b, k)
        PROVE  l \in stale \/ \E q \in Requests :
                 work'[q].at = "exchange" /\ work'[q].browser = startedBy[l]
    <3>1. l = k /\ stateCookie[b] = l
      BY <2>3 DEF Callback
    <3>2. startedBy[l] = b
      BY <3>1, Outsiders DEF IInv, LoginsAreBegun
    <3>3. CASE l \notin stale
      <4> PICK next : next = [Idle EXCEPT !.at = "exchange", !.browser = b, !.login = k]
        OBVIOUS
      <4>1. next.at = "exchange" /\ next.browser = b
        BY DEF Idle
      <4>2. Advance(r, next, Iterating)
        BY <2>3, <3>1, <3>3 DEF Callback
      <4>3. work'[r] = next
        BY <4>2, Carries
      <4> QED BY <3>2, <4>1, <4>3
    <3> QED BY <3>3
  <2>4. CASE UNCHANGED pending
    BY <2>4
  <2> QED BY <1>1, <2>1, <2>2, <2>3, <2>4
        DEF SigningIn, BeginLogin, CheckBound, SortLogins, SendToProvider, Exchange,
            CreateSession, loginVars
<1>2. ASSUME NEW r \in Requests, Using(r) PROVE UNCHANGED pending
  BY <1>2 DEF Using, BeginRequest, BeginLogout, Lookup, Refresh, Update, Merge, EndLogout, loginVars
<1>3. CASE Clock
  BY <1>3 DEF Clock, LoginAges, StateCookieLapses, AccessExpires, SessionEnds, loginVars
<1>4. CASE UNCHANGED vars
  BY <1>4 DEF vars
<1> QED BY <1>1, <1>2, <1>3, <1>4 DEF Next

(* However many logins begin at once, however long each is sorting, and     *)
(* whatever callbacks arrive: a login is there for its own browser, until   *)
(* it is too old or one that began later has pushed it out.                 *)
THEOREM LoginsAreTheirBrowsers == Spec => OnlyItsBrowserRedeems
<1>1. Init => IInv /\ LoginIInv
  BY Starts, ListsStart
<1>2. IInv /\ LoginIInv /\ [Next]_vars => (IInv /\ LoginIInv)'
  BY StepKeeps, ListStepKeeps
<1>3. IInv /\ LoginIInv /\ [Next]_vars =>
        [\A l \in Logins :
           l \in pending /\ l \notin pending'
             => \/ l \in stale \/ Since(l) # {}
                \/ \E r \in Requests : work'[r].at = "exchange" /\ work'[r].browser = startedBy[l]]_vars
  BY LoginLeaves
<1> QED BY <1>1, <1>2, <1>3, PTL DEF Spec, OnlyItsBrowserRedeems
============================================================================
