------------------------------ MODULE Sessions ------------------------------
(***************************************************************************)
(* The sessions of one user: the rotating refresh token behind the cookie  *)
(* that every app of a browser shares (session.ts, refresh.ts, the         *)
(* /token/refresh route and its cookie rules), the browser's tabs that     *)
(* elect one of them to refresh (createAuthClient.ts, refreshElection.ts), *)
(* the cap on concurrent sessions a login enforces, and the password       *)
(* change that revokes every other session.                                *)
(*                                                                         *)
(* A session stands for its refresh token; sessions are numbered in the    *)
(* order they are created.  Nobody but the user holds a token here.  The   *)
(* clock is left out: a claim of the lock or the grace of a revoked token  *)
(* may end at any time the code's constants allow.                         *)
(***************************************************************************)
EXTENDS Naturals, FiniteSets

CONSTANTS
  Devices,     \* the user's browsers, each with a cookie jar
  Tabs,        \* their tabs
  DeviceOf,    \* the browser of each tab
  AppOf,       \* and its app: web, admin or forge
  SignedIn,    \* the browsers with a session at the start
  Cap,         \* the tenant's maxConcurrentSessions; 0 is unlimited
  MaxSessions, \* bound: sessions ever created
  MaxLogins,   \* bound: logins
  MaxDues,     \* bound: how often an access token runs out
  MishapKinds, \* what may go wrong: "lost", "slow", "infra", "close", "password", "cap"
  MaxMishaps,  \* bound: how often
  NoTab        \* no tab

ASSUME UserAssumption ==
  /\ DeviceOf \in [Tabs -> Devices] /\ SignedIn \subseteq Devices
  /\ Cap \in Nat /\ MaxSessions \in Nat /\ NoTab \notin Tabs
  /\ IsFiniteSet(SignedIn) /\ Cardinality(SignedIn) <= MaxSessions
  /\ Cap = 0 \/ Cardinality(SignedIn) <= Cap
  /\ IsFiniteSet(Devices)
  /\ {MaxLogins, MaxDues, MaxMishaps} \subseteq Nat

VARIABLES
  session,  \* user_sessions: live, revoked within the grace, or revoked before
  cookie,   \* the refresh cookie of each browser; 0 is none
  lock,     \* the refresh lock of each browser: the tab that claims it
  tab,      \* what each tab is doing, and the request it has in flight
  login,    \* a login on each browser
  account,  \* the session a password change on each browser keeps; 0 is none
  logins,   \* how often somebody logged in
  dues,     \* how often an access token ran out
  mishaps,  \* how often something went wrong
  hit,      \* "outside": something did, or a session was revoked by another browser
  over      \* sessions that may stand above the cap since a login last listed: history

sessionVars == <<session, cookie, lock, tab, login, account, logins, dues, mishaps, hit,
                 over>>

Sessions == 1 .. MaxSessions
Live     == {s \in Sessions : session[s] = "live"}
Doomed   == UNION {login[d].evict : d \in Devices}
Unused   == {s \in Sessions : session[s] = "none"}
NextId   == CHOOSE s \in Unused : \A t \in Unused : s <= t

\* The sessions a browser starts with, one each.
StartOf == CHOOSE f \in [SignedIn -> 1 .. Cardinality(SignedIn)] :
             \A d, e \in SignedIn : f[d] = f[e] => d = e

Quiet   == [pc |-> "idle", sent |-> 0, got |-> 0, elected |-> FALSE, good |-> TRUE]
NoLogin == [pc |-> "none", id |-> 0, evict |-> {}]

SessionsInit ==
  /\ session = [s \in Sessions |-> IF s <= Cardinality(SignedIn) THEN "live" ELSE "none"]
  /\ cookie = [d \in Devices |-> IF d \in SignedIn THEN StartOf[d] ELSE 0]
  /\ lock = [d \in Devices |-> NoTab]
  /\ tab = [t \in Tabs |-> [task |-> Quiet, token |-> "fresh", mail |-> FALSE, open |-> TRUE]]
  /\ login = [d \in Devices |-> NoLogin]
  /\ account = [d \in Devices |-> 0]
  /\ logins = 0
  /\ dues = 0
  /\ mishaps = 0
  /\ hit = {}
  /\ over = 0

Mishap(kind) ==
  /\ kind \in MishapKinds
  /\ mishaps < MaxMishaps
  /\ mishaps' = mishaps + 1
  /\ hit' = hit \cup {"outside"}

NoMishap == UNCHANGED <<mishaps, hit>>

(***************************************************************************)
(* A tab whose access token runs out: the timer, the election, the request. *)
(***************************************************************************)
TabAt(t, pc)   == tab[t].task.pc = pc
Sent(t)     == tab[t].task.sent
Jar(t)      == cookie[DeviceOf[t]]
InFlight(t) == tab[t].task.pc \in {"sent", "found", "reuse", "rotated", "refused", "clear"}

Becomes(t, task) == tab' = [tab EXCEPT ![t].task = task]

\* The cookie of a browser is live, or its successor is on the way.
Good(d) ==
  \/ cookie[d] \in Live
  \/ \E t \in Tabs : DeviceOf[t] = d /\ TabAt(t, "rotated") /\ Sent(t) = cookie[d]

\* fetch() with the cookie the browser holds at this moment; whether that is a
\* good one is noted.
Fetch(t, elected) ==
  Becomes(t, [pc |-> "sent", sent |-> Jar(t), got |-> 0, elected |-> elected,
              good |-> Good(DeviceOf[t])])

RunsOut(t) ==
  /\ tab[t].open /\ tab[t].token = "fresh"
  /\ Jar(t) # 0
  /\ dues < MaxDues
  /\ dues' = dues + 1
  /\ tab' = [tab EXCEPT ![t].token = "due"]
  /\ NoMishap
  /\ UNCHANGED <<session, cookie, lock, login, account, logins, over>>

\* A tab whose token ran out and that can be served.
Waits(t) == tab[t].open /\ tab[t].token = "due" /\ Jar(t) # 0

Wants(t) == Waits(t) /\ TabAt(t, "idle")

\* No live claim of another tab.
Unclaimed(t) == lock[DeviceOf[t]] \in {NoTab, t}

\* The timer's refresh: check the claim, write one, read it again.
Check(t) ==
  /\ Wants(t)
  /\ Unclaimed(t)
  /\ Becomes(t, [Quiet EXCEPT !.pc = "write"])
  /\ NoMishap
  /\ UNCHANGED <<session, cookie, lock, login, account, logins, dues, over>>

Write(t) ==
  /\ tab[t].open /\ TabAt(t, "write")
  /\ lock' = [lock EXCEPT ![DeviceOf[t]] = t]
  /\ Becomes(t, [Quiet EXCEPT !.pc = "reread"])
  /\ NoMishap
  /\ UNCHANGED <<session, cookie, login, account, logins, dues, over>>

Win(t) ==
  /\ tab[t].open /\ TabAt(t, "reread")
  /\ Unclaimed(t)
  /\ Jar(t) # 0
  /\ Fetch(t, TRUE)
  /\ NoMishap
  /\ UNCHANGED <<session, cookie, lock, login, account, logins, dues, over>>

\* Another claim survived: the tab stands down and its timer is armed again.
StandDown(t) ==
  /\ tab[t].open /\ TabAt(t, "reread")
  /\ ~Unclaimed(t) \/ Jar(t) = 0
  /\ Becomes(t, Quiet)
  /\ NoMishap
  /\ UNCHANGED <<session, cookie, lock, login, account, logins, dues, over>>

\* fetchWithAuth refreshes on demand, without an election.
OnDemand(t) ==
  /\ Wants(t)
  /\ Fetch(t, FALSE)
  /\ NoMishap
  /\ UNCHANGED <<session, cookie, lock, login, account, logins, dues, over>>

\* Broken variant: a claim is honoured until the tab that made it releases it.
NeverAbandoned(d) == FALSE

\* A claim is honoured for LOCK_TTL_MS, which may be over at any time but while
\* the script that wrote it reads it again.
Abandoned(d) == lock[d] # NoTab /\ ~TabAt(lock[d], "reread")

ClaimEnds(d) ==
  /\ Abandoned(d)
  /\ lock' = [lock EXCEPT ![d] = NoTab]
  /\ NoMishap
  /\ UNCHANGED <<session, cookie, tab, login, account, logins, dues, over>>

(***************************************************************************)
(* The server: findActiveSessionOrDetectReuse and rotateSession.           *)
(***************************************************************************)

\* Revoked longer ago than REUSE_GRACE_MS.
Replayed(s) == session[s] = "aged"

\* Broken variant: a rotation race clears the cookie.
RaceClears(s) == session[s] = "revoked"

\* shouldClearRefreshCookie, of a token that is refused within the grace.
Clears(s) == FALSE

Look(t) ==
  /\ TabAt(t, "sent")
  /\ LET s == Sent(t)
     IN  Becomes(t, [tab[t].task EXCEPT !.pc =
           IF Replayed(s) THEN "reuse"
           ELSE IF session[s] = "live" THEN "found"
           ELSE IF Clears(s) THEN "clear" ELSE "refused"])
  /\ NoMishap
  /\ UNCHANGED <<session, cookie, lock, login, account, logins, dues, over>>

\* revokeAllSessionsForUser: the family is revoked, the cookie cleared.
Punish(t) ==
  /\ TabAt(t, "reuse")
  /\ session' = [s \in Sessions |-> IF s \in Live THEN "revoked" ELSE session[s]]
  /\ Becomes(t, [tab[t].task EXCEPT !.pc = "clear"])
  /\ NoMishap
  /\ UNCHANGED <<cookie, lock, login, account, logins, dues, over>>

\* The update does not ask whether the row is still live: a session that was
\* revoked meanwhile, or that a login has chosen for eviction, lives on as its
\* successor.
Rotate(t) ==
  /\ TabAt(t, "found")
  /\ Unused # {}
  /\ session' = [session EXCEPT ![Sent(t)] = "revoked", ![NextId] = "live"]
  /\ Becomes(t, [tab[t].task EXCEPT !.pc = "rotated", !.got = NextId])
  /\ over' = IF Sent(t) \in Live \ Doomed THEN over ELSE over + 1
  /\ NoMishap
  /\ UNCHANGED <<cookie, lock, login, account, logins, dues>>

\* A fault of the database or of the policy read clears the cookie too.
ServerFails(t) ==
  /\ tab[t].task.pc \in {"sent", "found"}
  /\ Mishap("infra")
  /\ Becomes(t, [tab[t].task EXCEPT !.pc = "clear"])
  /\ UNCHANGED <<session, cookie, lock, login, account, logins, dues, over>>

(***************************************************************************)
(* The answer.  A tab that won the election releases its own claim, and    *)
(* shares a token with the tabs of the same app.                           *)
(***************************************************************************)
Released(t) ==
  IF tab[t].task.elected /\ lock[DeviceOf[t]] = t
  THEN [lock EXCEPT ![DeviceOf[t]] = NoTab] ELSE lock

Siblings(t) == {u \in Tabs \ {t} : DeviceOf[u] = DeviceOf[t] /\ AppOf[u] = AppOf[t]}

Served(t) ==
  /\ tab[t].open /\ TabAt(t, "rotated")
  /\ cookie' = [cookie EXCEPT ![DeviceOf[t]] = tab[t].task.got]
  /\ lock' = Released(t)
  /\ tab' = [u \in Tabs |->
       IF u = t THEN [tab[u] EXCEPT !.task = Quiet, !.token = "fresh"]
       ELSE IF tab[t].task.elected /\ u \in Siblings(t) /\ tab[u].open
       THEN [tab[u] EXCEPT !.mail = TRUE] ELSE tab[u]]
  /\ NoMishap
  /\ UNCHANGED <<session, login, account, logins, dues, over>>

\* adoptToken: the token another tab shared.
Adopt(t) ==
  /\ tab[t].open /\ tab[t].mail
  /\ tab' = [tab EXCEPT ![t].mail = FALSE, ![t].token = "fresh"]
  /\ NoMishap
  /\ UNCHANGED <<session, cookie, lock, login, account, logins, dues, over>>

Refused(t) ==
  /\ tab[t].open /\ tab[t].task.pc \in {"refused", "clear"}
  /\ cookie' = IF TabAt(t, "clear") THEN [cookie EXCEPT ![DeviceOf[t]] = 0] ELSE cookie
  /\ lock' = Released(t)
  /\ Becomes(t, Quiet)
  /\ NoMishap
  /\ UNCHANGED <<session, login, account, logins, dues, over>>

\* The answer is lost on its way; the tab sees a failed fetch.
AnswerLost(t) ==
  /\ tab[t].open /\ tab[t].task.pc \in {"rotated", "refused", "clear"}
  /\ Mishap("lost")
  /\ lock' = Released(t)
  /\ Becomes(t, Quiet)
  /\ UNCHANGED <<session, cookie, login, account, logins, dues, over>>

\* The tab is closed; its request goes on at the server, its answer has no
\* receiver, and its claim stays.
Close(t) ==
  /\ tab[t].open
  /\ Mishap("close")
  /\ tab' = [tab EXCEPT ![t].open = FALSE, ![t].mail = FALSE,
                        ![t].task = IF InFlight(t) THEN @ ELSE Quiet]
  /\ UNCHANGED <<session, cookie, lock, login, account, logins, dues, over>>

Unheard(t) ==
  /\ ~tab[t].open /\ tab[t].task.pc \in {"rotated", "refused", "clear"}
  /\ Becomes(t, Quiet)
  /\ NoMishap
  /\ UNCHANGED <<session, cookie, lock, login, account, logins, dues, over>>

\* A browser holds the token, or will: nobody can present another one.
Held(s) ==
  \/ \E d \in Devices : s \in {cookie[d], login[d].id}
  \/ \E t \in Tabs : s \in {Sent(t), tab[t].task.got}

\* The grace of a revoked token ends.  A request that was sent with a good cookie
\* is answered within it, unless it is slow.
GraceEnds(s) ==
  /\ session[s] = "revoked" /\ Held(s)
  /\ IF \E t \in Tabs : InFlight(t) /\ Sent(t) = s /\ tab[t].task.good THEN Mishap("slow") ELSE NoMishap
  /\ session' = [session EXCEPT ![s] = "aged"]
  /\ UNCHANGED <<cookie, lock, tab, login, account, logins, dues, over>>

(***************************************************************************)
(* A login, and the cap: createSession and enforceConcurrentSessionCap.    *)
(***************************************************************************)
\* redirectIfAuthenticated: only a browser without a live session gets the form.
LogIn(d) ==
  /\ login[d].pc = "none" /\ cookie[d] \notin Live
  /\ Unused # {} /\ logins < MaxLogins
  /\ logins' = logins + 1
  /\ session' = [session EXCEPT ![NextId] = "live"]
  /\ login' = [login EXCEPT ![d] = [pc |-> "list", id |-> NextId, evict |-> {}]]
  /\ NoMishap
  /\ UNCHANGED <<cookie, lock, tab, account, dues, over>>

Oldest(S, n) == {s \in S : Cardinality({r \in S : r < s}) < n}

\* Broken variant: the session just created does not count.
EvictOthersOnly(active, keep) ==
  IF Cap = 0 \/ Cardinality(active \ {keep}) <= Cap THEN {}
  ELSE Oldest(active \ {keep}, Cardinality(active \ {keep}) - Cap)

\* sessionsToEvict.
ToEvict(active, keep) ==
  IF Cap = 0 \/ Cardinality(active) <= Cap THEN {}
  ELSE Oldest(active \ {keep}, Cardinality(active) - Cap)

\* What this login and those before it leave above the cap is chosen for eviction.
List(d) ==
  /\ login[d].pc = "list"
  /\ login' = [login EXCEPT ![d].pc = "evict", ![d].evict = ToEvict(Live, login[d].id)]
  /\ over' = 0
  /\ NoMishap
  /\ UNCHANGED <<session, cookie, lock, tab, account, logins, dues>>

\* sessionRepository.revoke stamps the row again, whatever it says by now.
Evict(d) ==
  /\ login[d].pc = "evict"
  /\ session' = [s \in Sessions |-> IF s \in login[d].evict THEN "revoked" ELSE session[s]]
  /\ login' = [login EXCEPT ![d].pc = "enter", ![d].evict = {}]
  /\ hit' = IF login[d].evict # {} THEN hit \cup {"outside"} ELSE hit
  /\ UNCHANGED <<cookie, lock, tab, account, logins, dues, mishaps, over>>

\* The catch: a fault of resolving the cap, of listing, or of some of the
\* revocations, and the login goes on.
CapFails(d) ==
  /\ login[d].pc \in {"list", "evict"}
  /\ Mishap("cap")
  /\ \E stamped \in SUBSET login[d].evict :
       /\ session' = [s \in Sessions |-> IF s \in stamped THEN "revoked" ELSE session[s]]
       /\ over' = over + (IF login[d].pc = "list" THEN 1
                          ELSE Cardinality(login[d].evict \ stamped))
  /\ login' = [login EXCEPT ![d].pc = "enter", ![d].evict = {}]
  /\ UNCHANGED <<cookie, lock, tab, account, logins, dues>>

SetCookie(d) ==
  /\ login[d].pc = "enter"
  /\ cookie' = [cookie EXCEPT ![d] = login[d].id]
  /\ login' = [login EXCEPT ![d] = NoLogin]
  /\ NoMishap
  /\ UNCHANGED <<session, lock, tab, account, logins, dues, over>>

(***************************************************************************)
(* changePassword: requireUser reads the session of this browser, and      *)
(* after the password is stored every other session is revoked.            *)
(***************************************************************************)
OpenAccount(d) ==
  /\ account[d] = 0 /\ cookie[d] \in Live
  /\ Mishap("password")
  /\ account' = [account EXCEPT ![d] = cookie[d]]
  /\ UNCHANGED <<session, cookie, lock, tab, login, logins, dues, over>>

RevokeOthers(d) ==
  /\ account[d] # 0
  /\ session' = [s \in Sessions |->
       IF s \in Live \ {account[d]} THEN "revoked" ELSE session[s]]
  /\ account' = [account EXCEPT ![d] = 0]
  /\ NoMishap
  /\ UNCHANGED <<cookie, lock, tab, login, logins, dues, over>>

(***************************************************************************)
(* The specification.                                                      *)
(***************************************************************************)
TabStep(t) == Check(t) \/ Write(t) \/ Win(t) \/ StandDown(t) \/ Adopt(t)

ServerStep(t) == Look(t) \/ Punish(t) \/ Rotate(t)

Response(t) == Served(t) \/ Refused(t) \/ Unheard(t)

LoginStep(d) == List(d) \/ Evict(d) \/ SetCookie(d)

SessionsNext ==
  \/ \E t \in Tabs : \/ RunsOut(t) \/ OnDemand(t) \/ TabStep(t) \/ ServerStep(t)
                     \/ Response(t) \/ ServerFails(t) \/ AnswerLost(t) \/ Close(t)
  \/ \E d \in Devices : \/ ClaimEnds(d) \/ LogIn(d) \/ LoginStep(d)
                        \/ OpenAccount(d) \/ RevokeOthers(d) \/ CapFails(d)
  \/ \E s \in Sessions : GraceEnds(s)

SessionsSpec == SessionsInit /\ [][SessionsNext]_sessionVars

\* Timers fire, requests are answered, and the clock runs: also while a tab
\* tries again every LOCK_TTL_MS, the grace of the token it presents ends.
Fairness ==
  /\ \A t \in Tabs : WF_sessionVars(TabStep(t) \/ ServerStep(t) \/ Response(t))
  /\ \A d \in Devices : WF_sessionVars(ClaimEnds(d))
  /\ WF_sessionVars(\E s \in Sessions : GraceEnds(s))

LiveSessions == SessionsSpec /\ Fairness

(***************************************************************************)
(* Properties.                                                             *)
(***************************************************************************)
SessionsTyped ==
  /\ session \in [Sessions -> {"none", "live", "revoked", "aged"}]
  /\ cookie \in [Devices -> 0 .. MaxSessions]
  /\ lock \in [Devices -> Tabs \cup {NoTab}]
  /\ tab \in [Tabs -> [task : [pc : {"idle", "write", "reread", "sent", "found", "reuse",
                                     "rotated", "refused", "clear"},
                               sent : 0 .. MaxSessions, got : 0 .. MaxSessions,
                               elected : BOOLEAN, good : BOOLEAN],
                       token : {"fresh", "due"}, mail : BOOLEAN, open : BOOLEAN]]
  /\ login \in [Devices -> [pc : {"none", "list", "evict", "enter"}, id : 0 .. MaxSessions,
                            evict : SUBSET Sessions]]
  /\ account \in [Devices -> 0 .. MaxSessions]
  /\ over \in Nat
  /\ logins \in 0 .. MaxLogins /\ dues \in 0 .. MaxDues /\ mishaps \in 0 .. MaxMishaps

\* However the tabs of a browser race, with the election or around it: its
\* cookie is live or its successor is on the way, and no tab is taken for a
\* thief, as long as no answer is lost or late and no session is revoked from
\* outside.
RacesAreForgiven ==
  "outside" \notin hit =>
    /\ \A t \in Tabs : tab[t].task.pc \notin {"reuse", "clear"}
    /\ \A d \in Devices : cookie[d] = 0 \/ Good(d)

SessionsInv == SessionsTyped /\ RacesAreForgiven

\* The cap (sessionsToEvict): between logins no more sessions live than it
\* allows, however the logins overlapped, but for those that got past it since
\* a login last listed: one for each rotation of a session that was revoked or
\* chosen for eviction, for each login that failed open before it listed, and
\* for each revocation that failed.
SessionCapHolds ==
  Cap > 0 /\ (\A d \in Devices : login[d].pc \notin {"list", "evict"})
  => Cardinality(Live) <= Cap + over

\* Tabs whose tokens run out get new ones, also when the elected tab is closed
\* or two tabs win, or their browser is signed out: nobody waits for ever.
TabsAreServed == (\E t \in Tabs : Waits(t)) ~> (\A t \in Tabs : ~Waits(t))

\* What session.ts:190-191 says: a valid client never presents a token that was
\* revoked longer ago than the grace.
ValidClientsNeverReplay == \A t \in Tabs : ~TabAt(t, "reuse")

=============================================================================
