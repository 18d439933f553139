------------------------------ MODULE AdminLogin ------------------------------
(***************************************************************************)
(* The first setup and the admin's logins (auth/auth.go, auth/limiter.go,  *)
(* store/auth.go): requests read and hash outside any lock and only meet   *)
(* in the statements of the store and in the limiter's map.  A login is a  *)
(* row that lasts SessionTTL; each new login removes the rows that have    *)
(* expired.  One client address.                                           *)
(***************************************************************************)
EXTENDS Integers, Sequences, FiniteSetsExt

CONSTANTS
  LoginRequests,  \* concurrent requests
  Pins, NoPin,
  SessionTTL,
  MaxFailures,    \* failures within FailureWindow that lock a client out
  FailureWindow,
  MaxLogins,      \* bound: logins made; no more requests begin after the last but one
  MaxLoginTime    \* bound: the clock

ASSUME LoginAssumption ==
  NoPin \notin Pins /\ SessionTTL \in Nat \ {0} /\ MaxFailures \in Nat \ {0}

VARIABLES
  authClock,
  pin,         \* the row of the admin table: the PIN it is the hash of, or NoPin
  logins,      \* the rows of admin_sessions: when each token expires
  fails,       \* limiter.fails of the client, oldest first
  call,        \* each request: its place, its PIN, and the time it read
  handed,      \* history: the cookies answered and not logged out, with their end
  setUp,       \* history: the PINs whose setup was answered as the first
  locked,      \* history: the failures seen by the login refused last
  tokens       \* history: tokens made

authVars == <<authClock, pin, logins, fails, call, handed, setUp, locked, tokens>>

NoCall == [at |-> "none", pin |-> NoPin, now |-> 0, kind |-> "login"]

AuthInit ==
  /\ authClock = 0 /\ pin = NoPin /\ logins = {} /\ fails = <<>>
  /\ call = [r \in LoginRequests |-> NoCall]
  /\ handed = {} /\ setUp = {} /\ locked = <<>> /\ tokens = 0

CallAt(r, place) == call[r].at = place
CallGoes(r, place) == call' = [call EXCEPT ![r].at = place]
Answer(r) == call' = [call EXCEPT ![r] = NoCall]

-----------------------------------------------------------------------------
(* Setup *)

\* The PIN is not set yet: the request begins to hash, which takes time.
BeginSetup(r) ==
  /\ CallAt(r, "none") /\ tokens + 1 < MaxLogins /\ pin = NoPin
  /\ \E p \in Pins : call' = [call EXCEPT ![r] =
       [at |-> "hashed", pin |-> p, now |-> 0, kind |-> "setup"]]
  /\ UNCHANGED <<authClock, pin, logins, fails, handed, setUp, locked, tokens>>

\* InitAdminPINHash: the row is inserted unless there is one.
\* Mutant: it is replaced.
FirstPinAlways == TRUE
FirstPin == pin = NoPin

StorePin(r) ==
  /\ CallAt(r, "hashed")
  /\ \/ FirstPin /\ pin' = call[r].pin /\ CallGoes(r, "purge")
     \/ ~FirstPin /\ Answer(r) /\ UNCHANGED pin
  /\ UNCHANGED <<authClock, logins, fails, handed, setUp, locked, tokens>>

-----------------------------------------------------------------------------
(* Login *)

InWindow(t, now) == now - t < FailureWindow

\* The failures from the first that is still in the window on.
Pruned(now) ==
  LET in == {i \in DOMAIN fails : InWindow(fails[i], now)}
  IN IF in = {} THEN <<>> ELSE SubSeq(fails, Min(in), Len(fails))

\* retryAfter: until the oldest of the last MaxFailures leaves the window.
RetryAfter(failed, now) ==
  IF Len(failed) < MaxFailures THEN 0 ELSE failed[Len(failed) - MaxFailures + 1] + FailureWindow - now
Failed(now) == Append(Pruned(now), now)

BeginLogin(r) ==
  /\ CallAt(r, "none") /\ tokens + 1 < MaxLogins
  /\ fails' = Pruned(authClock)
  /\ LET failed == Pruned(authClock)
         wait == RetryAfter(failed, authClock)
     IN \/ wait > 0 /\ locked' = <<failed, authClock>> /\ UNCHANGED call
        \/ wait <= 0 /\ UNCHANGED locked
           /\ \E p \in Pins : call' = [call EXCEPT ![r] =
                [at |-> "read", pin |-> p, now |-> authClock, kind |-> "login"]]
  /\ UNCHANGED <<authClock, pin, logins, handed, setUp, tokens>>

\* Before setup nobody can log in; a wrong PIN counts at the time it was given.
VerifyPin(r) ==
  /\ CallAt(r, "read")
  /\ \/ pin = NoPin /\ Answer(r) /\ UNCHANGED fails
     \/ pin \notin {NoPin, call[r].pin} /\ Len(fails) <= MaxFailures  \* bound
        /\ fails' = Failed(call[r].now) /\ Answer(r)
     \/ pin = call[r].pin /\ fails' = <<>> /\ CallGoes(r, "purge")
  /\ UNCHANGED <<authClock, pin, logins, handed, setUp, locked, tokens>>

-----------------------------------------------------------------------------
(* newSession, and the logins *)

Expired(login, now) == login.ends <= now

\* PurgeAdminSessions, which may fail.
Purge(r) ==
  /\ CallAt(r, "purge")
  /\ logins' \in {logins, {l \in logins : ~Expired(l, authClock)}}
  /\ call' = [call EXCEPT ![r].at = "create", ![r].now = authClock]
  /\ UNCHANGED <<authClock, pin, fails, handed, setUp, locked, tokens>>

\* CreateAdminSession: the token is handed out, or the request fails.
Create(r) ==
  /\ CallAt(r, "create") /\ tokens' = tokens + 1
  /\ \/ LET login == [token |-> tokens + 1, ends |-> call[r].now + SessionTTL]
        IN /\ logins' = logins \union {login} /\ handed' = handed \union {login}
           /\ setUp' = IF call[r].kind = "setup" THEN setUp \union {call[r].pin} ELSE setUp
     \/ UNCHANGED <<logins, handed, setUp>>
  /\ Answer(r)
  /\ UNCHANGED <<authClock, pin, fails, locked>>

Logout ==
  /\ \E login \in handed : logins' = logins \ {login} /\ handed' = handed \ {login}
  /\ UNCHANGED <<authClock, pin, fails, call, setUp, locked, tokens>>

AuthTicks ==
  /\ authClock < MaxLoginTime /\ authClock' = authClock + 1
  /\ UNCHANGED <<pin, logins, fails, call, handed, setUp, locked, tokens>>

AuthNext ==
  \/ \E r \in LoginRequests :
       BeginSetup(r) \/ StorePin(r) \/ BeginLogin(r) \/ VerifyPin(r) \/ Purge(r) \/ Create(r)
  \/ Logout \/ AuthTicks
AuthSpec == AuthInit /\ [][AuthNext]_authVars

-----------------------------------------------------------------------------
(* What holds *)

\* "two concurrent setups can't both win", and who was told to have won has
\* the PIN that logs in.
OneSetup == setUp \subseteq {pin}

\* A cookie that was handed out works until it expires or is logged out,
\* whatever logins come and purge meanwhile; and no longer.
AdminSessionValid(login) == login \in logins /\ login.ends > authClock
CookiesWork ==
  /\ \A login \in handed : login.ends > authClock => AdminSessionValid(login)
  /\ {login \in logins : AdminSessionValid(login)} \subseteq handed

\* What the admin was answered stays true.
LoginsHold == OneSetup /\ CookiesWork

(* What the code says and does not hold *)

\* limiter: "after max failures within window, until the oldest of them leaves
\* the window".  A login reads the clock before it verifies, so the failures
\* are not "oldest first", and an old one behind a newer one still counts.
LockedByRecent ==
  locked # <<>> => Quantify(DOMAIN locked[1], LAMBDA i : InWindow(locked[1][i], locked[2])) >= MaxFailures
=============================================================================
