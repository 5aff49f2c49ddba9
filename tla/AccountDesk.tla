---------------------------- MODULE AccountDesk ----------------------------
(***************************************************************************)
(* Logins, sessions and the administration of users: app/api/auth,         *)
(* lib/auth.ts, middleware.ts, app/login, app/api/settings/users and its   *)
(* page.  A login reads the row of its user, compares the password for a   *)
(* while and writes the counter it has read plus one; several logins of    *)
(* one user may be in work at the same time.                               *)
(***************************************************************************)
EXTENDS Desk

CONSTANTS
  People,       \* users the table may get, each with a browser
  Root,         \* the admin the migration inserts
  LoginSlots,   \* bound: logins in work at the same time
  MaxAttempts   \* MAX_ATTEMPTS

Roles == {"admin", "readonly"}
AccountRows == [failed : Nat, lock : {"none", "until", "over"},
                active : BOOLEAN, role : Roles]

ASSUME AccountAssumption ==
  /\ MaxAttempts \in Nat \ {0} /\ Root \in People
  /\ Nil \notin AccountRows

VARIABLES
  account,    \* users: [failed, lock, active, role], or Nil
  session,    \* the role in the token of a person's cookie, or Nil
  loginCall,  \* the login in work in a slot
  usersPage,  \* users page of a person: the rows it shows, and its open form
  creating,   \* the POST /api/settings/users in work
  guesses,    \* history: wrong passwords since the counter was last reset
  lost        \* history: writes of a login that another one had not yet seen

accountVars == <<account, session, loginCall, usersPage, creating, guesses, lost>>

Fresh(role) == [failed |-> 0, lock |-> "none", active |-> TRUE, role |-> role]
NoLogin == [at |-> "idle", user |-> Nil, right |-> FALSE, failed |-> 0, role |-> Nil]

AccountInit ==
  /\ account = [p \in People |-> IF p = Root THEN Fresh("admin") ELSE Nil]
  /\ session = [p \in People |-> Nil]
  /\ loginCall = [s \in LoginSlots |-> NoLogin]
  /\ usersPage = [p \in People |-> [shown |-> [q \in People |-> Nil], form |-> FALSE]]
  /\ creating = Nil
  /\ guesses = [p \in People |-> 0]
  /\ lost = [p \in People |-> 0]

-----------------------------------------------------------------------------
(* POST /api/auth.                                                         *)

Idles(s) == loginCall[s].at = "idle"
Begin(s, u, right) ==
  loginCall' = [loginCall EXCEPT ![s] = [NoLogin EXCEPT !.at = "read", !.user = u,
                                                        !.right = right]]

\* Somebody tries a wrong password.
Guess(s, u) ==
  /\ Act
  /\ Idles(s)
  /\ Begin(s, u, FALSE)
  /\ UNCHANGED <<account, session, usersPage, creating, guesses, lost>>

\* Without a valid cookie the middleware sends its owner to the login page, whose
\* button is disabled while a login is in work.
Submit(s, u) ==
  /\ Idles(s)
  /\ session[u] = Nil
  /\ \A o \in LoginSlots : ~(loginCall[o].user = u /\ loginCall[o].right)
  /\ Begin(s, u, TRUE)
  /\ UNCHANGED <<account, session, usersPage, creating, guesses, lost, deskVars>>

\* Faulty variant, for testing the properties: only a lock that has run out is seen.
ReadUserUnlocked(s) ==
  LET c == loginCall[s]
      x == account[c.user] IN
  /\ c.at = "read"
  /\ loginCall' = [loginCall EXCEPT ![s] =
       IF x = Nil \/ (x # Nil /\ ~x.active) THEN NoLogin
       ELSE [c EXCEPT !.at = IF x.lock = "over" THEN "reset" ELSE "compare",
                      !.failed = x.failed, !.role = x.role]]
  /\ UNCHANGED <<account, session, usersPage, creating, guesses, lost, deskVars>>

\* Faulty variant, for testing the properties: a lock that has run out still locks.
ReadUserForever(s) ==
  LET c == loginCall[s]
      x == account[c.user] IN
  /\ c.at = "read"
  /\ loginCall' = [loginCall EXCEPT ![s] =
       IF x = Nil THEN NoLogin
       ELSE IF ~x.active \/ x.lock # "none" THEN NoLogin
       ELSE [c EXCEPT !.at = "compare", !.failed = x.failed, !.role = x.role]]
  /\ UNCHANGED <<account, session, usersPage, creating, guesses, lost, deskVars>>

\* Unknown, inactive and locked users are refused; the rest works on this copy.
ReadUser(s) ==
  LET c == loginCall[s]
      x == account[c.user] IN
  /\ c.at = "read"
  /\ loginCall' = [loginCall EXCEPT ![s] =
       IF x = Nil THEN NoLogin
       ELSE IF ~x.active \/ x.lock = "until" THEN NoLogin
       ELSE [c EXCEPT !.at = IF x.lock = "over" THEN "reset" ELSE "compare",
                      !.failed = x.failed, !.role = x.role]]
  /\ UNCHANGED <<account, session, usersPage, creating, guesses, lost, deskVars>>

\* Another login of the user that has read the row and will write it.
Behind(s) == \E o \in LoginSlots \ {s} :
               /\ loginCall[o].user = loginCall[s].user
               /\ loginCall[o].at \in {"reset", "compare"}

\* A lock that has run out is cleared, in the row and in the copy.
ResetExpired(s) ==
  LET u == loginCall[s].user IN
  /\ loginCall[s].at = "reset"
  /\ account' = [account EXCEPT ![u].failed = 0, ![u].lock = "none"]
  /\ guesses' = [guesses EXCEPT ![u] = 0]
  /\ loginCall' = [loginCall EXCEPT ![s].at = "compare", ![s].failed = 0]
  /\ UNCHANGED <<session, usersPage, creating, lost, deskVars>>

\* The password is wrong: the counter of the copy plus one is written, and the
\* lock with it once the counter has reached its limit.
Reject(s) ==
  LET u == loginCall[s].user
      attempts == loginCall[s].failed + 1 IN
  /\ loginCall[s].at = "compare" /\ ~loginCall[s].right
  /\ account' = [account EXCEPT ![u].failed = attempts,
                                ![u].lock = IF attempts >= MaxAttempts THEN "until" ELSE @]
  /\ guesses' = [guesses EXCEPT ![u] = @ + 1]
  /\ lost' = [lost EXCEPT ![u] = IF Behind(s) THEN @ + 1 ELSE @]
  /\ loginCall' = [loginCall EXCEPT ![s] = NoLogin]
  /\ UNCHANGED <<session, usersPage, creating, deskVars>>

\* The password is right: counter and lock are cleared, and the cookie carries a
\* token with the role of the copy.
Accept(s) ==
  LET u == loginCall[s].user IN
  /\ loginCall[s].at = "compare" /\ loginCall[s].right
  /\ account' = [account EXCEPT ![u].failed = 0, ![u].lock = "none"]
  /\ guesses' = [guesses EXCEPT ![u] = 0]
  /\ session' = [session EXCEPT ![u] = loginCall[s].role]
  /\ loginCall' = [loginCall EXCEPT ![s] = NoLogin]
  /\ UNCHANGED <<usersPage, creating, lost, deskVars>>

\* LOCKOUT_MINUTES pass.
LockRunsOut(u) ==
  /\ account[u] # Nil
  /\ account[u].lock = "until"
  /\ account' = [account EXCEPT ![u].lock = "over"]
  /\ UNCHANGED <<session, loginCall, usersPage, creating, guesses, lost, deskVars>>

\* The eight hours of the token pass, or its owner logs out: the middleware and
\* every route refuse it from now on, and nothing else ends it.
SessionEnds(u) ==
  /\ Act
  /\ session[u] # Nil
  /\ session' = [session EXCEPT ![u] = Nil]
  /\ UNCHANGED <<account, loginCall, usersPage, creating, guesses, lost>>

-----------------------------------------------------------------------------
(* /api/settings/users and its page.  requireRole looks at the token only. *)

IsAdmin(p) == session[p] = "admin"

LoadUsers(p) ==
  usersPage' = [usersPage EXCEPT ![p].shown = IF IsAdmin(p) THEN account
                                              ELSE [q \in People |-> Nil]]

OpenUsers(p) ==
  /\ Act
  /\ session[p] # Nil
  /\ LoadUsers(p)
  /\ UNCHANGED <<account, session, loginCall, creating, guesses, lost>>

ToggleForm(p) ==
  /\ Act
  /\ session[p] # Nil
  /\ usersPage' = [usersPage EXCEPT ![p].form = ~@]
  /\ UNCHANGED <<account, session, loginCall, creating, guesses, lost>>

\* The form is sent: looked up, hashed for a while, inserted.  Bound: one at a time,
\* so the name is still free when it is inserted.
PostUser(p, u, role) ==
  /\ Act
  /\ usersPage[p].form /\ creating = Nil
  /\ IsAdmin(p) /\ account[u] = Nil
  /\ creating' = [by |-> p, user |-> u, role |-> role]
  /\ UNCHANGED <<account, session, loginCall, usersPage, guesses, lost>>

InsertUser ==
  LET c == creating IN
  /\ c # Nil
  /\ account' = [account EXCEPT ![c.user] = Fresh(c.role)]
  /\ usersPage' = [usersPage EXCEPT ![c.by] = [shown |-> account', form |-> FALSE]]
  /\ creating' = Nil
  /\ UNCHANGED <<session, loginCall, guesses, lost, deskVars>>

\* One field of one row; the page then changes its copy, whatever the answer was.
PutUser(p, u, row, field, value) ==
  /\ Act
  /\ session[p] # Nil
  /\ row # Nil
  /\ account' = IF IsAdmin(p) /\ account[u] # Nil
                  THEN [account EXCEPT ![u][field] = value] ELSE account
  /\ usersPage' = [usersPage EXCEPT ![p].shown[u] = [row EXCEPT ![field] = value]]
  /\ UNCHANGED <<session, loginCall, creating, guesses, lost>>

UpdateRole(p, u, role) ==
  PutUser(p, u, usersPage[p].shown[u], "role", role)

ToggleActive(p, u) ==
  LET row == usersPage[p].shown[u] IN
  row # Nil /\ PutUser(p, u, row, "active", ~row.active)

-----------------------------------------------------------------------------
LoginStep(s) == ReadUser(s) \/ ResetExpired(s) \/ Reject(s) \/ Accept(s)

AccountNext ==
  \/ \E s \in LoginSlots : \/ LoginStep(s)
                           \/ \E u \in People : Guess(s, u) \/ Submit(s, u)
  \/ InsertUser
  \/ \E p \in People :
       \/ LockRunsOut(p) \/ SessionEnds(p) \/ OpenUsers(p) \/ ToggleForm(p)
       \/ \E u \in People : \/ ToggleActive(p, u)
                            \/ \E r \in Roles : PostUser(p, u, r) \/ UpdateRole(p, u, r)

AccountSpec == DeskInit /\ AccountInit /\ [][AccountNext]_<<accountVars, deskVars>>

Logins == [at : {"idle", "read", "reset", "compare"}, user : People \cup {Nil},
           right : BOOLEAN, failed : Nat, role : Roles \cup {Nil}]

AccountTypeOK ==
  /\ account \in [People -> AccountRows \cup {Nil}]
  /\ session \in [People -> Roles \cup {Nil}]
  /\ loginCall \in [LoginSlots -> Logins]
  /\ creating = Nil \/ creating \in [by : People, user : People, role : Roles]
  /\ guesses \in [People -> Nat] /\ lost \in [People -> Nat]
  /\ \A s \in LoginSlots : ~Idles(s) =>
       /\ loginCall[s].user \in People
       /\ loginCall[s].at # "read" => account[loginCall[s].user] # Nil

\* Nobody gets more than MaxAttempts wrong guesses at a password between two resets
\* of its counter, plus one for every write of a login that another login in work
\* had read the row before (auth/route.ts writes the counter it read, plus one).
GuessesBounded ==
  \A u \in People : guesses[u] <= MaxAttempts + lost[u]

\* A user that stays active ends up logged in, however often others have locked the
\* account with their guesses.
OwnerGetsIn ==
  \A u \in People :
    <>[](desk = "accounts" /\ account[u] # Nil /\ account[u].active)
      => []<>(session[u] # Nil)
=============================================================================
