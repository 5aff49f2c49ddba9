-------------------------- MODULE Operations_proofs --------------------------
(***************************************************************************)
(* Proofs about the areas of the web server that watch and tell: for each  *)
(* one the inductive invariant, that every step of the area keeps it, and  *)
(* the theorem about its specification; then all of them at work together. *)
(***************************************************************************)
EXTENDS Operations, FiniteSetTheorems, WellFoundedInduction, TLAPS

-----------------------------------------------------------------------------
(* Users and logins, for any users, logins at the same time and limit of   *)
(* attempts.                                                               *)

Shown == [People -> AccountRows \cup {Nil}]
UserPages == [shown : Shown, form : BOOLEAN]
Creations == [by : People, user : People, role : Roles]

\* What each variable holds.
AccountTyped ==
  /\ account \in Shown
  /\ session \in [People -> Roles \cup {Nil}]
  /\ loginCall \in [LoginSlots -> Logins]
  /\ usersPage \in [People -> UserPages]
  /\ creating \in Creations \cup {Nil}
  /\ guesses \in [People -> Nat] /\ lost \in [People -> Nat]
  /\ \A s \in LoginSlots : ~Idles(s) =>
       /\ loginCall[s].user \in People
       /\ loginCall[s].at # "read" => account[loginCall[s].user] # Nil

\* A user that does not exist yet has had no guess; the one being created is such.
NobodyYet ==
  /\ \A u \in People : account[u] = Nil => guesses[u] = 0
  /\ creating # Nil => account[creating.user] = Nil

\* GuessesBounded is not inductive: the guesses are those that the row counts, but
\* for lost writes, and a login that is comparing has a copy of the row as old as the
\* writes that were lost since.
GuessesCounted(u) ==
  account[u] # Nil =>
    /\ guesses[u] <= account[u].failed + lost[u]
    /\ account[u].failed <= MaxAttempts
    /\ account[u].lock = "none" => account[u].failed < MaxAttempts
Copied(s) ==
  loginCall[s].at = "compare" =>
    /\ guesses[loginCall[s].user] <= loginCall[s].failed + lost[loginCall[s].user]
    /\ loginCall[s].failed < MaxAttempts

AccountCounts ==
  /\ \A u \in People : GuessesCounted(u)
  /\ \A s \in LoginSlots : Copied(s)

AccountInv == AccountTyped /\ NobodyYet /\ AccountCounts

LEMMA AccountInitHolds == AccountInit => AccountInv
<1>. SUFFICES ASSUME AccountInit PROVE AccountInv
  OBVIOUS
<1>1. \A role \in Roles : Fresh(role) \in AccountRows /\ Fresh(role).failed = 0
  BY DEF Fresh, AccountRows, Roles
<1>2. AccountTyped
  BY <1>1 DEF AccountInit, AccountTyped, Shown, UserPages, NoLogin, Logins, Idles, Roles
<1>3. NobodyYet
  BY DEF AccountInit, NobodyYet
<1>4. \A u \in People : GuessesCounted(u)
  <2>1. ASSUME NEW u \in People, account[u] # Nil
        PROVE  account[u] = Fresh("admin") /\ guesses[u] = 0 /\ lost[u] = 0
    BY <2>1 DEF AccountInit
  <2>. QED BY <1>1, <2>1, AccountAssumption DEF GuessesCounted, Roles
<1>5. \A s \in LoginSlots : Copied(s)
  BY DEF AccountInit, Copied, NoLogin
<1>. QED BY <1>2, <1>3, <1>4, <1>5 DEF AccountInv, AccountCounts

-----------------------------------------------------------------------------
(* Steps that leave the counters alone.                                    *)

\* What counts of a row.
SameCounters(u) ==
  /\ (account'[u] = Nil) = (account[u] = Nil)
  /\ account[u] # Nil => /\ account'[u].failed = account[u].failed
                         /\ account'[u].lock = account[u].lock

LEMMA CountersStay ==
  ASSUME AccountInv, AccountTyped', UNCHANGED <<guesses, lost, loginCall>>,
         creating' \in {creating, Nil},
         \A u \in People : SameCounters(u)
  PROVE  AccountInv'
<1>1. NobodyYet'
  BY DEF AccountInv, NobodyYet, SameCounters, AccountTyped, Creations
<1>2. AccountCounts'
  BY DEF AccountInv, AccountCounts, GuessesCounted, Copied, SameCounters
<1>. QED BY <1>1, <1>2 DEF AccountInv

\* Pages and sessions.
LEMMA AccountPagesHold ==
  ASSUME AccountInv, UNCHANGED <<account, loginCall, creating, guesses, lost>>,
         usersPage' \in [People -> UserPages], session' \in [People -> Roles \cup {Nil}]
  PROVE  AccountInv'
<1>1. AccountTyped'
  BY DEF AccountInv, AccountTyped, Idles
<1>. QED BY <1>1, CountersStay DEF SameCounters

LEMMA OpenUsersHolds ==
  ASSUME AccountInv, NEW p \in People, OpenUsers(p) \/ ToggleForm(p) \/ SessionEnds(p)
  PROVE  AccountInv'
<1>1. [q \in People |-> Nil] \in Shown /\ account \in Shown
  BY DEF AccountInv, AccountTyped, Shown
<1>2. usersPage[p] \in UserPages
  BY DEF AccountInv, AccountTyped
<1>3. CASE OpenUsers(p)
  <2>1. [usersPage[p] EXCEPT !.shown = IF IsAdmin(p) THEN account ELSE [q \in People |-> Nil]]
          \in UserPages
    BY <1>1, <1>2 DEF UserPages
  <2>2. usersPage' \in [People -> UserPages]
    BY <1>3, <2>1 DEF OpenUsers, LoadUsers, AccountInv, AccountTyped
  <2>. QED BY <1>3, <2>2, AccountPagesHold DEF OpenUsers, AccountInv, AccountTyped
<1>4. CASE ToggleForm(p)
  <2>1. [usersPage[p] EXCEPT !.form = ~usersPage[p].form] \in UserPages
    BY <1>2 DEF UserPages
  <2>2. usersPage' \in [People -> UserPages]
    BY <1>4, <2>1 DEF ToggleForm, AccountInv, AccountTyped
  <2>. QED BY <1>4, <2>2, AccountPagesHold DEF ToggleForm, AccountInv, AccountTyped
<1>5. CASE SessionEnds(p)
  <2>1. session' \in [People -> Roles \cup {Nil}]
    BY <1>5 DEF SessionEnds, AccountInv, AccountTyped
  <2>. QED BY <1>5, <2>1, AccountPagesHold DEF SessionEnds, AccountInv, AccountTyped
<1>. QED BY <1>3, <1>4, <1>5

\* A change of a role, or of whether the user is active.
LEMMA PutUserHolds ==
  ASSUME AccountInv, NEW p \in People, NEW u \in People,
         (\E r \in Roles : UpdateRole(p, u, r)) \/ ToggleActive(p, u)
  PROVE  AccountInv'
<1>. DEFINE row == usersPage[p].shown[u]
<1>1. usersPage[p] \in UserPages /\ row \in AccountRows \cup {Nil}
  BY DEF AccountInv, AccountTyped, UserPages, Shown
<1>2. PICK field \in {"role", "active"}, value \in Roles \cup BOOLEAN :
        /\ PutUser(p, u, row, field, value)
        /\ field = "role" => value \in Roles
        /\ field = "active" => value \in BOOLEAN
  BY <1>1 DEF UpdateRole, ToggleActive, AccountRows, PutUser
<1>3. ASSUME NEW x \in AccountRows
      PROVE  /\ [x EXCEPT ![field] = value] \in AccountRows
             /\ [x EXCEPT ![field] = value].failed = x.failed
             /\ [x EXCEPT ![field] = value].lock = x.lock
  BY <1>2 DEF AccountRows
<1>4. account' \in {account, [account EXCEPT ![u] = [account[u] EXCEPT ![field] = value]]}
      /\ (account' # account => account[u] # Nil)
  BY <1>2 DEF PutUser
<1>5. account' \in Shown /\ \A v \in People : SameCounters(v)
  <2>1. CASE account' = account
    BY <2>1 DEF SameCounters, AccountInv, AccountTyped
  <2>2. CASE account' # account
    <3>1. account[u] \in AccountRows
      BY <1>4, <2>2 DEF AccountInv, AccountTyped, Shown
    <3>2. account' = [account EXCEPT ![u] = [account[u] EXCEPT ![field] = value]]
      BY <1>4, <2>2
    <3>3. account'[u] = [account[u] EXCEPT ![field] = value]
          /\ \A v \in People \ {u} : account'[v] = account[v]
      BY <3>2 DEF AccountInv, AccountTyped, Shown
    <3>4. account' \in Shown
      BY <1>3, <3>1, <3>2 DEF AccountInv, AccountTyped, Shown
    <3>5. SameCounters(u)
      BY <1>3, <3>1, <3>3, AccountAssumption DEF SameCounters
    <3>. QED BY <3>3, <3>4, <3>5 DEF SameCounters
  <2>. QED BY <2>1, <2>2
<1>6. usersPage' \in [People -> UserPages]
  <2>1. row \in AccountRows
    BY <1>1, <1>2 DEF PutUser
  <2>2. [usersPage[p].shown EXCEPT ![u] = [row EXCEPT ![field] = value]] \in Shown
    BY <1>1, <1>3, <2>1 DEF UserPages, Shown
  <2>3. [usersPage[p] EXCEPT !.shown = [usersPage[p].shown EXCEPT ![u] = [row EXCEPT ![field] = value]]]
          \in UserPages
    BY <1>1, <2>2 DEF UserPages
  <2>4. usersPage' = [usersPage EXCEPT ![p] =
          [usersPage[p] EXCEPT !.shown = [usersPage[p].shown EXCEPT ![u] = [row EXCEPT ![field] = value]]]]
    BY <1>2 DEF PutUser
  <2>. QED BY <2>3, <2>4 DEF AccountInv, AccountTyped
<1>7. UNCHANGED <<session, loginCall, creating, guesses, lost>>
  BY <1>2 DEF PutUser
<1>8. AccountTyped'
  BY <1>5, <1>6, <1>7 DEF AccountInv, AccountTyped, Idles, SameCounters
<1>. QED BY <1>5, <1>7, <1>8, CountersStay

\* Users that are created have had no guess.
LEMMA PostUserHolds ==
  ASSUME AccountInv, NEW p \in People, NEW u \in People, NEW r \in Roles, PostUser(p, u, r)
  PROVE  AccountInv'
<1>1. creating' = [by |-> p, user |-> u, role |-> r] /\ creating' \in Creations
      /\ creating'.user = u /\ account[u] = Nil
      /\ UNCHANGED <<account, session, loginCall, usersPage, guesses, lost>>
  BY DEF PostUser, Creations
<1>2. AccountTyped'
  BY <1>1 DEF AccountInv, AccountTyped, Idles
<1>3. NobodyYet'
  BY <1>1 DEF AccountInv, NobodyYet
<1>4. AccountCounts'
  BY <1>1 DEF AccountInv, AccountCounts, GuessesCounted, Copied
<1>. QED BY <1>2, <1>3, <1>4 DEF AccountInv

LEMMA InsertUserHolds ==
  ASSUME AccountInv, InsertUser
  PROVE  AccountInv'
<1>. DEFINE u == creating.user
            new == Fresh(creating.role)
<1>1. creating \in Creations /\ u \in People /\ creating.by \in People /\ account[u] = Nil
      /\ guesses[u] = 0 /\ lost[u] \in Nat
  BY DEF InsertUser, AccountInv, AccountTyped, NobodyYet, Creations
<1>2. new \in AccountRows /\ new.failed = 0 /\ new # Nil
  <2>1. creating.role \in Roles
    BY <1>1 DEF Creations
  <2>2. new \in AccountRows /\ new.failed = 0
    BY <2>1 DEF Fresh, AccountRows
  <2>. QED BY <2>2, AccountAssumption
<1>3. account' = [account EXCEPT ![u] = new] /\ creating' = Nil
      /\ UNCHANGED <<session, loginCall, guesses, lost>>
  BY DEF InsertUser
<1>4. account' \in Shown /\ account'[u] = new /\ \A v \in People \ {u} : account'[v] = account[v]
  BY <1>1, <1>2, <1>3 DEF AccountInv, AccountTyped, Shown
<1>5. usersPage' \in [People -> UserPages]
  <2>1. [shown |-> account', form |-> FALSE] \in UserPages
    BY <1>4 DEF UserPages
  <2>. QED BY <1>1, <2>1 DEF InsertUser, AccountInv, AccountTyped
<1>6. AccountTyped'
  BY <1>2, <1>3, <1>4, <1>5 DEF AccountInv, AccountTyped, Idles
<1>7. NobodyYet'
  BY <1>2, <1>3, <1>4 DEF AccountInv, NobodyYet
<1>8. ASSUME NEW v \in People
      PROVE  GuessesCounted(v)'
  <2>1. CASE v = u
    BY <1>1, <1>2, <1>3, <1>4, <2>1, AccountAssumption DEF GuessesCounted
  <2>2. CASE v # u
    BY <1>3, <1>4, <2>2 DEF AccountInv, AccountCounts, GuessesCounted
  <2>. QED BY <2>1, <2>2
<1>9. \A s \in LoginSlots : Copied(s)'
  BY <1>3 DEF AccountInv, AccountCounts, Copied
<1>. QED BY <1>6, <1>7, <1>8, <1>9 DEF AccountInv, AccountCounts

-----------------------------------------------------------------------------
(* Logins.                                                                 *)

LEMMA BeginHolds ==
  ASSUME AccountInv, NEW s \in LoginSlots, NEW u \in People, Guess(s, u) \/ Submit(s, u)
  PROVE  AccountInv'
<1>1. PICK right \in BOOLEAN : Begin(s, u, right)
  BY DEF Guess, Submit
<1>2. UNCHANGED <<account, session, usersPage, creating, guesses, lost>>
  BY DEF Guess, Submit
<1>. DEFINE c == [NoLogin EXCEPT !.at = "read", !.user = u, !.right = right]
<1>3. c \in Logins /\ c.at = "read" /\ c.user = u
  BY DEF NoLogin, Logins
<1>4. loginCall' = [loginCall EXCEPT ![s] = c]
  BY <1>1 DEF Begin
<1>5. loginCall' \in [LoginSlots -> Logins] /\ loginCall'[s] = c
      /\ \A o \in LoginSlots \ {s} : loginCall'[o] = loginCall[o]
  BY <1>3, <1>4 DEF AccountInv, AccountTyped
<1>6. AccountTyped'
  <2>1. ASSUME NEW o \in LoginSlots, ~Idles(o)'
        PROVE  /\ loginCall'[o].user \in People
               /\ loginCall'[o].at # "read" => account'[loginCall'[o].user] # Nil
    BY <1>2, <1>3, <1>5, <2>1 DEF AccountInv, AccountTyped, Idles
  <2>. QED BY <1>2, <1>5, <2>1 DEF AccountInv, AccountTyped
<1>7. NobodyYet'
  BY <1>2 DEF AccountInv, NobodyYet
<1>8. \A v \in People : GuessesCounted(v)'
  BY <1>2 DEF AccountInv, AccountCounts, GuessesCounted
<1>9. \A o \in LoginSlots : Copied(o)'
  BY <1>2, <1>3, <1>5 DEF AccountInv, AccountCounts, Copied
<1>. QED BY <1>6, <1>7, <1>8, <1>9 DEF AccountInv, AccountCounts

LEMMA NoLoginFacts == NoLogin \in Logins /\ NoLogin.at = "idle"
  BY DEF NoLogin, Logins

\* The row is read: the copy is as good as the row.
LEMMA ReadUserHolds ==
  ASSUME AccountInv, NEW s \in LoginSlots, ReadUser(s)
  PROVE  AccountInv'
<1>. DEFINE c == loginCall[s]
            x == account[c.user]
            d == [c EXCEPT !.at = IF x.lock = "over" THEN "reset" ELSE "compare",
                           !.failed = x.failed, !.role = x.role]
<1>1. c \in Logins /\ c.at = "read" /\ c.user \in People
  BY DEF ReadUser, AccountInv, AccountTyped, Idles
<1>2. UNCHANGED <<account, session, usersPage, creating, guesses, lost>>
  BY DEF ReadUser
<1>3. \/ loginCall' = [loginCall EXCEPT ![s] = NoLogin]
      \/ /\ x # Nil /\ x.lock # "until"
         /\ loginCall' = [loginCall EXCEPT ![s] = d]
  BY DEF ReadUser
<1>4. ASSUME x # Nil, x.lock # "until"
      PROVE  /\ d \in Logins /\ d.user = c.user /\ d.failed = x.failed
             /\ d.at \in {"reset", "compare"}
             /\ d.at = "compare" => x.lock = "none"
  <2>1. x \in AccountRows
    BY <1>1, <1>4 DEF AccountInv, AccountTyped, Shown
  <2>. QED BY <1>1, <1>4, <2>1 DEF AccountRows, Logins
<1>5. PICK e \in Logins :
        /\ loginCall' = [loginCall EXCEPT ![s] = e]
        /\ \/ e.at = "idle"
           \/ /\ x # Nil /\ e.user = c.user /\ e.failed = x.failed /\ e.at \in {"reset", "compare"}
              /\ e.at = "compare" => x.lock = "none"
  <2>1. CASE loginCall' = [loginCall EXCEPT ![s] = NoLogin]
    BY <2>1, NoLoginFacts
  <2>2. CASE /\ x # Nil /\ x.lock # "until"
             /\ loginCall' = [loginCall EXCEPT ![s] = d]
    <3>. HIDE DEF d, x
    <3>. QED BY <1>4, <2>2
  <2>. QED BY <1>3, <2>1, <2>2
<1>6. loginCall' \in [LoginSlots -> Logins] /\ loginCall'[s] = e
      /\ \A o \in LoginSlots \ {s} : loginCall'[o] = loginCall[o]
  BY <1>5 DEF AccountInv, AccountTyped
<1>7. AccountTyped'
  <2>1. ASSUME NEW o \in LoginSlots, ~Idles(o)'
        PROVE  /\ loginCall'[o].user \in People
               /\ loginCall'[o].at # "read" => account'[loginCall'[o].user] # Nil
    <3>1. CASE o = s
      BY <1>1, <1>2, <1>5, <1>6, <2>1, <3>1 DEF Idles
    <3>2. CASE o # s
      BY <1>2, <1>6, <2>1, <3>2 DEF AccountInv, AccountTyped, Idles
    <3>. QED BY <3>1, <3>2
  <2>. QED BY <1>2, <1>6, <2>1 DEF AccountInv, AccountTyped
<1>8. NobodyYet'
  BY <1>2 DEF AccountInv, NobodyYet
<1>9. \A v \in People : GuessesCounted(v)'
  BY <1>2 DEF AccountInv, AccountCounts, GuessesCounted
<1>10. ASSUME NEW o \in LoginSlots
       PROVE  Copied(o)'
  <2>1. CASE o = s
    <3>1. ASSUME e.at = "compare"
          PROVE  guesses[e.user] <= e.failed + lost[e.user] /\ e.failed < MaxAttempts
      <4>1. x # Nil /\ e.user = c.user /\ e.failed = x.failed /\ x.lock = "none"
        BY <1>5, <3>1
      <4>2. GuessesCounted(c.user)
        BY <1>1 DEF AccountInv, AccountCounts
      <4>. QED BY <4>1, <4>2 DEF GuessesCounted
    <3>. QED BY <1>2, <1>6, <2>1, <3>1 DEF Copied
  <2>2. CASE o # s
    BY <1>2, <1>6, <2>2 DEF AccountInv, AccountCounts, Copied
  <2>. QED BY <2>1, <2>2
<1>. QED BY <1>7, <1>8, <1>9, <1>10 DEF AccountInv, AccountCounts

\* A login that writes its user's row: the copies of others fall behind by one guess
\* at most, and that one is in lost.
Writes(s, u, row, n, m, e) ==
  /\ u = loginCall[s].user
  /\ account' = [account EXCEPT ![u] = row]
  /\ guesses' = [guesses EXCEPT ![u] = n]
  /\ lost' = [lost EXCEPT ![u] = m]
  /\ loginCall' = [loginCall EXCEPT ![s] = e]
  /\ session' \in [People -> Roles \cup {Nil}]
  /\ UNCHANGED <<usersPage, creating>>

\* What it writes keeps the counts.
InOrder(s, u, row, n, m, e) ==
  /\ row.failed <= MaxAttempts
  /\ row.lock = "none" => row.failed < MaxAttempts
  /\ n <= row.failed + m
  /\ e.at \in {"idle", "compare"}
  /\ e.at = "compare" => /\ e.user = u /\ e.failed = row.failed
                         /\ row.failed < MaxAttempts
  /\ \A o \in LoginSlots \ {s} :
       loginCall[o].at = "compare" /\ loginCall[o].user = u => n <= loginCall[o].failed + m

LEMMA WriteRow ==
  ASSUME AccountInv, NEW s \in LoginSlots, loginCall[s].at \in {"reset", "compare"},
         NEW u, NEW row \in AccountRows, NEW n \in Nat, NEW m \in Nat, NEW e \in Logins,
         Writes(s, u, row, n, m, e), InOrder(s, u, row, n, m, e)
  PROVE  AccountInv'
<1>. USE DEF Writes, InOrder
<1>1. u \in People /\ account[u] # Nil /\ row # Nil
  BY AccountAssumption DEF AccountInv, AccountTyped, Idles
<1>2. /\ account' \in Shown /\ account'[u] = row
      /\ \A v \in People \ {u} : account'[v] = account[v]
  BY <1>1 DEF AccountInv, AccountTyped, Shown
<1>3. /\ guesses' \in [People -> Nat] /\ guesses'[u] = n
      /\ \A v \in People \ {u} : guesses'[v] = guesses[v]
  BY <1>1 DEF AccountInv, AccountTyped
<1>4. /\ lost' \in [People -> Nat] /\ lost'[u] = m
      /\ \A v \in People \ {u} : lost'[v] = lost[v]
  BY <1>1 DEF AccountInv, AccountTyped
<1>5. /\ loginCall' \in [LoginSlots -> Logins] /\ loginCall'[s] = e
      /\ \A o \in LoginSlots \ {s} : loginCall'[o] = loginCall[o]
  BY DEF AccountInv, AccountTyped
<1>6. AccountTyped'
  <2>1. ASSUME NEW o \in LoginSlots, ~Idles(o)'
        PROVE  /\ loginCall'[o].user \in People
               /\ loginCall'[o].at # "read" => account'[loginCall'[o].user] # Nil
    <3>1. CASE o = s
      BY <1>1, <1>2, <1>5, <2>1, <3>1 DEF Idles
    <3>2. CASE o # s
      BY <1>1, <1>2, <1>5, <2>1, <3>2 DEF AccountInv, AccountTyped, Idles
    <3>. QED BY <3>1, <3>2
  <2>. QED BY <1>2, <1>3, <1>4, <1>5, <2>1 DEF AccountInv, AccountTyped
<1>7. NobodyYet'
  <2>1. creating # Nil => creating.user \in People /\ creating.user # u
    BY <1>1 DEF AccountInv, AccountTyped, NobodyYet, Creations
  <2>. QED BY <1>1, <1>2, <1>3, <2>1 DEF AccountInv, NobodyYet
<1>8. ASSUME NEW v \in People
      PROVE  GuessesCounted(v)'
  <2>1. CASE v = u
    BY <1>2, <1>3, <1>4, <2>1 DEF GuessesCounted
  <2>2. CASE v # u
    BY <1>2, <1>3, <1>4, <2>2 DEF AccountInv, AccountCounts, GuessesCounted
  <2>. QED BY <2>1, <2>2
<1>9. ASSUME NEW o \in LoginSlots
      PROVE  Copied(o)'
  <2>1. CASE o = s
    BY <1>3, <1>4, <1>5, <2>1 DEF Copied
  <2>2. CASE o # s /\ loginCall[o].at = "compare"
    <3>1. loginCall[o].user \in People /\ Copied(o)
      BY <2>2 DEF AccountInv, AccountTyped, AccountCounts, Idles
    <3>. QED BY <1>3, <1>4, <1>5, <2>2, <3>1 DEF Copied
  <2>3. CASE o # s /\ loginCall[o].at # "compare"
    BY <1>5, <2>3 DEF Copied
  <2>. QED BY <2>1, <2>2, <2>3
<1>. QED BY <1>6, <1>7, <1>8, <1>9 DEF AccountInv, AccountCounts

LEMMA LoginFacts ==
  ASSUME AccountInv, NEW s \in LoginSlots, loginCall[s].at \in {"reset", "compare"}
  PROVE  /\ loginCall[s] \in Logins /\ loginCall[s].user \in People
         /\ loginCall[s].failed \in Nat
         /\ account[loginCall[s].user] \in AccountRows
         /\ guesses[loginCall[s].user] \in Nat /\ lost[loginCall[s].user] \in Nat
         /\ MaxAttempts \in Nat \ {0}
         /\ account \in Shown
         /\ \A o \in LoginSlots : loginCall[o].failed \in Nat
  BY AccountAssumption DEF AccountInv, AccountTyped, Idles, Logins, Shown

LEMMA ResetExpiredHolds ==
  ASSUME AccountInv, NEW s \in LoginSlots, ResetExpired(s)
  PROVE  AccountInv'
<1>. DEFINE u == loginCall[s].user
            row == [account[u] EXCEPT !.failed = 0, !.lock = "none"]
            e == [loginCall[s] EXCEPT !.at = "compare", !.failed = 0]
<1>1. loginCall[s].at = "reset"
  BY DEF ResetExpired
<1>2. /\ loginCall[s] \in Logins /\ u \in People /\ account[u] \in AccountRows
      /\ lost[u] \in Nat /\ MaxAttempts \in Nat \ {0}
      /\ \A o \in LoginSlots : loginCall[o].failed \in Nat
  BY <1>1, LoginFacts
<1>3. row \in AccountRows /\ row.failed = 0 /\ row.lock = "none"
  BY <1>2 DEF AccountRows
<1>4. e \in Logins /\ e.at = "compare" /\ e.user = u /\ e.failed = 0
  BY <1>2 DEF Logins
<1>5. /\ account' = [account EXCEPT ![u] = row] /\ guesses' = [guesses EXCEPT ![u] = 0]
      /\ loginCall' = [loginCall EXCEPT ![s] = e] /\ UNCHANGED <<session, usersPage, creating, lost>>
  BY <1>2 DEF ResetExpired, AccountInv, AccountTyped, Shown
<1>6. lost' = [lost EXCEPT ![u] = lost[u]]
  BY <1>2, <1>5 DEF AccountInv, AccountTyped
<1>7. session' \in [People -> Roles \cup {Nil}]
  BY <1>5 DEF AccountInv, AccountTyped
<1>8. \A o \in LoginSlots \ {s} : 0 <= loginCall[o].failed + lost[u]
  BY <1>2
<1>9. 0 <= row.failed + lost[u] /\ row.failed < MaxAttempts /\ row.failed <= MaxAttempts
  BY <1>2, <1>3
<1>10. Writes(s, u, row, 0, lost[u], e)
  BY <1>5, <1>6, <1>7 DEF Writes
<1>11. InOrder(s, u, row, 0, lost[u], e)
  BY <1>2, <1>3, <1>4, <1>8, <1>9 DEF InOrder
<1>. HIDE DEF row, e, u
<1>. QED BY <1>1, <1>2, <1>3, <1>4, <1>10, <1>11, WriteRow

LEMMA AcceptHolds ==
  ASSUME AccountInv, NEW s \in LoginSlots, Accept(s)
  PROVE  AccountInv'
<1>. DEFINE u == loginCall[s].user
            row == [account[u] EXCEPT !.failed = 0, !.lock = "none"]
<1>1. loginCall[s].at = "compare"
  BY DEF Accept
<1>2. /\ loginCall[s] \in Logins /\ u \in People /\ account[u] \in AccountRows
      /\ lost[u] \in Nat /\ MaxAttempts \in Nat \ {0}
      /\ \A o \in LoginSlots : loginCall[o].failed \in Nat
  BY <1>1, LoginFacts
<1>3. row \in AccountRows /\ row.failed = 0 /\ row.lock = "none"
  BY <1>2 DEF AccountRows
<1>4. /\ account' = [account EXCEPT ![u] = row] /\ guesses' = [guesses EXCEPT ![u] = 0]
      /\ loginCall' = [loginCall EXCEPT ![s] = NoLogin] /\ UNCHANGED <<usersPage, creating, lost>>
  BY <1>2 DEF Accept, AccountInv, AccountTyped, Shown
<1>5. lost' = [lost EXCEPT ![u] = lost[u]]
  BY <1>2, <1>4 DEF AccountInv, AccountTyped
<1>6. session' \in [People -> Roles \cup {Nil}]
  <2>1. loginCall[s].role \in Roles \cup {Nil}
    BY <1>2 DEF Logins
  <2>. QED BY <2>1 DEF Accept, AccountInv, AccountTyped
<1>7. \A o \in LoginSlots \ {s} : 0 <= loginCall[o].failed + lost[u]
  BY <1>2
<1>8. 0 <= row.failed + lost[u] /\ row.failed < MaxAttempts /\ row.failed <= MaxAttempts
  BY <1>2, <1>3
<1>9. Writes(s, u, row, 0, lost[u], NoLogin)
  BY <1>4, <1>5, <1>6 DEF Writes
<1>10. InOrder(s, u, row, 0, lost[u], NoLogin)
  BY <1>2, <1>3, <1>7, <1>8, NoLoginFacts DEF InOrder
<1>. HIDE DEF row, u
<1>. QED BY <1>1, <1>2, <1>3, <1>9, <1>10, WriteRow, NoLoginFacts

LEMMA RejectHolds ==
  ASSUME AccountInv, NEW s \in LoginSlots, Reject(s)
  PROVE  AccountInv'
<1>. DEFINE u == loginCall[s].user
            n == loginCall[s].failed + 1
            row == [account[u] EXCEPT !.failed = n,
                                      !.lock = IF n >= MaxAttempts THEN "until" ELSE @]
            m == IF Behind(s) THEN lost[u] + 1 ELSE lost[u]
<1>1. loginCall[s].at = "compare"
  BY DEF Reject
<1>2. /\ loginCall[s] \in Logins /\ u \in People /\ loginCall[s].failed \in Nat
      /\ account[u] \in AccountRows
      /\ guesses[u] \in Nat /\ lost[u] \in Nat /\ MaxAttempts \in Nat \ {0}
      /\ \A o \in LoginSlots : loginCall[o].failed \in Nat
  BY <1>1, LoginFacts
<1>3. guesses[u] <= loginCall[s].failed + lost[u] /\ loginCall[s].failed < MaxAttempts
  BY <1>1 DEF AccountInv, AccountCounts, Copied
<1>4. row \in AccountRows /\ row.failed = n /\ (row.lock = "none" => n < MaxAttempts)
  <2>. DEFINE lock == IF n >= MaxAttempts THEN "until" ELSE account[u].lock
  <2>2. lock \in {"none", "until", "over"} /\ (lock = "none" => ~(n >= MaxAttempts))
    BY <1>2 DEF AccountRows
  <2>3. n \in Nat /\ row = [account[u] EXCEPT !.failed = n, !.lock = lock]
    BY <1>2
  <2>. HIDE DEF n, lock, row
  <2>4. row \in AccountRows /\ row.failed = n /\ row.lock = lock
    BY <1>2, <2>2, <2>3 DEF AccountRows
  <2>. QED BY <1>2, <2>2, <2>3, <2>4
<1>5. m \in Nat /\ lost[u] <= m /\ guesses[u] + 1 \in Nat
  BY <1>2
<1>6. /\ account' = [account EXCEPT ![u] = row] /\ guesses' = [guesses EXCEPT ![u] = guesses[u] + 1]
      /\ lost' = [lost EXCEPT ![u] = m]
      /\ loginCall' = [loginCall EXCEPT ![s] = NoLogin] /\ UNCHANGED <<session, usersPage, creating>>
  BY <1>2 DEF Reject, AccountInv, AccountTyped, Shown
<1>7. session' \in [People -> Roles \cup {Nil}]
  BY <1>6 DEF AccountInv, AccountTyped
<1>8. ASSUME NEW o \in LoginSlots \ {s}, loginCall[o].at = "compare", loginCall[o].user = u
      PROVE  guesses[u] + 1 <= loginCall[o].failed + m
  <2>1. Behind(s)
    BY <1>8 DEF Behind
  <2>2. guesses[u] <= loginCall[o].failed + lost[u]
    BY <1>8 DEF AccountInv, AccountCounts, Copied
  <2>. QED BY <1>2, <2>1, <2>2
<1>9. guesses[u] + 1 <= row.failed + m /\ row.failed <= MaxAttempts
  BY <1>2, <1>3, <1>4, <1>5
<1>10. Writes(s, u, row, guesses[u] + 1, m, NoLogin)
  BY <1>6, <1>7 DEF Writes
<1>11. InOrder(s, u, row, guesses[u] + 1, m, NoLogin)
  <2>. HIDE DEF row, m, u, n
  <2>1. n \in Nat
    BY <1>2 DEF n
  <2>. QED BY <1>2, <1>4, <1>8, <1>9, <2>1, NoLoginFacts DEF InOrder
<1>. HIDE DEF row, u, m, n
<1>. QED BY <1>1, <1>2, <1>4, <1>5, <1>10, <1>11, WriteRow, NoLoginFacts

LEMMA LockRunsOutHolds ==
  ASSUME AccountInv, NEW u \in People, LockRunsOut(u)
  PROVE  AccountInv'
<1>. DEFINE row == [account[u] EXCEPT !.lock = "over"]
<1>1. account[u] \in AccountRows
  BY DEF LockRunsOut, AccountInv, AccountTyped, Shown
<1>2. row \in AccountRows /\ row.failed = account[u].failed /\ row.lock = "over" /\ row # Nil
  BY <1>1, AccountAssumption DEF AccountRows
<1>3. account' = [account EXCEPT ![u] = row]
      /\ UNCHANGED <<session, loginCall, usersPage, creating, guesses, lost>>
  BY DEF LockRunsOut
<1>4. account' \in Shown /\ account'[u] = row /\ \A v \in People \ {u} : account'[v] = account[v]
  BY <1>2, <1>3 DEF AccountInv, AccountTyped, Shown
<1>5. AccountTyped'
  BY <1>2, <1>3, <1>4 DEF AccountInv, AccountTyped, Idles
<1>6. NobodyYet'
  <2>1. account[u] # Nil
    BY DEF LockRunsOut
  <2>2. creating # Nil => creating.user \in People
    BY DEF AccountInv, AccountTyped, Creations
  <2>. QED BY <1>2, <1>3, <1>4, <2>1, <2>2 DEF AccountInv, NobodyYet
<1>7. ASSUME NEW v \in People
      PROVE  GuessesCounted(v)'
  <2>1. CASE v = u
    BY <1>2, <1>3, <1>4, <2>1 DEF AccountInv, AccountCounts, GuessesCounted, LockRunsOut
  <2>2. CASE v # u
    BY <1>3, <1>4, <2>2 DEF AccountInv, AccountCounts, GuessesCounted
  <2>. QED BY <2>1, <2>2
<1>8. \A s \in LoginSlots : Copied(s)'
  BY <1>3 DEF AccountInv, AccountCounts, Copied
<1>. QED BY <1>5, <1>6, <1>7, <1>8 DEF AccountInv, AccountCounts

LEMMA AccountStepHolds == ASSUME AccountInv, [AccountNext]_accountVars PROVE AccountInv'
<1>1. CASE UNCHANGED accountVars
  <2>1. UNCHANGED <<account, session, loginCall, usersPage, creating, guesses, lost>>
    BY <1>1 DEF accountVars
  <2>. QED BY <2>1, AccountPagesHold DEF AccountInv, AccountTyped
<1>. QED BY <1>1, BeginHolds, ReadUserHolds, ResetExpiredHolds, RejectHolds, AcceptHolds,
            InsertUserHolds, LockRunsOutHolds, OpenUsersHolds, PutUserHolds, PostUserHolds
         DEF AccountNext, LoginStep

LEMMA GuessesHold == AccountInv => GuessesBounded
<1>. SUFFICES ASSUME AccountInv, NEW u \in People
              PROVE  guesses[u] <= MaxAttempts + lost[u]
  BY DEF GuessesBounded
<1>2. guesses[u] \in Nat /\ lost[u] \in Nat /\ account[u] \in AccountRows \cup {Nil}
  BY DEF AccountInv, AccountTyped, Shown
<1>3. CASE account[u] = Nil
  <2>1. guesses[u] = 0
    BY <1>3 DEF AccountInv, NobodyYet
  <2>. QED BY <1>2, <2>1, AccountAssumption
<1>4. CASE account[u] # Nil
  <2>1. account[u].failed \in Nat
    BY <1>2, <1>4 DEF AccountRows
  <2>2. GuessesCounted(u)
    BY DEF AccountInv, AccountCounts
  <2>3. guesses[u] <= account[u].failed + lost[u] /\ account[u].failed <= MaxAttempts
    BY <1>4, <2>2 DEF GuessesCounted
  <2>. QED BY <1>2, <2>1, <2>3, AccountAssumption
<1>. QED BY <1>3, <1>4

\* Between two resets of its counter nobody gets more guesses at a password than the
\* limit and one for each write that was lost, for any users and logins at a time.
THEOREM AccountGuessesBounded == AccountSpec => []GuessesBounded
<1>1. AccountInv => GuessesBounded
  BY GuessesHold
<1>2. AccountInv /\ [AccountNext]_<<accountVars, deskVars>> => AccountInv'
  BY AccountStepHolds DEF accountVars
<1>. QED BY <1>1, <1>2, AccountInitHolds, PTL DEF AccountSpec

-----------------------------------------------------------------------------
(* The outage watch and its incidents, for any boxes and runs at the same  *)
(* time.                                                                   *)

Causes == {"none", "text"}
ShownRows == [status : Statuses, cause : Causes] \cup {Nil}
OutageWorks == [at : {"idle", "down", "alarm", "page", "look", "open", "note", "up", "find",
                "close", "log"},
          todo : SUBSET Boxes, box : Boxes \cup {Nil}, found : IncidentIds \cup {Nil}]

\* The page shows rows; of its other fields nothing is needed.
ShowsRows(page) ==
  page \in [shown : [IncidentIds -> ShownRows], only : {page.only}, loading : {page.loading},
           open : {page.open}, draft : Causes, lines : {page.lines}, form : {page.form}]
PageShows ==
  /\ ShowsRows(incPage)
  /\ \A l \in incLoads : l.kind = "list" => l.rows \in [IncidentIds -> ShownRows]

\* A run in work at a box has one, and the incident it has found or opened was there.
Fits(d, rows) ==
  /\ d \in OutageWorks
  /\ d.box = Nil <=> d.at \in {"idle", "down", "up"}
  /\ d.at \in {"note", "close", "log"} => d.found \in IncidentIds /\ rows[d.found] # Nil

\* What each variable holds.
IncidentTyped ==
  /\ box \in [Boxes -> [up : BOOLEAN, fresh : BOOLEAN]]
  /\ excused \in [Boxes -> BOOLEAN]
  /\ incident \in [IncidentIds -> Incidents \cup {Nil, Deleted}]
  /\ check \in [Checks -> OutageWorks]
  /\ \A c \in Checks : Fits(check[c], incident)

IncidentInv == IncidentTyped /\ PageShows /\ DownIsReported

\* Some number is the least of those there are.
LEMMA LeastId == ASSUME NEW S \in SUBSET Nat, S # {} PROVE \E x \in S : \A y \in S : x <= y
<1>1. PICK x \in S : \A y \in S : ~ (<<y, x>> \in OpToRel(<, Nat))
  BY NatLessThanWellFounded, WFMin
<1>2. ASSUME NEW y \in S PROVE x <= y
  <2>1. y \in Nat /\ x \in Nat
    OBVIOUS
  <2>2. y < x => <<y, x>> \in OpToRel(<, Nat)
    BY <2>1, Zenon DEF OpToRel
  <2>3. ~ (y < x)
    BY <1>1, <2>2, Zenon
  <2>. QED BY <2>1, <2>3
<1>. QED BY <1>2

LEMMA OpenedFacts ==
  ASSUME NEW boxes \in SUBSET Boxes, NEW log \in Logs
  PROVE  /\ Opened(boxes, log) \in Incidents
         /\ Opened(boxes, log).boxes = boxes /\ Opened(boxes, log).status = "open"
  BY DEF Opened, Incidents, Statuses

\* A row that is one is neither missing nor deleted.
LEMMA RowIsThere ==
  ASSUME NEW row \in Incidents PROVE row # Nil /\ row # Deleted
  BY IncidentAssumption DEF Incidents, Statuses, Deleted

LEMMA NoCheckFacts == \A rows : Fits(NoCheck, rows) /\ NoCheck.at = "idle"
  BY IncidentAssumption DEF NoCheck, Fits, OutageWorks

LEMMA IncidentInitHolds == IncidentInit => IncidentInv
<1>. SUFFICES ASSUME IncidentInit PROVE IncidentInv
  OBVIOUS
<1>1. PICK gone \in {{}} \cup {{b} : b \in Boxes} :
        /\ box = [b \in Boxes |-> [up |-> b \notin gone, fresh |-> b \notin gone]]
        /\ incident = [i \in IncidentIds |->
             IF gone # {} /\ \A j \in IncidentIds : i <= j THEN Opened(gone, {"down"}) ELSE Nil]
  BY DEF IncidentInit
<1>2. /\ check = [c \in Checks |-> NoCheck] /\ incLoads = {}
      /\ excused = [b \in Boxes |-> FALSE]
      /\ incPage = [shown |-> [i \in IncidentIds |->
                      IF incident[i] = Nil THEN Nil ELSE [status |-> "open", cause |-> "none"]],
                    only |-> Nil, loading |-> FALSE,
                    open |-> Nil, draft |-> "none", lines |-> {}, form |-> FALSE]
  BY DEF IncidentInit
<1>3. gone \subseteq Boxes /\ {"down"} \in Logs
  BY DEF Logs
<1>4. Opened(gone, {"down"}) \in Incidents /\ Opened(gone, {"down"}).boxes = gone
      /\ Opened(gone, {"down"}).status = "open"
  BY <1>3, OpenedFacts
<1>5. IncidentTyped
  <2>1. incident \in [IncidentIds -> Incidents \cup {Nil, Deleted}]
    BY <1>1, <1>4
  <2>2. NoCheck \in OutageWorks
    BY NoCheckFacts DEF Fits
  <2>. QED BY <1>1, <1>2, <2>1, <2>2, NoCheckFacts DEF IncidentTyped
<1>6. PageShows
  BY <1>2 DEF PageShows, ShowsRows, ShownRows, Causes, Statuses
<1>7. ASSUME NEW b \in Boxes, ~box[b].up
      PROVE  OpenFor(b) # {}
  <2>1. b \in gone
    BY <1>1, <1>7
  <2>2. PICK i \in IncidentIds : \A j \in IncidentIds : i <= j
    BY LeastId, IncidentAssumption
  <2>3. incident[i] = Opened(gone, {"down"})
    BY <1>1, <2>1, <2>2
  <2>4. i \in OpenFor(b)
    BY <1>4, <2>1, <2>3, RowIsThere DEF OpenFor, Has
  <2>. QED BY <2>4
<1>. QED BY <1>5, <1>6, <1>7 DEF IncidentInv, DownIsReported

-----------------------------------------------------------------------------
(* What a step keeps: an incident of a box that is down stays open, or the *)
(* box is excused.                                                         *)

ClaimsOf(d) ==
  IF d.at \in {"down", "alarm", "page", "look", "open", "note"}
    THEN d.todo \cup (IF d.at = "note" THEN {} ELSE {d.box} \cap Boxes) ELSE {}

Keeps ==
  /\ UNCHANGED box
  /\ incident' \in [IncidentIds -> Incidents \cup {Nil, Deleted}]
  /\ \A i \in IncidentIds : incident[i] # Nil => incident'[i] # Nil
  /\ excused' \in [Boxes -> BOOLEAN]
  /\ \A b \in Boxes : excused[b] => excused'[b]
  /\ \A b \in Boxes : OpenFor(b) # {} /\ ~box[b].up => excused'[b] \/ OpenFor(b)' # {}

LEMMA NothingWritten ==
  ASSUME IncidentInv, UNCHANGED <<box, incident>>, excused' \in [Boxes -> BOOLEAN],
         \A b \in Boxes : excused[b] => excused'[b]
  PROVE  Keeps
  BY DEF IncidentInv, IncidentTyped, Keeps, OpenFor, Has

\* One row is written.
LEMMA RowWritten ==
  ASSUME IncidentInv, UNCHANGED box, NEW i \in IncidentIds, NEW row \in Incidents \cup {Deleted},
         incident' = [incident EXCEPT ![i] = row],
         excused' \in [Boxes -> BOOLEAN],
         \A b \in Boxes : excused[b] => excused'[b],
         \A b \in Boxes : i \in OpenFor(b) /\ ~box[b].up =>
           excused'[b] \/ (row \in Incidents /\ b \in row.boxes /\ row.status # "resolved")
  PROVE  Keeps
<1>1. incident' \in [IncidentIds -> Incidents \cup {Nil, Deleted}] /\ incident'[i] = row
      /\ \A j \in IncidentIds \ {i} : incident'[j] = incident[j]
  BY DEF IncidentInv, IncidentTyped
<1>2. ASSUME NEW j \in IncidentIds, incident[j] # Nil PROVE incident'[j] # Nil
  <2>1. Deleted # Nil
    BY IncidentAssumption
  <2>. QED BY <1>1, <1>2, <2>1, RowIsThere
<1>3. ASSUME NEW b \in Boxes, NEW j \in OpenFor(b), ~box[b].up, ~excused'[b]
      PROVE  j \in OpenFor(b)'
  <2>1. CASE j = i
    BY <1>1, <1>3, <2>1, RowIsThere DEF OpenFor, Has
  <2>2. CASE j # i
    BY <1>1, <1>3, <2>2 DEF OpenFor, Has
  <2>. QED BY <2>1, <2>2
<1>. QED BY <1>1, <1>2, <1>3 DEF Keeps

\* No run moves.
LEMMA RunsStay ==
  ASSUME IncidentInv, Keeps, PageShows', UNCHANGED check
  PROVE  IncidentInv'
<1>1. IncidentTyped'
  BY DEF IncidentInv, IncidentTyped, Keeps, Fits
<1>2. DownIsReported'
  <2>1. ASSUME NEW b \in Boxes, ~box[b].up, ~excused'[b],
               \A c \in Checks : b \notin Claimed(c)'
        PROVE  OpenFor(b)' # {}
    <3>1. ~excused[b]
      BY <2>1 DEF Keeps
    <3>2. \A c \in Checks : b \notin Claimed(c)
      BY <2>1 DEF Claimed, At
    <3>3. OpenFor(b) # {}
      BY <2>1, <3>1, <3>2 DEF IncidentInv, DownIsReported
    <3>. QED BY <2>1, <3>3 DEF Keeps
  <2>. QED BY <2>1 DEF DownIsReported, Keeps
<1>. QED BY <1>1, <1>2 DEF IncidentInv

\* One run moves, and lets go of a box only when an incident of it is open.
Moves(c, d) ==
  /\ check' = [check EXCEPT ![c] = d]
  /\ Fits(d, incident')
  /\ \A b \in Claimed(c) : b \in ClaimsOf(d) \/ excused'[b] \/ OpenFor(b)' # {}

LEMMA RunMoves ==
  ASSUME IncidentInv, Keeps, PageShows', NEW c \in Checks, NEW d, Moves(c, d)
  PROVE  IncidentInv'
<1>1. check' \in [Checks -> OutageWorks] /\ check'[c] = d
      /\ \A o \in Checks \ {c} : check'[o] = check[o]
  BY DEF IncidentInv, IncidentTyped, Moves, Fits
<1>2. \A o \in Checks : Fits(check'[o], incident')
  BY <1>1 DEF IncidentInv, IncidentTyped, Keeps, Moves, Fits
<1>3. IncidentTyped'
  BY <1>1, <1>2 DEF IncidentInv, IncidentTyped, Keeps
<1>4. ASSUME NEW b \in Boxes, ~box[b].up, ~excused'[b], \A o \in Checks : b \notin Claimed(o)'
      PROVE  OpenFor(b)' # {}
  <2>1. ~excused[b] /\ \A o \in Checks \ {c} : b \notin Claimed(o)
    BY <1>1, <1>4 DEF Keeps, Claimed, At
  <2>2. Claimed(c)' = ClaimsOf(d)
    BY <1>1 DEF Claimed, ClaimsOf, At
  <2>3. CASE b \in Claimed(c)
    BY <1>4, <2>2, <2>3 DEF Moves
  <2>4. CASE b \notin Claimed(c)
    <3>1. OpenFor(b) # {}
      BY <1>4, <2>1, <2>4 DEF IncidentInv, DownIsReported
    <3>. QED BY <1>4, <3>1 DEF Keeps
  <2>. QED BY <2>3, <2>4
<1>5. DownIsReported'
  BY <1>4 DEF DownIsReported, Keeps
<1>. QED BY <1>3, <1>5 DEF IncidentInv

-----------------------------------------------------------------------------
(* The boxes, and the claim.                                               *)

LEMMA BoxesHold ==
  ASSUME IncidentInv, NEW b \in Boxes, Heartbeat(b) \/ GoesQuiet(b) \/ PollRefused(b)
  PROVE  IncidentInv'
<1>1. UNCHANGED <<incident, check, incPage, incLoads>>
  BY DEF Heartbeat, GoesQuiet, PollRefused, Watched
<1>2. /\ box' \in [Boxes -> [up : BOOLEAN, fresh : BOOLEAN]]
      /\ excused' \in [Boxes -> BOOLEAN]
      /\ \A a \in Boxes : ~box'[a].up /\ ~excused'[a] => ~box[a].up /\ ~excused[a]
  <2>1. CASE Heartbeat(b)
    BY <2>1 DEF Heartbeat, IncidentInv, IncidentTyped
  <2>2. CASE GoesQuiet(b)
    BY <2>2 DEF GoesQuiet, IncidentInv, IncidentTyped
  <2>3. CASE PollRefused(b)
    BY <2>3 DEF PollRefused, IncidentInv, IncidentTyped
  <2>. QED BY <2>1, <2>2, <2>3
<1>3. IncidentTyped'
  BY <1>1, <1>2 DEF IncidentInv, IncidentTyped
<1>4. PageShows'
  BY <1>1 DEF IncidentInv, PageShows
<1>5. DownIsReported'
  BY <1>1, <1>2 DEF IncidentInv, DownIsReported, OpenFor, Has, Claimed, At
<1>. QED BY <1>3, <1>4, <1>5 DEF IncidentInv

LEMMA ClaimOfflineHolds ==
  ASSUME IncidentInv, NEW c \in Checks, ClaimOffline(c)
  PROVE  IncidentInv'
<1>. DEFINE gone == {b \in Boxes : box[b].up /\ ~box[b].fresh}
            d == [NoCheck EXCEPT !.at = "down", !.todo = gone]
<1>1. /\ box' = [b \in Boxes |-> [box[b] EXCEPT !.up = box[b].up /\ b \notin gone]]
      /\ excused' = [b \in Boxes |-> excused[b] /\ b \notin gone]
      /\ check' = [check EXCEPT ![c] = d] /\ check[c].at = "idle"
      /\ UNCHANGED <<incident, incPage, incLoads>>
  BY DEF ClaimOffline, At, OffPage
<1>2. Fits(d, incident) /\ d.at = "down" /\ d.todo = gone
  BY DEF NoCheck, Fits, OutageWorks
<1>3. /\ box' \in [Boxes -> [up : BOOLEAN, fresh : BOOLEAN]]
      /\ excused' \in [Boxes -> BOOLEAN]
      /\ \A b \in Boxes : ~box'[b].up /\ b \notin gone => ~box[b].up
      /\ \A b \in Boxes : b \notin gone => excused'[b] = excused[b]
  BY <1>1 DEF IncidentInv, IncidentTyped
<1>. HIDE DEF d, gone
<1>4. check' \in [Checks -> OutageWorks] /\ check'[c] = d
      /\ \A o \in Checks \ {c} : check'[o] = check[o]
  BY <1>1, <1>2 DEF IncidentInv, IncidentTyped, Fits
<1>5. IncidentTyped'
  BY <1>1, <1>2, <1>3, <1>4 DEF IncidentInv, IncidentTyped
<1>6. PageShows'
  BY <1>1 DEF IncidentInv, PageShows
<1>7. ASSUME NEW b \in Boxes, ~box'[b].up, ~excused'[b], \A o \in Checks : b \notin Claimed(o)'
      PROVE  OpenFor(b)' # {}
  <2>1. b \notin gone
    BY <1>2, <1>4, <1>7 DEF Claimed, At
  <2>2. ~box[b].up /\ ~excused[b]
    BY <1>3, <1>7, <2>1
  <2>3. \A o \in Checks : b \notin Claimed(o)
    BY <1>1, <1>4, <1>7 DEF Claimed, At
  <2>. QED BY <1>1, <2>2, <2>3 DEF IncidentInv, DownIsReported, OpenFor, Has
<1>. QED BY <1>5, <1>6, <1>7 DEF IncidentInv, DownIsReported

-----------------------------------------------------------------------------
(* The steps of a run.                                                     *)

Changes(c, d) == check' = [check EXCEPT ![c] = d]

LEMMA QuietMove ==
  ASSUME IncidentInv, UNCHANGED <<box, incident, excused, incPage, incLoads>>,
         NEW c \in Checks, NEW d, Changes(c, d), Fits(d, incident),
         \A b \in Claimed(c) : b \in ClaimsOf(d) \/ OpenFor(b) # {}
  PROVE  IncidentInv'
<1>1. Keeps
  BY NothingWritten DEF IncidentInv, IncidentTyped
<1>2. PageShows'
  BY DEF IncidentInv, PageShows
<1>3. Moves(c, d)
  BY DEF Moves, Changes, OpenFor, Has
<1>. QED BY <1>1, <1>2, <1>3, RunMoves

LEMMA CheckFacts ==
  ASSUME IncidentInv, NEW c \in Checks
  PROVE  /\ Fits(check[c], incident) /\ check[c] \in OutageWorks
         /\ Claimed(c) = ClaimsOf(check[c])
  BY DEF IncidentInv, IncidentTyped, Fits, Claimed, ClaimsOf, At

LEMMA LookAlarmHolds ==
  ASSUME IncidentInv, NEW c \in Checks,
         \/ LookAlarm(c) \/ RaiseAlarm(c) \/ ResolveAlarms(c)
         \/ \E status \in {"sent", "failed"} : SendAlert(c, status)
  PROVE  IncidentInv'
<1>1. UNCHANGED <<box, incident, excused, incPage, incLoads>>
  BY DEF LookAlarm, RaiseAlarm, ResolveAlarms, SendAlert, OffPage
<1>2. CASE LookAlarm(c) \/ ResolveAlarms(c)
  <2>1. PICK b \in check[c].todo, at \in {"alarm", "look", "find"} :
          /\ Take(c, b, at)
          /\ (check[c].at = "down" /\ at # "find") \/ check[c].at = "up"
    BY <1>2 DEF LookAlarm, ResolveAlarms, At
  <2>. DEFINE d == [check[c] EXCEPT !.at = at, !.todo = @ \ {b}, !.box = b]
  <2>2. Changes(c, d)
    BY <2>1 DEF Take, Changes, IncidentInv, IncidentTyped
  <2>3. d.at = at /\ d.todo = check[c].todo \ {b} /\ d.box = b /\ d \in OutageWorks /\ b \in Boxes
    BY CheckFacts, <2>1 DEF OutageWorks
  <2>4. Fits(d, incident)
    BY <2>3, IncidentAssumption DEF Fits
  <2>5. \A x \in Claimed(c) : x \in ClaimsOf(d)
    BY <2>1, <2>3, CheckFacts, IncidentAssumption DEF ClaimsOf, Fits
  <2>. HIDE DEF d
  <2>. QED BY <1>1, <2>2, <2>4, <2>5, QuietMove
<1>3. CASE RaiseAlarm(c) \/ \E status \in {"sent", "failed"} : SendAlert(c, status)
  <2>1. PICK at \in {"page", "look"} : Go(c, at) /\ check[c].at \in {"alarm", "page"}
    BY <1>3 DEF RaiseAlarm, SendAlert, At
  <2>. DEFINE d == [check[c] EXCEPT !.at = at]
  <2>2. Changes(c, d)
    BY <2>1 DEF Go, Changes, IncidentInv, IncidentTyped
  <2>3. d.at = at /\ d.todo = check[c].todo /\ d.box = check[c].box /\ d \in OutageWorks
    BY CheckFacts, <2>1 DEF OutageWorks
  <2>4. Fits(d, incident)
    BY <2>1, <2>3, CheckFacts DEF Fits
  <2>5. \A x \in Claimed(c) : x \in ClaimsOf(d)
    BY <2>1, <2>3, CheckFacts DEF ClaimsOf
  <2>. HIDE DEF d
  <2>. QED BY <1>1, <2>2, <2>4, <2>5, QuietMove
<1>. QED BY <1>2, <1>3

\* A run lets go of a box that has an incident, or when it has none in work.
LEMMA LookIncidentHolds ==
  ASSUME IncidentInv, NEW c \in Checks,
         LookIncident(c) \/ FindIncident(c) \/ ReadOnline(c) \/ EndCheck(c)
  PROVE  IncidentInv'
<1>1. UNCHANGED <<box, incident, excused, incPage, incLoads>>
  BY DEF LookIncident, FindIncident, ReadOnline, EndCheck, OffPage
<1>2. ASSUME NEW at \in {"down", "up"}, DoneBox(c, at),
             \/ check[c].at = "find"
             \/ check[c].at = "look" /\ at = "down" /\ OpenFor(check[c].box) # {}
      PROVE  IncidentInv'
  <2>. DEFINE d == [check[c] EXCEPT !.at = at, !.box = Nil, !.found = Nil]
  <2>1. Changes(c, d)
    BY <1>2 DEF DoneBox, Changes, IncidentInv, IncidentTyped
  <2>2. d.at = at /\ d.todo = check[c].todo /\ d.box = Nil /\ d \in OutageWorks
    BY CheckFacts DEF OutageWorks
  <2>3. Fits(d, incident)
    BY <2>2 DEF Fits
  <2>4. \A x \in Claimed(c) : x \in ClaimsOf(d) \/ OpenFor(x) # {}
    BY <1>2, <2>2, CheckFacts DEF ClaimsOf
  <2>. HIDE DEF d
  <2>. QED BY <1>1, <2>1, <2>3, <2>4, QuietMove
<1>3. CASE LookIncident(c) /\ OpenFor(check[c].box) = {}
  <2>. DEFINE d == [check[c] EXCEPT !.at = "open"]
  <2>1. Changes(c, d) /\ check[c].at = "look"
    BY <1>3 DEF LookIncident, At, Go, Changes, IncidentInv, IncidentTyped
  <2>2. d.at = "open" /\ d.todo = check[c].todo /\ d.box = check[c].box /\ d \in OutageWorks
    BY CheckFacts DEF OutageWorks
  <2>3. Fits(d, incident) /\ \A x \in Claimed(c) : x \in ClaimsOf(d)
    BY <2>1, <2>2, CheckFacts DEF ClaimsOf, Fits
  <2>. HIDE DEF d
  <2>. QED BY <1>1, <2>1, <2>3, QuietMove
<1>4. ASSUME NEW i \in OpenFor(check[c].box), check[c].at = "find",
             check' = [check EXCEPT ![c].at = "close", ![c].found = i]
      PROVE  IncidentInv'
  <2>. DEFINE d == [check[c] EXCEPT !.at = "close", !.found = i]
  <2>1. Changes(c, d)
    BY <1>4 DEF Changes, IncidentInv, IncidentTyped
  <2>2. i \in IncidentIds /\ incident[i] # Nil
    BY DEF OpenFor, Has
  <2>3. d.at = "close" /\ d.found = i /\ d.box = check[c].box /\ d \in OutageWorks
    BY <2>2, CheckFacts DEF OutageWorks
  <2>4. Fits(d, incident) /\ Claimed(c) = {}
    BY <1>4, <2>2, <2>3, CheckFacts DEF ClaimsOf, Fits
  <2>. HIDE DEF d
  <2>. QED BY <1>1, <2>1, <2>4, QuietMove
<1>5. CASE ReadOnline(c)
  <2>. DEFINE online == {b \in Boxes : box[b].up}
              d == [check[c] EXCEPT !.at = "up", !.todo = online]
  <2>1. Changes(c, d) /\ check[c].at = "down" /\ check[c].todo = {}
    BY <1>5 DEF ReadOnline, At, Changes, IncidentInv, IncidentTyped
  <2>2. d.at = "up" /\ d.box = check[c].box /\ d \in OutageWorks
    BY CheckFacts DEF OutageWorks
  <2>3. Fits(d, incident) /\ Claimed(c) = {}
    BY <2>1, <2>2, CheckFacts, IncidentAssumption DEF ClaimsOf, Fits
  <2>. HIDE DEF d
  <2>. QED BY <1>1, <2>1, <2>3, QuietMove
<1>6. CASE EndCheck(c)
  <2>1. Changes(c, NoCheck) /\ check[c].at = "up"
    BY <1>6 DEF EndCheck, At, Changes
  <2>2. Claimed(c) = {}
    BY <2>1, CheckFacts DEF ClaimsOf
  <2>. QED BY <1>1, <2>1, <2>2, NoCheckFacts, QuietMove
<1>. QED BY <1>2, <1>3, <1>4, <1>5, <1>6 DEF LookIncident, FindIncident, At

LEMMA SameDeleted == ASSUME NEW x, x = Deleted
                     PROVE  [x EXCEPT !.log = x.log] = x /\ [x EXCEPT !.status = x.status] = x
  BY DEF Deleted

LEMMA RowFacts ==
  ASSUME IncidentInv, NEW i \in IncidentIds
  PROVE  /\ incident[i] \in Incidents \cup {Nil, Deleted}
         /\ incident[i] # Nil /\ ~Has(i) => incident[i] = Deleted
         /\ Has(i) => incident[i] \in Incidents
         /\ \A b \in Boxes : i \in OpenFor(b) =>
              Has(i) /\ b \in incident[i].boxes /\ incident[i].status # "resolved"
  BY DEF IncidentInv, IncidentTyped, Has, OpenFor

\* Rows that differ in the log only.
LEMMA LogWritten ==
  ASSUME IncidentInv, UNCHANGED <<box, excused>>, NEW c \in Checks,
         check[c].at \in {"note", "log"}, NEW what \in {"down", "recovered"}, Noted(c, what)
  PROVE  Keeps
<1>. DEFINE i == check[c].found
            row == [incident[i] EXCEPT !.log = IF Has(i) THEN incident[i].log \cup {what}
                                                         ELSE incident[i].log]
<1>1. i \in IncidentIds /\ incident[i] # Nil
  BY CheckFacts DEF Fits
<1>2. incident' = [incident EXCEPT ![i] = row]
  BY <1>1 DEF Noted, IncidentInv, IncidentTyped
<1>3. CASE Has(i)
  <2>1. incident[i] \in Incidents
    BY <1>1, <1>3, RowFacts
  <2>2. row \in Incidents /\ row.boxes = incident[i].boxes /\ row.status = incident[i].status
    BY <1>3, <2>1 DEF Incidents, Logs
  <2>3. excused' \in [Boxes -> BOOLEAN]
    BY DEF IncidentInv, IncidentTyped
  <2>. HIDE DEF i, row
  <2>. QED BY <1>1, <1>2, <2>2, <2>3, RowFacts, RowWritten
<1>4. CASE ~Has(i)
  <2>1. incident[i] = Deleted
    BY <1>1, <1>4, RowFacts
  <2>2. row = incident[i]
    BY <1>4, <2>1, SameDeleted
  <2>3. incident' = incident
    BY <1>1, <1>2, <2>2 DEF IncidentInv, IncidentTyped
  <2>. QED BY <2>3, NothingWritten DEF IncidentInv, IncidentTyped
<1>. QED BY <1>3, <1>4

\* The incident that is opened is one of the box the run lets go of.
LEMMA OpenIncidentHolds ==
  ASSUME IncidentInv, NEW c \in Checks, OpenIncident(c)
  PROVE  IncidentInv'
<1>1. check[c].at = "open" /\ UNCHANGED <<box, excused, incPage, incLoads>>
  BY DEF OpenIncident, At, OffPage
<1>2. PICK b \in Boxes : b = check[c].box
  BY <1>1, CheckFacts DEF Fits, OutageWorks
<1>. DEFINE row == Opened({b}, {})
<1>3. PICK i \in IncidentIds :
        /\ FirstFree(i)
        /\ incident' = [incident EXCEPT ![i] = row]
        /\ check' = [check EXCEPT ![c].at = "note", ![c].found = i]
  BY <1>2 DEF OpenIncident
<1>4. row \in Incidents /\ row.boxes = {b} /\ row.status = "open"
  BY <1>2, OpenedFacts DEF Logs
<1>5. \A x \in Boxes : i \notin OpenFor(x)
  BY <1>3 DEF FirstFree, OpenFor, Has
<1>6. excused' \in [Boxes -> BOOLEAN]
  BY <1>1 DEF IncidentInv, IncidentTyped
<1>. HIDE DEF row
<1>7. Keeps
  BY <1>3, <1>1, <1>4, <1>5, <1>6, RowWritten
<1>8. incident'[i] = row /\ i \in OpenFor(b)'
  BY <1>3, <1>4, RowIsThere DEF OpenFor, Has, IncidentInv, IncidentTyped
<1>. DEFINE d == [check[c] EXCEPT !.at = "note", !.found = i]
<1>9. d.at = "note" /\ d.found = i /\ d.box = b /\ d.todo = check[c].todo /\ d \in OutageWorks
  BY <1>2, CheckFacts DEF OutageWorks
<1>10. Fits(d, incident')
  BY <1>1, <1>4, <1>8, <1>9, CheckFacts, RowIsThere DEF Fits
<1>11. Moves(c, d)
  <2>1. check' = [check EXCEPT ![c] = d]
    BY <1>3 DEF IncidentInv, IncidentTyped
  <2>2. \A x \in Claimed(c) : x \in ClaimsOf(d) \/ x = b
    BY <1>1, <1>9, CheckFacts DEF ClaimsOf
  <2>. HIDE DEF d
  <2>. QED BY <1>8, <1>10, <2>1, <2>2 DEF Moves
<1>12. PageShows'
  BY <1>1 DEF IncidentInv, PageShows
<1>. HIDE DEF d
<1>. QED BY <1>7, <1>11, <1>12, RunMoves

LEMMA NoteHolds ==
  ASSUME IncidentInv, NEW c \in Checks, NoteOpened(c) \/ NoteRecovery(c)
  PROVE  IncidentInv'
<1>1. PICK at \in {"down", "up"}, what \in {"down", "recovered"} :
        Noted(c, what) /\ DoneBox(c, at) /\ ((check[c].at = "note" /\ at = "down") \/ check[c].at = "log")
  BY DEF NoteOpened, NoteRecovery, At
<1>2. UNCHANGED <<box, excused, incPage, incLoads>>
  BY DEF NoteOpened, NoteRecovery, OffPage
<1>3. Keeps
  BY <1>1, <1>2, LogWritten
<1>. DEFINE d == [check[c] EXCEPT !.at = at, !.box = Nil, !.found = Nil]
<1>4. d.at = at /\ d.todo = check[c].todo /\ d.box = Nil /\ d \in OutageWorks
  BY CheckFacts DEF OutageWorks
<1>5. Fits(d, incident') /\ Claimed(c) \subseteq ClaimsOf(d)
  BY <1>1, <1>4, CheckFacts DEF Fits, ClaimsOf
<1>6. Moves(c, d)
  <2>1. check' = [check EXCEPT ![c] = d]
    BY <1>1 DEF DoneBox, IncidentInv, IncidentTyped
  <2>. HIDE DEF d
  <2>. QED BY <1>5, <2>1 DEF Moves
<1>7. PageShows'
  BY <1>2 DEF IncidentInv, PageShows
<1>. HIDE DEF d
<1>. QED BY <1>3, <1>6, <1>7, RunMoves

\* Whoever takes an incident away excuses the boxes it was about.
LEMMA ExcuseFacts ==
  ASSUME IncidentInv, NEW i, Excuse(incident[i].boxes)
  PROVE  /\ excused' \in [Boxes -> BOOLEAN]
         /\ \A b \in Boxes : excused[b] => excused'[b]
         /\ \A b \in Boxes : b \in incident[i].boxes /\ ~box[b].up => excused'[b]
  BY DEF Excuse, IncidentInv, IncidentTyped

LEMMA CloseIncidentHolds ==
  ASSUME IncidentInv, NEW c \in Checks, CloseIncident(c)
  PROVE  IncidentInv'
<1>. DEFINE i == check[c].found
            row == [incident[i] EXCEPT !.status = IF Has(i) THEN "resolved" ELSE incident[i].status]
<1>1. check[c].at = "close" /\ Go(c, "log") /\ UNCHANGED <<box, incPage, incLoads>>
      /\ Excuse(incident[i].boxes)
  BY DEF CloseIncident, At, OffPage
<1>2. i \in IncidentIds /\ incident[i] # Nil
  BY <1>1, CheckFacts DEF Fits
<1>3. incident' = [incident EXCEPT ![i] = row]
  BY <1>2 DEF CloseIncident, IncidentInv, IncidentTyped
<1>4. row \in Incidents \cup {Deleted}
  <2>1. CASE Has(i)
    <3>1. incident[i] \in Incidents
      BY <1>2, <2>1, RowFacts
    <3>. QED BY <2>1, <3>1 DEF Incidents, Statuses
  <2>2. CASE ~Has(i)
    BY <1>2, <2>2, RowFacts, SameDeleted
  <2>. QED BY <2>1, <2>2
<1>. HIDE DEF i, row
<1>5. Keeps
  BY <1>1, <1>2, <1>3, <1>4, ExcuseFacts, RowFacts, RowWritten
<1>. DEFINE d == [check[c] EXCEPT !.at = "log"]
<1>6. d.at = "log" /\ d.found = i /\ d.box = check[c].box /\ d \in OutageWorks
  BY CheckFacts DEF OutageWorks, i
<1>7. Fits(d, incident') /\ Claimed(c) = {}
  BY <1>1, <1>2, <1>5, <1>6, CheckFacts DEF Fits, ClaimsOf, Keeps
<1>8. Moves(c, d)
  <2>1. check' = [check EXCEPT ![c] = d]
    BY <1>1 DEF Go, IncidentInv, IncidentTyped
  <2>. HIDE DEF d
  <2>. QED BY <1>7, <2>1 DEF Moves
<1>9. PageShows'
  BY <1>1 DEF IncidentInv, PageShows
<1>. HIDE DEF d
<1>. QED BY <1>5, <1>8, <1>9, RunMoves

LEMMA CheckFailsHolds ==
  ASSUME IncidentInv, NEW c \in Checks, CheckFails(c)
  PROVE  IncidentInv'
<1>1. /\ excused' = [b \in Boxes |-> excused[b] \/ b \in Claimed(c)]
      /\ check' = [check EXCEPT ![c] = NoCheck]
      /\ UNCHANGED <<box, incident, incPage, incLoads>>
  BY DEF CheckFails
<1>2. Keeps
  <2>1. excused' \in [Boxes -> BOOLEAN] /\ \A b \in Boxes : excused[b] => excused'[b]
    BY <1>1 DEF IncidentInv, IncidentTyped
  <2>. QED BY <1>1, <2>1, NothingWritten
<1>3. Claimed(c) \subseteq Boxes
  BY CheckFacts DEF ClaimsOf, OutageWorks
<1>4. Moves(c, NoCheck)
  BY <1>1, <1>3, NoCheckFacts DEF Moves
<1>5. PageShows'
  BY <1>1 DEF IncidentInv, PageShows
<1>. QED BY <1>2, <1>4, <1>5, RunMoves

-----------------------------------------------------------------------------
(* The page and api/incidents.                                             *)

LEMMA PageFields ==
  ASSUME NEW page, ShowsRows(page)
  PROVE  /\ \A v : ShowsRows([page EXCEPT !.loading = v]) /\ ShowsRows([page EXCEPT !.only = v])
         /\ \A v : ShowsRows([page EXCEPT !.lines = v]) /\ ShowsRows([page EXCEPT !.form = v])
         /\ \A v : ShowsRows([page EXCEPT !.open = v])
         /\ \A v : \A w \in Causes : ShowsRows([page EXCEPT !.open = v, !.draft = w])
         /\ \A w \in Causes : ShowsRows([page EXCEPT !.draft = w])
         /\ \A rows \in [IncidentIds -> ShownRows] : \A v :
              ShowsRows([page EXCEPT !.shown = rows, !.loading = v])
  BY DEF ShowsRows

\* load() shows what the table holds after the step.
LEMMA LoadShows ==
  ASSUME IncidentInv, incident' \in [IncidentIds -> Incidents \cup {Nil, Deleted}],
         NEW page, ShowsRows(page), NEW i, LoadThen(page, i)
  PROVE  PageShows'
<1>1. ListFor(page.only) \in [IncidentIds -> ShownRows]
  BY DEF ListFor, ShownRows, Incidents, Causes
<1>2. ShowsRows(incPage')
  BY PageFields DEF LoadThen
<1>3. incLoads' = incLoads \cup {[kind |-> "list", rows |-> ListFor(page.only), of |-> i]}
  BY DEF LoadThen
<1>. QED BY <1>1, <1>2, <1>3 DEF PageShows, IncidentInv, ShowsRows

\* Steps of the page that write no row.
LEMMA PageHolds ==
  ASSUME IncidentInv, UNCHANGED <<incident, excused, box, check>>, PageShows'
  PROVE  IncidentInv'
<1>1. Keeps
  BY NothingWritten DEF IncidentInv, IncidentTyped
<1>. QED BY <1>1, RunsStay

LEMMA IncidentPageHolds ==
  ASSUME IncidentInv,
         \/ IncRefresh \/ EditDraft \/ ToggleNew
         \/ \E status \in Statuses : ToggleFilter(status)
         \/ \E l \in incLoads : ListArrives(l) \/ LinesArrive(l)
         \/ \E i \in IncidentIds : Expand(i)
         \/ \E b \in Boxes : HandleAlarm(b)
         \/ UNCHANGED incidentVars
  PROVE  IncidentInv'
<1>1. ShowsRows(incPage) /\ incident \in [IncidentIds -> Incidents \cup {Nil, Deleted}]
      /\ \A l \in incLoads : l.kind = "list" => l.rows \in [IncidentIds -> ShownRows]
  BY DEF IncidentInv, PageShows, IncidentTyped
<1>2. CASE IncRefresh
  BY <1>1, <1>2, LoadShows, PageHolds DEF IncRefresh, OffCheck
<1>3. ASSUME NEW status \in Statuses, ToggleFilter(status) PROVE IncidentInv'
  <2>1. ShowsRows([incPage EXCEPT !.only = IF @ = status THEN Nil ELSE status])
    BY <1>1, PageFields
  <2>. QED BY <1>1, <1>3, <2>1, LoadShows, PageHolds DEF ToggleFilter, OffCheck
<1>4. ASSUME NEW l \in incLoads, ListArrives(l) PROVE IncidentInv'
  <2>1. ShowsRows(incPage') /\ UNCHANGED <<incident, excused, box, check>>
    BY <1>1, <1>4, PageFields DEF ListArrives, OffCheck
  <2>2. \A m \in incLoads' : m \in incLoads \/ m.kind = "lines"
    <3>. DEFINE line == [kind |-> "lines", log |-> incident[l.of].log]
    <3>1. incLoads' = (incLoads \ {l}) \cup {} \/ incLoads' = (incLoads \ {l}) \cup {line}
      BY <1>4 DEF ListArrives
    <3>2. line.kind = "lines"
      OBVIOUS
    <3>. HIDE DEF line
    <3>. QED BY <3>1, <3>2
  <2>3. PageShows'
    BY <1>1, <2>1, <2>2 DEF PageShows, ShowsRows
  <2>. QED BY <2>1, <2>3, PageHolds
<1>5. ASSUME NEW l \in incLoads, LinesArrive(l) PROVE IncidentInv'
  <2>1. ShowsRows(incPage') /\ UNCHANGED <<incident, excused, box, check>> /\ incLoads' \subseteq incLoads
    BY <1>1, <1>5, PageFields DEF LinesArrive, OffCheck
  <2>2. PageShows'
    BY <1>1, <2>1 DEF PageShows, ShowsRows
  <2>. QED BY <2>1, <2>2, PageHolds
<1>6. ASSUME NEW i \in IncidentIds, Expand(i) PROVE IncidentInv'
  <2>1. incPage.shown[i] \in ShownRows \ {Nil}
    BY <1>1, <1>6 DEF Expand, ShownRow, ShowsRows
  <2>2. incPage.shown[i].cause \in Causes
    BY <2>1 DEF ShownRows
  <2>3. ShowsRows(incPage') /\ UNCHANGED <<incident, excused, box, check>>
    <3>. DEFINE cause == incPage.shown[i].cause
    <3>1. \/ incPage' = [incPage EXCEPT !.open = Nil]
          \/ incPage' = [incPage EXCEPT !.open = i, !.draft = cause]
      BY <1>6 DEF Expand
    <3>2. cause \in Causes
      BY <2>2
    <3>. HIDE DEF cause
    <3>3. ShowsRows([incPage EXCEPT !.open = Nil])
      BY <1>1, PageFields, Zenon
    <3>4. ShowsRows([incPage EXCEPT !.open = i, !.draft = cause])
      BY <1>1, <3>2, PageFields, Zenon
    <3>. QED BY <1>6, <3>1, <3>3, <3>4 DEF Expand, OffCheck
  <2>4. \A m \in incLoads' : m \in incLoads \/ m.kind = "lines"
    <3>. DEFINE line == [kind |-> "lines", log |-> incident[i].log]
    <3>1. incLoads' = incLoads \/ incLoads' = incLoads \cup {line}
      BY <1>6 DEF Expand
    <3>2. line.kind = "lines"
      OBVIOUS
    <3>. HIDE DEF line
    <3>. QED BY <3>1, <3>2
  <2>5. PageShows'
    BY <1>1, <2>3, <2>4 DEF PageShows, ShowsRows
  <2>. QED BY <2>3, <2>5, PageHolds
<1>7. CASE EditDraft \/ ToggleNew
  <2>1. ShowsRows(incPage') /\ UNCHANGED <<incident, excused, box, check, incLoads>>
    <3>1. \/ incPage' = [incPage EXCEPT !.draft = "text"]
          \/ incPage' = [incPage EXCEPT !.form = ~incPage.form]
      BY <1>7 DEF EditDraft, ToggleNew
    <3>2. ShowsRows([incPage EXCEPT !.form = ~incPage.form])
      BY <1>1, PageFields, Zenon
    <3>3. ShowsRows([incPage EXCEPT !.draft = "text"])
      BY <1>1, PageFields DEF Causes
    <3>. QED BY <1>7, <3>1, <3>2, <3>3 DEF EditDraft, ToggleNew, OffCheck
  <2>2. PageShows'
    BY <1>1, <2>1 DEF PageShows, ShowsRows
  <2>. QED BY <2>1, <2>2, PageHolds
<1>8. CASE UNCHANGED incidentVars \/ \E b \in Boxes : HandleAlarm(b)
  <2>1. UNCHANGED <<incident, excused, box, check, incPage, incLoads>>
    BY <1>8 DEF HandleAlarm, incidentVars
  <2>2. PageShows'
    BY <1>1, <2>1 DEF PageShows, ShowsRows
  <2>. QED BY <2>1, <2>2, PageHolds
<1>. QED BY <1>2, <1>3, <1>4, <1>5, <1>6, <1>7, <1>8

\* The page and the routes write one row, and excuse its boxes if they take it away.
LEMMA PatchHolds ==
  ASSUME IncidentInv, NEW i \in IncidentIds, Has(i), NEW row \in Incidents \cup {Deleted},
         incident' = [incident EXCEPT ![i] = row], UNCHANGED <<box, check>>,
         \/ UNCHANGED excused /\ row \in Incidents /\ row.boxes = incident[i].boxes
            /\ row.status \in {incident[i].status, "investigating"}
         \/ Excuse(incident[i].boxes),
         PageShows'
  PROVE  IncidentInv'
<1>1. CASE UNCHANGED excused /\ row \in Incidents /\ row.boxes = incident[i].boxes
           /\ row.status \in {incident[i].status, "investigating"}
  <2>1. excused' \in [Boxes -> BOOLEAN]
    BY <1>1 DEF IncidentInv, IncidentTyped
  <2>. QED BY <1>1, <2>1, RowFacts, RowWritten, RunsStay
<1>2. CASE Excuse(incident[i].boxes)
  <2>1. \A b \in Boxes : i \in OpenFor(b) => b \in incident[i].boxes
    BY RowFacts
  <2>. QED BY <1>2, <2>1, ExcuseFacts, RowWritten, RunsStay
<1>. QED BY <1>1, <1>2

LEMMA PatchesHold ==
  ASSUME IncidentInv, NEW i \in IncidentIds,
         \/ \E logged \in BOOLEAN : PatchStatus(i, logged)
         \/ SendComment(i) \/ SaveDetail(i)
  PROVE  IncidentInv'
<1>1. ShowsRows(incPage) /\ incident \in [IncidentIds -> Incidents \cup {Nil, Deleted}]
      /\ incPage.draft \in Causes
  BY DEF IncidentInv, PageShows, IncidentTyped, ShowsRows
<1>2. UNCHANGED <<box, check>>
  BY DEF PatchStatus, SendComment, SaveDetail, Patch, OffCheck
<1>3. PICK row :
        /\ Patch(i, row)
        /\ Has(i) => row \in Incidents /\ row.boxes = incident[i].boxes
        /\ \/ UNCHANGED excused /\ (Has(i) => row.status \in {incident[i].status, "investigating"})
           \/ Excuse(incident[i].boxes)
  <2>1. ASSUME NEW logged \in BOOLEAN, PatchStatus(i, logged),
               NEW to \in {"investigating", "resolved"},
               NEW row, row = [incident[i] EXCEPT !.status = to,
                                 !.log = IF logged THEN incident[i].log \cup {"changed"}
                                                   ELSE incident[i].log], Has(i)
        PROVE  row \in Incidents /\ row.boxes = incident[i].boxes /\ row.status = to
    <3>1. incident[i] \in Incidents
      BY <2>1, RowFacts
    <3>2. (IF logged THEN incident[i].log \cup {"changed"} ELSE incident[i].log) \in Logs
      BY <3>1 DEF Incidents, Logs
    <3>. QED BY <2>1, <3>1, <3>2 DEF Incidents, Statuses
  <2>2. ASSUME NEW logged \in BOOLEAN, PatchStatus(i, logged)
        PROVE  \E row : /\ Patch(i, row)
                        /\ Has(i) => row \in Incidents /\ row.boxes = incident[i].boxes
                        /\ \/ UNCHANGED excused /\ (Has(i) => row.status \in {incident[i].status, "investigating"})
                           \/ Excuse(incident[i].boxes)
    <3>1. PICK to \in {"investigating", "resolved"} :
            /\ Patch(i, [incident[i] EXCEPT !.status = to,
                            !.log = IF logged THEN incident[i].log \cup {"changed"}
                                              ELSE incident[i].log])
            /\ IF to = "resolved" THEN Excuse(incident[i].boxes) ELSE UNCHANGED excused
      BY <2>2 DEF PatchStatus
    <3>. QED BY <2>1, <2>2, <3>1
  <2>3. CASE SendComment(i)
    <3>. DEFINE row == [incident[i] EXCEPT !.log = incident[i].log \cup {"comment"}]
    <3>1. Patch(i, row) /\ UNCHANGED excused
      BY <2>3 DEF SendComment
    <3>2. ASSUME Has(i) PROVE row \in Incidents /\ row.boxes = incident[i].boxes
                              /\ row.status = incident[i].status
      BY <3>2, RowFacts DEF Incidents, Logs
    <3>. QED BY <3>1, <3>2
  <2>4. CASE SaveDetail(i)
    <3>. DEFINE row == [incident[i] EXCEPT !.cause = incPage.draft]
    <3>1. Patch(i, row) /\ UNCHANGED excused
      BY <2>4 DEF SaveDetail
    <3>2. ASSUME Has(i) PROVE row \in Incidents /\ row.boxes = incident[i].boxes
                              /\ row.status = incident[i].status
      BY <1>1, <3>2, RowFacts DEF Incidents, Causes
    <3>. QED BY <3>1, <3>2
  <2>. QED BY <2>2, <2>3, <2>4
<1>4. CASE Has(i)
  <2>1. incident' = [incident EXCEPT ![i] = row]
    BY <1>3, <1>4 DEF Patch
  <2>2. incident' \in [IncidentIds -> Incidents \cup {Nil, Deleted}]
    BY <1>1, <1>3, <1>4, <2>1
  <2>3. PageShows'
    BY <1>1, <1>3, <2>2, LoadShows DEF Patch
  <2>. QED BY <1>2, <1>3, <1>4, <2>1, <2>3, PatchHolds
<1>5. CASE ~Has(i)
  <2>1. UNCHANGED incident
    BY <1>1, <1>3, <1>5 DEF Patch
  <2>2. PageShows'
    BY <1>1, <1>3, <2>1, LoadShows DEF Patch
  <2>3. excused' \in [Boxes -> BOOLEAN] /\ \A b \in Boxes : excused[b] => excused'[b]
    BY <1>3, ExcuseFacts DEF IncidentInv, IncidentTyped
  <2>. QED BY <1>2, <2>1, <2>2, <2>3, NothingWritten, RunsStay
<1>. QED BY <1>4, <1>5

LEMMA RoutesHold ==
  ASSUME IncidentInv,
         CreateIncident \/ \E i \in IncidentIds : AssignIncident(i) \/ DeleteIncident(i)
  PROVE  IncidentInv'
<1>1. ShowsRows(incPage) /\ incident \in [IncidentIds -> Incidents \cup {Nil, Deleted}]
  BY DEF IncidentInv, PageShows, IncidentTyped
<1>2. CASE CreateIncident
  <2>. DEFINE row == Opened({}, {"created"})
  <2>1. PICK i \in IncidentIds : FirstFree(i) /\ incident' = [incident EXCEPT ![i] = row]
    BY <1>2 DEF CreateIncident
  <2>2. row \in Incidents
    BY OpenedFacts DEF Logs
  <2>. HIDE DEF row
  <2>3. UNCHANGED <<box, check, excused>> /\ LoadThen([incPage EXCEPT !.form = FALSE], Nil)
    BY <1>2 DEF CreateIncident, OffCheck
  <2>4. \A b \in Boxes : i \notin OpenFor(b)
    BY <2>1 DEF FirstFree, OpenFor, Has
  <2>5. Keeps
    <3>1. excused' \in [Boxes -> BOOLEAN]
      BY <2>3 DEF IncidentInv, IncidentTyped
    <3>. QED BY <2>1, <2>2, <2>3, <2>4, <3>1, RowWritten
  <2>6. PageShows'
    BY <1>1, <2>3, <2>5, LoadShows, PageFields DEF Keeps
  <2>. QED BY <2>3, <2>5, <2>6, RunsStay
<1>3. ASSUME NEW i \in IncidentIds, AssignIncident(i) \/ DeleteIncident(i)
      PROVE  IncidentInv'
  <2>1. Has(i) /\ UNCHANGED <<box, check, incPage, incLoads>>
    BY <1>3 DEF AssignIncident, DeleteIncident, OffCheck
  <2>2. PageShows'
    BY <2>1 DEF IncidentInv, PageShows
  <2>3. CASE AssignIncident(i)
    <3>. DEFINE row == [incident[i] EXCEPT !.log = incident[i].log \cup {"assigned"}]
    <3>1. incident' = [incident EXCEPT ![i] = row] /\ UNCHANGED excused
      BY <2>3 DEF AssignIncident
    <3>2. row \in Incidents /\ row.boxes = incident[i].boxes /\ row.status = incident[i].status
      BY <2>1, RowFacts DEF Incidents, Logs
    <3>. HIDE DEF row
    <3>. QED BY <2>1, <2>2, <3>1, <3>2, PatchHolds
  <2>4. CASE DeleteIncident(i)
    BY <2>1, <2>2, <2>4, PatchHolds DEF DeleteIncident
  <2>. QED BY <1>3, <2>3, <2>4
<1>. QED BY <1>2, <1>3

LEMMA IncidentStepHolds == ASSUME IncidentInv, [IncidentNext]_incidentVars PROVE IncidentInv'
  BY BoxesHold, ClaimOfflineHolds, LookAlarmHolds, LookIncidentHolds, OpenIncidentHolds,
     NoteHolds, CloseIncidentHolds, CheckFailsHolds, IncidentPageHolds, PatchesHold, RoutesHold
     DEF IncidentNext, CheckStep

LEMMA ReportsHold == IncidentInv => DownIsReported
  BY DEF IncidentInv

\* A box that the outage watch has put offline has an open incident once no run has
\* it in work, whatever runs overlap, unless one of the reasons for an excuse applies.
THEOREM IncidentDownIsReported == IncidentSpec => []DownIsReported
<1>1. IncidentInv => DownIsReported
  BY ReportsHold
<1>2. IncidentInv /\ [IncidentNext]_<<incidentVars, deskVars>> => IncidentInv'
  BY IncidentStepHolds DEF incidentVars
<1>. QED BY <1>1, <1>2, IncidentInitHolds, PTL DEF IncidentSpec

-----------------------------------------------------------------------------
(* The service checks of the web server, for any checks, hosts and names.  *)

\* How many of the two latest results are of the outage that goes on.
Outage(k) == IF last[k].status = "ok" THEN 0 ELSE IF before[k].status = "ok" THEN 1 ELSE 2

\* FewAlarms is not inductive: an alert still to be raised counts already, and there
\* are no more of them than results of the outage among the two that are compared.
AlarmsCounted ==
  /\ last \in [SvcIds -> Results] /\ before \in [SvcIds -> Results]
  /\ verdict \in [SvcIds -> {"none", "raise", "resolve"}]
  /\ raised \in [SvcIds -> Nat]
  /\ \A k \in SvcIds : /\ raised[k] + (IF verdict[k] = "raise" THEN 1 ELSE 0) <= Outage(k)
                       /\ k \in due => verdict[k] = "none"

LEMMA ServiceInitHolds == ServiceInit => AlarmsCounted
  BY DEF ServiceInit, AlarmsCounted, Outage, NoResult, Results

LEMMA ProbeHolds ==
  ASSUME AlarmsCounted, NEW k \in SvcIds, NEW slow \in BOOLEAN, Probe(k, slow)
  PROVE  AlarmsCounted'
<1>. DEFINE now == Probed(k, slow)
<1>1. PICK prev \in Previous(k, now) : verdict' = [verdict EXCEPT ![k] = Verdict(now, prev)]
  BY DEF Probe
<1>2. /\ k \in due /\ due' = due \ {k}
      /\ before' = [before EXCEPT ![k] = last[k]]
      /\ last' = [last EXCEPT ![k] = now]
      /\ raised' = [raised EXCEPT ![k] = IF now.status = "ok" THEN 0 ELSE raised[k]]
  BY DEF Probe, AlarmsCounted
<1>3. now \in Results
  BY DEF Probed, Results
<1>4. prev \in {last[k], before[k]} /\ last[k] \in Results /\ before[k] \in Results
  BY DEF Previous, AlarmsCounted
<1>5. Verdict(now, prev) \in {"none", "raise", "resolve"}
      /\ (Verdict(now, prev) = "raise" => now.status # "ok" /\ prev.status = "ok")
  BY DEF Verdict
<1>6. verdict[k] = "none" /\ raised[k] \in Nat /\ raised[k] <= Outage(k)
  BY <1>2 DEF AlarmsCounted
<1>. HIDE DEF now
<1>7. /\ last' \in [SvcIds -> Results] /\ before' \in [SvcIds -> Results]
      /\ verdict' \in [SvcIds -> {"none", "raise", "resolve"}]
      /\ raised' \in [SvcIds -> Nat]
  BY <1>1, <1>2, <1>3, <1>4, <1>5, <1>6 DEF AlarmsCounted
<1>8. ASSUME NEW j \in SvcIds
      PROVE  /\ raised'[j] + (IF verdict'[j] = "raise" THEN 1 ELSE 0) <= Outage(j)'
             /\ j \in due' => verdict'[j] = "none"
  <2>1. CASE j = k
    <3>1. /\ raised'[k] = IF now.status = "ok" THEN 0 ELSE raised[k]
          /\ verdict'[k] = Verdict(now, prev)
          /\ last'[k] = now /\ before'[k] = last[k] /\ k \notin due'
      BY <1>1, <1>2 DEF AlarmsCounted
    <3>2. CASE now.status = "ok"
      BY <1>5, <2>1, <3>1, <3>2 DEF Outage
    <3>3. CASE now.status # "ok" /\ last[k].status = "ok"
      BY <1>6, <2>1, <3>1, <3>3 DEF Outage
    <3>4. CASE now.status # "ok" /\ last[k].status # "ok"
      <4>1. Outage(k)' = 2
        BY <3>1, <3>4 DEF Outage
      <4>2. Verdict(now, prev) = "raise" => raised[k] <= 1
        BY <1>4, <1>5, <1>6, <3>4 DEF Outage
      <4>3. raised[k] <= 2
        BY <1>6 DEF Outage
      <4>. QED BY <1>6, <2>1, <3>1, <3>4, <4>1, <4>2, <4>3
    <3>. QED BY <3>2, <3>3, <3>4
  <2>2. CASE j # k
    <3>1. /\ raised'[j] = raised[j] /\ verdict'[j] = verdict[j]
          /\ last'[j] = last[j] /\ before'[j] = before[j] /\ (j \in due' => j \in due)
      BY <1>1, <1>2, <2>2 DEF AlarmsCounted
    <3>. QED BY <3>1 DEF AlarmsCounted, Outage
  <2>. QED BY <2>1, <2>2
<1>. QED BY <1>7, <1>8 DEF AlarmsCounted

\* Everything else leaves the results alone.
LEMMA VerdictsHold ==
  ASSUME AlarmsCounted, UNCHANGED <<last, before>>,
         \/ UNCHANGED <<verdict, raised, due>>
         \/ \E k \in SvcIds :
              /\ verdict' = [verdict EXCEPT ![k] = "none"]
              /\ due' \subseteq due
              /\ \/ UNCHANGED raised
                 \/ verdict[k] = "raise" /\ raised' = [raised EXCEPT ![k] = @ + 1]
  PROVE  AlarmsCounted'
<1>1. CASE UNCHANGED <<verdict, raised, due>>
  BY <1>1 DEF AlarmsCounted, Outage
<1>2. ASSUME NEW k \in SvcIds, verdict' = [verdict EXCEPT ![k] = "none"], due' \subseteq due,
             \/ UNCHANGED raised
             \/ verdict[k] = "raise" /\ raised' = [raised EXCEPT ![k] = @ + 1]
      PROVE  AlarmsCounted'
  <2>1. raised' \in [SvcIds -> Nat] /\ verdict' \in [SvcIds -> {"none", "raise", "resolve"}]
    BY <1>2 DEF AlarmsCounted
  <2>2. ASSUME NEW j \in SvcIds
        PROVE  /\ raised'[j] + (IF verdict'[j] = "raise" THEN 1 ELSE 0) <= Outage(j)'
               /\ j \in due' => verdict'[j] = "none"
    <3>1. Outage(j)' = Outage(j) /\ Outage(j) \in Nat /\ raised[j] \in Nat
          /\ raised[j] + (IF verdict[j] = "raise" THEN 1 ELSE 0) <= Outage(j)
      BY DEF AlarmsCounted, Outage
    <3>2. verdict'[j] = IF j = k THEN "none" ELSE verdict[j]
      BY <1>2 DEF AlarmsCounted
    <3>3. raised'[j] \in {raised[j], raised[j] + (IF j = k /\ verdict[j] = "raise" THEN 1 ELSE 0)}
      BY <1>2 DEF AlarmsCounted
    <3>4. j \in due' => verdict'[j] = "none"
      BY <1>2, <3>2 DEF AlarmsCounted
    <3>. QED BY <3>1, <3>2, <3>3, <3>4
  <2>. QED BY <2>1, <2>2 DEF AlarmsCounted
<1>. QED BY <1>1, <1>2

LEMMA ServiceStepHolds == ASSUME AlarmsCounted, [ServiceNext]_serviceVars PROVE AlarmsCounted'
<1>1. ASSUME StartProbes PROVE AlarmsCounted'
  <2>1. UNCHANGED <<last, before, verdict, raised>> /\ \A k \in SvcIds : verdict[k] = "none"
    BY <1>1 DEF StartProbes
  <2>. QED BY <2>1 DEF AlarmsCounted, Outage
<1>2. ASSUME NEW k \in SvcIds,
             RaiseSvcAlarm(k) \/ ResolveSvcAlarms(k) \/ ProbeFails(k)
      PROVE  AlarmsCounted'
  <2>1. /\ UNCHANGED <<last, before>> /\ due' \subseteq due
        /\ verdict' = [verdict EXCEPT ![k] = "none"]
        /\ \/ UNCHANGED raised
           \/ verdict[k] = "raise" /\ raised' = [raised EXCEPT ![k] = @ + 1]
    BY <1>2 DEF RaiseSvcAlarm, ResolveSvcAlarms, ProbeFails
  <2>. QED BY <2>1, VerdictsHold
<1>3. ASSUME \/ UNCHANGED serviceVars \/ SvcRefresh \/ ToggleAdd
             \/ \E k \in SvcIds : ServiceFlips(k) \/ DeleteCheck(k)
             \/ \E rows \in svcLoads : SvcArrives(rows)
             \/ \E row \in CheckRows : AddCheck(row)
             \/ \E h \in SvcHosts, n \in Names : HandleSvcAlarm(h, n)
      PROVE  AlarmsCounted'
  <2>1. UNCHANGED <<last, before, verdict, raised, due>>
    BY <1>3 DEF serviceVars, SvcRefresh, ToggleAdd, ServiceFlips, DeleteCheck, SvcArrives,
                AddCheck, HandleSvcAlarm, KeepsRun
  <2>. QED BY <2>1, VerdictsHold
<1>. QED BY <1>1, <1>2, <1>3, ProbeHolds DEF ServiceNext, ProbeStep

LEMMA AlarmsAreFew == AlarmsCounted => FewAlarms
<1>1. SUFFICES ASSUME AlarmsCounted, NEW k \in SvcIds PROVE raised[k] <= 2
  BY DEF FewAlarms
<1>2. raised[k] \in Nat /\ raised[k] + (IF verdict[k] = "raise" THEN 1 ELSE 0) <= Outage(k)
  BY <1>1 DEF AlarmsCounted
<1>. QED BY <1>2 DEF Outage

\* One outage raises at most two alerts of a check, whatever else happens to checks,
\* results and alerts meanwhile.
THEOREM ServiceRaisesFewAlarms == ServiceSpec => []FewAlarms
<1>1. AlarmsCounted => FewAlarms
  BY AlarmsAreFew
<1>2. AlarmsCounted /\ [ServiceNext]_<<serviceVars, deskVars>> => AlarmsCounted'
  BY ServiceStepHolds DEF serviceVars
<1>. QED BY <1>1, <1>2, ServiceInitHolds, PTL DEF ServiceSpec

-----------------------------------------------------------------------------
(* The threshold rules, for any rules, assets and evaluations at the same  *)
(* time: the recent alerts of a rule and an asset are bounded by the       *)
(* evaluations that crossed.                                               *)

Senders == {"slack", "email", "webhook"}
Rules == [asset : Gauges \cup {Nil}, kind : Types \cup {Nil}, op : {">", "<="},
          level : Levels \cup {EmptyRule.level}, via : SUBSET Senders, active : BOOLEAN]
Jobs == [pair : Pairs, via : SUBSET Senders]
Runs == [at : {"idle", "look", "insert", "send"}, todo : SUBSET Jobs, pair : Pairs \cup {Nil},
         via : SUBSET Senders, id : NoticeIds \cup {Nil}]
Lists == [NoticeIds -> {"active", "acked", "resolved", Nil}]
Pages == [shown : Lists, status : {"active", "acked", "resolved", ""}, picked : SUBSET NoticeIds]

RuleTyped ==
  /\ rule \in [RuleIds -> Rules \cup {Nil}]
  /\ notice \in [NoticeIds -> Notices \cup {Nil}]
  /\ eval \in [Evals -> Runs]
  /\ alertPage \in Pages
  /\ doubled \in [Pairs -> Nat]

\* What evaluations and the page refer to is there.
Found(table, runs, page) ==
  /\ \A e \in Evals : /\ runs[e].at = "insert" => runs[e].pair \in Pairs
                      /\ runs[e].at = "send" => runs[e].id \in NoticeIds /\ table[runs[e].id] \in Notices
  /\ \A n \in NoticeIds : page.shown[n] # Nil \/ n \in page.picked => table[n] \in Notices

RecentIn(table, n, p) == /\ table[n] # Nil /\ table[n].pair = p
                         /\ table[n].status = "active" /\ table[n].recent
RecentOf(table, p) == {n \in NoticeIds : RecentIn(table, n, p)}
Deciding(runs, p) == {e \in Evals : runs[e].at = "insert" /\ runs[e].pair = p}

\* OneRecentAlert is not inductive: an insert adds an alert and crosses nobody.  Its
\* look did, so evaluations past their look are counted too.
RecentCounted ==
  \A p \in Pairs :
    Cardinality(RecentOf(notice, p)) + Cardinality(Deciding(eval, p)) <= 1 + doubled[p]

RuleInv == RuleTyped /\ Found(notice, eval, alertPage) /\ RecentCounted

-----------------------------------------------------------------------------
LEMMA CountsAreFinite ==
  ASSUME NEW table, NEW runs, NEW p
  PROVE  /\ IsFiniteSet(RecentOf(table, p)) /\ Cardinality(RecentOf(table, p)) \in Nat
         /\ IsFiniteSet(Deciding(runs, p)) /\ Cardinality(Deciding(runs, p)) \in Nat
<1>1. IsFiniteSet(RecentOf(table, p))
  BY RuleAssumption, FS_Subset DEF RecentOf
<1>2. IsFiniteSet(Deciding(runs, p))
  BY RuleAssumption, FS_Subset DEF Deciding
<1>. QED BY <1>1, <1>2, FS_CardinalityType

LEMMA NilIsNoNotice == \A row \in Notices : row # Nil
  BY RuleAssumption

\* A step that adds neither a recent alert nor an evaluation about to insert.
LEMMA Fewer ==
  ASSUME RuleInv, RuleTyped', Found(notice, eval, alertPage)', doubled' = doubled,
         \A p \in Pairs : RecentOf(notice', p) \subseteq RecentOf(notice, p),
         \A p \in Pairs : Deciding(eval', p) \subseteq Deciding(eval, p)
  PROVE  RuleInv'
<1>1. ASSUME NEW p \in Pairs
      PROVE  Cardinality(RecentOf(notice', p)) + Cardinality(Deciding(eval', p)) <= 1 + doubled'[p]
  <2>1. /\ Cardinality(RecentOf(notice', p)) <= Cardinality(RecentOf(notice, p))
        /\ Cardinality(Deciding(eval', p)) <= Cardinality(Deciding(eval, p))
    BY CountsAreFinite, FS_Subset
  <2>2. Cardinality(RecentOf(notice, p)) + Cardinality(Deciding(eval, p)) <= 1 + doubled[p]
    BY DEF RuleInv, RecentCounted
  <2>3. doubled[p] \in Nat
    BY DEF RuleInv, RuleTyped
  <2>. QED BY <2>1, <2>2, <2>3, CountsAreFinite
<1>. QED BY <1>1 DEF RuleInv, RecentCounted

\* Steps of an evaluation, and of the pages, that leave the alerts alone.
LEMMA EvalStepHolds ==
  ASSUME RuleInv, NEW e \in Evals, NEW new \in Runs, new.at # "insert",
         new.at = "send" => new.id \in NoticeIds /\ notice[new.id] \in Notices,
         eval' = [eval EXCEPT ![e] = new],
         UNCHANGED <<rule, notice, alertPage, doubled>>
  PROVE  RuleInv'
<1>1. RuleTyped'
  BY DEF RuleInv, RuleTyped
<1>2. \A x \in Evals : eval'[x] = IF x = e THEN new ELSE eval[x]
  BY DEF RuleInv, RuleTyped
<1>3. Found(notice, eval, alertPage)'
  BY <1>2 DEF RuleInv, Found
<1>4. \A p \in Pairs : Deciding(eval', p) \subseteq Deciding(eval, p)
  BY <1>2 DEF Deciding
<1>5. \A p \in Pairs : RecentOf(notice', p) \subseteq RecentOf(notice, p)
  OBVIOUS
<1>. QED BY <1>1, <1>3, <1>4, <1>5, Fewer

LEMMA NoticesStay ==
  ASSUME RuleInv, rule' \in [RuleIds -> Rules \cup {Nil}], alertPage' \in Pages,
         UNCHANGED <<notice, eval, doubled>>,
         \A n \in NoticeIds : alertPage'.shown[n] # Nil \/ n \in alertPage'.picked =>
           notice[n] \in Notices
  PROVE  RuleInv'
<1>1. RuleTyped'
  BY DEF RuleInv, RuleTyped
<1>2. Found(notice, eval, alertPage)'
  BY DEF RuleInv, Found
<1>3. \A p \in Pairs : /\ Deciding(eval', p) \subseteq Deciding(eval, p)
                       /\ RecentOf(notice', p) \subseteq RecentOf(notice, p)
  OBVIOUS
<1>. QED BY <1>1, <1>2, <1>3, Fewer

\* Alerts that are handled, noted or grow old.
LEMMA AlertsStepHold ==
  ASSUME RuleInv, UNCHANGED <<rule, doubled>>, eval' \in [Evals -> Runs],
         \A e \in Evals : eval'[e].at = eval[e].at /\ eval'[e].pair = eval[e].pair
                          /\ eval'[e].id = eval[e].id,
         notice' \in [NoticeIds -> Notices \cup {Nil}], alertPage' \in Pages,
         \A n \in NoticeIds : notice[n] \in Notices => notice'[n] \in Notices,
         \A n \in NoticeIds : alertPage'.shown[n] # Nil \/ n \in alertPage'.picked =>
           notice'[n] \in Notices,
         \A n \in NoticeIds, p \in Pairs : RecentIn(notice', n, p) => RecentIn(notice, n, p)
  PROVE  RuleInv'
<1>1. RuleTyped'
  BY DEF RuleInv, RuleTyped
<1>2. Found(notice, eval, alertPage)'
  BY DEF RuleInv, Found
<1>3. \A p \in Pairs : Deciding(eval', p) \subseteq Deciding(eval, p)
  BY DEF Deciding
<1>4. \A p \in Pairs : RecentOf(notice', p) \subseteq RecentOf(notice, p)
  BY DEF RecentOf
<1>. QED BY <1>1, <1>2, <1>3, <1>4, Fewer

-----------------------------------------------------------------------------
(* The evaluation.                                                         *)

LEMMA NoEvalFacts == NoEval \in Runs /\ NoEval.at = "idle"
  BY DEF NoEval, Runs

LEMMA StartHolds ==
  ASSUME RuleInv, NEW e \in Evals, StartEval(e)
  PROVE  RuleInv'
<1>. DEFINE todo == {[pair |-> p, via |-> rule[p[1]].via] : p \in Due}
            new == [NoEval EXCEPT !.at = "look", !.todo = todo]
<1>1. todo \subseteq Jobs
  <2>. SUFFICES ASSUME NEW p \in Due
                PROVE  [pair |-> p, via |-> rule[p[1]].via] \in Jobs
    OBVIOUS
  <2>1. p \in Pairs /\ rule[p[1]] # Nil
    BY DEF Due
  <2>2. p[1] \in RuleIds
    BY <2>1 DEF Pairs
  <2>3. rule[p[1]].via \in SUBSET Senders
    BY <2>1, <2>2 DEF RuleInv, RuleTyped, Rules
  <2>. QED BY <2>1, <2>3 DEF Jobs
<1>2. eval' = [eval EXCEPT ![e] = new] /\ UNCHANGED <<rule, notice, alertPage, doubled>>
  BY DEF StartEval, KeepsPages
<1>. HIDE DEF todo
<1>3. new \in Runs /\ new.at = "look"
  BY <1>1 DEF Runs, NoEval
<1>. HIDE DEF new
<1>. QED BY <1>2, <1>3, EvalStepHolds

LEMMA NextPairHolds ==
  ASSUME RuleInv, NEW e \in Evals, NextPair(e) \/ EvalFails(e)
  PROVE  RuleInv'
<1>1. CASE NextPair(e)
  <2>. DEFINE new == IF eval[e].todo = {} THEN NoEval
                     ELSE [NoEval EXCEPT !.at = "look", !.todo = eval[e].todo]
  <2>1. eval[e].todo \in SUBSET Jobs
    BY DEF RuleInv, RuleTyped, Runs
  <2>2. new \in Runs /\ new.at \in {"idle", "look"}
    BY <2>1 DEF NoEval, Runs
  <2>3. eval' = [eval EXCEPT ![e] = new] /\ UNCHANGED <<rule, notice, alertPage, doubled>>
    BY <1>1 DEF NextPair, KeepsPages
  <2>. HIDE DEF new
  <2>. QED BY <2>2, <2>3, EvalStepHolds
<1>2. CASE EvalFails(e)
  BY <1>2, NoEvalFacts, EvalStepHolds DEF EvalFails, KeepsPages
<1>. QED BY <1>1, <1>2

\* A look that finds no recent alert: one more evaluation to insert, the only one or one
\* that has crossed another.
LEMMA TakeHolds ==
  ASSUME RuleInv, NEW e \in Evals, TakePair(e)
  PROVE  RuleInv'
<1>1. PICK t \in eval[e].todo :
        LET fires == ~LookRecent(t.pair)
            rival == \E x \in Evals \ {e} : eval[x].at = "insert" /\ eval[x].pair = t.pair IN
        /\ eval' = [eval EXCEPT ![e] = IF fires
             THEN [eval[e] EXCEPT !.at = "insert", !.todo = @ \ {t}, !.pair = t.pair, !.via = t.via]
             ELSE [eval[e] EXCEPT !.todo = @ \ {t}]]
        /\ doubled' = [doubled EXCEPT ![t.pair] = IF fires /\ rival THEN @ + 1 ELSE @]
  BY Zenon DEF TakePair
<1>. DEFINE q == t.pair
            rival == \E x \in Evals \ {e} : eval[x].at = "insert" /\ eval[x].pair = q
            new == [eval[e] EXCEPT !.at = "insert", !.todo = @ \ {t}, !.pair = t.pair, !.via = t.via]
            left == [eval[e] EXCEPT !.todo = @ \ {t}]
<1>2. eval[e] \in Runs /\ eval[e].at = "look" /\ t \in Jobs
  BY DEF TakePair, RuleInv, RuleTyped, Runs
<1>3. q \in Pairs
  BY <1>2 DEF Jobs
<1>4. new \in Runs /\ new.at = "insert" /\ new.pair = q
  <2>1. t.via \in SUBSET Senders
    BY <1>2 DEF Jobs
  <2>. QED BY <1>2, <1>3, <2>1 DEF Runs
<1>5. left \in Runs /\ left.at = "look"
  BY <1>2 DEF Runs
<1>6. UNCHANGED <<rule, notice, alertPage>>
  BY DEF TakePair, KeepsPages
<1>7. /\ eval' = [eval EXCEPT ![e] = IF ~LookRecent(q) THEN new ELSE left]
      /\ doubled' = [doubled EXCEPT ![q] =
           IF ~LookRecent(q) /\ rival THEN doubled[q] + 1 ELSE doubled[q]]
  <2>1. eval' = [eval EXCEPT ![e] = IF ~LookRecent(q) THEN new ELSE left]
    BY ONLY <1>1
  <2>2. doubled' = [doubled EXCEPT ![q] =
           IF ~LookRecent(q) /\ rival THEN doubled[q] + 1 ELSE doubled[q]]
    BY ONLY <1>1
  <2>. QED BY <2>1, <2>2
<1>. HIDE DEF new, left, q, rival
<1>8. ASSUME LookRecent(q)
      PROVE  RuleInv'
  <2>1. eval' = [eval EXCEPT ![e] = left]
    BY <1>7, <1>8
  <2>2. doubled' = doubled
    BY <1>3, <1>7, <1>8 DEF RuleInv, RuleTyped
  <2>. QED BY <1>5, <1>6, <2>1, <2>2, EvalStepHolds
<1>9. ASSUME ~LookRecent(q)
      PROVE  RuleInv'
  <2>1. eval' = [eval EXCEPT ![e] = new]
    BY <1>7, <1>9
  <2>2. doubled' = [doubled EXCEPT ![q] = IF rival THEN doubled[q] + 1 ELSE doubled[q]]
    BY <1>7, <1>9
  <2>3. \A x \in Evals : eval'[x] = IF x = e THEN new ELSE eval[x]
    BY <2>1 DEF RuleInv, RuleTyped
  <2>4. doubled' \in [Pairs -> Nat] /\ \A p \in Pairs : p # q => doubled'[p] = doubled[p]
    BY <1>3, <2>2 DEF RuleInv, RuleTyped
  <2>5. RuleTyped'
    BY <1>4, <1>6, <2>1, <2>4 DEF RuleInv, RuleTyped
  <2>6. Found(notice, eval, alertPage)'
    BY <1>3, <1>4, <1>6, <2>3 DEF RuleInv, Found
  <2>7. RecentOf(notice, q) = {}
    BY <1>9 DEF LookRecent, Recent, RecentOf, RecentIn
  <2>8. Cardinality(RecentOf(notice, q)) = 0
    BY <2>7, FS_EmptySet
  <2>9. Deciding(eval', q) = Deciding(eval, q) \cup {e} /\ e \notin Deciding(eval, q)
    BY <1>2, <1>4, <2>3 DEF Deciding
  <2>10. Cardinality(Deciding(eval', q)) = Cardinality(Deciding(eval, q)) + 1
    BY <2>9, CountsAreFinite, FS_AddElement
  <2>11. Cardinality(Deciding(eval', q)) <= 1 + doubled'[q]
    <3>1. Cardinality(Deciding(eval, q)) <= 1 + doubled[q] /\ doubled[q] \in Nat
      <4>1. Cardinality(RecentOf(notice, q)) + Cardinality(Deciding(eval, q)) <= 1 + doubled[q]
        BY <1>3 DEF RuleInv, RecentCounted
      <4>2. doubled[q] \in Nat
        BY <1>3 DEF RuleInv, RuleTyped
      <4>. QED BY <2>8, <4>1, <4>2, CountsAreFinite
    <3>2. CASE rival
      <4>1. doubled'[q] = doubled[q] + 1
        BY <1>3, <2>2, <3>2 DEF RuleInv, RuleTyped
      <4>. QED BY <2>10, <3>1, <4>1, CountsAreFinite
    <3>3. CASE ~rival
      <4>1. Deciding(eval, q) = {}
        BY <2>9, <3>3 DEF Deciding, rival
      <4>2. Cardinality(Deciding(eval, q)) = 0
        BY <4>1, FS_EmptySet
      <4>3. doubled'[q] = doubled[q]
        BY <1>3, <2>2, <3>3 DEF RuleInv, RuleTyped
      <4>. QED BY <2>10, <3>1, <4>2, <4>3
    <3>. QED BY <3>2, <3>3
  <2>12. ASSUME NEW p \in Pairs
         PROVE  Cardinality(RecentOf(notice', p)) + Cardinality(Deciding(eval', p)) <= 1 + doubled'[p]
    <3>1. CASE p = q
      <4>1. Cardinality(RecentOf(notice', p)) = 0
        BY <1>6, <2>8, <3>1
      <4>. QED BY <2>11, <3>1, <4>1, CountsAreFinite
    <3>2. CASE p # q
      <4>1. Deciding(eval', p) = Deciding(eval, p)
        BY <1>2, <1>4, <2>3, <3>2 DEF Deciding
      <4>. QED BY <1>6, <2>4, <3>2, <4>1 DEF RuleInv, RecentCounted
    <3>. QED BY <3>1, <3>2
  <2>. QED BY <2>5, <2>6, <2>12 DEF RuleInv, RecentCounted
<1>. QED BY <1>8, <1>9

\* An insert: one recent alert more, one evaluation less that is about to insert.
LEMMA InsertHolds ==
  ASSUME RuleInv, NEW e \in Evals, InsertNotice(e)
  PROVE  RuleInv'
<1>. DEFINE q == eval[e].pair
            row == [pair |-> q, status |-> "active", recent |-> TRUE, sent |-> {}]
<1>1. eval[e] \in Runs /\ eval[e].at = "insert" /\ q \in Pairs
  BY DEF InsertNotice, RuleInv, RuleTyped, Found
<1>2. UNCHANGED <<rule, alertPage, doubled>>
  BY DEF InsertNotice, KeepsPages
<1>3. ASSUME rule[q[1]] = Nil
      PROVE  RuleInv'
  <2>1. eval' = [eval EXCEPT ![e] = NoEval] /\ notice' = notice
    BY <1>3 DEF InsertNotice
  <2>. QED BY <1>2, <2>1, NoEvalFacts, EvalStepHolds
<1>4. ASSUME rule[q[1]] # Nil
      PROVE  RuleInv'
  <2>1. PICK n \in NoticeIds :
          /\ LowestId({x \in NoticeIds : notice[x] = Nil}, n)
          /\ notice' = [notice EXCEPT ![n] = row]
          /\ eval' = [eval EXCEPT ![e].at = "send", ![e].id = n, ![e].via = Channels(eval[e].via)]
    BY <1>4 DEF InsertNotice
  <2>. DEFINE new == [eval[e] EXCEPT !.at = "send", !.id = n, !.via = Channels(eval[e].via)]
  <2>2. row \in Notices /\ row.pair = q
    BY <1>1 DEF Notices
  <2>3. new \in Runs /\ new.at = "send" /\ new.id = n
    <3>1. Channels(eval[e].via) \in SUBSET Senders
      BY <1>1 DEF Channels, Runs, Senders
    <3>. QED BY <1>1, <3>1 DEF Runs
  <2>4. eval' = [eval EXCEPT ![e] = new]
    BY <2>1 DEF RuleInv, RuleTyped
  <2>5. notice[n] = Nil
    BY <2>1 DEF LowestId
  <2>. HIDE DEF new, row, q
  <2>6. \A x \in Evals : eval'[x] = IF x = e THEN new ELSE eval[x]
    BY <2>4 DEF RuleInv, RuleTyped
  <2>7. \A x \in NoticeIds : notice'[x] = IF x = n THEN row ELSE notice[x]
    BY <2>1 DEF RuleInv, RuleTyped
  <2>8. RuleTyped'
    BY <1>2, <2>1, <2>2, <2>3, <2>4 DEF RuleInv, RuleTyped
  <2>9. Found(notice, eval, alertPage)'
    BY <1>2, <2>2, <2>3, <2>6, <2>7 DEF RuleInv, Found
  <2>10. ASSUME NEW p \in Pairs
         PROVE  Cardinality(RecentOf(notice', p)) + Cardinality(Deciding(eval', p)) <= 1 + doubled'[p]
    <3>1. Cardinality(RecentOf(notice, p)) + Cardinality(Deciding(eval, p)) <= 1 + doubled[p]
      BY DEF RuleInv, RecentCounted
    <3>2. doubled[p] \in Nat /\ doubled' = doubled
      BY <1>2 DEF RuleInv, RuleTyped
    <3>3. CASE p # q
      <4>1. RecentOf(notice', p) = RecentOf(notice, p)
        BY <2>2, <2>5, <2>7, <3>3 DEF RecentOf, RecentIn
      <4>2. Deciding(eval', p) \subseteq Deciding(eval, p)
        BY <2>3, <2>6 DEF Deciding
      <4>3. Cardinality(Deciding(eval', p)) <= Cardinality(Deciding(eval, p))
        BY <4>2, CountsAreFinite, FS_Subset
      <4>. QED BY <3>1, <3>2, <4>1, <4>3, CountsAreFinite
    <3>4. CASE p = q
      <4>1. n \notin RecentOf(notice, p)
        BY <2>5 DEF RecentOf, RecentIn
      <4>2. RecentOf(notice', p) \subseteq RecentOf(notice, p) \cup {n}
        BY <2>7 DEF RecentOf, RecentIn
      <4>3. /\ IsFiniteSet(RecentOf(notice, p) \cup {n})
            /\ Cardinality(RecentOf(notice, p) \cup {n}) = Cardinality(RecentOf(notice, p)) + 1
        BY <4>1, CountsAreFinite, FS_AddElement
      <4>4. Cardinality(RecentOf(notice', p)) <= Cardinality(RecentOf(notice, p)) + 1
        BY <4>2, <4>3, FS_Subset
      <4>5. e \in Deciding(eval, p) /\ Deciding(eval', p) = Deciding(eval, p) \ {e}
        BY <1>1, <2>3, <2>6, <3>4 DEF Deciding, q
      <4>6. Cardinality(Deciding(eval', p)) = Cardinality(Deciding(eval, p)) - 1
        BY <4>5, CountsAreFinite, FS_RemoveElement
      <4>. QED BY <3>1, <3>2, <4>4, <4>6, CountsAreFinite
    <3>. QED BY <3>3, <3>4
  <2>. QED BY <2>8, <2>9, <2>10 DEF RuleInv, RecentCounted
<1>. QED BY <1>3, <1>4

LEMMA NotifyHolds ==
  ASSUME RuleInv, NEW e \in Evals, NEW channel \in Senders, NEW ok \in BOOLEAN, Notify(e, channel, ok)
  PROVE  RuleInv'
<1>. DEFINE i == eval[e].id
            old == notice[i]
            note == [by |-> channel, ok |-> ok]
            row == [old EXCEPT !.sent = old.sent \cup {note}]
            new == [eval[e] EXCEPT !.via = eval[e].via \ {channel}]
<1>1. i \in NoticeIds /\ old \in Notices /\ eval[e] \in Runs
  BY DEF Notify, RuleInv, RuleTyped, Found
<1>2. new \in Runs /\ new.at = eval[e].at /\ new.pair = eval[e].pair /\ new.id = i
  BY <1>1 DEF Runs
<1>3. row \in Notices /\ row.pair = old.pair /\ row.status = old.status /\ row.recent = old.recent
  <2>1. note \in [by : {"slack", "email", "webhook"}, ok : BOOLEAN]
    BY DEF Senders
  <2>. HIDE DEF note, old
  <2>2. old.sent \cup {note} \in SUBSET [by : {"slack", "email", "webhook"}, ok : BOOLEAN]
    BY <1>1, <2>1 DEF Notices
  <2>3. row \in Notices
    BY <1>1, <2>2 DEF Notices
  <2>4. row.pair = old.pair /\ row.status = old.status
    BY <1>1 DEF Notices
  <2>5. row.recent = old.recent
    BY <1>1 DEF Notices
  <2>. QED BY <2>3, <2>4, <2>5
<1>4. notice' = [notice EXCEPT ![i] = row]
  BY <1>1 DEF Notify, RuleInv, RuleTyped
<1>5. eval' = [eval EXCEPT ![e] = new]
  BY DEF Notify, RuleInv, RuleTyped
<1>6. UNCHANGED <<rule, alertPage, doubled>>
  BY DEF Notify, KeepsPages
<1>. HIDE DEF row, new, i
<1>7. \A n \in NoticeIds : notice'[n] = IF n = i THEN row ELSE notice[n]
  BY <1>4 DEF RuleInv, RuleTyped
<1>8. \A n \in NoticeIds, p \in Pairs : RecentIn(notice', n, p) => RecentIn(notice, n, p)
  <2>. SUFFICES ASSUME NEW n \in NoticeIds, NEW p \in Pairs, RecentIn(notice', n, p)
                PROVE  RecentIn(notice, n, p)
    OBVIOUS
  <2>1. CASE n = i
    <3>1. row # Nil /\ row.pair = p /\ row.status = "active" /\ row.recent
      BY <1>7, <2>1 DEF RecentIn
    <3>2. old # Nil
      BY <1>1, NilIsNoNotice
    <3>. QED BY <1>3, <2>1, <3>1, <3>2 DEF RecentIn
  <2>2. CASE n # i
    BY <1>7, <2>2 DEF RecentIn
  <2>. QED BY <2>1, <2>2
<1>9. notice' \in [NoticeIds -> Notices \cup {Nil}] /\ eval' \in [Evals -> Runs]
  BY <1>2, <1>3, <1>4, <1>5 DEF RuleInv, RuleTyped
<1>10. \A x \in Evals : /\ eval'[x].at = eval[x].at /\ eval'[x].pair = eval[x].pair
                        /\ eval'[x].id = eval[x].id
  BY <1>2, <1>5 DEF RuleInv, RuleTyped, i
<1>11. \A n \in NoticeIds : notice[n] \in Notices => notice'[n] \in Notices
  BY <1>3, <1>7
<1>12. \A n \in NoticeIds : alertPage'.shown[n] # Nil \/ n \in alertPage'.picked => notice'[n] \in Notices
  BY <1>6, <1>11 DEF RuleInv, Found
<1>13. alertPage' \in Pages
  BY <1>6 DEF RuleInv, RuleTyped
<1>. QED BY <1>6, <1>8, <1>9, <1>10, <1>11, <1>12, <1>13, AlertsStepHold

-----------------------------------------------------------------------------
(* The tables and the pages.                                               *)

LEMMA CooldownHolds ==
  ASSUME RuleInv, NEW n \in NoticeIds, CooldownPasses(n)
  PROVE  RuleInv'
<1>. DEFINE old == notice[n]
            row == [old EXCEPT !.recent = FALSE]
<1>1. old \in Notices
  BY DEF CooldownPasses, RuleInv, RuleTyped
<1>2. row \in Notices /\ ~row.recent
  BY <1>1 DEF Notices
<1>3. notice' = [notice EXCEPT ![n] = row]
  BY DEF CooldownPasses, RuleInv, RuleTyped
<1>4. UNCHANGED <<rule, eval, alertPage, doubled>>
  BY DEF CooldownPasses, KeepsPages
<1>. HIDE DEF row, old
<1>5. \A m \in NoticeIds : notice'[m] = IF m = n THEN row ELSE notice[m]
  BY <1>3 DEF RuleInv, RuleTyped
<1>6. \A m \in NoticeIds, p \in Pairs : RecentIn(notice', m, p) => RecentIn(notice, m, p)
  BY <1>2, <1>5 DEF RecentIn
<1>7. notice' \in [NoticeIds -> Notices \cup {Nil}] /\ eval' \in [Evals -> Runs] /\ alertPage' \in Pages
  BY <1>2, <1>3, <1>4 DEF RuleInv, RuleTyped
<1>8. \A m \in NoticeIds : notice[m] \in Notices => notice'[m] \in Notices
  BY <1>2, <1>5
<1>9. \A m \in NoticeIds : alertPage'.shown[m] # Nil \/ m \in alertPage'.picked => notice'[m] \in Notices
  BY <1>4, <1>8 DEF RuleInv, Found
<1>. QED BY <1>4, <1>6, <1>7, <1>8, <1>9, AlertsStepHold

\* Whatever the rules page does to the rules.
LEMMA RulesHold ==
  ASSUME RuleInv, rule' \in [RuleIds -> Rules \cup {Nil}], UNCHANGED <<notice, eval, alertPage, doubled>>
  PROVE  RuleInv'
<1>1. alertPage' \in Pages
  BY DEF RuleInv, RuleTyped
<1>2. \A n \in NoticeIds : alertPage'.shown[n] # Nil \/ n \in alertPage'.picked => notice[n] \in Notices
  BY DEF RuleInv, Found
<1>. QED BY <1>1, <1>2, NoticesStay

LEMMA RuleRowFacts == RuleRows \subseteq Rules /\ EmptyRule \in Rules
<1>1. ChannelSets \subseteq SUBSET Senders /\ {"slack"} \in SUBSET Senders
  BY RuleAssumption DEF Senders
<1>2. RuleRows \subseteq Rules
  BY <1>1 DEF RuleRows, Rules
<1>3. EmptyRule \in Rules
  BY <1>1 DEF EmptyRule, Rules
<1>. QED BY <1>2, <1>3

LEMMA RulePageHolds ==
  ASSUME RuleInv, RulePageNext
  PROVE  RuleInv'
<1>1. rule' \in [RuleIds -> Rules \cup {Nil}]
  <2>0. rule \in [RuleIds -> Rules \cup {Nil}]
    BY DEF RuleInv, RuleTyped
  <2>1. ASSUME NEW row \in RuleRows, SaveRule(row)
        PROVE  rule' \in [RuleIds -> Rules \cup {Nil}]
    <3>1. row \in Rules
      BY RuleRowFacts
    <3>2. ASSUME NEW x \in RuleIds, rule' = [rule EXCEPT ![x] = row]
          PROVE  rule' \in [RuleIds -> Rules \cup {Nil}]
      BY <2>0, <3>1, <3>2
    <3>3. ASSUME NEW r, rule' = [rule EXCEPT ![r] =
                    IF rule[r] = Nil THEN Nil ELSE [row EXCEPT !.active = rule[r].active]]
          PROVE  rule' \in [RuleIds -> Rules \cup {Nil}]
      <4>1. CASE r \in RuleIds /\ rule[r] # Nil
        <5>. DEFINE b == rule[r].active
        <5>1. b \in BOOLEAN
          BY <2>0, <4>1 DEF Rules
        <5>2. rule' = [rule EXCEPT ![r] = [row EXCEPT !.active = b]]
          BY <3>3, <4>1
        <5>. HIDE DEF b
        <5>3. [row EXCEPT !.active = b] \in Rules
          BY <3>1, <5>1 DEF Rules
        <5>. QED BY <2>0, <5>2, <5>3
      <4>2. CASE r \in RuleIds /\ rule[r] = Nil
        BY <2>0, <3>3, <4>2
      <4>3. CASE r \notin RuleIds
        <5>. DEFINE f == IF rule[r] = Nil THEN Nil ELSE [row EXCEPT !.active = rule[r].active]
        <5>1. rule' = [rule EXCEPT ![r] = f]
          BY <3>3
        <5>. HIDE DEF f
        <5>. QED BY <2>0, <4>3, <5>1
      <4>. QED BY <4>1, <4>2, <4>3
    <3>. QED BY <2>1, <3>2, <3>3 DEF SaveRule
  <2>2. ASSUME NEW r \in RuleIds, ToggleRule(r)
        PROVE  rule' \in [RuleIds -> Rules \cup {Nil}]
    <3>. DEFINE b == ~rulePage.shown[r].active
    <3>1. b \in BOOLEAN
      OBVIOUS
    <3>2. rule' = [rule EXCEPT ![r] = IF rule[r] = Nil THEN Nil ELSE [rule[r] EXCEPT !.active = b]]
      BY <2>2 DEF ToggleRule
    <3>. HIDE DEF b
    <3>3. ASSUME rule[r] # Nil
          PROVE  [rule[r] EXCEPT !.active = b] \in Rules
      <4>. DEFINE old == rule[r]
      <4>1. old \in Rules
        BY <2>0, <3>3
      <4>. HIDE DEF old
      <4>2. [old EXCEPT !.active = b] \in Rules
        BY <3>1, <4>1 DEF Rules
      <4>. QED BY <4>2 DEF old
    <3>. QED BY <2>0, <3>2, <3>3
  <2>3. ASSUME NEW r \in RuleIds, DeleteRule(r)
        PROVE  rule' \in [RuleIds -> Rules \cup {Nil}]
    BY <2>0, <2>3 DEF DeleteRule
  <2>4. ASSUME RuleRefresh \/ CancelRule \/ \E r \in RuleIds \cup {Nil} : EditRule(r)
        PROVE  rule' \in [RuleIds -> Rules \cup {Nil}]
    BY <2>0, <2>4 DEF RuleRefresh, CancelRule, EditRule
  <2>. QED BY <2>1, <2>2, <2>3, <2>4 DEF RulePageNext
<1>2. UNCHANGED <<notice, eval, alertPage, doubled>>
  BY DEF RulePageNext, RuleRefresh, CancelRule, EditRule, SaveRule, ToggleRule, DeleteRule, KeepsEval
<1>. QED BY <1>1, <1>2, RulesHold

\* A request handles an alert that is there; it makes none recent.
LEMMA HandledFacts ==
  ASSUME NEW row \in Notices, NEW action \in {"ack", "resolve"}
  PROVE  /\ Handled(row, action) \in Notices /\ Handled(row, action).pair = row.pair
         /\ Handled(row, action).recent = row.recent
         /\ Handled(row, action).status = "active" => row.status = "active"
<1>. DEFINE acked == [row EXCEPT !.status = "acked"]
            ended == [row EXCEPT !.status = "resolved"]
<1>1. /\ acked \in Notices /\ acked.pair = row.pair /\ acked.status = "acked"
      /\ ended \in Notices /\ ended.pair = row.pair /\ ended.status = "resolved"
  BY DEF Notices
<1>2. acked.recent = row.recent /\ ended.recent = row.recent
  BY DEF Notices
<1>3. Handled(row, action) \in {acked, ended, row}
  BY DEF Handled
<1>. HIDE DEF acked, ended
<1>. QED BY <1>1, <1>2, <1>3

\* The list of a page, as the table is after the step.
LEMMA ListFacts ==
  ASSUME NEW status \in {"active", "acked", "resolved", ""},
         notice' \in [NoticeIds -> Notices \cup {Nil}]
  PROVE  /\ AlertList(status) \in Lists
         /\ \A n \in NoticeIds : AlertList(status)[n] # Nil => notice'[n] \in Notices
  BY DEF AlertList, Lists, Notices

\* Requests of the page, for a set of alerts that are there.
LEMMA HandleHolds ==
  ASSUME RuleInv, NEW picked, NEW of \in SUBSET NoticeIds, NEW action \in {"ack", "resolve"},
         \A n \in of : notice[n] \in Notices, picked \subseteq alertPage.picked,
         \A n \in NoticeIds : notice'[n] = IF n \in of THEN Handled(notice[n], action) ELSE notice[n],
         notice' \in [NoticeIds -> Notices \cup {Nil}],
         AlertPage(alertPage.status, picked), KeepsRules
  PROVE  RuleInv'
<1>1. \A n \in NoticeIds : notice[n] \in Notices => notice'[n] \in Notices
  BY HandledFacts
<1>2. \A n \in NoticeIds, p \in Pairs : RecentIn(notice', n, p) => RecentIn(notice, n, p)
  <2>. SUFFICES ASSUME NEW n \in NoticeIds, NEW p \in Pairs, RecentIn(notice', n, p)
                PROVE  RecentIn(notice, n, p)
    OBVIOUS
  <2>1. CASE n \in of
    <3>1. notice[n] \in Notices /\ notice'[n] = Handled(notice[n], action)
      BY <2>1
    <3>. QED BY <3>1, HandledFacts, NilIsNoNotice DEF RecentIn
  <2>2. CASE n \notin of
    BY <2>2 DEF RecentIn
  <2>. QED BY <2>1, <2>2
<1>3. alertPage \in Pages
  BY DEF RuleInv, RuleTyped
<1>4. /\ AlertList(alertPage.status) \in Lists
      /\ \A n \in NoticeIds : AlertList(alertPage.status)[n] # Nil => notice'[n] \in Notices
  BY <1>3, ListFacts DEF Pages
<1>5. alertPage' = [shown |-> AlertList(alertPage.status), status |-> alertPage.status, picked |-> picked]
  BY DEF AlertPage
<1>6. alertPage' \in Pages
  BY <1>3, <1>4, <1>5 DEF Pages
<1>7. \A n \in NoticeIds : n \in picked => notice'[n] \in Notices
  BY <1>1 DEF RuleInv, Found
<1>8. \A n \in NoticeIds : alertPage'.shown[n] # Nil \/ n \in alertPage'.picked => notice'[n] \in Notices
  BY <1>4, <1>5, <1>7
<1>9. UNCHANGED <<rule, eval, doubled>>
  BY DEF KeepsRules
<1>10. eval' \in [Evals -> Runs]
  BY <1>9 DEF RuleInv, RuleTyped
<1>. QED BY <1>1, <1>2, <1>6, <1>8, <1>9, <1>10, AlertsStepHold

LEMMA AlertPageHolds ==
  ASSUME RuleInv, AlertPageNext
  PROVE  RuleInv'
<1>1. alertPage \in Pages /\ notice \in [NoticeIds -> Notices \cup {Nil}]
  BY DEF RuleInv, RuleTyped
<1>2. \A n \in NoticeIds : alertPage.shown[n] # Nil \/ n \in alertPage.picked => notice[n] \in Notices
  BY DEF RuleInv, Found
<1>3. ASSUME NEW picked \in SUBSET NoticeIds, \A n \in picked : notice[n] \in Notices,
             alertPage' = [alertPage EXCEPT !.picked = picked], UNCHANGED notice, KeepsRules
      PROVE  RuleInv'
  <2>1. alertPage' \in Pages /\ alertPage'.shown = alertPage.shown /\ alertPage'.picked = picked
    BY <1>1, <1>3 DEF Pages
  <2>2. rule' \in [RuleIds -> Rules \cup {Nil}] /\ UNCHANGED <<notice, eval, doubled>>
    BY <1>3 DEF KeepsRules, RuleInv, RuleTyped
  <2>. QED BY <1>2, <1>3, <2>1, <2>2, NoticesStay
<1>4. ShownAlerts \in SUBSET NoticeIds /\ \A n \in ShownAlerts : notice[n] \in Notices
  BY <1>2 DEF ShownAlerts
<1>5. CASE PickAll
  <2>1. PICK picked \in {{}, ShownAlerts} : alertPage' = [alertPage EXCEPT !.picked = picked]
    BY <1>5 DEF PickAll
  <2>. QED BY <1>3, <1>4, <1>5, <2>1 DEF PickAll
<1>6. ASSUME NEW status \in {"active", "acked", "resolved", ""}, FilterAlerts(status)
      PROVE  RuleInv'
  <2>1. /\ AlertList(status) \in Lists
        /\ \A n \in NoticeIds : AlertList(status)[n] # Nil => notice'[n] \in Notices
    BY <1>1, <1>6, ListFacts DEF FilterAlerts
  <2>2. alertPage' = [shown |-> AlertList(status), status |-> status, picked |-> alertPage.picked]
    BY <1>6 DEF FilterAlerts, AlertPage
  <2>3. alertPage' \in Pages
    BY <1>1, <2>1, <2>2 DEF Pages
  <2>4. rule' \in [RuleIds -> Rules \cup {Nil}] /\ UNCHANGED <<notice, eval, doubled>>
    BY <1>6 DEF FilterAlerts, KeepsRules, RuleInv, RuleTyped
  <2>5. \A n \in NoticeIds : alertPage'.shown[n] # Nil \/ n \in alertPage'.picked => notice[n] \in Notices
    BY <1>2, <2>1, <2>2, <2>4
  <2>. QED BY <2>3, <2>4, <2>5, NoticesStay
<1>7. ASSUME NEW n \in NoticeIds, PickAlert(n)
      PROVE  RuleInv'
  <2>. DEFINE picked == (alertPage.picked \ {n}) \cup ({n} \ alertPage.picked)
  <2>1. alertPage' = [alertPage EXCEPT !.picked = picked] /\ n \in ShownAlerts
    BY <1>7 DEF PickAlert
  <2>2. alertPage.picked \in SUBSET NoticeIds
    BY <1>1 DEF Pages
  <2>3. picked \in SUBSET NoticeIds /\ \A m \in picked : notice[m] \in Notices
    BY <1>2, <1>4, <2>1, <2>2
  <2>. HIDE DEF picked
  <2>. QED BY <1>3, <1>7, <2>1, <2>3 DEF PickAlert
<1>8. ASSUME NEW n \in NoticeIds, NEW action \in {"ack", "resolve"}, SingleAction(n, action)
      PROVE  RuleInv'
  <2>1. notice[n] \in Notices
    BY <1>4, <1>8 DEF SingleAction
  <2>2. notice' = [notice EXCEPT ![n] = Handled(notice[n], action)]
    BY <1>8 DEF SingleAction
  <2>3. Handled(notice[n], action) \in Notices
    BY <2>1, HandledFacts
  <2>4. notice' \in [NoticeIds -> Notices \cup {Nil}]
    BY <1>1, <2>2, <2>3
  <2>5. \A m \in NoticeIds : notice'[m] = IF m \in {n} THEN Handled(notice[m], action) ELSE notice[m]
    BY <1>1, <2>2
  <2>6. AlertPage(alertPage.status, alertPage.picked) /\ KeepsRules
    BY <1>8 DEF SingleAction
  <2>. QED BY <2>1, <2>4, <2>5, <2>6, HandleHolds
<1>9. ASSUME NEW action \in {"ack", "resolve"}, BulkAction(action)
      PROVE  RuleInv'
  <2>1. alertPage.picked \in SUBSET NoticeIds /\ \A n \in alertPage.picked : notice[n] \in Notices
    BY <1>1, <1>2 DEF Pages
  <2>2. notice' = [n \in NoticeIds |-> IF n \in alertPage.picked
                                         THEN Handled(notice[n], action) ELSE notice[n]]
    BY <1>9 DEF BulkAction
  <2>3. notice' \in [NoticeIds -> Notices \cup {Nil}]
    BY <1>1, <2>1, <2>2, HandledFacts
  <2>4. \A n \in NoticeIds :
          notice'[n] = IF n \in alertPage.picked THEN Handled(notice[n], action) ELSE notice[n]
    BY <2>2
  <2>5. AlertPage(alertPage.status, {}) /\ KeepsRules
    BY <1>9 DEF BulkAction
  <2>. QED BY <2>1, <2>3, <2>4, <2>5, HandleHolds
<1>. QED BY <1>5, <1>6, <1>7, <1>8, <1>9 DEF AlertPageNext

-----------------------------------------------------------------------------
LEMMA RuleInitHolds ==
  ASSUME RuleInit
  PROVE  RuleInv
<1>1. PICK old \in SUBSET {n \in NoticeIds : LowestId(NoticeIds, n)}, q \in Pairs :
        notice = [n \in NoticeIds |->
          IF n \in old THEN [pair |-> q, status |-> "active", recent |-> TRUE, sent |-> {}] ELSE Nil]
  BY DEF RuleInit
<1>. DEFINE row == [pair |-> q, status |-> "active", recent |-> TRUE, sent |-> {}]
<1>2. row \in Notices
  BY DEF Notices
<1>. HIDE DEF row
<1>3. notice = [n \in NoticeIds |-> IF n \in old THEN row ELSE Nil]
  BY <1>1 DEF row
<1>4. notice \in [NoticeIds -> Notices \cup {Nil}]
  BY <1>2, <1>3
<1>5. \A n \in NoticeIds : notice[n] # Nil => n \in old /\ notice[n] \in Notices
  BY <1>2, <1>3
<1>6. alertPage \in Pages /\ \A n \in NoticeIds :
        alertPage.shown[n] # Nil \/ n \in alertPage.picked => notice[n] \in Notices
  BY <1>5 DEF RuleInit, Pages, Lists
<1>7. rule \in [RuleIds -> Rules \cup {Nil}]
  BY RuleRowFacts DEF RuleInit
<1>8. eval \in [Evals -> Runs] /\ \A e \in Evals : eval[e].at = "idle"
  BY NoEvalFacts DEF RuleInit
<1>9. doubled \in [Pairs -> Nat] /\ \A p \in Pairs : doubled[p] = 0
  BY DEF RuleInit
<1>10. RuleTyped /\ Found(notice, eval, alertPage)
  BY <1>4, <1>6, <1>7, <1>8, <1>9 DEF RuleTyped, Found
<1>11. ASSUME NEW p \in Pairs
       PROVE  Cardinality(RecentOf(notice, p)) + Cardinality(Deciding(eval, p)) <= 1 + doubled[p]
  <2>1. Deciding(eval, p) = {}
    BY <1>8 DEF Deciding
  <2>2. Cardinality(Deciding(eval, p)) = 0
    BY <2>1, FS_EmptySet
  <2>3. \A m, n \in RecentOf(notice, p) : m = n
    <3>1. \A m, n \in NoticeIds : LowestId(NoticeIds, m) /\ LowestId(NoticeIds, n) => m = n
      BY RuleAssumption DEF LowestId
    <3>. QED BY <1>5, <3>1 DEF RecentOf, RecentIn
  <2>4. Cardinality(RecentOf(notice, p)) <= 1
    <3>1. CASE RecentOf(notice, p) = {}
      BY <3>1, FS_EmptySet
    <3>2. CASE RecentOf(notice, p) # {}
      <4>1. PICK n \in RecentOf(notice, p) : RecentOf(notice, p) = {n}
        BY <2>3, <3>2
      <4>2. Cardinality({n}) = 1
        BY FS_Singleton
      <4>. QED BY <4>1, <4>2
    <3>. QED BY <3>1, <3>2
  <2>. QED BY <1>9, <2>2, <2>4, CountsAreFinite
<1>. QED BY <1>10, <1>11 DEF RuleInv, RecentCounted

LEMMA RuleStepHolds ==
  ASSUME RuleInv, [RuleNext]_ruleVars
  PROVE  RuleInv'
<1>0. rule \in [RuleIds -> Rules \cup {Nil}]
  BY DEF RuleInv, RuleTyped
<1>1. ASSUME NEW g \in Gauges, NEW v, Measure(g, v)
      PROVE  RuleInv'
  BY <1>0, <1>1, RulesHold DEF Measure, KeepsPages
<1>2. ASSUME NEW n \in NoticeIds, CooldownPasses(n)
      PROVE  RuleInv'
  BY <1>2, CooldownHolds
<1>3. ASSUME NEW e \in Evals, EvalStep(e) \/ EvalFails(e)
      PROVE  RuleInv'
  BY <1>3, StartHolds, TakeHolds, InsertHolds, NextPairHolds, NotifyHolds DEF EvalStep, Senders
<1>4. CASE RulePageNext
  BY <1>4, RulePageHolds
<1>5. CASE AlertPageNext
  BY <1>5, AlertPageHolds
<1>6. CASE UNCHANGED ruleVars
  BY <1>0, <1>6, RulesHold DEF ruleVars
<1>. QED BY <1>1, <1>2, <1>3, <1>4, <1>5, <1>6 DEF RuleNext

LEMMA RecentAreFew == RuleInv => OneRecentAlert
<1>. SUFFICES ASSUME RuleInv, NEW p \in Pairs
              PROVE  Cardinality({n \in NoticeIds : Recent(n, p)}) <= 1 + doubled[p]
  BY DEF OneRecentAlert
<1>1. {n \in NoticeIds : Recent(n, p)} = RecentOf(notice, p)
  BY DEF Recent, RecentOf, RecentIn
<1>2. Cardinality(RecentOf(notice, p)) + Cardinality(Deciding(eval, p)) <= 1 + doubled[p]
  BY DEF RuleInv, RecentCounted
<1>3. doubled[p] \in Nat
  BY DEF RuleInv, RuleTyped
<1>. QED BY <1>1, <1>2, <1>3, CountsAreFinite

\* A rule has at most one recent active alert of an asset more than evaluations of it
\* have crossed, however many runs are at work and whatever people do to rules and alerts
\* (alert-engine.ts:98 looks and inserts in two statements).
THEOREM RecentAlertsBounded == RuleSpec => []OneRecentAlert
<1>1. DeskInit /\ RuleInit => RuleInv
  BY RuleInitHolds
<1>2. RuleInv /\ [RuleNext]_<<ruleVars, deskVars>> => RuleInv'
  BY RuleStepHolds DEF ruleVars
<1>3. RuleInv => OneRecentAlert
  BY RecentAreFew
<1>. QED BY <1>1, <1>2, <1>3, PTL DEF RuleSpec

-----------------------------------------------------------------------------
(* The hardware monitoring, for any servers, components and collections at *)
(* the same time: the alerts of a component are bounded by the collections *)
(* that crossed.                                                           *)

Reports == UNION {[P -> {"ok", "critical", "unknown"}] : P \in SUBSET Parts}
Collections == [at : {"idle", "read", "metric", "part", "look", "alarm", "send"},
          seen : Reports, todo : SUBSET Parts]
Counts == [Blades -> [Parts -> Nat]]

HardwareTyped ==
  /\ hwAlarm \in Counts /\ crossed \in Counts
  /\ hwWork \in [HwSlots -> [Blades -> Collections]]

\* The collections that are about to insert an alert of the component.
Awaited(work, b, p) == {s \in HwSlots : work[s][b].at = "alarm" /\ Least(work[s][b].todo) = p}

\* FewHardwareAlarms is not inductive: an insert adds an alert and crosses nobody.  Its
\* look did, so what is on its way is counted too.
AlarmCounted ==
  \A b \in Blades, p \in Parts :
    hwAlarm[b][p] + Cardinality(Awaited(hwWork, b, p)) <= 1 + crossed[b][p]

HardwareInv == HardwareTyped /\ AlarmCounted

-----------------------------------------------------------------------------
LEMMA AwaitedFinite ==
  ASSUME NEW work, NEW b, NEW p
  PROVE  IsFiniteSet(Awaited(work, b, p)) /\ Cardinality(Awaited(work, b, p)) \in Nat
<1>1. IsFiniteSet(Awaited(work, b, p))
  BY HardwareAssumption, FS_Subset DEF Awaited
<1>. QED BY <1>1, FS_CardinalityType

\* A step after which no more collections are about to insert, and no more alerts are
\* there, keeps the count.
LEMMA FewerAwaited ==
  ASSUME HardwareInv, hwWork' \in [HwSlots -> [Blades -> Collections]], hwAlarm' \in Counts,
         crossed' = crossed,
         \A b \in Blades, p \in Parts : hwAlarm'[b][p] <= hwAlarm[b][p],
         \A b \in Blades, p \in Parts : Awaited(hwWork', b, p) \subseteq Awaited(hwWork, b, p)
  PROVE  HardwareInv'
<1>1. ASSUME NEW b \in Blades, NEW p \in Parts
      PROVE  hwAlarm'[b][p] + Cardinality(Awaited(hwWork', b, p)) <= 1 + crossed'[b][p]
  <2>1. Cardinality(Awaited(hwWork', b, p)) <= Cardinality(Awaited(hwWork, b, p))
    BY AwaitedFinite, FS_Subset
  <2>2. hwAlarm'[b][p] \in Nat /\ hwAlarm[b][p] \in Nat /\ crossed[b][p] \in Nat
    BY DEF HardwareInv, HardwareTyped, Counts
  <2>3. hwAlarm[b][p] + Cardinality(Awaited(hwWork, b, p)) <= 1 + crossed[b][p]
    BY DEF HardwareInv, AlarmCounted
  <2>. QED BY <2>1, <2>2, <2>3, AwaitedFinite
<1>. QED BY <1>1 DEF HardwareInv, HardwareTyped, AlarmCounted

\* A collection that goes on to anything but an insert.
LEMMA StepElsewhere ==
  ASSUME HardwareInv, NEW s \in HwSlots, NEW b \in Blades, NEW new \in Collections, new.at # "alarm",
         Step(s, b, new), hwAlarm' = hwAlarm, crossed' = crossed
  PROVE  HardwareInv'
<1>1. hwWork' \in [HwSlots -> [Blades -> Collections]]
  BY DEF Step, HardwareInv, HardwareTyped
<1>2. \A c \in Blades, p \in Parts : Awaited(hwWork', c, p) \subseteq Awaited(hwWork, c, p)
  BY DEF Step, Awaited, HardwareInv, HardwareTyped
<1>3. \A c \in Blades, p \in Parts : hwAlarm'[c][p] <= hwAlarm[c][p]
  BY DEF HardwareInv, HardwareTyped, Counts
<1>. QED BY <1>1, <1>2, <1>3, FewerAwaited DEF HardwareInv, HardwareTyped

LEMMA WorkFacts ==
  /\ NoWork \in Collections /\ NoWork.at = "idle"
  /\ [NoWork EXCEPT !.at = "read"] \in Collections /\ [NoWork EXCEPT !.at = "read"].at = "read"
<1>1. <<>> \in [{} -> {"ok", "critical", "unknown"}]
  OBVIOUS
<1>2. <<>> \in Reports
  BY <1>1 DEF Reports
<1>. QED BY <1>2 DEF NoWork, Collections

LEMMA DoneFacts ==
  ASSUME HardwareTyped, NEW s \in HwSlots, NEW b \in Blades
  PROVE  PartDone(s, b) \in Collections /\ PartDone(s, b).at = "part"
<1>. DEFINE w == hwWork[s][b]
            q == Part(s, b)
<1>1. w \in Collections
  BY DEF HardwareTyped
<1>. HIDE DEF w, q
<1>2. [w EXCEPT !.at = "part", !.todo = @ \ {q}] \in Collections
  BY <1>1 DEF Collections
<1>3. [w EXCEPT !.at = "part", !.todo = @ \ {q}].at = "part"
  BY <1>1 DEF Collections
<1>4. PartDone(s, b) = [w EXCEPT !.at = "part", !.todo = @ \ {q}]
  BY DEF PartDone, w, q
<1>. QED BY <1>2, <1>3, <1>4

\* Reports of a controller are of the type.
LEMMA ReportFacts ==
  ASSUME NEW b, NEW health, NEW power
  PROVE  LET seen == Reported(b, health, power)
         IN  [at |-> "metric", seen |-> seen, todo |-> DOMAIN seen] \in Collections
<1>. DEFINE P == (Parts \ Supplies) \cup (IF power THEN Supplies ELSE {})
            seen == Reported(b, health, power)
<1>1. P \in SUBSET Parts
  BY HardwareAssumption
<1>2. seen \in [P -> {"ok", "critical", "unknown"}]
  BY DEF Reported
<1>3. seen \in Reports
  BY <1>1, <1>2 DEF Reports
<1>4. DOMAIN seen \in SUBSET Parts
  BY <1>1, <1>2
<1>. QED BY <1>3, <1>4 DEF Collections

-----------------------------------------------------------------------------
LEMMA HardwareInitHolds ==
  ASSUME HardwareInit
  PROVE  HardwareInv
<1>1. HardwareTyped
  BY WorkFacts DEF HardwareInit, HardwareTyped, Counts
<1>2. ASSUME NEW b \in Blades, NEW p \in Parts
      PROVE  hwAlarm[b][p] + Cardinality(Awaited(hwWork, b, p)) <= 1 + crossed[b][p]
  <2>1. Awaited(hwWork, b, p) = {}
    BY WorkFacts DEF HardwareInit, Awaited
  <2>2. hwAlarm[b][p] = 0 /\ crossed[b][p] = 0
    BY DEF HardwareInit
  <2>. QED BY <2>1, <2>2, FS_EmptySet
<1>. QED BY <1>1, <1>2 DEF HardwareInv, AlarmCounted

LEMMA CountSet ==
  ASSUME NEW f \in Counts, NEW b \in Blades, NEW p, NEW n, p \in Parts => n \in Nat
  PROVE  [f EXCEPT ![b][p] = n] \in Counts
<1>1. CASE p \in Parts
  BY <1>1 DEF Counts
<1>2. CASE p \notin Parts
  <2>1. f[b] \in [Parts -> Nat]
    BY DEF Counts
  <2>2. [f[b] EXCEPT ![p] = n] \in [Parts -> Nat]
    BY <1>2, <2>1
  <2>. QED BY <2>2 DEF Counts
<1>. QED BY <1>1, <1>2

\* A look: an alert that is there ends it; otherwise this collection is one more to
\* insert, the only one or one that has crossed another.
LEMMA LookCounted ==
  ASSUME HardwareInv, NEW s \in HwSlots, NEW b \in Blades, LookHardware(s, b)
  PROVE  HardwareInv'
<1>. DEFINE p == Part(s, b)
            new == [hwWork[s][b] EXCEPT !.at = "alarm"]
<1>0. hwAlarm' = hwAlarm /\ hwWork[s][b] \in Collections
  BY DEF LookHardware, HardwareInv, HardwareTyped
<1>1. CASE Alarmed(b, p)
  <2>1. crossed' = crossed
    BY <1>1 DEF LookHardware, HardwareInv, HardwareTyped, Counts
  <2>2. Step(s, b, PartDone(s, b))
    BY <1>1 DEF LookHardware
  <2>. QED BY <1>0, <2>1, <2>2, DoneFacts, StepElsewhere DEF HardwareInv
<1>2. CASE ~Alarmed(b, p)
  <2>1. hwWork' = [hwWork EXCEPT ![s][b] = new]
    BY <1>2 DEF LookHardware, Step
  <2>2. new \in Collections /\ new.at = "alarm" /\ new.todo = hwWork[s][b].todo
    BY <1>0 DEF Collections
  <2>3. hwWork' \in [HwSlots -> [Blades -> Collections]]
    BY <2>1, <2>2 DEF HardwareInv, HardwareTyped
  <2>4. crossed' \in Counts
    <3>. DEFINE rival == \E o \in HwSlots \ {s} : Working(o, b, "alarm") /\ Part(o, b) = p
                n == IF rival /\ ~Alarmed(b, p) THEN crossed[b][p] + 1 ELSE crossed[b][p]
    <3>1. crossed' = [crossed EXCEPT ![b][p] = n]
      BY DEF LookHardware
    <3>2. p \in Parts => crossed[b][p] \in Nat
      BY DEF HardwareInv, HardwareTyped, Counts
    <3>3. crossed \in Counts
      BY DEF HardwareInv, HardwareTyped
    <3>. HIDE DEF p, rival
    <3>4. p \in Parts => n \in Nat
      BY <3>2
    <3>. HIDE DEF n
    <3>. QED BY <3>1, <3>3, <3>4, CountSet
  <2>5. ASSUME NEW c \in Blades, NEW q \in Parts
        PROVE  hwAlarm'[c][q] + Cardinality(Awaited(hwWork', c, q)) <= 1 + crossed'[c][q]
    <3>1. /\ hwAlarm[c][q] \in Nat /\ crossed[c][q] \in Nat /\ crossed'[c][q] \in Nat
          /\ crossed[c][q] <= crossed'[c][q]
      BY <2>4 DEF LookHardware, HardwareInv, HardwareTyped, Counts
    <3>2. hwAlarm[c][q] + Cardinality(Awaited(hwWork, c, q)) <= 1 + crossed[c][q]
      BY DEF HardwareInv, AlarmCounted
    <3>3. CASE c # b \/ q # p
      <4>1. Awaited(hwWork', c, q) = Awaited(hwWork, c, q)
        <5>1. CASE c # b
          BY <2>1, <5>1 DEF Awaited, HardwareInv, HardwareTyped
        <5>2. ASSUME c = b, q # p
              PROVE  Awaited(hwWork', c, q) = Awaited(hwWork, c, q)
          <6>1. hwWork'[s][b].at = "alarm" /\ Least(hwWork'[s][b].todo) = p
            BY <2>1, <2>2 DEF Part, HardwareInv, HardwareTyped
          <6>2. hwWork[s][b].at = "look"
            BY DEF LookHardware, Working
          <6>3. \A o \in HwSlots \ {s} : hwWork'[o][b] = hwWork[o][b]
            BY <2>1 DEF HardwareInv, HardwareTyped
          <6>. HIDE DEF p
          <6>. QED BY <5>2, <6>1, <6>2, <6>3 DEF Awaited
        <5>. QED BY <3>3, <5>1, <5>2
      <4>. QED BY <1>0, <3>1, <3>2, <4>1, AwaitedFinite
    <3>4. ASSUME c = b, q = p
          PROVE  hwAlarm'[c][q] + Cardinality(Awaited(hwWork', c, q)) <= 1 + crossed'[c][q]
      <4>1. hwAlarm[b][p] = 0
        BY <1>2, <3>1, <3>4, HardwareAssumption DEF Alarmed
      <4>2. Awaited(hwWork', b, p) = Awaited(hwWork, b, p) \cup {s}
        <5>1. hwWork'[s][b].at = "alarm" /\ Least(hwWork'[s][b].todo) = p
          BY <2>1, <2>2 DEF Part, HardwareInv, HardwareTyped
        <5>2. \A o \in HwSlots \ {s} : hwWork'[o][b] = hwWork[o][b]
          BY <2>1 DEF HardwareInv, HardwareTyped
        <5>. HIDE DEF p
        <5>. QED BY <5>1, <5>2 DEF Awaited
      <4>3. s \notin Awaited(hwWork, b, p)
        BY DEF LookHardware, Working, Awaited
      <4>4. Cardinality(Awaited(hwWork', b, p)) = Cardinality(Awaited(hwWork, b, p)) + 1
        BY <4>2, <4>3, AwaitedFinite, FS_AddElement
      <4>5. CASE Awaited(hwWork, b, p) = {}
        <5>1. Cardinality(Awaited(hwWork, b, p)) = 0
          BY <4>5, FS_EmptySet
        <5>. QED BY <1>0, <3>1, <3>4, <4>1, <4>4, <5>1
      <4>6. CASE Awaited(hwWork, b, p) # {}
        <5>1. \E o \in HwSlots \ {s} : Working(o, b, "alarm") /\ Part(o, b) = p
          BY <4>3, <4>6 DEF Awaited, Working, Part
        <5>2. crossed'[b][p] = crossed[b][p] + 1
          BY <1>2, <5>1, <3>4 DEF LookHardware, HardwareInv, HardwareTyped, Counts
        <5>. HIDE DEF p
        <5>. QED BY <1>0, <3>1, <3>2, <3>4, <4>1, <4>4, <5>2, AwaitedFinite
      <4>. QED BY <4>5, <4>6
    <3>. QED BY <3>3, <3>4
  <2>. QED BY <1>0, <2>3, <2>4, <2>5 DEF HardwareInv, HardwareTyped, AlarmCounted
<1>. QED BY <1>1, <1>2

\* An insert: one alert more, one collection less that is about to insert.
LEMMA RaiseCounted ==
  ASSUME HardwareInv, NEW s \in HwSlots, NEW b \in Blades, RaiseHardware(s, b)
  PROVE  HardwareInv'
<1>. DEFINE p == Part(s, b)
            new == [hwWork[s][b] EXCEPT !.at = "send"]
<1>1. hwWork' = [hwWork EXCEPT ![s][b] = new] /\ crossed' = crossed /\ hwWork[s][b] \in Collections
  BY DEF RaiseHardware, Step, HardwareInv, HardwareTyped
<1>2. new \in Collections /\ new.at = "send"
  BY <1>1 DEF Collections
<1>3. hwWork' \in [HwSlots -> [Blades -> Collections]]
  BY <1>1, <1>2 DEF HardwareInv, HardwareTyped
<1>4. hwAlarm' \in Counts
  <2>1. hwAlarm' = [hwAlarm EXCEPT ![b][p] = hwAlarm[b][p] + 1]
    BY DEF RaiseHardware
  <2>2. hwAlarm \in Counts /\ (p \in Parts => hwAlarm[b][p] + 1 \in Nat)
    BY DEF HardwareInv, HardwareTyped, Counts
  <2>. HIDE DEF p
  <2>. QED BY <2>1, <2>2, CountSet
<1>5. ASSUME NEW c \in Blades, NEW q \in Parts
      PROVE  hwAlarm'[c][q] + Cardinality(Awaited(hwWork', c, q)) <= 1 + crossed'[c][q]
  <2>1. hwAlarm[c][q] \in Nat /\ crossed[c][q] \in Nat
    BY DEF HardwareInv, HardwareTyped, Counts
  <2>2. hwAlarm[c][q] + Cardinality(Awaited(hwWork, c, q)) <= 1 + crossed[c][q]
    BY DEF HardwareInv, AlarmCounted
  <2>3. Awaited(hwWork', c, q) \subseteq Awaited(hwWork, c, q)
    BY <1>1, <1>2 DEF Awaited, HardwareInv, HardwareTyped
  <2>4. Cardinality(Awaited(hwWork', c, q)) <= Cardinality(Awaited(hwWork, c, q))
    BY <2>3, AwaitedFinite, FS_Subset
  <2>5. CASE c # b \/ q # p
    <3>1. hwAlarm'[c][q] = hwAlarm[c][q]
      BY <2>5 DEF RaiseHardware, HardwareInv, HardwareTyped, Counts
    <3>. QED BY <1>1, <2>1, <2>2, <2>4, <3>1, AwaitedFinite
  <2>6. ASSUME c = b, q = p
        PROVE  hwAlarm'[c][q] + Cardinality(Awaited(hwWork', c, q)) <= 1 + crossed'[c][q]
    <3>1. hwAlarm'[b][p] = hwAlarm[b][p] + 1
      BY <2>6 DEF RaiseHardware, HardwareInv, HardwareTyped, Counts
    <3>2. s \in Awaited(hwWork, b, p)
      BY DEF RaiseHardware, Working, Awaited, Part
    <3>3. Awaited(hwWork', b, p) \subseteq Awaited(hwWork, b, p) \ {s}
      <4>1. hwWork'[s][b].at = "send"
        BY <1>1, <1>2 DEF HardwareInv, HardwareTyped
      <4>. QED BY <2>3, <2>6, <4>1 DEF Awaited
    <3>4. Cardinality(Awaited(hwWork', b, p)) <= Cardinality(Awaited(hwWork, b, p)) - 1
      <4>1. /\ IsFiniteSet(Awaited(hwWork, b, p) \ {s})
            /\ Cardinality(Awaited(hwWork, b, p) \ {s}) = Cardinality(Awaited(hwWork, b, p)) - 1
        BY <3>2, AwaitedFinite, FS_RemoveElement
      <4>2. Cardinality(Awaited(hwWork', b, p)) <= Cardinality(Awaited(hwWork, b, p) \ {s})
        BY <3>3, <4>1, FS_Subset
      <4>. QED BY <4>1, <4>2
    <3>. HIDE DEF p
    <3>. QED BY <1>1, <2>1, <2>2, <2>6, <3>1, <3>4, AwaitedFinite
  <2>. QED BY <2>5, <2>6
<1>. QED BY <1>1, <1>3, <1>4, <1>5 DEF HardwareInv, HardwareTyped, AlarmCounted

\* A POST begins in a free slot, or ends before it has read a controller: nothing of
\* its slot is about to insert.
LEMMA SlotCounted ==
  ASSUME HardwareInv, NEW s \in HwSlots, NEW of, NEW new \in Collections, new.at # "alarm",
         hwWork' = [hwWork EXCEPT ![s] = [b \in Blades |-> IF b \in of THEN new ELSE NoWork]],
         hwAlarm' = hwAlarm, crossed' = crossed
  PROVE  HardwareInv'
<1>1. hwWork' \in [HwSlots -> [Blades -> Collections]]
  BY WorkFacts DEF HardwareInv, HardwareTyped
<1>2. \A b \in Blades : hwWork'[s][b].at # "alarm"
  BY WorkFacts DEF HardwareInv, HardwareTyped
<1>3. \A o \in HwSlots \ {s} : hwWork'[o] = hwWork[o]
  BY DEF HardwareInv, HardwareTyped
<1>4. \A b \in Blades, p \in Parts : Awaited(hwWork', b, p) \subseteq Awaited(hwWork, b, p)
  BY <1>2, <1>3 DEF Awaited
<1>5. \A b \in Blades, p \in Parts : hwAlarm'[b][p] <= hwAlarm[b][p]
  BY DEF HardwareInv, HardwareTyped, Counts
<1>6. hwAlarm' \in Counts
  BY DEF HardwareInv, HardwareTyped
<1>. QED BY <1>1, <1>4, <1>5, <1>6, FewerAwaited

\* Steps that leave the collections alone and add no alert.
LEMMA WorkKept ==
  ASSUME HardwareInv, hwWork' = hwWork, crossed' = crossed, hwAlarm' \in Counts,
         \A b \in Blades, p \in Parts : hwAlarm'[b][p] <= hwAlarm[b][p]
  PROVE  HardwareInv'
<1>1. hwWork' \in [HwSlots -> [Blades -> Collections]]
  BY DEF HardwareInv, HardwareTyped
<1>2. \A b \in Blades, p \in Parts : Awaited(hwWork', b, p) \subseteq Awaited(hwWork, b, p)
  BY DEF Awaited
<1>. QED BY <1>1, <1>2, FewerAwaited

LEMMA NothingRaised ==
  ASSUME HardwareInv, hwWork' = hwWork, crossed' = crossed, hwAlarm' = hwAlarm
  PROVE  HardwareInv'
<1>1. hwAlarm' \in Counts /\ \A b \in Blades, p \in Parts : hwAlarm'[b][p] <= hwAlarm[b][p]
  BY DEF HardwareInv, HardwareTyped, Counts
<1>. QED BY <1>1, WorkKept

-----------------------------------------------------------------------------
\* The steps of a collection for one server.
LEMMA CollectCounted ==
  ASSUME HardwareInv, NEW s \in HwSlots, NEW b \in Blades, CollectStep(s, b) \/ CollectFails(s, b)
  PROVE  HardwareInv'
<1>. DEFINE w == hwWork[s][b]
<1>0. w \in Collections
  BY DEF HardwareInv, HardwareTyped
<1>1. ASSUME NEW health \in BOOLEAN, NEW power \in BOOLEAN, ReadController(s, b, health, power)
      PROVE  HardwareInv'
  <2>. DEFINE seen == Reported(b, health, power)
              new == [at |-> "metric", seen |-> seen, todo |-> DOMAIN seen]
  <2>1. new \in Collections /\ new.at # "alarm"
    BY ReportFacts
  <2>2. Step(s, b, new) /\ hwAlarm' = hwAlarm /\ crossed' = crossed
    BY <1>1 DEF ReadController, Stored
  <2>. HIDE DEF new
  <2>. QED BY <2>1, <2>2, StepElsewhere
<1>2. CASE StoreMetric(s, b)
  <2>. DEFINE new == [w EXCEPT !.at = "part"]
  <2>1. new \in Collections /\ new.at # "alarm"
    BY <1>0 DEF Collections
  <2>2. Step(s, b, new) /\ hwAlarm' = hwAlarm /\ crossed' = crossed
    BY <1>2 DEF StoreMetric, Stored
  <2>. HIDE DEF new
  <2>. QED BY <2>1, <2>2, StepElsewhere
<1>3. CASE StorePart(s, b)
  <2>. DEFINE new == IF w.seen[Part(s, b)] = "critical"
                       THEN [w EXCEPT !.at = "look"] ELSE PartDone(s, b)
  <2>1. [w EXCEPT !.at = "look"] \in Collections /\ [w EXCEPT !.at = "look"].at = "look"
    BY <1>0 DEF Collections
  <2>2. PartDone(s, b) \in Collections /\ PartDone(s, b).at = "part"
    BY DoneFacts DEF HardwareInv
  <2>3. new \in Collections /\ new.at # "alarm"
    BY <2>1, <2>2
  <2>4. Step(s, b, new) /\ hwAlarm' = hwAlarm /\ crossed' = crossed
    BY <1>3 DEF StorePart
  <2>. HIDE DEF new
  <2>. QED BY <2>3, <2>4, StepElsewhere
<1>4. CASE LookHardware(s, b)
  BY <1>4, LookCounted
<1>5. CASE RaiseHardware(s, b)
  BY <1>5, RaiseCounted
<1>6. CASE SendHardware(s, b)
  <2>1. Step(s, b, PartDone(s, b)) /\ hwAlarm' = hwAlarm /\ crossed' = crossed
    BY <1>6 DEF SendHardware, Stored
  <2>. QED BY <2>1, DoneFacts, StepElsewhere DEF HardwareInv
<1>7. CASE EndCollect(s, b) \/ CollectFails(s, b)
  <2>1. Step(s, b, NoWork) /\ hwAlarm' = hwAlarm /\ crossed' = crossed
    BY <1>7 DEF EndCollect, CollectFails, Stored
  <2>. QED BY <2>1, WorkFacts, StepElsewhere
<1>. QED BY <1>1, <1>2, <1>3, <1>4, <1>5, <1>6, <1>7 DEF CollectStep

LEMMA PostCounted ==
  ASSUME HardwareInv, NEW s \in HwSlots, NEW by, NEW all, NEW of, Post(s, by, all, of)
  PROVE  HardwareInv'
<1>. DEFINE new == [NoWork EXCEPT !.at = "read"]
<1>1. new \in Collections /\ new.at # "alarm"
  BY WorkFacts
<1>2. /\ hwWork' = [hwWork EXCEPT ![s] = [b \in Blades |-> IF b \in of THEN new ELSE NoWork]]
      /\ hwAlarm' = hwAlarm /\ crossed' = crossed
  BY DEF Post, Stored
<1>. HIDE DEF new
<1>. QED BY <1>1, <1>2, SlotCounted

LEMMA HardwareStepHolds ==
  ASSUME HardwareInv, [HardwareNext]_hardwareVars
  PROVE  HardwareInv'
<1>1. ASSUME NEW l \in hwLoads, NEW ok \in BOOLEAN, CardArrives(l, ok)
      PROVE  HardwareInv'
  BY <1>1, NothingRaised DEF CardArrives, Stored
<1>2. ASSUME NEW b \in Blades, ExpandCard(b)
      PROVE  HardwareInv'
  BY <1>2, NothingRaised DEF ExpandCard, Stored
<1>3. ASSUME NEW b \in Blades, NEW p \in Parts, Wear(b, p)
      PROVE  HardwareInv'
  BY <1>3, NothingRaised DEF Wear
<1>4. ASSUME NEW b \in Blades, NEW p \in Parts, HandleHardware(b, p)
      PROVE  HardwareInv'
  <2>1. hwWork' = hwWork /\ crossed' = crossed
    BY <1>4 DEF HandleHardware
  <2>2. hwAlarm' = [hwAlarm EXCEPT ![b][p] = @ - 1] /\ hwAlarm[b][p] > 0
    BY <1>4 DEF HandleHardware
  <2>3. hwAlarm' \in Counts /\ \A c \in Blades, q \in Parts : hwAlarm'[c][q] <= hwAlarm[c][q]
    BY <2>2 DEF HardwareInv, HardwareTyped, Counts
  <2>. QED BY <2>1, <2>3, WorkKept
<1>5. ASSUME NEW s \in HwSlots, NEW b \in Blades,
             CollectCard(s, b) \/ CollectStep(s, b) \/ CollectFails(s, b)
      PROVE  HardwareInv'
  BY <1>5, PostCounted, CollectCounted DEF CollectCard
<1>6. ASSUME NEW s \in HwSlots, CollectAll(s)
      PROVE  HardwareInv'
  BY <1>6, PostCounted DEF CollectAll
<1>7. ASSUME NEW s \in HwSlots, CollectRefused(s)
      PROVE  HardwareInv'
  <2>1. hwWork' = [hwWork EXCEPT ![s] = [b \in Blades |-> IF b \in {} THEN NoWork ELSE NoWork]]
    BY <1>7 DEF CollectRefused
  <2>2. hwAlarm' = hwAlarm /\ crossed' = crossed
    BY <1>7 DEF CollectRefused, Stored
  <2>. QED BY <2>1, <2>2, WorkFacts, SlotCounted
<1>8. ASSUME NEW s \in HwSlots, CollectAnswer(s) \/ CollectLost(s)
      PROVE  HardwareInv'
  BY <1>8, NothingRaised DEF CollectAnswer, CollectLost, Stored
<1>9. CASE UNCHANGED hardwareVars
  BY <1>9, NothingRaised DEF hardwareVars
<1>. QED BY <1>1, <1>2, <1>3, <1>4, <1>5, <1>6, <1>7, <1>8, <1>9 DEF HardwareNext

LEMMA HardwareAlarmsAreFew == HardwareInv => FewHardwareAlarms
<1>. SUFFICES ASSUME HardwareInv, NEW b \in Blades, NEW p \in Parts
              PROVE  hwAlarm[b][p] <= 1 + crossed[b][p]
  BY DEF FewHardwareAlarms
<1>1. hwAlarm[b][p] + Cardinality(Awaited(hwWork, b, p)) <= 1 + crossed[b][p]
  BY DEF HardwareInv, AlarmCounted
<1>2. hwAlarm[b][p] \in Nat /\ crossed[b][p] \in Nat
  BY DEF HardwareInv, HardwareTyped, Counts
<1>. QED BY <1>1, <1>2, AwaitedFinite

\* A component has at most one active alert more than collections of its server have
\* crossed, however many are at work: the two statements of route.ts:117 and 124 cost a
\* duplicate only where another collection stands between them.
THEOREM HardwareAlarmsBounded == HardwareSpec => []FewHardwareAlarms
<1>1. DeskInit /\ HardwareInit => HardwareInv
  BY HardwareInitHolds
<1>2. HardwareInv /\ [HardwareNext]_<<hardwareVars, deskVars>> => HardwareInv'
  BY HardwareStepHolds DEF hardwareVars
<1>3. HardwareInv => FewHardwareAlarms
  BY HardwareAlarmsAreFew
<1>. QED BY <1>1, <1>2, <1>3, PTL DEF HardwareSpec

-----------------------------------------------------------------------------
(* The types.  The invariants above type what the promises rest on; here   *)
(* are the other variables of each area.                                   *)

LEMMA AccountTypeHolds == AccountInv => AccountTypeOK
  BY DEF AccountInv, AccountTyped, AccountTypeOK, Shown, Creations

-----------------------------------------------------------------------------
\* What the promises of the outage watch do not need: its alerts and messages.
IncidentRest ==
  /\ alarms \in [Boxes -> Nat]
  /\ paged \in [Boxes -> {"none", "sent", "failed"}]
  /\ incPage.open \in IncidentIds \cup {Nil}

LEMMA IncidentRestInit == IncidentInit => IncidentRest
  BY DEF IncidentInit, IncidentRest

LEMMA IncidentRestStep == IncidentInv /\ IncidentRest /\ [IncidentNext]_incidentVars => IncidentRest'
<1>. SUFFICES ASSUME IncidentInv, IncidentRest, [IncidentNext]_incidentVars PROVE IncidentRest'
  OBVIOUS
<1>1. incPage \in [shown : [IncidentIds -> ShownRows], only : {incPage.only},
                   loading : {incPage.loading}, open : {incPage.open}, draft : Causes,
                   lines : {incPage.lines}, form : {incPage.form}]
  BY DEF IncidentInv, PageShows, ShowsRows
<1>2. \A c \in Checks : /\ check[c].box \in Boxes \cup {Nil}
                        /\ check[c].todo \subseteq Boxes
                        /\ check[c].at \notin {"idle", "down", "up"} => check[c].box \in Boxes
  BY DEF IncidentInv, IncidentTyped, Fits, OutageWorks
<1>3. \A page, i : LoadThen(page, i) => incPage' = [page EXCEPT !.loading = TRUE]
  BY DEF LoadThen
<1>4. CASE UNCHANGED <<alarms, paged, incPage>>
  BY <1>4 DEF IncidentRest
<1>5. ASSUME NEW c \in Checks, CheckStep(c) PROVE IncidentRest'
  <2>1. ASSUME RaiseAlarm(c) PROVE IncidentRest'
    <3>1. check[c].box \in Boxes
      BY <1>2, <2>1 DEF RaiseAlarm, At
    <3>. QED BY <2>1, <3>1 DEF RaiseAlarm, OffPage, IncidentRest
  <2>2. ASSUME NEW status \in {"sent", "failed"}, SendAlert(c, status) PROVE IncidentRest'
    BY <2>2 DEF SendAlert, OffPage, IncidentRest
  <2>3. ASSUME ResolveAlarms(c) PROVE IncidentRest'
    <3>1. PICK b \in check[c].todo : alarms' = [alarms EXCEPT ![b] = 0]
      BY <2>3 DEF ResolveAlarms
    <3>2. alarms' \in [Boxes -> Nat]
      BY <1>2, <3>1 DEF IncidentRest
    <3>. QED BY <2>3, <3>2 DEF ResolveAlarms, OffPage, IncidentRest
  <2>4. ASSUME \/ ClaimOffline(c) \/ LookAlarm(c) \/ LookIncident(c) \/ OpenIncident(c)
               \/ NoteOpened(c) \/ ReadOnline(c) \/ FindIncident(c) \/ CloseIncident(c)
               \/ NoteRecovery(c) \/ EndCheck(c)
        PROVE  IncidentRest'
    BY <1>4, <2>4 DEF ClaimOffline, LookAlarm, LookIncident, OpenIncident, NoteOpened, ReadOnline,
       FindIncident, CloseIncident, NoteRecovery, EndCheck, OffPage
  <2>. QED BY <1>5, <2>1, <2>2, <2>3, <2>4 DEF CheckStep
<1>6. ASSUME \/ \E c \in Checks : CheckFails(c)
             \/ \E b \in Boxes : Heartbeat(b) \/ GoesQuiet(b) \/ PollRefused(b)
             \/ \E i \in IncidentIds : AssignIncident(i) \/ DeleteIncident(i)
             \/ UNCHANGED incidentVars
      PROVE  IncidentRest'
  BY <1>4, <1>6 DEF CheckFails, Heartbeat, GoesQuiet, PollRefused, Watched, AssignIncident,
     DeleteIncident, OffCheck, incidentVars
<1>7. ASSUME NEW b \in Boxes, HandleAlarm(b) PROVE IncidentRest'
  BY <1>7 DEF HandleAlarm, IncidentRest
<1>8. ASSUME UNCHANGED <<alarms, paged>>, incPage'.open = incPage.open PROVE IncidentRest'
  BY <1>8 DEF IncidentRest
<1>9. ASSUME IncRefresh \/ ToggleNew \/ CreateIncident \/ EditDraft PROVE IncidentRest'
  BY <1>1, <1>3, <1>8, <1>9 DEF IncRefresh, ToggleNew, CreateIncident, EditDraft, OffCheck
<1>10. ASSUME NEW status \in Statuses, ToggleFilter(status) PROVE IncidentRest'
  <2>1. PICK v : incPage' = [[incPage EXCEPT !.only = v] EXCEPT !.loading = TRUE]
    BY <1>3, <1>10 DEF ToggleFilter
  <2>. QED BY <1>1, <1>8, <1>10, <2>1 DEF ToggleFilter, OffCheck
<1>11. ASSUME NEW l \in incLoads, ListArrives(l) \/ LinesArrive(l) PROVE IncidentRest'
  BY <1>1, <1>8, <1>11 DEF ListArrives, LinesArrive, OffCheck
<1>12. ASSUME NEW i \in IncidentIds, Expand(i) PROVE IncidentRest'
  <2>1. \/ incPage' = [incPage EXCEPT !.open = Nil]
        \/ incPage' = [incPage EXCEPT !.open = i, !.draft = incPage.shown[i].cause]
    BY <1>12 DEF Expand
  <2>2. incPage'.open \in {Nil, i}
    BY <1>1, <2>1
  <2>. QED BY <1>12, <2>2 DEF Expand, OffCheck, IncidentRest
<1>13. ASSUME NEW i \in IncidentIds,
              SendComment(i) \/ SaveDetail(i) \/ \E logged \in BOOLEAN : PatchStatus(i, logged)
       PROVE  IncidentRest'
  <2>1. \E row : Patch(i, row)
    BY <1>13 DEF SendComment, SaveDetail, PatchStatus
  <2>2. incPage' = [incPage EXCEPT !.loading = TRUE] /\ OffCheck
    BY <1>3, <2>1 DEF Patch
  <2>. QED BY <1>1, <1>8, <2>2 DEF OffCheck
<1>. QED BY <1>5, <1>6, <1>7, <1>9, <1>10, <1>11, <1>12, <1>13 DEF IncidentNext

LEMMA IncidentTypeHolds == IncidentInv /\ IncidentRest => IncidentTypeOK
  BY DEF IncidentInv, IncidentRest, IncidentTyped, Fits, OutageWorks, Has, IncidentTypeOK

-----------------------------------------------------------------------------
\* The rows of checks: one stays once it is there, inactive when it is deleted.
Kept(S) == \A k \in S : k \in SvcIds /\ svc[k] # Nil
ServiceRest ==
  /\ svc \in [SvcIds -> SvcRows \cup {Nil}]
  /\ svcPage \in [shown : SUBSET SvcIds, add : BOOLEAN, saving : BOOLEAN]
  /\ Kept(due) /\ Kept(svcPage.shown) /\ \A rows \in svcLoads : Kept(rows)

LEMMA ServiceRestInit == ServiceInit => ServiceRest
<1>. SUFFICES ASSUME ServiceInit PROVE ServiceRest
  OBVIOUS
<1>1. PICK k \in SvcIds, row \in CheckRows : svc = [j \in SvcIds |-> IF j = k THEN row ELSE Nil]
  BY DEF ServiceInit
<1>2. Kept(ActiveSvc) /\ ActiveSvc \subseteq SvcIds
  BY DEF Kept, ActiveSvc
<1>. QED BY <1>1, <1>2 DEF ServiceInit, ServiceRest, CheckRows, Kept

LEMMA ServiceRestStep == ServiceRest /\ [ServiceNext]_serviceVars => ServiceRest'
<1>. SUFFICES ASSUME ServiceRest, [ServiceNext]_serviceVars PROVE ServiceRest'
  OBVIOUS
<1>0. svc \in [SvcIds -> SvcRows \cup {Nil}] /\ \A row \in SvcRows : row # Nil
  BY ServiceAssumption DEF ServiceRest
<1>1. svcPage \in [shown : SUBSET SvcIds, add : BOOLEAN, saving : BOOLEAN]
  BY DEF ServiceRest
<1>2. ASSUME svc' = svc PROVE \A S : Kept(S) => Kept(S)'
  BY <1>2 DEF Kept
<1>3. ASSUME UNCHANGED <<svc, svcPage, svcLoads>>, due' \subseteq due PROVE ServiceRest'
  BY <1>3 DEF ServiceRest, Kept
<1>4. ASSUME StartProbes PROVE ServiceRest'
  <2>1. Kept(ActiveSvc)
    BY DEF Kept, ActiveSvc
  <2>. QED BY <1>4, <2>1 DEF StartProbes, KeepsPage, ServiceRest, Kept
<1>5. ASSUME NEW k \in SvcIds, ServiceFlips(k) \/ ProbeStep(k) \/ ProbeFails(k) PROVE ServiceRest'
  BY <1>3, <1>5 DEF ServiceFlips, ProbeStep, Probe, RaiseSvcAlarm, ResolveSvcAlarms, ProbeFails, KeepsPage
<1>6. ASSUME SvcLoad, svc' \in [SvcIds -> SvcRows \cup {Nil}], \A S : Kept(S) => Kept(S)'
      PROVE  \A rows \in svcLoads' : Kept(rows)'
  BY <1>6 DEF SvcLoad, ServiceRest, Kept
<1>7. ASSUME SvcRefresh PROVE ServiceRest'
  BY <1>0, <1>2, <1>6, <1>7 DEF SvcRefresh, KeepsRun, ServiceRest
<1>8. ASSUME ToggleAdd PROVE ServiceRest'
  BY <1>1, <1>8 DEF ToggleAdd, KeepsRun, ServiceRest, Kept
<1>9. ASSUME NEW rows \in svcLoads, SvcArrives(rows) PROVE ServiceRest'
  <2>1. Kept(rows) /\ rows \in SUBSET SvcIds
    BY DEF ServiceRest, Kept
  <2>2. svcPage' \in [shown : SUBSET SvcIds, add : BOOLEAN, saving : BOOLEAN] /\ svcPage'.shown = rows
    BY <1>1, <1>9, <2>1 DEF SvcArrives
  <2>. QED BY <1>9, <2>1, <2>2 DEF SvcArrives, KeepsRun, ServiceRest, Kept
<1>10. ASSUME NEW row \in CheckRows, AddCheck(row) PROVE ServiceRest'
  <2>1. PICK k \in SvcIds : NextId(k) /\ svc' = [svc EXCEPT ![k] = row]
    BY <1>10 DEF AddCheck
  <2>2. svc' \in [SvcIds -> SvcRows \cup {Nil}] /\ \A S : Kept(S) => Kept(S)'
    BY <1>0, <2>1 DEF CheckRows, Kept
  <2>3. svcPage' \in [shown : SUBSET SvcIds, add : BOOLEAN, saving : BOOLEAN]
        /\ svcPage'.shown = svcPage.shown
    BY <1>1, <1>10 DEF AddCheck
  <2>4. due' = due /\ SvcLoad
    BY <1>10 DEF AddCheck, KeepsRun
  <2>. QED BY <1>6, <2>2, <2>3, <2>4 DEF ServiceRest, Kept
<1>11. ASSUME NEW k \in SvcIds, DeleteCheck(k) PROVE ServiceRest'
  <2>1. svc[k] \in SvcRows /\ svc' = [svc EXCEPT ![k].active = FALSE]
    BY <1>0, <1>11 DEF DeleteCheck, ServiceRest, Kept
  <2>2. [svc[k] EXCEPT !.active = FALSE] \in SvcRows
    BY <2>1 DEF SvcRows
  <2>3. svc' \in [SvcIds -> SvcRows \cup {Nil}] /\ \A S : Kept(S) => Kept(S)'
    BY <1>0, <2>1, <2>2 DEF Kept
  <2>4. svcPage' \in [shown : SUBSET SvcIds, add : BOOLEAN, saving : BOOLEAN]
        /\ svcPage'.shown \subseteq svcPage.shown
    BY <1>1, <1>11 DEF DeleteCheck
  <2>5. due' = due /\ svcLoads' = svcLoads
    BY <1>11 DEF DeleteCheck, KeepsRun
  <2>. QED BY <2>3, <2>4, <2>5 DEF ServiceRest, Kept
<1>12. ASSUME NEW h \in SvcHosts, NEW n \in Names, HandleSvcAlarm(h, n) PROVE ServiceRest'
  BY <1>3, <1>12 DEF HandleSvcAlarm, KeepsRun
<1>13. CASE UNCHANGED serviceVars
  BY <1>3, <1>13 DEF serviceVars
<1>. QED BY <1>4, <1>5, <1>7, <1>8, <1>9, <1>10, <1>11, <1>12, <1>13 DEF ServiceNext

LEMMA ServiceTypeHolds == AlarmsCounted /\ ServiceRest => ServiceTypeOK
  BY DEF AlarmsCounted, ServiceRest, Kept, ServiceTypeOK

-----------------------------------------------------------------------------
\* The rows of rules, in the table and on their page, and the readings.
RuleTable == [RuleIds -> [asset : Gauges \cup {Nil}, kind : Types \cup {Nil}, op : {">", "<="},
                          level : Levels, via : ChannelSets, active : BOOLEAN] \cup {Nil}]
RuleRest ==
  /\ rule \in RuleTable /\ rulePage.shown \in RuleTable
  /\ DOMAIN rulePage = {"shown", "form", "id"}
  /\ reading \in [Gauges -> Readings \cup {Nil}]

LEMMA RuleRestInit == RuleInit => RuleRest
<1>. SUFFICES ASSUME RuleInit PROVE RuleRest
  OBVIOUS
<1>1. EmptyRule \in RuleRows
  BY RuleAssumption DEF EmptyRule, RuleRows
<1>2. rule \in RuleTable
  BY <1>1 DEF RuleInit, RuleTable, RuleRows
<1>. QED BY <1>2 DEF RuleInit, RuleRest

LEMMA RuleRestStep == RuleRest /\ [RuleNext]_ruleVars => RuleRest'
<1>. SUFFICES ASSUME RuleRest, [RuleNext]_ruleVars PROVE RuleRest'
  OBVIOUS
<1>0. rule \in RuleTable /\ rulePage.shown \in RuleTable
  BY DEF RuleRest
<1>1. CASE UNCHANGED <<rule, rulePage, reading>>
  BY <1>1 DEF RuleRest
<1>2. ASSUME NEW g \in Gauges, NEW v \in Readings \cup {Nil}, Measure(g, v) PROVE RuleRest'
  BY <1>2 DEF Measure, KeepsPages, RuleRest
<1>3. ASSUME NEW n \in NoticeIds, CooldownPasses(n) PROVE RuleRest'
  BY <1>1, <1>3 DEF CooldownPasses, KeepsPages
<1>4. ASSUME NEW e \in Evals, EvalStep(e) \/ EvalFails(e) PROVE RuleRest'
  BY <1>1, <1>4 DEF EvalStep, EvalFails, StartEval, TakePair, InsertNotice, NextPair, Notify, KeepsPages
<1>5. CASE AlertPageNext
  BY <1>1, <1>5 DEF AlertPageNext, PickAll, FilterAlerts, PickAlert, SingleAction, BulkAction, KeepsRules
<1>6. ASSUME rule' \in RuleTable, reading' = reading, NEW form, NEW id, RulePage(form, id)
      PROVE  RuleRest'
  BY <1>6 DEF RulePage, RuleRest
<1>7. CASE RuleRefresh
  BY <1>0, <1>6, <1>7 DEF RuleRefresh, KeepsEval
<1>8. ASSUME NEW r \in RuleIds \cup {Nil}, EditRule(r) PROVE RuleRest'
  BY <1>8 DEF EditRule, KeepsEval, RuleRest
<1>9. CASE CancelRule
  BY <1>9 DEF CancelRule, KeepsEval, RuleRest
<1>10. ASSUME NEW row \in RuleRows, SaveRule(row) PROVE RuleRest'
  <2>1. \/ \E x \in RuleIds : rule' = [rule EXCEPT ![x] = row]
        \/ rule' = [rule EXCEPT ![rulePage.id] =
             IF @ = Nil THEN Nil ELSE [row EXCEPT !.active = rule[rulePage.id].active]]
    BY <1>10 DEF SaveRule
  <2>2. CASE \E x \in RuleIds : rule' = [rule EXCEPT ![x] = row]
    <3>1. rule' \in RuleTable
      BY <1>0, <2>2 DEF RuleTable, RuleRows
    <3>. QED BY <1>6, <1>10, <3>1 DEF SaveRule, KeepsEval
  <2>3. CASE rule' = [rule EXCEPT ![rulePage.id] =
             IF @ = Nil THEN Nil ELSE [row EXCEPT !.active = rule[rulePage.id].active]]
    <3>1. rule' \in RuleTable
      BY <1>0, <2>3 DEF RuleTable, RuleRows
    <3>. QED BY <1>6, <1>10, <3>1 DEF SaveRule, KeepsEval
  <2>. QED BY <2>1, <2>2, <2>3
<1>11. ASSUME NEW r \in RuleIds, ToggleRule(r) PROVE RuleRest'
  <2>1. PICK b \in BOOLEAN : rule' = [rule EXCEPT ![r] =
                                         IF @ = Nil THEN Nil ELSE [@ EXCEPT !.active = b]]
    <3>1. CASE rulePage.shown[r].active
      BY <1>11, <3>1 DEF ToggleRule
    <3>2. CASE ~rulePage.shown[r].active
      BY <1>11, <3>2 DEF ToggleRule
    <3>. QED BY <3>1, <3>2
  <2>2. rule' \in RuleTable
    BY <1>0, <2>1 DEF RuleTable
  <2>. QED BY <1>6, <1>11, <2>2 DEF ToggleRule, KeepsEval
<1>12. ASSUME NEW r \in RuleIds, DeleteRule(r) PROVE RuleRest'
  <2>1. rule' \in RuleTable
    BY <1>0, <1>12 DEF DeleteRule, RuleTable
  <2>. QED BY <1>6, <1>12, <2>1 DEF DeleteRule, KeepsEval
<1>13. CASE UNCHANGED ruleVars
  BY <1>1, <1>13 DEF ruleVars
<1>. QED BY <1>2, <1>3, <1>4, <1>5, <1>7, <1>8, <1>9, <1>10, <1>11, <1>12, <1>13 DEF RuleNext, RulePageNext

LEMMA RuleTypeHolds == RuleInv /\ RuleRest => RuleTypeOK
<1>. SUFFICES ASSUME RuleInv, RuleRest PROVE RuleTypeOK
  OBVIOUS
<1>1. \A n \in NoticeIds : notice[n] # Nil => notice[n] \in Notices
  BY DEF RuleInv, RuleTyped
<1>2. \A e \in Evals : eval[e].at \in {"idle", "look", "insert", "send"}
  BY DEF RuleInv, RuleTyped, Runs
<1>3. alertPage.picked \subseteq {n \in NoticeIds : notice[n] # Nil}
  BY NilIsNoNotice DEF RuleInv, RuleTyped, Pages, Found
<1>4. \A r \in RuleIds : rule[r] # Nil => [rule[r] EXCEPT !.active = TRUE] \in RuleRows
  BY DEF RuleRest, RuleTable, RuleRows
<1>. QED BY <1>1, <1>2, <1>3, <1>4 DEF RuleInv, RuleTyped, RuleRest, RuleTypeOK

-----------------------------------------------------------------------------
\* What controllers say and what is stored of it; who asked for a collection.
Healths == [Blades -> [Parts -> {Nil, "ok", "critical", "unknown"}]]
HardwareRest ==
  /\ worn \in [Blades -> SUBSET Parts]
  /\ hwHealth \in Healths
  /\ hwCall \in [HwSlots -> [by : Blades \cup {Nil}, all : BOOLEAN, of : SUBSET Blades]]
  /\ \A s \in HwSlots, b \in Blades :
       \A p \in hwWork[s][b].todo : hwWork[s][b].seen[p] \in {"ok", "critical", "unknown"}
Reads(w) == \A p \in w.todo : w.seen[p] \in {"ok", "critical", "unknown"}

LEMMA HardwareRestInit == HardwareInit => HardwareRest
<1>. SUFFICES ASSUME HardwareInit PROVE HardwareRest
  OBVIOUS
<1>1. \A s \in HwSlots, b \in Blades : hwWork[s][b].todo = {}
  BY DEF HardwareInit, NoWork
<1>. QED BY <1>1 DEF HardwareInit, HardwareRest, Healths, NoCall

\* One collection moves on.
LEMMA HardwareRestMoves ==
  ASSUME HardwareInv, HardwareRest, NEW s \in HwSlots, NEW b \in Blades, NEW new,
         Step(s, b, new), Reads(new), worn' = worn, hwCall' = hwCall, hwHealth' \in Healths
  PROVE  HardwareRest'
<1>1. hwWork \in [HwSlots -> [Blades -> Collections]] /\ hwWork' = [hwWork EXCEPT ![s][b] = new]
  BY DEF HardwareInv, HardwareTyped, Step
<1>2. \A o \in HwSlots, c \in Blades : hwWork'[o][c] \in {hwWork[o][c], new}
  BY <1>1
<1>3. \A o \in HwSlots, c \in Blades : Reads(hwWork[o][c])
  BY DEF HardwareRest, Reads
<1>4. \A o \in HwSlots, c \in Blades : Reads(hwWork'[o][c])
  BY <1>2, <1>3
<1>. QED BY <1>4 DEF HardwareRest, Reads

LEMMA CollectRest ==
  ASSUME HardwareInv, HardwareRest, NEW s \in HwSlots, NEW b \in Blades,
         CollectStep(s, b) \/ CollectFails(s, b)
  PROVE  HardwareRest'
<1>. DEFINE w == hwWork[s][b]
<1>1. w \in Collections /\ Reads(w)
  BY DEF HardwareInv, HardwareTyped, HardwareRest, Reads
<1>2. \A at : Reads([w EXCEPT !.at = at])
  BY <1>1 DEF Reads, Collections
<1>3. \A at, p : Reads([w EXCEPT !.at = at, !.todo = @ \ {p}])
  BY <1>1 DEF Reads, Collections
<1>4. Reads(NoWork)
  BY DEF Reads, NoWork
<1>5. Reads(PartDone(s, b))
  BY <1>3 DEF PartDone
<1>6. ASSUME NEW health \in BOOLEAN, NEW power \in BOOLEAN, ReadController(s, b, health, power)
      PROVE  HardwareRest'
  <2>. DEFINE seen == Reported(b, health, power)
  <2>1. \A p \in DOMAIN seen : seen[p] \in {"ok", "critical", "unknown"}
    BY DEF Reported
  <2>. HIDE DEF seen
  <2>2. Reads([at |-> "metric", seen |-> seen, todo |-> DOMAIN seen])
    BY <2>1 DEF Reads
  <2>. QED BY <1>6, <2>2, HardwareRestMoves DEF ReadController, Stored, Offstage, HardwareRest, seen
<1>7. CASE StorePart(s, b)
  <2>. DEFINE new == IF w.seen[Part(s, b)] = "critical" THEN [w EXCEPT !.at = "look"] ELSE PartDone(s, b)
  <2>1. Reads(new)
    BY <1>2, <1>5
  <2>2. Part(s, b) \in w.todo
    <3>1. w.todo \in SUBSET Nat /\ w.todo # {}
      BY <1>1, <1>7, HardwareAssumption DEF StorePart, Collections
    <3>2. \E x \in w.todo : \A y \in w.todo : x <= y
      BY <3>1, LeastId
    <3>. QED BY <3>2 DEF Part, Least
  <2>3. w.seen[Part(s, b)] \in {"ok", "critical", "unknown"}
    BY <1>1, <2>2 DEF Reads
  <2>4. hwHealth' = [hwHealth EXCEPT ![b][Part(s, b)] = w.seen[Part(s, b)]]
        /\ Step(s, b, new) /\ worn' = worn /\ hwCall' = hwCall
    BY <1>7 DEF StorePart, Offstage
  <2>5. hwHealth' \in Healths
    BY <2>3, <2>4 DEF HardwareRest, Healths
  <2>. HIDE DEF new
  <2>. QED BY <2>1, <2>4, <2>5, HardwareRestMoves
<1>8. CASE LookHardware(s, b)
  <2>. DEFINE p == Part(s, b)
              new == IF Alarmed(b, p) THEN PartDone(s, b) ELSE [w EXCEPT !.at = "alarm"]
  <2>1. Reads(new)
    BY <1>2, <1>5
  <2>2. Step(s, b, new) /\ UNCHANGED <<worn, hwHealth, hwCall>>
    BY <1>8 DEF LookHardware, Offstage
  <2>. HIDE DEF new
  <2>. QED BY <2>1, <2>2, HardwareRestMoves DEF HardwareRest
<1>9. CASE StoreMetric(s, b)
  BY <1>2, <1>9, HardwareRestMoves DEF StoreMetric, Stored, Offstage, HardwareRest
<1>10. CASE RaiseHardware(s, b)
  BY <1>2, <1>10, HardwareRestMoves DEF RaiseHardware, Offstage, HardwareRest
<1>11. CASE SendHardware(s, b)
  BY <1>5, <1>11, HardwareRestMoves DEF SendHardware, Stored, Offstage, HardwareRest
<1>12. CASE EndCollect(s, b) \/ CollectFails(s, b)
  BY <1>4, <1>12, HardwareRestMoves DEF EndCollect, CollectFails, Stored, Offstage, HardwareRest
<1>. QED BY <1>6, <1>7, <1>8, <1>9, <1>10, <1>11, <1>12 DEF CollectStep

LEMMA HardwareRestStep ==
  HardwareInv /\ HardwareRest /\ [HardwareNext]_hardwareVars => HardwareRest'
<1>. SUFFICES ASSUME HardwareInv, HardwareRest, [HardwareNext]_hardwareVars PROVE HardwareRest'
  OBVIOUS
<1>1. CASE UNCHANGED <<worn, hwHealth, hwCall, hwWork>>
  BY <1>1 DEF HardwareRest
<1>2. ASSUME \/ \E l \in hwLoads, ok \in BOOLEAN : CardArrives(l, ok)
             \/ \E b \in Blades : ExpandCard(b) \/ \E p \in Parts : HandleHardware(b, p)
             \/ UNCHANGED hardwareVars
      PROVE  HardwareRest'
  BY <1>1, <1>2 DEF CardArrives, ExpandCard, HandleHardware, Stored, Offstage, hardwareVars
<1>3. ASSUME NEW b \in Blades, NEW p \in Parts, Wear(b, p) PROVE HardwareRest'
  BY <1>3 DEF Wear, Offstage, HardwareRest
<1>4. ASSUME NEW s \in HwSlots, NEW b \in Blades, CollectStep(s, b) \/ CollectFails(s, b)
      PROVE  HardwareRest'
  BY <1>4, CollectRest
<1>5. ASSUME NEW s \in HwSlots, NEW by \in Blades \cup {Nil}, NEW all \in BOOLEAN,
             NEW of \in SUBSET Blades, Post(s, by, all, of)
      PROVE  HardwareRest'
  <2>1. hwCall' \in [HwSlots -> [by : Blades \cup {Nil}, all : BOOLEAN, of : SUBSET Blades]]
    BY <1>5 DEF Post, HardwareRest
  <2>2. hwWork' = [hwWork EXCEPT ![s] = [b \in Blades |->
                      IF b \in of THEN [NoWork EXCEPT !.at = "read"] ELSE NoWork]]
        /\ hwWork \in [HwSlots -> [Blades -> Collections]]
    BY <1>5 DEF Post, HardwareInv, HardwareTyped
  <2>3. Reads(NoWork) /\ Reads([NoWork EXCEPT !.at = "read"])
    BY DEF Reads, NoWork
  <2>4. \A o \in HwSlots, b \in Blades :
          hwWork'[o][b] \in {hwWork[o][b], NoWork, [NoWork EXCEPT !.at = "read"]}
    BY <2>2
  <2>5. \A o \in HwSlots, b \in Blades : Reads(hwWork'[o][b])
    <3>1. \A o \in HwSlots, b \in Blades : Reads(hwWork[o][b])
      BY DEF HardwareRest, Reads
    <3>. QED BY <2>3, <2>4, <3>1
  <2>. QED BY <1>5, <2>1, <2>5 DEF Post, Stored, HardwareRest, Reads
<1>6. ASSUME NEW s \in HwSlots, CollectAll(s) \/ \E b \in Blades : CollectCard(s, b) PROVE HardwareRest'
  <2>1. ASSUME NEW b \in Blades, CollectCard(s, b) PROVE HardwareRest'
    <3>1. Post(s, b, FALSE, {b}) /\ {b} \in SUBSET Blades
      BY <2>1 DEF CollectCard
    <3>. QED BY <1>5, <3>1
  <2>2. CASE CollectAll(s)
    <3>1. Post(s, Nil, TRUE, Blades)
      BY <2>2 DEF CollectAll
    <3>. QED BY <1>5, <3>1
  <2>. QED BY <1>6, <2>1, <2>2
<1>7. ASSUME NEW s \in HwSlots, CollectRefused(s) PROVE HardwareRest'
  <2>1. \A o \in HwSlots, b \in Blades : hwWork'[o][b] \in {hwWork[o][b], NoWork}
    BY <1>7 DEF CollectRefused, HardwareInv, HardwareTyped
  <2>2. NoWork.todo = {}
    BY DEF NoWork
  <2>3. \A o \in HwSlots, b \in Blades : Reads(hwWork'[o][b])
    BY <2>1, <2>2 DEF HardwareRest, Reads
  <2>. QED BY <1>7, <2>3 DEF CollectRefused, Stored, HardwareRest, Reads
<1>8. ASSUME NEW s \in HwSlots, CollectAnswer(s) PROVE HardwareRest'
  <2>1. NoCall \in [by : Blades \cup {Nil}, all : BOOLEAN, of : SUBSET Blades]
    BY DEF NoCall
  <2>. QED BY <1>8, <2>1 DEF CollectAnswer, Stored, HardwareRest
<1>9. ASSUME NEW s \in HwSlots, CollectLost(s) PROVE HardwareRest'
  BY <1>9 DEF CollectLost, Stored, HardwareRest
<1>. QED BY <1>2, <1>3, <1>4, <1>6, <1>7, <1>8, <1>9 DEF HardwareNext

LEMMA HardwareTypeHolds == HardwareInv /\ HardwareRest => HardwareTypeOK
  BY DEF HardwareInv, HardwareTyped, HardwareRest, Healths, Counts, Collections, HardwareTypeOK

-----------------------------------------------------------------------------
(* Every step is an input within the budget of its area, or none.          *)

LEMMA ActKeepsDesk == DeskTypeOK /\ (Act \/ UNCHANGED deskVars) => DeskTypeOK'
  BY DeskAssumption DEF DeskTypeOK, Act, deskVars

LEMMA AccountBudget == AccountNext => Act \/ UNCHANGED deskVars
  BY DEF Accept, AccountNext, Guess, InsertUser, LockRunsOut, LoginStep, OpenUsers, PostUser,
      PutUser, ReadUser, Reject, ResetExpired, SessionEnds, Submit, ToggleActive,
      ToggleForm, UpdateRole, deskVars

LEMMA IncidentBudget == IncidentNext => Act \/ UNCHANGED deskVars
  BY DEF AssignIncident, CheckFails, CheckStep, ClaimOffline, CloseIncident, CreateIncident,
      DeleteIncident, EditDraft, EndCheck, Expand, FindIncident, GoesQuiet, HandleAlarm,
      Heartbeat, IncRefresh, IncidentNext, LinesArrive, ListArrives, LookAlarm,
      LookIncident, NoteOpened, NoteRecovery, OffPage, OpenIncident, PatchStatus,
      PollRefused, RaiseAlarm, ReadOnline, ResolveAlarms, SaveDetail, SendAlert,
      SendComment, ToggleFilter, ToggleNew, deskVars

LEMMA ServiceBudget == ServiceNext => Act \/ UNCHANGED deskVars
<1>1. StartProbes \/ SvcRefresh \/ ToggleAdd => Act \/ UNCHANGED deskVars
  BY DEF StartProbes, SvcRefresh, ToggleAdd
<1>2. \A k \in SvcIds : ServiceFlips(k) \/ ProbeFails(k) \/ DeleteCheck(k) => Act \/ UNCHANGED deskVars
  BY DEF ServiceFlips, ProbeFails, DeleteCheck
<1>3. \A k \in SvcIds : ProbeStep(k) => UNCHANGED deskVars
  BY DEF ProbeStep, Probe, RaiseSvcAlarm, ResolveSvcAlarms
<1>4. \A rows \in svcLoads : SvcArrives(rows) => UNCHANGED deskVars
  BY DEF SvcArrives
<1>5. \A row \in CheckRows : AddCheck(row) => Act
  BY DEF AddCheck
<1>6. \A h \in SvcHosts, n \in Names : HandleSvcAlarm(h, n) => Act
  BY DEF HandleSvcAlarm
<1>. QED BY <1>1, <1>2, <1>3, <1>4, <1>5, <1>6 DEF ServiceNext

LEMMA RuleBudget == RuleNext => Act \/ UNCHANGED deskVars
  BY DEF AlertPageNext, BulkAction, CancelRule, CooldownPasses, DeleteRule, EditRule,
      EvalFails, EvalStep, FilterAlerts, InsertNotice, Measure, NextPair, Notify, PickAlert,
      PickAll, RuleNext, RulePageNext, RuleRefresh, SaveRule, SingleAction, StartEval,
      TakePair, ToggleRule, deskVars

LEMMA HardwareBudget == HardwareNext => Act \/ UNCHANGED deskVars
<1>1. ASSUME NEW l \in hwLoads, NEW ok \in BOOLEAN, CardArrives(l, ok)
      PROVE  Act \/ UNCHANGED deskVars
  <2>1. CASE ok
    BY <1>1, <2>1 DEF CardArrives, deskVars
  <2>2. CASE ~ok
    BY <1>1, <2>2 DEF CardArrives, Act
  <2>. QED BY <2>1, <2>2
<1>2. \A b \in Blades, p \in Parts : ExpandCard(b) \/ Wear(b, p) \/ HandleHardware(b, p) => Act
  BY DEF ExpandCard, Wear, HandleHardware
<1>3. \A b \in Blades : ExpandCard(b) => Act
  BY DEF ExpandCard
<1>4. \A b \in Blades, s \in HwSlots : CollectCard(s, b) \/ CollectFails(s, b) => Act
  BY DEF CollectCard, CollectFails
<1>5. \A b \in Blades, s \in HwSlots : CollectStep(s, b) => UNCHANGED deskVars
  BY DEF CollectStep, ReadController, StoreMetric, StorePart, LookHardware, RaiseHardware,
     SendHardware, EndCollect
<1>6. \A s \in HwSlots : CollectAll(s) \/ CollectRefused(s) \/ CollectLost(s) => Act
  BY DEF CollectAll, CollectRefused, CollectLost
<1>7. \A s \in HwSlots : CollectAnswer(s) => UNCHANGED deskVars
  BY DEF CollectAnswer
<1>. QED BY <1>1, <1>2, <1>3, <1>4, <1>5, <1>6, <1>7 DEF HardwareNext

-----------------------------------------------------------------------------
(* The areas together.  A step of one of them leaves the tables, the jobs  *)
(* and the pages of the others alone, so it preserves what they rest on.   *)

OperationsInv == AccountInv /\ IncidentInv /\ AlarmsCounted /\ RuleInv /\ HardwareInv

LEMMA OperationsInitHolds == OperationsInit => OperationsInv
  BY AccountInitHolds, IncidentInitHolds, ServiceInitHolds, RuleInitHolds, HardwareInitHolds
  DEF OperationsInit, OperationsInv

\* Every step of the whole is, for each area, a step of that area or none.
LEMMA OperationsStepsAreAreas ==
  ASSUME [OperationsNext]_operationsVars
  PROVE  /\ [AccountNext]_accountVars /\ [IncidentNext]_incidentVars
         /\ [ServiceNext]_serviceVars /\ [RuleNext]_ruleVars /\ [HardwareNext]_hardwareVars
  BY DEF OperationsNext, operationsVars

LEMMA OperationsStepHolds == OperationsInv /\ [OperationsNext]_operationsVars => OperationsInv'
<1>. SUFFICES ASSUME OperationsInv, [OperationsNext]_operationsVars PROVE OperationsInv'
  OBVIOUS
<1>. QED BY OperationsStepsAreAreas, AccountStepHolds, IncidentStepHolds, ServiceStepHolds,
            RuleStepHolds, HardwareStepHolds DEF OperationsInv

\* The five promises hold of the web server with all of its areas: the guesses against
\* a password, an incident for every outage, the alarms of a service, of a rule and of
\* a blade stay within their bounds whatever the areas do in between.
THEOREM OperationsKeepTheirPromises ==
  OperationsSpec =>
    [](GuessesBounded /\ DownIsReported /\ FewAlarms /\ OneRecentAlert /\ FewHardwareAlarms)
<1>1. OperationsInv =>
        GuessesBounded /\ DownIsReported /\ FewAlarms /\ OneRecentAlert /\ FewHardwareAlarms
  BY GuessesHold, ReportsHold, AlarmsAreFew, RecentAreFew, HardwareAlarmsAreFew DEF OperationsInv
<1>. QED BY <1>1, OperationsInitHolds, OperationsStepHolds, PTL DEF OperationsSpec

OperationsTyped ==
  OperationsInv /\ DeskTypeOK /\ IncidentRest /\ ServiceRest /\ RuleRest /\ HardwareRest

\* Whatever the areas do, in any order, every variable stays within its type, and the
\* pages, the checks, the evaluations and the collections refer to rows that are there.
THEOREM OperationsTypeCorrect == OperationsSpec => []OperationsTypeOK
<1>1. OperationsInit => OperationsTyped
  <2>1. DeskInit => DeskTypeOK
    BY DeskAssumption DEF DeskInit, DeskTypeOK
  <2>. QED BY <2>1, OperationsInitHolds, IncidentRestInit, ServiceRestInit, RuleRestInit,
              HardwareRestInit DEF OperationsInit, OperationsTyped
<1>2. OperationsTyped /\ [OperationsNext]_operationsVars => OperationsTyped'
  <2>. SUFFICES ASSUME OperationsTyped, [OperationsNext]_operationsVars PROVE OperationsTyped'
    OBVIOUS
  <2>1. Act \/ UNCHANGED deskVars
    BY AccountBudget, IncidentBudget, ServiceBudget, RuleBudget, HardwareBudget
    DEF OperationsNext, operationsVars
  <2>. QED BY <2>1, OperationsStepsAreAreas, OperationsStepHolds, ActKeepsDesk, IncidentRestStep,
              ServiceRestStep, RuleRestStep, HardwareRestStep DEF OperationsTyped, OperationsInv
<1>3. OperationsTyped => OperationsTypeOK
  BY AccountTypeHolds, IncidentTypeHolds, ServiceTypeHolds, RuleTypeHolds, HardwareTypeHolds
  DEF OperationsTyped, OperationsInv, OperationsTypeOK
<1>. QED BY <1>1, <1>2, <1>3, PTL DEF OperationsSpec

=============================================================================
