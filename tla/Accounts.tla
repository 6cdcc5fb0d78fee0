------------------------------ MODULE Accounts ------------------------------
(***************************************************************************)
(* Sign-in, sign-up and the cookie sessions of the setup UI                *)
(* (http/account.rs, http/session.rs, store/accounts.rs, store/sessions.rs).*)
(*                                                                         *)
(* A handler awaits one database statement after the other, and handlers   *)
(* of other requests run in between.  A worker is one request in flight.   *)
(* Every statement is one step; the two transactions (create_account and   *)
(* create_session) commit in one step.  A request that reads the clock     *)
(* uses that instant in its later statements.                              *)
(*                                                                         *)
(* A password stands for the text and for its hash.  The random token and  *)
(* its hash are one value.  The checks of the request itself (origin, JSON,*)
(* user name and password form, rate limit) come before every step here:   *)
(* a request that fails one changes nothing.                               *)
(***************************************************************************)
EXTENDS Integers, FiniteSets

CONSTANTS
    Workers,      \* the requests that can be in flight at once
    Names,        \* user names
    Passwords,
    Tokens,       \* session tokens; a bound on the sessions ever started
    None,         \* Option::None
    MaxUsers,     \* MAX_USERS
    Lifetime,     \* SESSION_LIFETIME
    UpdateAge,    \* SESSION_UPDATE_AGE
    MaxDelay,     \* how long a request takes at most
    MaxTime,      \* bound on the clock
    MaxFaults     \* bound on failed statements and dropped requests

Time == 0 .. MaxTime

Expiry == 0 .. MaxTime + Lifetime

\* The random id of a user, numbered in the order of creation.
UserIds == Nat \ {0}

User == [id : UserIds, name : Names, password : Passwords]

\* A row of app_sessions, and the credentials that opened it (history).
Session == [user : UserIds, expires : Expiry, name : Names, password : Passwords]

ASSUME ConstantsAssumption ==
    /\ IsFiniteSet(Workers) /\ Workers # {}
    /\ MaxUsers \in Nat \ {0}
    /\ UpdateAge \in Nat /\ Lifetime \in Nat /\ MaxDelay \in Nat
    /\ MaxDelay <= UpdateAge /\ UpdateAge < Lifetime
    /\ MaxTime \in Nat /\ MaxFaults \in Nat
    /\ None \notin Names \cup Passwords \cup Tokens \cup Session \cup Int

\* What a request carries from one statement to the next.
Request == [name : Names \cup {None}, password : Passwords \cup {None},
            user : UserIds \cup {None}, token : Tokens \cup {None}, now : Time]

Steps == {"idle", "lookup", "credential", "count", "exists", "create",
          "start", "insert", "find", "extend", "delete"}

VARIABLES
    clock,
    users,       \* the accounts: "user", account, usernames
    sessions,    \* app_sessions, by token; None without a row
    pc,          \* pc[w]: the next statement of the request
    req,         \* req[w]: its local variables
    answered,    \* the tokens that a client got in a cookie
    signedOut,   \* history: the tokens whose sign-out deleted their row
    seen,        \* history: the last instant at which a request used a token
    faults

vars == <<clock, users, sessions, pc, req, answered, signedOut, seen, faults>>

Idle == [name |-> None, password |-> None, user |-> None, token |-> None, now |-> 0]

TypeOK ==
    /\ clock \in Time
    /\ users \in SUBSET User
    /\ sessions \in [Tokens -> Session \cup {None}]
    /\ pc \in [Workers -> Steps]
    /\ req \in [Workers -> Request]
    /\ answered \subseteq Tokens
    /\ signedOut \subseteq Tokens
    /\ seen \in [Tokens -> Time \cup {None}]
    /\ faults \in 0 .. MaxFaults

Init ==
    /\ clock = 0
    /\ users = {}
    /\ sessions = [t \in Tokens |-> None]
    /\ pc = [w \in Workers |-> "idle"]
    /\ req = [w \in Workers |-> Idle]
    /\ answered = {}
    /\ signedOut = {}
    /\ seen = [t \in Tokens |-> None]
    /\ faults = 0

-----------------------------------------------------------------------------

\* The request of w goes on with the statement `step`.
Continue(w, step) == pc' = [pc EXCEPT ![w] = step]

\* The request of w is answered, or it is gone.
End(w) ==
    /\ pc' = [pc EXCEPT ![w] = "idle"]
    /\ req' = [req EXCEPT ![w] = Idle]

Named(name) == {u \in users : u.name = name}

history == <<answered, signedOut, seen>>

-----------------------------------------------------------------------------
(***************************************************************************)
(* account::login_or_signup                                                *)
(***************************************************************************)

LoginOrSignup(w, name, password) ==
    /\ pc[w] = "idle"
    /\ req' = [req EXCEPT ![w] = [Idle EXCEPT !.name = name, !.password = password]]
    /\ Continue(w, "lookup")
    /\ UNCHANGED <<clock, users, sessions, history, faults>>

\* accounts::user_id_by_username decides between a sign-in and a sign-up.
Lookup(w) ==
    /\ pc[w] = "lookup"
    /\ Continue(w, IF Named(req[w].name) # {} THEN "credential" ELSE "count")
    /\ UNCHANGED <<clock, users, sessions, req, history, faults>>

\* sign_in: credential_user_by_email and the password check.  A user that
\* was found has a credential: accounts are never deleted.
SignIn(w) ==
    /\ pc[w] = "credential"
    /\ \E u \in Named(req[w].name) :
          \/ /\ u.password = req[w].password
             /\ req' = [req EXCEPT ![w].user = u.id]
             /\ Continue(w, "start")
          \/ /\ u.password # req[w].password
             /\ End(w)
    /\ UNCHANGED <<clock, users, sessions, history, faults>>

\* Mutant: registration never closes.
CountNothing(w) ==
    /\ pc[w] = "count"
    /\ Continue(w, "exists")
    /\ UNCHANGED <<clock, users, sessions, req, history, faults>>

\* sign_up: count_users, then 403 when registration is closed.
CountUsers(w) ==
    /\ pc[w] = "count"
    /\ \/ /\ Cardinality(users) >= MaxUsers
          /\ End(w)
       \/ /\ Cardinality(users) < MaxUsers
          /\ Continue(w, "exists")
          /\ UNCHANGED req
    /\ UNCHANGED <<clock, users, sessions, history, faults>>

\* sign_up: email_exists, then the slow password hash.
EmailExists(w) ==
    /\ pc[w] = "exists"
    /\ \/ Named(req[w].name) # {} /\ End(w)
       \/ Named(req[w].name) = {} /\ Continue(w, "create") /\ UNCHANGED req
    /\ UNCHANGED <<clock, users, sessions, history, faults>>

NewId == Cardinality(users) + 1

\* Mutant: a conflict is not an error, the stored account is taken.
CreateOrTake(w) ==
    /\ pc[w] = "create"
    /\ \/ /\ Named(req[w].name) # {}
          /\ \E u \in Named(req[w].name) : req' = [req EXCEPT ![w].user = u.id]
          /\ UNCHANGED users
       \/ /\ Named(req[w].name) = {}
          /\ users' = users \cup {[id |-> NewId, name |-> req[w].name,
                                   password |-> req[w].password]}
          /\ req' = [req EXCEPT ![w].user = NewId]
    /\ Continue(w, "start")
    /\ UNCHANGED <<clock, sessions, history, faults>>

\* create_account: one transaction for the user, the credential, the user name
\* and the default settings.  The e-mail and the user name are unique.
CreateAccount(w) ==
    /\ pc[w] = "create"
    /\ \/ /\ Named(req[w].name) # {}
          /\ End(w)
          /\ UNCHANGED users
       \/ /\ Named(req[w].name) = {}
          /\ users' = users \cup {[id |-> NewId, name |-> req[w].name,
                                   password |-> req[w].password]}
          /\ req' = [req EXCEPT ![w].user = NewId]
          /\ Continue(w, "start")
    /\ UNCHANGED <<clock, sessions, history, faults>>

\* session::start takes a random token and the instant.
Used == {t \in Tokens : \/ t \in answered \/ sessions[t] # None
                        \/ \E w \in Workers : req[w].token = t}

StartSession(w) ==
    /\ pc[w] = "start"
    /\ \E t \in Tokens \ Used :
          req' = [req EXCEPT ![w].token = t, ![w].now = clock]
    /\ Continue(w, "insert")
    /\ UNCHANGED <<clock, users, sessions, history, faults>>

\* sessions::create_session: one transaction that deletes the expired rows
\* and inserts the new one.
InsertSession(w) ==
    /\ pc[w] = "insert"
    /\ sessions' = [t \in Tokens |->
          IF t = req[w].token
          THEN [user |-> req[w].user, expires |-> req[w].now + Lifetime,
                name |-> req[w].name, password |-> req[w].password]
          ELSE IF sessions[t] # None /\ sessions[t].expires <= req[w].now THEN None
          ELSE sessions[t]]

\* The answer carries the cookie.
CreateSession(w) ==
    /\ InsertSession(w)
    /\ answered' = answered \cup {req[w].token}
    /\ End(w)
    /\ UNCHANGED <<clock, users, signedOut, seen, faults>>

-----------------------------------------------------------------------------
(***************************************************************************)
(* session::current, of GET /api/session and of every route behind         *)
(* require_session                                                         *)
(***************************************************************************)

UseSession(w, t) ==
    /\ pc[w] = "idle"
    /\ t \in answered
    /\ req' = [req EXCEPT ![w] = [Idle EXCEPT !.token = t, !.now = clock]]
    /\ Continue(w, "find")
    /\ UNCHANGED <<clock, users, sessions, history, faults>>

\* The request of w was let in at its instant.
Seen(w) == seen' = [seen EXCEPT ![req[w].token] =
                       IF @ # None /\ @ > req[w].now THEN @ ELSE req[w].now]

\* Mutant: the session is renewed when it has ended.
MustRenewAtTheEnd(session, now) == session.expires <= now

\* The last renewal is UpdateAge ago.
MustRenew(session, now) == session.expires - Lifetime + UpdateAge <= now

\* A row that find_session returns.
Valid(session, now) == session # None /\ session.expires > now

\* find_session: no valid session (401, or null), a fresh one, or one that has
\* to be renewed.
FindSession(w) ==
    LET session == sessions[req[w].token] IN
    /\ pc[w] = "find"
    /\ \/ /\ ~Valid(session, req[w].now)
          /\ End(w)
          /\ UNCHANGED seen
       \/ /\ Valid(session, req[w].now)
          /\ ~MustRenew(session, req[w].now)
          /\ Seen(w)
          /\ End(w)
       \/ /\ Valid(session, req[w].now)
          /\ MustRenew(session, req[w].now)
          /\ Continue(w, "extend")
          /\ UNCHANGED <<req, seen>>
    /\ UNCHANGED <<clock, users, sessions, answered, signedOut, faults>>

\* Mutant: the renewal writes the row that the request found back.
ExtendUpserts(w) ==
    /\ pc[w] = "extend"
    /\ \E u \in users :
          sessions' = [sessions EXCEPT ![req[w].token] =
              [user |-> u.id, expires |-> req[w].now + Lifetime,
               name |-> u.name, password |-> u.password]]
    /\ Seen(w)
    /\ End(w)
    /\ UNCHANGED <<clock, users, answered, signedOut, faults>>

\* extend_session: an UPDATE that changes nothing when the row is gone.  The
\* request is let in either way, with the cookie again.
ExtendSession(w) ==
    LET t == req[w].token IN
    /\ pc[w] = "extend"
    /\ \/ /\ sessions[t] # None
          /\ sessions' = [sessions EXCEPT ![t].expires = req[w].now + Lifetime]
          /\ Seen(w)
       \/ /\ sessions[t] = None
          /\ UNCHANGED <<sessions, seen>>
    /\ End(w)
    /\ UNCHANGED <<clock, users, answered, signedOut, faults>>

-----------------------------------------------------------------------------
(***************************************************************************)
(* account::sign_out                                                       *)
(***************************************************************************)

SignOut(w, t) ==
    /\ pc[w] = "idle"
    /\ t \in answered
    /\ req' = [req EXCEPT ![w] = [Idle EXCEPT !.token = t, !.now = clock]]
    /\ Continue(w, "delete")
    /\ UNCHANGED <<clock, users, sessions, history, faults>>

DeleteSession(w) ==
    /\ pc[w] = "delete"
    /\ sessions' = [sessions EXCEPT ![req[w].token] = None]
    /\ signedOut' = signedOut \cup {req[w].token}
    /\ End(w)
    /\ UNCHANGED <<clock, users, answered, seen, faults>>

-----------------------------------------------------------------------------

\* A statement fails (500), or the client or the process goes away: the
\* request ends where it is, and an open transaction is rolled back, unless it
\* was committed and only its answer is lost.  A new account without an answer
\* is a Fail before StartSession; a renewal or a sign-out without one is its
\* statement, ExtendSession or DeleteSession; a new session without one is a
\* row whose token nobody has.
Fail(w) ==
    /\ pc[w] # "idle"
    /\ faults < MaxFaults
    /\ faults' = faults + 1
    /\ UNCHANGED sessions \/ InsertSession(w)
    /\ End(w)
    /\ UNCHANGED <<clock, users, history>>

\* The steps that use an instant which the request read before.
Timed == {"insert", "find", "extend"}

Tick ==
    /\ clock < MaxTime
    /\ \A w \in Workers : pc[w] \in Timed => clock < req[w].now + MaxDelay
    /\ clock' = clock + 1
    /\ UNCHANGED <<users, sessions, pc, req, history, faults>>

Login(w) ==
    \/ \E name \in Names, password \in Passwords : LoginOrSignup(w, name, password)
    \/ Lookup(w) \/ SignIn(w)
    \/ CountUsers(w) \/ EmailExists(w) \/ CreateAccount(w)
    \/ StartSession(w) \/ CreateSession(w)

Use(w) ==
    \/ \E t \in Tokens : UseSession(w, t) \/ SignOut(w, t)
    \/ FindSession(w) \/ ExtendSession(w) \/ DeleteSession(w)

Next ==
    \/ \E w \in Workers : Login(w) \/ Use(w) \/ Fail(w)
    \/ Tick

Spec == Init /\ [][Next]_vars

-----------------------------------------------------------------------------

\* A session belongs to the account whose user name and password opened it:
\* two sign-ups of one name that race never give the loser a session of the
\* winner, and no name has two accounts (sign_up between count_users and
\* create_account).
SessionsAreAuthenticated ==
    /\ \A u, v \in users : u.name = v.name \/ u.id = v.id => u = v
    /\ \A t \in Tokens : sessions[t] # None =>
          [id |-> sessions[t].user, name |-> sessions[t].name,
           password |-> sessions[t].password] \in users

\* Registration closes at MAX_USERS.  The count and the insert are two
\* statements, so requests in flight can pass the limit, but only by their
\* number less one.
RegistrationCloses ==
    Cardinality(users) <= MaxUsers + Cardinality(Workers) - 1

\* A session that was signed out is never valid again, although a renewal of
\* it can be in flight (extend_session updates and never inserts).
SignedOutStaysOut == \A t \in signedOut : sessions[t] = None

\* A session that let a request in stays valid for Lifetime - UpdateAge after
\* that request, whatever is renewed out of order and whichever rows a sign-in
\* deletes (session::current, create_session).  A renewal whose row was gone
\* when it was written does not count.
ActiveSessionLasts ==
    \A t \in Tokens \ signedOut :
        seen[t] # None /\ clock < seen[t] + Lifetime - UpdateAge =>
            /\ sessions[t] # None
            /\ sessions[t].expires >= seen[t] + Lifetime - UpdateAge

=============================================================================
