---------------------------- MODULE AccountsProofs ----------------------------
(***************************************************************************)
(* Proofs about Accounts for any number of requests in flight, any user    *)
(* names, passwords and tokens, and any bound on the clock and the faults. *)
(***************************************************************************)
EXTENDS Accounts, FiniteSetTheorems, TLAPS

(***************************************************************************)
(* The inductive invariant.                                                *)
(***************************************************************************)

Credential(w) ==
    [id |-> req[w].user, name |-> req[w].name, password |-> req[w].password]

\* What a request carries at each statement.
RequestInv ==
    \A w \in Workers :
        /\ pc[w] \in {"lookup", "credential", "count", "exists", "create", "start", "insert"}
              => req[w].name \in Names /\ req[w].password \in Passwords
        /\ pc[w] \in {"start", "insert"} => Credential(w) \in users
        /\ pc[w] \in {"insert", "find", "extend", "delete"} => req[w].token \in Tokens
        /\ pc[w] \in {"find", "extend", "delete"} => req[w].token \in answered

\* The token of a session that is not stored yet is known to its request only,
\* and only a token that a client has was ever used.
TokenInv ==
    /\ \A w \in Workers : pc[w] = "insert" =>
          /\ req[w].token \notin answered /\ sessions[req[w].token] = None
          /\ \A v \in Workers : req[v].token = req[w].token => v = w
    /\ \A t \in Tokens : seen[t] # None => t \in answered
    /\ signedOut \subseteq answered

\* The instant that a request read is at most MaxDelay ago.
TimeInv ==
    /\ \A w \in Workers : pc[w] \in Timed =>
          req[w].now <= clock /\ clock <= req[w].now + MaxDelay
    /\ \A t \in Tokens : seen[t] # None => seen[t] <= clock

\* The ids were given in the order of creation.
UserInv ==
    /\ IsFiniteSet(users)
    /\ \A u \in users : u.id <= Cardinality(users)

\* The requests that have passed the count and not stored their account yet.
Registering == {w \in Workers : pc[w] \in {"exists", "create"}}

\* Each of them may still add an account, and the last one that passed the
\* count did so when there were fewer than MaxUsers.
CountInv ==
    Cardinality(users) + Cardinality(Registering) <= MaxUsers + Cardinality(Workers) - 1

IInv ==
    /\ TypeOK
    /\ RequestInv
    /\ TokenInv
    /\ TimeInv
    /\ UserInv
    /\ CountInv
    /\ SessionsAreAuthenticated
    /\ SignedOutStaysOut
    /\ ActiveSessionLasts

-----------------------------------------------------------------------------

\* None is no value of the code, and times are integers.
LEMMA Constants ==
    /\ None \notin Names /\ None \notin Passwords /\ None \notin Tokens
    /\ None \notin Session /\ None \notin Int /\ None \notin UserIds
    /\ Time \subseteq Int /\ Expiry \subseteq Int /\ 0 \in Time
    /\ Lifetime \in Nat /\ UpdateAge \in Nat /\ MaxDelay \in Nat /\ MaxTime \in Nat
    /\ MaxDelay <= UpdateAge /\ UpdateAge < Lifetime
    /\ \A t \in Time : t + Lifetime \in Expiry
    /\ MaxUsers \in Nat /\ MaxUsers >= 1
    /\ MaxFaults \in Nat
BY ConstantsAssumption DEF Time, Expiry, UserIds

\* The id of the next user.
LEMMA NewIdType == IsFiniteSet(users) => NewId \in UserIds
BY FS_CardinalityType DEF NewId, UserIds

\* The request of a worker that is idle.
LEMMA IdleType == Idle \in Request
BY Constants DEF Idle, Request

\* A request stays typed when one of its variables is set.
LEMMA RequestWith ==
    ASSUME NEW r \in Request
    PROVE  /\ \A u \in UserIds : [r EXCEPT !.user = u] \in Request
           /\ \A t \in Tokens : [r EXCEPT !.token = t] \in Request
           /\ \A n \in Time : [r EXCEPT !.now = n] \in Request
BY DEF Request

\* The request of a browser that sends the token t at the instant n.
LEMMA RequestOf ==
    ASSUME NEW t \in Tokens, NEW n \in Time
    PROVE  /\ [Idle EXCEPT !.token = t, !.now = n] \in Request
           /\ [Idle EXCEPT !.token = t, !.now = n].token = t
           /\ [Idle EXCEPT !.token = t, !.now = n].now = n
<1> DEFINE r == [Idle EXCEPT !.token = t]
<1>1. r = [name |-> None, password |-> None, user |-> None, token |-> t, now |-> 0]
  BY DEF Idle
<1>2. [Idle EXCEPT !.token = t, !.now = n] = [r EXCEPT !.now = n]
  OBVIOUS
<1> HIDE DEF r
<1>3. [r EXCEPT !.now = n]
        = [name |-> None, password |-> None, user |-> None, token |-> t, now |-> n]
  BY <1>1
<1> QED
  BY <1>2, <1>3 DEF Request

\* The initial states are typed.
LEMMA InitTypeOK == Init => TypeOK
BY Constants, IdleType DEF Init, TypeOK, Steps

\* Every step keeps the types, action by action.
LEMMA NextTypeOK ==
    ASSUME TypeOK, RequestInv, UserInv, [Next]_vars
    PROVE  TypeOK'
<1> USE Constants, IdleType
<1>1. CASE UNCHANGED vars
  BY <1>1 DEF vars, TypeOK
<1>2. CASE Tick
  BY <1>2 DEF Tick, TypeOK, history, Time
<1>3. ASSUME NEW w \in Workers, NEW name \in Names, NEW password \in Passwords,
             LoginOrSignup(w, name, password)
      PROVE  TypeOK'
  BY <1>3 DEF LoginOrSignup, Continue, TypeOK, history, Request, Idle, Steps
<1>4. ASSUME NEW w \in Workers, Lookup(w) PROVE TypeOK'
  BY <1>4 DEF Lookup, Continue, TypeOK, history, Steps
<1>5. ASSUME NEW w \in Workers, SignIn(w) PROVE TypeOK'
  <2>1. PICK u \in users :
          \/ req' = [req EXCEPT ![w].user = u.id] /\ Continue(w, "start")
          \/ End(w)
    BY <1>5 DEF SignIn, Named
  <2>2. u.id \in UserIds
    BY DEF TypeOK, User
  <2>3. req' \in [Workers -> Request] /\ pc' \in [Workers -> Steps]
    <3>1. CASE End(w)
      BY <3>1 DEF End, TypeOK, Steps
    <3>2. CASE req' = [req EXCEPT ![w].user = u.id] /\ Continue(w, "start")
      BY <3>2, <2>2, RequestWith DEF Continue, TypeOK, Steps
    <3> QED
      BY <2>1, <3>1, <3>2
  <2> QED
    BY <1>5, <2>3 DEF SignIn, TypeOK, history
<1>6. ASSUME NEW w \in Workers, CountUsers(w) PROVE TypeOK'
  BY <1>6 DEF CountUsers, Continue, End, TypeOK, history, Steps
<1>7. ASSUME NEW w \in Workers, EmailExists(w) PROVE TypeOK'
  BY <1>7 DEF EmailExists, Continue, End, TypeOK, history, Steps
<1>8. ASSUME NEW w \in Workers, CreateAccount(w) PROVE TypeOK'
  <2>1. NewId \in UserIds
    BY NewIdType DEF UserInv
  <2>2. req[w].name \in Names /\ req[w].password \in Passwords
    BY <1>8 DEF CreateAccount, RequestInv
  <2>3. users' \in SUBSET User
    BY <1>8, <2>1, <2>2 DEF CreateAccount, TypeOK, User
  <2>4. req' \in [Workers -> Request] /\ pc' \in [Workers -> Steps]
    <3>1. CASE End(w)
      BY <3>1 DEF End, TypeOK, Steps
    <3>2. CASE req' = [req EXCEPT ![w].user = NewId] /\ Continue(w, "start")
      BY <3>2, <2>1, RequestWith DEF Continue, TypeOK, Steps
    <3>3. End(w) \/ (req' = [req EXCEPT ![w].user = NewId] /\ Continue(w, "start"))
      BY <1>8 DEF CreateAccount
    <3> QED
      BY <3>1, <3>2, <3>3
  <2> QED
    BY <1>8, <2>3, <2>4 DEF CreateAccount, TypeOK, history
<1>9. ASSUME NEW w \in Workers, StartSession(w) PROVE TypeOK'
  <2>1. PICK t \in Tokens : req' = [req EXCEPT ![w].token = t, ![w].now = clock]
    BY <1>9 DEF StartSession
  <2>2. req' \in [Workers -> Request]
    <3> DEFINE r == [req EXCEPT ![w].token = t]
    <3>1. r \in [Workers -> Request]
      BY RequestWith DEF TypeOK
    <3>2. req' = [r EXCEPT ![w].now = clock]
      BY <2>1
    <3> HIDE DEF r
    <3> QED
      BY <3>1, <3>2, RequestWith DEF TypeOK
  <2> QED
    BY <1>9, <2>2 DEF StartSession, Continue, TypeOK, history, Steps
<1>s. ASSUME NEW w \in Workers, InsertSession(w)
      PROVE  req[w].token \in Tokens /\ sessions' \in [Tokens -> Session \cup {None}]
  <2>1. Credential(w) \in users /\ req[w].token \in Tokens
    BY <1>s DEF InsertSession, RequestInv
  <2>2. /\ req[w].user \in UserIds /\ req[w].name \in Names
        /\ req[w].password \in Passwords
    BY <2>1 DEF Credential, TypeOK, User
  <2>3. req[w].now + Lifetime \in Expiry
    BY DEF TypeOK, Request
  <2> QED
    BY <1>s, <2>1, <2>2, <2>3 DEF InsertSession, TypeOK, Session
<1>10. ASSUME NEW w \in Workers, CreateSession(w) PROVE TypeOK'
  <2>1. req[w].token \in Tokens /\ sessions' \in [Tokens -> Session \cup {None}]
    BY <1>s, <1>10 DEF CreateSession
  <2> QED
    BY <1>10, <2>1 DEF CreateSession, End, TypeOK, history, Steps
<1>11. ASSUME NEW w \in Workers, NEW t \in Tokens, UseSession(w, t) \/ SignOut(w, t)
       PROVE  TypeOK'
  <2>1. req' = [req EXCEPT ![w] = [Idle EXCEPT !.token = t, !.now = clock]]
    BY <1>11 DEF UseSession, SignOut
  <2>2. req' \in [Workers -> Request]
    BY <2>1, RequestOf DEF TypeOK
  <2> QED
    BY <1>11, <2>2 DEF UseSession, SignOut, Continue, TypeOK, history, Steps
<1>12. ASSUME NEW w \in Workers, FindSession(w) PROVE TypeOK'
  <2>1. req[w].now \in Time
    BY DEF TypeOK, Request
  <2>2. seen' \in [Tokens -> Time \cup {None}]
    BY <1>12, <2>1 DEF FindSession, Seen, TypeOK
  <2>3. req' \in [Workers -> Request] /\ pc' \in [Workers -> Steps]
    BY <1>12 DEF FindSession, Continue, End, TypeOK, Steps
  <2> QED
    BY <1>12, <2>2, <2>3 DEF FindSession, TypeOK
<1>13. ASSUME NEW w \in Workers, ExtendSession(w) PROVE TypeOK'
  <2>1. req[w].now \in Time /\ req[w].now + Lifetime \in Expiry
    BY DEF TypeOK, Request
  <2>2. seen' \in [Tokens -> Time \cup {None}]
    BY <1>13, <2>1 DEF ExtendSession, Seen, TypeOK
  <2>3. sessions' \in [Tokens -> Session \cup {None}]
    BY <1>13, <2>1 DEF ExtendSession, TypeOK, Session
  <2> QED
    BY <1>13, <2>2, <2>3 DEF ExtendSession, End, TypeOK, Steps
<1>14. ASSUME NEW w \in Workers, DeleteSession(w) PROVE TypeOK'
  <2>1. req[w].token \in Tokens
    BY <1>14 DEF DeleteSession, RequestInv
  <2> QED
    BY <1>14, <2>1 DEF DeleteSession, End, TypeOK, Steps
<1>15. ASSUME NEW w \in Workers, Fail(w) PROVE TypeOK'
  <2>1. sessions' \in [Tokens -> Session \cup {None}]
    BY <1>s, <1>15 DEF Fail, TypeOK
  <2> QED
    BY <1>15, <2>1 DEF Fail, End, TypeOK, history, Steps
<1> QED
  BY <1>1, <1>2, <1>3, <1>4, <1>5, <1>6, <1>7, <1>8, <1>9, <1>10, <1>11, <1>12, <1>13,
     <1>14, <1>15 DEF Next, Login, Use

-----------------------------------------------------------------------------

\* The fields of a request that is set in a step.
LEMMA LoginFields ==
    ASSUME NEW name, NEW password
    PROVE  /\ [Idle EXCEPT !.name = name, !.password = password].name = name
           /\ [Idle EXCEPT !.name = name, !.password = password].password = password
           /\ [Idle EXCEPT !.name = name, !.password = password].token = None
<1> DEFINE r == [Idle EXCEPT !.name = name]
<1>1. r = [name |-> name, password |-> None, user |-> None, token |-> None, now |-> 0]
  BY DEF Idle
<1>2. [Idle EXCEPT !.name = name, !.password = password] = [r EXCEPT !.password = password]
  OBVIOUS
<1> HIDE DEF r
<1>3. [r EXCEPT !.password = password]
        = [name |-> name, password |-> password, user |-> None, token |-> None, now |-> 0]
  BY <1>1
<1> QED
  BY <1>2, <1>3

\* The token and the instant of a request that starts a session.
LEMMA StartFields ==
    ASSUME TypeOK, NEW w \in Workers, StartSession(w)
    PROVE  \E t \in Tokens \ Used :
              /\ req'[w].token = t /\ req'[w].now = clock
              /\ req'[w].name = req[w].name /\ req'[w].password = req[w].password
              /\ req'[w].user = req[w].user
              /\ \A v \in Workers \ {w} : req'[v] = req[v]
<1>1. PICK t \in Tokens \ Used : req' = [req EXCEPT ![w].token = t, ![w].now = clock]
  BY DEF StartSession
<1> DEFINE r == [req EXCEPT ![w].token = t]
<1>2. /\ r \in [Workers -> Request] /\ r[w].token = t
      /\ r[w].name = req[w].name /\ r[w].password = req[w].password
      /\ r[w].user = req[w].user /\ \A v \in Workers \ {w} : r[v] = req[v]
  BY DEF TypeOK, Request
<1>3. req' = [r EXCEPT ![w].now = clock]
  BY <1>1
<1> HIDE DEF r
<1>4. /\ req'[w].token = r[w].token /\ req'[w].now = clock
      /\ req'[w].name = r[w].name /\ req'[w].password = r[w].password
      /\ req'[w].user = r[w].user /\ \A v \in Workers \ {w} : req'[v] = r[v]
  BY <1>2, <1>3 DEF Request
<1> QED
  BY <1>2, <1>4

\* Every statement leaves to the next one what it needs.
LEMMA NextRequestInv ==
    ASSUME TypeOK, RequestInv, [Next]_vars
    PROVE  RequestInv'
<1> USE DEF TypeOK, RequestInv, Credential
<1>1. CASE UNCHANGED vars
  BY <1>1 DEF vars
<1>2. CASE Tick
  BY <1>2 DEF Tick, history
<1>3. ASSUME NEW w \in Workers, NEW name \in Names, NEW password \in Passwords,
             LoginOrSignup(w, name, password)
      PROVE  RequestInv'
  BY <1>3, LoginFields DEF LoginOrSignup, Continue, history
<1>4. ASSUME NEW w \in Workers, Lookup(w) PROVE RequestInv'
  BY <1>4 DEF Lookup, Continue, history
<1>5. ASSUME NEW w \in Workers, SignIn(w) PROVE RequestInv'
  BY <1>5 DEF SignIn, Named, Continue, End, history, User, Request
<1>6. ASSUME NEW w \in Workers, CountUsers(w) PROVE RequestInv'
  BY <1>6 DEF CountUsers, Continue, End, history
<1>7. ASSUME NEW w \in Workers, EmailExists(w) PROVE RequestInv'
  BY <1>7 DEF EmailExists, Continue, End, history
<1>8. ASSUME NEW w \in Workers, CreateAccount(w) PROVE RequestInv'
  <2>1. CASE End(w)
    BY <1>8, <2>1 DEF CreateAccount, End, history
  <2>2. CASE ~End(w)
    <3>1. /\ users' = users \cup {[id |-> NewId, name |-> req[w].name,
                                   password |-> req[w].password]}
          /\ req' = [req EXCEPT ![w].user = NewId]
          /\ pc[w] = "create" /\ pc' = [pc EXCEPT ![w] = "start"]
          /\ answered' = answered
      BY <1>8, <2>2 DEF CreateAccount, Continue, history
    <3>2. /\ req'[w].user = NewId /\ req'[w].name = req[w].name
          /\ req'[w].password = req[w].password
          /\ \A v \in Workers \ {w} : req'[v] = req[v] /\ pc'[v] = pc[v]
      BY <3>1 DEF Request
    <3>3. Credential(w)' \in users'
      BY <3>1, <3>2
    <3> QED
      BY <3>1, <3>2, <3>3
  <2> QED
    BY <2>1, <2>2
<1>9. ASSUME NEW w \in Workers, StartSession(w) PROVE RequestInv'
  <2>1. /\ pc[w] = "start" /\ pc'[w] = "insert"
        /\ \A v \in Workers \ {w} : pc'[v] = pc[v]
        /\ users' = users /\ answered' = answered
    BY <1>9 DEF StartSession, Continue, history
  <2>2. PICK t \in Tokens \ Used :
              /\ req'[w].token = t /\ req'[w].now = clock
              /\ req'[w].name = req[w].name /\ req'[w].password = req[w].password
              /\ req'[w].user = req[w].user
              /\ \A v \in Workers \ {w} : req'[v] = req[v]
    BY <1>9, StartFields
  <2> QED
    BY <2>1, <2>2
<1>10. ASSUME NEW w \in Workers, CreateSession(w) PROVE RequestInv'
  BY <1>10 DEF CreateSession, InsertSession, End, history
<1>11. ASSUME NEW w \in Workers, NEW t \in Tokens, UseSession(w, t) \/ SignOut(w, t)
       PROVE  RequestInv'
  <2>1. /\ req' = [req EXCEPT ![w] = [Idle EXCEPT !.token = t, !.now = clock]]
        /\ users' = users /\ answered' = answered /\ t \in answered
        /\ pc'[w] \in {"find", "delete"}
        /\ \A v \in Workers \ {w} : pc'[v] = pc[v]
    BY <1>11 DEF UseSession, SignOut, Continue, history
  <2>2. req'[w].token = t /\ \A v \in Workers \ {w} : req'[v] = req[v]
    BY <2>1, RequestOf
  <2> QED
    BY <2>1, <2>2
<1>12. ASSUME NEW w \in Workers, FindSession(w) PROVE RequestInv'
  BY <1>12 DEF FindSession, Continue, End
<1>13. ASSUME NEW w \in Workers, ExtendSession(w) PROVE RequestInv'
  BY <1>13 DEF ExtendSession, End
<1>14. ASSUME NEW w \in Workers, DeleteSession(w) PROVE RequestInv'
  BY <1>14 DEF DeleteSession, End
<1>15. ASSUME NEW w \in Workers, Fail(w) PROVE RequestInv'
  BY <1>15 DEF Fail, End, history
<1> QED
  BY <1>1, <1>2, <1>3, <1>4, <1>5, <1>6, <1>7, <1>8, <1>9, <1>10, <1>11, <1>12, <1>13,
     <1>14, <1>15 DEF Next, Login, Use

\* The token and the instant of a request that brings a cookie.
LEMMA UseFields ==
    ASSUME TypeOK, NEW w \in Workers, NEW t \in Tokens, UseSession(w, t) \/ SignOut(w, t)
    PROVE  /\ req'[w].token = t /\ req'[w].now = clock
           /\ \A v \in Workers \ {w} : req'[v] = req[v]
<1>1. req' = [req EXCEPT ![w] = [Idle EXCEPT !.token = t, !.now = clock]]
  BY DEF UseSession, SignOut
<1> QED
  BY <1>1, RequestOf DEF TypeOK

\* The token that a sign-in inserts is new, and a token that was signed out has
\* no session, because nothing but that insert adds a row.
LEMMA NextTokenInv ==
    ASSUME TypeOK, RequestInv, TokenInv, SignedOutStaysOut, [Next]_vars
    PROVE  TokenInv' /\ SignedOutStaysOut'
<1> DEFINE Goal == TokenInv' /\ SignedOutStaysOut'
<1> USE Constants DEF TypeOK, TokenInv, SignedOutStaysOut
<1>r. ASSUME NEW w \in Workers, pc[w] = "insert" PROVE req[w].token \in Tokens
  BY <1>r DEF RequestInv
<1>i. Idle.token = None
  BY DEF Idle
<1>1. CASE UNCHANGED vars
  BY <1>1 DEF vars
<1>2. CASE Tick
  BY <1>2 DEF Tick, history
<1>3. ASSUME NEW w \in Workers, NEW name \in Names, NEW password \in Passwords,
             LoginOrSignup(w, name, password)
      PROVE  Goal
  <2>1. req'[w].token = None /\ \A v \in Workers \ {w} : req'[v] = req[v] /\ pc'[v] = pc[v]
    BY <1>3, LoginFields DEF LoginOrSignup, Continue
  <2> QED
    BY <1>3, <1>r, <2>1 DEF LoginOrSignup, Continue, history
<1>4. ASSUME NEW w \in Workers, Lookup(w) PROVE Goal
  BY <1>4 DEF Lookup, Continue, history
<1>5. ASSUME NEW w \in Workers, SignIn(w) PROVE Goal
  <2>1. /\ req'[w].token \in {None, req[w].token} /\ pc'[w] # "insert"
        /\ \A v \in Workers \ {w} : req'[v] = req[v] /\ pc'[v] = pc[v]
    BY <1>5, <1>i DEF SignIn, Continue, End, Request
  <2> QED
    BY <1>5, <1>r, <2>1 DEF SignIn, history
<1>6. ASSUME NEW w \in Workers, CountUsers(w) PROVE Goal
  BY <1>6, <1>r, <1>i DEF CountUsers, Continue, End, history
<1>7. ASSUME NEW w \in Workers, EmailExists(w) PROVE Goal
  BY <1>7, <1>r, <1>i DEF EmailExists, Continue, End, history
<1>8. ASSUME NEW w \in Workers, CreateAccount(w) PROVE Goal
  <2>1. /\ req'[w].token \in {None, req[w].token} /\ pc'[w] # "insert"
        /\ \A v \in Workers \ {w} : req'[v] = req[v] /\ pc'[v] = pc[v]
    BY <1>8, <1>i DEF CreateAccount, Continue, End, Request
  <2> QED
    BY <1>8, <1>r, <2>1 DEF CreateAccount, history
<1>9. ASSUME NEW w \in Workers, StartSession(w) PROVE Goal
  <2>1. PICK t \in Tokens \ Used :
              /\ req'[w].token = t
              /\ \A v \in Workers \ {w} : req'[v] = req[v]
    BY <1>9, StartFields
  <2>2. /\ t \notin answered /\ sessions[t] = None
        /\ \A v \in Workers : req[v].token # t
    BY <2>1 DEF Used
  <2>3. \A v \in Workers \ {w} : pc'[v] = pc[v]
    BY <1>9 DEF StartSession, Continue
  <2> QED
    BY <1>9, <2>1, <2>2, <2>3 DEF StartSession, history
<1>10. ASSUME NEW w \in Workers, CreateSession(w) PROVE Goal
  <2>1. /\ req[w].token \in Tokens /\ req[w].token \notin answered
        /\ \A v \in Workers \ {w} : req[v].token # req[w].token
    BY <1>10, <1>r DEF CreateSession, InsertSession
  <2>2. /\ req'[w].token = None /\ pc'[w] = "idle"
        /\ \A v \in Workers \ {w} : req'[v] = req[v] /\ pc'[v] = pc[v]
    BY <1>10, <1>i DEF CreateSession, End
  <2>3. /\ \A t \in Tokens \ {req[w].token} : sessions'[t] \in {None, sessions[t]}
        /\ answered' = answered \cup {req[w].token}
        /\ signedOut' = signedOut /\ seen' = seen
    BY <1>10 DEF CreateSession, InsertSession
  <2> QED
    BY <1>r, <2>1, <2>2, <2>3
<1>11. ASSUME NEW w \in Workers, NEW t \in Tokens, UseSession(w, t) \/ SignOut(w, t)
       PROVE  Goal
  <2>1. t \in answered /\ pc'[w] # "insert" /\ \A v \in Workers \ {w} : pc'[v] = pc[v]
    BY <1>11 DEF UseSession, SignOut, Continue
  <2>2. req'[w].token = t /\ \A v \in Workers \ {w} : req'[v] = req[v]
    BY <1>11, UseFields
  <2>3. UNCHANGED <<sessions, answered, signedOut, seen>>
    BY <1>11 DEF UseSession, SignOut, history
  <2> QED
    BY <1>r, <2>1, <2>2, <2>3
<1>12. ASSUME NEW w \in Workers, FindSession(w) PROVE Goal
  <2>1. /\ req'[w].token \in {None, req[w].token} /\ pc'[w] # "insert"
        /\ \A v \in Workers \ {w} : req'[v] = req[v] /\ pc'[v] = pc[v]
    BY <1>12, <1>i DEF FindSession, Continue, End
  <2>2. req[w].token \in answered
    BY <1>12 DEF FindSession, RequestInv
  <2>3. \A t \in Tokens : seen'[t] # None => t = req[w].token \/ seen[t] # None
    BY <1>12 DEF FindSession, Seen
  <2> QED
    BY <1>12, <1>r, <2>1, <2>2, <2>3 DEF FindSession
<1>13. ASSUME NEW w \in Workers, ExtendSession(w) PROVE Goal
  <2>1. /\ req'[w].token = None /\ pc'[w] = "idle"
        /\ \A v \in Workers \ {w} : req'[v] = req[v] /\ pc'[v] = pc[v]
    BY <1>13, <1>i DEF ExtendSession, End
  <2>2. req[w].token \in answered
    BY <1>13 DEF ExtendSession, RequestInv
  <2>3. \A t \in Tokens : seen'[t] # None => t = req[w].token \/ seen[t] # None
    BY <1>13 DEF ExtendSession, Seen
  <2>4. \A t \in Tokens : sessions[t] = None => sessions'[t] = None
    BY <1>13 DEF ExtendSession
  <2> QED
    BY <1>13, <1>r, <2>1, <2>2, <2>3, <2>4 DEF ExtendSession
<1>14. ASSUME NEW w \in Workers, DeleteSession(w) PROVE Goal
  <2>1. /\ req'[w].token = None /\ pc'[w] = "idle"
        /\ \A v \in Workers \ {w} : req'[v] = req[v] /\ pc'[v] = pc[v]
    BY <1>14, <1>i DEF DeleteSession, End
  <2>2. req[w].token \in answered
    BY <1>14 DEF DeleteSession, RequestInv
  <2> QED
    BY <1>14, <1>r, <2>1, <2>2 DEF DeleteSession
<1>15. ASSUME NEW w \in Workers, Fail(w) PROVE Goal
  <2>1. /\ req'[w].token = None /\ pc'[w] = "idle"
        /\ \A v \in Workers \ {w} : req'[v] = req[v] /\ pc'[v] = pc[v]
    BY <1>15, <1>i DEF Fail, End
  <2>2. UNCHANGED <<answered, signedOut, seen>>
    BY <1>15 DEF Fail, history
  <2>3. CASE UNCHANGED sessions
    BY <1>r, <2>1, <2>2, <2>3
  <2>4. CASE InsertSession(w)
    <3>1. /\ req[w].token \in Tokens /\ req[w].token \notin answered
          /\ \A v \in Workers \ {w} : req[v].token # req[w].token
      BY <1>r, <2>4 DEF InsertSession
    <3>2. \A t \in Tokens \ {req[w].token} : sessions'[t] \in {None, sessions[t]}
      BY <2>4 DEF InsertSession
    <3> QED
      BY <1>r, <2>1, <2>2, <3>1, <3>2
  <2> QED
    BY <1>15, <2>3, <2>4 DEF Fail
<1> QED
  BY <1>1, <1>2, <1>3, <1>4, <1>5, <1>6, <1>7, <1>8, <1>9, <1>10, <1>11, <1>12, <1>13,
     <1>14, <1>15 DEF Next, Login, Use

-----------------------------------------------------------------------------

\* The instants as integers.
LEMMA Instants ==
    ASSUME TypeOK
    PROVE  /\ clock \in Int
           /\ \A w \in Workers : req[w].now \in Int
           /\ \A t \in Tokens : seen[t] # None => seen[t] \in Int
           /\ \A t \in Tokens : sessions[t] # None =>
                 sessions[t] \in Session /\ sessions[t].expires \in Int
BY Constants DEF TypeOK, Request, Session

\* The instants stay close to the clock, and the last use of a session is not
\* in the future.
LEMMA NextTimeInv ==
    ASSUME TypeOK, TypeOK', TimeInv, RequestInv, [Next]_vars
    PROVE  TimeInv'
<1> USE Constants, Instants DEF TimeInv, Timed
<1>1. CASE UNCHANGED vars
  BY <1>1 DEF vars
<1>2. CASE Tick
  BY <1>2 DEF Tick, history
<1>3. ASSUME NEW w \in Workers, pc'[w] \notin Timed \/ (pc'[w] = pc[w] /\ req'[w] = req[w]),
             \A v \in Workers \ {w} : pc'[v] = pc[v] /\ req'[v] = req[v],
             UNCHANGED <<clock, seen>>
      PROVE  TimeInv'
  BY <1>3
<1>4. ASSUME NEW w \in Workers,
             \/ \E name \in Names, password \in Passwords : LoginOrSignup(w, name, password)
             \/ Lookup(w) \/ SignIn(w) \/ CountUsers(w) \/ EmailExists(w)
             \/ CreateAccount(w) \/ CreateSession(w) \/ DeleteSession(w) \/ Fail(w)
      PROVE  TimeInv'
  <2>1. pc'[w] \notin Timed /\ UNCHANGED <<clock, seen>>
    BY <1>4 DEF LoginOrSignup, Lookup, SignIn, CountUsers, EmailExists, CreateAccount,
                CreateSession, DeleteSession, Fail, Continue, End, history, TypeOK
  <2>2. \A v \in Workers \ {w} : pc'[v] = pc[v] /\ req'[v] = req[v]
    BY <1>4 DEF LoginOrSignup, Lookup, SignIn, CountUsers, EmailExists, CreateAccount,
                CreateSession, DeleteSession, Fail, Continue, End, TypeOK
  <2> QED
    BY <1>3, <2>1, <2>2
<1>5. ASSUME NEW w \in Workers, StartSession(w) PROVE TimeInv'
  <2>1. req'[w].now = clock /\ \A v \in Workers \ {w} : req'[v] = req[v]
    BY <1>5, StartFields
  <2>2. /\ \A v \in Workers \ {w} : pc'[v] = pc[v]
        /\ UNCHANGED <<clock, seen>>
    BY <1>5 DEF StartSession, Continue, history, TypeOK
  <2> QED
    BY <2>1, <2>2
<1>6. ASSUME NEW w \in Workers, NEW t \in Tokens, UseSession(w, t) \/ SignOut(w, t)
      PROVE  TimeInv'
  <2>1. /\ \A v \in Workers \ {w} : pc'[v] = pc[v]
        /\ UNCHANGED <<clock, seen>>
    BY <1>6 DEF UseSession, SignOut, Continue, history, TypeOK
  <2> QED
    BY <1>6, <2>1, UseFields
<1>7. ASSUME NEW w \in Workers, FindSession(w) \/ ExtendSession(w) PROVE TimeInv'
  <2>1. req[w].now <= clock /\ req[w].token \in Tokens
    BY <1>7 DEF FindSession, ExtendSession, RequestInv
  <2>2. \A t \in Tokens : seen'[t] = seen[t] \/ seen'[t] = req[w].now
    BY <1>7, <2>1 DEF FindSession, ExtendSession, Seen, TypeOK
  <2>3. /\ pc'[w] \notin Timed \/ (pc[w] = "find" /\ req'[w] = req[w])
        /\ \A v \in Workers \ {w} : pc'[v] = pc[v] /\ req'[v] = req[v]
        /\ UNCHANGED clock
    BY <1>7 DEF FindSession, ExtendSession, Continue, End, TypeOK
  <2> QED
    BY <2>1, <2>2, <2>3
<1> QED
  BY <1>1, <1>2, <1>4, <1>5, <1>6, <1>7 DEF Next, Login, Use

\* A session that was used lately is kept.  A purge deletes what had ended when
\* its request read the clock, and a renewal out of order is at most MaxDelay
\* behind, which UpdateAge covers.
LEMMA NextActiveSessionLasts ==
    ASSUME TypeOK, TypeOK', TimeInv, RequestInv, TokenInv, ActiveSessionLasts, [Next]_vars
    PROVE  ActiveSessionLasts'
<1> DEFINE Lasts(t) ==
        seen[t] # None /\ clock < seen[t] + Lifetime - UpdateAge =>
            /\ sessions[t] # None
            /\ sessions[t].expires >= seen[t] + Lifetime - UpdateAge
<1> SUFFICES ASSUME NEW t \in Tokens, t \notin signedOut' PROVE Lasts(t)'
  BY DEF ActiveSessionLasts
<1> USE Constants
<1>i. /\ clock \in Int /\ clock' \in Int
      /\ \A w \in Workers : req[w].now \in Int
      /\ seen[t] # None => seen[t] \in Int
      /\ sessions[t] # None => sessions[t] \in Session /\ sessions[t].expires \in Int
  BY Instants DEF TypeOK, Time
<1>s. t \notin signedOut
  BY DEF Next, Login, Use, LoginOrSignup, Lookup, SignIn, CountUsers, EmailExists,
         CreateAccount, StartSession, CreateSession, UseSession, SignOut, FindSession,
         ExtendSession, DeleteSession, Fail, Tick, history, vars
<1>l. Lasts(t)
  BY <1>s DEF ActiveSessionLasts
<1> HIDE DEF Lasts
<1>1. CASE UNCHANGED <<clock, sessions, seen>>
  BY <1>1, <1>l DEF Lasts
<1>2. CASE Tick
  BY <1>2, <1>i, <1>l DEF Tick, history, Lasts
<1>3. ASSUME NEW w \in Workers, InsertSession(w), UNCHANGED <<clock, seen>> PROVE Lasts(t)'
  <2>1. req[w].now <= clock
    BY <1>3 DEF InsertSession, TimeInv, Timed
  <2>2. CASE t = req[w].token
    <3>1. seen[t] = None
      BY <1>3, <2>2 DEF InsertSession, TokenInv
    <3> QED
      BY <1>3, <3>1 DEF Lasts
  <2>3. CASE t # req[w].token
    <3>1. sessions'[t] = IF sessions[t] # None /\ sessions[t].expires <= req[w].now
                         THEN None ELSE sessions[t]
      BY <1>3, <2>3 DEF InsertSession
    <3> QED
      BY <1>3, <1>i, <1>l, <2>1, <3>1 DEF Lasts
  <2> QED
    BY <2>2, <2>3
<1>4. ASSUME NEW w \in Workers, FindSession(w) PROVE Lasts(t)'
  <2>1. UNCHANGED <<clock, sessions>>
    BY <1>4 DEF FindSession
  <2>2. CASE seen'[t] = seen[t]
    BY <1>l, <2>1, <2>2 DEF Lasts
  <2>3. CASE seen'[t] # seen[t]
    <3>1. /\ t = req[w].token /\ seen'[t] = req[w].now
          /\ Valid(sessions[t], req[w].now) /\ ~MustRenew(sessions[t], req[w].now)
      BY <1>4, <2>3 DEF FindSession, Seen, TypeOK
    <3> QED
      BY <1>i, <2>1, <3>1 DEF Lasts, Valid, MustRenew
  <2> QED
    BY <2>2, <2>3
<1>5. ASSUME NEW w \in Workers, ExtendSession(w) PROVE Lasts(t)'
  <2>1. UNCHANGED clock /\ req[w].now <= clock /\ clock <= req[w].now + MaxDelay
    BY <1>5 DEF ExtendSession, TimeInv, Timed
  <2>2. CASE UNCHANGED <<sessions, seen>> \/ t # req[w].token
    <3>1. sessions'[t] = sessions[t] /\ seen'[t] = seen[t]
      BY <1>5, <2>2 DEF ExtendSession, Seen, TypeOK
    <3> QED
      BY <1>l, <2>1, <3>1 DEF Lasts
  <2>3. CASE ~UNCHANGED <<sessions, seen>> /\ t = req[w].token
    <3>1. /\ sessions[t] # None
          /\ sessions' = [sessions EXCEPT ![t].expires = req[w].now + Lifetime]
          /\ Seen(w)
      BY <1>5, <2>3 DEF ExtendSession
    <3>2. sessions'[t] = [sessions[t] EXCEPT !.expires = req[w].now + Lifetime]
      BY <3>1 DEF TypeOK
    <3>3. sessions'[t] \in Session /\ sessions'[t].expires = req[w].now + Lifetime
      BY <1>i, <3>1, <3>2 DEF Session, TypeOK, Request
    <3>4. /\ seen'[t] \in {seen[t], req[w].now}
          /\ seen'[t] # None => seen'[t] <= clock
      BY <1>i, <2>1, <2>3, <3>1 DEF Seen, TypeOK, TimeInv
    <3>5. seen'[t] # None => seen'[t] \in Int
      BY <1>i, <3>4
    <3> QED
      BY <1>i, <2>1, <3>3, <3>4, <3>5 DEF Lasts
  <2> QED
    BY <2>2, <2>3
<1>6. ASSUME NEW w \in Workers, DeleteSession(w) PROVE Lasts(t)'
  <2>1. t # req[w].token
    BY <1>6 DEF DeleteSession
  <2>2. sessions'[t] = sessions[t] /\ UNCHANGED <<clock, seen>>
    BY <1>6, <2>1 DEF DeleteSession, TypeOK
  <2> QED
    BY <1>l, <2>2 DEF Lasts
<1> QED
  BY <1>1, <1>2, <1>3, <1>4, <1>5, <1>6
     DEF Next, Login, Use, LoginOrSignup, Lookup, SignIn, CountUsers, EmailExists,
         CreateAccount, StartSession, CreateSession, UseSession, SignOut, Fail, history, vars

-----------------------------------------------------------------------------

\* A new account has a name and an id that no account has.
LEMMA NewAccount ==
    ASSUME TypeOK, UserInv, SessionsAreAuthenticated, NEW name \in Names,
           NEW password, Named(name) = {},
           users' = users \cup {[id |-> NewId, name |-> name, password |-> password]}
    PROVE  /\ UserInv'
           /\ Cardinality(users') = Cardinality(users) + 1
           /\ \A u, v \in users' : u.name = v.name \/ u.id = v.id => u = v
<1> DEFINE new == [id |-> NewId, name |-> name, password |-> password]
<1>1. Cardinality(users) \in Nat
  BY FS_CardinalityType DEF UserInv
<1>2. \A u \in users : u.id \in Int /\ u.id # new.id /\ u.name # new.name
  BY <1>1 DEF UserInv, NewId, Named, TypeOK, User, UserIds
<1>3. new \notin users
  BY <1>2
<1>4. IsFiniteSet(users') /\ Cardinality(users') = Cardinality(users) + 1
  BY <1>3, FS_AddElement DEF UserInv
<1>5. \A u \in users' : u.id <= Cardinality(users')
  BY <1>1, <1>2, <1>4 DEF UserInv, NewId
<1>6. ASSUME NEW u \in users', NEW v \in users', u.name = v.name \/ u.id = v.id
      PROVE  u = v
  BY <1>2, <1>6 DEF SessionsAreAuthenticated
<1> QED
  BY <1>4, <1>5, <1>6 DEF UserInv

\* The row of a token that a step leaves as it is, or takes away, stays
\* authenticated.
LEMMA StaysAuthenticated ==
    ASSUME SessionsAreAuthenticated, users' = users,
           NEW t \in Tokens, sessions'[t] \in {None, sessions[t]}, sessions'[t] # None
    PROVE  [id |-> sessions'[t].user, name |-> sessions'[t].name,
            password |-> sessions'[t].password] \in users'
BY DEF SessionsAreAuthenticated

\* The accounts stay distinct, and a session is opened with the credentials of
\* its account only.
LEMMA NextUserInv ==
    ASSUME TypeOK, RequestInv, UserInv, SessionsAreAuthenticated, [Next]_vars
    PROVE  UserInv' /\ SessionsAreAuthenticated'
<1> DEFINE Goal == UserInv' /\ SessionsAreAuthenticated'
<1> USE Constants
<1>1. ASSUME UNCHANGED users, UNCHANGED sessions PROVE Goal
  BY <1>1 DEF UserInv, SessionsAreAuthenticated
<1>2. ASSUME UNCHANGED users,
             \A t \in Tokens : sessions'[t] # None =>
                [id |-> sessions'[t].user, name |-> sessions'[t].name,
                 password |-> sessions'[t].password] \in users
      PROVE  Goal
  BY <1>2 DEF UserInv, SessionsAreAuthenticated
<1>3. ASSUME NEW w \in Workers, CreateAccount(w) PROVE Goal
  <2>1. CASE UNCHANGED users
    BY <1>1, <1>3, <2>1 DEF CreateAccount
  <2>2. CASE ~UNCHANGED users
    <3>1. /\ req[w].name \in Names /\ Named(req[w].name) = {}
          /\ users' = users \cup {[id |-> NewId, name |-> req[w].name,
                                   password |-> req[w].password]}
          /\ sessions' = sessions
      BY <1>3, <2>2 DEF CreateAccount, RequestInv
    <3>2. /\ UserInv'
          /\ \A u, v \in users' : u.name = v.name \/ u.id = v.id => u = v
      BY <3>1, NewAccount
    <3> QED
      BY <3>1, <3>2 DEF SessionsAreAuthenticated
  <2> QED
    BY <2>1, <2>2
<1>4. ASSUME NEW w \in Workers, InsertSession(w), UNCHANGED users PROVE Goal
  <2>1. Credential(w) \in users /\ users' = users
    BY <1>4 DEF InsertSession, RequestInv
  <2>2. ASSUME NEW t \in Tokens, sessions'[t] # None
        PROVE  [id |-> sessions'[t].user, name |-> sessions'[t].name,
                password |-> sessions'[t].password] \in users
    <3>1. CASE t = req[w].token
      <4>1. sessions'[t] = [user |-> req[w].user, expires |-> req[w].now + Lifetime,
                            name |-> req[w].name, password |-> req[w].password]
        BY <1>4, <3>1 DEF InsertSession
      <4> QED
        BY <2>1, <4>1 DEF Credential
    <3>2. CASE t # req[w].token
      <4>1. sessions'[t] \in {None, sessions[t]}
        BY <1>4, <3>2 DEF InsertSession
      <4> QED
        BY <2>1, <2>2, <4>1, StaysAuthenticated
    <3> QED
      BY <3>1, <3>2
  <2> QED
    BY <1>2, <2>1, <2>2
<1>5. ASSUME NEW w \in Workers, ExtendSession(w) PROVE Goal
  <2>1. users' = users
    BY <1>5 DEF ExtendSession
  <2>2. CASE UNCHANGED sessions
    BY <1>1, <2>1, <2>2
  <2>3. CASE ~UNCHANGED sessions
    <3>1. /\ sessions[req[w].token] # None
          /\ sessions' = [sessions EXCEPT ![req[w].token].expires = req[w].now + Lifetime]
      BY <1>5, <2>3 DEF ExtendSession
    <3>2. ASSUME NEW t \in Tokens, sessions'[t] # None
          PROVE  [id |-> sessions'[t].user, name |-> sessions'[t].name,
                  password |-> sessions'[t].password] \in users
      <4>1. CASE t = req[w].token
        <5>1. /\ sessions[t] \in Session
              /\ sessions'[t] = [sessions[t] EXCEPT !.expires = req[w].now + Lifetime]
          BY <3>1, <4>1 DEF TypeOK
        <5>2. /\ sessions'[t].user = sessions[t].user
              /\ sessions'[t].name = sessions[t].name
              /\ sessions'[t].password = sessions[t].password
          BY <5>1 DEF Session
        <5> QED
          BY <3>1, <4>1, <5>2 DEF SessionsAreAuthenticated
      <4>2. CASE t # req[w].token
        <5>1. sessions'[t] = sessions[t]
          BY <3>1, <4>2 DEF TypeOK
        <5> QED
          BY <3>2, <5>1 DEF SessionsAreAuthenticated
      <4> QED
        BY <4>1, <4>2
    <3> QED
      BY <1>2, <2>1, <3>2
  <2> QED
    BY <2>2, <2>3
<1>6. ASSUME NEW w \in Workers, DeleteSession(w) PROVE Goal
  <2>1. users' = users /\ \A t \in Tokens : sessions'[t] \in {None, sessions[t]}
    BY <1>6 DEF DeleteSession, TypeOK
  <2> QED
    BY <1>2, <2>1, StaysAuthenticated
<1> QED
  BY <1>1, <1>3, <1>4, <1>5, <1>6
     DEF Next, Login, Use, LoginOrSignup, Lookup, SignIn, CountUsers, EmailExists,
         StartSession, CreateSession, UseSession, SignOut, FindSession, Fail, Tick, history, vars

-----------------------------------------------------------------------------

\* The sign-ups in flight are finitely many, at most the workers.
LEMMA RegisteringIsFinite ==
    /\ IsFiniteSet(Registering) /\ Cardinality(Registering) \in Nat
    /\ Cardinality(Workers) \in Nat /\ Cardinality(Registering) <= Cardinality(Workers)
BY FS_Subset, FS_CardinalityType, ConstantsAssumption DEF Registering

\* A request that leaves the registration, or passes none of its steps, adds
\* nobody to those that may still create an account.
LEMMA FewerRegistering ==
    ASSUME CountInv, UserInv, users' = users,
           Registering' \subseteq Registering
    PROVE  CountInv'
<1>1. Cardinality(Registering') <= Cardinality(Registering)
  BY FS_Subset, RegisteringIsFinite
<1>2. Cardinality(Registering') \in Nat /\ Cardinality(users) \in Nat
  BY FS_Subset, FS_CardinalityType, RegisteringIsFinite DEF UserInv
<1> QED
  BY <1>1, <1>2, RegisteringIsFinite, Constants DEF CountInv

\* The accounts and the sign-ups that may still create one stay together below
\* the limit and the number of requests.
LEMMA NextCountInv ==
    ASSUME TypeOK, RequestInv, UserInv, CountInv, SessionsAreAuthenticated, [Next]_vars
    PROVE  CountInv'
<1> USE Constants
<1>0. Cardinality(users) \in Nat
  BY FS_CardinalityType DEF UserInv
<1>1. ASSUME UNCHANGED users, UNCHANGED pc PROVE CountInv'
  BY <1>1 DEF CountInv, Registering
<1>2. ASSUME NEW w \in Workers, UNCHANGED users,
             pc'[w] \in {"exists", "create"} => pc[w] \in {"exists", "create"},
             \A v \in Workers \ {w} : pc'[v] = pc[v]
      PROVE  CountInv'
  <2>1. Registering' \subseteq Registering
    BY <1>2 DEF Registering
  <2> QED
    BY <1>2, <2>1, FewerRegistering
<1>3. ASSUME NEW w \in Workers, CountUsers(w) PROVE CountInv'
  <2>1. CASE Cardinality(users) >= MaxUsers
    BY <1>0, <1>2, <1>3, <2>1 DEF CountUsers, End, TypeOK
  <2>2. CASE Cardinality(users) < MaxUsers
    <3>1. users' = users
      BY <1>3 DEF CountUsers
    <3>2. Cardinality(Registering') <= Cardinality(Workers) /\ Cardinality(Registering') \in Nat
      <4>1. Registering' \subseteq Workers
        BY DEF Registering
      <4> QED
        BY <4>1, FS_Subset, FS_CardinalityType, ConstantsAssumption
    <3> QED
      BY <1>0, <2>2, <3>1, <3>2, RegisteringIsFinite DEF CountInv
  <2> QED
    BY <1>0, <2>1, <2>2
<1>4. ASSUME NEW w \in Workers, EmailExists(w) PROVE CountInv'
  BY <1>2, <1>4 DEF EmailExists, Continue, End, history, TypeOK
<1>5. ASSUME NEW w \in Workers, CreateAccount(w) PROVE CountInv'
  <2>1. CASE UNCHANGED users
    <3>1. \A v \in Workers \ {w} : pc'[v] = pc[v]
      BY <1>5 DEF CreateAccount, Continue, End, TypeOK
    <3>2. pc[w] = "create"
      BY <1>5 DEF CreateAccount
    <3> QED
      BY <1>2, <2>1, <3>1, <3>2
  <2>2. CASE ~UNCHANGED users
    <3>1. /\ req[w].name \in Names /\ Named(req[w].name) = {}
          /\ users' = users \cup {[id |-> NewId, name |-> req[w].name,
                                   password |-> req[w].password]}
          /\ pc[w] = "create" /\ pc' = [pc EXCEPT ![w] = "start"]
      BY <1>5, <2>2 DEF CreateAccount, RequestInv, Continue
    <3>2. Cardinality(users') = Cardinality(users) + 1
      BY <3>1, NewAccount
    <3>3. w \in Registering /\ Registering' = Registering \ {w}
      BY <3>1 DEF Registering, TypeOK
    <3>4. Cardinality(Registering') = Cardinality(Registering) - 1
      BY <3>3, FS_RemoveElement, RegisteringIsFinite
    <3> QED
      BY <1>0, <3>2, <3>4, RegisteringIsFinite DEF CountInv
  <2> QED
    BY <2>1, <2>2
<1>6. ASSUME NEW w \in Workers,
             \/ \E name \in Names, password \in Passwords : LoginOrSignup(w, name, password)
             \/ \E t \in Tokens : UseSession(w, t) \/ SignOut(w, t)
             \/ Lookup(w) \/ SignIn(w) \/ StartSession(w) \/ CreateSession(w)
             \/ FindSession(w) \/ ExtendSession(w) \/ DeleteSession(w) \/ Fail(w)
      PROVE  CountInv'
  <2>1. UNCHANGED users /\ pc'[w] \notin {"exists", "create"}
    BY <1>6 DEF LoginOrSignup, UseSession, SignOut, Lookup, SignIn, StartSession,
         CreateSession, FindSession, ExtendSession, DeleteSession, Fail, Continue, End, TypeOK
  <2>2. \A v \in Workers \ {w} : pc'[v] = pc[v]
    BY <1>6 DEF LoginOrSignup, UseSession, SignOut, Lookup, SignIn, StartSession,
         CreateSession, FindSession, ExtendSession, DeleteSession, Fail, Continue, End, TypeOK
  <2> QED
    BY <1>2, <2>1, <2>2
<1> QED
  BY <1>1, <1>3, <1>4, <1>5, <1>6 DEF Next, Login, Use, Tick, vars

-----------------------------------------------------------------------------

\* The initial states satisfy the invariant.
LEMMA InitIInv == Init => IInv
<1> SUFFICES ASSUME Init PROVE IInv
  OBVIOUS
<1>1. TypeOK
  BY InitTypeOK
<1>2. RequestInv /\ TokenInv /\ TimeInv
  BY DEF Init, RequestInv, TokenInv, TimeInv, Timed
<1>3. UserInv /\ Cardinality(users) = 0
  BY FS_EmptySet DEF Init, UserInv
<1>4. CountInv
  <2>1. Registering = {}
    BY DEF Init, Registering
  <2>2. Cardinality(Workers) >= 1
    BY ConstantsAssumption, FS_EmptySet, RegisteringIsFinite
  <2> QED
    BY <1>3, <2>1, <2>2, FS_EmptySet, RegisteringIsFinite, Constants DEF CountInv
<1>5. SessionsAreAuthenticated /\ SignedOutStaysOut /\ ActiveSessionLasts
  BY DEF Init, SessionsAreAuthenticated, SignedOutStaysOut, ActiveSessionLasts
<1> QED
  BY <1>1, <1>2, <1>3, <1>4, <1>5 DEF IInv

\* Every step keeps it.
LEMMA NextIInv == IInv /\ [Next]_vars => IInv'
BY NextTypeOK, NextRequestInv, NextTokenInv, NextTimeInv, NextUserInv, NextCountInv,
   NextActiveSessionLasts DEF IInv

\* The inductive invariant holds in every reachable state.
THEOREM Invariant == Spec => []IInv
BY InitIInv, NextIInv, PTL DEF Spec

\* Every reachable state is typed.
THEOREM TypeCorrect == Spec => []TypeOK
BY Invariant, PTL DEF IInv

\* However the statements of sign-ins, sign-ups and renewals interleave, a
\* session belongs to the account whose name and password opened it, and no name
\* has two accounts (account::sign_up, store/accounts.rs create_account).
THEOREM SessionsAuthenticated == Spec => []SessionsAreAuthenticated
BY Invariant, PTL DEF IInv

\* Sign-ups that race pass MAX_USERS by less than their number (count_users and
\* create_account are two statements).
THEOREM RegistrationBounded == Spec => []RegistrationCloses
<1>1. IInv => RegistrationCloses
  BY RegisteringIsFinite, FS_CardinalityType, Constants
     DEF IInv, UserInv, CountInv, RegistrationCloses
<1> QED
  BY <1>1, Invariant, PTL

\* A session whose sign-out deleted it never has a row again, although
\* renewals of it may still be in flight (store/sessions.rs extend_session).
THEOREM SignOutIsFinal == Spec => []SignedOutStaysOut
BY Invariant, PTL DEF IInv

\* A session that let a request in lasts Lifetime - UpdateAge from that request,
\* as long as a request takes no longer than UpdateAge (session::current).
THEOREM ActiveSessionIsKept == Spec => []ActiveSessionLasts
BY Invariant, PTL DEF IInv

=============================================================================
