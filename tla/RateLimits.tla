----------------------------- MODULE RateLimits -----------------------------
(* The three fixed-window limiters of http/rate_limit.rs and the middleware *)
(* layers that ask them: global_limit, login_limit, and authenticate with   *)
(* limit around the price routes.                                           *)
(*                                                                          *)
(* A layer reads the clock, and only then takes the lock of its limiter, so *)
(* another request may pass it in between: ReadClock and Check are two      *)
(* steps. A request waits at most MaxDelay ticks between them.              *)
EXTENDS Integers, FiniteSets, Sequences, SequencesExt, FiniteSetsExt, Functions, TLC

CONSTANTS
    Slots,          \* requests in flight
    Requests,       \* [path, headers, caller]: see Paths, ClientKey, Users
    Users,          \* the callers whose API key is valid: their user ids
    Limit, Length,  \* requests and ticks of a window, by limiter
    MaxKeys,        \* MAX_KEYS
    MaxDelay,       \* the longest wait for the lock of a limiter
    MaxClock        \* bound of the clock

Limiters == {"global", "login", "apiKey"}
Paths == {"health", "login", "price", "other"}

ASSUME LimitsAssumption ==
    /\ Limit \in [Limiters -> Nat \ {0}]
    /\ Length \in [Limiters -> Nat \ {0}]
    /\ MaxKeys \in Nat \ {0}
    /\ MaxDelay \in Nat
    \* a wait for the lock is short against a window of a minute or more
    /\ \A l \in Limiters : 2 * MaxDelay <= Length[l]
    /\ \A q \in Requests : q.path \in Paths

VARIABLES
    clock,          \* the time, in ticks
    windows,        \* the map of each limiter: key -> [hits, resetAt]
    request,        \* the request of each slot
    admitted,       \* history: key -> the times a limiter allowed it, see Admitting
    forgotten       \* history: keys whose live window was evicted

limitsVars == <<clock, windows, request, admitted, forgotten>>

Unread == -1        \* the layer has not read the clock yet
NoRequest == [path |-> "none", layer |-> "idle"]
NoHeaders == [limiter |-> "none", allowed |-> TRUE, remaining |-> 0]

(* client_key: X-Real-IP, else the first X-Forwarded-For entry, else        *)
(* "unknown". Each header is the sequence of its entries, <<>> when absent. *)
ClientKey(headers) ==
    IF headers.realIp # <<>> THEN headers.realIp
    ELSE IF headers.forwarded # <<>> THEN <<Head(headers.forwarded)>>
    ELSE <<"unknown">>

LimitsInit ==
    /\ clock = 0
    /\ windows = [l \in Limiters |-> <<>>]
    /\ request = [s \in Slots |-> NoRequest]
    /\ admitted = <<>>
    /\ forgotten = {}

----------------------------------------------------------------------------
(* Limiter::check.                                                          *)

(* The map with `value` at `key`. *)
Put(table, key, value) ==
    [k \in DOMAIN table \union {key} |-> IF k = key THEN value ELSE table[k]]

Live(table, at) == {k \in DOMAIN table : table[k].resetAt > at}

(* The key that leaves a full table: the one whose window ends first. *)
FirstToEnd(table) ==
    {k \in DOMAIN table : \A j \in DOMAIN table : table[k].resetAt <= table[j].resetAt}

(* The tables that make room for `key`: a full one loses its expired        *)
(* windows, and when that is not enough one that ends first.                *)
WithRoom(table, key, at) ==
    IF key \in DOMAIN table \/ Cardinality(DOMAIN table) < MaxKeys THEN {table}
    ELSE LET live == Restrict(table, Live(table, at)) IN
         IF Cardinality(DOMAIN live) < MaxKeys THEN {live}
         ELSE {Restrict(live, DOMAIN live \ {k}) : k \in FirstToEnd(live)}

(* Mutant: a request with an older instant than its window restarts it. *)
WindowAtOlder(l, table, key, at) ==
    IF key \in DOMAIN table /\ table[key].resetAt > at /\ table[key].resetAt <= at + Length[l]
      THEN table[key]
      ELSE [hits |-> 0, resetAt |-> at + Length[l]]

(* The window of `key` at `at`: a new one when there is none or it ended. *)
WindowAt(l, table, key, at) ==
    IF key \in DOMAIN table /\ table[key].resetAt > at THEN table[key]
    ELSE [hits |-> 0, resetAt |-> at + Length[l]]

(* One more hit. More than Limit + 1 of them are not told apart. *)
Counted(l, window) == [window EXCEPT !.hits = Min({@ + 1, Limit[l] + 1})]

Decision(l, window) ==
    [limiter |-> l,
     allowed |-> window.hits <= Limit[l],
     remaining |-> Max({0, Limit[l] - window.hits})]

----------------------------------------------------------------------------
(* The layers of the router.                                                *)

(* Mutant: the global layer does not look for headers before it sets its own. *)
SetHeadersAlways(shown, decision, passThrough) ==
    IF passThrough THEN shown ELSE decision

(* The headers that a layer puts on an answer: one that let the request     *)
(* pass sets its own, unless the answer is passed through; the global layer *)
(* leaves those of an inner layer alone.                                    *)
SetHeaders(shown, decision, passThrough) ==
    IF passThrough \/ (decision.limiter = "global" /\ shown # NoHeaders)
      THEN shown
      ELSE decision

(* The headers of an answer on its way out through the layers that let its  *)
(* request pass: the global one and one inside it, in this order. A 429     *)
(* always shows the limiter that refused.                                   *)
Shown(refusal, passed, passThrough) ==
    LET inner == IF Len(passed) = 2 THEN SetHeaders(refusal, passed[2], passThrough)
                 ELSE refusal
    IN  IF passed = <<>> THEN refusal ELSE SetHeaders(inner, passed[1], passThrough)

Answered(r, status, refusal, passThrough) ==
    [path |-> r.path, layer |-> "answered", status |-> status, passThrough |-> passThrough,
     passed |-> r.passed, shown |-> Shown(refusal, r.passed, passThrough)]

(* What a layer that let the request pass runs next. *)
Inner(r, l) ==
    CASE l = "global" /\ r.path = "login" -> "login"
      [] l = "global" /\ r.path = "price" -> "authenticate"
      [] OTHER -> "handler"

(* The key of a request in a limiter, and the limiter of a key. *)
KeyIn(r, l) ==
    IF l = "apiKey" THEN <<"apikey", r.caller>> ELSE <<l, r.client>>

LimiterOf(key) == IF key[1] = "apikey" THEN "apiKey" ELSE key[1]

(* A request arrives; GET /health passes the global limiter by. *)
Arrive(s, q) ==
    /\ request[s].layer = "idle"
    /\ request' = [request EXCEPT ![s] =
          [path |-> q.path, client |-> ClientKey(q.headers), caller |-> q.caller,
           layer |-> IF q.path = "health" THEN "handler" ELSE "global",
           at |-> Unread, passed |-> <<>>]]
    /\ UNCHANGED <<clock, windows, admitted, forgotten>>

(* state.now() of the layer that the request is in. *)
ReadClock(s) ==
    /\ request[s].layer \in Limiters
    /\ request[s].at = Unread
    /\ request' = [request EXCEPT ![s].at = clock]
    /\ UNCHANGED <<clock, windows, admitted, forgotten>>

(* The history after a decision: each time a key was allowed is the instant *)
(* and a number among those of the same instant.                            *)
Admitting(key, decision) ==
    LET earlier == IF key \in DOMAIN admitted THEN admitted[key] ELSE {}
        now == {a \in earlier : a[1] = clock}
    IN  IF ~decision.allowed THEN admitted
        ELSE Put(admitted, key, earlier \union {<<clock, Cardinality(now)>>})

(* The check under the lock, and the answer 429 or the next layer. *)
Check(s) ==
    LET r == request[s]
        l == r.layer
        key == KeyIn(r, l)
    IN  /\ l \in Limiters
        /\ r.at # Unread
        /\ \E table \in WithRoom(windows[l], key, r.at) :
             LET window == Counted(l, WindowAt(l, table, key, r.at))
                 decision == Decision(l, window)
                 history == Admitting(key, decision)
             IN  /\ windows' = [windows EXCEPT ![l] = Put(table, key, window)]
                 /\ forgotten' = forgotten \union (Live(windows[l], r.at) \ DOMAIN table)
                 (* an evicted key has no history any more *)
                 /\ admitted' = Restrict(history, DOMAIN history \ forgotten')
                 /\ request' = [request EXCEPT ![s] =
                      IF decision.allowed
                        THEN [r EXCEPT !.layer = Inner(r, l), !.at = Unread,
                                       !.passed = Append(@, decision)]
                        ELSE Answered(r, 429, decision, FALSE)]
        /\ UNCHANGED clock

(* authenticate: 401 without a valid key, 500 when the store fails. *)
Authenticate(s) ==
    /\ request[s].layer = "authenticate"
    /\ \E status \in {200, 401, 500} :
         /\ status = 200 => request[s].caller \in Users
         /\ status = 401 => request[s].caller \notin Users
         /\ request' = [request EXCEPT ![s] =
              IF status = 200 THEN [@ EXCEPT !.layer = "apiKey"]
              ELSE Answered(@, status, NoHeaders, FALSE)]
    /\ UNCHANGED <<clock, windows, admitted, forgotten>>

(* A handler answers. Only the session handlers pass an answer of Better    *)
(* Auth through.                                                            *)
Answer(s) ==
    /\ request[s].layer = "handler"
    /\ \E passThrough \in BOOLEAN :
         /\ passThrough => request[s].path \in {"login", "other"}
         /\ request' = [request EXCEPT ![s] = Answered(@, 200, NoHeaders, passThrough)]
    /\ UNCHANGED <<clock, windows, admitted, forgotten>>

Leave(s) ==
    /\ request[s].layer = "answered"
    /\ request' = [request EXCEPT ![s] = NoRequest]
    /\ UNCHANGED <<clock, windows, admitted, forgotten>>

(* Time passes, but no request waits for a lock longer than MaxDelay. The   *)
(* history keeps the instants that a span of one window can still hold.     *)
PassTime ==
    /\ clock < MaxClock
    /\ \A s \in Slots :
         request[s].layer \in Limiters /\ request[s].at # Unread
           => clock - request[s].at < MaxDelay
    /\ clock' = clock + 1
    /\ admitted' = [k \in DOMAIN admitted |->
         {a \in admitted[k] : a[1] + Length[LimiterOf(k)] > clock + 1}]
    /\ UNCHANGED <<windows, request, forgotten>>

LimitsNext ==
    \/ \E s \in Slots, q \in Requests : Arrive(s, q)
    \/ \E s \in Slots :
         ReadClock(s) \/ Check(s) \/ Authenticate(s) \/ Answer(s) \/ Leave(s)
    \/ PassTime

----------------------------------------------------------------------------
(* The windows of a limiter never pass MAX_KEYS, and each one ends within   *)
(* a window of the present (rate_limit.rs, Limiter::check).                 *)
LimitsTypeOK ==
    /\ clock \in 0..MaxClock
    /\ \A l \in Limiters :
         /\ Cardinality(DOMAIN windows[l]) <= MaxKeys
         /\ \A k \in DOMAIN windows[l] :
              windows[l][k].hits > 0 /\ windows[l][k].resetAt <= clock + Length[l]
    /\ \A s \in Slots : request[s].layer \in
         Limiters \union {"idle", "authenticate", "handler", "answered"}

(* What the fixed windows promise of real time: in a span as long as the    *)
(* window, a key that was never evicted passes at most twice its limit, and *)
(* three times when requests may wait for the lock after they read the      *)
(* clock, because a late one counts in a window that is already over, or    *)
(* starts one when that was dropped.                                        *)
Times == IF MaxDelay = 0 THEN 2 ELSE 3

SpanAdmitsAtMost ==
    \A k \in DOMAIN admitted :
       Cardinality(admitted[k]) <= Times * Limit[LimiterOf(k)]

(* Every answer shows the innermost limiter that ran (rate_limit.rs:10-12): *)
(* the one that refused it, else the last one that let it pass. An answer   *)
(* passed through from Better Auth shows none (http/mod.rs, PassThrough),   *)
(* and /health is never limited.                                            *)
AnswerShowsItsLimiter ==
    \A s \in Slots :
      LET r == request[s] IN
      r.layer = "answered" =>
        CASE r.path = "health" \/ r.passThrough -> r.shown = NoHeaders /\ r.status # 429
          [] r.status = 429 -> r.shown # NoHeaders /\ ~r.shown.allowed /\ r.shown.remaining = 0
          [] OTHER -> /\ r.passed # <<>>
                      /\ r.shown = Last(r.passed)
                      /\ (r.path = "price" /\ r.status = 200) => r.shown.limiter = "apiKey"
                      /\ r.path = "login" => r.shown.limiter = "login"
=============================================================================
