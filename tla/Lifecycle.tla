------------------------------ MODULE Lifecycle ------------------------------
(* A deployment of the service: the release step `migrate`, the process     *)
(* `serve` from its schema check to its exit, and the stop sequence of      *)
(* lifecycle.rs and main.rs: the grace for active requests, the job tasks,  *)
(* the pool, the blocking tasks of the runtime. Releases follow each other  *)
(* and may go back to an older build; `migrate` of the next one runs while  *)
(* the process of the last one still serves.                                *)
(*                                                                          *)
(* Time counts from the stop signal, in steps of 5 s, which divides every   *)
(* deadline of the sequence.                                                *)
EXTENDS Integers, FiniteSets, FiniteSetsExt

CONSTANTS
    Builds,             \* the migrations of each build, as sets of versions
    Connections,        \* connections of clients
    MaxConnections,     \* max_connections of the pool
    ShutdownGrace,      \* SHUTDOWN_GRACE
    StopTimeout,        \* STOP_TIMEOUT, of the tasks and of the pool
    RuntimeShutdown,    \* RUNTIME_SHUTDOWN
    DrainingSeconds,    \* RAILWAY_DEPLOYMENT_DRAINING_SECONDS
    MaxReleases         \* bound: releases after the first

ASSUME LifecycleAssumption ==
    /\ \A b \in Builds : b \subseteq Nat \ {0}
    /\ MaxConnections \in Nat \ {0}
    /\ {ShutdownGrace, StopTimeout, RuntimeShutdown, DrainingSeconds} \subseteq Nat
    \* the platform waits longer than the whole stop sequence
    /\ ShutdownGrace + 2 * StopTimeout + RuntimeShutdown < DrainingSeconds

VARIABLES
    ledger,         \* the applied migrations, _sqlx_migrations
    release,        \* the release step: its build, and what it does
    releases,       \* releases so far
    phase,          \* where `serve` is
    build,          \* the build that serves
    elapsed,        \* time since the stop signal
    since,          \* time in this phase of the stop sequence
    client,         \* the request of each connection
    tasks,          \* the job tasks and the start-up forecast
    blocking        \* the forecast computation on the blocking pool runs

lifecycleVars ==
    <<ledger, release, releases, phase, build, elapsed, since, client, tasks, blocking>>

Jobs == {"scheduler", "startup"}

(* The phases of the stop sequence, in the order of serve and main. *)
Stopping == {"draining", "stopTasks", "closePool", "runtimeShutdown"}

PoolOpen == phase \in {"serving", "draining", "stopTasks"}
Holding == {c \in Connections : client[c] = "query"}

LifecycleInit ==
    /\ ledger = {} /\ releases = 0
    /\ release \in {[step |-> "migrate", build |-> b] : b \in Builds}
    /\ phase = "down" /\ build = {}
    /\ elapsed = 0 /\ since = 0
    /\ client = [c \in Connections |-> "none"]
    /\ tasks = {} /\ blocking = FALSE

processVars == <<phase, build, elapsed, since, client, tasks, blocking>>

----------------------------------------------------------------------------
(* The release step.                                                        *)

(* MIGRATOR.run refuses a ledger with a migration that this build does not  *)
(* have (version_missing); it applies the pending ones in order, each with  *)
(* its ledger row in one transaction.                                       *)
ApplyMigration ==
    /\ release.step = "migrate"
    /\ ledger \subseteq release.build
    /\ release.build \ ledger # {}
    /\ ledger' = ledger \union {Min(release.build \ ledger)}
    /\ UNCHANGED <<release, releases>> /\ UNCHANGED processVars

(* The release continues to the start of `serve` only when `migrate` exits  *)
(* with success. It fails when the ledger has a migration of another build, *)
(* when a statement or the connection fails, and at its deadline; the       *)
(* migrations that it had applied stay. An older build that is rolled back  *)
(* to is started without the release step.                                  *)
EndMigrate(success) ==
    /\ release.step = "migrate"
    /\ success => release.build = ledger
    /\ release' = [release EXCEPT !.step = IF success THEN "deploy" ELSE "failed"]
    /\ UNCHANGED <<ledger, releases>> /\ UNCHANGED processVars

NextRelease ==
    /\ release.step \in {"deploy", "failed", "served"}
    /\ releases < MaxReleases
    /\ releases' = releases + 1
    /\ \E b \in Builds, step \in {"migrate", "deploy"} :
         release' = [step |-> step, build |-> b]
    /\ UNCHANGED ledger /\ UNCHANGED processVars

----------------------------------------------------------------------------
(* `serve` until the stop signal.                                           *)

(* Mutant: the check compares the number of migrations. *)
EnsureMigratedCount(b) == Cardinality(b) <= Cardinality(ledger)

(* ensure_migrated: every migration of this build is in the ledger. *)
EnsureMigrated(b) == b \subseteq ledger

(* The process starts, with the build of the release or, after a crash or   *)
(* an exit, with the build that it had.                                     *)
StartServe ==
    /\ phase = "down"
    /\ \/ release.step = "deploy" /\ build' = release.build
          /\ release' = [release EXCEPT !.step = "served"]
       \/ build # {} /\ UNCHANGED <<build, release>>
    /\ phase' = "check"
    /\ UNCHANGED <<ledger, releases, elapsed, since, client, tasks, blocking>>

(* The schema check. Without its migrations, or when the ledger cannot be   *)
(* read in time, the process closes its pool and exits with an error.       *)
CheckSchema ==
    /\ phase = "check"
    /\ \/ EnsureMigrated(build) /\ phase' = "bind"
       \/ phase' = "down"
    /\ UNCHANGED <<ledger, release, releases, build, elapsed, since, client, tasks, blocking>>

(* The listener is bound, the scheduler and the start-up forecast start; or *)
(* the address is in use and the process exits.                             *)
BindAndStart ==
    /\ phase = "bind"
    /\ \/ phase' = "serving" /\ tasks' = Jobs /\ blocking' = TRUE
       \/ phase' = "down" /\ UNCHANGED <<tasks, blocking>>
    /\ UNCHANGED <<ledger, release, releases, build, elapsed, since, client>>

(* The process is killed; a signal before its handler is installed does the *)
(* same. Every request and task ends where it is.                           *)
Kill ==
    /\ phase # "down"
    /\ phase' = "down" /\ elapsed' = 0 /\ since' = 0
    /\ client' = [c \in Connections |-> "none"]
    /\ tasks' = {} /\ blocking' = FALSE
    /\ UNCHANGED <<ledger, release, releases, build>>

----------------------------------------------------------------------------
(* Requests. A connection is a task of its own, which the server future     *)
(* does not own: when the grace ends it goes on until the runtime stops.    *)

(* The server accepts a request until the stop signal. *)
AcceptRequest(c) ==
    /\ phase = "serving"
    /\ client[c] = "none"
    /\ client' = [client EXCEPT ![c] = "active"]
    /\ UNCHANGED <<ledger, release, releases, phase, build, elapsed, since, tasks, blocking>>

(* A handler gets a connection of the pool. When the pool is closed, or     *)
(* gives none in time, the request is answered with an error; GET /health   *)
(* then answers 503.                                                        *)
AcquireConnection(c) ==
    /\ client[c] = "active"
    /\ \/ PoolOpen /\ Cardinality(Holding) < MaxConnections
          /\ client' = [client EXCEPT ![c] = "query"]
       \/ ~PoolOpen
          /\ client' = [client EXCEPT ![c] = "refused"]
       \/ PoolOpen /\ Cardinality(Holding) = MaxConnections
          /\ client' = [client EXCEPT ![c] = "busy"]
    /\ UNCHANGED <<ledger, release, releases, phase, build, elapsed, since, tasks, blocking>>

(* The handler has what it needs and answers. *)
AnswerRequest(c) ==
    /\ client[c] \in {"active", "query"}
    /\ client' = [client EXCEPT ![c] = "answered"]
    /\ UNCHANGED <<ledger, release, releases, phase, build, elapsed, since, tasks, blocking>>

(* The client reads its answer and closes the connection. *)
Disconnect(c) ==
    /\ client[c] \in {"answered", "busy", "refused", "cut"}
    /\ client' = [client EXCEPT ![c] = "none"]
    /\ UNCHANGED <<ledger, release, releases, phase, build, elapsed, since, tasks, blocking>>

----------------------------------------------------------------------------
(* The tasks.                                                               *)

(* A task ends: the start-up forecast when its result is there, at its      *)
(* deadline or at the stop signal, a job loop at the stop signal, when it   *)
(* next awaits.                                                             *)
TaskEnds(t) ==
    /\ t \in tasks
    /\ t = "scheduler" => phase # "serving"
    /\ tasks' = tasks \ {t}
    /\ UNCHANGED <<ledger, release, releases, phase, build, elapsed, since, client, blocking>>

(* The computation of the start-up forecast ends. It does not end with the  *)
(* task that waits for it.                                                  *)
ComputationEnds ==
    /\ blocking
    /\ blocking' = FALSE
    /\ UNCHANGED <<ledger, release, releases, phase, build, elapsed, since, client, tasks>>

----------------------------------------------------------------------------
(* The stop sequence.                                                       *)

(* SIGTERM or SIGINT: the server accepts no more, the tasks see the stop. *)
StopSignal ==
    /\ phase = "serving"
    /\ phase' = "draining" /\ elapsed' = 0 /\ since' = 0
    /\ UNCHANGED <<ledger, release, releases, build, client, tasks, blocking>>

(* Mutant: the server stops at the signal, without the grace. *)
DrainOverAtOnce == TRUE

(* A step of the sequence is over when what it waits for is done, and at    *)
(* its time limit.                                                          *)
DrainOver == (\A c \in Connections : client[c] = "none") \/ since >= ShutdownGrace

TasksOver == tasks = {} \/ since >= StopTimeout

PoolOver == Holding = {} \/ since >= StopTimeout

RuntimeOver == ~blocking \/ since >= RuntimeShutdown

StepOver ==
    CASE phase = "draining" -> DrainOver
      [] phase = "stopTasks" -> TasksOver
      [] phase = "closePool" -> PoolOver
      [] phase = "runtimeShutdown" -> RuntimeOver

After(p) ==
    CASE p = "draining" -> "stopTasks"
      [] p = "stopTasks" -> "closePool"
      [] p = "closePool" -> "runtimeShutdown"
      [] p = "runtimeShutdown" -> "down"

(* serve goes on to the next step. stop_tasks aborts the tasks that are     *)
(* left, the shutdown of the runtime drops every request that is left, and  *)
(* the exit ends the process.                                               *)
NextStep ==
    /\ phase \in Stopping
    /\ StepOver
    /\ phase' = After(phase)
    /\ since' = 0
    /\ elapsed' = IF phase = "runtimeShutdown" THEN 0 ELSE elapsed
    /\ tasks' = IF phase = "stopTasks" THEN {} ELSE tasks
    /\ blocking' = (blocking /\ phase # "runtimeShutdown")
    /\ client' = [c \in Connections |->
         IF phase = "closePool" /\ client[c] \in {"active", "query"} THEN "cut"
         ELSE IF phase = "runtimeShutdown" THEN "none" ELSE client[c]]
    /\ UNCHANGED <<ledger, release, releases, build>>

(* Five seconds pass; a step that is over ends first. *)
PassFiveSeconds ==
    /\ phase \in Stopping
    /\ ~StepOver
    /\ elapsed' = elapsed + 1
    /\ since' = since + 1
    /\ UNCHANGED <<ledger, release, releases, phase, build, client, tasks, blocking>>

LifecycleNext ==
    \/ ApplyMigration \/ (\E success \in BOOLEAN : EndMigrate(success)) \/ NextRelease
    \/ StartServe \/ CheckSchema \/ BindAndStart \/ Kill
    \/ \E c \in Connections :
         AcceptRequest(c) \/ AcquireConnection(c) \/ AnswerRequest(c) \/ Disconnect(c)
    \/ (\E t \in Jobs : TaskEnds(t)) \/ ComputationEnds
    \/ StopSignal \/ NextStep \/ PassFiveSeconds

----------------------------------------------------------------------------
(* Only a process that serves or stops has requests, tasks or time.         *)
LifecycleTypeOK ==
    /\ phase \in Stopping \union {"down", "check", "bind", "serving"}
    /\ phase \in {"down", "check", "bind"} =>
         /\ tasks = {} /\ ~blocking /\ elapsed = 0
         /\ client = [c \in Connections |-> "none"]
    /\ tasks \subseteq Jobs
    /\ phase \in {"closePool", "runtimeShutdown"} => tasks = {}

(* Whatever its requests, tasks and computations do, a process that stops    *)
(* ends before the platform kills it (lifecycle.rs:21-22), and a request that *)
(* was accepted before the signal is cut, or refused by the closed pool, only *)
(* when it is still active after the whole grace.                             *)
StopKeepsItsBounds ==
    /\ elapsed < DrainingSeconds
    /\ \A c \in Connections : client[c] \in {"cut", "refused"} => elapsed >= ShutdownGrace

(* A process that takes requests has every migration of its build, also     *)
(* when a later release migrates, fails half-way or is rolled back          *)
(* (lifecycle.rs, serve: "Refuses to start when a migration of this build   *)
(* is not applied").                                                        *)
ServesItsSchema == phase \in {"serving"} \union Stopping => build \subseteq ledger
=============================================================================
