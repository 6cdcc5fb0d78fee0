--------------------------- MODULE PasswordHasher ---------------------------
(* auth/password.rs: scrypt runs on the blocking thread pool, behind a      *)
(* semaphore of MAX_CONCURRENT_HASHES permits. The permit belongs to the    *)
(* future of the request, the hash to a blocking task: a client that goes   *)
(* away drops the first and not the second.                                 *)
EXTENDS Integers, FiniteSets, Sequences, SequencesExt

CONSTANTS
    Sessions,               \* sign-in requests
    Passwords,              \* passwords as they are typed
    Normal,                 \* the NFKC form of a password
    Salts,
    MaxConcurrentHashes,    \* MAX_CONCURRENT_HASHES
    MaxAbandoned            \* bound: clients that go away during a hash

ASSUME HasherAssumption ==
    /\ IsFiniteSet(Sessions)
    /\ MaxConcurrentHashes \in Nat \ {0}
    /\ DOMAIN Normal = Passwords
    /\ MaxAbandoned \in Nat

VARIABLES
    signIn,     \* the step of each request, and its work or its result
    waiters,    \* the queue of the semaphore, first come first served
    permits,    \* free permits
    hashes,     \* the blocking tasks that run: the request and its work
    abandoned   \* tasks whose request is gone

hasherVars == <<signIn, waiters, permits, hashes, abandoned>>

Absent == [step |-> "idle"]
Malformed == [salt |-> "none", key |-> <<>>]   \* text without a salt or a key

(* The stored text of a password: its salt and its key, which depends on    *)
(* the NFKC form and on the salt only.                                      *)
DeriveKey(password, salt) == <<Normal[password], salt>>
HashWithSalt(password, salt) == [salt |-> salt, key |-> DeriveKey(password, salt)]

(* verify_blocking: text without a salt or a key is an error. *)
VerifyBlocking(stored, password) ==
    IF stored = Malformed THEN "MalformedHash"
    ELSE IF DeriveKey(password, stored.salt) = stored.key THEN "match" ELSE "mismatch"

(* The work of hash (a new account, with a random salt) and of verify.      *)
HashWork(password) == {[kind |-> "hash", password |-> password, salt |-> s] : s \in Salts}
StoredHashes == {Malformed} \union {HashWithSalt(p, s) : p \in Passwords, s \in Salts}
VerifyWork(password) ==
    {[kind |-> "verify", password |-> password, stored |-> h] : h \in StoredHashes}

Result(work) ==
    IF work.kind = "hash" THEN HashWithSalt(work.password, work.salt)
    ELSE VerifyBlocking(work.stored, work.password)

HasherInit ==
    /\ signIn = [r \in Sessions |-> Absent]
    /\ waiters = <<>>
    /\ permits = MaxConcurrentHashes
    /\ hashes = {}
    /\ abandoned = 0

(* hash or verify is called: the request queues for a permit. *)
CallHasher(r) ==
    /\ signIn[r] = Absent
    /\ \E password \in Passwords : \E work \in HashWork(password) \union VerifyWork(password) :
         signIn' = [signIn EXCEPT ![r] = [step |-> "waiting", work |-> work]]
    /\ waiters' = Append(waiters, r)
    /\ UNCHANGED <<permits, hashes, abandoned>>

(* hash draws its salt first, and ends when there are no random bytes. *)
NoRandomBytes(r) ==
    /\ signIn[r] = Absent
    /\ signIn' = [signIn EXCEPT ![r] = [step |-> "done", result |-> "Random"]]
    /\ UNCHANGED <<waiters, permits, hashes, abandoned>>

(* run: the first waiter gets a free permit and spawns its task. *)
AcquirePermit(r) ==
    /\ waiters # <<>> /\ Head(waiters) = r
    /\ permits > 0
    /\ permits' = permits - 1
    /\ waiters' = Tail(waiters)
    /\ hashes' = hashes \union {<<r, signIn[r].work>>}
    /\ signIn' = [signIn EXCEPT ![r].step = "hashing"]
    /\ UNCHANGED abandoned

(* A task ends. Its request, when it still waits for it, gets the result    *)
(* and releases the permit.                                                 *)
FinishHash(r) ==
    \E task \in hashes :
      /\ task[1] = r
      /\ hashes' = hashes \ {task}
      /\ IF signIn[r].step = "hashing" /\ signIn[r].work = task[2]
           THEN /\ signIn' = [signIn EXCEPT ![r] = [step |-> "done", result |-> Result(task[2])]]
                /\ permits' = permits + 1
                /\ UNCHANGED abandoned
           ELSE /\ abandoned' = abandoned - 1
                /\ UNCHANGED <<signIn, permits>>
      /\ UNCHANGED waiters

(* A waiter leaves the queue of the semaphore where it stands. *)
LeaveQueue(r) ==
    /\ signIn[r].step = "waiting"
    /\ \E i \in 1 .. Len(waiters) : waiters[i] = r /\ waiters' = RemoveAt(waiters, i)
    /\ UNCHANGED <<permits, abandoned>>

(* A hash goes on without its request. *)
AbandonHash(r) ==
    /\ signIn[r].step = "hashing" /\ abandoned < MaxAbandoned
    /\ abandoned' = abandoned + 1
    /\ UNCHANGED waiters

(* Mutant: the permit of a dropped request is not given back. *)
DropSignInLeaks(r) ==
    /\ LeaveQueue(r) \/ (AbandonHash(r) /\ UNCHANGED permits)
    /\ signIn' = [signIn EXCEPT ![r] = [step |-> "gone"]]
    /\ UNCHANGED hashes

(* The client goes away: its future is dropped where it waits, and with it  *)
(* its place in the queue or its permit.                                    *)
DropSignIn(r) ==
    /\ LeaveQueue(r) \/ (AbandonHash(r) /\ permits' = permits + 1)
    /\ signIn' = [signIn EXCEPT ![r] = [step |-> "gone"]]
    /\ UNCHANGED hashes

(* Another sign-in uses the slot of one that ended. *)
NextSignIn(r) ==
    /\ signIn[r].step \in {"done", "gone"}
    /\ \A task \in hashes : task[1] # r
    /\ signIn' = [signIn EXCEPT ![r] = Absent]
    /\ UNCHANGED <<waiters, permits, hashes, abandoned>>

HasherNext ==
    \E r \in Sessions :
      \/ CallHasher(r) \/ NoRandomBytes(r) \/ AcquirePermit(r)
      \/ FinishHash(r) \/ DropSignIn(r) \/ NextSignIn(r)

----------------------------------------------------------------------------
(* What the doc of PasswordHasher and of MAX_CONCURRENT_HASHES says: no     *)
(* more hashes run at the same time than there are permits.                 *)
HashesWithinPermits == Cardinality(hashes) <= MaxConcurrentHashes

(* What holds of the code: every hash above the permits is one whose client *)
(* went away, and no permit is lost or made.                                *)
OnlyAbandonedHashesExceed ==
    /\ Cardinality(hashes) <= MaxConcurrentHashes + abandoned
    /\ permits + Cardinality({r \in Sessions : signIn[r].step = "hashing"})
         = MaxConcurrentHashes
=============================================================================
