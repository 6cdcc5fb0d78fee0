---------------------------- MODULE ServiceProofs -----------------------------
(***************************************************************************)
(* Proofs about the hash permits, the life cycle of the process and the    *)
(* rate limits, as MCService composes them: any number of sign-ins,        *)
(* permits, connections and builds, any time limits whose sum the platform *)
(* allows, and any requests, limits and windows, with waits for the lock   *)
(* of at most half a window.                                               *)
(***************************************************************************)
EXTENDS MCService, FiniteSetTheorems, SequenceTheorems, TLAPS

-----------------------------------------------------------------------------
(* PasswordHasher.                                                         *)

AnyWork == UNION {HashWork(p) \cup VerifyWork(p) : p \in Passwords}

SignIn ==
    {Absent, [step |-> "gone"]}
    \cup [step : {"waiting", "hashing"}, work : AnyWork]
    \cup [step : {"done"}, result : {Result(work) : work \in AnyWork} \cup {"Random"}]

Hashing == {r \in Sessions : signIn[r].step = "hashing"}

\* The tasks whose request no longer waits for them.
Orphans == {task \in hashes : signIn[task[1]].step # "hashing"}

SignInInv == signIn \in [Sessions -> SignIn]

\* The queue holds each request that waits, once.
QueueInv ==
    /\ waiters \in Seq(Sessions)
    /\ \A i \in 1 .. Len(waiters) : signIn[waiters[i]].step = "waiting"
    /\ \A i, j \in 1 .. Len(waiters) : waiters[i] = waiters[j] => i = j

\* A request has one task at most, and its own while it waits for it.
TaskInv ==
    /\ hashes \subseteq Sessions \X AnyWork
    /\ \A task, other \in hashes : task[1] = other[1] => task = other
    /\ \A r \in Hashing : <<r, signIn[r].work>> \in hashes
    /\ \A task \in hashes : signIn[task[1]].step \in {"hashing", "gone"}

PermitInv ==
    /\ permits \in Nat /\ abandoned \in Nat
    /\ IsFiniteSet(hashes)
    /\ abandoned = Cardinality(Orphans)
    /\ Cardinality(hashes) = Cardinality(Hashing) + abandoned
    /\ permits + Cardinality(Hashing) = MaxConcurrentHashes

HasherIInv == SignInInv /\ QueueInv /\ TaskInv /\ PermitInv

\* The sets that are counted are finite.
LEMMA FiniteCounts ==
    ASSUME PermitInv
    PROVE  /\ IsFiniteSet(Hashing) /\ Cardinality(Hashing) \in Nat
           /\ IsFiniteSet(Orphans) /\ Cardinality(Orphans) \in Nat
           /\ IsFiniteSet(hashes) /\ Cardinality(hashes) \in Nat
<1>1. IsFiniteSet(Hashing)
  BY FS_Subset, HasherAssumption DEF Hashing
<1>2. IsFiniteSet(hashes) /\ IsFiniteSet(Orphans)
  BY FS_Subset DEF PermitInv, Orphans
<1> QED
  BY <1>1, <1>2, FS_CardinalityType

\* The states of a request are told apart by their step.
LEMMA SignInSteps ==
    ASSUME SignInInv, NEW r \in Sessions
    PROVE  /\ signIn[r].step \in {"idle", "waiting", "hashing", "done", "gone"}
           /\ signIn[r].step = "idle" <=> signIn[r] = Absent
           /\ signIn[r].step \in {"waiting", "hashing"} =>
                signIn[r] \in [step : {"waiting", "hashing"}, work : AnyWork]
<1>1. signIn[r] \in SignIn
  BY DEF SignInInv
<1> QED
  BY <1>1 DEF SignIn, Absent

\* A step that changes no task, and no request to or from hashing.
LEMMA CountsStay ==
    ASSUME PermitInv, TaskInv, hashes' = hashes, permits' = permits, abandoned' = abandoned,
           \A q \in Sessions : signIn'[q].step = "hashing" <=> signIn[q].step = "hashing"
    PROVE  PermitInv'
<1>1. Hashing' = Hashing
  BY DEF Hashing
<1>2. Orphans' = Orphans
  BY DEF Orphans, TaskInv
<1> QED
  BY <1>1, <1>2 DEF PermitInv

-----------------------------------------------------------------------------

\* What leaves a sequence at a place moves the rest up.
LEMMA RemovedAt ==
    ASSUME NEW S, NEW s \in Seq(S), NEW i \in 1 .. Len(s)
    PROVE  /\ RemoveAt(s, i) \in Seq(S)
           /\ Len(RemoveAt(s, i)) = Len(s) - 1
           /\ \A j \in 1 .. Len(s) - 1 : RemoveAt(s, i)[j] = s[IF j < i THEN j ELSE j + 1]
<1> DEFINE front == SubSeq(s, 1, i - 1)
           back == SubSeq(s, i + 1, Len(s))
<1>1. Len(s) \in Nat /\ i \in Int
  OBVIOUS
<1>2. /\ front \in Seq(S) /\ Len(front) = i - 1
      /\ \A j \in 1 .. i - 1 : front[j] = s[j]
  BY <1>1, SubSeqProperties
<1>3. /\ back \in Seq(S) /\ Len(back) = Len(s) - i
      /\ \A j \in 1 .. Len(s) - i : back[j] = s[i + j]
  <2>1. IF i + 1 <= Len(s) + 1 THEN Len(back) = Len(s) - (i + 1) + 1 ELSE Len(back) = 0
    BY <1>1, SubSeqProperties
  <2> QED
    BY <1>1, <2>1, SubSeqProperties
<1>4. RemoveAt(s, i) = front \o back
  BY DEF RemoveAt
<1> HIDE DEF front, back
<1>5. /\ front \o back \in Seq(S) /\ Len(front \o back) = Len(front) + Len(back)
      /\ \A j \in 1 .. Len(front) + Len(back) :
            (front \o back)[j] = IF j <= Len(front) THEN front[j] ELSE back[j - Len(front)]
  BY <1>2, <1>3, ConcatProperties
<1>6. ASSUME NEW j \in 1 .. Len(s) - 1
      PROVE  (front \o back)[j] = s[IF j < i THEN j ELSE j + 1]
  <2>1. CASE j < i
    BY <1>1, <1>2, <1>3, <1>5, <2>1
  <2>2. CASE ~(j < i)
    <3>1. (front \o back)[j] = back[j - (i - 1)] /\ j - (i - 1) \in 1 .. Len(s) - i
      BY <1>1, <1>2, <1>3, <1>5, <2>2
    <3>2. i + (j - (i - 1)) = j + 1
      BY <1>1
    <3> QED
      BY <1>3, <2>2, <3>1, <3>2
  <2> QED
    BY <2>1, <2>2
<1> QED
  BY <1>1, <1>2, <1>3, <1>4, <1>5, <1>6

\* A request joins the queue.
LEMMA NextCall ==
    ASSUME HasherIInv, NEW r \in Sessions, CallHasher(r)
    PROVE  HasherIInv'
<1>1. PICK work \in AnyWork :
           signIn' = [signIn EXCEPT ![r] = [step |-> "waiting", work |-> work]]
  BY DEF CallHasher, AnyWork
<1>2. /\ SignInInv' /\ signIn[r].step = "idle" /\ signIn'[r].step = "waiting"
      /\ \A q \in Sessions : q # r => signIn'[q] = signIn[q]
  BY <1>1 DEF HasherIInv, SignInInv, SignIn, CallHasher, Absent
<1>3. waiters \in Seq(Sessions) /\ waiters' = Append(waiters, r) /\ Len(waiters) \in Nat
  BY DEF HasherIInv, QueueInv, CallHasher
<1>4. \A i \in 1 .. Len(waiters) : waiters[i] # r /\ waiters[i] \in Sessions
  BY <1>2, <1>3 DEF HasherIInv, QueueInv
<1>5. QueueInv'
  <2>1. /\ waiters' \in Seq(Sessions) /\ Len(waiters') = Len(waiters) + 1
        /\ \A i \in 1 .. Len(waiters) : waiters'[i] = waiters[i]
        /\ waiters'[Len(waiters) + 1] = r
    BY <1>3, AppendProperties
  <2>2. \A i \in 1 .. Len(waiters') : i \in 1 .. Len(waiters) \/ i = Len(waiters) + 1
    BY <1>3, <2>1
  <2> QED
    BY <1>2, <1>4, <2>1, <2>2 DEF HasherIInv, QueueInv
<1>6. TaskInv'
  <2>1. hashes' = hashes /\ Hashing' = Hashing /\ \A task \in hashes : task[1] # r
    BY <1>2 DEF CallHasher, Hashing, HasherIInv, TaskInv
  <2> QED
    BY <1>2, <2>1 DEF HasherIInv, TaskInv, Hashing
<1>7. PermitInv'
  BY <1>2, CountsStay DEF HasherIInv, CallHasher
<1> QED
  BY <1>2, <1>5, <1>6, <1>7 DEF HasherIInv

\* A request ends before it queued, or its slot is used again: it waits for
\* nothing before and after, and has no task.
LEMMA NextOutside ==
    ASSUME HasherIInv, NEW r \in Sessions, NoRandomBytes(r) \/ NextSignIn(r)
    PROVE  HasherIInv'
<1>1. /\ signIn[r].step \in {"idle", "done", "gone"} /\ signIn'[r].step \in {"idle", "done"}
      /\ SignInInv' /\ \A q \in Sessions : q # r => signIn'[q] = signIn[q]
  BY DEF HasherIInv, SignInInv, SignIn, NoRandomBytes, NextSignIn, Absent
<1>2. /\ waiters' = waiters /\ hashes' = hashes /\ permits' = permits
      /\ abandoned' = abandoned
  BY DEF NoRandomBytes, NextSignIn
<1>3. \A task \in hashes : task[1] # r
  BY DEF NoRandomBytes, NextSignIn, Absent, HasherIInv, TaskInv
<1>4. \A i \in 1 .. Len(waiters) : waiters[i] # r /\ waiters[i] \in Sessions
  BY <1>1 DEF HasherIInv, QueueInv
<1>5. QueueInv'
  BY <1>1, <1>2, <1>4 DEF HasherIInv, QueueInv
<1>6. Hashing' = Hashing
  BY <1>1 DEF Hashing
<1>7. TaskInv'
  BY <1>1, <1>2, <1>3, <1>6 DEF HasherIInv, TaskInv, Hashing
<1>8. PermitInv'
  BY <1>1, <1>2, CountsStay DEF HasherIInv
<1> QED
  BY <1>1, <1>5, <1>7, <1>8 DEF HasherIInv

\* The first of the queue takes a permit and starts its task.
LEMMA NextAcquire ==
    ASSUME HasherIInv, NEW r \in Sessions, AcquirePermit(r)
    PROVE  HasherIInv'
<1>1. /\ waiters \in Seq(Sessions) /\ waiters # <<>> /\ Len(waiters) \in Nat
      /\ Len(waiters) >= 1 /\ waiters[1] = r
  BY DEF HasherIInv, QueueInv, AcquirePermit
<1>2. signIn[r].step = "waiting"
  BY <1>1 DEF HasherIInv, QueueInv
<1>3. /\ SignInInv' /\ signIn'[r].step = "hashing" /\ signIn'[r].work = signIn[r].work
      /\ signIn[r].work \in AnyWork
      /\ \A q \in Sessions : q # r => signIn'[q] = signIn[q]
  <2>1. signIn[r] \in [step : {"waiting", "hashing"}, work : AnyWork]
    BY <1>2, SignInSteps DEF HasherIInv
  <2>2. /\ [signIn[r] EXCEPT !.step = "hashing"] \in [step : {"waiting", "hashing"}, work : AnyWork]
        /\ [signIn[r] EXCEPT !.step = "hashing"].step = "hashing"
        /\ [signIn[r] EXCEPT !.step = "hashing"].work = signIn[r].work
        /\ signIn[r].work \in AnyWork
    BY <2>1
  <2>3. signIn' = [signIn EXCEPT ![r] = [signIn[r] EXCEPT !.step = "hashing"]]
    BY DEF AcquirePermit
  <2> QED
    BY <2>2, <2>3 DEF HasherIInv, SignInInv, SignIn
<1>4. QueueInv'
  <2>1. /\ waiters' = Tail(waiters) /\ waiters' \in Seq(Sessions)
        /\ Len(waiters') = Len(waiters) - 1
        /\ \A i \in 1 .. Len(waiters') : waiters'[i] = waiters[i + 1]
    BY <1>1, HeadTailProperties DEF AcquirePermit
  <2>2. \A i \in 1 .. Len(waiters') : i + 1 \in 1 .. Len(waiters) /\ i + 1 # 1
    BY <1>1, <2>1
  <2>3. \A i \in 1 .. Len(waiters') : waiters'[i] # r /\ waiters'[i] \in Sessions
                                      /\ signIn[waiters'[i]].step = "waiting"
    BY <1>1, <2>1, <2>2 DEF HasherIInv, QueueInv
  <2>4. \A i, j \in 1 .. Len(waiters') : waiters'[i] = waiters'[j] => i + 1 = j + 1
    BY <2>1, <2>2 DEF HasherIInv, QueueInv
  <2>5. \A i, j \in 1 .. Len(waiters') : i + 1 = j + 1 => i = j
    OBVIOUS
  <2> QED
    BY <1>3, <2>1, <2>3, <2>4, <2>5 DEF QueueInv
<1>5. /\ hashes' = hashes \cup {<<r, signIn[r].work>>}
      /\ \A task \in hashes : task[1] # r
  BY <1>2 DEF AcquirePermit, HasherIInv, TaskInv
<1>6. Hashing' = Hashing \cup {r} /\ r \notin Hashing
  BY <1>2, <1>3 DEF Hashing
<1>7. Orphans' = Orphans
  BY <1>3, <1>5 DEF Orphans, HasherIInv, TaskInv
<1>8. TaskInv'
  BY <1>3, <1>5, <1>6 DEF HasherIInv, TaskInv, Hashing
<1>9. PermitInv'
  <2>1. permits' = permits - 1 /\ permits > 0 /\ abandoned' = abandoned
    BY DEF AcquirePermit
  <2>2. /\ IsFiniteSet(hashes') /\ Cardinality(hashes') = Cardinality(hashes) + 1
    BY <1>5, FS_AddElement DEF HasherIInv, PermitInv
  <2>3. Cardinality(Hashing') = Cardinality(Hashing) + 1
    BY <1>6, FiniteCounts, FS_AddElement DEF HasherIInv
  <2> QED
    BY <1>7, <2>1, <2>2, <2>3, FiniteCounts, HasherAssumption DEF HasherIInv, PermitInv
<1> QED
  BY <1>3, <1>4, <1>8, <1>9 DEF HasherIInv

\* A task ends: with its request, or after it.
LEMMA NextFinish ==
    ASSUME HasherIInv, NEW r \in Sessions, FinishHash(r)
    PROVE  HasherIInv'
<1>1. PICK task \in hashes :
           /\ task[1] = r /\ hashes' = hashes \ {task}
           /\ IF signIn[r].step = "hashing" /\ signIn[r].work = task[2]
              THEN /\ signIn' = [signIn EXCEPT ![r] = [step |-> "done", result |-> Result(task[2])]]
                   /\ permits' = permits + 1
                   /\ UNCHANGED abandoned
              ELSE /\ abandoned' = abandoned - 1
                   /\ UNCHANGED <<signIn, permits>>
  BY DEF FinishHash
<1>2. waiters' = waiters
  BY DEF FinishHash
<1>3. /\ task \in Sessions \X AnyWork /\ \A other \in hashes \ {task} : other[1] # r
      /\ signIn[r].step \in {"hashing", "gone"}
  BY <1>1 DEF HasherIInv, TaskInv
<1>4. \A i \in 1 .. Len(waiters) : waiters[i] # r /\ waiters[i] \in Sessions
  BY <1>3 DEF HasherIInv, QueueInv
<1>5. IsFiniteSet(hashes') /\ Cardinality(hashes') = Cardinality(hashes) - 1
  BY <1>1, FS_RemoveElement DEF HasherIInv, PermitInv
<1>6. CASE signIn[r].step = "hashing"
  <2>1. <<r, signIn[r].work>> \in hashes
    BY <1>6 DEF HasherIInv, TaskInv, Hashing
  <2>2. task = <<r, signIn[r].work>>
    BY <1>1, <2>1 DEF HasherIInv, TaskInv
  <2>3. signIn[r].work = task[2]
    BY <2>2
  <2>4. /\ signIn' = [signIn EXCEPT ![r] = [step |-> "done", result |-> Result(task[2])]]
        /\ permits' = permits + 1 /\ abandoned' = abandoned
    BY <1>1, <1>6, <2>3
  <2>5. /\ SignInInv' /\ signIn'[r].step = "done"
        /\ \A q \in Sessions : q # r => signIn'[q] = signIn[q]
    <3>1. task[2] \in AnyWork
      BY <1>3
    <3> QED
      BY <2>4, <3>1 DEF HasherIInv, SignInInv, SignIn
  <2>6. QueueInv'
    BY <1>2, <1>4, <2>5 DEF HasherIInv, QueueInv
  <2>7. Hashing' = Hashing \ {r} /\ r \in Hashing
    BY <1>6, <2>5 DEF Hashing
  <2>8. TaskInv'
    BY <1>1, <1>3, <2>5, <2>7 DEF HasherIInv, TaskInv, Hashing
  <2>9. Orphans' = Orphans
    BY <1>1, <1>3, <1>6, <2>5 DEF Orphans, HasherIInv, TaskInv
  <2>10. PermitInv'
    <3>1. Cardinality(Hashing') = Cardinality(Hashing) - 1
      BY <2>7, FiniteCounts, FS_RemoveElement DEF HasherIInv
    <3> QED
      BY <1>5, <2>4, <2>9, <3>1, FiniteCounts DEF HasherIInv, PermitInv
  <2> QED
    BY <2>5, <2>6, <2>8, <2>10 DEF HasherIInv
<1>7. CASE signIn[r].step = "gone"
  <2>1. signIn' = signIn /\ permits' = permits /\ abandoned' = abandoned - 1
    BY <1>1, <1>7
  <2>2. SignInInv' /\ QueueInv'
    BY <1>2, <2>1 DEF HasherIInv, SignInInv, QueueInv
  <2>3. Hashing' = Hashing /\ r \notin Hashing
    BY <1>7, <2>1 DEF Hashing
  <2>4. TaskInv'
    BY <1>1, <1>3, <2>1, <2>3 DEF HasherIInv, TaskInv, Hashing
  <2>5. Orphans' = Orphans \ {task} /\ task \in Orphans
    BY <1>1, <1>7, <2>1 DEF Orphans
  <2>6. PermitInv'
    <3>1. /\ Cardinality(Orphans') = Cardinality(Orphans) - 1
          /\ Cardinality(Orphans') \in Nat
      <4>1. IsFiniteSet(Orphans') /\ Cardinality(Orphans') = Cardinality(Orphans) - 1
        BY <2>5, FiniteCounts, FS_RemoveElement DEF HasherIInv
      <4> QED
        BY <4>1, FS_CardinalityType
    <3> QED
      BY <1>5, <2>1, <2>3, <3>1, FiniteCounts DEF HasherIInv, PermitInv
  <2> QED
    BY <2>2, <2>4, <2>6 DEF HasherIInv
<1> QED
  BY <1>3, <1>6, <1>7

\* A client goes away: its request leaves the queue, or its hash stays alone.
LEMMA NextDrop ==
    ASSUME HasherIInv, NEW r \in Sessions, DropSignIn(r)
    PROVE  HasherIInv'
<1>1. /\ SignInInv' /\ signIn'[r].step = "gone" /\ hashes' = hashes
      /\ \A q \in Sessions : q # r => signIn'[q] = signIn[q]
  BY DEF HasherIInv, SignInInv, SignIn, DropSignIn
<1>2. CASE LeaveQueue(r)
  <2>1. PICK i \in 1 .. Len(waiters) : waiters[i] = r /\ waiters' = RemoveAt(waiters, i)
    BY <1>2 DEF LeaveQueue
  <2>2. signIn[r].step = "waiting" /\ permits' = permits /\ abandoned' = abandoned
    BY <1>2 DEF LeaveQueue
  <2>3. waiters \in Seq(Sessions) /\ Len(waiters) \in Nat
    BY DEF HasherIInv, QueueInv
  <2>4. QueueInv'
    <3> DEFINE at(j) == IF j < i THEN j ELSE j + 1
    <3>1. /\ waiters' \in Seq(Sessions) /\ Len(waiters') = Len(waiters) - 1
          /\ \A j \in 1 .. Len(waiters') : waiters'[j] = waiters[at(j)]
      BY <2>1, <2>3, RemovedAt
    <3>2. /\ \A j \in 1 .. Len(waiters') : at(j) \in 1 .. Len(waiters) /\ at(j) # i
          /\ \A j, k \in 1 .. Len(waiters') : at(j) = at(k) => j = k
      BY <2>1, <2>3, <3>1
    <3> HIDE DEF at
    <3>3. \A j \in 1 .. Len(waiters') : /\ waiters'[j] \in Sessions /\ waiters'[j] # r
                                         /\ signIn[waiters'[j]].step = "waiting"
      BY <2>1, <2>3, <3>1, <3>2 DEF HasherIInv, QueueInv
    <3>4. \A j, k \in 1 .. Len(waiters') : waiters'[j] = waiters'[k] => at(j) = at(k)
      BY <3>1, <3>2 DEF HasherIInv, QueueInv
    <3> QED
      BY <1>1, <3>1, <3>2, <3>3, <3>4 DEF QueueInv
  <2>5. Hashing' = Hashing /\ \A task \in hashes : task[1] # r
    BY <1>1, <2>2 DEF Hashing, HasherIInv, TaskInv
  <2>6. TaskInv'
    BY <1>1, <2>5 DEF HasherIInv, TaskInv, Hashing
  <2>7. PermitInv'
    BY <1>1, <2>2, CountsStay DEF HasherIInv
  <2> QED
    BY <1>1, <2>4, <2>6, <2>7 DEF HasherIInv
<1>3. CASE AbandonHash(r) /\ permits' = permits + 1
  <2>1. /\ signIn[r].step = "hashing" /\ waiters' = waiters /\ abandoned' = abandoned + 1
    BY <1>3 DEF AbandonHash
  <2>2. QueueInv'
    <3>1. \A i \in 1 .. Len(waiters) : waiters[i] # r /\ waiters[i] \in Sessions
      BY <2>1 DEF HasherIInv, QueueInv
    <3> QED
      BY <1>1, <2>1, <3>1 DEF HasherIInv, QueueInv
  <2>3. Hashing' = Hashing \ {r} /\ r \in Hashing
    BY <1>1, <2>1 DEF Hashing
  <2>4. TaskInv'
    BY <1>1, <2>3 DEF HasherIInv, TaskInv, Hashing
  <2> DEFINE own == <<r, signIn[r].work>>
  <2>5. own \in hashes /\ own[1] = r
    BY <2>3 DEF HasherIInv, TaskInv
  <2>6. Orphans' = Orphans \cup {own} /\ own \notin Orphans
    <3>1. \A task \in hashes : task[1] = r => task = own
      BY <2>5 DEF HasherIInv, TaskInv
    <3> HIDE DEF own
    <3> QED
      BY <1>1, <2>1, <2>5, <3>1 DEF Orphans, HasherIInv, TaskInv
  <2>7. PermitInv'
    <3>1. Cardinality(Hashing') = Cardinality(Hashing) - 1
      BY <2>3, FiniteCounts, FS_RemoveElement DEF HasherIInv
    <3>2. Cardinality(Orphans') = Cardinality(Orphans) + 1
      BY <2>6, FiniteCounts, FS_AddElement DEF HasherIInv
    <3> QED
      BY <1>1, <1>3, <2>1, <3>1, <3>2, FiniteCounts DEF HasherIInv, PermitInv
  <2> QED
    BY <1>1, <2>2, <2>4, <2>7 DEF HasherIInv
<1> QED
  BY <1>2, <1>3 DEF DropSignIn

\* No request and no task at first, and all permits.
LEMMA InitHasher == HasherInit => HasherIInv
<1> SUFFICES ASSUME HasherInit PROVE HasherIInv
  OBVIOUS
<1>1. SignInInv /\ QueueInv
  BY DEF HasherInit, SignInInv, SignIn, QueueInv
<1>2. Hashing = {} /\ Orphans = {} /\ hashes = {}
  BY DEF HasherInit, Hashing, Orphans, Absent
<1>3. TaskInv
  BY <1>2 DEF TaskInv
<1>4. PermitInv
  BY <1>2, FS_EmptySet, HasherAssumption DEF HasherInit, PermitInv
<1> QED
  BY <1>1, <1>3, <1>4 DEF HasherIInv

\* Every step of the hasher keeps its invariant, and so does one elsewhere.
LEMMA NextHasher == HasherIInv /\ [HasherNext]_hasherVars => HasherIInv'
<1> SUFFICES ASSUME HasherIInv, [HasherNext]_hasherVars PROVE HasherIInv'
  OBVIOUS
<1>1. CASE UNCHANGED hasherVars
  BY <1>1 DEF hasherVars, HasherIInv, SignInInv, QueueInv, TaskInv, PermitInv, Hashing, Orphans
<1>2. CASE HasherNext
  <2>1. PICK r \in Sessions : \/ CallHasher(r) \/ NoRandomBytes(r) \/ AcquirePermit(r)
                              \/ FinishHash(r) \/ DropSignIn(r) \/ NextSignIn(r)
    BY <1>2 DEF HasherNext
  <2> QED
    BY <2>1, NextCall, NextOutside, NextAcquire, NextFinish, NextDrop
<1> QED
  BY <1>1, <1>2

\* The process keeps the invariant of its hasher.
THEOREM HasherInvariant == Spec => []HasherIInv
<1>1. Init => HasherInit
  BY DEF Init
<1>2. [Next]_serviceVars => [HasherNext]_hasherVars
  BY DEF Next, serviceVars
<1> QED
  BY <1>1, <1>2, InitHasher, NextHasher, PTL DEF Spec

\* However clients queue, finish and go away, no permit of PasswordHasher is
\* lost or made, and every hash above MAX_CONCURRENT_HASHES is one whose client
\* is gone.
THEOREM NoPermitIsLost == Spec => []OnlyAbandonedHashesExceed
<1>1. HasherIInv => OnlyAbandonedHashesExceed
  BY FiniteCounts, HasherAssumption DEF HasherIInv, PermitInv, OnlyAbandonedHashesExceed, Hashing
<1> QED
  BY <1>1, HasherInvariant, PTL

-----------------------------------------------------------------------------
(* Lifecycle.                                                              *)

ClientStates == {"none", "active", "query", "answered", "busy", "refused", "cut"}

\* The time that the stop sequence may have used when its phase began, and the
\* limit of the phase.
Started(p) ==
    CASE p = "draining" -> 0
      [] p = "stopTasks" -> ShutdownGrace
      [] p = "closePool" -> ShutdownGrace + StopTimeout
      [] p = "runtimeShutdown" -> ShutdownGrace + 2 * StopTimeout
      [] OTHER -> 0

TimeLimit(p) ==
    CASE p = "draining" -> ShutdownGrace
      [] p \in {"stopTasks", "closePool"} -> StopTimeout
      [] p = "runtimeShutdown" -> RuntimeShutdown
      [] OTHER -> 0

ProcessInv ==
    /\ phase \in Stopping \cup {"down", "check", "bind", "serving"}
    /\ client \in [Connections -> ClientStates]
    /\ elapsed \in Nat /\ since \in Nat
    /\ phase \notin Stopping => elapsed = 0

\* No phase passes its limit; the drain has used all of the time so far.
StopTimeInv ==
    /\ phase \in Stopping => since <= TimeLimit(phase) /\ elapsed <= Started(phase) + since
    /\ phase = "draining" => elapsed = since

\* Without a process there is no request; the pool refuses and the sequence
\* cuts only what is left after the whole grace.
LeftoverInv ==
    /\ phase \in {"down", "check", "bind"} => \A c \in Connections : client[c] = "none"
    /\ phase \in {"serving", "draining"} =>
          \A c \in Connections : client[c] \notin {"cut", "refused"}
    /\ phase \in {"stopTasks", "closePool", "runtimeShutdown"} /\ elapsed < ShutdownGrace =>
          \A c \in Connections : client[c] = "none"

\* A process past its check has its migrations.
SchemaInv == phase \in {"bind", "serving"} \cup Stopping => build \subseteq ledger

LifecycleIInv == ProcessInv /\ StopTimeInv /\ LeftoverInv /\ SchemaInv

\* The time limits are natural numbers.
LEMMA Limits ==
    /\ ShutdownGrace \in Nat /\ StopTimeout \in Nat /\ RuntimeShutdown \in Nat
    /\ DrainingSeconds \in Nat
    /\ ShutdownGrace + 2 * StopTimeout + RuntimeShutdown < DrainingSeconds
BY LifecycleAssumption

\* The state of the process is read from five variables.
LEMMA ProcessStays ==
    ASSUME LifecycleIInv, ledger \subseteq ledger', phase' = phase, build' = build,
           elapsed' = elapsed, since' = since, client' = client
    PROVE  LifecycleIInv'
BY DEF LifecycleIInv, ProcessInv, StopTimeInv, LeftoverInv, SchemaInv, Started, TimeLimit

\* The release step only adds migrations.
LEMMA ReleaseSteps ==
    ASSUME LifecycleIInv,
           ApplyMigration \/ (\E success \in BOOLEAN : EndMigrate(success)) \/ NextRelease
    PROVE  LifecycleIInv'
<1>1. ledger \subseteq ledger' /\ UNCHANGED <<phase, build, elapsed, since, client>>
  BY DEF ApplyMigration, EndMigrate, NextRelease, processVars
<1> QED
  BY <1>1, ProcessStays

\* The start of the process, and its death.
LEMMA StartSteps ==
    ASSUME LifecycleIInv, StartServe \/ CheckSchema \/ BindAndStart \/ Kill \/ StopSignal
    PROVE  LifecycleIInv'
<1>1. CASE StartServe
  BY <1>1 DEF StartServe, LifecycleIInv, ProcessInv, StopTimeInv, LeftoverInv, SchemaInv, Stopping
<1>2. CASE CheckSchema
  BY <1>2 DEF CheckSchema, EnsureMigrated, LifecycleIInv, ProcessInv, StopTimeInv, LeftoverInv,
              SchemaInv, Stopping
<1>3. CASE BindAndStart
  BY <1>3 DEF BindAndStart, LifecycleIInv, ProcessInv, StopTimeInv, LeftoverInv, SchemaInv,
              Stopping
<1>4. CASE Kill
  <2>1. phase' = "down" /\ elapsed' = 0 /\ since' = 0
        /\ client' = [c \in Connections |-> "none"]
    BY <1>4 DEF Kill
  <2> QED
    BY <2>1 DEF LifecycleIInv, ProcessInv, StopTimeInv, LeftoverInv, SchemaInv, Stopping, ClientStates
<1>5. CASE StopSignal
  <2>1. /\ phase = "serving" /\ phase' = "draining" /\ elapsed' = 0 /\ since' = 0
        /\ client' = client /\ build' = build /\ ledger' = ledger
    BY <1>5 DEF StopSignal
  <2>2. since' <= TimeLimit(phase') /\ elapsed' <= Started(phase') + since'
    BY <2>1, Limits DEF TimeLimit, Started
  <2> QED
    BY <2>1, <2>2 DEF LifecycleIInv, ProcessInv, StopTimeInv, LeftoverInv, SchemaInv, Stopping
<1> QED
  BY <1>1, <1>2, <1>3, <1>4, <1>5

\* Requests come only while the process serves, and end in any phase.
LEMMA RequestSteps ==
    ASSUME LifecycleIInv, NEW c \in Connections,
           AcceptRequest(c) \/ AcquireConnection(c) \/ AnswerRequest(c) \/ Disconnect(c)
    PROVE  LifecycleIInv'
<1>1. UNCHANGED <<ledger, phase, build, elapsed, since>>
  BY DEF AcceptRequest, AcquireConnection, AnswerRequest, Disconnect
<1>2. /\ client' \in [Connections -> ClientStates]
      /\ \A d \in Connections : d # c => client'[d] = client[d]
      /\ client[c] = "none" => phase = "serving"
      /\ client'[c] \in {"cut", "refused"} => phase \notin {"serving", "draining"}
      /\ phase = "serving" \/ client[c] # "none"
  BY DEF AcceptRequest, AcquireConnection, AnswerRequest, Disconnect, PoolOpen, LifecycleIInv,
         ProcessInv, ClientStates
<1>3. ProcessInv' /\ StopTimeInv' /\ SchemaInv'
  BY <1>1, <1>2 DEF LifecycleIInv, ProcessInv, StopTimeInv, SchemaInv, Started, TimeLimit
<1>4. LeftoverInv'
  BY <1>1, <1>2 DEF LifecycleIInv, LeftoverInv, Stopping
<1> QED
  BY <1>3, <1>4 DEF LifecycleIInv

\* The tasks and the computation are not part of the invariant.
LEMMA TaskSteps ==
    ASSUME LifecycleIInv, (\E t \in Jobs : TaskEnds(t)) \/ ComputationEnds
    PROVE  LifecycleIInv'
<1>1. UNCHANGED <<ledger, phase, build, elapsed, since, client>>
  BY DEF TaskEnds, ComputationEnds
<1> QED
  BY <1>1, ProcessStays

\* A phase that is not over has time left, and the next one starts in time.
LEMMA StopSteps ==
    ASSUME LifecycleIInv, NextStep \/ PassFiveSeconds
    PROVE  LifecycleIInv'
<1>1. phase \in Stopping /\ build' = build /\ ledger' = ledger
  BY DEF NextStep, PassFiveSeconds
<1>2. phase \in {"draining", "stopTasks", "closePool", "runtimeShutdown"}
  BY <1>1 DEF Stopping
<1>3. elapsed \in Nat /\ since \in Nat
  BY DEF LifecycleIInv, ProcessInv
<1>4. CASE PassFiveSeconds
  <2>1. /\ phase' = phase /\ elapsed' = elapsed + 1 /\ since' = since + 1 /\ client' = client
        /\ ~StepOver
    BY <1>4 DEF PassFiveSeconds
  <2>2. since < TimeLimit(phase)
    <3>1. CASE phase = "draining"
      BY <1>3, <2>1, <3>1, Limits DEF StepOver, DrainOver, TimeLimit
    <3>2. CASE phase = "stopTasks"
      BY <1>3, <2>1, <3>2, Limits DEF StepOver, TasksOver, TimeLimit
    <3>3. CASE phase = "closePool"
      BY <1>3, <2>1, <3>3, Limits DEF StepOver, PoolOver, TimeLimit
    <3>4. CASE phase = "runtimeShutdown"
      BY <1>3, <2>1, <3>4, Limits DEF StepOver, RuntimeOver, TimeLimit
    <3> QED
      BY <1>2, <3>1, <3>2, <3>3, <3>4
  <2>3. TimeLimit(phase) \in Nat /\ Started(phase) \in Nat
    BY <1>2, Limits DEF TimeLimit, Started
  <2>4. since' <= TimeLimit(phase) /\ elapsed' <= Started(phase) + since'
    BY <1>1, <1>3, <2>1, <2>2, <2>3 DEF LifecycleIInv, StopTimeInv
  <2>5. StopTimeInv'
    <3>1. TimeLimit(phase') = TimeLimit(phase) /\ Started(phase') = Started(phase)
      BY <2>1
    <3>2. phase = "draining" => elapsed' = since'
      BY <2>1 DEF LifecycleIInv, StopTimeInv
    <3> QED
      BY <2>1, <2>4, <3>1, <3>2 DEF StopTimeInv, TimeLimit, Started
  <2>6. ProcessInv' /\ SchemaInv'
    BY <1>1, <1>3, <2>1 DEF LifecycleIInv, ProcessInv, SchemaInv
  <2>7. LeftoverInv'
    BY <1>3, <2>1, Limits DEF LifecycleIInv, LeftoverInv
  <2> QED
    BY <2>5, <2>6, <2>7 DEF LifecycleIInv
<1>5. CASE NextStep
  <2>1. /\ phase' = After(phase) /\ since' = 0 /\ StepOver
        /\ elapsed' = IF phase = "runtimeShutdown" THEN 0 ELSE elapsed
        /\ client' = [c \in Connections |->
             IF phase = "closePool" /\ client[c] \in {"active", "query"} THEN "cut"
             ELSE IF phase = "runtimeShutdown" THEN "none" ELSE client[c]]
    BY <1>5 DEF NextStep
  <2>2. client \in [Connections -> ClientStates]
        /\ since <= TimeLimit(phase) /\ elapsed <= Started(phase) + since
    BY <1>1 DEF LifecycleIInv, ProcessInv, StopTimeInv
  <2>3. client' \in [Connections -> ClientStates]
    BY <2>1, <2>2 DEF ClientStates
  <2>4. SchemaInv'
    BY <1>1 DEF LifecycleIInv, SchemaInv
  <2>5. CASE phase = "draining"
    <3>1. /\ phase' = "stopTasks" /\ elapsed' = elapsed /\ client' = client
          /\ (\A c \in Connections : client[c] = "none") \/ since >= ShutdownGrace
      BY <2>1, <2>2, <2>5 DEF After, StepOver, DrainOver
    <3>2. elapsed = since /\ elapsed <= ShutdownGrace
      BY <2>2, <2>5 DEF LifecycleIInv, StopTimeInv, TimeLimit
    <3>3. StopTimeInv'
      BY <1>3, <2>1, <3>1, <3>2, Limits DEF StopTimeInv, TimeLimit, Started
    <3>4. LeftoverInv'
      BY <1>3, <3>1, <3>2, Limits DEF LeftoverInv
    <3> QED
      BY <1>3, <2>1, <2>3, <2>4, <3>1, <3>3, <3>4 DEF LifecycleIInv, ProcessInv, Stopping
  <2>6. CASE phase \in {"stopTasks", "closePool"}
    <3>1. /\ phase' = IF phase = "stopTasks" THEN "closePool" ELSE "runtimeShutdown"
          /\ elapsed' = elapsed
      BY <2>1, <2>6 DEF After
    <3>2. elapsed <= Started(phase) + StopTimeout /\ Started(phase') = Started(phase) + StopTimeout
      BY <1>3, <2>2, <2>6, <3>1, Limits DEF TimeLimit, Started
    <3>3. StopTimeInv'
      <4>1. TimeLimit(phase') \in Nat /\ Started(phase') \in Nat
        BY <2>6, <3>1, Limits DEF TimeLimit, Started
      <4>2. since' <= TimeLimit(phase') /\ elapsed' <= Started(phase') + since'
        BY <1>3, <2>1, <3>1, <3>2, <4>1
      <4> QED
        BY <3>1, <4>2, <2>6 DEF StopTimeInv, TimeLimit, Started
    <3>4. LeftoverInv'
      BY <2>1, <2>2, <2>6, <3>1 DEF LifecycleIInv, LeftoverInv
    <3> QED
      BY <1>3, <2>1, <2>3, <2>4, <2>6, <3>1, <3>3, <3>4 DEF LifecycleIInv, ProcessInv, Stopping
  <2>7. CASE phase = "runtimeShutdown"
    <3>1. phase' = "down" /\ elapsed' = 0 /\ \A c \in Connections : client'[c] = "none"
      BY <2>1, <2>2, <2>7 DEF After
    <3> QED
      BY <2>1, <2>3, <2>4, <3>1 DEF LifecycleIInv, ProcessInv, StopTimeInv, LeftoverInv, Stopping
  <2> QED
    BY <1>2, <2>5, <2>6, <2>7
<1> QED
  BY <1>4, <1>5

\* There is no process at first.
LEMMA InitLifecycle == LifecycleInit => LifecycleIInv
BY DEF LifecycleInit, LifecycleIInv, ProcessInv, StopTimeInv, LeftoverInv, SchemaInv, Stopping,
       ClientStates

\* Every step of the life cycle keeps its invariant.
LEMMA NextLifecycle == LifecycleIInv /\ [LifecycleNext]_lifecycleVars => LifecycleIInv'
<1> SUFFICES ASSUME LifecycleIInv, [LifecycleNext]_lifecycleVars PROVE LifecycleIInv'
  OBVIOUS
<1>1. CASE UNCHANGED lifecycleVars
  BY <1>1, ProcessStays DEF lifecycleVars
<1>2. CASE LifecycleNext
  BY <1>2, ReleaseSteps, StartSteps, RequestSteps, TaskSteps, StopSteps DEF LifecycleNext
<1> QED
  BY <1>1, <1>2

\* The process keeps the invariant of its life cycle.
THEOREM LifecycleInvariant == Spec => []LifecycleIInv
<1>1. Init => LifecycleInit
  BY DEF Init
<1>2. [Next]_serviceVars => [LifecycleNext]_lifecycleVars
  BY DEF Next, serviceVars
<1> QED
  BY <1>1, <1>2, InitLifecycle, NextLifecycle, PTL DEF Spec

\* A process that stops ends before the platform kills it, and cuts or refuses
\* a request only after the whole grace (serve, stop_tasks and main).
THEOREM StopIsBounded == Spec => []StopKeepsItsBounds
<1>1. LifecycleIInv => StopKeepsItsBounds
  <2> SUFFICES ASSUME LifecycleIInv PROVE StopKeepsItsBounds
    OBVIOUS
  <2>1. elapsed < DrainingSeconds
    <3>1. CASE phase \in Stopping
      BY <3>1, Limits DEF LifecycleIInv, ProcessInv, StopTimeInv, Stopping, Started, TimeLimit
    <3>2. CASE phase \notin Stopping
      BY <3>2, Limits DEF LifecycleIInv, ProcessInv
    <3> QED
      BY <3>1, <3>2
  <2>2. ASSUME NEW c \in Connections, client[c] \in {"cut", "refused"}
        PROVE  elapsed >= ShutdownGrace
    BY <2>2, Limits DEF LifecycleIInv, ProcessInv, LeftoverInv, Stopping
  <2> QED
    BY <2>1, <2>2 DEF StopKeepsItsBounds
<1> QED
  BY <1>1, LifecycleInvariant, PTL

\* A process that takes requests has every migration of its build, whatever
\* releases, failures and roll-backs come while it runs (ensure_migrated).
THEOREM SchemaIsServed == Spec => []ServesItsSchema
<1>1. LifecycleIInv => ServesItsSchema
  BY DEF LifecycleIInv, SchemaInv, ServesItsSchema
<1> QED
  BY <1>1, LifecycleInvariant, PTL

-----------------------------------------------------------------------------
(* RateLimits.                                                             *)

Window == [hits : Nat, resetAt : Int]

\* The decisions by which a limiter let a request pass.
Passes(l) == [limiter : {l}, allowed : {TRUE}, remaining : Int]

\* Where a request is, and which limiters let it come that far: the global one
\* first, unless it is GET /health.
Stage(r) ==
    \/ r.path = "health" /\ r.layer = "handler" /\ r.passed = <<>>
    \/ r.path \in {"login", "price", "other"} /\ r.layer = "global" /\ r.passed = <<>>
    \/ \E g \in Passes("global") :
          /\ r.passed = <<g>>
          /\ \/ r.path = "login" /\ r.layer = "login"
             \/ r.path = "price" /\ r.layer \in {"authenticate", "apiKey"}
             \/ r.path = "other" /\ r.layer = "handler"
    \/ \E g \in Passes("global"), d \in Passes("login") \cup Passes("apiKey") :
          /\ r.passed = <<g, d>> /\ r.layer = "handler"
          /\ \/ r.path = "login" /\ d.limiter = "login"
             \/ r.path = "price" /\ d.limiter = "apiKey"

Clients == {ClientKey(q.headers) : q \in Requests}
Callers == {q.caller : q \in Requests}

Trails ==
    {<<>>} \cup {<<g>> : g \in Passes("global")}
    \cup {<<g, d>> : g \in Passes("global"), d \in Passes("login") \cup Passes("apiKey")}

Active ==
    [path : Paths, client : Clients, caller : Callers,
     layer : Limiters \cup {"authenticate", "handler"}, at : Int,
     passed : Trails]

\* What AnswerShowsItsLimiter says of one answer.
ShowsItsLimiter(r) ==
    /\ r.path = "health" \/ r.passThrough = TRUE => r.shown = NoHeaders /\ r.status # 429
    /\ r.path # "health" /\ r.passThrough # TRUE /\ r.status = 429 =>
          r.shown # NoHeaders /\ ~r.shown.allowed /\ r.shown.remaining = 0
    /\ r.path # "health" /\ r.passThrough # TRUE /\ r.status # 429 =>
          /\ r.passed # <<>>
          /\ r.shown = Last(r.passed)
          /\ r.path = "price" /\ r.status = 200 => r.shown.limiter = "apiKey"
          /\ r.path = "login" => r.shown.limiter = "login"

Refused(r, d) == Answered(r, 429, d, FALSE)
Unauthorized(r) == Answered(r, 401, NoHeaders, FALSE)
StoreFailed(r) == Answered(r, 500, NoHeaders, FALSE)
Handled(r) == Answered(r, 200, NoHeaders, FALSE)
PassedThrough(r) == Answered(r, 200, NoHeaders, TRUE)

InFlight(r) == r \in Active /\ Stage(r)

RequestInv ==
    /\ request = [s \in Slots |-> request[s]]
    /\ \A s \in Slots :
          \/ request[s] = NoRequest
          \/ InFlight(request[s])
          \/ request[s].layer = "answered" /\ ShowsItsLimiter(request[s])

WindowInv ==
    /\ windows = [l \in Limiters |-> windows[l]]
    /\ \A l \in Limiters : \A k \in DOMAIN windows[l] : windows[l][k] \in Window

LimitsIInv == clock \in Int /\ WindowInv /\ RequestInv

\* Min and Max of two integers.
LEMMA MinMaxOfTwo ==
    ASSUME NEW a \in Int, NEW b \in Int
    PROVE  /\ Min({a, b}) \in {a, b}
           /\ Max({a, b}) \in {a, b} /\ Max({a, b}) >= a /\ Max({a, b}) >= b
<1>1. \E x \in {a, b} : \A y \in {a, b} : x <= y
  BY a <= b \/ b <= a
<1>2. \E x \in {a, b} : \A y \in {a, b} : x >= y
  BY a <= b \/ b <= a
<1> QED
  BY <1>1, <1>2 DEF Min, Max

\* A window stays one, and a refusal leaves nothing of it.
LEMMA CountedType ==
    ASSUME NEW l \in Limiters, NEW table, NEW key, NEW at \in Int,
           \A k \in DOMAIN table : table[k] \in Window
    PROVE  LET window == Counted(l, WindowAt(l, table, key, at))
               decision == Decision(l, window)
           IN  /\ window \in Window
               /\ decision.limiter = l /\ decision.remaining \in Int
               /\ decision = [limiter |-> l, allowed |-> decision.allowed,
                              remaining |-> decision.remaining]
               /\ decision.allowed \in BOOLEAN
               /\ ~decision.allowed => decision.remaining = 0
<1> DEFINE before == WindowAt(l, table, key, at)
           window == Counted(l, before)
           decision == Decision(l, window)
<1>1. Limit[l] \in Nat /\ Length[l] \in Nat
  BY LimitsAssumption
<1>2. before \in Window
  BY <1>1 DEF WindowAt, Window
<1> HIDE DEF before
<1>3. window \in Window
  <2>1. before.hits + 1 \in Nat /\ Limit[l] + 1 \in Nat
    BY <1>1, <1>2 DEF Window
  <2>2. \A a, b \in Nat : Min({a, b}) \in Nat
    BY MinMaxOfTwo
  <2>3. Min({before.hits + 1, Limit[l] + 1}) \in Nat
    BY <2>1, <2>2
  <2> QED
    BY <1>2, <2>3 DEF Counted, Window
<1> HIDE DEF window
<1>4. window.hits \in Nat
  BY <1>3 DEF Window
<1>5. /\ Max({0, Limit[l] - window.hits}) \in Int
      /\ ~(window.hits <= Limit[l]) => Max({0, Limit[l] - window.hits}) = 0
  <2>1. \A b \in Int : Max({0, b}) \in {0, b} /\ Max({0, b}) >= 0
    BY MinMaxOfTwo
  <2>2. Limit[l] - window.hits \in Int
    BY <1>1, <1>4
  <2>3. ~(window.hits <= Limit[l]) => Limit[l] - window.hits < 0
    BY <1>1, <1>4
  <2> QED
    BY <2>1, <2>2, <2>3
<1>6. /\ decision.limiter = l /\ decision.remaining \in Int
      /\ decision = [limiter |-> l, allowed |-> decision.allowed,
                     remaining |-> decision.remaining]
      /\ decision.allowed \in BOOLEAN
      /\ ~decision.allowed => decision.remaining = 0
  <2> DEFINE remaining == Max({0, Limit[l] - window.hits})
  <2> DEFINE allowed == window.hits <= Limit[l]
  <2>1. decision = [limiter |-> l, allowed |-> allowed, remaining |-> remaining]
    BY DEF Decision
  <2>2. remaining \in Int /\ (~allowed => remaining = 0) /\ allowed \in BOOLEAN
    BY <1>5
  <2> HIDE DEF remaining, allowed, decision
  <2>3. /\ decision.limiter = l /\ decision.remaining = remaining
        /\ decision.allowed = allowed
    BY <2>1
  <2> QED
    BY <2>1, <2>2, <2>3
<1> QED
  BY <1>3, <1>6 DEF before, window

\* Whatever room is made, only windows remain.
LEMMA WithRoomType ==
    ASSUME NEW table, NEW key, NEW at, NEW room \in WithRoom(table, key, at),
           \A k \in DOMAIN table : table[k] \in Window
    PROVE  \A k \in DOMAIN room : room[k] \in Window
<1> DEFINE live == Restrict(table, Live(table, at))
<1>1. \A k \in DOMAIN live : live[k] \in Window
  BY DEF Restrict, Live
<1>2. \/ room = table \/ room = live
      \/ \E k \in FirstToEnd(live) : room = Restrict(live, DOMAIN live \ {k})
  BY DEF WithRoom
<1> HIDE DEF live
<1> QED
  BY <1>1, <1>2 DEF Restrict

\* A request that is refused, or answered by its handler, shows its limiter.
LEMMA AnsweredShows ==
    ASSUME NEW r, InFlight(r)
    PROVE  /\ \A d : /\ r.layer \in Limiters /\ d.limiter = r.layer
                     /\ d.allowed = FALSE /\ d.remaining = 0
                     => ShowsItsLimiter(Refused(r, d))
           /\ r.layer = "authenticate" =>
                 ShowsItsLimiter(Unauthorized(r)) /\ ShowsItsLimiter(StoreFailed(r))
           /\ r.layer = "handler" =>
                 ShowsItsLimiter(Handled(r)) /\ ShowsItsLimiter(PassedThrough(r))
<1> DEFINE Plain(status, refusal) == Answered(r, status, refusal, FALSE)
           ShownBy(refusal, passed) == Shown(refusal, passed, FALSE)
           Through == Answered(r, 200, NoHeaders, TRUE)
<1>1. /\ \A status, refusal :
            /\ Plain(status, refusal).path = r.path
            /\ Plain(status, refusal).status = status
            /\ Plain(status, refusal).passThrough = FALSE
            /\ Plain(status, refusal).passed = r.passed
            /\ Plain(status, refusal).shown = ShownBy(refusal, r.passed)
      /\ Through.status = 200 /\ Through.passThrough = TRUE
      /\ Through.shown = Shown(NoHeaders, r.passed, TRUE)
  BY DEF Answered
<1>2. /\ \A refusal : ShownBy(refusal, <<>>) = refusal
      /\ \A g : ShownBy(NoHeaders, <<g>>) = g
      /\ \A refusal, g : refusal # NoHeaders /\ g.limiter = "global" =>
            ShownBy(refusal, <<g>>) = refusal
      /\ \A g, d : d # NoHeaders /\ g.limiter = "global" =>
            ShownBy(NoHeaders, <<g, d>>) = d
  BY DEF Shown, SetHeaders
<1>3. /\ Shown(NoHeaders, <<>>, TRUE) = NoHeaders
      /\ \A g : Shown(NoHeaders, <<g>>, TRUE) = NoHeaders
      /\ \A g, d : Shown(NoHeaders, <<g, d>>, TRUE) = NoHeaders
  BY DEF Shown, SetHeaders
<1> HIDE DEF Plain, ShownBy, Through
<1>p. ASSUME NEW status, NEW refusal, NEW shown, ShownBy(refusal, r.passed) = shown,
             r.path = "health" => shown = NoHeaders /\ status # 429,
             r.path # "health" /\ status = 429 =>
                shown # NoHeaders /\ ~shown.allowed /\ shown.remaining = 0,
             r.path # "health" /\ status # 429 =>
                /\ r.passed # <<>> /\ shown = Last(r.passed)
                /\ r.path = "price" /\ status = 200 => shown.limiter = "apiKey"
                /\ r.path = "login" => shown.limiter = "login"
      PROVE  ShowsItsLimiter(Plain(status, refusal))
  <2> DEFINE a == Plain(status, refusal)
  <2>1. /\ a.path = r.path /\ a.status = status /\ a.passThrough = FALSE
        /\ a.passed = r.passed /\ a.shown = shown
    BY <1>1, <1>p
  <2> HIDE DEF a
  <2>2. a.path = "health" \/ a.passThrough = TRUE => a.shown = NoHeaders /\ a.status # 429
    BY <1>p, <2>1
  <2>3. a.path # "health" /\ a.passThrough # TRUE /\ a.status = 429 =>
           a.shown # NoHeaders /\ ~a.shown.allowed /\ a.shown.remaining = 0
    BY <1>p, <2>1
  <2>4. a.path # "health" /\ a.passThrough # TRUE /\ a.status # 429 =>
           /\ a.passed # <<>> /\ a.shown = Last(a.passed)
           /\ a.path = "price" /\ a.status = 200 => a.shown.limiter = "apiKey"
           /\ a.path = "login" => a.shown.limiter = "login"
    BY <1>p, <2>1
  <2> QED
    BY <2>2, <2>3, <2>4 DEF ShowsItsLimiter, a
<1>4. /\ \A l \in Limiters : \A d : d.limiter = l => d # NoHeaders
      /\ \A l \in Limiters : \A d \in Passes(l) : d.limiter = l /\ d # NoHeaders
  <2>1. \A l \in Limiters : \A d : d.limiter = l => d # NoHeaders
    BY DEF NoHeaders, Limiters
  <2>2. \A l : \A d \in Passes(l) : d.limiter = l
    BY DEF Passes
  <2> QED
    BY <2>1, <2>2
<1>5. \A g \in Passes("global") : g.limiter = "global"
  BY DEF Passes
<1>6. ASSUME NEW d, r.layer \in Limiters, d.limiter = r.layer,
             d.allowed = FALSE, d.remaining = 0
      PROVE  ShowsItsLimiter(Plain(429, d))
  <2>1. d # NoHeaders /\ r.path # "health"
    BY <1>4, <1>6 DEF InFlight, Stage, Limiters
  <2>2. r.passed = <<>> \/ \E g \in Passes("global") : r.passed = <<g>>
    BY <1>6 DEF InFlight, Stage, Limiters
  <2>3. ShownBy(d, r.passed) = d
    BY <1>2, <1>5, <2>1, <2>2
  <2>4. ~d.allowed
    BY <1>6
  <2> QED
    BY <1>p, <1>6, <2>1, <2>3, <2>4
<1>7. ASSUME r.layer = "authenticate"
      PROVE  ShowsItsLimiter(Plain(401, NoHeaders)) /\ ShowsItsLimiter(Plain(500, NoHeaders))
  <2>1. PICK g \in Passes("global") : r.passed = <<g>> /\ r.path = "price"
    BY <1>7 DEF InFlight, Stage
  <2>2. ShownBy(NoHeaders, r.passed) = g
    BY <1>2, <2>1
  <2>3. r.passed # <<>> /\ Last(r.passed) = g
    BY <2>1 DEF Last
  <2> QED
    BY <1>p, <1>7, <2>1, <2>2, <2>3
<1>8. ASSUME r.layer = "handler" PROVE ShowsItsLimiter(Plain(200, NoHeaders))
  <2>1. CASE r.passed = <<>>
    <3>1. r.path = "health"
      BY <1>8, <2>1 DEF InFlight, Stage
    <3> QED
      BY <1>p, <1>2, <2>1, <3>1
  <2>2. ASSUME NEW g \in Passes("global"), r.passed = <<g>>
        PROVE  ShowsItsLimiter(Plain(200, NoHeaders))
    <3>1. r.path = "other"
      BY <1>8, <2>2 DEF InFlight, Stage
    <3>2. ShownBy(NoHeaders, r.passed) = g
      BY <1>2, <2>2
    <3>3. r.passed # <<>> /\ Last(r.passed) = g
      BY <2>2 DEF Last
    <3> QED
      BY <1>p, <3>1, <3>2, <3>3
  <2>3. ASSUME NEW g \in Passes("global"), NEW d \in Passes("login") \cup Passes("apiKey"),
               r.passed = <<g, d>>
        PROVE  ShowsItsLimiter(Plain(200, NoHeaders))
    <3>1. \/ r.path = "login" /\ d.limiter = "login"
          \/ r.path = "price" /\ d.limiter = "apiKey"
      BY <1>8, <2>3 DEF InFlight, Stage
    <3>2. ShownBy(NoHeaders, r.passed) = d
      BY <1>2, <1>4, <1>5, <2>3 DEF Limiters
    <3>3. r.passed # <<>> /\ Last(r.passed) = d
      BY <2>3 DEF Last
    <3> QED
      BY <1>p, <3>1, <3>2, <3>3
  <2> QED
    BY <1>8, <2>1, <2>2, <2>3 DEF InFlight, Stage
<1>9. ShowsItsLimiter(Through)
  <2>1. Shown(NoHeaders, r.passed, TRUE) = NoHeaders
    BY <1>3 DEF InFlight, Stage
  <2>2. Through.status = 200 /\ Through.shown = NoHeaders /\ Through.passThrough = TRUE
    BY <1>1, <2>1
  <2>3. Through.status # 429
    BY <2>2
  <2> QED
    BY <2>2, <2>3 DEF ShowsItsLimiter
<1> QED
  BY <1>6, <1>7, <1>8, <1>9 DEF Plain, Through, Refused, Unauthorized, StoreFailed, Handled, PassedThrough

\* One request changes; what it becomes is in order.
LEMMA RequestStep ==
    ASSUME RequestInv, NEW s \in Slots, NEW r, request' = [request EXCEPT ![s] = r],
           r = NoRequest \/ InFlight(r) \/ (r.layer = "answered" /\ ShowsItsLimiter(r))
    PROVE  RequestInv'
<1>1. request' = [t \in Slots |-> IF t = s THEN r ELSE request[t]]
  BY DEF RequestInv
<1> QED
  BY <1>1 DEF RequestInv

\* A request in flight is in one of the layers that may run it.
LEMMA LayerIsActive ==
    ASSUME RequestInv, NEW s \in Slots,
           request[s].layer \in Limiters \cup {"authenticate", "handler"}
    PROVE  InFlight(request[s])
BY DEF RequestInv, NoRequest, Limiters

\* A new request starts at the global limiter, GET /health at its handler.
LEMMA ArriveStep ==
    ASSUME RequestInv, NEW s \in Slots, NEW q \in Requests, Arrive(s, q)
    PROVE  RequestInv'
<1> DEFINE r == [path |-> q.path, client |-> ClientKey(q.headers), caller |-> q.caller,
                 layer |-> IF q.path = "health" THEN "handler" ELSE "global",
                 at |-> Unread, passed |-> <<>>]
<1>1. q.path \in Paths
  BY LimitsAssumption
<1>2. /\ ClientKey(q.headers) \in Clients /\ q.caller \in Callers /\ Unread \in Int
  BY DEF Clients, Callers, Unread
<1>3. r \in Active
  BY <1>1, <1>2 DEF Active, Limiters, Trails
<1>4. Stage(r)
  BY <1>1 DEF Stage, Paths
<1>5. request' = [request EXCEPT ![s] = r]
  BY DEF Arrive
<1> HIDE DEF r
<1> QED
  BY <1>3, <1>4, <1>5, RequestStep DEF InFlight

\* The second element of a sequence.
LEMMA AppendToOne == ASSUME NEW x, NEW y PROVE Append(<<x>>, y) = <<x, y>>
<1> DEFINE a == Append(<<x>>, y)
           b == <<x, y>>
<1>1. <<x>> \in Seq({x, y}) /\ Len(<<x>>) = 1 /\ <<x>>[1] = x
  OBVIOUS
<1>2. a \in Seq({x, y}) /\ Len(a) = 2 /\ a[1] = x /\ a[2] = y
  BY <1>1, AppendProperties
<1>3. b \in Seq({x, y}) /\ Len(b) = 2 /\ b[1] = x /\ b[2] = y
  OBVIOUS
<1> HIDE DEF a, b
<1>4. \A i \in 1 .. Len(a) : a[i] = b[i]
  BY <1>2, <1>3
<1>5. a = b
  BY <1>2, <1>3, <1>4, SeqEqual
<1> QED
  BY <1>5 DEF a, b

\* A request is let pass by its limiter, and goes on to the next layer.
LEMMA PassStep ==
    ASSUME NEW r, InFlight(r), r.layer \in Limiters, NEW d,
           d.limiter = r.layer, d.remaining \in Int, d.allowed = TRUE,
           d = [limiter |-> d.limiter, allowed |-> d.allowed, remaining |-> d.remaining]
    PROVE  InFlight([r EXCEPT !.layer = Inner(r, r.layer), !.at = Unread,
                              !.passed = Append(@, d)])
<1> DEFINE next == [r EXCEPT !.layer = Inner(r, r.layer), !.at = Unread, !.passed = Append(@, d)]
<1>1. d \in Passes(r.layer)
  BY DEF Passes
<1>2. /\ next.path = r.path /\ next.layer = Inner(r, r.layer)
      /\ next.passed = Append(r.passed, d)
  BY DEF InFlight, Active
<1>a. \A layer \in {"login", "authenticate", "handler"} :
        \A passed \in Trails :
           [r EXCEPT !.layer = layer, !.at = Unread, !.passed = passed] \in Active
  <2> SUFFICES ASSUME NEW layer \in {"login", "authenticate", "handler"}, NEW passed \in Trails
               PROVE  [r EXCEPT !.layer = layer, !.at = Unread, !.passed = passed] \in Active
    OBVIOUS
  <2>1. r \in Active
    BY DEF InFlight
  <2>2. layer \in Limiters \cup {"authenticate", "handler"} /\ Unread \in Int
    BY DEF Limiters, Unread
  <2> QED
    BY <2>1, <2>2 DEF Active
<1>b. next.layer \in {"login", "authenticate", "handler"} /\ next.passed \in Trails
         => next \in Active
  BY <1>2, <1>a
<1>c. ASSUME NEW x PROVE Append(<<x>>, d) = <<x, d>>
  BY AppendToOne
<1> HIDE DEF next
<1>3. CASE r.layer = "global"
  <2>1. r.passed = <<>> /\ r.path \in {"login", "price", "other"}
    BY <1>3 DEF InFlight, Stage
  <2>2. next.passed = <<d>> /\ d \in Passes("global")
    BY <1>1, <1>2, <1>3, <2>1
  <2>3. /\ r.path = "login" => next.layer = "login"
        /\ r.path = "price" => next.layer = "authenticate"
        /\ r.path = "other" => next.layer = "handler"
    BY <1>2, <1>3 DEF Inner
  <2>4. Stage(next)
    BY <1>2, <2>1, <2>2, <2>3 DEF Stage
  <2>5. next \in Active
    BY <1>b, <2>1, <2>2, <2>3 DEF Trails
  <2> QED
    BY <2>4, <2>5 DEF InFlight, next
<1>4. CASE r.layer # "global"
  <2>1. PICK g \in Passes("global") : r.passed = <<g>>
    BY <1>4 DEF InFlight, Stage, Limiters
  <2>2. \/ r.layer = "login" /\ r.path = "login"
        \/ r.layer = "apiKey" /\ r.path = "price"
    BY <1>4 DEF InFlight, Stage, Limiters
  <2>3. next.passed = <<g, d>> /\ next.layer = "handler"
    <3>1. next.passed = <<g, d>>
      BY <1>2, <1>c, <2>1
    <3>2. next.layer = "handler"
      BY <1>2, <2>2 DEF Inner
    <3> QED
      BY <3>1, <3>2
  <2>4. d \in Passes("login") \cup Passes("apiKey") /\ d.limiter = r.layer
    BY <1>1, <2>2
  <2>5. Stage(next)
    BY <1>2, <2>2, <2>3, <2>4 DEF Stage
  <2>6. next \in Active
    BY <1>b, <2>3, <2>4 DEF Trails
  <2> QED
    BY <2>5, <2>6 DEF InFlight, next
<1> QED
  BY <1>3, <1>4

\* The check of a limiter counts one hit, and answers or passes the request on.
LEMMA CheckStep ==
    ASSUME LimitsIInv, NEW s \in Slots, Check(s)
    PROVE  WindowInv' /\ RequestInv'
<1> DEFINE r == request[s]
           l == r.layer
           key == KeyIn(r, l)
<1>1. l \in Limiters /\ InFlight(r)
  BY LayerIsActive DEF Check, LimitsIInv
<1>2. r.at \in Int
  BY <1>1 DEF InFlight, Active
<1>3. PICK table \in WithRoom(windows[l], key, r.at) :
        LET window == Counted(l, WindowAt(l, table, key, r.at))
            decision == Decision(l, window)
        IN  /\ windows' = [windows EXCEPT ![l] = Put(table, key, window)]
            /\ request' = [request EXCEPT ![s] =
                 IF decision.allowed
                   THEN [r EXCEPT !.layer = Inner(r, l), !.at = Unread,
                                  !.passed = Append(@, decision)]
                   ELSE Answered(r, 429, decision, FALSE)]
  BY DEF Check
<1> DEFINE window == Counted(l, WindowAt(l, table, key, r.at))
           decision == Decision(l, window)
           table2 == Put(table, key, window)
<1>4. windows' = [windows EXCEPT ![l] = table2]
  BY <1>3
<1>5. request' = [request EXCEPT ![s] =
                 IF decision.allowed
                   THEN [r EXCEPT !.layer = Inner(r, r.layer), !.at = Unread,
                                  !.passed = Append(@, decision)]
                   ELSE Answered(r, 429, decision, FALSE)]
  BY <1>3
<1>6. \A k \in DOMAIN table : table[k] \in Window
  <2>1. \A k \in DOMAIN windows[l] : windows[l][k] \in Window
    BY <1>1 DEF LimitsIInv, WindowInv
  <2> QED
    BY <2>1, WithRoomType
<1> HIDE DEF key
<1>7. /\ window \in Window
      /\ decision.limiter = l /\ decision.remaining \in Int
      /\ decision = [limiter |-> l, allowed |-> decision.allowed,
                     remaining |-> decision.remaining]
      /\ decision.allowed \in BOOLEAN
      /\ ~decision.allowed => decision.remaining = 0
  BY <1>1, <1>2, <1>6, CountedType
<1> HIDE DEF window, decision
<1>8. \A k \in DOMAIN table2 : table2[k] \in Window
  BY <1>6, <1>7 DEF Put
<1> HIDE DEF table2
<1>9. WindowInv'
  <2>1. windows' = [m \in Limiters |-> IF m = l THEN table2 ELSE windows[m]]
    BY <1>4 DEF LimitsIInv, WindowInv
  <2> QED
    BY <1>8, <2>1 DEF LimitsIInv, WindowInv
<1>10. RequestInv'
  <2>1. CASE decision.allowed = TRUE
    <3>1. InFlight([r EXCEPT !.layer = Inner(r, r.layer), !.at = Unread,
                             !.passed = Append(@, decision)])
      BY <1>1, <1>7, <2>1, PassStep
    <3> QED
      BY <1>5, <2>1, <3>1, RequestStep DEF LimitsIInv
  <2>2. CASE decision.allowed = FALSE
    <3>0. decision.allowed = FALSE /\ decision.remaining = 0 /\ decision.limiter = r.layer
      BY <1>7, <2>2
    <3>1. ShowsItsLimiter(Refused(r, decision))
      BY <1>1, <3>0, AnsweredShows
    <3>2. Refused(r, decision).layer = "answered"
      BY DEF Refused, Answered
    <3>3. request' = [request EXCEPT ![s] = Refused(r, decision)]
      BY <1>5, <2>2 DEF Refused
    <3> QED
      BY <3>3, <2>2, <3>1, <3>2, RequestStep DEF LimitsIInv
  <2> QED
    BY <1>7, <2>1, <2>2
<1> QED
  BY <1>9, <1>10

\* What authenticate makes of a request.
LEMMA Authenticated ==
    ASSUME NEW s \in Slots, Authenticate(s)
    PROVE  \/ request' = [request EXCEPT ![s] = [request[s] EXCEPT !.layer = "apiKey"]]
           \/ request' = [request EXCEPT ![s] = Unauthorized(request[s])]
           \/ request' = [request EXCEPT ![s] = StoreFailed(request[s])]
<1> DEFINE r == [request[s] EXCEPT !.layer = "apiKey"]
           Outcome(status) ==
             /\ status = 200 => request[s].caller \in Users
             /\ status = 401 => request[s].caller \notin Users
             /\ request' = [request EXCEPT ![s] =
                   IF status = 200 THEN [@ EXCEPT !.layer = "apiKey"]
                   ELSE Answered(@, status, NoHeaders, FALSE)]
<1> HIDE DEF r
<1>1. \E status \in {200, 401, 500} : Outcome(status)
  BY Zenon DEF Authenticate
<1> HIDE DEF Outcome
<1>2. Outcome(200) \/ Outcome(401) \/ Outcome(500)
  BY <1>1
<1>3. Outcome(200) => request' = [request EXCEPT ![s] = r]
  BY DEF Outcome, r
<1>4. Outcome(401) => request' = [request EXCEPT ![s] = Unauthorized(request[s])]
  BY DEF Outcome, Unauthorized
<1>5. Outcome(500) => request' = [request EXCEPT ![s] = StoreFailed(request[s])]
  BY DEF Outcome, StoreFailed
<1> QED
  BY <1>2, <1>3, <1>4, <1>5 DEF r

\* Every step of the limiters keeps the windows and the requests in order.
LEMMA NextLimits == LimitsIInv /\ [LimitsNext]_limitsVars => LimitsIInv'
<1> SUFFICES ASSUME LimitsIInv, [LimitsNext]_limitsVars PROVE LimitsIInv'
  OBVIOUS
<1>0. clock \in Int /\ WindowInv /\ RequestInv
  BY DEF LimitsIInv
<1>1. CASE UNCHANGED limitsVars
  BY <1>0, <1>1 DEF limitsVars, LimitsIInv, WindowInv, RequestInv
<1>2. ASSUME UNCHANGED windows, UNCHANGED clock PROVE clock' \in Int /\ WindowInv'
  BY <1>0, <1>2 DEF WindowInv
<1>3. ASSUME NEW s \in Slots, NEW q \in Requests, Arrive(s, q) PROVE LimitsIInv'
  <2>1. RequestInv'
    BY <1>0, <1>3, ArriveStep
  <2> QED
    BY <1>2, <1>3, <2>1 DEF Arrive, LimitsIInv
<1>4. ASSUME NEW s \in Slots, ReadClock(s) PROVE LimitsIInv'
  <2>1. request[s].layer \in Limiters /\ UNCHANGED <<windows, clock>>
        /\ request' = [request EXCEPT ![s].at = clock]
    BY <1>4 DEF ReadClock
  <2>2. InFlight(request[s])
    BY <1>0, <2>1, LayerIsActive
  <2> DEFINE r == [request[s] EXCEPT !.at = clock]
  <2>3. request' = [request EXCEPT ![s] = r]
    BY <2>1
  <2>4. /\ r \in Active
        /\ r.path = request[s].path /\ r.layer = request[s].layer
        /\ r.passed = request[s].passed
    BY <1>0, <2>2 DEF InFlight, Active
  <2>5. Stage(r)
    BY <2>2, <2>4 DEF InFlight, Stage
  <2> HIDE DEF r
  <2>6. RequestInv'
    BY <1>0, <2>3, <2>4, <2>5, RequestStep DEF InFlight
  <2> QED
    BY <1>2, <2>1, <2>6 DEF LimitsIInv
<1>5. ASSUME NEW s \in Slots, Check(s) PROVE LimitsIInv'
  <2>1. clock' = clock
    BY <1>5 DEF Check
  <2> QED
    BY <1>0, <1>5, <2>1, CheckStep DEF LimitsIInv
<1>6. ASSUME NEW s \in Slots, Authenticate(s) PROVE LimitsIInv'
  <2>1. request[s].layer = "authenticate" /\ UNCHANGED <<windows, clock>>
    BY <1>6 DEF Authenticate
  <2>2. InFlight(request[s])
    BY <1>0, <2>1, LayerIsActive
  <2> DEFINE r == [request[s] EXCEPT !.layer = "apiKey"]
  <2> HIDE DEF r
  <2>3. \/ request' = [request EXCEPT ![s] = r]
        \/ request' = [request EXCEPT ![s] = Unauthorized(request[s])]
        \/ request' = [request EXCEPT ![s] = StoreFailed(request[s])]
    BY <1>6, Authenticated DEF r
  <2>4. InFlight(r)
    <3>1. /\ r \in Active /\ r.path = request[s].path /\ r.layer = "apiKey"
          /\ r.passed = request[s].passed
      BY <2>2 DEF InFlight, Active, Limiters, r
    <3>2. Stage(r)
      BY <2>1, <2>2, <3>1 DEF InFlight, Stage
    <3> QED
      BY <3>1, <3>2 DEF InFlight
  <2>5. /\ ShowsItsLimiter(Unauthorized(request[s])) /\ ShowsItsLimiter(StoreFailed(request[s]))
        /\ Unauthorized(request[s]).layer = "answered"
        /\ StoreFailed(request[s]).layer = "answered"
    <3>1. ShowsItsLimiter(Unauthorized(request[s])) /\ ShowsItsLimiter(StoreFailed(request[s]))
      BY <2>1, <2>2, AnsweredShows, Zenon
    <3>2. /\ Unauthorized(request[s]).layer = "answered"
          /\ StoreFailed(request[s]).layer = "answered"
      BY DEF Unauthorized, StoreFailed, Answered
    <3> QED
      BY <3>1, <3>2
  <2>6. RequestInv'
    BY <1>0, <2>3, <2>4, <2>5, RequestStep
  <2> QED
    BY <1>2, <2>1, <2>6 DEF LimitsIInv
<1>7. ASSUME NEW s \in Slots, Answer(s) PROVE LimitsIInv'
  <2> DEFINE plain == Handled(request[s])
             through == PassedThrough(request[s])
  <2>1. /\ request[s].layer = "handler" /\ UNCHANGED <<windows, clock>>
        /\ \/ request' = [request EXCEPT ![s] = plain]
           \/ request' = [request EXCEPT ![s] = through]
    BY <1>7 DEF Answer, Handled, PassedThrough
  <2>2. InFlight(request[s])
    BY <1>0, <2>1, LayerIsActive
  <2>3. ShowsItsLimiter(plain) /\ ShowsItsLimiter(through)
    BY <2>1, <2>2, AnsweredShows
  <2>4. plain.layer = "answered" /\ through.layer = "answered"
    BY DEF Handled, PassedThrough, Answered
  <2> HIDE DEF plain, through
  <2>5. RequestInv'
    BY <1>0, <2>1, <2>3, <2>4, RequestStep
  <2> QED
    BY <1>2, <2>1, <2>5 DEF LimitsIInv
<1>8. ASSUME NEW s \in Slots, Leave(s) PROVE LimitsIInv'
  <2>1. request' = [request EXCEPT ![s] = NoRequest] /\ UNCHANGED <<windows, clock>>
    BY <1>8 DEF Leave
  <2>2. RequestInv'
    BY <1>0, <2>1, RequestStep
  <2> QED
    BY <1>2, <2>1, <2>2 DEF LimitsIInv
<1>9. CASE PassTime
  <2>1. clock' = clock + 1 /\ UNCHANGED <<windows, request>>
    BY <1>9 DEF PassTime
  <2> QED
    BY <1>0, <2>1 DEF LimitsIInv, WindowInv, RequestInv
<1> QED
  BY <1>1, <1>3, <1>4, <1>5, <1>6, <1>7, <1>8, <1>9 DEF LimitsNext

\* The process starts with no request and no window.
LEMMA InitLimits == LimitsInit => LimitsIInv
<1> SUFFICES ASSUME LimitsInit PROVE LimitsIInv
  OBVIOUS
<1>1. clock \in Int /\ RequestInv
  BY DEF LimitsInit, RequestInv
<1>2. WindowInv
  BY DEF LimitsInit, WindowInv
<1> QED
  BY <1>1, <1>2 DEF LimitsIInv

\* The process keeps the invariant of its limiters.
THEOREM LimitsInvariant == Spec => []LimitsIInv
<1>1. Init => LimitsInit
  BY DEF Init
<1>2. [Next]_serviceVars => [LimitsNext]_limitsVars
  BY DEF Next, serviceVars
<1> QED
  BY <1>1, <1>2, InitLimits, NextLimits, PTL DEF Spec

\* Every answer shows the innermost limiter that ran: the one that refused it,
\* else the last that let it pass, and none on GET /health and on an answer of
\* Better Auth (the layers of http/mod.rs and set_headers of rate_limit.rs).
THEOREM LimiterIsShown == Spec => []AnswerShowsItsLimiter
<1>1. LimitsIInv => AnswerShowsItsLimiter
  <2> SUFFICES ASSUME RequestInv, NEW s \in Slots, request[s].layer = "answered"
               PROVE  LET r == request[s] IN
                      CASE r.path = "health" \/ r.passThrough ->
                             r.shown = NoHeaders /\ r.status # 429
                        [] r.status = 429 ->
                             r.shown # NoHeaders /\ ~r.shown.allowed /\ r.shown.remaining = 0
                        [] OTHER ->
                             /\ r.passed # <<>>
                             /\ r.shown = Last(r.passed)
                             /\ (r.path = "price" /\ r.status = 200) => r.shown.limiter = "apiKey"
                             /\ r.path = "login" => r.shown.limiter = "login"
    BY DEF LimitsIInv, AnswerShowsItsLimiter
  <2>1. ShowsItsLimiter(request[s])
    BY DEF RequestInv, NoRequest, InFlight, Active, Limiters
  <2> QED
    BY <2>1 DEF ShowsItsLimiter
<1> QED
  BY <1>1, LimitsInvariant, PTL

-----------------------------------------------------------------------------
(* What a span admits.                                                     *)

\* Two windows of a key begin at least this long after one another.
Spacing(l) == Length[l] - MaxDelay

\* The admissions of A after the instant x.
Newer(A, x) == {a \in A : a[1] > x}

\* The admissions A of a key fit its present window, which ends at `end` and has
\* let `hits` of them pass: those that came after the window before ended are
\* hits of this one, and that window in turn let at most Limit pass.
Fits(A, l, end, hits, now) ==
    /\ IsFiniteSet(A)
    /\ \A a \in A : a[1] \in Int /\ a[1] <= now /\ now < a[1] + Length[l]
    /\ Cardinality(Newer(A, end - Spacing(l))) <= hits
    /\ Cardinality(Newer(A, end - 2 * Spacing(l))) <= Limit[l] + hits
    /\ Cardinality(A) <= (Times - 1) * Limit[l] + hits

\* The limits are numbers, and a window is at least two delays long.
LEMMA LimitTypes ==
    ASSUME NEW l \in Limiters
    PROVE  /\ Limit[l] \in Nat /\ Limit[l] >= 1 /\ Length[l] \in Nat /\ MaxDelay \in Nat
           /\ 2 * MaxDelay <= Length[l] /\ Length[l] >= 1
           /\ Spacing(l) \in Int /\ Spacing(l) = Length[l] - MaxDelay
           /\ (Times - 1) * Limit[l] \in Nat
           /\ MaxDelay = 0 => (Times - 1) * Limit[l] = Limit[l]
           /\ MaxDelay # 0 => (Times - 1) * Limit[l] = 2 * Limit[l]
<1>1. /\ Limit[l] \in Nat /\ Limit[l] >= 1 /\ Length[l] \in Nat /\ MaxDelay \in Nat
      /\ 2 * MaxDelay <= Length[l] /\ Length[l] >= 1
  BY LimitsAssumption
<1>2. CASE MaxDelay = 0
  BY <1>1, <1>2 DEF Times, Spacing
<1>3. CASE MaxDelay # 0
  BY <1>1, <1>3 DEF Times, Spacing
<1> QED
  BY <1>2, <1>3

\* Numbers of admissions are numbers, and fewer admissions count less.
LEMMA NewerCounts ==
    ASSUME NEW A, IsFiniteSet(A), NEW B, B \subseteq A, NEW x, NEW y,
           \A b \in B : b[1] > y => b[1] > x
    PROVE  /\ IsFiniteSet(B) /\ IsFiniteSet(Newer(B, y)) /\ IsFiniteSet(Newer(A, x))
           /\ Cardinality(B) \in Nat /\ Cardinality(A) \in Nat
           /\ Cardinality(Newer(A, x)) \in Nat /\ Cardinality(Newer(B, y)) \in Nat
           /\ Cardinality(B) <= Cardinality(A)
           /\ Cardinality(Newer(B, y)) <= Cardinality(Newer(A, x))
<1>1. Newer(A, x) \subseteq A /\ Newer(B, y) \subseteq B /\ Newer(B, y) \subseteq Newer(A, x)
  BY DEF Newer
<1>2. IsFiniteSet(B) /\ IsFiniteSet(Newer(A, x)) /\ Cardinality(B) <= Cardinality(A)
  BY <1>1, FS_Subset
<1>3. /\ IsFiniteSet(Newer(B, y))
      /\ Cardinality(Newer(B, y)) <= Cardinality(Newer(A, x))
  BY <1>1, <1>2, FS_Subset
<1> QED
  BY <1>2, <1>3, FS_CardinalityType

\* Time passes, admissions are forgotten, the window ends later or has more hits.
LEMMA FitsStays ==
    ASSUME NEW l \in Limiters, NEW A, NEW B, B \subseteq A,
           NEW end \in Int, NEW later \in Int, end <= later,
           NEW hits \in Nat, NEW more \in Nat, hits <= more,
           NEW now \in Int, NEW then \in Int, now <= then,
           \A b \in B : then < b[1] + Length[l],
           Fits(A, l, end, hits, now)
    PROVE  Fits(B, l, later, more, then)
<1>1. IsFiniteSet(A) /\ \A a \in A : a[1] \in Int /\ a[1] <= now /\ now < a[1] + Length[l]
  BY DEF Fits
<1>2. \A b \in B : /\ b[1] > later - Spacing(l) => b[1] > end - Spacing(l)
                   /\ b[1] > later - 2 * Spacing(l) => b[1] > end - 2 * Spacing(l)
  BY <1>1, LimitTypes
<1>3. /\ IsFiniteSet(B) /\ Cardinality(B) \in Nat /\ Cardinality(A) \in Nat
      /\ Cardinality(B) <= Cardinality(A)
      /\ Cardinality(Newer(B, later - Spacing(l))) \in Nat
      /\ Cardinality(Newer(A, end - Spacing(l))) \in Nat
      /\ Cardinality(Newer(B, later - Spacing(l))) <= Cardinality(Newer(A, end - Spacing(l)))
  BY <1>1, <1>2, NewerCounts
<1>4. /\ Cardinality(Newer(B, later - 2 * Spacing(l))) \in Nat
      /\ Cardinality(Newer(A, end - 2 * Spacing(l))) \in Nat
      /\ Cardinality(Newer(B, later - 2 * Spacing(l)))
            <= Cardinality(Newer(A, end - 2 * Spacing(l)))
  BY <1>1, <1>2, NewerCounts
<1>5. \A b \in B : b[1] \in Int /\ b[1] <= then
  BY <1>1
<1> QED
  BY <1>3, <1>4, <1>5, LimitTypes DEF Fits

\* The window lets one more pass.
LEMMA FitsOneMore ==
    ASSUME NEW l \in Limiters, NEW A, NEW end \in Int, NEW hits \in Nat, NEW now \in Int,
           NEW n, Fits(A, l, end, hits, now)
    PROVE  Fits(A \cup {<<now, n>>}, l, end, hits + 1, now)
<1> DEFINE B == A \cup {<<now, n>>}
<1>1. IsFiniteSet(A) /\ \A a \in A : a[1] \in Int /\ a[1] <= now /\ now < a[1] + Length[l]
  BY DEF Fits
<1>2. \A b \in B : b[1] \in Int /\ b[1] <= now /\ now < b[1] + Length[l]
  BY <1>1, LimitTypes
<1>3. ASSUME NEW C, IsFiniteSet(C)
      PROVE  /\ IsFiniteSet(C \cup {<<now, n>>})
             /\ Cardinality(C) \in Nat /\ Cardinality(C \cup {<<now, n>>}) \in Nat
             /\ Cardinality(C \cup {<<now, n>>}) <= Cardinality(C) + 1
  <2> DEFINE D == C \cup {<<now, n>>}
  <2>1. IsFiniteSet(D) /\ Cardinality(D) \in {Cardinality(C), Cardinality(C) + 1}
    BY <1>3, FS_AddElement
  <2>2. Cardinality(C) \in Nat
    BY <1>3, FS_CardinalityType
  <2> HIDE DEF D
  <2>3. Cardinality(D) \in Nat /\ Cardinality(D) <= Cardinality(C) + 1
    BY <2>1, <2>2
  <2> QED
    BY <2>1, <2>2, <2>3 DEF D
<1>4. ASSUME NEW x
      PROVE  /\ Cardinality(Newer(B, x)) \in Nat /\ Cardinality(Newer(A, x)) \in Nat
             /\ Cardinality(Newer(B, x)) <= Cardinality(Newer(A, x)) + 1
  <2> DEFINE C == Newer(A, x)
  <2>1. IsFiniteSet(C)
    BY <1>1, NewerCounts
  <2>2. Newer(B, x) \subseteq C \cup {<<now, n>>}
    BY DEF Newer
  <2> HIDE DEF C, B
  <2>3. /\ IsFiniteSet(C \cup {<<now, n>>}) /\ Cardinality(C) \in Nat
        /\ Cardinality(C \cup {<<now, n>>}) \in Nat
        /\ Cardinality(C \cup {<<now, n>>}) <= Cardinality(C) + 1
    BY <1>3, <2>1
  <2>4. /\ IsFiniteSet(Newer(B, x))
        /\ Cardinality(Newer(B, x)) <= Cardinality(C \cup {<<now, n>>})
    BY <2>2, <2>3, FS_Subset
  <2>5. Cardinality(Newer(B, x)) \in Nat
    BY <2>4, FS_CardinalityType
  <2> QED
    BY <2>3, <2>4, <2>5 DEF C
<1>5. /\ IsFiniteSet(B) /\ Cardinality(B) \in Nat /\ Cardinality(A) \in Nat
      /\ Cardinality(B) <= Cardinality(A) + 1
  BY <1>1, <1>3
<1>6. /\ Cardinality(Newer(A, end - Spacing(l))) <= hits
      /\ Cardinality(Newer(A, end - 2 * Spacing(l))) <= Limit[l] + hits
      /\ Cardinality(A) <= (Times - 1) * Limit[l] + hits
  BY DEF Fits
<1> HIDE DEF B
<1>7. Cardinality(Newer(B, end - Spacing(l))) <= hits + 1
  BY <1>4, <1>6
<1>8. Cardinality(Newer(B, end - 2 * Spacing(l))) <= Limit[l] + (hits + 1)
  BY <1>4, <1>6, LimitTypes
<1>9. Cardinality(B) <= (Times - 1) * Limit[l] + (hits + 1)
  BY <1>5, <1>6, LimitTypes
<1>10. Fits(B, l, end, hits + 1, now)
  BY <1>2, <1>5, <1>7, <1>8, <1>9 DEF Fits
<1> QED
  BY <1>10 DEF B

\* A window begins when the one before is over, or was dropped after its end; by
\* then no more than Times - 1 windows can have admissions in the span.
LEMMA FitsNewWindow ==
    ASSUME NEW l \in Limiters, NEW A, NEW end \in Int, NEW hits \in Nat, NEW now \in Int,
           NEW at \in Int, Fits(A, l, end, hits, now),
           end <= now, hits <= Limit[l], at <= now, now <= at + MaxDelay
    PROVE  Fits(A, l, at + Length[l], 0, now)
<1> DEFINE fresh == at + Length[l]
<1>1. IsFiniteSet(A) /\ \A a \in A : a[1] \in Int /\ a[1] <= now /\ now < a[1] + Length[l]
  BY DEF Fits
<1>2. Cardinality(Newer(A, fresh - Spacing(l))) <= 0
  <2>1. ASSUME NEW a \in A PROVE ~(a[1] > fresh - Spacing(l))
    BY <1>1, <2>1, LimitTypes
  <2>2. Newer(A, fresh - Spacing(l)) = {}
    BY <2>1 DEF Newer
  <2>3. Cardinality({}) = 0
    BY FS_EmptySet
  <2>4. 0 <= 0
    OBVIOUS
  <2> QED
    BY <2>2, <2>3, <2>4
<1>3. /\ Cardinality(Newer(A, fresh - 2 * Spacing(l)))
            <= Cardinality(Newer(A, end - Spacing(l)))
      /\ Cardinality(Newer(A, fresh - 2 * Spacing(l))) \in Nat
      /\ Cardinality(Newer(A, end - Spacing(l))) \in Nat
  <2>1. \A a \in A : a[1] > fresh - 2 * Spacing(l) => a[1] > end - Spacing(l)
    BY <1>1, LimitTypes
  <2> QED
    BY <1>1, <2>1, NewerCounts
<1>4. /\ Cardinality(Newer(A, end - Spacing(l))) <= hits
      /\ Cardinality(Newer(A, end - 2 * Spacing(l))) <= Limit[l] + hits
  BY DEF Fits
<1>5. Cardinality(A) <= (Times - 1) * Limit[l] + 0
  <2>1. CASE MaxDelay = 0
    <3>1. \A a \in A : a[1] > end - Spacing(l)
      BY <1>1, <2>1, LimitTypes
    <3>2. Newer(A, end - Spacing(l)) = A
      BY <3>1 DEF Newer
    <3>3. Cardinality(A) <= hits /\ Cardinality(A) \in Nat
      BY <1>3, <1>4, <3>2
    <3> QED
      BY <2>1, <3>3, LimitTypes
  <2>2. CASE MaxDelay # 0
    <3>1. \A a \in A : a[1] > end - 2 * Spacing(l)
      BY <1>1, LimitTypes
    <3>2. Newer(A, end - 2 * Spacing(l)) = A
      BY <3>1 DEF Newer
    <3>3. Cardinality(A) <= Limit[l] + hits /\ Cardinality(A) \in Nat
      BY <1>1, <1>4, <3>2, FS_CardinalityType
    <3> QED
      BY <2>2, <3>3, LimitTypes
  <2> QED
    BY <2>1, <2>2
<1> HIDE DEF fresh
<1>6. Cardinality(Newer(A, fresh - 2 * Spacing(l))) <= Limit[l] + 0
  BY <1>3, <1>4, LimitTypes
<1>7. Fits(A, l, fresh, 0, now)
  BY <1>1, <1>2, <1>5, <1>6 DEF Fits
<1> QED
  BY <1>7 DEF fresh

\* No admission fits any window.
LEMMA NothingFits ==
    ASSUME NEW l \in Limiters, NEW end \in Int, NEW hits \in Nat, NEW now \in Int
    PROVE  Fits({}, l, end, hits, now)
<1>1. \A x : Newer({}, x) = {}
  BY DEF Newer
<1>2. IsFiniteSet({}) /\ Cardinality({}) = 0
  BY FS_EmptySet
<1>3. 0 <= hits /\ 0 <= Limit[l] + hits /\ 0 <= (Times - 1) * Limit[l] + hits
  BY LimitTypes
<1> QED
  BY <1>1, <1>2, <1>3 DEF Fits

\* Making room leaves the other windows as they are, and that of the key.
LEMMA RoomKeeps ==
    ASSUME NEW table, NEW key, NEW at, NEW room \in WithRoom(table, key, at)
    PROVE  /\ key \in DOMAIN table => room = table
           /\ DOMAIN room \subseteq DOMAIN table
           /\ \A k \in DOMAIN room : room[k] = table[k]
<1> DEFINE live == Restrict(table, Live(table, at))
<1>1. DOMAIN live \subseteq DOMAIN table /\ \A k \in DOMAIN live : live[k] = table[k]
  BY DEF Restrict, Live
<1>2. key \in DOMAIN table => room = table
  BY DEF WithRoom
<1>3. \/ room = table \/ room = live
      \/ \E k \in FirstToEnd(live) : room = Restrict(live, DOMAIN live \ {k})
  BY DEF WithRoom
<1> HIDE DEF live
<1> QED
  BY <1>1, <1>2, <1>3 DEF Restrict

\* Min is the smaller of two integers.
LEMMA SmallerOfTwo ==
    ASSUME NEW a \in Int, NEW b \in Int
    PROVE  Min({a, b}) \in {a, b} /\ Min({a, b}) <= a /\ Min({a, b}) <= b
<1>1. \E x \in {a, b} : \A y \in {a, b} : x <= y
  BY a <= b \/ b <= a
<1> QED
  BY <1>1 DEF Min

\* The window that a request counts in: the present one, or a new one.
LEMMA CountedWindow ==
    ASSUME NEW l \in Limiters, NEW table, NEW key, NEW at \in Int,
           \A k \in DOMAIN table : table[k] \in Window
    PROVE  LET window == Counted(l, WindowAt(l, table, key, at)) IN
           /\ window.resetAt \in Int /\ window.hits \in Nat
           /\ \/ /\ key \in DOMAIN table
                 /\ window.resetAt = table[key].resetAt
                 /\ window.hits <= Limit[l] => window.hits = table[key].hits + 1
              \/ /\ key \in DOMAIN table => table[key].resetAt <= at
                 /\ window.resetAt = at + Length[l]
                 /\ window.hits = 1
<1> DEFINE before == WindowAt(l, table, key, at)
           window == Counted(l, before)
           fresh == [hits |-> 0, resetAt |-> at + Length[l]]
<1>1. \A k \in DOMAIN table : table[k].hits \in Nat /\ table[k].resetAt \in Int
  BY DEF Window
<1>2. \/ key \in DOMAIN table /\ before = table[key]
      \/ (key \in DOMAIN table => table[key].resetAt <= at) /\ before = fresh
  BY <1>1 DEF WindowAt
<1>3. before \in Window /\ before.hits \in Nat /\ before.resetAt \in Int
  BY <1>1, <1>2, LimitTypes DEF Window
<1>4. /\ fresh.hits = 0 /\ fresh.resetAt = at + Length[l]
  OBVIOUS
<1> HIDE DEF before, fresh
<1>5. /\ window.resetAt = before.resetAt
      /\ window.hits = Min({before.hits + 1, Limit[l] + 1})
  BY <1>3 DEF Counted, Window
<1>6. Min({before.hits + 1, Limit[l] + 1}) \in {before.hits + 1, Limit[l] + 1}
      /\ Min({before.hits + 1, Limit[l] + 1}) <= before.hits + 1
      /\ Min({before.hits + 1, Limit[l] + 1}) <= Limit[l] + 1
  <2>1. \A a, b \in Int : Min({a, b}) \in {a, b} /\ Min({a, b}) <= a /\ Min({a, b}) <= b
    BY SmallerOfTwo
  <2>2. before.hits + 1 \in Int /\ Limit[l] + 1 \in Int
    BY <1>3, LimitTypes
  <2> QED
    BY <2>1, <2>2
<1> HIDE DEF window
<1>7. window.resetAt \in Int /\ window.hits \in Nat
      /\ window.hits \in {before.hits + 1, Limit[l] + 1}
      /\ window.hits <= before.hits + 1 /\ window.hits <= Limit[l] + 1
  BY <1>3, <1>5, <1>6, LimitTypes
<1>8. ASSUME key \in DOMAIN table, before = table[key]
      PROVE  /\ window.resetAt = table[key].resetAt
             /\ window.hits <= Limit[l] => window.hits = table[key].hits + 1
  <2>1. before.hits = table[key].hits /\ before.resetAt = table[key].resetAt
    BY <1>8
  <2> QED
    BY <1>3, <1>5, <1>7, <2>1, LimitTypes
<1>9. ASSUME before = fresh
      PROVE  window.hits = 1 /\ window.resetAt = at + Length[l]
  BY <1>3, <1>4, <1>5, <1>7, <1>9, LimitTypes
<1>10. /\ window.resetAt \in Int /\ window.hits \in Nat
       /\ \/ /\ key \in DOMAIN table
             /\ window.resetAt = table[key].resetAt
             /\ window.hits <= Limit[l] => window.hits = table[key].hits + 1
          \/ /\ key \in DOMAIN table => table[key].resetAt <= at
             /\ window.resetAt = at + Length[l]
             /\ window.hits = 1
  BY <1>2, <1>7, <1>8, <1>9
<1> QED
  BY <1>10 DEF window, before

\* When the window of a key ends, and the requests that it let pass.  A key
\* without a window had one that is over.
EndOf(k) ==
    IF k \in DOMAIN windows[LimiterOf(k)] THEN windows[LimiterOf(k)][k].resetAt ELSE clock

HitsOf(k) ==
    IF k \in DOMAIN windows[LimiterOf(k)] /\ windows[LimiterOf(k)][k].hits <= Limit[LimiterOf(k)]
      THEN windows[LimiterOf(k)][k].hits
      ELSE Limit[LimiterOf(k)]

\* The instant that a layer has read is at most MaxDelay ago, and the layer
\* before the API key limit reads none.
DelayInv ==
    \A s \in Slots :
       /\ request[s].layer \in Limiters /\ request[s].at # Unread =>
             request[s].at <= clock /\ clock <= request[s].at + MaxDelay
       /\ request[s].layer = "authenticate" => request[s].at = Unread

AdmittedInv ==
    \A k \in DOMAIN admitted :
       /\ LimiterOf(k) \in Limiters
       /\ Fits(admitted[k], LimiterOf(k), EndOf(k), HitsOf(k), clock)

SpanIInv == LimitsIInv /\ DelayInv /\ AdmittedInv

\* The window of a key is given by numbers.
LEMMA EndTypes ==
    ASSUME clock \in Int, WindowInv, NEW k, LimiterOf(k) \in Limiters
    PROVE  EndOf(k) \in Int /\ HitsOf(k) \in Nat /\ HitsOf(k) <= Limit[LimiterOf(k)]
<1>1. k \in DOMAIN windows[LimiterOf(k)] =>
         /\ windows[LimiterOf(k)][k].resetAt \in Int
         /\ windows[LimiterOf(k)][k].hits \in Nat
  BY DEF WindowInv, Window
<1> QED
  BY <1>1, LimitTypes DEF EndOf, HitsOf

\* The key of a request in flight belongs to the limiter that it is in.
LEMMA KeyOfLimiter == ASSUME NEW r, NEW l \in Limiters PROVE LimiterOf(KeyIn(r, l)) = l
<1>1. CASE l = "apiKey"
  BY <1>1 DEF LimiterOf, KeyIn
<1>2. CASE l # "apiKey"
  <2>1. KeyIn(r, l)[1] = l /\ l # "apikey"
    BY <1>2 DEF KeyIn, Limiters
  <2> QED
    BY <2>1 DEF LimiterOf
<1> QED
  BY <1>1, <1>2

\* What a check leaves of the windows and of the history.
LEMMA CheckEffects ==
    ASSUME LimitsIInv, DelayInv, NEW s \in Slots, Check(s)
    PROVE  LET r == request[s]
               l == r.layer
               key == KeyIn(r, l)
           IN  /\ l \in Limiters /\ r.at \in Int /\ r.at <= clock /\ clock <= r.at + MaxDelay
               /\ \E table \in WithRoom(windows[l], key, r.at) :
                    LET window == Counted(l, WindowAt(l, table, key, r.at))
                        decision == Decision(l, window)
                        history == Admitting(key, decision)
                    IN  /\ windows' = [windows EXCEPT ![l] = Put(table, key, window)]
                        /\ forgotten' = forgotten \union (Live(windows[l], r.at) \ DOMAIN table)
                        /\ admitted' = Restrict(history, DOMAIN history \ forgotten')
<1> DEFINE r == request[s]
<1>1. r.layer \in Limiters /\ r.at # Unread
  BY DEF Check
<1>2. InFlight(r)
  BY <1>1, LayerIsActive DEF LimitsIInv
<1>3. r.at \in Int
  BY <1>2 DEF InFlight, Active
<1>4. r.at <= clock /\ clock <= r.at + MaxDelay
  BY <1>1 DEF DelayInv
<1> QED
  BY <1>1, <1>3, <1>4 DEF Check

\* A check keeps the history of every key in line with its window.
LEMMA CountAdmitted ==
    ASSUME LimitsIInv, AdmittedInv, UNCHANGED clock,
           NEW l \in Limiters, NEW key, LimiterOf(key) = l,
           NEW at \in Int, at <= clock, clock <= at + MaxDelay,
           NEW table \in WithRoom(windows[l], key, at),
           LET window == Counted(l, WindowAt(l, table, key, at))
               decision == Decision(l, window)
               history == Admitting(key, decision)
           IN  /\ windows' = [windows EXCEPT ![l] = Put(table, key, window)]
               /\ forgotten' = forgotten \union (Live(windows[l], at) \ DOMAIN table)
               /\ admitted' = Restrict(history, DOMAIN history \ forgotten')
    PROVE  AdmittedInv'
<1> DEFINE window == Counted(l, WindowAt(l, table, key, at))
           decision == Decision(l, window)
           history == Admitting(key, decision)
           table2 == Put(table, key, window)
<1>3. /\ windows' = [windows EXCEPT ![l] = table2]
      /\ forgotten' = forgotten \union (Live(windows[l], at) \ DOMAIN table)
      /\ admitted' = Restrict(history, DOMAIN history \ forgotten')
  OBVIOUS
<1>5. clock' = clock /\ clock \in Int
  BY DEF LimitsIInv
<1>6. /\ key \in DOMAIN windows[l] => table = windows[l]
      /\ DOMAIN table \subseteq DOMAIN windows[l]
      /\ \A k \in DOMAIN table : table[k] = windows[l][k]
  BY RoomKeeps
<1>7. \A k \in DOMAIN windows[l] : /\ windows[l][k] \in Window
                                   /\ windows[l][k].hits \in Nat
                                   /\ windows[l][k].resetAt \in Int
  BY DEF LimitsIInv, WindowInv, Window
<1>8. /\ window.resetAt \in Int /\ window.hits \in Nat
      /\ \/ /\ key \in DOMAIN table
            /\ window.resetAt = table[key].resetAt
            /\ window.hits <= Limit[l] => window.hits = table[key].hits + 1
         \/ /\ key \in DOMAIN table => table[key].resetAt <= at
            /\ window.resetAt = at + Length[l]
            /\ window.hits = 1
  <2>1. \A k \in DOMAIN table : table[k] \in Window
    BY <1>6, <1>7
  <2> QED
    BY <2>1, CountedWindow
<1>9. decision.allowed <=> window.hits <= Limit[l]
  BY DEF Decision
<1> DEFINE earlier == IF key \in DOMAIN admitted THEN admitted[key] ELSE {}
           now == <<clock, Cardinality({a \in earlier : a[1] = clock})>>
<1>10. /\ ~decision.allowed => history = admitted
       /\ decision.allowed =>
             /\ DOMAIN history = DOMAIN admitted \cup {key}
             /\ history[key] = earlier \cup {now}
             /\ \A k \in DOMAIN admitted \ {key} : history[k] = admitted[k]
  BY DEF Admitting, Put
<1>11. /\ DOMAIN table2 = DOMAIN table \cup {key}
       /\ table2[key] = window
       /\ \A k \in DOMAIN table \ {key} : table2[k] = table[k]
  BY DEF Put
<1> HIDE DEF window, decision, history, table2, now
<1>12. \A k \in DOMAIN admitted' : k \in DOMAIN history /\ k \notin forgotten'
                                   /\ admitted'[k] = history[k]
  BY <1>3 DEF Restrict
<1>13. /\ windows'[l] = table2
       /\ \A m \in Limiters \ {l} : windows'[m] = windows[m]
  BY <1>3 DEF LimitsIInv, WindowInv
<1>1. Limit[l] \in Nat /\ Limit[l] >= 1
  BY LimitTypes
<1>14. /\ Fits(earlier, l, EndOf(key), HitsOf(key), clock)
       /\ EndOf(key) \in Int /\ HitsOf(key) \in Nat /\ HitsOf(key) <= Limit[l]
  <2>1. EndOf(key) \in Int /\ HitsOf(key) \in Nat /\ HitsOf(key) <= Limit[l]
    BY <1>5, EndTypes DEF LimitsIInv
  <2>2. CASE key \in DOMAIN admitted
    BY <2>1, <2>2 DEF AdmittedInv
  <2>3. CASE key \notin DOMAIN admitted
    BY <1>5, <2>1, <2>3, NothingFits
  <2> QED
    BY <2>1, <2>2, <2>3
<1>15. /\ EndOf(key)' = window.resetAt
       /\ HitsOf(key)' = IF window.hits <= Limit[l] THEN window.hits ELSE Limit[l]
  BY <1>11, <1>13 DEF EndOf, HitsOf
<1>16. decision.allowed => Fits(earlier \cup {now}, l, EndOf(key)', HitsOf(key)', clock)
  <2> SUFFICES ASSUME window.hits <= Limit[l]
               PROVE  Fits(earlier \cup {now}, l, window.resetAt, window.hits, clock)
    BY <1>9, <1>15
  <2> HIDE DEF earlier
  <2>1. ASSUME NEW end \in Int, NEW hits \in Nat, Fits(earlier, l, end, hits, clock)
        PROVE  Fits(earlier \cup {now}, l, end, hits + 1, clock)
    BY <1>5, <2>1, FitsOneMore DEF now
  <2>2. CASE /\ key \in DOMAIN table
             /\ window.resetAt = table[key].resetAt
             /\ window.hits <= Limit[l] => window.hits = table[key].hits + 1
    <3>1. /\ key \in DOMAIN windows[l] /\ table[key] = windows[l][key]
          /\ windows[l][key].hits \in Nat
      BY <1>6, <1>7, <2>2
    <3>2. EndOf(key) = window.resetAt
      BY <2>2, <3>1 DEF EndOf
    <3>3. window.hits = windows[l][key].hits + 1 /\ windows[l][key].hits <= Limit[l]
      BY <1>8, <1>1, <2>2, <3>1
    <3>4. HitsOf(key) = windows[l][key].hits
      BY <3>1, <3>3 DEF HitsOf
    <3> QED
      BY <1>14, <2>1, <3>2, <3>3, <3>4
  <2>3. CASE /\ key \in DOMAIN table => table[key].resetAt <= at
             /\ window.resetAt = at + Length[l]
             /\ window.hits = 1
    <3>1. EndOf(key) <= clock
      <4>1. CASE key \in DOMAIN windows[l]
        <5>1. key \in DOMAIN table /\ table[key] = windows[l][key]
          BY <1>6, <4>1
        <5>2. EndOf(key) = windows[l][key].resetAt
          BY <4>1 DEF EndOf
        <5> QED
          BY <1>5, <1>7, <2>3, <4>1, <5>1, <5>2
      <4>2. CASE key \notin DOMAIN windows[l]
        BY <1>5, <4>2 DEF EndOf
      <4> QED
        BY <4>1, <4>2
    <3>2. Fits(earlier, l, at + Length[l], 0, clock)
      BY <1>5, <1>14, <3>1, FitsNewWindow
    <3>3. at + Length[l] \in Int
      BY LimitTypes
    <3>4. Fits(earlier \cup {now}, l, at + Length[l], 0 + 1, clock)
      BY <2>1, <3>2, <3>3
    <3> QED
      BY <2>3, <3>4
  <2> QED
    BY <1>8, <2>2, <2>3
<1>17. ~decision.allowed /\ key \in DOMAIN admitted =>
          Fits(admitted[key], l, EndOf(key)', HitsOf(key)', clock)
  <2> SUFFICES ASSUME ~(window.hits <= Limit[l]), key \in DOMAIN admitted
               PROVE  Fits(admitted[key], l, window.resetAt, Limit[l], clock)
    BY <1>9, <1>15
  <2>1. /\ key \in DOMAIN table
        /\ window.resetAt = table[key].resetAt
    BY <1>1, <1>8
  <2>2. EndOf(key) = window.resetAt
    BY <1>6, <2>1 DEF EndOf
  <2>3. /\ Fits(admitted[key], l, EndOf(key), HitsOf(key), clock)
        /\ \A a \in admitted[key] : clock < a[1] + Length[l]
    BY <1>14 DEF Fits
  <2> HIDE DEF earlier
  <2> QED
    BY <1>1, <1>5, <1>8, <1>14, <2>2, <2>3, FitsStays
<1>18. ASSUME NEW k \in DOMAIN admitted, k # key, k \notin forgotten'
       PROVE  /\ LimiterOf(k) \in Limiters
              /\ Fits(admitted[k], LimiterOf(k), EndOf(k)', HitsOf(k)', clock)
  <2>1. /\ LimiterOf(k) \in Limiters
        /\ Fits(admitted[k], LimiterOf(k), EndOf(k), HitsOf(k), clock)
    BY <1>18 DEF AdmittedInv
  <2>2. CASE EndOf(k)' = EndOf(k) /\ HitsOf(k)' = HitsOf(k)
    BY <2>1, <2>2
  <2>3. CASE LimiterOf(k) # l
    BY <1>5, <1>13, <2>1, <2>2, <2>3 DEF EndOf, HitsOf
  <2>4. CASE LimiterOf(k) = l /\ k \in DOMAIN table
    BY <1>5, <1>6, <1>11, <1>13, <1>18, <2>2, <2>4 DEF EndOf, HitsOf
  <2>5. CASE LimiterOf(k) = l /\ k \notin DOMAIN windows[l]
    BY <1>5, <1>6, <1>11, <1>13, <1>18, <2>2, <2>5 DEF EndOf, HitsOf
  <2>6. CASE LimiterOf(k) = l /\ k \in DOMAIN windows[l] /\ k \notin DOMAIN table
    <3>1. ~(windows[l][k].resetAt > at)
      BY <1>3, <1>18, <2>6 DEF Live
    <3>2. EndOf(k) = windows[l][k].resetAt /\ EndOf(k) \in Int /\ EndOf(k) <= clock
      BY <1>5, <1>7, <2>6, <3>1 DEF EndOf
    <3>3. EndOf(k)' = clock /\ HitsOf(k)' = Limit[l]
      BY <1>5, <1>11, <1>13, <1>18, <2>6 DEF EndOf, HitsOf
    <3>4. HitsOf(k) \in Nat /\ HitsOf(k) <= Limit[l]
      BY <1>5, <2>1, <2>6, EndTypes DEF LimitsIInv
    <3>5. \A a \in admitted[k] : clock < a[1] + Length[l]
      BY <2>1, <2>6 DEF Fits
    <3>6. Fits(admitted[k], l, clock, Limit[l], clock)
      BY <1>1, <1>5, <2>1, <2>6, <3>2, <3>4, <3>5, FitsStays
    <3> QED
      BY <2>1, <2>6, <3>3, <3>6
  <2> QED
    BY <2>3, <2>4, <2>5, <2>6
<1>19. ASSUME NEW k \in DOMAIN admitted'
       PROVE  /\ LimiterOf(k) \in Limiters
              /\ Fits(admitted'[k], LimiterOf(k), EndOf(k)', HitsOf(k)', clock')
  <2>1. k \in DOMAIN history /\ k \notin forgotten' /\ admitted'[k] = history[k]
    BY <1>12, <1>19
  <2>2. CASE k = key /\ decision.allowed
    BY <1>5, <1>10, <1>16, <2>1, <2>2
  <2>3. CASE k = key /\ ~decision.allowed
    BY <1>5, <1>10, <1>17, <2>1, <2>3
  <2>4. CASE k # key
    <3>1. k \in DOMAIN admitted /\ history[k] = admitted[k]
      BY <1>10, <2>1, <2>4
    <3> QED
      BY <1>5, <1>18, <2>1, <2>4, <3>1
  <2> QED
    BY <2>2, <2>3, <2>4
<1> QED
  BY <1>19 DEF AdmittedInv

\* So does the check of a request in its limiter.
LEMMA CheckAdmitted ==
    ASSUME LimitsIInv, DelayInv, AdmittedInv, NEW s \in Slots, Check(s)
    PROVE  AdmittedInv'
<1> DEFINE r == request[s]
           l == r.layer
           key == KeyIn(r, l)
<1>1. l \in Limiters /\ r.at \in Int /\ r.at <= clock /\ clock <= r.at + MaxDelay
  BY CheckEffects
<1>2. PICK table \in WithRoom(windows[l], key, r.at) :
        LET window == Counted(l, WindowAt(l, table, key, r.at))
            decision == Decision(l, window)
            history == Admitting(key, decision)
        IN  /\ windows' = [windows EXCEPT ![l] = Put(table, key, window)]
            /\ forgotten' = forgotten \union (Live(windows[l], r.at) \ DOMAIN table)
            /\ admitted' = Restrict(history, DOMAIN history \ forgotten')
  BY CheckEffects
<1>3. LimiterOf(key) = l
  BY <1>1, KeyOfLimiter
<1>4. UNCHANGED clock
  BY DEF Check
<1> QED
  BY <1>1, <1>2, <1>3, <1>4, CountAdmitted

\* Time that passes forgets the admissions that no span can still hold.
LEMMA PassTimeAdmitted ==
    ASSUME LimitsIInv, AdmittedInv, PassTime
    PROVE  AdmittedInv'
<1>1. clock' = clock + 1 /\ clock \in Int /\ UNCHANGED windows
  BY DEF PassTime, LimitsIInv
<1>2. admitted' = [k \in DOMAIN admitted |->
         {a \in admitted[k] : a[1] + Length[LimiterOf(k)] > clock + 1}]
  BY DEF PassTime
<1> SUFFICES ASSUME NEW k \in DOMAIN admitted
             PROVE  /\ LimiterOf(k) \in Limiters
                    /\ Fits(admitted'[k], LimiterOf(k), EndOf(k)', HitsOf(k)', clock')
  BY <1>2 DEF AdmittedInv
<1> DEFINE l == LimiterOf(k)
           kept == {a \in admitted[k] : a[1] + Length[l] > clock + 1}
<1>3. l \in Limiters /\ Fits(admitted[k], l, EndOf(k), HitsOf(k), clock)
  BY DEF AdmittedInv
<1>4. EndOf(k) \in Int /\ HitsOf(k) \in Nat /\ HitsOf(k)' = HitsOf(k)
  BY <1>1, <1>3, EndTypes DEF LimitsIInv, HitsOf
<1>5. EndOf(k)' \in Int /\ EndOf(k) <= EndOf(k)'
  BY <1>1, <1>4 DEF EndOf
<1>6. admitted'[k] = kept
  BY <1>2
<1>7. \A a \in kept : a[1] \in Int /\ clock + 1 < a[1] + Length[l]
  BY <1>1, <1>3, LimitTypes DEF Fits
<1>8. Fits(kept, l, EndOf(k)', HitsOf(k), clock + 1)
  <2>1. kept \subseteq admitted[k] /\ clock + 1 \in Int /\ clock <= clock + 1
    BY <1>1
  <2> HIDE DEF kept, l
  <2> QED
    BY <1>1, <1>3, <1>4, <1>5, <1>7, <2>1, FitsStays
<1> QED
  BY <1>1, <1>3, <1>4, <1>6, <1>8

\* The other steps leave windows and history alone.
LEMMA QuietAdmitted ==
    ASSUME AdmittedInv, UNCHANGED <<clock, windows, admitted>>
    PROVE  AdmittedInv'
BY DEF AdmittedInv, EndOf, HitsOf

\* A request is delayed by the lock only, and time waits for the delayed ones.
LEMMA NextDelay ==
    ASSUME LimitsIInv, DelayInv, [LimitsNext]_limitsVars
    PROVE  DelayInv'
<1>1. CASE UNCHANGED limitsVars
  BY <1>1 DEF limitsVars, DelayInv
<1>2. ASSUME NEW s \in Slots, NEW x, request' = [request EXCEPT ![s] = x], UNCHANGED clock,
             \/ x.at = Unread
             \/ x.at = clock /\ x.layer # "authenticate"
             \/ x.layer \notin Limiters \cup {"authenticate"}
      PROVE  DelayInv'
  <2>1. request' = [t \in Slots |-> IF t = s THEN x ELSE request[t]]
    BY <1>2 DEF LimitsIInv, RequestInv
  <2> QED
    BY <1>2, <2>1, LimitTypes, LimitsAssumption DEF DelayInv, LimitsIInv, Limiters
<1>3. ASSUME NEW s \in Slots, NEW q \in Requests, Arrive(s, q) PROVE DelayInv'
  <2> DEFINE x == [path |-> q.path, client |-> ClientKey(q.headers), caller |-> q.caller,
                   layer |-> IF q.path = "health" THEN "handler" ELSE "global",
                   at |-> Unread, passed |-> <<>>]
  <2>1. request' = [request EXCEPT ![s] = x] /\ UNCHANGED clock /\ x.at = Unread
    BY <1>3 DEF Arrive
  <2> HIDE DEF x
  <2> QED
    BY <1>2, <2>1
<1>4. ASSUME NEW s \in Slots, ReadClock(s) PROVE DelayInv'
  <2> DEFINE x == [request[s] EXCEPT !.at = clock]
  <2>1. InFlight(request[s])
    BY <1>4, LayerIsActive DEF ReadClock, LimitsIInv
  <2>2. x.at = clock /\ x.layer # "authenticate"
    BY <1>4, <2>1 DEF InFlight, Active, ReadClock, Limiters
  <2>3. request' = [request EXCEPT ![s] = x] /\ UNCHANGED clock
    BY <1>4 DEF ReadClock
  <2> HIDE DEF x
  <2> QED
    BY <1>2, <2>2, <2>3
<1>5. ASSUME NEW s \in Slots, Check(s) PROVE DelayInv'
  <2> DEFINE passed(d) == [request[s] EXCEPT !.layer = Inner(request[s], request[s].layer),
                                             !.at = Unread, !.passed = Append(@, d)]
  <2>1. InFlight(request[s])
    BY <1>5, LayerIsActive DEF Check, LimitsIInv
  <2>2. \A d : passed(d).at = Unread
    BY <2>1 DEF InFlight, Active
  <2>3. \A d : Refused(request[s], d).layer \notin Limiters \cup {"authenticate"}
    BY DEF Refused, Answered, Limiters
  <2>4. /\ UNCHANGED clock
        /\ \E d : \/ request' = [request EXCEPT ![s] = passed(d)]
                  \/ request' = [request EXCEPT ![s] = Refused(request[s], d)]
    <3>1. \E d : request' = [request EXCEPT ![s] =
                               IF d.allowed THEN passed(d) ELSE Refused(request[s], d)]
      BY <1>5 DEF Check, Refused
    <3> HIDE DEF passed
    <3>2. UNCHANGED clock
      BY <1>5 DEF Check
    <3> QED
      BY <3>1, <3>2
  <2> HIDE DEF passed
  <2> QED
    BY <1>2, <2>2, <2>3, <2>4
<1>6. ASSUME NEW s \in Slots, Authenticate(s) PROVE DelayInv'
  <2> DEFINE x == [request[s] EXCEPT !.layer = "apiKey"]
  <2>1. \/ request' = [request EXCEPT ![s] = x]
        \/ request' = [request EXCEPT ![s] = Unauthorized(request[s])]
        \/ request' = [request EXCEPT ![s] = StoreFailed(request[s])]
    <3> HIDE DEF x
    <3> QED
      BY <1>6, Authenticated DEF x
  <2>2. x.at = Unread
    <3>1. InFlight(request[s]) /\ request[s].at = Unread
      BY <1>6, LayerIsActive DEF Authenticate, DelayInv, LimitsIInv
    <3> QED
      BY <3>1 DEF InFlight, Active
  <2>3. /\ Unauthorized(request[s]).layer \notin Limiters \cup {"authenticate"}
        /\ StoreFailed(request[s]).layer \notin Limiters \cup {"authenticate"}
    BY DEF Unauthorized, StoreFailed, Answered, Limiters
  <2>4. UNCHANGED clock
    BY <1>6 DEF Authenticate
  <2> HIDE DEF x
  <2> QED
    BY <1>2, <2>1, <2>2, <2>3, <2>4
<1>7. ASSUME NEW s \in Slots, Answer(s) PROVE DelayInv'
  <2> DEFINE y(passThrough) == Answered(request[s], 200, NoHeaders, passThrough)
  <2>1. /\ UNCHANGED clock
        /\ \E passThrough : request' = [request EXCEPT ![s] = y(passThrough)]
    BY <1>7 DEF Answer
  <2>2. \A passThrough : y(passThrough).layer \notin Limiters \cup {"authenticate"}
    BY DEF Answered, Limiters
  <2> HIDE DEF y
  <2> QED
    BY <1>2, <2>1, <2>2
<1>8. ASSUME NEW s \in Slots, Leave(s) PROVE DelayInv'
  <2>1. NoRequest.layer \notin Limiters \cup {"authenticate"}
    BY DEF NoRequest, Limiters
  <2> QED
    BY <1>2, <1>8, <2>1 DEF Leave
<1>9. CASE PassTime
  <2>1. clock' = clock + 1 /\ UNCHANGED request /\ clock \in Int
    BY <1>9 DEF PassTime, LimitsIInv
  <2>2. ASSUME NEW s \in Slots, request[s].layer \in Limiters, request[s].at # Unread
        PROVE  request[s].at <= clock + 1 /\ clock + 1 <= request[s].at + MaxDelay
    <3>1. request[s].at <= clock /\ clock - request[s].at < MaxDelay
      BY <1>9, <2>2 DEF PassTime, DelayInv
    <3>2. request[s].at \in Int
      BY <2>2, LayerIsActive DEF InFlight, Active, LimitsIInv
    <3> QED
      BY <2>1, <3>1, <3>2, LimitsAssumption
  <2> QED
    BY <2>1, <2>2 DEF DelayInv
<1> QED
  BY <1>1, <1>3, <1>4, <1>5, <1>6, <1>7, <1>8, <1>9 DEF LimitsNext

\* Every step keeps the invariant of the span.
LEMMA NextSpan == SpanIInv /\ [LimitsNext]_limitsVars => SpanIInv'
<1> SUFFICES ASSUME LimitsIInv, DelayInv, AdmittedInv, [LimitsNext]_limitsVars
             PROVE  LimitsIInv' /\ DelayInv' /\ AdmittedInv'
  BY DEF SpanIInv
<1>1. LimitsIInv' /\ DelayInv'
  BY NextLimits, NextDelay
<1>2. ASSUME NEW s \in Slots, Check(s) PROVE AdmittedInv'
  BY <1>2, CheckAdmitted
<1>3. CASE PassTime
  BY <1>1, <1>3, PassTimeAdmitted
<1>4. ASSUME \/ UNCHANGED limitsVars
             \/ \E s \in Slots, q \in Requests : Arrive(s, q)
             \/ \E s \in Slots : ReadClock(s) \/ Authenticate(s) \/ Answer(s) \/ Leave(s)
      PROVE  AdmittedInv'
  <2>1. UNCHANGED <<clock, windows, admitted>>
    BY <1>4 DEF limitsVars, Arrive, ReadClock, Authenticate, Answer, Leave
  <2> QED
    BY <2>1, QuietAdmitted
<1>5. AdmittedInv'
  BY <1>2, <1>3, <1>4 DEF LimitsNext
<1> QED
  BY <1>1, <1>5

\* However late requests take the lock of a limiter, and whatever windows are
\* dropped, a span as long as a window admits a key that was not evicted at most
\* twice its limit, three times with delays (Limiter::check of rate_limit.rs).
THEOREM SpansAreBounded == Spec => []SpanAdmitsAtMost
<1>1. LimitsInit => SpanIInv
  <2> SUFFICES ASSUME LimitsInit PROVE DelayInv /\ AdmittedInv
    BY InitLimits DEF SpanIInv
  <2>1. DelayInv
    BY DEF LimitsInit, DelayInv, NoRequest, Limiters
  <2>2. AdmittedInv
    BY DEF LimitsInit, AdmittedInv
  <2> QED
    BY <2>1, <2>2
<1>2. SpanIInv => SpanAdmitsAtMost
  <2> SUFFICES ASSUME SpanIInv, NEW k \in DOMAIN admitted
               PROVE  Cardinality(admitted[k]) <= Times * Limit[LimiterOf(k)]
    BY DEF SpanAdmitsAtMost
  <2> DEFINE l == LimiterOf(k)
  <2>1. l \in Limiters /\ Fits(admitted[k], l, EndOf(k), HitsOf(k), clock)
    BY DEF SpanIInv, AdmittedInv
  <2>2. HitsOf(k) \in Nat /\ HitsOf(k) <= Limit[l]
    BY <2>1, EndTypes DEF SpanIInv, LimitsIInv
  <2>3. Cardinality(admitted[k]) <= (Times - 1) * Limit[l] + HitsOf(k)
    BY <2>1 DEF Fits
  <2>4. Cardinality(admitted[k]) \in Nat
    BY <2>1, FS_CardinalityType DEF Fits
  <2>5. /\ Limit[l] \in Nat
        /\ \/ Times = 2 /\ (Times - 1) * Limit[l] = Limit[l]
           \/ Times = 3 /\ (Times - 1) * Limit[l] = 2 * Limit[l]
    BY <2>1, LimitTypes DEF Times
  <2> HIDE DEF l
  <2>6. Cardinality(admitted[k]) <= Times * Limit[l]
    BY <2>2, <2>3, <2>4, <2>5
  <2> QED
    BY <2>6 DEF l
<1>3. Init => LimitsInit
  BY DEF Init
<1>4. [Next]_serviceVars => [LimitsNext]_limitsVars
  BY DEF Next, serviceVars
<1> QED
  BY <1>1, <1>2, <1>3, <1>4, NextSpan, PTL DEF Spec

=============================================================================
