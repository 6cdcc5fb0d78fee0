--------------------------- MODULE UserDataProofs ---------------------------
(***************************************************************************)
(* Proofs about UserData for any number of requests of a user, any fields  *)
(* and values of the settings, and any bound on the keys and the faults.   *)
(***************************************************************************)
EXTENDS UserData, FiniteSetTheorems, TLAPS

(***************************************************************************)
(* The inductive invariant.                                                *)
(***************************************************************************)

\* Once a request has stored the defaults, or found a row, there is one.
SettingsInv ==
    /\ \A w \in Workers : pc[w] \in {"reread", "save"} => settings # None
    /\ SavedSettingsStay

\* The rows that open transactions delete are stored, and no two delete one row.
DeleteInv ==
    /\ \A w \in Workers : doomed[w] \subseteq keys
    /\ \A v, w \in Workers : doomed[v] \cap doomed[w] # {} => v = w

\* One transaction at most has inserted its key, and it has deleted every row
\* that is stored.
InsertInv ==
    /\ \A k, l \in keys : k = l
    /\ \A w \in Workers : pc[w] = "commit" =>
          /\ \E k \in Keys : fresh[w] = {k}
          /\ keys \subseteq doomed[w]
    /\ \A v, w \in Workers : pc[v] = "commit" /\ pc[w] = "commit" => v = w

\* A key is made once: the key of an open transaction is none of those that a
\* regeneration has replaced, or that this one is to replace.
IssueInv ==
    /\ revoked \subseteq issued
    /\ \A w \in Workers :
          /\ known[w] \subseteq issued
          /\ fresh[w] \cap (known[w] \cup revoked) = {}

IInv ==
    /\ TypeOK
    /\ SettingsInv
    /\ DeleteInv
    /\ InsertInv
    /\ IssueInv
    /\ RegenerateRevokes

-----------------------------------------------------------------------------

\* The values are no None, and the defaults are settings.
LEMMA Constants ==
    /\ None \notin Settings
    /\ Defaults \in Settings
    /\ NoUpdate \in Update
    /\ MaxFaults \in Nat
<1>1. NoUpdate \in [{} -> Values]
  BY DEF NoUpdate
<1>2. {} \in SUBSET Fields
  OBVIOUS
<1>3. NoUpdate \in Update
  BY <1>1, <1>2 DEF Update
<1> QED
  BY <1>3, ConstantsAssumption DEF Defaults, Settings

\* The given fields over a row are a row.
LEMMA MergedType ==
    ASSUME NEW old \in Settings, NEW given \in Update
    PROVE  Merged(old, given) \in Settings
<1>1. PICK fields \in SUBSET Fields : given \in [fields -> Values]
  BY DEF Update
<1> QED
  BY <1>1 DEF Merged, Settings

\* A request that ends leaves nothing behind.
LEMMA EndType ==
    ASSUME TypeOK, NEW w \in Workers, End(w)
    PROVE  /\ pc' \in [Workers -> Steps] /\ op' \in [Workers -> Operations]
           /\ update' \in [Workers -> Update]
           /\ current' \in [Workers -> Settings \cup {None}]
           /\ seen' \in [Workers -> SUBSET Keys]
           /\ doomed' \in [Workers -> SUBSET Keys]
           /\ fresh' \in [Workers -> SUBSET issued]
           /\ known' \in [Workers -> SUBSET Keys]
           /\ pc'[w] = "idle" /\ doomed'[w] = {} /\ fresh'[w] = {} /\ known'[w] = {}
           /\ \A v \in Workers \ {w} :
                 /\ pc'[v] = pc[v] /\ op'[v] = op[v] /\ current'[v] = current[v]
                 /\ doomed'[v] = doomed[v] /\ fresh'[v] = fresh[v] /\ known'[v] = known[v]
BY Constants DEF End, TypeOK, Steps, Operations

\* So does the whole state, when the row, the keys and the history are typed.
LEMMA EndTypeOK ==
    ASSUME TypeOK, NEW w \in Workers, End(w), issued' = issued,
           settings' \in Settings \cup {None}, saved' \in Settings \cup {None},
           keys' \subseteq issued, revoked' \subseteq Keys, faults' \in 0 .. MaxFaults
    PROVE  TypeOK'
BY EndType DEF TypeOK

\* The handler that goes on after ensure_user_settings is typed.
LEMMA AfterEnsureTypeOK ==
    ASSUME TypeOK, NEW w \in Workers, pc[w] \in {"ensure", "reread"},
           settings # None, AfterEnsure(w, settings),
           UNCHANGED <<row, keys, issued, revoked, faults>>
    PROVE  TypeOK'
<1> USE DEF row, request, transaction
<1>1. CASE End(w)
  BY <1>1, EndTypeOK DEF TypeOK
<1>2. CASE ~End(w)
  <2>1. UNCHANGED <<op, update, transaction, known>>
    BY <1>2 DEF AfterEnsure
  <2>2. CASE op[w] = "put"
    <3>1. current' = [current EXCEPT ![w] = settings] /\ pc' = [pc EXCEPT ![w] = "save"]
      BY <1>2, <2>2 DEF AfterEnsure, Continue
    <3> QED
      BY <2>1, <2>2, <3>1 DEF TypeOK, Steps
  <2>3. CASE op[w] # "put"
    <3>1. /\ current' = current
          /\ \/ pc' = [pc EXCEPT ![w] = "read key"]
             \/ pc' = [pc EXCEPT ![w] = "begin"]
      BY <1>2, <2>3 DEF AfterEnsure, Continue
    <3> QED
      BY <2>1, <2>3, <3>1 DEF TypeOK, Steps
  <2> QED
    BY <2>2, <2>3
<1> QED
  BY <1>1, <1>2

\* The row that a save stores.
LEMMA SavedType ==
    ASSUME TypeOK, NEW w \in Workers, pc[w] = "save"
    PROVE  Merged(current[w], update[w]) \in Settings
BY MergedType DEF TypeOK

\* The rows that a commit leaves.
LEMMA CommittedType ==
    ASSUME TypeOK, NEW w \in Workers
    PROVE  (keys \ doomed[w]) \cup fresh[w] \subseteq issued
BY DEF TypeOK

\* The initial states are typed.
LEMMA InitTypeOK == Init => TypeOK
BY Constants DEF Init, TypeOK, Steps, Operations

\* Every step keeps the types, action by action.
LEMMA NextTypeOK ==
    ASSUME TypeOK, SettingsInv, [Next]_vars
    PROVE  TypeOK'
<1> USE Constants DEF row, request, transaction, history
<1>1. CASE UNCHANGED vars
  BY <1>1 DEF vars, TypeOK
<1>2. ASSUME NEW w \in Workers, NEW operation \in Operations, NEW body \in Update,
             Start(w, operation, body)
      PROVE  TypeOK'
  <2>1. keys \subseteq Keys
    BY DEF TypeOK
  <2>2. /\ pc' = [pc EXCEPT ![w] = "ensure"] /\ pc[w] = "idle"
        /\ op' = [op EXCEPT ![w] = operation] /\ update' = [update EXCEPT ![w] = body]
        /\ known' \in [Workers -> SUBSET Keys]
        /\ UNCHANGED <<row, keys, current, transaction, issued, revoked, faults>>
    BY <1>2, <2>1 DEF Start, Continue, TypeOK
  <2> QED
    BY <2>2 DEF TypeOK, Steps
<1>3. ASSUME NEW w \in Workers, ReadSettings(w) PROVE TypeOK'
  <2>1. CASE settings # None
    BY <1>3, <2>1, AfterEnsureTypeOK DEF ReadSettings
  <2>2. CASE settings = None
    BY <1>3, <2>2 DEF ReadSettings, Continue, TypeOK, Steps
  <2> QED
    BY <2>1, <2>2
<1>4. ASSUME NEW w \in Workers, InsertDefaults(w) PROVE TypeOK'
  BY <1>4 DEF InsertDefaults, Continue, TypeOK, Steps
<1>5. ASSUME NEW w \in Workers, RereadSettings(w) PROVE TypeOK'
  BY <1>5, AfterEnsureTypeOK DEF RereadSettings, SettingsInv
<1>6. ASSUME NEW w \in Workers, Save(w) PROVE TypeOK'
  <2>1. settings' \in Settings /\ saved' \in Settings
    BY <1>6, SavedType DEF Save
  <2> QED
    BY <1>6, <2>1, EndTypeOK DEF Save, TypeOK
<1>7. ASSUME NEW w \in Workers, ReadKey(w) PROVE TypeOK'
  <2>1. CASE End(w)
    BY <1>7, <2>1, EndTypeOK DEF ReadKey, TypeOK
  <2>2. CASE ~End(w)
    BY <1>7, <2>2 DEF ReadKey, Continue, TypeOK, Steps
  <2> QED
    BY <2>1, <2>2
<1>8. ASSUME NEW w \in Workers, BeginReplace(w) PROVE TypeOK'
  BY <1>8 DEF BeginReplace, Continue, TypeOK, Steps
<1>9. ASSUME NEW w \in Workers, DeleteKeys(w) PROVE TypeOK'
  BY <1>9 DEF DeleteKeys, Continue, TypeOK, Steps
<1>10. ASSUME NEW w \in Workers, InsertKey(w) PROVE TypeOK'
  <2>1. CASE End(w) /\ issued' = issued
    BY <1>10, <2>1, EndTypeOK DEF InsertKey, TypeOK
  <2>2. CASE ~(End(w) /\ issued' = issued)
    <3>1. PICK key \in Keys \ issued :
              /\ fresh' = [fresh EXCEPT ![w] = {key}] /\ issued' = issued \cup {key}
      BY <1>10, <2>2 DEF InsertKey
    <3>2. /\ fresh' \in [Workers -> SUBSET issued'] /\ issued' \subseteq Keys
          /\ \A v \in Workers \ {w} : fresh'[v] = fresh[v]
      BY <3>1 DEF TypeOK
    <3> QED
      BY <1>10, <2>2, <3>1, <3>2 DEF InsertKey, Continue, TypeOK, Steps
  <2> QED
    BY <2>1, <2>2
<1>11. ASSUME NEW w \in Workers, CommitReplace(w) PROVE TypeOK'
  <2>1. keys' \subseteq issued /\ revoked' \subseteq Keys
    BY <1>11, CommittedType DEF CommitReplace, TypeOK
  <2> QED
    BY <1>11, <2>1, EndTypeOK DEF CommitReplace, TypeOK
<1>12. ASSUME NEW w \in Workers, Fail(w) PROVE TypeOK'
  <2>1. faults' \in 0 .. MaxFaults
    BY <1>12 DEF Fail, TypeOK
  <2>2. keys' \subseteq issued
    BY <1>12, CommittedType DEF Fail, TypeOK
  <2>3. settings' \in Settings \cup {None} /\ saved' \in Settings \cup {None}
    BY <1>12, SavedType DEF Fail, TypeOK
  <2> QED
    BY <1>12, <2>1, <2>2, <2>3, EndTypeOK DEF Fail, TypeOK
<1> QED
  BY <1>1, <1>2, <1>3, <1>4, <1>5, <1>6, <1>7, <1>8, <1>9, <1>10, <1>11, <1>12
     DEF Next, SettingsRequest, KeyRequest, Operations

-----------------------------------------------------------------------------

\* What a request does after ensure_user_settings.
LEMMA AfterEnsureSteps ==
    ASSUME TypeOK, NEW w \in Workers, NEW stored, AfterEnsure(w, stored)
    PROVE  /\ pc'[w] \in {"idle", "save", "read key", "begin"}
           /\ doomed'[w] \in {{}, doomed[w]} /\ fresh'[w] \in {{}, fresh[w]}
           /\ known'[w] \in {{}, known[w]}
           /\ \A v \in Workers \ {w} : /\ pc'[v] = pc[v] /\ doomed'[v] = doomed[v]
                                       /\ fresh'[v] = fresh[v] /\ known'[v] = known[v]
<1>1. CASE End(w)
  BY <1>1, EndType
<1>2. CASE ~End(w)
  BY <1>2 DEF AfterEnsure, Continue, transaction, TypeOK
<1> QED
  BY <1>1, <1>2

\* A row stays once there is one, and the defaults never replace a saved row.
LEMMA NextSettingsInv ==
    ASSUME TypeOK, SettingsInv, [Next]_vars
    PROVE  SettingsInv'
<1> USE Constants DEF SettingsInv, SavedSettingsStay, row
<1>1. ASSUME NEW w \in Workers, settings # None,
             UNCHANGED row, \A v \in Workers \ {w} : pc'[v] = pc[v]
      PROVE  SettingsInv'
  BY <1>1
<1>2. ASSUME NEW w \in Workers, pc'[w] \notin {"reread", "save"},
             UNCHANGED row, \A v \in Workers \ {w} : pc'[v] = pc[v]
      PROVE  SettingsInv'
  BY <1>2
<1>3. ASSUME NEW w \in Workers, settings' # None, saved' = settings',
             \A v \in Workers \ {w} : pc'[v] = pc[v]
      PROVE  SettingsInv'
  BY <1>3
<1>4. ASSUME NEW w \in Workers, NEW operation, NEW body, Start(w, operation, body)
      PROVE  SettingsInv'
  BY <1>2, <1>4 DEF Start, Continue, TypeOK
<1>5. ASSUME NEW w \in Workers, ReadSettings(w) \/ RereadSettings(w) PROVE SettingsInv'
  <2>1. CASE settings = None
    <3>1. ReadSettings(w) /\ Continue(w, "defaults")
      BY <1>5, <2>1 DEF ReadSettings, RereadSettings
    <3> QED
      BY <1>2, <3>1 DEF ReadSettings, Continue, TypeOK
  <2>2. CASE settings # None
    <3>1. \A v \in Workers \ {w} : pc'[v] = pc[v]
      BY <1>5, <2>2, AfterEnsureSteps DEF ReadSettings, RereadSettings
    <3> QED
      BY <1>1, <1>5, <2>2, <3>1 DEF ReadSettings, RereadSettings
  <2> QED
    BY <2>1, <2>2
<1>6. ASSUME NEW w \in Workers, InsertDefaults(w) PROVE SettingsInv'
  BY <1>6 DEF InsertDefaults, Continue, TypeOK
<1>7. ASSUME NEW w \in Workers, Save(w) PROVE SettingsInv'
  BY <1>3, <1>7, SavedType, EndType DEF Save
<1>8. ASSUME NEW w \in Workers,
             ReadKey(w) \/ BeginReplace(w) \/ DeleteKeys(w) \/ InsertKey(w) \/ CommitReplace(w)
      PROVE  SettingsInv'
  <2>1. pc'[w] \notin {"reread", "save"} /\ \A v \in Workers \ {w} : pc'[v] = pc[v]
    BY <1>8, EndType DEF ReadKey, BeginReplace, DeleteKeys, InsertKey, CommitReplace,
                         Continue, TypeOK
  <2>2. UNCHANGED row
    BY <1>8 DEF ReadKey, BeginReplace, DeleteKeys, InsertKey, CommitReplace
  <2> QED
    BY <1>2, <2>1, <2>2
<1>9. ASSUME NEW w \in Workers, Fail(w) PROVE SettingsInv'
  <2>1. pc'[w] = "idle" /\ \A v \in Workers \ {w} : pc'[v] = pc[v]
    BY <1>9, EndType DEF Fail
  <2>2. CASE UNCHANGED row
    BY <1>2, <2>1, <2>2
  <2>3. CASE pc[w] = "save" /\ settings' = Merged(current[w], update[w]) /\ saved' = settings'
    BY <1>3, <2>1, <2>3, SavedType
  <2>4. CASE settings = None /\ settings' = Defaults /\ saved' = saved
    BY <2>1, <2>4
  <2> QED
    BY <1>9, <2>2, <2>3, <2>4 DEF Fail
<1>10. CASE UNCHANGED vars
  BY <1>10 DEF vars
<1> QED
  BY <1>4, <1>5, <1>6, <1>7, <1>8, <1>9, <1>10 DEF Next, SettingsRequest, KeyRequest

-----------------------------------------------------------------------------

KeyInv == DeleteInv /\ InsertInv /\ IssueInv /\ RegenerateRevokes

\* A step that stores no key, and leaves the transaction of its request as it is
\* or gone, keeps what is true of the keys.
LEMMA QuietKeys ==
    ASSUME TypeOK, KeyInv, NEW w \in Workers, UNCHANGED <<keys, issued, revoked>>,
           pc'[w] # "commit", doomed'[w] \in {{}, doomed[w]}, fresh'[w] \in {{}, fresh[w]},
           known'[w] \in {{}, known[w]} \/ (known'[w] = keys /\ fresh'[w] = {}),
           \A v \in Workers \ {w} : /\ pc'[v] = pc[v] /\ doomed'[v] = doomed[v]
                                    /\ fresh'[v] = fresh[v] /\ known'[v] = known[v]
    PROVE  KeyInv'
<1> USE DEF KeyInv
<1>1. DeleteInv'
  BY DEF DeleteInv
<1>2. InsertInv'
  BY DEF InsertInv
<1>3. IssueInv' /\ RegenerateRevokes'
  BY DEF IssueInv, RegenerateRevokes, TypeOK
<1> QED
  BY <1>1, <1>2, <1>3

\* A commit leaves the new key only.
LEMMA CommitKeys ==
    ASSUME TypeOK, KeyInv, NEW w \in Workers, pc[w] = "commit", End(w),
           keys' = (keys \ doomed[w]) \cup fresh[w], issued' = issued,
           revoked' \in {revoked, revoked \cup known[w]}
    PROVE  KeyInv' /\ keys' # {}
<1> USE DEF KeyInv
<1>1. PICK k \in Keys : fresh[w] = {k} /\ keys' = {k}
  BY DEF InsertInv
<1>2. \A v \in Workers \ {w} : pc[v] # "commit" /\ fresh[v] = {}
  BY DEF InsertInv, TypeOK
<1>3. \A v \in Workers \ {w} : doomed[v] = {}
  BY DEF DeleteInv, InsertInv
<1>4. /\ pc'[w] = "idle" /\ doomed'[w] = {} /\ fresh'[w] = {} /\ known'[w] = {}
      /\ \A v \in Workers \ {w} : /\ pc'[v] = pc[v] /\ doomed'[v] = {}
                                  /\ fresh'[v] = {} /\ known'[v] = known[v]
  BY <1>2, <1>3, EndType
<1>5. DeleteInv'
  BY <1>4 DEF DeleteInv
<1>6. InsertInv'
  BY <1>1, <1>2, <1>4 DEF InsertInv
<1>7. IssueInv'
  BY <1>4 DEF IssueInv
<1>8. RegenerateRevokes'
  BY <1>1 DEF RegenerateRevokes, IssueInv
<1> QED
  BY <1>1, <1>5, <1>6, <1>7, <1>8

\* The two statements of replace_api_key, and every other step, keep what is
\* true of the keys.
LEMMA NextKeyInv ==
    ASSUME TypeOK, KeyInv, [Next]_vars
    PROVE  KeyInv' /\ (keys # {} => keys' # {})
<1> DEFINE Goal == KeyInv' /\ (keys # {} => keys' # {})
<1>1. CASE UNCHANGED vars
  BY <1>1 DEF vars, KeyInv, DeleteInv, InsertInv, IssueInv, RegenerateRevokes
<1>2. ASSUME NEW w \in Workers, UNCHANGED <<keys, issued, revoked>>, End(w)
      PROVE  Goal
  BY <1>2, QuietKeys, EndType
<1>3. ASSUME NEW w \in Workers, NEW operation, NEW body, Start(w, operation, body)
      PROVE  Goal
  <2>1. /\ pc[w] = "idle" /\ UNCHANGED <<keys, issued, revoked, doomed, fresh>>
        /\ pc' = [pc EXCEPT ![w] = "ensure"]
        /\ known' = [known EXCEPT ![w] = IF operation = "regenerate" THEN keys ELSE {}]
    BY <1>3 DEF Start, Continue, transaction
  <2>2. fresh'[w] = {}
    BY <2>1 DEF TypeOK
  <2>3. /\ pc'[w] # "commit" /\ known'[w] \in {{}, keys}
        /\ \A v \in Workers \ {w} : pc'[v] = pc[v] /\ known'[v] = known[v]
    BY <2>1 DEF TypeOK
  <2> QED
    BY <2>1, <2>2, <2>3, QuietKeys
<1>4. ASSUME NEW w \in Workers, ReadSettings(w) \/ RereadSettings(w) PROVE Goal
  <2>1. UNCHANGED <<keys, issued, revoked>>
    BY <1>4 DEF ReadSettings, RereadSettings
  <2>2. CASE \E stored : AfterEnsure(w, stored)
    BY <2>1, <2>2, QuietKeys, AfterEnsureSteps
  <2>3. CASE Continue(w, "defaults") /\ UNCHANGED <<transaction, known>>
    BY <2>1, <2>3, QuietKeys DEF Continue, transaction, TypeOK
  <2> QED
    BY <1>4, <2>2, <2>3 DEF ReadSettings, RereadSettings
<1>5. ASSUME NEW w \in Workers, InsertDefaults(w) \/ BeginReplace(w) PROVE Goal
  BY <1>5, QuietKeys DEF InsertDefaults, BeginReplace, Continue, transaction, history, TypeOK
<1>6. ASSUME NEW w \in Workers, Save(w) PROVE Goal
  BY <1>2, <1>6 DEF Save
<1>7. ASSUME NEW w \in Workers, ReadKey(w) PROVE Goal
  <2>1. CASE End(w)
    BY <1>2, <1>7, <2>1 DEF ReadKey
  <2>2. CASE ~End(w)
    BY <1>7, <2>2, QuietKeys DEF ReadKey, Continue, transaction, TypeOK
  <2> QED
    BY <2>1, <2>2
<1>8. ASSUME NEW w \in Workers, DeleteKeys(w) PROVE Goal
  <2>1. /\ doomed'[w] = seen[w] \cap keys /\ pc[w] = "delete" /\ pc'[w] = "insert"
        /\ \A v \in Workers \ {w} : /\ pc'[v] = pc[v] /\ doomed'[v] = doomed[v]
                                    /\ doomed[v] \cap seen[w] = {}
        /\ UNCHANGED <<keys, fresh, issued, known, revoked>>
    BY <1>8 DEF DeleteKeys, Deleting, Continue, history, TypeOK
  <2>2. DeleteInv'
    BY <2>1 DEF KeyInv, DeleteInv
  <2>3. InsertInv'
    BY <2>1 DEF KeyInv, InsertInv
  <2>4. IssueInv' /\ RegenerateRevokes'
    BY <2>1 DEF KeyInv, IssueInv, RegenerateRevokes
  <2> QED
    BY <2>1, <2>2, <2>3, <2>4 DEF KeyInv
<1>9. ASSUME NEW w \in Workers, InsertKey(w) PROVE Goal
  <2>1. CASE Conflicting(w) # {}
    BY <1>2, <1>9, <2>1 DEF InsertKey
  <2>2. CASE Conflicting(w) = {}
    <3>1. PICK key \in Keys \ issued :
              /\ fresh' = [fresh EXCEPT ![w] = {key}] /\ issued' = issued \cup {key}
      BY <1>9, <2>2 DEF InsertKey
    <3>2. /\ keys \subseteq doomed[w]
          /\ \A o \in Workers \ {w} : fresh[o] = {}
          /\ pc'[w] = "commit" /\ \A v \in Workers \ {w} : pc'[v] = pc[v]
          /\ UNCHANGED <<keys, doomed, known, revoked>>
      BY <1>9, <2>2 DEF InsertKey, Conflicting, Continue, TypeOK
    <3>3. fresh'[w] = {key} /\ \A v \in Workers \ {w} : fresh'[v] = fresh[v]
      BY <3>1 DEF TypeOK
    <3>4. \A v \in Workers \ {w} : pc[v] # "commit"
      BY <3>2 DEF KeyInv, InsertInv
    <3>5. DeleteInv'
      BY <3>2 DEF KeyInv, DeleteInv
    <3>6. InsertInv'
      BY <3>2, <3>3, <3>4 DEF KeyInv, InsertInv
    <3>7. IssueInv' /\ RegenerateRevokes'
      BY <3>1, <3>2, <3>3 DEF KeyInv, IssueInv, RegenerateRevokes
    <3> QED
      BY <3>2, <3>5, <3>6, <3>7 DEF KeyInv
  <2> QED
    BY <2>1, <2>2
<1>10. ASSUME NEW w \in Workers, CommitReplace(w) PROVE Goal
  BY <1>10, CommitKeys DEF CommitReplace
<1>11. ASSUME NEW w \in Workers, Fail(w) PROVE Goal
  <2>1. CASE UNCHANGED keys
    BY <1>2, <1>11, <2>1 DEF Fail
  <2>2. CASE pc[w] = "commit" /\ keys' = (keys \ doomed[w]) \cup fresh[w]
    BY <1>11, <2>2, CommitKeys DEF Fail
  <2> QED
    BY <1>11, <2>1, <2>2 DEF Fail
<1> QED
  BY <1>1, <1>3, <1>4, <1>5, <1>6, <1>7, <1>8, <1>9, <1>10, <1>11
     DEF Next, SettingsRequest, KeyRequest

-----------------------------------------------------------------------------

\* The initial states satisfy the invariant.
LEMMA InitIInv == Init => IInv
<1> SUFFICES ASSUME Init PROVE IInv
  OBVIOUS
<1>1. SettingsInv /\ DeleteInv /\ InsertInv
  BY DEF Init, SettingsInv, SavedSettingsStay, DeleteInv, InsertInv
<1>2. IssueInv /\ RegenerateRevokes
  BY DEF Init, IssueInv, RegenerateRevokes
<1> QED
  BY <1>1, <1>2, InitTypeOK DEF IInv

\* Every step keeps it.
LEMMA NextIInv == IInv /\ [Next]_vars => IInv'
BY NextTypeOK, NextSettingsInv, NextKeyInv DEF IInv, KeyInv

\* The inductive invariant holds in every reachable state.
THEOREM Invariant == Spec => []IInv
BY InitIInv, NextIInv, PTL DEF Spec

\* Every reachable state is typed.
THEOREM TypeCorrect == Spec => []TypeOK
BY Invariant, PTL DEF IInv

\* However many first gets and regenerations of a user overlap, he has one key at
\* most (store/api_keys.rs replace_api_key).
THEOREM OneKeyAtMost == Spec => []AtMostOneKey
<1>1. IInv => AtMostOneKey
  <2> SUFFICES ASSUME IInv PROVE AtMostOneKey
    OBVIOUS
  <2>1. CASE keys = {}
    BY <2>1, FS_EmptySet DEF AtMostOneKey
  <2>2. CASE keys # {}
    <3>1. PICK k \in keys : TRUE
      BY <2>2
    <3>2. keys = {k}
      BY <3>1 DEF IInv, InsertInv
    <3> QED
      BY <3>2, FS_Singleton DEF AtMostOneKey
  <2> QED
    BY <2>1, <2>2
<1> QED
  BY <1>1, Invariant, PTL

\* No step, failure or rollback leaves a user who has a key without one.
THEOREM KeyIsKept == Spec => KeyNeverDisappears
<1>1. IInv /\ [Next]_vars => [keys # {} => keys' # {}]_vars
  BY NextKeyInv DEF IInv, KeyInv
<1> QED
  BY <1>1, Invariant, PTL DEF Spec, KeyNeverDisappears

\* A key that was stored when an answered regeneration began never opens the
\* price API again (http/account.rs regenerate_key).
THEOREM RegenerationRevokes == Spec => []RegenerateRevokes
BY Invariant, PTL DEF IInv

\* The defaults of a request that found no row never overwrite a save
\* (store/user_settings.rs ensure_user_settings).
THEOREM SavedSettingsAreKept == Spec => []SavedSettingsStay
BY Invariant, PTL DEF IInv, SettingsInv

=============================================================================
