------------------------------ MODULE UserData ------------------------------
(***************************************************************************)
(* The contract settings and the API key of one user (http/me.rs,          *)
(* http/account.rs, store/user_settings.rs, store/api_keys.rs).            *)
(*                                                                         *)
(* A worker is one request in flight of that user: two browser tabs, or a  *)
(* tab and the price API.  Every statement outside a transaction is one    *)
(* step.  The transaction of replace_api_key has two statements, and other *)
(* requests run between them: PostgreSQL (READ COMMITTED, external) gives  *)
(* each statement its own snapshot, makes a DELETE wait for a row that     *)
(* another transaction deletes, and makes an INSERT wait for an            *)
(* uncommitted row with the same unique value.                             *)
(*                                                                         *)
(* The session check of a request is in module Accounts.  A refused body   *)
(* or origin ends a request before any step here.                          *)
(***************************************************************************)
EXTENDS Integers, FiniteSets

CONSTANTS
    Workers,      \* the requests that can be in flight at once
    Fields,       \* the fields of the settings
    Values,       \* the values a client sends for a field
    Default,      \* the value of every field in the default settings
    Keys,         \* API keys; a bound on the keys ever created
    None,         \* Option::None
    MaxFaults     \* bound on failed statements and dropped requests

Settings == [Fields -> Values \cup {Default}]

ASSUME ConstantsAssumption ==
    /\ IsFiniteSet(Workers) /\ Workers # {}
    /\ IsFiniteSet(Keys)
    /\ Default \notin Values
    /\ None \notin Settings
    /\ MaxFaults \in Nat

Defaults == [f \in Fields |-> Default]

\* SettingsUpdate: the fields that the body gives.  A body with no known
\* field, or of another content type, is the empty update.
Update == UNION {[given -> Values] : given \in SUBSET Fields}

NoUpdate == [f \in {} |-> Default]

Operations == {"get", "put", "key", "regenerate"}

Steps == {"idle", "ensure", "defaults", "reread", "save", "read key",
          "begin", "delete", "insert", "commit"}

VARIABLES
    settings,    \* the user_settings row, or None
    keys,        \* the committed api_keys rows of the user
    pc,          \* pc[w]: the next statement of the request
    op,          \* op[w]: the operation it runs
    update,      \* update[w]: the parsed body of a put
    current,     \* current[w]: the row that ensure returned to it
    seen,        \* seen[w]: the rows in the snapshot of its DELETE
    doomed,      \* doomed[w]: the rows its open transaction deleted
    fresh,       \* fresh[w]: the key its open transaction inserted
    issued,      \* history: the random keys made so far
    known,       \* history: known[w]: the keys stored when it regenerates
    revoked,     \* history: the keys an answered regeneration replaced
    saved,       \* history: the row of the last save, None before
    faults

vars == <<settings, keys, pc, op, update, current, seen, doomed, fresh,
          issued, known, revoked, saved, faults>>

row         == <<settings, saved>>
request     == <<op, update, current>>
transaction == <<seen, doomed, fresh>>
history     == <<known, revoked>>

TypeOK ==
    /\ settings \in Settings \cup {None}
    /\ keys \subseteq issued
    /\ pc \in [Workers -> Steps]
    /\ op \in [Workers -> Operations]
    /\ update \in [Workers -> Update]
    /\ current \in [Workers -> Settings \cup {None}]
    /\ seen \in [Workers -> SUBSET Keys]
    /\ doomed \in [Workers -> SUBSET Keys]
    /\ fresh \in [Workers -> SUBSET issued]
    /\ issued \subseteq Keys
    /\ known \in [Workers -> SUBSET Keys]
    /\ revoked \subseteq Keys
    /\ saved \in Settings \cup {None}
    /\ faults \in 0 .. MaxFaults
    /\ \A w \in Workers :
          /\ pc[w] = "save" => op[w] = "put" /\ current[w] # None
          /\ doomed[w] \cup fresh[w] # {} => pc[w] \in {"insert", "commit"}
          /\ fresh[w] # {} => pc[w] = "commit"

\* A new user has default settings; one of the former service may have none.
Init ==
    /\ settings \in {None, Defaults}
    /\ keys = {}
    /\ pc = [w \in Workers |-> "idle"]
    /\ op = [w \in Workers |-> "get"]
    /\ update = [w \in Workers |-> NoUpdate]
    /\ current = [w \in Workers |-> None]
    /\ seen = [w \in Workers |-> {}]
    /\ doomed = [w \in Workers |-> {}]
    /\ fresh = [w \in Workers |-> {}]
    /\ issued = {}
    /\ known = [w \in Workers |-> {}]
    /\ revoked = {}
    /\ saved = None
    /\ faults = 0

-----------------------------------------------------------------------------

Continue(w, step) == pc' = [pc EXCEPT ![w] = step]

\* The request of w is answered, or it is gone; an open transaction ends.
End(w) ==
    /\ pc' = [pc EXCEPT ![w] = "idle"]
    /\ op' = [op EXCEPT ![w] = "get"]
    /\ update' = [update EXCEPT ![w] = NoUpdate]
    /\ current' = [current EXCEPT ![w] = None]
    /\ seen' = [seen EXCEPT ![w] = {}]
    /\ doomed' = [doomed EXCEPT ![w] = {}]
    /\ fresh' = [fresh EXCEPT ![w] = {}]
    /\ known' = [known EXCEPT ![w] = {}]

\* The bound on new keys: a request that may make one starts only while one
\* is left for it, so that only a lock can hold it up later.
KeyLeft ==
    LET making == {o \in Workers : op[o] \in {"key", "regenerate"} /\ fresh[o] = {}}
    IN  Cardinality(issued) + Cardinality(making) < Cardinality(Keys)

Start(w, operation, body) ==
    /\ pc[w] = "idle"
    /\ operation \in {"key", "regenerate"} => KeyLeft
    /\ op' = [op EXCEPT ![w] = operation]
    /\ update' = [update EXCEPT ![w] = body]
    /\ known' = [known EXCEPT ![w] = IF operation = "regenerate" THEN keys ELSE {}]
    /\ Continue(w, "ensure")
    /\ UNCHANGED <<row, keys, current, transaction, issued, revoked, faults>>

-----------------------------------------------------------------------------
(***************************************************************************)
(* The handlers after ensure_user_settings returned `stored`.  A get of    *)
(* the settings or of the chart writes nothing after it.                   *)
(***************************************************************************)

AfterEnsure(w, stored) ==
    \/ /\ op[w] = "get"
       /\ End(w)
    \/ /\ op[w] = "put"
       /\ current' = [current EXCEPT ![w] = stored]
       /\ Continue(w, "save")
       /\ UNCHANGED <<op, update, transaction, known>>
    \/ /\ op[w] = "key"
       /\ Continue(w, "read key")
       /\ UNCHANGED <<request, transaction, known>>
    \/ /\ op[w] = "regenerate"
       /\ Continue(w, "begin")
       /\ UNCHANGED <<request, transaction, known>>

\* ensure_user_settings: the first get_user_settings.
ReadSettings(w) ==
    /\ pc[w] = "ensure"
    /\ \/ settings # None /\ AfterEnsure(w, settings)
       \/ /\ settings = None
          /\ Continue(w, "defaults")
          /\ UNCHANGED <<request, transaction, known>>
    /\ UNCHANGED <<row, keys, issued, revoked, faults>>

\* Mutant: the defaults replace a row that was stored in the meantime.
InsertDefaultsAnyway(w) ==
    /\ pc[w] = "defaults"
    /\ settings' = Defaults
    /\ Continue(w, "reread")
    /\ UNCHANGED <<saved, keys, request, transaction, issued, history, faults>>

\* INSERT ... ON CONFLICT DO NOTHING.
InsertDefaults(w) ==
    /\ pc[w] = "defaults"
    /\ settings' = IF settings = None THEN Defaults ELSE settings
    /\ Continue(w, "reread")
    /\ UNCHANGED <<saved, keys, request, transaction, issued, history, faults>>

\* The second get_user_settings: no statement deletes the row.
RereadSettings(w) ==
    /\ pc[w] = "reread"
    /\ AfterEnsure(w, settings)
    /\ UNCHANGED <<row, keys, issued, revoked, faults>>

\* put_settings: the given fields over the row read before, then
\* upsert_user_settings of the whole row.
Merged(old, given) ==
    [f \in Fields |-> IF f \in DOMAIN given THEN given[f] ELSE old[f]]

Save(w) ==
    /\ pc[w] = "save"
    /\ settings' = Merged(current[w], update[w])
    /\ saved' = settings'
    /\ End(w)
    /\ UNCHANGED <<keys, issued, revoked, faults>>

-----------------------------------------------------------------------------
(***************************************************************************)
(* get_key and regenerate_key, with api_keys::replace_api_key.             *)
(***************************************************************************)

\* current_api_key: a stored key is the answer, else a first key is made.
ReadKey(w) ==
    /\ pc[w] = "read key"
    /\ \/ keys # {} /\ End(w)
       \/ /\ keys = {}
          /\ Continue(w, "begin")
          /\ UNCHANGED <<request, transaction, known>>
    /\ UNCHANGED <<row, keys, issued, revoked, faults>>

\* BEGIN, and the DELETE takes its snapshot.
BeginReplace(w) ==
    /\ pc[w] = "begin"
    /\ seen' = [seen EXCEPT ![w] = keys]
    /\ Continue(w, "delete")
    /\ UNCHANGED <<row, keys, request, doomed, fresh, issued, history, faults>>

\* Other open transactions that deleted one of the rows.
Deleting(w, rows) == {o \in Workers \ {w} : doomed[o] \cap rows # {}}

\* Mutant: the DELETE runs outside the transaction.
DeleteKeysAtOnce(w) ==
    /\ pc[w] = "delete"
    /\ Deleting(w, seen[w]) = {}
    /\ keys' = keys \ seen[w]
    /\ Continue(w, "insert")
    /\ UNCHANGED <<row, request, transaction, issued, history, faults>>

\* The DELETE skips a row of its snapshot that is gone by now, and it does
\* not see a row stored after its snapshot.
DeleteKeys(w) ==
    /\ pc[w] = "delete"
    /\ Deleting(w, seen[w]) = {}
    /\ doomed' = [doomed EXCEPT ![w] = seen[w] \cap keys]
    /\ Continue(w, "insert")
    /\ UNCHANGED <<row, keys, request, seen, fresh, issued, history, faults>>

\* Mutant: without the unique index.
ConflictingNever(w) == {}

\* idx_api_keys_single_per_user: another committed row of the user.
Conflicting(w) == keys \ doomed[w]

\* The INSERT waits for an uncommitted row, or for the end of a row that
\* another transaction deletes.  Then it stores the key or it fails with a
\* unique violation, which rolls back and answers 500.
InsertKey(w) ==
    /\ pc[w] = "insert"
    /\ \A o \in Workers \ {w} : fresh[o] = {}
    /\ Deleting(w, Conflicting(w)) = {}
    /\ \/ /\ Conflicting(w) = {}
          /\ \E key \in Keys \ issued :
                /\ fresh' = [fresh EXCEPT ![w] = {key}]
                /\ issued' = issued \cup {key}
          /\ Continue(w, "commit")
          /\ UNCHANGED <<request, seen, doomed, known>>
       \/ /\ Conflicting(w) # {}
          /\ End(w)
          /\ UNCHANGED issued
    /\ UNCHANGED <<row, keys, revoked, faults>>

\* Mutant: the transaction is dropped without a commit.
ForgetCommit(w) ==
    /\ pc[w] = "commit"
    /\ revoked' = revoked \cup known[w]
    /\ End(w)
    /\ UNCHANGED <<row, keys, issued, faults>>

\* COMMIT, and the answer with the new key.
CommitReplace(w) ==
    /\ pc[w] = "commit"
    /\ keys' = (keys \ doomed[w]) \cup fresh[w]
    /\ revoked' = revoked \cup known[w]
    /\ End(w)
    /\ UNCHANGED <<row, issued, faults>>

-----------------------------------------------------------------------------

\* A statement fails, the client goes away, or the process ends: the open
\* transaction is rolled back.  The reply to a COMMIT, to a save or to the
\* insert of the defaults can be lost after the statement took effect.
Fail(w) ==
    /\ pc[w] # "idle" /\ faults < MaxFaults
    /\ \/ UNCHANGED <<row, keys>>
       \/ /\ pc[w] = "commit"
          /\ keys' = (keys \ doomed[w]) \cup fresh[w]
          /\ UNCHANGED row
       \/ /\ pc[w] = "save"
          /\ settings' = Merged(current[w], update[w])
          /\ saved' = settings'
          /\ UNCHANGED keys
       \/ /\ pc[w] = "defaults" /\ settings = None
          /\ settings' = Defaults
          /\ UNCHANGED <<keys, saved>>
    /\ faults' = faults + 1
    /\ End(w)
    /\ UNCHANGED <<issued, revoked>>

SettingsRequest(w) ==
    \/ Start(w, "get", NoUpdate)
    \/ \E body \in Update : Start(w, "put", body)
    \/ ReadSettings(w)
    \/ InsertDefaults(w)
    \/ RereadSettings(w)
    \/ Save(w)

KeyRequest(w) ==
    \/ Start(w, "key", NoUpdate)
    \/ Start(w, "regenerate", NoUpdate)
    \/ ReadKey(w)
    \/ BeginReplace(w)
    \/ DeleteKeys(w)
    \/ InsertKey(w)
    \/ CommitReplace(w)

Next == \E w \in Workers : SettingsRequest(w) \/ KeyRequest(w) \/ Fail(w)

Spec == Init /\ [][Next]_vars

-----------------------------------------------------------------------------
(***************************************************************************)
(* Properties                                                              *)
(***************************************************************************)

\* A user has at most one key (the comment of store/api_keys.rs), whatever
\* first gets and regenerations overlap: a transaction whose DELETE did not
\* see the row of another must not add its own.
AtMostOneKey == Cardinality(keys) <= 1

\* A user who has a key keeps having one: no instant, failure or rollback
\* between the DELETE and the INSERT of replace_api_key leaves none.
KeyNeverDisappears == [][keys # {} => keys' # {}]_vars

\* Once a regeneration is answered, no key that was stored when it began
\* opens the price API again (regenerate_key "deletes the key").
RegenerateRevokes == revoked \cap keys = {}

\* ensure_user_settings: "A concurrent save of the same user is never
\* overwritten" by the defaults of a request that found no row.
SavedSettingsStay == saved # None => settings = saved

\* What the API description of put_settings says: "Only provided fields are
\* changed."  A save that merged into an older row breaks it.
OnlyProvidedFieldsChange ==
    [][\A w \in Workers :
          Save(w) => \/ settings = None
                     \/ \A f \in Fields \ DOMAIN update[w] :
                           settings'[f] = settings[f]]_vars

=============================================================================
