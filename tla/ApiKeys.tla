------------------------------ MODULE ApiKeys ------------------------------
(***************************************************************************)
(* API keys, the accounts and external keys they may use, and the gate in  *)
(* front of the chat endpoints (modules/apikey, modules/external_apikey).  *)
(*                                                                         *)
(* Creating a key and replacing its scope are transactions of several      *)
(* statements; deleting an account or an external key is one statement     *)
(* whose cascade runs after the row has been locked; the gate is two reads *)
(* outside any transaction.  PostgreSQL is modelled by what these need of  *)
(* it: committed tables at READ COMMITTED, the row locks of FOR UPDATE, of *)
(* DELETE and of foreign key checks, and the deadlock detector.            *)
(*                                                                         *)
(* A target is a row that a key can be bound to, an account (oauth_infos)  *)
(* or an external key (external_api_keys); ids are never used twice.       *)
(***************************************************************************)
EXTENDS Naturals, FiniteSets

CONSTANTS
  Requests,
  Users, NoUser, NoRequest,
  Accounts, ExternalKeys,  \* ids of the rows that are ever added
  OwnerOf,                 \* the user a target is added for
  MaxKey                   \* bound: API keys ever created

Targets == Accounts \cup ExternalKeys
KeyIds == 1 .. MaxKey
NoKey == 0
NoTarget == 0
Kinds == {"account", "external"}

ASSUME KeyAssumptions ==
  /\ NoUser \notin Users
  /\ NoRequest \notin Requests
  /\ Accounts \subseteq Nat \ {NoTarget} /\ ExternalKeys \subseteq Nat \ {NoTarget}
  /\ Accounts \cap ExternalKeys = {}
  /\ OwnerOf \in [Targets -> Users]
  /\ MaxKey \in Nat

VARIABLES
  life,        \* targets: not added yet, live, gone
  refreshing,  \* accounts whose row a refresh transaction has locked
  keyOwner,    \* api_keys: user_id, NoUser where there is no row
  valid,       \* api_keys: neither disabled nor expired
  nextKey,
  bindings,    \* api_key_accounts and api_key_external_keys, committed
  keyLock,     \* the transaction that holds the row lock of a key
  pc, op,      \* requests: where they are, and what they do
  user, key, ids,
  kind,        \* which of the two binding tables a transaction works on
  gone,        \* bindings it has deleted and not committed
  held,        \* bindings it has inserted; it holds KEY SHARE on their targets
  used,        \* the account a chat request uses
  scope,       \* observation: the scope last asked for and granted
  open,        \* observation: targets in scope at some time since a chat began
  admitted     \* observation: was the key valid at some time since a chat began

tables == <<life, refreshing, keyOwner, valid, nextKey, bindings>>
inputs == <<op, user, key, ids>>
writes == <<kind, gone, held>>
observed == <<scope, open, admitted>>
vars == <<life, refreshing, keyOwner, valid, nextKey, bindings, keyLock, pc, op,
          user, key, ids, kind, gone, held, used, scope, open, admitted>>

OfKind(k) == IF k = "account" THEN Accounts ELSE ExternalKeys

Exists(k) == keyOwner[k] # NoUser

\* SELECT count(*) ... WHERE user_id = ? AND id IN ?
OwnedBy(u, ts) == {t \in ts : life[t] = "live" /\ OwnerOf[t] = u}

\* A target is being deleted: its row is locked until the cascade is done.
Deleting(t) == \E d \in Requests : pc[d] = "cascading" /\ t \in ids[d]

\* A chat request that presents the key k.
Asks(q, k) == op[q] = "chat" /\ key[q] = k

Init ==
  /\ life = [t \in Targets |-> "new"]
  /\ refreshing = {}
  /\ keyOwner = [k \in KeyIds |-> NoUser]
  /\ valid = [k \in KeyIds |-> FALSE]
  /\ nextKey = 1
  /\ bindings = [k \in KeyIds |-> {}]
  /\ keyLock = [k \in KeyIds |-> NoRequest]
  /\ pc = [r \in Requests |-> "idle"]
  /\ op = [r \in Requests |-> "none"]
  /\ user = [r \in Requests |-> NoUser]
  /\ key = [r \in Requests |-> NoKey]
  /\ ids = [r \in Requests |-> {}]
  /\ kind = [r \in Requests |-> "account"]
  /\ gone = [r \in Requests |-> {}]
  /\ held = [r \in Requests |-> {}]
  /\ used = [r \in Requests |-> NoTarget]
  /\ scope = [k \in KeyIds |-> {}]
  /\ open = [r \in Requests |-> {}]
  /\ admitted = [r \in Requests |-> FALSE]

Goes(r, where) == pc' = [pc EXCEPT ![r] = where]

\* A request slot takes on a new request.
Begins(r, what, u, k, ts, where) ==
  /\ pc[r] = "idle"
  /\ Goes(r, where)
  /\ op' = [op EXCEPT ![r] = what]
  /\ user' = [user EXCEPT ![r] = u]
  /\ key' = [key EXCEPT ![r] = k]
  /\ ids' = [ids EXCEPT ![r] = ts]
  /\ kind' = [kind EXCEPT ![r] = "account"]

\* The request is answered: its locks go, uncommitted rows are forgotten.
Ends(r) ==
  /\ Goes(r, "idle")
  /\ keyLock' = [k \in KeyIds |-> IF keyLock[k] = r THEN NoRequest ELSE keyLock[k]]
  /\ op' = [op EXCEPT ![r] = "none"]
  /\ user' = [user EXCEPT ![r] = NoUser]
  /\ key' = [key EXCEPT ![r] = NoKey]
  /\ ids' = [ids EXCEPT ![r] = {}]
  /\ kind' = [kind EXCEPT ![r] = "account"]
  /\ gone' = [gone EXCEPT ![r] = {}]
  /\ held' = [held EXCEPT ![r] = {}]
  /\ used' = [used EXCEPT ![r] = NoTarget]

\* The transaction's callback returns an error, or the request has no
\* transaction to undo.
Rollback(r) ==
  /\ Ends(r)
  /\ open' = [open EXCEPT ![r] = {}]
  /\ admitted' = [admitted EXCEPT ![r] = FALSE]
  /\ UNCHANGED <<tables, scope>>

-----------------------------------------------------------------------------
(* Rows that keys can be bound to.                                         *)

\* An authorized account is saved, or an external key is added.
TargetAdded(t) ==
  /\ life[t] = "new"
  /\ life' = [life EXCEPT ![t] = "live"]
  /\ UNCHANGED <<refreshing, keyOwner, valid, nextKey, bindings, keyLock, pc, inputs,
                 writes, used, observed>>

\* RefreshToken reads an account FOR UPDATE ...
RefreshLocks(t) ==
  /\ t \in Accounts \ refreshing /\ life[t] = "live" /\ ~Deleting(t)
  /\ \A r \in Requests : t \notin held[r]
  /\ refreshing' = refreshing \cup {t}
  /\ UNCHANGED <<life, keyOwner, valid, nextKey, bindings, keyLock, pc, inputs,
                 writes, used, observed>>

\* ... and ends its transaction, by its deadline at the latest.
RefreshReleases(t) ==
  /\ t \in refreshing
  /\ refreshing' = refreshing \ {t}
  /\ UNCHANGED <<life, keyOwner, valid, nextKey, bindings, keyLock, pc, inputs,
                 writes, used, observed>>

StartDelete(r, u, t) ==
  /\ Begins(r, "delete", u, NoKey, {t}, "deleting")
  /\ UNCHANGED <<tables, keyLock, gone, held, used, observed>>

\* DELETE ... WHERE id = ? AND user_id = ?: the row is locked and dead; the
\* lock conflicts with a refresh and with the KEY SHARE of uncommitted bindings.
DeleteLocks(r) ==
  /\ pc[r] = "deleting"
  /\ \A t \in ids[r] :
       /\ life[t] = "live" /\ OwnerOf[t] = user[r]
       /\ t \notin refreshing /\ ~Deleting(t)
       /\ \A q \in Requests : t \notin held[q]
  /\ Goes(r, "cascading")
  /\ UNCHANGED <<tables, keyLock, inputs, writes, used, observed>>

\* No such row, or another user's.
DeleteFindsNothing(r) ==
  /\ pc[r] = "deleting"
  /\ \E t \in ids[r] : life[t] # "live" \/ OwnerOf[t] # user[r]
  /\ Rollback(r)

\* ON DELETE CASCADE, and the commit: it waits for transactions that have
\* deleted the same binding rows.
Cascade(r) ==
  /\ pc[r] = "cascading"
  /\ \A q \in Requests : gone[q] \cap ids[r] = {}
  /\ life' = [t \in Targets |-> IF t \in ids[r] THEN "gone" ELSE life[t]]
  /\ bindings' = [k \in KeyIds |-> bindings[k] \ ids[r]]
  /\ Ends(r)
  /\ UNCHANGED <<refreshing, keyOwner, valid, nextKey, observed>>

-----------------------------------------------------------------------------
(* Creating a key and replacing its scope.                                 *)

\* The bound on keys is a bound on the requests that would create one.
StartCreate(r, u, ts) ==
  /\ ts # {}
  /\ LET coming == {q \in Requests : op[q] = "create" /\ pc[q] \in {"counting", "creating"}}
     IN nextKey + Cardinality(coming) <= MaxKey
  /\ Begins(r, "create", u, NoKey, ts, "counting")
  /\ UNCHANGED <<tables, keyLock, gone, held, used, observed>>

StartReplace(r, u, k, ts) ==
  /\ ts # {}
  /\ Begins(r, "replace", u, k, ts, "locking")
  /\ UNCHANGED <<tables, keyLock, gone, held, used, observed>>

\* Mutant: the key is read without FOR UPDATE.
LockKey_ReadOnly(r) ==
  /\ pc[r] = "locking"
  /\ keyOwner[key[r]] = user[r]
  /\ Goes(r, "counting")
  /\ UNCHANGED <<tables, keyLock, inputs, writes, used, observed>>

\* SELECT ... WHERE id = ? AND user_id = ? FOR UPDATE
LockKey(r) ==
  /\ pc[r] = "locking"
  /\ keyOwner[key[r]] = user[r]
  /\ keyLock[key[r]] = NoRequest
  /\ keyLock' = [keyLock EXCEPT ![key[r]] = r]
  /\ Goes(r, "counting")
  /\ UNCHANGED <<tables, inputs, writes, used, observed>>

\* ErrApikeyNotFound
KeyNotFound(r) ==
  /\ pc[r] = "locking"
  /\ keyOwner[key[r]] # user[r]
  /\ Rollback(r)

Wanted(r) == ids[r] \cap OfKind(kind[r])

Counted(r) ==
  /\ \/ op[r] = "replace" /\ Goes(r, "clearing") /\ UNCHANGED kind
     \/ /\ op[r] = "create" /\ kind[r] = "account"
        /\ kind' = [kind EXCEPT ![r] = "external"]
        /\ UNCHANGED pc
     \/ /\ op[r] = "create" /\ kind[r] = "external"
        /\ kind' = [kind EXCEPT ![r] = "account"]
        /\ Goes(r, "creating")
  /\ UNCHANGED <<tables, keyLock, inputs, gone, held, used, observed>>

\* All ids of a kind must be the user's, or the answer is ErrInvalidAccounts.  A
\* new key is checked for both kinds before its transaction begins.
Count(r) ==
  /\ pc[r] = "counting"
  /\ IF OwnedBy(user[r], Wanted(r)) = Wanted(r) THEN Counted(r) ELSE Rollback(r)

\* The key's row, invisible to others until the commit.
CreateKey(r) ==
  /\ pc[r] = "creating"
  /\ nextKey <= MaxKey
  /\ nextKey' = nextKey + 1
  /\ key' = [key EXCEPT ![r] = nextKey]
  /\ keyLock' = [keyLock EXCEPT ![nextKey] = r]
  /\ Goes(r, "inserting")
  /\ UNCHANGED <<life, refreshing, keyOwner, valid, bindings, op, user, ids, writes,
                 used, observed>>

\* DELETE FROM the binding table WHERE api_key_id = ?
Clear(r) ==
  /\ pc[r] = "clearing"
  /\ gone' = [gone EXCEPT ![r] = @ \cup (bindings[key[r]] \cap OfKind(kind[r]))]
  /\ Goes(r, "inserting")
  /\ UNCHANGED <<tables, keyLock, inputs, kind, held, used, observed>>

\* The targets of the kind at hand that are not bound yet.
Missing(r) == Wanted(r) \ held[r]

Binds(r, t) ==
  /\ held' = [held EXCEPT ![r] = @ \cup {t}]
  /\ UNCHANGED <<tables, keyLock, pc, inputs, kind, gone, used, observed>>

\* Mutant: the binding tables have no foreign key to their targets.
InsertBindings_NoForeignKey(r) ==
  /\ pc[r] = "inserting"
  /\ \E t \in Missing(r) : Binds(r, t)

\* One row of the INSERT with its foreign key check: KEY SHARE on the target,
\* which waits for a refresh or a delete of it.
InsertBindings(r) ==
  /\ pc[r] = "inserting"
  /\ \E t \in Missing(r) :
       /\ life[t] = "live" /\ OwnerOf[t] = user[r] /\ t \notin refreshing /\ ~Deleting(t)
       /\ Binds(r, t)

\* The statement, or one of an empty list that is left out, is done.
Inserted(r) ==
  /\ pc[r] = "inserting" /\ Missing(r) = {}
  /\ \/ kind[r] = "external" /\ Goes(r, "committing") /\ UNCHANGED kind
     \/ /\ kind[r] = "account"
        /\ kind' = [kind EXCEPT ![r] = "external"]
        /\ Goes(r, IF op[r] = "replace" THEN "counting" ELSE "inserting")
  /\ UNCHANGED <<tables, keyLock, inputs, gone, held, used, observed>>

\* Mutant: the insert is tried again instead.
ForeignKeyViolated_Retried(r) ==
  /\ pc[r] = "inserting"
  /\ \E t \in Missing(r) : life[t] # "live"
  /\ UNCHANGED vars

\* ErrForeignKeyViolated: a target has been deleted since it was counted.
ForeignKeyViolated(r) ==
  /\ pc[r] = "inserting"
  /\ \E t \in Missing(r) : life[t] # "live"
  /\ Rollback(r)

\* The update of updated_at and the commit.
Commit(r) ==
  /\ pc[r] = "committing"
  /\ bindings' = [bindings EXCEPT ![key[r]] = (@ \ gone[r]) \cup held[r]]
  /\ keyOwner' = [keyOwner EXCEPT ![key[r]] = user[r]]
  /\ valid' = [valid EXCEPT ![key[r]] = IF op[r] = "create" THEN TRUE ELSE @]
  /\ scope' = [scope EXCEPT ![key[r]] = ids[r]]
  /\ open' = [q \in Requests |-> IF Asks(q, key[r]) THEN open[q] \cup ids[r] ELSE open[q]]
  /\ admitted' = [q \in Requests |-> admitted[q] \/ (Asks(q, key[r]) /\ op[r] = "create")]
  /\ Ends(r)
  /\ UNCHANGED <<life, refreshing, nextKey>>

\* A statement fails, or the client goes and its context is canceled.
Canceled(r) ==
  /\ pc[r] # "idle"
  /\ Rollback(r)

\* A delete holds the row that a replacement wants to bind, and waits for the
\* bindings that the replacement has deleted: PostgreSQL aborts one of them.
DeadlockDetected(r, d) ==
  /\ pc[r] = "inserting" /\ pc[d] = "cascading"
  /\ ids[d] \cap Missing(r) # {}
  /\ ids[d] \cap gone[r] # {}
  /\ Rollback(r) \/ Rollback(d)

-----------------------------------------------------------------------------
(* Changes of a key in one statement.                                      *)

\* Disable or enable it, or move its expiry.
UpdateApikey(u, k, v) ==
  /\ keyOwner[k] = u
  /\ keyLock[k] = NoRequest
  /\ valid[k] # v
  /\ valid' = [valid EXCEPT ![k] = v]
  /\ admitted' = [q \in Requests |-> admitted[q] \/ (Asks(q, k) /\ v)]
  /\ UNCHANGED <<life, refreshing, keyOwner, nextKey, bindings, keyLock, pc, inputs,
                 writes, used, scope, open>>

KeyExpires(k) ==
  /\ valid[k]
  /\ valid' = [valid EXCEPT ![k] = FALSE]
  /\ UNCHANGED <<life, refreshing, keyOwner, nextKey, bindings, keyLock, pc, inputs,
                 writes, used, observed>>

\* With the cascade to its bindings.
DeleteApikey(u, k) ==
  /\ keyOwner[k] = u
  /\ keyLock[k] = NoRequest
  /\ keyOwner' = [keyOwner EXCEPT ![k] = NoUser]
  /\ valid' = [valid EXCEPT ![k] = FALSE]
  /\ bindings' = [bindings EXCEPT ![k] = {}]
  /\ scope' = [scope EXCEPT ![k] = {}]
  /\ UNCHANGED <<life, refreshing, nextKey, keyLock, pc, inputs, writes, used, open, admitted>>

-----------------------------------------------------------------------------
(* The gate of the chat endpoints.                                         *)

StartChat(r, k) ==
  /\ Begins(r, "chat", NoUser, k, {}, "gateKey")
  /\ open' = [open EXCEPT ![r] = bindings[k]]
  /\ admitted' = [admitted EXCEPT ![r] = valid[k]]
  /\ UNCHANGED <<tables, keyLock, gone, held, used, scope>>

KeyAccepted(k) == Exists(k) /\ valid[k]

Admits(r) ==
  /\ user' = [user EXCEPT ![r] = keyOwner[key[r]]]
  /\ Goes(r, "gateAccounts")
  /\ UNCHANGED <<tables, keyLock, op, key, ids, writes, used, observed>>

\* The first read of GetOauthByApikey.
GateKey(r) ==
  /\ pc[r] = "gateKey"
  /\ IF KeyAccepted(key[r]) THEN Admits(r) ELSE Rollback(r)

\* Mutant: the second read does not join the bindings.
BoundAccounts_Owned(r) == OwnedBy(user[r], Accounts)

\* The join of the second read: accounts of the key's owner, bound to the key.
BoundAccounts(r) == OwnedBy(user[r], Accounts \cap bindings[key[r]])

Selects(r, t) ==
  /\ used' = [used EXCEPT ![r] = t]
  /\ Goes(r, "chatting")
  /\ UNCHANGED <<tables, keyLock, inputs, writes, observed>>

\* The second read, checkOauth and GetCredential: of the accounts that are not
\* disabled and serve the model, the one with the lowest id, unless it has
\* expired.
GateAccounts(r) ==
  /\ pc[r] = "gateAccounts"
  /\ \/ \E allowed \in SUBSET BoundAccounts(r) : \E t \in allowed :
          (\A s \in allowed : t <= s) /\ Selects(r, t)
     \/ Rollback(r)

\* The rest of the request is module ChatStream's.
ChatEnds(r) == pc[r] = "chatting" /\ Rollback(r)

-----------------------------------------------------------------------------
RequestStep(r) ==
  \/ DeleteLocks(r) \/ DeleteFindsNothing(r) \/ Cascade(r)
  \/ LockKey(r) \/ KeyNotFound(r) \/ Count(r) \/ CreateKey(r) \/ Clear(r)
  \/ InsertBindings(r) \/ Inserted(r) \/ ForeignKeyViolated(r) \/ Commit(r) \/ Canceled(r)
  \/ GateKey(r) \/ GateAccounts(r) \/ ChatEnds(r)

Next ==
  \/ \E t \in Targets : TargetAdded(t) \/ RefreshLocks(t) \/ RefreshReleases(t)
  \/ \E r \in Requests, u \in Users :
       \/ \E t \in Targets : StartDelete(r, u, t)
       \/ \E ts \in SUBSET Targets : StartCreate(r, u, ts)
       \/ \E ts \in SUBSET Targets, k \in KeyIds : StartReplace(r, u, k, ts)
  \/ \E r \in Requests, k \in KeyIds : StartChat(r, k)
  \/ \E r \in Requests : RequestStep(r)
  \/ \E r, d \in Requests : DeadlockDetected(r, d)
  \/ \E u \in Users, k \in KeyIds :
       DeleteApikey(u, k) \/ \E v \in BOOLEAN : UpdateApikey(u, k, v)
  \/ \E k \in KeyIds : KeyExpires(k)

Spec == Init /\ [][Next]_vars

\* Statements end; PostgreSQL queues those that wait for a row lock, so none is
\* overtaken for ever; a refresh ends by its deadline.
Fairness ==
  /\ \A t \in Targets : WF_vars(RefreshReleases(t))
  /\ \A r \in Requests :
       /\ WF_vars(KeyNotFound(r)) /\ WF_vars(Count(r)) /\ WF_vars(CreateKey(r))
       /\ WF_vars(Clear(r)) /\ WF_vars(Inserted(r)) /\ WF_vars(ForeignKeyViolated(r))
       /\ WF_vars(Commit(r))
       /\ WF_vars(GateKey(r)) /\ WF_vars(GateAccounts(r)) /\ WF_vars(ChatEnds(r))
       /\ SF_vars(LockKey(r)) /\ SF_vars(InsertBindings(r)) /\ SF_vars(Cascade(r))
       /\ \A d \in Requests : WF_vars(DeadlockDetected(r, d))

FairSpec == Spec /\ Fairness

-----------------------------------------------------------------------------
(* Properties                                                              *)

\* Every variable holds a value of its kind.
TypeOK ==
  /\ life \in [Targets -> {"new", "live", "gone"}]
  /\ refreshing \subseteq Accounts
  /\ keyOwner \in [KeyIds -> Users \cup {NoUser}]
  /\ valid \in [KeyIds -> BOOLEAN]
  /\ nextKey \in 1 .. MaxKey + 1
  /\ bindings \in [KeyIds -> SUBSET Targets]
  /\ keyLock \in [KeyIds -> Requests \cup {NoRequest}]
  /\ pc \in [Requests -> {"idle", "deleting", "cascading", "locking", "counting", "creating",
                          "clearing", "inserting", "committing", "gateKey", "gateAccounts",
                          "chatting"}]
  /\ op \in [Requests -> {"none", "delete", "create", "replace", "chat"}]
  /\ user \in [Requests -> Users \cup {NoUser}]
  /\ key \in [Requests -> KeyIds \cup {NoKey}]
  /\ ids \in [Requests -> SUBSET Targets]
  /\ kind \in [Requests -> Kinds]
  /\ gone \in [Requests -> SUBSET Targets]
  /\ held \in [Requests -> SUBSET Targets]
  /\ used \in [Requests -> Accounts \cup {NoTarget}]
  /\ scope \in [KeyIds -> SUBSET Targets]
  /\ open \in [Requests -> SUBSET Targets]
  /\ admitted \in [Requests -> BOOLEAN]

\* The scope of a key is exactly what its last successful create or replace
\* asked for, less what has been deleted since: concurrent replacements do not
\* merge, and one that fails half way changes nothing.
ScopeIsLastReplacement ==
  \A k \in KeyIds : Exists(k) => bindings[k] = {t \in scope[k] : life[t] = "live"}

\* A binding joins a key and a target that both exist and have the same owner,
\* although the ownership was counted before the insert and the target may be
\* deleted at any time.
BindingsSound ==
  \A k \in KeyIds : \A t \in bindings[k] :
    Exists(k) /\ life[t] = "live" /\ OwnerOf[t] = keyOwner[k]

\* A chat uses an account of the key's owner that was in the key's scope, and
\* a key that was valid, at some time since the request came in: what was
\* revoked before is out of its reach, though the gate reads twice.
ChatWithinScope ==
  \A r \in Requests : pc[r] = "chatting" =>
    admitted[r] /\ used[r] \in open[r] /\ OwnerOf[used[r]] = user[r]

\* Every request on a key is answered: replacements, deletes of what they bind
\* and refreshes never wait for each other for ever.
EveryKeyRequestEnds ==
  \A r \in Requests : op[r] \in {"create", "replace", "chat"} ~> op[r] = "none"

-----------------------------------------------------------------------------
(* The inductive invariant                                                 *)

\* The request works on its key in a transaction.
Writing(r) ==
  \/ op[r] = "replace" /\ pc[r] \in {"counting", "clearing", "inserting", "committing"}
  \/ op[r] = "create" /\ pc[r] \in {"inserting", "committing"}

\* Who holds a key's lock is writing it, and who writes a key holds its lock.
LockInv ==
  /\ \A r \in Requests : Writing(r) => key[r] \in KeyIds /\ keyLock[key[r]] = r
  /\ \A k \in KeyIds : keyLock[k] # NoRequest => Writing(keyLock[k]) /\ key[keyLock[k]] = k

\* Which operation a program counter belongs to.
PhaseInv ==
  \A r \in Requests :
    /\ pc[r] = "idle" <=> op[r] = "none"
    /\ op[r] = "delete" <=> pc[r] \in {"deleting", "cascading"}
    /\ op[r] = "chat" <=> pc[r] \in {"gateKey", "gateAccounts", "chatting"}
    /\ pc[r] \in {"locking", "clearing"} => op[r] = "replace"
    /\ pc[r] = "creating" => op[r] = "create"
    /\ pc[r] \in {"locking", "creating"} => kind[r] = "account"
    /\ pc[r] = "committing" => kind[r] = "external"
    /\ op[r] \in {"delete", "create", "replace"} => user[r] \in Users
    /\ op[r] \in {"replace", "chat"} => key[r] \in KeyIds

\* A key that is replaced stays its owner's; one that is created is nobody's.
OwnerInv ==
  /\ \A r \in Requests : Writing(r) =>
       keyOwner[key[r]] = (IF op[r] = "replace" THEN user[r] ELSE NoUser)
  /\ \A k \in KeyIds : k >= nextKey => keyOwner[k] = NoUser /\ keyLock[k] = NoRequest

\* KEY SHARE: what a transaction has bound is neither deleted nor locked, and it
\* binds one kind after the other.
HeldOK(r) ==
  /\ \A t \in held[r] : life[t] = "live" /\ OwnerOf[t] = user[r] /\ ~Deleting(t)
  /\ ~Writing(r) => held[r] = {} /\ gone[r] = {}
  /\ Writing(r) =>
       LET done == IF kind[r] = "external" THEN ids[r] \cap Accounts ELSE {}
       IN /\ pc[r] \in {"counting", "clearing"} => held[r] = done
          /\ pc[r] = "inserting" =>
               /\ done \subseteq held[r]
               /\ held[r] \subseteq (IF kind[r] = "external" THEN ids[r] ELSE ids[r] \cap Accounts)
          /\ pc[r] = "committing" => held[r] = ids[r]

HeldInv == \A r \in Requests : HeldOK(r)

\* What a transaction has deleted: all bindings of the kinds it is done with.
GoneInv ==
  \A r \in Requests : Writing(r) =>
    \A t \in bindings[key[r]] :
      \/ t \in gone[r]
      \/ op[r] = "replace" /\ pc[r] # "committing"
         /\ ~(kind[r] = "external" /\ t \in Accounts)
         /\ ~(pc[r] = "inserting" /\ t \in OfKind(kind[r]))

\* A row is deleted by one request at a time, and is there until it is.
DeleteInv ==
  \A r \in Requests : pc[r] = "cascading" =>
    /\ \A t \in ids[r] : life[t] = "live"
    /\ \A q \in Requests : pc[q] = "cascading" /\ q # r => ids[q] \cap ids[r] = {}

\* What was ever granted to a key had been added.
ScopeInv == \A k \in KeyIds : \A t \in scope[k] : life[t] # "new"

\* What the gate may still find is within what the observation has recorded.
GateInv ==
  \A r \in Requests :
    /\ pc[r] \in {"gateKey", "gateAccounts"} => bindings[key[r]] \subseteq open[r]
    /\ pc[r] = "gateKey" => (valid[key[r]] => admitted[r])
    /\ pc[r] = "gateAccounts" => admitted[r]

KeyInv ==
  /\ TypeOK
  /\ LockInv
  /\ PhaseInv
  /\ OwnerInv
  /\ HeldInv
  /\ GoneInv
  /\ DeleteInv
  /\ ScopeInv
  /\ GateInv
  /\ ScopeIsLastReplacement
  /\ BindingsSound
  /\ ChatWithinScope
=============================================================================
