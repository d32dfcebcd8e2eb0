---------------------------- MODULE OAuthRefresh ----------------------------
(***************************************************************************)
(* Refreshing the stored credential of an authorized provider account      *)
(* (backend/internal/modules/oauth).                                       *)
(*                                                                         *)
(* Several API instances serve refresh and delete requests on the table    *)
(* oauth_infos.  A refresh opens a transaction, locks the row, presents    *)
(* the stored refresh token to the provider through the upstream service,  *)
(* checks the reply and writes the new credential before it commits.  The  *)
(* provider may rotate the refresh token, so what it spends and what the   *)
(* table stores can part: a deadline, a crash, a refused reply or a call   *)
(* that reaches the provider after its caller has gone.                    *)
(*                                                                         *)
(* Tokens are numbers in the order the provider issues them; encryption,   *)
(* expiry times and access tokens are left out: they travel with the       *)
(* refresh token in the same row write.                                    *)
(***************************************************************************)
EXTENDS Naturals

CONSTANTS
  Requests,    \* slots in which requests are served, over all API instances
  Instances,   \* API processes
  InstanceOf,  \* the instance a request slot belongs to
  Users,       \* local users
  Accounts,    \* provider accounts (account_id of the ID token)
  NoRequest, NoRow, NoUser, NoAccount,
  MaxRow,      \* bound: rows ever inserted
  MaxToken     \* bound: refresh tokens the provider ever issues

ASSUME RefreshAssumptions ==
  /\ InstanceOf \in [Requests -> Instances]
  /\ NoRequest \notin Requests
  /\ NoUser \notin Users
  /\ NoAccount \notin Accounts
  /\ MaxRow \in Nat
  /\ MaxToken \in Nat

NoToken == 0
Tokens == 1 .. MaxToken
RowIds == 1 .. MaxRow

\* The columns of oauth_infos the model keeps: idt is the account that the
\* stored ID token names, rt the stored refresh token ("" is NoToken).
OAuthInfo == [owner: Users, account: Accounts, rt: Tokens \cup {NoToken}, idt: Accounts]

ASSUME RowAssumption == NoRow \notin OAuthInfo

VARIABLES
  rows,     \* oauth_infos: row id -> OAuthInfo or NoRow
  nextRow,  \* the table's id sequence
  lock,     \* row id -> the transaction that holds the row lock
  req,      \* request slot -> where the request stands
  status,   \* the provider's view of every refresh token
  issued,   \* how many refresh tokens the provider has issued
  orphans,  \* tokens in calls under way whose caller no longer waits
  lost      \* observation: tokens spent by a refresh that was not stored

vars == <<rows, nextRow, lock, req, status, issued, orphans, lost>>

Replies == [kind: {"none", "ok", "rejected", "unavailable"},
            rt: Tokens \cup {NoToken}, idt: Accounts \cup {NoAccount}]
NoReply == [kind |-> "none", rt |-> NoToken, idt |-> NoAccount]

Request ==
  [pc: {"idle", "locking", "calling", "waiting", "checking", "saving", "deleting"},
   user: Users \cup {NoUser}, row: RowIds \cup {0},
   model: OAuthInfo \cup {NoRow},     \* the row as read, then as it will be written
   sent: Tokens \cup {NoToken},       \* the refresh token presented
   reply: Replies,
   answer: {"none", "ok", "rejected", "error"}]

IdleRequest == [pc |-> "idle", user |-> NoUser, row |-> 0, model |-> NoRow,
                sent |-> NoToken, reply |-> NoReply, answer |-> "none"]

Present(id) == rows[id] # NoRow

\* Mutant: the user_id condition is missing from the query.
Owned_AnyUser(id, u) == Present(id)

Owned(id, u) == Present(id) /\ rows[id].owner = u

\* The transaction is open and holds its row lock.
InTransaction(r) == req[r].pc \in {"calling", "waiting", "checking", "saving"}

\* The provider has exchanged sent[r] for a new token that is not stored yet.
Rotated(r) == req[r].pc \in {"checking", "saving"} /\ req[r].reply.rt # NoToken

Init ==
  /\ rows = [id \in RowIds |-> NoRow]
  /\ nextRow = 1
  /\ lock = [id \in RowIds |-> NoRequest]
  /\ req = [r \in Requests |-> IdleRequest]
  /\ status = [t \in Tokens |-> "unissued"]
  /\ issued = 0
  /\ orphans = {}
  /\ lost = {}

-----------------------------------------------------------------------------
(* The provider (external).                                                *)

\* The provider issues its next token; oldStatus is status after whatever the
\* same step does to an older token.
Issue(oldStatus) ==
  /\ issued < MaxToken
  /\ issued' = issued + 1
  /\ status' = [oldStatus EXCEPT ![issued + 1] = "live"]

\* A presented token is exchanged for a new one, honoured without rotation,
\* refused, or the provider fails before it looks at it.
ProviderAnswers(r) ==
  LET t == req[r].sent
      Answer(k, rt, idt) ==
        req' = [req EXCEPT ![r].pc = "checking",
                           ![r].reply = [kind |-> k, rt |-> rt, idt |-> idt]]
  IN /\ req[r].pc = "waiting"
     /\ \/ /\ status[t] = "live"
           /\ Issue([status EXCEPT ![t] = "spent"])
           /\ \E idt \in Accounts \cup {NoAccount} : Answer("ok", issued + 1, idt)
        \/ /\ status[t] = "live"
           /\ \E idt \in Accounts \cup {NoAccount} : Answer("ok", NoToken, idt)
           /\ UNCHANGED <<status, issued>>
        \/ /\ status[t] # "live"
           /\ Answer("rejected", NoToken, NoAccount)
           /\ UNCHANGED <<status, issued>>
        \/ /\ Answer("unavailable", NoToken, NoAccount)
           /\ UNCHANGED <<status, issued>>
     /\ UNCHANGED <<rows, nextRow, lock, orphans, lost>>

\* A call whose caller has gone reaches the provider: a live token is
\* exchanged and nobody stores the new one.
OrphanArrives(t) ==
  /\ t \in orphans
  /\ orphans' = orphans \ {t}
  /\ \/ /\ status[t] = "live"
        /\ Issue([status EXCEPT ![t] = "spent"])
        /\ lost' = lost \cup {t}
     \/ UNCHANGED <<status, issued, lost>>
  /\ UNCHANGED <<rows, nextRow, lock, req>>

\* The account's holder revokes a grant at the provider.
ProviderRevokes(t) ==
  /\ status[t] = "live"
  /\ status' = [status EXCEPT ![t] = "revoked"]
  /\ UNCHANGED <<rows, nextRow, lock, req, issued, orphans, lost>>

-----------------------------------------------------------------------------
(* The end of a login: the verified credential is inserted.                *)

\* A login that the provider granted reaches the insert.  The table is unique
\* on (user_id, type, account_id): for an account already stored the insert
\* fails and the credential just issued is dropped.  A grant may come without
\* a refresh token.
SaveToken(u, a) ==
  /\ \E rt \in {issued + 1, NoToken} :
       /\ IF rt = NoToken THEN UNCHANGED <<status, issued>> ELSE Issue(status)
       /\ \/ /\ \A id \in RowIds : ~(Owned(id, u) /\ rows[id].account = a)
             /\ nextRow \in RowIds
             /\ rows' = [rows EXCEPT ![nextRow] =
                           [owner |-> u, account |-> a, rt |-> rt, idt |-> a]]
             /\ nextRow' = nextRow + 1
          \/ /\ \E id \in RowIds : Owned(id, u) /\ rows[id].account = a
             /\ UNCHANGED <<rows, nextRow>>
  /\ UNCHANGED <<lock, req, orphans, lost>>

-----------------------------------------------------------------------------
(* Refresh and delete requests.                                            *)

\* The handler binds the request and the service starts its transaction.
StartRefresh(r, u, id) ==
  /\ req[r].pc = "idle"
  /\ req' = [req EXCEPT ![r] = [IdleRequest EXCEPT !.pc = "locking", !.user = u, !.row = id]]
  /\ UNCHANGED <<rows, nextRow, lock, status, issued, orphans, lost>>

\* Mutant: a plain SELECT, without FOR UPDATE.
GetOwnedTokenForUpdate_NoLock(r) ==
  LET id == req[r].row
  IN /\ req[r].pc = "locking"
     /\ Owned(id, req[r].user)
     /\ req' = [req EXCEPT ![r].pc = "calling", ![r].model = rows[id]]
     /\ UNCHANGED <<rows, nextRow, lock, status, issued, orphans, lost>>

\* SELECT ... WHERE id = ? AND user_id = ? FOR UPDATE: waits for the row lock
\* and reads the row version that is current once it has it.
GetOwnedTokenForUpdate(r) ==
  LET id == req[r].row
  IN /\ req[r].pc = "locking"
     /\ Owned(id, req[r].user)
     /\ lock[id] = NoRequest
     /\ lock' = [lock EXCEPT ![id] = r]
     /\ req' = [req EXCEPT ![r].pc = "calling", ![r].model = rows[id]]
     /\ UNCHANGED <<rows, nextRow, status, issued, orphans, lost>>

\* Requests rs end with answer a and without a commit: PostgreSQL rolls their
\* transactions back and releases their locks; a call under way stays under
\* way; a credential the provider has already exchanged is gone.
Rollback(rs, a) ==
  /\ req' = [r \in Requests |->
               IF r \in rs THEN [IdleRequest EXCEPT !.answer = a] ELSE req[r]]
  /\ lock' = [id \in RowIds |-> IF lock[id] \in rs THEN NoRequest ELSE lock[id]]
  /\ orphans' = orphans \cup {req[r].sent : r \in {q \in rs : req[q].pc = "waiting"}}
  /\ lost' = lost \cup {req[r].sent : r \in {q \in rs : Rotated(q)}}
  /\ UNCHANGED <<rows, nextRow, status, issued>>

\* No row matches id and user: ErrOAuthNotFound, for both operations.
OAuthNotFound(r) ==
  /\ req[r].pc \in {"locking", "deleting"}
  /\ ~Owned(req[r].row, req[r].user)
  /\ Rollback({r}, "error")

\* refreshTokenCredentials, up to the call: a blank stored token is rejected
\* without asking the provider; an unconfigured provider or a credential that
\* cannot be decrypted is an error.
PresentToken(r) ==
  /\ req[r].pc = "calling"
  /\ \/ /\ req[r].model.rt = NoToken
        /\ Rollback({r}, "rejected")
     \/ /\ req[r].model.rt # NoToken
        /\ req' = [req EXCEPT ![r].pc = "waiting", ![r].sent = req[r].model.rt]
        /\ UNCHANGED <<rows, nextRow, lock, status, issued, orphans, lost>>
     \/ Rollback({r}, "error")

\* Mutant: the new refresh token is not taken over.
Refreshed_KeepsOld(model, reply) ==
  [model EXCEPT !.idt = IF reply.idt # NoAccount THEN reply.idt ELSE @]

\* The row as refreshTokenCredentials leaves it: what the reply omits is kept.
Refreshed(model, reply) ==
  [model EXCEPT !.rt  = IF reply.rt # NoToken THEN reply.rt ELSE @,
                !.idt = IF reply.idt # NoAccount THEN reply.idt ELSE @]

\* Mutant: the account of the new ID token is not compared.
IdentityAccepted_Any(model, reply) == TRUE

\* An ID token in the reply must verify and name the account of the row.
IdentityAccepted(model, reply) ==
  reply.idt \in {NoAccount, model.account}

\* refreshTokenCredentials, from the reply on.  Even a good reply can fail:
\* the transport loses it, the access token is blank or expired, or the ID
\* token does not verify.
CheckReply(r) ==
  LET m == req[r].model
      reply == req[r].reply
  IN /\ req[r].pc = "checking"
     /\ \/ /\ reply.kind = "rejected"
           /\ Rollback({r}, "rejected")
        \/ /\ reply.kind = "ok"
           /\ IdentityAccepted(m, reply)
           /\ req' = [req EXCEPT ![r].pc = "saving", ![r].model = Refreshed(m, reply)]
           /\ UNCHANGED <<rows, nextRow, lock, status, issued, orphans, lost>>
        \/ /\ reply.kind # "rejected"
           /\ Rollback({r}, "error")

\* UpdateToken and the commit.  The commit may succeed although its
\* confirmation is lost, which the caller sees as a failure.
UpdateToken(r) ==
  LET id == req[r].row
  IN /\ req[r].pc = "saving"
     /\ Owned(id, req[r].user)
     /\ rows' = [rows EXCEPT ![id] = req[r].model]
     /\ lock' = [lock EXCEPT ![id] = NoRequest]
     /\ \E a \in {"ok", "error"} : req' = [req EXCEPT ![r] = [IdleRequest EXCEPT !.answer = a]]
     /\ UNCHANGED <<nextRow, status, issued, orphans, lost>>

\* The update or the commit fails, or no row is affected.
UpdateFails(r) ==
  /\ req[r].pc = "saving"
  /\ Rollback({r}, "error")

\* Mutant: the deadline does not reach the provider call.
RefreshExpires_NotInCall(r) ==
  /\ req[r].pc = "locking" \/ InTransaction(r)
  /\ req[r].pc # "waiting"
  /\ Rollback({r}, "error")

\* The 15 s deadline of a refresh passes, or its client goes away.
RefreshExpires(r) ==
  /\ req[r].pc = "locking" \/ InTransaction(r)
  /\ Rollback({r}, "error")

StartDelete(r, u, id) ==
  /\ req[r].pc = "idle"
  /\ req' = [req EXCEPT ![r] = [IdleRequest EXCEPT !.pc = "deleting", !.user = u, !.row = id]]
  /\ UNCHANGED <<rows, nextRow, lock, status, issued, orphans, lost>>

\* DELETE ... WHERE id = ? AND user_id = ?: one statement, its own
\* transaction, waits for the row lock.  Its confirmation may be lost, too.
DeleteUserOauth(r) ==
  LET id == req[r].row
  IN /\ req[r].pc = "deleting"
     /\ Owned(id, req[r].user)
     /\ lock[id] = NoRequest
     /\ rows' = [rows EXCEPT ![id] = NoRow]
     /\ \E a \in {"ok", "error"} : req' = [req EXCEPT ![r] = [IdleRequest EXCEPT !.answer = a]]
     /\ UNCHANGED <<nextRow, lock, status, issued, orphans, lost>>

\* The client of a delete goes away before the lock is granted.
DeleteCanceled(r) ==
  /\ req[r].pc = "deleting"
  /\ Rollback({r}, "error")

\* An API process dies: it has no graceful shutdown.
Crash(i) ==
  LET rs == {r \in Requests : InstanceOf[r] = i /\ req[r].pc # "idle"}
  IN /\ rs # {}
     /\ Rollback(rs, "none")

-----------------------------------------------------------------------------
RefreshStep(r) ==
  \/ GetOwnedTokenForUpdate(r)
  \/ OAuthNotFound(r)
  \/ PresentToken(r)
  \/ CheckReply(r)
  \/ UpdateToken(r)
  \/ UpdateFails(r)
  \/ RefreshExpires(r)
  \/ DeleteUserOauth(r)
  \/ DeleteCanceled(r)

Next ==
  \/ \E u \in Users, a \in Accounts : SaveToken(u, a)
  \/ \E r \in Requests, u \in Users, id \in RowIds :
       StartRefresh(r, u, id) \/ StartDelete(r, u, id)
  \/ \E r \in Requests : RefreshStep(r) \/ ProviderAnswers(r)
  \/ \E t \in Tokens : OrphanArrives(t) \/ ProviderRevokes(t)
  \/ \E i \in Instances : Crash(i)

\* The context deadline always fires; PostgreSQL hands a released row lock to
\* its waiters in turn, so a delete is not overtaken for ever.
Fairness ==
  \A r \in Requests :
    /\ WF_vars(RefreshExpires(r))
    /\ WF_vars(OAuthNotFound(r))
    /\ SF_vars(DeleteUserOauth(r))

Spec == Init /\ [][Next]_vars
FairSpec == Spec /\ Fairness

-----------------------------------------------------------------------------
(* Properties                                                              *)

\* The table, the provider and the requests hold values of their kinds: row ids,
\* tokens and program counters in range.
TypeOK ==
  /\ rows \in [RowIds -> OAuthInfo \cup {NoRow}]
  /\ nextRow \in 1 .. MaxRow + 1
  /\ lock \in [RowIds -> Requests \cup {NoRequest}]
  /\ req \in [Requests -> Request]
  /\ status \in [Tokens -> {"unissued", "live", "spent", "revoked"}]
  /\ issued \in 0 .. MaxToken
  /\ orphans \subseteq Tokens
  /\ lost \subseteq Tokens

\* A refresh never works on a stale credential: from the locked read until the
\* commit, the token it read or presented is the one its row stores, whatever
\* other instances refresh, delete or log in meanwhile (the row lock of
\* GetOwnedTokenForUpdate spans the provider call).
NoStaleRefresh ==
  \A r \in Requests : InTransaction(r) =>
    LET id == req[r].row
    IN /\ Owned(id, req[r].user)
       /\ req[r].sent \in {NoToken, rows[id].rt}
       /\ req[r].pc # "saving" => req[r].model = rows[id]

\* The stored token died for a reason outside the serialization of refreshes.
Dead(t) == t = NoToken \/ status[t] = "revoked" \/ t \in lost

Usable(id) ==
  Present(id) =>
    \/ Dead(rows[id].rt)
    \/ status[rows[id].rt] = "live"
    \/ lock[id] # NoRequest /\ Rotated(lock[id])

\* A stored refresh token is one the provider still honours, unless a refresh
\* that spent it failed before its commit, the provider revoked it, or the
\* transaction that is exchanging it now still holds the row lock.
StoredTokenUsable == \A id \in RowIds : Usable(id)

\* "refresh token rejected; reauthorize account" is only ever answered for an
\* account that is there and whose stored token really is dead, never because
\* two refreshes of the same account ran into each other.
RejectionIsJust ==
  [][\A r \in Requests :
       req[r].pc # "idle" /\ req'[r].pc = "idle" /\ req'[r].answer = "rejected"
         => Present(req[r].row) /\ Dead(rows[req[r].row].rt)]_vars

\* The stored ID token always names the account of its row: a refresh whose
\* reply carries another identity is refused before anything is written.
IdentityPreserved ==
  \A id \in RowIds : Present(id) => rows[id].idt = rows[id].account

\* A row that exists changes or goes only by a request of its owner, and its
\* owner and account never change.
OnlyOwnerChanges ==
  [][\A id \in RowIds : Present(id) /\ rows'[id] # rows[id] =>
       /\ \E r \in Requests : req[r].row = id /\ req[r].user = rows[id].owner
                              /\ req[r].pc \in {"saving", "deleting"}
       /\ rows'[id] # NoRow => /\ rows'[id].owner = rows[id].owner
                               /\ rows'[id].account = rows[id].account]_vars

\* Every request ends: a refresh by its deadline at the latest, a delete
\* because no refresh holds the row lock for ever.
EveryRequestEnds ==
  \A r \in Requests : req[r].pc # "idle" ~> req[r].pc = "idle"

\* What the refresh handler tells the user after a rejection (oauth_handler.go:
\* "refresh token rejected; reauthorize account") presumes that a granted
\* login for the account leaves a usable credential stored.
ReauthorizeRepairs ==
  [][\A u \in Users, a \in Accounts :
       /\ \E r \in Requests : req[r].answer = "rejected"
       /\ SaveToken(u, a) /\ issued' > issued
       =>
         \E id \in RowIds : /\ rows'[id] # NoRow
                            /\ rows'[id].owner = u /\ rows'[id].account = a
                            /\ rows'[id].rt # NoToken
                            /\ status'[rows'[id].rt] = "live"]_vars

-----------------------------------------------------------------------------
(* The inductive invariant behind the properties above.                    *)

\* A transaction that is past its locked read is the one its row's lock names.
LockInv ==
  /\ \A r \in Requests : InTransaction(r) => req[r].row \in RowIds /\ lock[req[r].row] = r
  /\ \A id \in RowIds : lock[id] # NoRequest => InTransaction(lock[id]) /\ req[lock[id]].row = id

\* What a request holds in memory agrees with its row.
ReadOK(r) ==
  /\ req[r].pc # "idle" => req[r].row \in RowIds /\ req[r].user \in Users
  /\ req[r].pc \in {"idle", "locking", "deleting", "calling"} => req[r].sent = NoToken
  /\ InTransaction(r) =>
       LET row == rows[req[r].row]
       IN /\ Owned(req[r].row, req[r].user)
          /\ req[r].pc # "calling" => req[r].sent = row.rt /\ row.rt # NoToken
          /\ req[r].pc # "saving" => req[r].model = row
          /\ req[r].pc = "saving" => /\ IdentityAccepted(row, req[r].reply)
                                     /\ req[r].model = Refreshed(row, req[r].reply)
ReadInv == \A r \in Requests : ReadOK(r)

\* A token that has been issued is the provider's, one row's, one exchange's.
TokenInv ==
  /\ \A t \in Tokens : status[t] = "unissued" <=> t > issued
  /\ \A t \in orphans : t <= issued
  /\ \A id \in RowIds : Present(id) => rows[id].rt <= issued
  /\ \A x, y \in RowIds : Present(x) /\ Present(y) /\ x # y /\ rows[x].rt # NoToken
                           => rows[x].rt # rows[y].rt
  /\ \A id \in RowIds : id >= nextRow => rows[id] = NoRow

\* The successor of a token under exchange is known to that exchange alone.
RotatedOK(r) ==
  Rotated(r) =>
    LET new == req[r].reply.rt
    IN /\ status[req[r].sent] = "spent"
       /\ status[new] \in {"live", "revoked"}
       /\ new \notin orphans
       /\ \A id \in RowIds : Present(id) => rows[id].rt # new
       /\ \A q \in Requests : Rotated(q) /\ q # r => req[q].reply.rt # new
RotatedInv == \A r \in Requests : RotatedOK(r)

\* A refusal on its way back is a just one.
RejectedOK(r) ==
  req[r].pc = "checking" =>
    /\ req[r].reply.kind # "ok" => req[r].reply.rt = NoToken
    /\ req[r].reply.kind = "rejected" => Dead(req[r].sent)
RejectedInv == \A r \in Requests : RejectedOK(r)

\* The conjunction is preserved by every step.
IInv ==
  /\ TypeOK
  /\ LockInv
  /\ ReadInv
  /\ TokenInv
  /\ RotatedInv
  /\ RejectedInv
  /\ StoredTokenUsable
  /\ IdentityPreserved

\* A token counts as lost once, after its exchange: no exchange under way has
\* presented a lost token, so what a rollback wastes is new.
LostInv ==
  /\ \A t \in lost : status[t] = "spent"
  /\ \A r \in Requests : Rotated(r) => req[r].sent \notin lost

-----------------------------------------------------------------------------
(* Refinement: an exchange the provider has made but no commit has stored  *)
(* has not happened yet for the abstract vault; it happens at the commit,  *)
(* or is wasted at the rollback.                                           *)

\* t has been presented and exchanged, and its successor is not stored yet.
Exchanging(t) == \E r \in Requests : Rotated(r) /\ req[r].sent = t

\* t is such a successor.
Unstored(t) == \E r \in Requests : Rotated(r) /\ req[r].reply.rt = t

VaultStatus ==
  IF \A r \in Requests : ~Rotated(r) THEN status
  ELSE [t \in Tokens |-> IF Exchanging(t) THEN "live"
                         ELSE IF Unstored(t) THEN "unissued"
                         ELSE status[t]]

Vault == INSTANCE CredentialVault WITH status <- VaultStatus

\* Concurrent refreshes, deletes and logins over several instances look like
\* atomic refreshes of a table: every step of this specification is a step
\* of the vault or changes nothing in it.
VaultSpec == Vault!Spec
=============================================================================
