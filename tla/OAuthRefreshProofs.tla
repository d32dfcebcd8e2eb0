------------------------- MODULE OAuthRefreshProofs -------------------------
(***************************************************************************)
(* Proofs about OAuthRefresh.  IInv is inductive: one lemma for each kind  *)
(* of step, under it one step for each conjunct.  The properties follow,   *)
(* and with LostInv the refinement of CredentialVault.                     *)
(***************************************************************************)
EXTENDS OAuthRefresh, TLAPS

\* An idle slot is a request (no request being served).
LEMMA IdleIsRequest == IdleRequest \in Request
BY RefreshAssumptions DEF IdleRequest, Request, NoReply, Replies, NoToken

\* The records a request in a transaction moves through are requests.
LEMMA RequestForms ==
  ASSUME NEW x \in Request, NEW m \in OAuthInfo \cup {NoRow},
         NEW t \in Tokens \cup {NoToken}, NEW y \in Replies
  PROVE  /\ [x EXCEPT !.pc = "calling", !.model = m] \in Request
         /\ [x EXCEPT !.pc = "waiting", !.sent = t] \in Request
         /\ [x EXCEPT !.pc = "saving", !.model = m] \in Request
         /\ [x EXCEPT !.pc = "checking", !.reply = y] \in Request
<1>1. [x EXCEPT !.pc = "calling", !.model = m] \in Request
  BY DEF Request
<1>2. [x EXCEPT !.pc = "waiting", !.sent = t] \in Request
  BY DEF Request
<1>3. [x EXCEPT !.pc = "saving", !.model = m] \in Request
  BY DEF Request
<1>4. [x EXCEPT !.pc = "checking", !.reply = y] \in Request
  BY DEF Request
<1> QED BY <1>1, <1>2, <1>3, <1>4

\* A request past its call knows the token its row stores.
LEMMA SentIsStored ==
  ASSUME IInv, NEW r \in Requests, req[r].pc \in {"waiting", "checking", "saving"}
  PROVE  /\ req[r].row \in RowIds /\ rows[req[r].row] \in OAuthInfo
         /\ lock[req[r].row] = r
         /\ req[r].sent = rows[req[r].row].rt
         /\ req[r].sent \in Tokens /\ req[r].sent <= issued
<1>1. InTransaction(r)
  BY DEF InTransaction
<1>2. /\ req[r].row \in RowIds /\ lock[req[r].row] = r
      /\ Owned(req[r].row, req[r].user)
      /\ req[r].sent = rows[req[r].row].rt /\ req[r].sent # NoToken
  BY <1>1 DEF IInv, LockInv, ReadInv, ReadOK
<1>3. rows[req[r].row] \in OAuthInfo
  BY <1>2 DEF IInv, TypeOK, Owned, Present
<1>4. req[r].sent \in Tokens
  BY <1>2, <1>3 DEF OAuthInfo
<1>5. req[r].sent <= issued
  BY <1>2 DEF IInv, TokenInv, Owned
<1> QED BY <1>2, <1>3, <1>4, <1>5

\* The successor held by an exchange is a token the provider has issued.
LEMMA SuccessorIsIssued ==
  ASSUME IInv, NEW r \in Requests, Rotated(r)
  PROVE  req[r].reply.rt \in Tokens /\ req[r].reply.rt <= issued
<1>1. req[r].reply.rt \in Tokens
  BY DEF IInv, TypeOK, Request, Replies, Rotated
<1>2. status[req[r].reply.rt] \in {"live", "revoked"}
  BY DEF IInv, RotatedInv, RotatedOK
<1> QED BY <1>1, <1>2, RefreshAssumptions DEF IInv, TypeOK, TokenInv, Tokens

-----------------------------------------------------------------------------

\* Starting a request touches only an idle slot.
LEMMA StartPreserves ==
  ASSUME IInv, NEW r \in Requests, NEW u \in Users, NEW id \in RowIds,
         StartRefresh(r, u, id) \/ StartDelete(r, u, id)
  PROVE  IInv'
<1>1. PICK p \in {"locking", "deleting"} :
        req' = [req EXCEPT ![r] = [IdleRequest EXCEPT !.pc = p, !.user = u, !.row = id]]
  BY DEF StartRefresh, StartDelete
<1>2. [IdleRequest EXCEPT !.pc = p, !.user = u, !.row = id] \in Request
  BY IdleIsRequest DEF Request
<1>3. /\ req' \in [Requests -> Request]
      /\ req'[r].pc \in {"locking", "deleting"} /\ req'[r].row = id /\ req'[r].user = u
      /\ req'[r].sent = NoToken
      /\ \A q \in Requests \ {r} : req'[q] = req[q]
  BY <1>1, <1>2 DEF IInv, TypeOK, IdleRequest
<1>4. UNCHANGED <<rows, nextRow, lock, status, issued, orphans, lost>>
  BY DEF StartRefresh, StartDelete
<1>5. ~InTransaction(r) /\ ~InTransaction(r)' /\ ~Rotated(r) /\ ~Rotated(r)'
  BY <1>3 DEF StartRefresh, StartDelete, InTransaction, Rotated
<1>6. \A q \in Requests : /\ InTransaction(q)' <=> InTransaction(q)
                          /\ Rotated(q)' <=> Rotated(q)
                          /\ InTransaction(q) \/ Rotated(q) => req'[q] = req[q]
  BY <1>3, <1>5 DEF InTransaction, Rotated
<1>7. TypeOK'
  BY <1>3, <1>4 DEF IInv, TypeOK
<1>8. LockInv'
  BY <1>3, <1>4, <1>6, RefreshAssumptions DEF IInv, LockInv, TypeOK
<1>9. ASSUME NEW q \in Requests PROVE ReadOK(q)'
  BY <1>3, <1>4, <1>6 DEF IInv, ReadInv, ReadOK, Owned, Present
<1>10. TokenInv'
  BY <1>4 DEF IInv, TokenInv, Present
<1>11. ASSUME NEW q \in Requests PROVE RotatedOK(q)'
  BY <1>4, <1>6 DEF IInv, RotatedInv, RotatedOK, Present
<1>12. ASSUME NEW q \in Requests PROVE RejectedOK(q)'
  BY <1>3, <1>4 DEF IInv, RejectedInv, RejectedOK, Dead
<1>13. ASSUME NEW x \in RowIds PROVE Usable(x)'
  BY <1>4, <1>6 DEF IInv, StoredTokenUsable, Usable, Present, Dead, TypeOK
<1>14. IdentityPreserved'
  BY <1>4 DEF IInv, IdentityPreserved, Present
<1> QED
  BY <1>7, <1>8, <1>9, <1>10, <1>11, <1>12, <1>13, <1>14
  DEF IInv, ReadInv, RotatedInv, RejectedInv, StoredTokenUsable

\* The locked read.
LEMMA LockPreserves ==
  ASSUME IInv, NEW r \in Requests, GetOwnedTokenForUpdate(r)
  PROVE  IInv'
<1> DEFINE id == req[r].row
<1>1. /\ req[r].pc = "locking" /\ id \in RowIds /\ req[r].user \in Users
      /\ req[r].sent = NoToken /\ Owned(id, req[r].user) /\ lock[id] = NoRequest
  BY DEF GetOwnedTokenForUpdate, IInv, ReadInv, ReadOK
<1>2. req' = [req EXCEPT ![r] = [req[r] EXCEPT !.pc = "calling", !.model = rows[id]]]
  BY DEF GetOwnedTokenForUpdate, IInv, TypeOK
<1>3. [req[r] EXCEPT !.pc = "calling", !.model = rows[id]] \in Request
  <2>1. rows[id] \in OAuthInfo \cup {NoRow} /\ req[r] \in Request
    BY <1>1 DEF IInv, TypeOK
  <2>2. NoToken \in Tokens \cup {NoToken} /\ NoReply \in Replies
    BY DEF NoReply, Replies
  <2> QED BY <2>1, <2>2, RequestForms
<1>4. /\ req' \in [Requests -> Request]
      /\ req'[r].pc = "calling" /\ req'[r].row = id /\ req'[r].user = req[r].user
      /\ req'[r].sent = NoToken /\ req'[r].model = rows[id]
      /\ \A q \in Requests \ {r} : req'[q] = req[q]
  BY <1>1, <1>2, <1>3 DEF IInv, TypeOK, Request
<1>5. /\ lock' = [lock EXCEPT ![id] = r]
      /\ UNCHANGED <<rows, nextRow, status, issued, orphans, lost>>
  BY DEF GetOwnedTokenForUpdate
<1>6. ~InTransaction(r) /\ InTransaction(r)' /\ ~Rotated(r) /\ ~Rotated(r)'
  BY <1>1, <1>4 DEF InTransaction, Rotated
<1>7. \A q \in Requests \ {r} : /\ InTransaction(q)' <=> InTransaction(q)
                                /\ Rotated(q)' <=> Rotated(q)
  BY <1>4 DEF InTransaction, Rotated
<1>8. TypeOK'
  BY <1>1, <1>4, <1>5 DEF IInv, TypeOK
<1>9. LockInv'
  BY <1>1, <1>4, <1>5, <1>6, <1>7, RefreshAssumptions DEF IInv, LockInv, TypeOK
<1>10. ASSUME NEW q \in Requests PROVE ReadOK(q)'
  BY <1>1, <1>4, <1>5, <1>7 DEF IInv, ReadInv, ReadOK, Owned, Present
<1>11. TokenInv'
  BY <1>5 DEF IInv, TokenInv, Present
<1>12. ASSUME NEW q \in Requests PROVE RotatedOK(q)'
  BY <1>4, <1>5, <1>6, <1>7 DEF IInv, RotatedInv, RotatedOK, Present
<1>13. ASSUME NEW q \in Requests PROVE RejectedOK(q)'
  BY <1>4, <1>5 DEF IInv, RejectedInv, RejectedOK, Dead
<1>14. ASSUME NEW x \in RowIds PROVE Usable(x)'
  <2>1. CASE x = id
    BY <2>1, <1>1, <1>5, <1>6 DEF IInv, StoredTokenUsable, Usable, Present, Dead, TypeOK
  <2>2. CASE x # id
    <3>1. lock'[x] = lock[x]
      BY <2>2, <1>5 DEF IInv, TypeOK
    <3>2. lock[x] # NoRequest /\ Rotated(lock[x]) => Rotated(lock[x])'
      BY <3>1, <1>6, <1>7 DEF IInv, TypeOK
    <3> QED BY <3>1, <3>2, <1>5 DEF IInv, StoredTokenUsable, Usable, Present, Dead
  <2> QED BY <2>1, <2>2
<1>15. IdentityPreserved'
  BY <1>5 DEF IInv, IdentityPreserved, Present
<1> QED
  BY <1>8, <1>9, <1>10, <1>11, <1>12, <1>13, <1>14, <1>15
  DEF IInv, ReadInv, RotatedInv, RejectedInv, StoredTokenUsable

\* Handing the stored token to the provider call.
LEMMA SendPreserves ==
  ASSUME IInv, NEW r \in Requests,
         req[r].pc = "calling", req[r].model.rt # NoToken,
         req' = [req EXCEPT ![r].pc = "waiting", ![r].sent = req[r].model.rt],
         UNCHANGED <<rows, nextRow, lock, status, issued, orphans, lost>>
  PROVE  IInv'
<1>1. /\ InTransaction(r) /\ ~Rotated(r)
      /\ req[r].row \in RowIds /\ req[r].user \in Users
      /\ Owned(req[r].row, req[r].user) /\ req[r].model = rows[req[r].row]
  BY DEF IInv, ReadInv, ReadOK, InTransaction, Rotated
<1>2. req[r].model.rt \in Tokens
  BY <1>1 DEF IInv, TypeOK, Owned, Present, OAuthInfo
<1>3. [req[r] EXCEPT !.pc = "waiting", !.sent = req[r].model.rt] \in Request
  <2>1. req[r] \in Request /\ NoRow \in OAuthInfo \cup {NoRow} /\ NoReply \in Replies
    BY DEF IInv, TypeOK, NoReply, Replies
  <2> QED BY <1>2, <2>1, RequestForms
<1>4. /\ req' \in [Requests -> Request]
      /\ req'[r].pc = "waiting" /\ req'[r].row = req[r].row /\ req'[r].user = req[r].user
      /\ req'[r].sent = req[r].model.rt /\ req'[r].model = req[r].model
      /\ \A q \in Requests \ {r} : req'[q] = req[q]
  BY <1>3 DEF IInv, TypeOK, Request
<1>5. InTransaction(r)' /\ ~Rotated(r)'
  BY <1>4 DEF InTransaction, Rotated
<1>6. \A q \in Requests : /\ InTransaction(q)' <=> InTransaction(q)
                          /\ Rotated(q)' <=> Rotated(q)
                          /\ Rotated(q) => q # r
  BY <1>1, <1>4, <1>5 DEF InTransaction, Rotated
<1>7. TypeOK'
  BY <1>4 DEF IInv, TypeOK
<1>8. LockInv'
  BY <1>4, <1>6, RefreshAssumptions DEF IInv, LockInv, TypeOK
<1>9. ASSUME NEW q \in Requests PROVE ReadOK(q)'
  BY <1>1, <1>4, <1>6 DEF IInv, ReadInv, ReadOK, Owned, Present
<1>10. TokenInv'
  BY DEF IInv, TokenInv, Present
<1>11. ASSUME NEW q \in Requests PROVE RotatedOK(q)'
  BY <1>4, <1>6 DEF IInv, RotatedInv, RotatedOK, Present
<1>12. ASSUME NEW q \in Requests PROVE RejectedOK(q)'
  BY <1>4 DEF IInv, RejectedInv, RejectedOK, Dead
<1>13. ASSUME NEW x \in RowIds PROVE Usable(x)'
  BY <1>6 DEF IInv, StoredTokenUsable, Usable, Present, Dead, TypeOK
<1>14. IdentityPreserved'
  BY DEF IInv, IdentityPreserved, Present
<1> QED
  BY <1>7, <1>8, <1>9, <1>10, <1>11, <1>12, <1>13, <1>14
  DEF IInv, ReadInv, RotatedInv, RejectedInv, StoredTokenUsable

\* Accepting a good reply changes only what the request will write.
LEMMA AcceptPreserves ==
  ASSUME IInv, NEW r \in Requests,
         req[r].pc = "checking", req[r].reply.kind = "ok",
         IdentityAccepted(req[r].model, req[r].reply),
         req' = [req EXCEPT ![r].pc = "saving",
                            ![r].model = Refreshed(req[r].model, req[r].reply)],
         UNCHANGED <<rows, nextRow, lock, status, issued, orphans, lost>>
  PROVE  IInv'
<1> DEFINE m == Refreshed(req[r].model, req[r].reply)
<1>1. /\ InTransaction(r)
      /\ req[r].row \in RowIds /\ req[r].user \in Users
      /\ Owned(req[r].row, req[r].user) /\ req[r].model = rows[req[r].row]
      /\ req[r].sent = rows[req[r].row].rt /\ req[r].sent # NoToken
  BY DEF IInv, ReadInv, ReadOK, InTransaction
<1>2. req[r].model \in OAuthInfo /\ req[r].reply \in Replies
  BY <1>1 DEF IInv, TypeOK, Owned, Present, Request
<1>3. m \in OAuthInfo
  BY <1>2 DEF Refreshed, OAuthInfo, Replies
<1>4. [req[r] EXCEPT !.pc = "saving", !.model = m] \in Request
  <2>1. req[r] \in Request /\ NoToken \in Tokens \cup {NoToken}
    BY DEF IInv, TypeOK
  <2> HIDE DEF m
  <2> QED BY <1>2, <1>3, <2>1, RequestForms
<1> HIDE DEF m
<1>5. /\ req' \in [Requests -> Request]
      /\ req'[r].pc = "saving" /\ req'[r].row = req[r].row /\ req'[r].user = req[r].user
      /\ req'[r].sent = req[r].sent /\ req'[r].reply = req[r].reply /\ req'[r].model = m
      /\ \A q \in Requests \ {r} : req'[q] = req[q]
  BY <1>4 DEF IInv, TypeOK, Request, m
<1>6. \A q \in Requests : /\ InTransaction(q)' <=> InTransaction(q)
                          /\ Rotated(q)' <=> Rotated(q)
                          /\ req'[q].sent = req[q].sent /\ req'[q].reply = req[q].reply
                          /\ req'[q].row = req[q].row
  BY <1>5 DEF InTransaction, Rotated
<1>7. TypeOK'
  BY <1>5 DEF IInv, TypeOK
<1>8. LockInv'
  BY <1>5, <1>6, RefreshAssumptions DEF IInv, LockInv, TypeOK
<1>9. ASSUME NEW q \in Requests PROVE ReadOK(q)'
  <2>1. CASE q = r
    BY <2>1, <1>1, <1>5 DEF ReadOK, Owned, Present, m, IdentityAccepted, Refreshed
  <2>2. CASE q # r
    BY <2>2, <1>5, <1>6 DEF IInv, ReadInv, ReadOK, Owned, Present
  <2> QED BY <2>1, <2>2
<1>10. TokenInv'
  BY DEF IInv, TokenInv, Present
<1>11. ASSUME NEW q \in Requests PROVE RotatedOK(q)'
  <2>1. /\ Rotated(q)' <=> Rotated(q)
        /\ req'[q].sent = req[q].sent /\ req'[q].reply.rt = req[q].reply.rt
        /\ \A o \in Requests : /\ Rotated(o)' <=> Rotated(o)
                               /\ req'[o].reply.rt = req[o].reply.rt
    BY <1>6
  <2>2. RotatedOK(q)
    BY DEF IInv, RotatedInv
  <2>3. UNCHANGED <<rows, status, orphans>>
    OBVIOUS
  <2>4. ASSUME Rotated(q)
        PROVE  /\ status'[req'[q].sent] = "spent"
               /\ status'[req'[q].reply.rt] \in {"live", "revoked"}
               /\ req'[q].reply.rt \notin orphans'
    BY <2>1, <2>2, <2>3, <2>4 DEF RotatedOK
  <2>5. ASSUME Rotated(q), NEW id \in RowIds, Present(id)'
        PROVE  rows'[id].rt # req'[q].reply.rt
    BY <2>1, <2>2, <2>3, <2>5 DEF RotatedOK, Present
  <2>6. ASSUME Rotated(q), NEW o \in Requests, Rotated(o)', o # q
        PROVE  req'[o].reply.rt # req'[q].reply.rt
    BY <2>1, <2>2, <2>6 DEF RotatedOK
  <2> QED BY <2>1, <2>4, <2>5, <2>6 DEF RotatedOK
<1>12. ASSUME NEW q \in Requests PROVE RejectedOK(q)'
  BY <1>5 DEF IInv, RejectedInv, RejectedOK, Dead
<1>13. ASSUME NEW x \in RowIds PROVE Usable(x)'
  BY <1>6 DEF IInv, StoredTokenUsable, Usable, Present, Dead, TypeOK
<1>14. IdentityPreserved'
  BY DEF IInv, IdentityPreserved, Present
<1> QED
  BY <1>7, <1>8, <1>9, <1>10, <1>11, <1>12, <1>13, <1>14
  DEF IInv, ReadInv, RotatedInv, RejectedInv, StoredTokenUsable

\* A revocation at the provider.
LEMMA RevokePreserves ==
  ASSUME IInv, NEW t \in Tokens, ProviderRevokes(t)
  PROVE  IInv'
<1>1. /\ status[t] = "live"
      /\ status' = [status EXCEPT ![t] = "revoked"]
      /\ UNCHANGED <<rows, nextRow, lock, req, issued, orphans, lost>>
  BY DEF ProviderRevokes
<1>2. \A q \in Requests : /\ InTransaction(q)' <=> InTransaction(q)
                          /\ Rotated(q)' <=> Rotated(q)
  BY <1>1 DEF InTransaction, Rotated
<1>3. TypeOK'
  BY <1>1 DEF IInv, TypeOK
<1>4. LockInv'
  BY <1>1, <1>2, RefreshAssumptions DEF IInv, LockInv, TypeOK
<1>5. ASSUME NEW q \in Requests PROVE ReadOK(q)'
  BY <1>1, <1>2 DEF IInv, ReadInv, ReadOK, Owned, Present
<1>6. TokenInv'
  BY <1>1 DEF IInv, TypeOK, TokenInv, Present
<1>7. ASSUME NEW q \in Requests PROVE RotatedOK(q)'
  <2>1. ASSUME Rotated(q)
        PROVE  /\ status'[req[q].sent] = "spent"
               /\ status'[req[q].reply.rt] \in {"live", "revoked"}
    <3>1. req[q].sent \in Tokens
      BY <2>1, SentIsStored DEF Rotated
    <3>2. req[q].reply.rt \in Tokens
      BY <2>1, SuccessorIsIssued
    <3> QED BY <1>1, <2>1, <3>1, <3>2 DEF IInv, TypeOK, RotatedInv, RotatedOK
  <2> QED BY <1>1, <1>2, <2>1 DEF IInv, RotatedInv, RotatedOK, Present
<1>8. \A x : Dead(x) => Dead(x)'
  BY <1>1 DEF Dead, IInv, TypeOK
<1>9. ASSUME NEW q \in Requests PROVE RejectedOK(q)'
  BY <1>1, <1>8 DEF IInv, RejectedInv, RejectedOK
<1>10. ASSUME NEW x \in RowIds PROVE Usable(x)'
  BY <1>1, <1>2, <1>8 DEF IInv, StoredTokenUsable, Usable, Present, Dead, TypeOK
<1>11. IdentityPreserved'
  BY <1>1 DEF IInv, IdentityPreserved, Present
<1> QED
  BY <1>3, <1>4, <1>5, <1>6, <1>7, <1>9, <1>10, <1>11
  DEF IInv, ReadInv, RotatedInv, RejectedInv, StoredTokenUsable

\* A call that arrives after its caller has gone.
LEMMA OrphanPreserves ==
  ASSUME IInv, NEW t \in Tokens, OrphanArrives(t)
  PROVE  IInv'
<1>1. /\ t \in orphans /\ t <= issued
      /\ orphans' = orphans \ {t}
      /\ UNCHANGED <<rows, nextRow, lock, req>>
  BY DEF OrphanArrives, IInv, TokenInv
<1>2. \A q \in Requests : /\ InTransaction(q)' <=> InTransaction(q)
                          /\ Rotated(q)' <=> Rotated(q)
  BY <1>1 DEF InTransaction, Rotated
<1>3. CASE UNCHANGED <<status, issued, lost>>
  <2>1. TypeOK' /\ TokenInv' /\ IdentityPreserved'
    BY <1>1, <1>3 DEF IInv, TypeOK, TokenInv, IdentityPreserved, Present
  <2>2. LockInv'
    BY <1>1, <1>2, RefreshAssumptions DEF IInv, LockInv, TypeOK
  <2>3. ASSUME NEW q \in Requests PROVE ReadOK(q)' /\ RejectedOK(q)'
    BY <1>1, <1>2, <1>3
    DEF IInv, ReadInv, ReadOK, RejectedInv, RejectedOK, Owned, Present, Dead
  <2>4. ASSUME NEW q \in Requests PROVE RotatedOK(q)'
    BY <1>1, <1>2, <1>3 DEF IInv, RotatedInv, RotatedOK, Present
  <2>5. ASSUME NEW x \in RowIds PROVE Usable(x)'
    BY <1>1, <1>2, <1>3 DEF IInv, StoredTokenUsable, Usable, Present, Dead, TypeOK
  <2> QED BY <2>1, <2>2, <2>3, <2>4, <2>5
      DEF IInv, ReadInv, RotatedInv, RejectedInv, StoredTokenUsable
<1>4. CASE /\ status[t] = "live"
           /\ Issue([status EXCEPT ![t] = "spent"])
           /\ lost' = lost \cup {t}
  <2>1. /\ issued' = issued + 1 /\ issued' \in 0 .. MaxToken /\ issued + 1 \in Tokens
        /\ status' \in [Tokens -> {"unissued", "live", "spent", "revoked"}]
        /\ status'[t] = "spent" /\ status'[issued + 1] = "live"
        /\ \A x \in Tokens : x # t /\ x # issued + 1 => status'[x] = status[x]
    BY <1>1, <1>4, RefreshAssumptions DEF Issue, IInv, TypeOK, Tokens
  <2>2. TypeOK'
    BY <1>1, <1>4, <2>1 DEF IInv, TypeOK
  <2>3. LockInv'
    BY <1>1, <1>2, RefreshAssumptions DEF IInv, LockInv, TypeOK
  <2>4. ASSUME NEW q \in Requests PROVE ReadOK(q)'
    BY <1>1, <1>2 DEF IInv, ReadInv, ReadOK, Owned, Present
  <2>5. TokenInv'
    <3>1. ASSUME NEW x \in Tokens PROVE status'[x] = "unissued" <=> x > issued'
      <4>1. status[x] = "unissued" <=> x > issued
        BY DEF IInv, TokenInv
      <4>2. x \in Nat /\ issued \in Nat /\ t \in Nat
        BY DEF IInv, TypeOK, Tokens
      <4> QED BY <1>1, <2>1, <4>1, <4>2
    <3>2. \A x \in orphans' : x <= issued'
      BY <1>1, <2>1, RefreshAssumptions DEF IInv, TypeOK, TokenInv, Tokens
    <3>3. \A id \in RowIds : Present(id) => rows[id].rt <= issued'
      BY <2>1 DEF IInv, TypeOK, TokenInv, Tokens, Present, OAuthInfo, NoToken
    <3> QED BY <1>1, <3>1, <3>2, <3>3 DEF IInv, TokenInv, Present
  <2>6. ASSUME NEW q \in Requests PROVE RotatedOK(q)'
    <3>1. ASSUME Rotated(q)
          PROVE  /\ status'[req[q].sent] = "spent"
                 /\ status'[req[q].reply.rt] \in {"live", "revoked"}
      <4>1. req[q].sent \in Tokens /\ req[q].sent <= issued
        BY <3>1, SentIsStored DEF Rotated
      <4>2. req[q].reply.rt \in Tokens /\ req[q].reply.rt # t
        BY <1>1, <3>1, SuccessorIsIssued DEF IInv, RotatedInv, RotatedOK
      <4>3. status[req[q].sent] = "spent" /\ status[req[q].reply.rt] \in {"live", "revoked"}
        BY <3>1 DEF IInv, RotatedInv, RotatedOK
      <4> QED BY <2>1, <4>1, <4>2, <4>3 DEF IInv, TypeOK, Tokens
    <3> QED BY <1>1, <1>2, <3>1 DEF IInv, RotatedInv, RotatedOK, Present
  <2>7. \A x \in Tokens \cup {NoToken} : Dead(x) => Dead(x)'
    BY <1>4, <2>1 DEF Dead, IInv, TypeOK, TokenInv, Tokens, NoToken
  <2>8. ASSUME NEW q \in Requests PROVE RejectedOK(q)'
    <3>1. req[q].sent \in Tokens \cup {NoToken}
      BY DEF IInv, TypeOK, Request
    <3> QED BY <1>1, <2>7, <3>1 DEF IInv, RejectedInv, RejectedOK
  <2>9. ASSUME NEW x \in RowIds PROVE Usable(x)'
    <3>1. Present(x) => rows[x].rt \in Tokens \cup {NoToken} /\ rows[x].rt <= issued
      BY DEF IInv, TypeOK, TokenInv, Present, OAuthInfo
    <3>2. Present(x) /\ rows[x].rt \in Tokens /\ status[rows[x].rt] = "live"
            => status'[rows[x].rt] = "live" \/ Dead(rows[x].rt)'
      BY <1>1, <1>4, <2>1, <3>1 DEF Dead, IInv, TypeOK, Tokens
    <3>3. Present(x) /\ rows[x].rt = NoToken => Dead(rows[x].rt)'
      BY <1>1 DEF Dead
    <3> QED BY <1>1, <1>2, <2>7, <3>1, <3>2, <3>3
        DEF IInv, StoredTokenUsable, Usable, Present, TypeOK
  <2>10. IdentityPreserved'
    BY <1>1 DEF IInv, IdentityPreserved, Present
  <2> QED BY <2>2, <2>3, <2>4, <2>5, <2>6, <2>8, <2>9, <2>10
      DEF IInv, ReadInv, RotatedInv, RejectedInv, StoredTokenUsable
<1> QED BY <1>3, <1>4 DEF OrphanArrives

\* Rolling any set of requests back.
LEMMA RollbackPreserves ==
  ASSUME IInv, NEW rs \in SUBSET Requests,
         NEW a \in {"none", "ok", "rejected", "error"}, Rollback(rs, a)
  PROVE  IInv'
<1>1. [IdleRequest EXCEPT !.answer = a] \in Request
  BY IdleIsRequest DEF Request
<1>2. /\ req' \in [Requests -> Request]
      /\ \A q \in rs : req'[q].pc = "idle" /\ req'[q].sent = NoToken
      /\ \A q \in Requests \ rs : req'[q] = req[q]
  BY <1>1 DEF Rollback, IInv, TypeOK, IdleRequest
<1>3. /\ lock' = [id \in RowIds |-> IF lock[id] \in rs THEN NoRequest ELSE lock[id]]
      /\ orphans' = orphans \cup {req[r].sent : r \in {q \in rs : req[q].pc = "waiting"}}
      /\ lost' = lost \cup {req[r].sent : r \in {q \in rs : Rotated(q)}}
      /\ UNCHANGED <<rows, nextRow, status, issued>>
  BY DEF Rollback
<1>4. /\ \A q \in rs : ~InTransaction(q)' /\ ~Rotated(q)'
      /\ \A q \in Requests \ rs : /\ InTransaction(q)' <=> InTransaction(q)
                                  /\ Rotated(q)' <=> Rotated(q)
  BY <1>2 DEF InTransaction, Rotated
<1>5. ASSUME NEW t \in orphans', t \notin orphans
      PROVE  t \in Tokens /\ t <= issued /\ \E id \in RowIds : Present(id) /\ rows[id].rt = t
  <2>1. PICK q \in rs : req[q].pc = "waiting" /\ t = req[q].sent
    BY <1>3, <1>5
  <2> QED BY <2>1, SentIsStored, RowAssumption DEF Present
<1>6. \A t \in lost' \ lost : t \in Tokens
  BY <1>3, SentIsStored DEF Rotated
<1>7. TypeOK'
  BY <1>2, <1>3, <1>5, <1>6 DEF IInv, TypeOK
<1>8. LockInv'
  BY <1>2, <1>3, <1>4, RefreshAssumptions DEF IInv, LockInv, TypeOK
<1>9. ASSUME NEW q \in Requests PROVE ReadOK(q)'
  <2>1. CASE q \in rs
    BY <2>1, <1>2, <1>4 DEF ReadOK
  <2>2. CASE q \notin rs
    BY <2>2, <1>2, <1>3, <1>4 DEF IInv, ReadInv, ReadOK, Owned, Present
  <2> QED BY <2>1, <2>2
<1>10. TokenInv'
  BY <1>3, <1>5 DEF IInv, TokenInv, Present
<1>11. ASSUME NEW q \in Requests PROVE RotatedOK(q)'
  <2>1. ASSUME Rotated(q)'
        PROVE  /\ q \notin rs /\ Rotated(q) /\ req'[q] = req[q]
               /\ req[q].reply.rt \notin orphans'
    <3>1. q \notin rs /\ Rotated(q) /\ req'[q] = req[q]
      BY <2>1, <1>2, <1>4
    <3> QED BY <3>1, <1>5 DEF IInv, RotatedInv, RotatedOK
  <2>2. ASSUME NEW o \in Requests, Rotated(o)'
        PROVE  Rotated(o) /\ req'[o] = req[o]
    BY <2>2, <1>2, <1>4
  <2>3. RotatedOK(q)
    BY DEF IInv, RotatedInv
  <2> QED BY <1>3, <2>1, <2>2, <2>3 DEF RotatedOK, Present
<1>12. \A x : Dead(x) => Dead(x)'
  BY <1>3 DEF Dead
<1>13. ASSUME NEW q \in Requests PROVE RejectedOK(q)'
  BY <1>2, <1>12 DEF IInv, RejectedInv, RejectedOK
<1>14. ASSUME NEW x \in RowIds PROVE Usable(x)'
  <2>1. CASE lock[x] \in rs /\ Rotated(lock[x])
    <3>1. req[lock[x]].row = x /\ req[lock[x]].sent = rows[x].rt
      BY <2>1, SentIsStored, RefreshAssumptions DEF IInv, LockInv, Rotated
    <3>2. rows'[x].rt \in lost'
      BY <2>1, <3>1, <1>3
    <3> QED BY <3>2 DEF Usable, Dead
  <2>2. CASE ~(lock[x] \in rs /\ Rotated(lock[x]))
    <3>1. lock[x] # NoRequest /\ Rotated(lock[x])
            => lock'[x] = lock[x] /\ Rotated(lock[x])'
      BY <2>2, <1>3, <1>4 DEF IInv, TypeOK
    <3> QED BY <3>1, <1>3, <1>12 DEF IInv, StoredTokenUsable, Usable, Present
  <2> QED BY <2>1, <2>2
<1>15. IdentityPreserved'
  BY <1>3 DEF IInv, IdentityPreserved, Present
<1> QED
  BY <1>7, <1>8, <1>9, <1>10, <1>11, <1>13, <1>14, <1>15
  DEF IInv, ReadInv, RotatedInv, RejectedInv, StoredTokenUsable

\* The delete: nobody is in a transaction on the row it removes.
LEMMA DeletePreserves ==
  ASSUME IInv, NEW r \in Requests, DeleteUserOauth(r)
  PROVE  IInv'
<1> DEFINE id == req[r].row
<1>0. PICK a \in {"ok", "error"} : req' = [req EXCEPT ![r] = [IdleRequest EXCEPT !.answer = a]]
  BY DEF DeleteUserOauth
<1>1. /\ req[r].pc = "deleting" /\ id \in RowIds /\ lock[id] = NoRequest
      /\ rows' = [rows EXCEPT ![id] = NoRow]
      /\ req' = [req EXCEPT ![r] = [IdleRequest EXCEPT !.answer = a]]
      /\ UNCHANGED <<nextRow, lock, status, issued, orphans, lost>>
  BY <1>0 DEF DeleteUserOauth, IInv, ReadInv, ReadOK
<1>2. [IdleRequest EXCEPT !.answer = a] \in Request
  BY IdleIsRequest DEF Request
<1>3. /\ req' \in [Requests -> Request]
      /\ req'[r].pc = "idle" /\ req'[r].sent = NoToken
      /\ \A q \in Requests \ {r} : req'[q] = req[q]
  BY <1>1, <1>2 DEF IInv, TypeOK, IdleRequest
<1>4. ~InTransaction(r) /\ ~Rotated(r) /\ ~InTransaction(r)' /\ ~Rotated(r)'
  BY <1>1, <1>3 DEF InTransaction, Rotated
<1>5. \A q \in Requests : /\ InTransaction(q)' <=> InTransaction(q)
                          /\ Rotated(q)' <=> Rotated(q)
                          /\ InTransaction(q) \/ Rotated(q) => req'[q] = req[q]
  BY <1>3, <1>4 DEF InTransaction, Rotated
<1>6. \A x \in RowIds : /\ x # id => rows'[x] = rows[x]
                        /\ rows'[x] # NoRow => x # id
  BY <1>1 DEF IInv, TypeOK
<1>7. \A q \in Requests : InTransaction(q) => req[q].row \in RowIds /\ req[q].row # id
  BY <1>1, RefreshAssumptions DEF IInv, LockInv
<1>8. TypeOK'
  BY <1>1, <1>3 DEF IInv, TypeOK
<1>9. LockInv'
  BY <1>1, <1>5, RefreshAssumptions DEF IInv, LockInv, TypeOK
<1>10. ASSUME NEW q \in Requests PROVE ReadOK(q)'
  <2>1. CASE InTransaction(q)
    <3>1. req'[q] = req[q] /\ rows'[req[q].row] = rows[req[q].row]
      BY <2>1, <1>5, <1>6, <1>7
    <3> QED BY <2>1, <3>1 DEF IInv, ReadInv, ReadOK, Owned, Present
  <2>2. CASE ~InTransaction(q)
    BY <2>2, <1>3, <1>5 DEF IInv, ReadInv, ReadOK
  <2> QED BY <2>1, <2>2
<1>11. TokenInv'
  <2>1. \A x \in RowIds : Present(x)' => Present(x) /\ rows'[x] = rows[x]
    BY <1>6 DEF Present
  <2>2. \A x \in RowIds : rows[x] = NoRow => rows'[x] = NoRow
    BY <1>1 DEF IInv, TypeOK
  <2> QED BY <1>1, <2>1, <2>2 DEF IInv, TokenInv
<1>12. ASSUME NEW q \in Requests PROVE RotatedOK(q)'
  <2>1. \A x \in RowIds : Present(x)' => Present(x) /\ rows'[x] = rows[x]
    BY <1>6 DEF Present
  <2>2. ASSUME Rotated(q)
        PROVE  /\ status[req[q].sent] = "spent"
               /\ status[req[q].reply.rt] \in {"live", "revoked"}
               /\ req[q].reply.rt \notin orphans
               /\ \A x \in RowIds : Present(x)' => rows'[x].rt # req[q].reply.rt
               /\ \A o \in Requests : Rotated(o) /\ o # q => req[o].reply.rt # req[q].reply.rt
    BY <2>1, <2>2 DEF IInv, RotatedInv, RotatedOK
  <2>3. \A o \in Requests : Rotated(o)' => Rotated(o) /\ req'[o] = req[o]
    BY <1>5
  <2>4. UNCHANGED <<status, orphans>>
    BY <1>1
  <2>5. ASSUME Rotated(q)', NEW o \in Requests, Rotated(o)', o # q
        PROVE  req'[o].reply.rt # req'[q].reply.rt
    BY <2>2, <2>3, <2>5
  <2>6. ASSUME Rotated(q)', NEW x \in RowIds, Present(x)'
        PROVE  rows'[x].rt # req'[q].reply.rt
    BY <2>2, <2>3, <2>6
  <2>7. ASSUME Rotated(q)'
        PROVE  /\ status'[req'[q].sent] = "spent"
               /\ status'[req'[q].reply.rt] \in {"live", "revoked"}
               /\ req'[q].reply.rt \notin orphans'
    BY <2>2, <2>3, <2>4, <2>7
  <2> QED BY <2>5, <2>6, <2>7 DEF RotatedOK
<1>13. ASSUME NEW q \in Requests PROVE RejectedOK(q)'
  BY <1>1, <1>3 DEF IInv, RejectedInv, RejectedOK, Dead
<1>14. ASSUME NEW x \in RowIds PROVE Usable(x)'
  <2>1. CASE x = id
    BY <2>1, <1>6 DEF Usable, Present
  <2>2. CASE x # id
    BY <2>2, <1>1, <1>5, <1>6
    DEF IInv, StoredTokenUsable, Usable, Present, Dead, TypeOK
  <2> QED BY <2>1, <2>2
<1>15. IdentityPreserved'
  BY <1>6 DEF IInv, IdentityPreserved, Present
<1> QED
  BY <1>8, <1>9, <1>10, <1>11, <1>12, <1>13, <1>14, <1>15
  DEF IInv, ReadInv, RotatedInv, RejectedInv, StoredTokenUsable

\* The provider's answer: an exchange binds the fresh token to this request.
LEMMA AnswerPreserves ==
  ASSUME IInv, NEW r \in Requests, ProviderAnswers(r)
  PROVE  IInv'
<1> DEFINE t == req[r].sent
           id == req[r].row
<1>1. /\ req[r].pc = "waiting"
      /\ UNCHANGED <<rows, nextRow, lock, orphans, lost>>
  BY DEF ProviderAnswers
<1>2. /\ id \in RowIds /\ rows[id] \in OAuthInfo /\ lock[id] = r
      /\ t = rows[id].rt /\ t \in Tokens /\ t <= issued
      /\ InTransaction(r) /\ ~Rotated(r)
  BY <1>1, SentIsStored DEF InTransaction, Rotated
<1>3. PICK k \in {"ok", "rejected", "unavailable"}, n \in Tokens \cup {NoToken},
           idt \in Accounts \cup {NoAccount} :
        /\ req' = [req EXCEPT ![r].pc = "checking",
                              ![r].reply = [kind |-> k, rt |-> n, idt |-> idt]]
        /\ k # "ok" => n = NoToken
        /\ k = "rejected" => status[t] # "live"
        /\ IF n = NoToken
           THEN UNCHANGED <<status, issued>>
           ELSE n = issued + 1 /\ status[t] = "live" /\ Issue([status EXCEPT ![t] = "spent"])
  <2>1. CASE /\ status[t] = "live"
             /\ Issue([status EXCEPT ![t] = "spent"])
             /\ \E idt \in Accounts \cup {NoAccount} :
                  req' = [req EXCEPT ![r].pc = "checking",
                            ![r].reply = [kind |-> "ok", rt |-> issued + 1, idt |-> idt]]
    <3>1. issued + 1 \in Tokens /\ issued + 1 # NoToken
      BY <2>1, RefreshAssumptions DEF Issue, IInv, TypeOK, Tokens, NoToken
    <3> QED BY <2>1, <3>1
  <2>2. CASE /\ status[t] = "live"
             /\ \E idt \in Accounts \cup {NoAccount} :
                  req' = [req EXCEPT ![r].pc = "checking",
                            ![r].reply = [kind |-> "ok", rt |-> NoToken, idt |-> idt]]
             /\ UNCHANGED <<status, issued>>
    BY <2>2
  <2>3. CASE /\ status[t] # "live"
             /\ req' = [req EXCEPT ![r].pc = "checking",
                   ![r].reply = [kind |-> "rejected", rt |-> NoToken, idt |-> NoAccount]]
             /\ UNCHANGED <<status, issued>>
    BY <2>3
  <2>4. CASE /\ req' = [req EXCEPT ![r].pc = "checking",
                   ![r].reply = [kind |-> "unavailable", rt |-> NoToken, idt |-> NoAccount]]
             /\ UNCHANGED <<status, issued>>
    BY <2>4
  <2> QED BY <2>1, <2>2, <2>3, <2>4 DEF ProviderAnswers
<1>4. [req[r] EXCEPT !.pc = "checking", !.reply = [kind |-> k, rt |-> n, idt |-> idt]] \in Request
  <2>1. [kind |-> k, rt |-> n, idt |-> idt] \in Replies
    BY <1>3 DEF Replies
  <2>2. req[r] \in Request /\ NoRow \in OAuthInfo \cup {NoRow} /\ NoToken \in Tokens \cup {NoToken}
    BY DEF IInv, TypeOK
  <2> QED BY <2>1, <2>2, RequestForms
<1>5. /\ req' \in [Requests -> Request]
      /\ req'[r].pc = "checking" /\ req'[r].row = id /\ req'[r].user = req[r].user
      /\ req'[r].sent = t /\ req'[r].model = req[r].model
      /\ req'[r].reply.kind = k /\ req'[r].reply.rt = n
      /\ \A q \in Requests \ {r} : req'[q] = req[q]
  BY <1>3, <1>4 DEF IInv, TypeOK, Request
<1>6. /\ \A q \in Requests : InTransaction(q)' <=> InTransaction(q)
      /\ \A q \in Requests \ {r} : Rotated(q)' <=> Rotated(q)
      /\ Rotated(r)' <=> n # NoToken
  BY <1>2, <1>5 DEF InTransaction, Rotated
<1>7. LockInv'
  BY <1>1, <1>2, <1>5, <1>6, RefreshAssumptions DEF IInv, LockInv, TypeOK
<1>8. ASSUME NEW q \in Requests PROVE ReadOK(q)'
  BY <1>1, <1>5, <1>6 DEF IInv, ReadInv, ReadOK, Owned, Present
<1>9. IdentityPreserved'
  BY <1>1 DEF IInv, IdentityPreserved, Present
<1>10. CASE n = NoToken
  <2>1. UNCHANGED <<status, issued>>
    BY <1>3, <1>10
  <2>2. TypeOK' /\ TokenInv'
    BY <1>1, <1>5, <2>1 DEF IInv, TypeOK, TokenInv, Present
  <2>3. \A q \in Requests : Rotated(q)' => Rotated(q) /\ req'[q] = req[q]
    BY <1>5, <1>6, <1>10
  <2>4. ASSUME NEW q \in Requests PROVE RotatedOK(q)'
    BY <1>1, <2>1, <2>3 DEF IInv, RotatedInv, RotatedOK, Present
  <2>5. ASSUME NEW q \in Requests PROVE RejectedOK(q)'
    <3>1. CASE q = r
      <4>1. k = "rejected" => Dead(t)
        BY <1>2, <1>3, RowAssumption DEF IInv, StoredTokenUsable, Usable, Present
      <4> QED BY <3>1, <4>1, <1>1, <1>5, <1>10, <2>1 DEF RejectedOK, Dead
    <3>2. CASE q # r
      BY <3>2, <1>1, <1>5, <2>1 DEF IInv, RejectedInv, RejectedOK, Dead
    <3> QED BY <3>1, <3>2
  <2>6. ASSUME NEW x \in RowIds PROVE Usable(x)'
    <3>1. lock[x] # NoRequest /\ Rotated(lock[x]) => Rotated(lock[x])'
      BY <1>1, <1>2, <1>6 DEF IInv, TypeOK
    <3> QED BY <3>1, <1>1, <2>1 DEF IInv, StoredTokenUsable, Usable, Present, Dead
  <2> QED BY <1>7, <1>8, <1>9, <2>2, <2>4, <2>5, <2>6
      DEF IInv, ReadInv, RotatedInv, RejectedInv, StoredTokenUsable
<1>11. CASE n # NoToken
  <2>1. /\ n = issued + 1 /\ issued' = n /\ issued' \in 0 .. MaxToken /\ n \in Tokens
        /\ status' \in [Tokens -> {"unissued", "live", "spent", "revoked"}]
        /\ status[t] = "live" /\ status'[t] = "spent" /\ status'[n] = "live"
        /\ \A x \in Tokens : x # t /\ x # n => status'[x] = status[x]
    <3>1. /\ n = issued + 1 /\ issued < MaxToken /\ issued' = issued + 1
          /\ status[t] = "live"
          /\ status' = [[status EXCEPT ![t] = "spent"] EXCEPT ![issued + 1] = "live"]
      BY <1>3, <1>11 DEF Issue
    <3>2. issued \in Nat /\ MaxToken \in Nat /\ t \in Nat /\ t # issued + 1
          /\ issued + 1 \in Tokens /\ issued + 1 \in 0 .. MaxToken
      BY <3>1, <1>2, RefreshAssumptions DEF IInv, TypeOK, Tokens
    <3>3. status \in [Tokens -> {"unissued", "live", "spent", "revoked"}]
      BY DEF IInv, TypeOK
    <3> HIDE DEF t
    <3> QED BY <3>1, <3>2, <3>3, <1>2
  <2>2. TypeOK'
    BY <1>1, <1>5, <2>1 DEF IInv, TypeOK
  <2>3. TokenInv'
    <3>1. ASSUME NEW x \in Tokens PROVE status'[x] = "unissued" <=> x > issued'
      <4>1. status[x] = "unissued" <=> x > issued
        BY DEF IInv, TokenInv
      <4>2. x \in Nat /\ issued \in Nat /\ t \in Nat
        BY <1>2 DEF IInv, TypeOK, Tokens
      <4> QED BY <1>2, <2>1, <4>1, <4>2
    <3>2. \A x \in orphans' : x <= issued'
      BY <1>1, <2>1, RefreshAssumptions DEF IInv, TypeOK, TokenInv, Tokens
    <3>3. \A x \in RowIds : Present(x) => rows[x].rt <= issued'
      BY <2>1 DEF IInv, TypeOK, TokenInv, Tokens, Present, OAuthInfo, NoToken
    <3> QED BY <1>1, <3>1, <3>2, <3>3 DEF IInv, TokenInv, Present
  <2>4. \A x \in RowIds : Present(x) => rows[x].rt # n
    BY <2>1 DEF IInv, TypeOK, TokenInv, Tokens, Present, OAuthInfo, NoToken
  <2>5. n \notin orphans
    BY <2>1 DEF IInv, TypeOK, TokenInv, Tokens
  <2>6. ASSUME NEW q \in Requests, q # r, Rotated(q)
        PROVE  /\ status'[req[q].sent] = "spent"
               /\ status'[req[q].reply.rt] \in {"live", "revoked"}
               /\ req[q].reply.rt # n
    <3>1. req[q].sent \in Tokens /\ req[q].sent <= issued
      BY <2>6, SentIsStored DEF Rotated
    <3>2. req[q].reply.rt \in Tokens /\ req[q].reply.rt <= issued
      BY <2>6, SuccessorIsIssued
    <3>3. req[q].reply.rt # t
      BY <2>6, <1>2, RowAssumption DEF IInv, RotatedInv, RotatedOK, Present
    <3>4. status[req[q].sent] = "spent" /\ status[req[q].reply.rt] \in {"live", "revoked"}
      BY <2>6 DEF IInv, RotatedInv, RotatedOK
    <3> QED BY <2>1, <3>1, <3>2, <3>3, <3>4 DEF IInv, TypeOK, Tokens
  <2>7. ASSUME NEW q \in Requests PROVE RotatedOK(q)'
    <3>1. CASE q = r
      <4>1. \A o \in Requests : Rotated(o)' /\ o # r => req'[o].reply.rt # n
        BY <1>5, <1>6, <2>6
      <4> QED BY <3>1, <4>1, <1>1, <1>5, <2>1, <2>4, <2>5 DEF RotatedOK, Present
    <3>2. CASE q # r
      <4>1. ASSUME Rotated(q)
            PROVE  \A o \in Requests : Rotated(o)' /\ o # q => req'[o].reply.rt # req[q].reply.rt
        <5>1. ASSUME NEW o \in Requests, Rotated(o)', o # q
              PROVE  req'[o].reply.rt # req[q].reply.rt
          <6>1. CASE o = r
            BY <6>1, <1>5, <2>6, <3>2, <4>1
          <6>2. CASE o # r
            BY <6>2, <5>1, <4>1, <1>5, <1>6 DEF IInv, RotatedInv, RotatedOK
          <6> QED BY <6>1, <6>2
        <5> QED BY <5>1
      <4>2. Rotated(q) => /\ req[q].reply.rt \notin orphans
                          /\ \A x \in RowIds : Present(x) => rows[x].rt # req[q].reply.rt
        BY DEF IInv, RotatedInv, RotatedOK
      <4> QED BY <3>2, <4>1, <4>2, <1>1, <1>5, <1>6, <2>6 DEF RotatedOK, Present
    <3> QED BY <3>1, <3>2
  <2>8. \A x \in Tokens \cup {NoToken} : Dead(x) => Dead(x)'
    BY <1>1, <2>1 DEF Dead, IInv, TypeOK, TokenInv, Tokens, NoToken
  <2>9. ASSUME NEW q \in Requests PROVE RejectedOK(q)'
    <3>1. CASE q = r
      BY <3>1, <1>3, <1>5, <1>11 DEF RejectedOK
    <3>2. CASE q # r
      <4>1. req[q].sent \in Tokens \cup {NoToken}
        BY DEF IInv, TypeOK, Request
      <4> QED BY <3>2, <4>1, <1>5, <2>8 DEF IInv, RejectedInv, RejectedOK
    <3> QED BY <3>1, <3>2
  <2>10. ASSUME NEW x \in RowIds PROVE Usable(x)'
    <3>1. CASE x = id
      BY <3>1, <1>1, <1>2, <1>6, <1>11, RefreshAssumptions DEF Usable
    <3>2. CASE x # id
      <4>1. ASSUME Present(x)
            PROVE  /\ rows[x].rt \in Tokens \cup {NoToken}
                   /\ rows[x].rt # t /\ rows[x].rt # n
        BY <4>1, <3>2, <1>2, <2>4, RowAssumption
        DEF IInv, TypeOK, TokenInv, Present, OAuthInfo, Tokens, NoToken
      <4>2. Present(x) /\ rows[x].rt \in Tokens /\ status[rows[x].rt] = "live"
              => status'[rows[x].rt] = "live"
        BY <4>1, <2>1
      <4>3. Present(x) /\ rows[x].rt = NoToken => Dead(rows[x].rt)
        BY DEF Dead
      <4>4. lock[x] # NoRequest /\ Rotated(lock[x]) => Rotated(lock[x])'
        BY <1>1, <1>2, <1>6 DEF IInv, TypeOK
      <4>5. Usable(x)
        BY DEF IInv, StoredTokenUsable
      <4> QED BY <1>1, <2>8, <4>1, <4>2, <4>3, <4>4, <4>5 DEF Usable, Present
    <3> QED BY <3>1, <3>2
  <2> QED BY <1>7, <1>8, <1>9, <2>2, <2>3, <2>7, <2>9, <2>10
      DEF IInv, ReadInv, RotatedInv, RejectedInv, StoredTokenUsable
<1> QED BY <1>10, <1>11

\* The commit: the row takes the successor, which only this request knew.
LEMMA UpdatePreserves ==
  ASSUME IInv, NEW r \in Requests, UpdateToken(r)
  PROVE  IInv'
<1> DEFINE id == req[r].row
           m == req[r].model
<1>1. /\ req[r].pc = "saving"
      /\ rows' = [rows EXCEPT ![id] = m]
      /\ lock' = [lock EXCEPT ![id] = NoRequest]
      /\ UNCHANGED <<nextRow, status, issued, orphans, lost>>
  BY DEF UpdateToken
<1>2. /\ id \in RowIds /\ rows[id] \in OAuthInfo /\ lock[id] = r
      /\ req[r].sent = rows[id].rt /\ InTransaction(r)
  BY <1>1, SentIsStored DEF InTransaction
<1>3. IdentityAccepted(rows[id], req[r].reply) /\ m = Refreshed(rows[id], req[r].reply)
  BY <1>1, <1>2 DEF IInv, ReadInv, ReadOK
<1>4. req[r].reply \in Replies
  BY DEF IInv, TypeOK, Request
<1>5. /\ m \in OAuthInfo
      /\ m.owner = rows[id].owner /\ m.account = rows[id].account
      /\ m.idt = IF req[r].reply.idt # NoAccount THEN req[r].reply.idt ELSE rows[id].idt
      /\ m.rt = IF req[r].reply.rt # NoToken THEN req[r].reply.rt ELSE rows[id].rt
  BY <1>2, <1>3, <1>4 DEF Refreshed, OAuthInfo, Replies
<1>6. Rotated(r) <=> req[r].reply.rt # NoToken
  BY <1>1 DEF Rotated
<1>7. PICK a \in {"ok", "error"} :
        req' = [req EXCEPT ![r] = [IdleRequest EXCEPT !.answer = a]]
  BY DEF UpdateToken
<1>8. [IdleRequest EXCEPT !.answer = a] \in Request
  BY <1>7, IdleIsRequest DEF Request
<1>9. /\ req' \in [Requests -> Request]
      /\ req'[r].pc = "idle" /\ req'[r].sent = NoToken
      /\ \A q \in Requests \ {r} : req'[q] = req[q]
  BY <1>7, <1>8 DEF IInv, TypeOK, IdleRequest
<1>10. /\ ~InTransaction(r)' /\ ~Rotated(r)'
       /\ \A q \in Requests \ {r} : /\ InTransaction(q)' <=> InTransaction(q)
                                    /\ Rotated(q)' <=> Rotated(q)
  BY <1>9 DEF InTransaction, Rotated
<1>11. /\ rows'[id] = m /\ m # NoRow /\ lock'[id] = NoRequest
       /\ \A x \in RowIds \ {id} : rows'[x] = rows[x] /\ lock'[x] = lock[x]
  BY <1>1, <1>2, <1>5, RowAssumption DEF IInv, TypeOK
<1>12. \A x \in RowIds : Present(x)' <=> Present(x)
  BY <1>2, <1>11, RowAssumption DEF Present
<1> HIDE DEF m
<1>13. TypeOK'
  BY <1>1, <1>2, <1>5, <1>9 DEF IInv, TypeOK
<1>14. LockInv'
  <2>1. ASSUME NEW q \in Requests, InTransaction(q)'
        PROVE  req'[q].row \in RowIds /\ lock'[req'[q].row] = q
    BY <2>1, <1>2, <1>9, <1>10, <1>11 DEF IInv, LockInv
  <2>2. ASSUME NEW x \in RowIds, lock'[x] # NoRequest
        PROVE  InTransaction(lock[x])' /\ req'[lock'[x]].row = x
    <3>1. x # id /\ lock'[x] = lock[x]
      BY <2>2, <1>11
    <3>2. lock[x] \in Requests \ {r}
      BY <2>2, <3>1 DEF IInv, TypeOK, LockInv
    <3> QED BY <2>2, <3>1, <3>2, <1>9, <1>10 DEF IInv, LockInv
  <2> QED BY <2>1, <2>2 DEF LockInv
<1>15. ASSUME NEW q \in Requests PROVE ReadOK(q)'
  <2>1. CASE q = r
    BY <2>1, <1>9, <1>10 DEF ReadOK
  <2>2. CASE q # r /\ InTransaction(q)
    <3>1. req'[q] = req[q] /\ rows'[req[q].row] = rows[req[q].row]
      BY <2>2, <1>2, <1>9, <1>11 DEF IInv, LockInv
    <3> QED BY <2>2, <3>1 DEF IInv, ReadInv, ReadOK, Owned, Present
  <2>3. CASE q # r /\ ~InTransaction(q)
    BY <2>3, <1>9, <1>10 DEF IInv, ReadInv, ReadOK
  <2> QED BY <2>1, <2>2, <2>3
<1>16. TokenInv'
  <2>1. m.rt <= issued
    BY <1>2, <1>5, <1>6, SuccessorIsIssued, RowAssumption DEF IInv, TokenInv, Present
  <2>2. ASSUME NEW x \in RowIds, Present(x), x # id PROVE m.rt = NoToken \/ m.rt # rows[x].rt
    <3>1. CASE Rotated(r)
      BY <2>2, <3>1, <1>5, <1>6 DEF IInv, RotatedInv, RotatedOK
    <3>2. CASE ~Rotated(r)
      BY <2>2, <3>2, <1>2, <1>5, <1>6, RowAssumption DEF IInv, TokenInv, Present
    <3> QED BY <3>1, <3>2
  <2>3. ASSUME NEW x \in RowIds, NEW y \in RowIds, Present(x)', Present(y)', x # y,
               rows'[x].rt # NoToken
        PROVE  rows'[x].rt # rows'[y].rt
    <3>1. CASE x = id
      BY <3>1, <2>2, <2>3, <1>11, <1>12
    <3>2. CASE y = id
      BY <3>2, <2>2, <2>3, <1>11, <1>12
    <3>3. CASE x # id /\ y # id
      BY <3>3, <2>3, <1>11, <1>12 DEF IInv, TokenInv
    <3> QED BY <3>1, <3>2, <3>3
  <2>4. \A x \in RowIds : Present(x)' => rows'[x].rt <= issued
    BY <2>1, <1>11, <1>12 DEF IInv, TokenInv
  <2>5. \A x \in RowIds : x >= nextRow => rows'[x] = NoRow
    BY <1>2, <1>11, RowAssumption DEF IInv, TokenInv
  <2> QED BY <1>1, <2>3, <2>4, <2>5 DEF IInv, TokenInv
<1>17. ASSUME NEW q \in Requests PROVE RotatedOK(q)'
  <2>1. ASSUME Rotated(q)'
        PROVE  q # r /\ Rotated(q) /\ req'[q] = req[q] /\ RotatedOK(q)
    BY <2>1, <1>9, <1>10 DEF IInv, RotatedInv
  <2>2. ASSUME Rotated(q)', NEW o \in Requests, Rotated(o)', o # q
        PROVE  req'[o].reply.rt # req'[q].reply.rt
    BY <2>1, <2>2, <1>9, <1>10 DEF RotatedOK
  <2>3. ASSUME Rotated(q)', NEW x \in RowIds, Present(x)'
        PROVE  rows'[x].rt # req'[q].reply.rt
    <3>1. CASE x # id
      BY <3>1, <2>1, <2>3, <1>11, <1>12 DEF RotatedOK
    <3>2. CASE x = id /\ Rotated(r)
      BY <3>2, <2>1, <2>3, <1>5, <1>6, <1>11 DEF RotatedOK
    <3>3. CASE x = id /\ ~Rotated(r)
      BY <3>3, <2>1, <2>3, <1>5, <1>6, <1>11, <1>12 DEF RotatedOK
    <3> QED BY <3>1, <3>2, <3>3
  <2>4. ASSUME Rotated(q)'
        PROVE  /\ status'[req'[q].sent] = "spent"
               /\ status'[req'[q].reply.rt] \in {"live", "revoked"}
               /\ req'[q].reply.rt \notin orphans'
    BY <2>1, <2>4, <1>1 DEF RotatedOK
  <2> QED BY <2>2, <2>3, <2>4 DEF RotatedOK
<1>18. ASSUME NEW q \in Requests PROVE RejectedOK(q)'
  BY <1>1, <1>9 DEF IInv, RejectedInv, RejectedOK, Dead
<1>19. ASSUME NEW x \in RowIds PROVE Usable(x)'
  <2>1. CASE x = id
    <3>1. CASE Rotated(r)
      <4>1. status[m.rt] \in {"live", "revoked"}
        BY <3>1, <1>5, <1>6 DEF IInv, RotatedInv, RotatedOK
      <4> QED BY <2>1, <4>1, <1>1, <1>11 DEF Usable, Dead
    <3>2. CASE ~Rotated(r)
      <4>1. Dead(m.rt) \/ status[m.rt] = "live"
        BY <3>2, <1>2, <1>5, <1>6, RowAssumption DEF IInv, StoredTokenUsable, Usable, Present
      <4> QED BY <2>1, <4>1, <1>1, <1>11 DEF Usable, Dead
    <3> QED BY <3>1, <3>2
  <2>2. CASE x # id
    <3>1. rows'[x] = rows[x] /\ lock'[x] = lock[x] /\ lock[x] # r
      BY <2>2, <1>11, RefreshAssumptions DEF IInv, LockInv
    <3>2. lock[x] # NoRequest /\ Rotated(lock[x]) => Rotated(lock[x])'
      BY <3>1, <1>10 DEF IInv, TypeOK
    <3> QED BY <3>1, <3>2, <1>1 DEF IInv, StoredTokenUsable, Usable, Present, Dead
  <2> QED BY <2>1, <2>2
<1>20. IdentityPreserved'
  <2>1. m.idt = m.account
    BY <1>2, <1>3, <1>5, RowAssumption DEF IInv, IdentityPreserved, IdentityAccepted, Present
  <2> QED BY <2>1, <1>11, <1>12 DEF IInv, IdentityPreserved
<1> QED
  BY <1>13, <1>14, <1>15, <1>16, <1>17, <1>18, <1>19, <1>20
  DEF IInv, ReadInv, RotatedInv, RejectedInv, StoredTokenUsable

\* The insert at the end of a login stores a token nobody has seen.
LEMMA SavePreserves ==
  ASSUME IInv, NEW u \in Users, NEW ac \in Accounts, SaveToken(u, ac)
  PROVE  IInv'
<1>1. PICK rt \in {issued + 1, NoToken} :
        /\ IF rt = NoToken THEN UNCHANGED <<status, issued>> ELSE Issue(status)
        /\ \/ /\ nextRow \in RowIds
              /\ rows' = [rows EXCEPT ![nextRow] =
                            [owner |-> u, account |-> ac, rt |-> rt, idt |-> ac]]
              /\ nextRow' = nextRow + 1
           \/ UNCHANGED <<rows, nextRow>>
  BY DEF SaveToken
<1>2. UNCHANGED <<lock, req, orphans, lost>>
  BY DEF SaveToken
<1>3. issued \in Nat /\ MaxToken \in Nat /\ issued + 1 # NoToken
  BY RefreshAssumptions DEF IInv, TypeOK, NoToken
<1>4. /\ issued' \in 0 .. MaxToken /\ issued <= issued'
      /\ status' \in [Tokens -> {"unissued", "live", "spent", "revoked"}]
      /\ rt \in Tokens \cup {NoToken} /\ rt <= issued'
      /\ rt # NoToken => rt = issued + 1 /\ status'[rt] = "live"
      /\ \A x \in Tokens : x <= issued => status'[x] = status[x]
      /\ \A x \in Tokens : status'[x] = "unissued" <=> x > issued'
  <2>1. CASE rt = NoToken
    BY <2>1, <1>1, <1>3 DEF IInv, TypeOK, TokenInv, NoToken
  <2>2. CASE rt # NoToken
    <3>1. /\ rt = issued + 1 /\ issued < MaxToken /\ issued' = issued + 1
          /\ status' = [status EXCEPT ![issued + 1] = "live"]
      BY <2>2, <1>1 DEF Issue
    <3>2. issued + 1 \in Tokens /\ issued + 1 \in 0 .. MaxToken
      BY <3>1, <1>3 DEF Tokens
    <3>3. ASSUME NEW x \in Tokens
          PROVE  /\ status'[x] = "unissued" <=> x > issued'
                 /\ x <= issued => status'[x] = status[x]
      <4>1. status[x] = "unissued" <=> x > issued
        BY DEF IInv, TokenInv
      <4>2. x \in Nat
        BY DEF Tokens
      <4> QED BY <1>3, <3>1, <3>2, <4>1, <4>2 DEF IInv, TypeOK
    <3> QED BY <2>2, <1>3, <3>1, <3>2, <3>3 DEF IInv, TypeOK
  <2> QED BY <2>1, <2>2
<1>5. /\ rows' \in [RowIds -> OAuthInfo \cup {NoRow}]
      /\ nextRow' \in 1 .. MaxRow + 1
      /\ \A x \in RowIds : x >= nextRow' => rows'[x] = NoRow
      /\ \A x \in RowIds : Present(x) => rows'[x] = rows[x]
      /\ \A x \in RowIds : Present(x)' /\ rows'[x] # rows[x] =>
           x = nextRow /\ rows'[x].rt = rt /\ rows'[x].idt = rows'[x].account
  <2>1. CASE UNCHANGED <<rows, nextRow>>
    BY <2>1 DEF IInv, TypeOK, TokenInv
  <2>2. CASE /\ nextRow \in RowIds
             /\ rows' = [rows EXCEPT ![nextRow] =
                           [owner |-> u, account |-> ac, rt |-> rt, idt |-> ac]]
             /\ nextRow' = nextRow + 1
    <3> DEFINE new == [owner |-> u, account |-> ac, rt |-> rt, idt |-> ac]
    <3>1. new \in OAuthInfo
      BY <1>4 DEF OAuthInfo
    <3>2. new.rt = rt /\ new.idt = new.account
      OBVIOUS
    <3>3. rows[nextRow] = NoRow /\ nextRow \in Nat /\ MaxRow \in Nat
      BY <2>2, RefreshAssumptions DEF IInv, TypeOK, TokenInv
    <3> HIDE DEF new
    <3>4. rows' = [rows EXCEPT ![nextRow] = new]
      BY <2>2 DEF new
    <3> QED BY <2>2, <3>1, <3>2, <3>3, <3>4 DEF IInv, TypeOK, TokenInv, Present, RowIds
  <2> QED BY <1>1, <2>1, <2>2
<1>6. \A q \in Requests : /\ InTransaction(q)' <=> InTransaction(q)
                          /\ Rotated(q)' <=> Rotated(q)
  BY <1>2 DEF InTransaction, Rotated
<1>7. TypeOK'
  BY <1>2, <1>4, <1>5 DEF IInv, TypeOK
<1>8. LockInv'
  BY <1>2, <1>6, RefreshAssumptions DEF IInv, LockInv, TypeOK
<1>9. ASSUME NEW q \in Requests PROVE ReadOK(q)'
  <2>1. InTransaction(q) => rows'[req[q].row] = rows[req[q].row]
    BY <1>5 DEF IInv, ReadInv, ReadOK, LockInv, Owned
  <2> QED BY <1>2, <1>6, <2>1 DEF IInv, ReadInv, ReadOK, Owned, Present
<1>10. \A x \in RowIds : Present(x)' => rows'[x] = rows[x] \/ rows'[x].rt = rt
  BY <1>5
<1>11. \A x \in RowIds : Present(x)' /\ rows'[x] = rows[x] =>
         /\ Present(x) /\ rows[x].rt \in Tokens \cup {NoToken} /\ rows[x].rt <= issued
  BY DEF Present, IInv, TypeOK, TokenInv, OAuthInfo
<1>12. TokenInv'
  <2>1. \A t \in orphans' : t <= issued'
    BY <1>2, <1>3, <1>4 DEF IInv, TypeOK, TokenInv, Tokens
  <2>2. \A x \in RowIds : Present(x)' => rows'[x].rt <= issued'
    BY <1>3, <1>4, <1>10, <1>11 DEF Tokens, NoToken
  <2>3. ASSUME NEW x \in RowIds, NEW y \in RowIds, Present(x)', Present(y)', x # y,
               rows'[x].rt # NoToken
        PROVE  rows'[x].rt # rows'[y].rt
    <3>1. CASE rows'[x] = rows[x] /\ rows'[y] = rows[y]
      BY <3>1, <2>3, <1>11 DEF IInv, TokenInv
    <3>2. CASE rows'[x] = rows[x] /\ rows'[y] # rows[y]
      BY <3>2, <2>3, <1>3, <1>4, <1>10, <1>11 DEF Tokens, NoToken
    <3>3. CASE rows'[x] # rows[x] /\ rows'[y] = rows[y]
      BY <3>3, <2>3, <1>3, <1>4, <1>10, <1>11 DEF Tokens, NoToken
    <3>4. CASE rows'[x] # rows[x] /\ rows'[y] # rows[y]
      BY <3>4, <2>3, <1>5
    <3> QED BY <3>1, <3>2, <3>3, <3>4
  <2> QED BY <1>4, <1>5, <2>1, <2>2, <2>3 DEF TokenInv
<1>13. ASSUME NEW q \in Requests PROVE RotatedOK(q)'
  <2>1. ASSUME Rotated(q)
        PROVE  /\ status'[req[q].sent] = "spent"
               /\ status'[req[q].reply.rt] \in {"live", "revoked"}
               /\ \A x \in RowIds : Present(x)' => rows'[x].rt # req[q].reply.rt
    <3>1. req[q].sent \in Tokens /\ req[q].sent <= issued
      BY <2>1, SentIsStored DEF Rotated
    <3>2. req[q].reply.rt \in Tokens /\ req[q].reply.rt <= issued
      BY <2>1, SuccessorIsIssued
    <3>3. req[q].reply.rt # rt
      BY <3>2, <1>3, <1>4 DEF Tokens, NoToken
    <3>4. /\ status[req[q].sent] = "spent"
          /\ status[req[q].reply.rt] \in {"live", "revoked"}
          /\ \A x \in RowIds : Present(x) => rows[x].rt # req[q].reply.rt
      BY <2>1 DEF IInv, RotatedInv, RotatedOK
    <3> QED BY <1>4, <1>10, <1>11, <3>1, <3>2, <3>3, <3>4
  <2> QED BY <1>2, <1>6, <2>1 DEF IInv, RotatedInv, RotatedOK
<1>14. \A x \in Tokens \cup {NoToken} : Dead(x) => Dead(x)'
  BY <1>2, <1>4 DEF Dead, IInv, TypeOK, TokenInv, Tokens, NoToken
<1>15. ASSUME NEW q \in Requests PROVE RejectedOK(q)'
  <2>1. req[q].sent \in Tokens \cup {NoToken}
    BY DEF IInv, TypeOK, Request
  <2> QED BY <1>2, <1>14, <2>1 DEF IInv, RejectedInv, RejectedOK
<1>16. ASSUME NEW x \in RowIds PROVE Usable(x)'
  <2>1. CASE Present(x)' /\ rows'[x] = rows[x]
    <3>1. rows[x].rt \in Tokens /\ status[rows[x].rt] = "live" => status'[rows[x].rt] = "live"
      BY <2>1, <1>4, <1>11
    <3>2. rows[x].rt = NoToken => Dead(rows[x].rt)
      BY DEF Dead
    <3>3. Usable(x) /\ Present(x) /\ rows[x].rt \in Tokens \cup {NoToken}
      BY <2>1, <1>11 DEF IInv, StoredTokenUsable
    <3>4. lock[x] # NoRequest /\ Rotated(lock[x]) => Rotated(lock[x])'
      BY <1>2, <1>6 DEF IInv, TypeOK
    <3> QED BY <2>1, <3>1, <3>2, <3>3, <3>4, <1>2, <1>14 DEF Usable
  <2>2. CASE Present(x)' /\ rows'[x] # rows[x]
    BY <2>2, <1>4, <1>5 DEF Usable, Dead
  <2>3. CASE ~Present(x)'
    BY <2>3 DEF Usable
  <2> QED BY <2>1, <2>2, <2>3
<1>17. IdentityPreserved'
  BY <1>5, <1>11 DEF IInv, IdentityPreserved
<1> QED
  BY <1>7, <1>8, <1>9, <1>12, <1>13, <1>15, <1>16, <1>17
  DEF IInv, ReadInv, RotatedInv, RejectedInv, StoredTokenUsable

-----------------------------------------------------------------------------

\* Initially the table is empty and no request is served.
LEMMA InitEstablishes == Init => IInv
<1> SUFFICES ASSUME Init PROVE IInv
  OBVIOUS
<1>1. /\ \A r \in Requests : req[r].pc = "idle" /\ req[r].sent = NoToken
      /\ \A id \in RowIds : rows[id] = NoRow /\ lock[id] = NoRequest
  BY DEF Init, IdleRequest
<1>2. TypeOK
  BY IdleIsRequest, RefreshAssumptions DEF Init, TypeOK
<1>3. LockInv /\ ReadInv /\ RotatedInv /\ RejectedInv /\ StoredTokenUsable /\ IdentityPreserved
  BY <1>1 DEF LockInv, ReadInv, ReadOK, RotatedInv, RotatedOK, RejectedInv, RejectedOK,
              StoredTokenUsable, Usable, IdentityPreserved, InTransaction, Rotated, Present
<1>4. TokenInv
  BY <1>1 DEF Init, TokenInv, Present, Tokens
<1> QED BY <1>2, <1>3, <1>4 DEF IInv

\* A step that changes nothing the model keeps.
LEMMA StutterPreserves ==
  ASSUME IInv, UNCHANGED vars
  PROVE  IInv'
<1>1. \A q \in Requests : /\ InTransaction(q)' <=> InTransaction(q)
                          /\ Rotated(q)' <=> Rotated(q)
  BY DEF vars, InTransaction, Rotated
<1>2. TypeOK' /\ TokenInv' /\ IdentityPreserved'
  BY DEF IInv, vars, TypeOK, TokenInv, IdentityPreserved, Present
<1>3. LockInv'
  BY <1>1, RefreshAssumptions DEF IInv, vars, LockInv, TypeOK
<1>4. ASSUME NEW q \in Requests PROVE ReadOK(q)' /\ RejectedOK(q)'
  BY <1>1 DEF IInv, vars, ReadInv, ReadOK, RejectedInv, RejectedOK, Owned, Present, Dead
<1>5. ASSUME NEW q \in Requests PROVE RotatedOK(q)'
  BY <1>1 DEF IInv, vars, RotatedInv, RotatedOK, Present
<1>6. ASSUME NEW x \in RowIds PROVE Usable(x)'
  BY <1>1 DEF IInv, vars, StoredTokenUsable, Usable, Present, Dead, TypeOK
<1> QED BY <1>2, <1>3, <1>4, <1>5, <1>6
    DEF IInv, ReadInv, RotatedInv, RejectedInv, StoredTokenUsable

\* The ways a request can end without a commit are rollbacks.
LEMMA RequestStepPreserves ==
  ASSUME IInv, NEW r \in Requests, RefreshStep(r)
  PROVE  IInv'
<1>1. CASE GetOwnedTokenForUpdate(r)
  BY <1>1, LockPreserves
<1>2. CASE UpdateToken(r)
  BY <1>2, UpdatePreserves
<1>3. CASE DeleteUserOauth(r)
  BY <1>3, DeletePreserves
<1>4. CASE PresentToken(r)
  BY <1>4, SendPreserves, RollbackPreserves DEF PresentToken
<1>5. CASE CheckReply(r)
  BY <1>5, AcceptPreserves, RollbackPreserves DEF CheckReply
<1>6. CASE OAuthNotFound(r) \/ UpdateFails(r) \/ RefreshExpires(r) \/ DeleteCanceled(r)
  BY <1>6, RollbackPreserves DEF OAuthNotFound, UpdateFails, RefreshExpires, DeleteCanceled
<1> QED BY <1>1, <1>2, <1>3, <1>4, <1>5, <1>6 DEF RefreshStep

\* The inductive step: every handler step, provider step and crash.
LEMMA NextPreserves == IInv /\ [Next]_vars => IInv'
<1> SUFFICES ASSUME IInv, [Next]_vars PROVE IInv'
  OBVIOUS
<1>1. ASSUME NEW u \in Users, NEW a \in Accounts, SaveToken(u, a) PROVE IInv'
  BY <1>1, SavePreserves
<1>2. ASSUME NEW r \in Requests, NEW u \in Users, NEW id \in RowIds,
             StartRefresh(r, u, id) \/ StartDelete(r, u, id)
      PROVE  IInv'
  BY <1>2, StartPreserves
<1>3. ASSUME NEW r \in Requests, RefreshStep(r) \/ ProviderAnswers(r) PROVE IInv'
  BY <1>3, RequestStepPreserves, AnswerPreserves
<1>4. ASSUME NEW t \in Tokens, OrphanArrives(t) \/ ProviderRevokes(t) PROVE IInv'
  BY <1>4, OrphanPreserves, RevokePreserves
<1>5. ASSUME NEW i \in Instances, Crash(i) PROVE IInv'
  BY <1>5, RollbackPreserves DEF Crash
<1>6. CASE UNCHANGED vars
  BY <1>6, StutterPreserves
<1> QED BY <1>1, <1>2, <1>3, <1>4, <1>5, <1>6 DEF Next

\* The invariant holds in every reachable state, for any number of instances,
\* requests, users, accounts, rows and tokens.
THEOREM Invariance == Spec => []IInv
BY InitEstablishes, NextPreserves, PTL DEF Spec

\* Every variable keeps its type.
THEOREM TypeCorrect == Spec => []TypeOK
<1>1. IInv => TypeOK
  BY DEF IInv
<1> QED BY <1>1, Invariance, PTL

\* No refresh works on a stale credential, whatever the other instances do.
THEOREM RefreshNeverStale == Spec => []NoStaleRefresh
<1>1. IInv => NoStaleRefresh
  BY DEF IInv, ReadInv, ReadOK, NoStaleRefresh, InTransaction
<1> QED BY <1>1, Invariance, PTL

\* A stored token is usable unless it was revoked, wasted, or is being
\* exchanged under the row lock right now.
THEOREM StoredTokensUsable == Spec => []StoredTokenUsable
<1>1. IInv => StoredTokenUsable
  BY DEF IInv
<1> QED BY <1>1, Invariance, PTL

\* No refresh stores the ID token of another account.
THEOREM IdentitySafe == Spec => []IdentityPreserved
<1>1. IInv => IdentityPreserved
  BY DEF IInv
<1> QED BY <1>1, Invariance, PTL

\* A request that ends without a commit gets the answer of its rollback.
LEMMA RollbackAnswers ==
  ASSUME NEW rs \in SUBSET Requests, NEW a, Rollback(rs, a),
         NEW r \in Requests, req[r].pc # "idle", req'[r].pc = "idle"
  PROVE  r \in rs /\ req'[r].answer = a
BY DEF Rollback, IdleRequest

\* Only a dead credential is answered with "reauthorize account".
THEOREM RejectionsAreJust == Spec => RejectionIsJust
<1> DEFINE Ends(r) == req[r].pc # "idle" /\ req'[r].pc = "idle" /\ req'[r].answer = "rejected"
<1> DEFINE Just(r) == Present(req[r].row) /\ Dead(rows[req[r].row].rt)
<1>1. ASSUME IInv, Next, NEW r \in Requests, Ends(r)
      PROVE  Just(r)
  <2>1. ASSUME NEW u \in Users, NEW a \in Accounts, SaveToken(u, a) PROVE FALSE
    BY <2>1, <1>1 DEF SaveToken
  <2>2. ASSUME NEW q \in Requests, NEW u \in Users, NEW id \in RowIds,
               StartRefresh(q, u, id) \/ StartDelete(q, u, id)
        PROVE  FALSE
    BY <2>2, <1>1 DEF StartRefresh, StartDelete, IInv, TypeOK, IdleRequest
  <2>3. ASSUME NEW t \in Tokens, OrphanArrives(t) \/ ProviderRevokes(t) PROVE FALSE
    BY <2>3, <1>1 DEF OrphanArrives, ProviderRevokes
  <2>4. ASSUME NEW i \in Instances, Crash(i) PROVE FALSE
    BY <2>4, <1>1, RollbackAnswers DEF Crash
  <2>5. ASSUME NEW q \in Requests, ProviderAnswers(q) PROVE FALSE
    <3>1. \E reply : req' = [req EXCEPT ![q].pc = "checking", ![q].reply = reply]
      BY <2>5 DEF ProviderAnswers
    <3> QED BY <3>1, <1>1 DEF IInv, TypeOK, Request
  <2>6. ASSUME NEW q \in Requests, RefreshStep(q) PROVE Just(r)
    <3>1. CASE GetOwnedTokenForUpdate(q)
      BY <3>1, <1>1 DEF GetOwnedTokenForUpdate, IInv, TypeOK, Request
    <3>2. CASE UpdateToken(q) \/ DeleteUserOauth(q)
      BY <3>2, <1>1 DEF UpdateToken, DeleteUserOauth, IInv, TypeOK, IdleRequest
    <3>3. CASE OAuthNotFound(q) \/ UpdateFails(q) \/ RefreshExpires(q) \/ DeleteCanceled(q)
      BY <3>3, <1>1, RollbackAnswers
      DEF OAuthNotFound, UpdateFails, RefreshExpires, DeleteCanceled
    <3>4. CASE PresentToken(q)
      <4>1. CASE req[q].model.rt = NoToken /\ Rollback({q}, "rejected")
        <5>1. r = q /\ InTransaction(q)
          BY <3>4, <4>1, <1>1, RollbackAnswers DEF PresentToken, InTransaction
        <5>2. req[q].model = rows[req[q].row] /\ Present(req[q].row)
          BY <3>4, <5>1, <1>1 DEF PresentToken, IInv, ReadInv, ReadOK, Owned
        <5> QED BY <4>1, <5>1, <5>2 DEF Dead
      <4>2. CASE Rollback({q}, "error")
        BY <4>2, <1>1, RollbackAnswers
      <4>3. CASE req' = [req EXCEPT ![q].pc = "waiting", ![q].sent = req[q].model.rt]
        BY <4>3, <1>1 DEF IInv, TypeOK, Request
      <4> QED BY <3>4, <4>1, <4>2, <4>3 DEF PresentToken
    <3>5. CASE CheckReply(q)
      <4>1. CASE req[q].reply.kind = "rejected" /\ Rollback({q}, "rejected")
        <5>1. r = q /\ req[q].pc = "checking"
          BY <3>5, <4>1, <1>1, RollbackAnswers DEF CheckReply
        <5>2. req[q].sent = rows[req[q].row].rt
          BY <5>1, <1>1, SentIsStored
        <5>3. Present(req[q].row)
          BY <5>1, <1>1 DEF IInv, ReadInv, ReadOK, InTransaction, Owned
        <5> QED BY <4>1, <5>1, <5>2, <5>3, <1>1 DEF IInv, RejectedInv, RejectedOK
      <4>2. CASE Rollback({q}, "error")
        BY <4>2, <1>1, RollbackAnswers
      <4>3. CASE \E m : req' = [req EXCEPT ![q].pc = "saving", ![q].model = m]
        BY <4>3, <1>1 DEF IInv, TypeOK, Request
      <4> QED BY <3>5, <4>1, <4>2, <4>3 DEF CheckReply
    <3> QED BY <2>6, <3>1, <3>2, <3>3, <3>4, <3>5 DEF RefreshStep
  <2> QED BY <1>1, <2>1, <2>2, <2>3, <2>4, <2>5, <2>6 DEF Next
<1>2. IInv /\ [Next]_vars => [\A r \in Requests : Ends(r) => Just(r)]_vars
  BY <1>1
<1> QED BY <1>2, Invariance, PTL DEF Spec, RejectionIsJust

-----------------------------------------------------------------------------
(* Exchanges and losses.                                                   *)

\* A rollback takes its requests out of their exchanges and leaves the others
\* where they are.
LEMMA RollbackExchanges ==
  ASSUME IInv, NEW rs \in SUBSET Requests, NEW a, Rollback(rs, a)
  PROVE  /\ \A q \in Requests : Rotated(q)' <=> Rotated(q) /\ q \notin rs
         /\ \A q \in Requests : q \notin rs => req'[q] = req[q]
<1>1. \A q \in Requests : req'[q] = IF q \in rs THEN [IdleRequest EXCEPT !.answer = a] ELSE req[q]
  BY DEF Rollback
<1>2. [IdleRequest EXCEPT !.answer = a].pc = "idle"
  BY DEF IdleRequest
<1> QED BY <1>1, <1>2 DEF Rotated

\* Two exchanges present different tokens, and no exchange presents another's
\* successor: rows store different tokens and each row has one lock.
LEMMA ExchangesApart ==
  ASSUME IInv, NEW r \in Requests, NEW q \in Requests, Rotated(r), Rotated(q)
  PROVE  /\ req[r].sent \in Tokens /\ req[r].reply.rt \in Tokens
         /\ status[req[r].sent] = "spent"
         /\ status[req[r].reply.rt] \in {"live", "revoked"}
         /\ req[r].sent = req[q].sent => r = q
         /\ req[r].reply.rt = req[q].reply.rt => r = q
         /\ req[r].sent # req[q].reply.rt
<1>1. req[r].pc \in {"waiting", "checking", "saving"} /\ req[q].pc \in {"waiting", "checking", "saving"}
  BY DEF Rotated
<1>2. /\ req[r].row \in RowIds /\ lock[req[r].row] = r /\ rows[req[r].row] \in OAuthInfo
      /\ req[r].sent = rows[req[r].row].rt /\ req[r].sent \in Tokens
      /\ req[q].row \in RowIds /\ lock[req[q].row] = q /\ rows[req[q].row] \in OAuthInfo
      /\ req[q].sent = rows[req[q].row].rt /\ req[q].sent \in Tokens
  BY <1>1, SentIsStored
<1>3. Present(req[r].row) /\ Present(req[q].row)
  BY <1>2, RowAssumption DEF Present
<1>4. req[r].sent = req[q].sent => req[r].row = req[q].row
  <2>1. req[r].sent # NoToken
    BY <1>2, RefreshAssumptions DEF Tokens, NoToken
  <2> QED BY <1>2, <1>3, <2>1 DEF IInv, TokenInv
<1>5. /\ status[req[r].sent] = "spent"
      /\ status[req[r].reply.rt] \in {"live", "revoked"}
      /\ status[req[q].reply.rt] \in {"live", "revoked"}
      /\ r # q => req[q].reply.rt # req[r].reply.rt
  BY DEF IInv, RotatedInv, RotatedOK
<1>6. req[r].reply.rt \in Tokens
  BY SuccessorIsIssued
<1> QED BY <1>2, <1>4, <1>5, <1>6

\* Where requests, statuses and losses stand still, so does LostInv.
LEMMA LostSame ==
  ASSUME LostInv, lost' = lost,
         \A t \in lost : status[t] = "spent" => status'[t] = "spent",
         \A q \in Requests : Rotated(q)' => Rotated(q) /\ req'[q].sent = req[q].sent
  PROVE  LostInv'
BY DEF LostInv

\* A rollback adds the tokens of its exchanges to lost; the others present
\* different tokens.
LEMMA RollbackLost ==
  ASSUME IInv, LostInv, NEW rs \in SUBSET Requests, NEW a, Rollback(rs, a)
  PROVE  LostInv'
<1>1. status' = status /\ lost' = lost \cup {req[r].sent : r \in {q \in rs : Rotated(q)}}
  BY DEF Rollback
<1>2. ASSUME NEW t \in lost' PROVE status'[t] = "spent"
  BY <1>1, ExchangesApart DEF LostInv
<1>3. ASSUME NEW q \in Requests, Rotated(q)' PROVE req'[q].sent \notin lost'
  <2>1. Rotated(q) /\ q \notin rs /\ req'[q] = req[q]
    BY <1>3, RollbackExchanges
  <2>2. \A r \in rs : Rotated(r) => req[r].sent # req[q].sent
    BY <2>1, ExchangesApart
  <2> QED BY <1>1, <2>1, <2>2 DEF LostInv
<1> QED BY <1>2, <1>3 DEF LostInv

\* A request that has been answered is checked; the others stand still.
LEMMA AnswerForms ==
  ASSUME IInv, NEW r \in Requests, ProviderAnswers(r)
  PROVE  /\ req[r].pc = "waiting" /\ req[r].sent \in Tokens
         /\ req'[r].pc = "checking" /\ req'[r].sent = req[r].sent
         /\ \A q \in Requests : q # r => req'[q] = req[q]
         /\ UNCHANGED <<rows, lost>>
         /\ \/ req'[r].reply.rt = NoToken /\ status' = status
            \/ /\ status[req[r].sent] = "live" /\ req'[r].reply.rt = issued + 1
               /\ Issue([status EXCEPT ![req[r].sent] = "spent"])
<1>1. req[r].pc = "waiting" /\ UNCHANGED <<rows, lost>>
  BY DEF ProviderAnswers
<1>2. req[r].sent \in Tokens
  BY <1>1, SentIsStored
<1>3. ASSUME NEW k, NEW rt, NEW idt,
             req' = [req EXCEPT ![r].pc = "checking",
                                ![r].reply = [kind |-> k, rt |-> rt, idt |-> idt]]
      PROVE  /\ req'[r].pc = "checking" /\ req'[r].sent = req[r].sent /\ req'[r].reply.rt = rt
             /\ \A q \in Requests : q # r => req'[q] = req[q]
  BY <1>3 DEF IInv, TypeOK, Request
<1>4. CASE /\ status[req[r].sent] = "live"
           /\ Issue([status EXCEPT ![req[r].sent] = "spent"])
           /\ \E idt : req' = [req EXCEPT ![r].pc = "checking",
                                ![r].reply = [kind |-> "ok", rt |-> issued + 1, idt |-> idt]]
  <2>1. PICK idt : req' = [req EXCEPT ![r].pc = "checking",
                                ![r].reply = [kind |-> "ok", rt |-> issued + 1, idt |-> idt]]
    BY <1>4
  <2>2. /\ req'[r].pc = "checking" /\ req'[r].sent = req[r].sent
        /\ req'[r].reply.rt = issued + 1
        /\ \A q \in Requests : q # r => req'[q] = req[q]
    BY <2>1, <1>3
  <2> QED BY <1>1, <1>2, <1>4, <2>2
<1>5. CASE /\ status' = status
           /\ \E k, idt : req' = [req EXCEPT ![r].pc = "checking",
                                ![r].reply = [kind |-> k, rt |-> NoToken, idt |-> idt]]
  <2>1. PICK k, idt : req' = [req EXCEPT ![r].pc = "checking",
                                ![r].reply = [kind |-> k, rt |-> NoToken, idt |-> idt]]
    BY <1>5
  <2>2. /\ req'[r].pc = "checking" /\ req'[r].sent = req[r].sent
        /\ req'[r].reply.rt = NoToken
        /\ \A q \in Requests : q # r => req'[q] = req[q]
    BY <2>1, <1>3
  <2> QED BY <1>1, <1>2, <1>5, <2>2
<1> QED BY <1>4, <1>5 DEF ProviderAnswers

\* A token still unissued is nobody's.
LEMMA NextTokenIsNew ==
  ASSUME IInv, LostInv, issued < MaxToken
  PROVE  /\ issued + 1 \in Tokens /\ status[issued + 1] = "unissued"
         /\ ~Exchanging(issued + 1) /\ ~Unstored(issued + 1)
         /\ issued + 1 \notin lost
<1>1. issued + 1 \in Tokens /\ status[issued + 1] = "unissued"
  BY RefreshAssumptions DEF IInv, TypeOK, TokenInv, Tokens
<1> QED BY <1>1, ExchangesApart DEF Exchanging, Unstored, LostInv

\* No step breaks LostInv.
LEMMA LostPreserved ==
  ASSUME IInv, LostInv, [Next]_vars
  PROVE  LostInv'
<1>1. CASE UNCHANGED vars
  BY <1>1, LostSame DEF vars, Rotated
<1>2. ASSUME NEW u \in Users, NEW a \in Accounts, SaveToken(u, a) PROVE LostInv'
  <2>1. UNCHANGED <<req, lost>> /\ (status' = status \/ Issue(status))
    BY <1>2 DEF SaveToken
  <2>2. \A t \in lost : status'[t] = status[t]
    BY <2>1, NextTokenIsNew DEF Issue, IInv, TypeOK
  <2> QED BY <2>1, <2>2, LostSame DEF Rotated
<1>3. ASSUME NEW r \in Requests, NEW u \in Users, NEW id \in RowIds,
             StartRefresh(r, u, id) \/ StartDelete(r, u, id)
      PROVE  LostInv'
  <2>1. UNCHANGED <<status, lost>>
    BY <1>3 DEF StartRefresh, StartDelete
  <2>2. /\ \A q \in Requests : q # r => req'[q] = req[q]
        /\ req'[r].pc \in {"locking", "deleting"}
    BY <1>3 DEF StartRefresh, StartDelete, IInv, TypeOK, IdleRequest
  <2> QED BY <2>1, <2>2, LostSame DEF Rotated
<1>4. ASSUME NEW r \in Requests, ProviderAnswers(r) PROVE LostInv'
  <2>1. lost' = lost
    BY <1>4, AnswerForms
  <2>2. CASE req'[r].reply.rt = NoToken /\ status' = status
    BY <1>4, <2>1, <2>2, AnswerForms, LostSame DEF Rotated
  <2>3. CASE /\ status[req[r].sent] = "live"
             /\ Issue([status EXCEPT ![req[r].sent] = "spent"])
    <3>1. \A t \in lost : t # req[r].sent /\ t # issued + 1
      BY <2>3, NextTokenIsNew DEF LostInv, Issue
    <3>2. \A t \in lost : status'[t] = "spent"
      BY <2>3, <3>1 DEF LostInv, Issue, IInv, TypeOK
    <3>3. ASSUME NEW q \in Requests, Rotated(q)' PROVE req'[q].sent \notin lost
      BY <1>4, <3>1, <3>3, AnswerForms DEF LostInv, Rotated
    <3> QED BY <2>1, <3>2, <3>3 DEF LostInv
  <2> QED BY <1>4, <2>2, <2>3, AnswerForms
<1>5. ASSUME NEW r \in Requests, RefreshStep(r) PROVE LostInv'
  <2>1. CASE GetOwnedTokenForUpdate(r)
    <3>1. /\ UNCHANGED <<status, lost>> /\ req'[r].pc = "calling"
          /\ \A q \in Requests : q # r => req'[q] = req[q]
      BY <2>1 DEF GetOwnedTokenForUpdate, IInv, TypeOK, Request
    <3> QED BY <3>1, LostSame DEF Rotated
  <2>2. CASE UpdateToken(r) \/ DeleteUserOauth(r)
    <3>1. /\ UNCHANGED <<status, lost>> /\ req'[r].pc = "idle"
          /\ \A q \in Requests : q # r => req'[q] = req[q]
      BY <2>2 DEF UpdateToken, DeleteUserOauth, IInv, TypeOK, IdleRequest
    <3> QED BY <3>1, LostSame DEF Rotated
  <2>3. CASE OAuthNotFound(r) \/ UpdateFails(r) \/ RefreshExpires(r) \/ DeleteCanceled(r)
    BY <2>3, RollbackLost DEF OAuthNotFound, UpdateFails, RefreshExpires, DeleteCanceled
  <2>4. CASE PresentToken(r)
    <3>1. CASE /\ req' = [req EXCEPT ![r].pc = "waiting", ![r].sent = req[r].model.rt]
               /\ UNCHANGED <<status, lost>>
      <4>1. req'[r].pc = "waiting" /\ \A q \in Requests : q # r => req'[q] = req[q]
        BY <3>1 DEF IInv, TypeOK, Request
      <4> QED BY <3>1, <4>1, LostSame DEF Rotated
    <3> QED BY <2>4, <3>1, RollbackLost DEF PresentToken
  <2>5. CASE CheckReply(r)
    <3>1. CASE /\ req' = [req EXCEPT ![r].pc = "saving", ![r].model = Refreshed(req[r].model, req[r].reply)]
               /\ req[r].pc = "checking" /\ UNCHANGED <<status, lost>>
      <4>1. /\ req'[r].pc = "saving" /\ req'[r].sent = req[r].sent /\ req'[r].reply = req[r].reply
            /\ \A q \in Requests : q # r => req'[q] = req[q]
        BY <3>1 DEF IInv, TypeOK, Request
      <4> QED BY <3>1, <4>1, LostSame DEF Rotated
    <3> QED BY <2>5, <3>1, RollbackLost DEF CheckReply
  <2> QED BY <1>5, <2>1, <2>2, <2>3, <2>4, <2>5 DEF RefreshStep
<1>6. ASSUME NEW t \in Tokens, OrphanArrives(t) PROVE LostInv'
  <2>1. req' = req
    BY <1>6 DEF OrphanArrives
  <2>2. CASE UNCHANGED <<status, lost>>
    BY <2>1, <2>2, LostSame DEF Rotated
  <2>3. CASE /\ status[t] = "live" /\ Issue([status EXCEPT ![t] = "spent"])
             /\ lost' = lost \cup {t}
    <3>1. \A x \in lost : x # issued + 1
      BY <2>3, NextTokenIsNew DEF Issue
    <3>2. t # issued + 1
      BY <2>3, NextTokenIsNew DEF Issue
    <3>3. \A x \in lost' : status'[x] = "spent"
      BY <2>3, <3>1, <3>2 DEF LostInv, Issue, IInv, TypeOK
    <3>4. \A q \in Requests : Rotated(q) => req[q].sent # t
      BY <2>3, ExchangesApart
    <3> QED BY <2>1, <2>3, <3>3, <3>4 DEF LostInv, Rotated
  <2> QED BY <1>6, <2>2, <2>3 DEF OrphanArrives
<1>7. ASSUME NEW t \in Tokens, ProviderRevokes(t) PROVE LostInv'
  <2>1. UNCHANGED <<req, lost>> /\ t \notin lost /\ \A x \in lost : status'[x] = status[x]
    BY <1>7 DEF ProviderRevokes, LostInv, IInv, TypeOK
  <2> QED BY <2>1, LostSame DEF Rotated
<1>8. ASSUME NEW i \in Instances, Crash(i) PROVE LostInv'
  BY <1>8, RollbackLost DEF Crash
<1> QED BY <1>1, <1>2, <1>3, <1>4, <1>5, <1>6, <1>7, <1>8 DEF Next

-----------------------------------------------------------------------------
(* Refinement: what the table and the provider show is a vault.            *)

\* The vault's view of a token: an exchange that is not stored has not
\* happened.
Seen(t) == IF Exchanging(t) THEN "live" ELSE IF Unstored(t) THEN "unissued" ELSE status[t]

\* VaultStatus is Seen, token by token.
LEMMA VaultStatusIsSeen ==
  ASSUME status \in [Tokens -> {"unissued", "live", "spent", "revoked"}]
  PROVE  VaultStatus = [t \in Tokens |-> Seen(t)]
<1>1. CASE \A r \in Requests : ~Rotated(r)
  <2>1. \A t \in Tokens : Seen(t) = status[t]
    BY <1>1 DEF Seen, Exchanging, Unstored
  <2>2. VaultStatus = status
    BY <1>1 DEF VaultStatus
  <2> QED BY <2>1, <2>2
<1>2. CASE ~\A r \in Requests : ~Rotated(r)
  BY <1>2 DEF VaultStatus, Seen
<1> QED BY <1>1, <1>2

\* The same after a step.
LEMMA VaultStatusIsSeenNext ==
  ASSUME status' \in [Tokens -> {"unissued", "live", "spent", "revoked"}]
  PROVE  VaultStatus' = [t \in Tokens |-> Seen(t)']
<1>1. CASE \A r \in Requests : ~Rotated(r)'
  <2>1. \A t \in Tokens : Seen(t)' = status'[t]
    BY <1>1 DEF Seen, Exchanging, Unstored
  <2>2. VaultStatus' = status'
    BY <1>1 DEF VaultStatus
  <2> QED BY <2>1, <2>2
<1>2. CASE ~\A r \in Requests : ~Rotated(r)'
  BY <1>2 DEF VaultStatus, Seen
<1> QED BY <1>1, <1>2

\* A step that leaves exchanges and statuses alone leaves the view alone.
LEMMA SeenSame ==
  ASSUME status' = status,
         \A q \in Requests : Rotated(q)' <=> Rotated(q),
         \A q \in Requests : Rotated(q) => req'[q].sent = req[q].sent
                                           /\ req'[q].reply = req[q].reply
  PROVE  VaultStatus' = VaultStatus
<1>1. \A t : /\ Exchanging(t)' <=> Exchanging(t)
             /\ Unstored(t)' <=> Unstored(t)
  BY DEF Exchanging, Unstored
<1>2. (\A r \in Requests : ~Rotated(r)') <=> (\A r \in Requests : ~Rotated(r))
  OBVIOUS
<1> QED BY <1>1, <1>2 DEF VaultStatus

\* When nothing is rolled back, exchanged, stored or removed, the vault stands
\* still.
LEMMA QuietStutters ==
  ASSUME status' = status, rows' = rows, lost' = lost,
         \A q \in Requests : Rotated(q)' <=> Rotated(q),
         \A q \in Requests : Rotated(q) => req'[q].sent = req[q].sent
                                           /\ req'[q].reply = req[q].reply
  PROVE  [Vault!Next]_(Vault!vars)
BY SeenSame DEF Vault!vars

\* Of a token under exchange, of its successor and of every other token, the
\* vault sees this.
LEMMA SeenCases ==
  ASSUME IInv, NEW r \in Requests, Rotated(r)
  PROVE  /\ req[r].sent \in Tokens /\ Exchanging(req[r].sent) /\ ~Unstored(req[r].sent)
         /\ Seen(req[r].sent) = "live"
         /\ req[r].reply.rt \in Tokens /\ Unstored(req[r].reply.rt)
         /\ ~Exchanging(req[r].reply.rt)
         /\ Seen(req[r].reply.rt) = "unissued"
BY ExchangesApart DEF Seen, Exchanging, Unstored

\* A rollback wastes the tokens its requests had exchanged.
LEMMA RollbackWastes ==
  ASSUME IInv, LostInv, NEW rs \in SUBSET Requests, NEW a, Rollback(rs, a)
  PROVE  [Vault!Next]_(Vault!vars)
<1> DEFINE done == {q \in rs : Rotated(q)}
           olds == {req[q].sent : q \in done}
           news == {req[q].reply.rt : q \in done}
<1>1. /\ rows' = rows /\ status' = status /\ lost' = lost \cup olds
      /\ \A q \in Requests : Rotated(q)' <=> Rotated(q) /\ q \notin rs
      /\ \A q \in Requests : q \notin rs => req'[q] = req[q]
  BY RollbackExchanges DEF Rollback
<1>2. CASE done = {}
  <2>1. lost' = lost
    BY <1>1, <1>2
  <2> QED BY <1>1, <1>2, <2>1, QuietStutters
<1>3. CASE done # {}
  <2>1. olds \in SUBSET Tokens /\ olds # {} /\ olds \cap lost = {}
    BY <1>3, ExchangesApart DEF LostInv
  <2>2. news \in SUBSET Tokens /\ \A t \in news : Seen(t) = "unissued" /\ status[t] \in {"live", "revoked"}
    BY SeenCases, ExchangesApart
  <2>3. ASSUME NEW t \in olds
        PROVE  /\ Seen(t) = "live" /\ t \notin news
               /\ ~Exchanging(t)' /\ ~Unstored(t)' /\ status[t] = "spent"
    <3>1. PICK r \in done : t = req[r].sent
      OBVIOUS
    <3>2. Rotated(r) /\ r \in rs
      OBVIOUS
    <3>3. Seen(t) = "live" /\ status[t] = "spent"
      BY <3>1, <3>2, SeenCases, ExchangesApart
    <3>4. \A q \in Requests : Rotated(q) => req[q].reply.rt # t /\ (req[q].sent = t => q = r)
      BY <3>1, <3>2, ExchangesApart
    <3>5. ~Exchanging(t)' /\ ~Unstored(t)'
      BY <1>1, <3>2, <3>4 DEF Exchanging, Unstored
    <3> QED BY <3>3, <3>4, <3>5
  <2>4. ASSUME NEW t \in news
        PROVE  ~Exchanging(t)' /\ ~Unstored(t)'
    <3>1. PICK r \in done : t = req[r].reply.rt
      OBVIOUS
    <3>2. Rotated(r) /\ r \in rs
      OBVIOUS
    <3>4. \A q \in Requests : Rotated(q) => req[q].sent # t /\ (req[q].reply.rt = t => q = r)
      BY <3>1, <3>2, ExchangesApart
    <3> QED BY <1>1, <3>2, <3>4 DEF Exchanging, Unstored
  <2>5. ASSUME NEW t \in Tokens, t \notin olds, t \notin news
        PROVE  (Exchanging(t)' <=> Exchanging(t)) /\ (Unstored(t)' <=> Unstored(t))
    <3>1. \A q \in Requests : Rotated(q) /\ q \in rs => req[q].sent # t /\ req[q].reply.rt # t
      BY <2>5
    <3> QED BY <1>1, <3>1 DEF Exchanging, Unstored
  <2> DEFINE s == [t \in news |-> status[t]]
  <2>6. s \in [news -> {"live", "revoked"}]
    BY <2>2
  <2>7. VaultStatus = [t \in Tokens |-> Seen(t)] /\ VaultStatus' = [t \in Tokens |-> Seen(t)']
    BY <1>1, VaultStatusIsSeen, VaultStatusIsSeenNext DEF IInv, TypeOK
  <2>8. news \in SUBSET {t \in Tokens : VaultStatus[t] = "unissued"}
    BY <2>2, <2>7
  <2>9. \A t \in olds : VaultStatus[t] = "live"
    BY <2>1, <2>3, <2>7
  <2>10. ASSUME NEW t \in Tokens
         PROVE  VaultStatus'[t] = IF t \in olds THEN "spent"
                                  ELSE IF t \in news THEN s[t] ELSE VaultStatus[t]
    <3>1. CASE t \in olds
      BY <1>1, <2>3, <2>7, <3>1 DEF Seen
    <3>2. CASE t \notin olds /\ t \in news
      BY <1>1, <2>4, <2>7, <3>2 DEF Seen
    <3>3. CASE t \notin olds /\ t \notin news
      BY <1>1, <2>5, <2>7, <3>3 DEF Seen
    <3> QED BY <3>1, <3>2, <3>3
  <2>11. VaultStatus' = [t \in Tokens |-> IF t \in olds THEN "spent"
                                  ELSE IF t \in news THEN s[t] ELSE VaultStatus[t]]
    BY <2>7, <2>10
  <2> HIDE DEF olds, news, s, done
  <2>12. Vault!Waste(olds)
    BY <1>1, <2>1, <2>6, <2>8, <2>9, <2>11 DEF Vault!Waste
  <2> QED BY <2>1, <2>12 DEF Vault!Next
<1> QED BY <1>2, <1>3

\* The provider's answer is not seen: the exchange happens at the commit.
LEMMA AnswerStutters ==
  ASSUME IInv, LostInv, NEW r \in Requests, ProviderAnswers(r)
  PROVE  [Vault!Next]_(Vault!vars)
<1> DEFINE old == req[r].sent
           new == issued + 1
<1>1. /\ req[r].pc = "waiting" /\ old \in Tokens /\ req'[r].pc = "checking" /\ req'[r].sent = old
      /\ \A q \in Requests : q # r => req'[q] = req[q]
      /\ rows' = rows /\ lost' = lost
  BY AnswerForms
<1>2. CASE req'[r].reply.rt = NoToken /\ status' = status
  BY <1>1, <1>2, QuietStutters DEF Rotated
<1>3. CASE /\ status[old] = "live" /\ req'[r].reply.rt = new
           /\ Issue([status EXCEPT ![old] = "spent"])
  <2>1. /\ new \in Tokens /\ status[new] = "unissued"
        /\ ~Exchanging(new) /\ ~Unstored(new)
    BY <1>3, NextTokenIsNew DEF Issue
  <2>2. status' = [status EXCEPT ![old] = "spent", ![new] = "live"]
    BY <1>3 DEF Issue
  <2>3. new # NoToken
    BY <2>1, RefreshAssumptions DEF Tokens, NoToken
  <2>4. ~Rotated(r) /\ Rotated(r)' /\ \A q \in Requests : q # r => (Rotated(q)' <=> Rotated(q))
    BY <1>1, <1>3, <2>3 DEF Rotated
  <2>5. ~Exchanging(old)
    BY <1>3, ExchangesApart DEF Exchanging
  <2>6. ~Unstored(old)
    <3>1. req[r].row \in RowIds /\ rows[req[r].row] \in OAuthInfo /\ old = rows[req[r].row].rt
      BY <1>1, SentIsStored
    <3>2. Present(req[r].row)
      BY <3>1, RowAssumption DEF Present
    <3> QED BY <3>1, <3>2 DEF Unstored, IInv, RotatedInv, RotatedOK
  <2>7. \A t \in Tokens : /\ Exchanging(t)' <=> Exchanging(t) \/ t = old
                          /\ Unstored(t)' <=> Unstored(t) \/ t = new
    BY <1>1, <1>3, <2>4 DEF Exchanging, Unstored
  <2>8. ASSUME NEW t \in Tokens PROVE Seen(t)' = Seen(t)
    <3>1. CASE t = old
      BY <1>3, <2>5, <2>6, <2>7, <3>1 DEF Seen
    <3>2. CASE t = new
      BY <1>3, <2>1, <2>7, <3>2 DEF Seen
    <3>3. CASE t # old /\ t # new
      <4>1. status'[t] = status[t]
        BY <2>2, <3>3 DEF IInv, TypeOK
      <4> QED BY <2>7, <3>3, <4>1 DEF Seen
    <3> QED BY <3>1, <3>2, <3>3
  <2>9. status' \in [Tokens -> {"unissued", "live", "spent", "revoked"}]
    BY <2>2 DEF IInv, TypeOK
  <2>10. VaultStatus' = VaultStatus
    BY <2>8, <2>9, VaultStatusIsSeen, VaultStatusIsSeenNext DEF IInv, TypeOK
  <2> QED BY <1>1, <2>10 DEF Vault!vars
<1> QED BY <1>2, <1>3, AnswerForms

\* A step that changes the status of tokens no exchange knows, and leaves the
\* exchanges alone, is seen as it is.
LEMMA SeenFollows ==
  ASSUME IInv, status' \in [Tokens -> {"unissued", "live", "spent", "revoked"}], req' = req,
         \A t \in Tokens : status'[t] # status[t] => ~Exchanging(t) /\ ~Unstored(t)
  PROVE  /\ \A t \in Tokens : VaultStatus'[t] = IF status'[t] # status[t] THEN status'[t] ELSE VaultStatus[t]
         /\ \A t \in Tokens : ~Exchanging(t) /\ ~Unstored(t) => VaultStatus[t] = status[t]
         /\ VaultStatus' = [t \in Tokens |-> VaultStatus'[t]]
         /\ VaultStatus = [t \in Tokens |-> VaultStatus[t]]
<1>1. VaultStatus = [t \in Tokens |-> Seen(t)] /\ VaultStatus' = [t \in Tokens |-> Seen(t)']
  BY VaultStatusIsSeen, VaultStatusIsSeenNext DEF IInv, TypeOK
<1>2. \A t \in Tokens : (Exchanging(t)' <=> Exchanging(t)) /\ (Unstored(t)' <=> Unstored(t))
  BY DEF Exchanging, Unstored, Rotated
<1>3. ASSUME NEW t \in Tokens
      PROVE  Seen(t)' = IF status'[t] # status[t] THEN status'[t] ELSE Seen(t)
  BY <1>2 DEF Seen
<1>4. ASSUME NEW t \in Tokens, ~Exchanging(t), ~Unstored(t) PROVE Seen(t) = status[t]
  BY <1>4 DEF Seen
<1> QED BY <1>1, <1>3, <1>4

\* A call that arrives late wastes the token it carries.
LEMMA OrphanWastes ==
  ASSUME IInv, LostInv, NEW t \in Tokens, OrphanArrives(t)
  PROVE  [Vault!Next]_(Vault!vars)
<1>1. rows' = rows /\ req' = req /\ t \in orphans
  BY DEF OrphanArrives
<1>2. CASE UNCHANGED <<status, lost>>
  BY <1>1, <1>2, QuietStutters DEF Rotated
<1>3. CASE status[t] = "live" /\ Issue([status EXCEPT ![t] = "spent"]) /\ lost' = lost \cup {t}
  <2> DEFINE new == issued + 1
             olds == {t}
             news == {new}
             s == [x \in news |-> "live"]
  <2>1. /\ new \in Tokens /\ status[new] = "unissued"
        /\ ~Exchanging(new) /\ ~Unstored(new) /\ new # t
    BY <1>3, NextTokenIsNew DEF Issue
  <2>2. status' = [status EXCEPT ![t] = "spent", ![new] = "live"]
    BY <1>3 DEF Issue
  <2>3. ~Exchanging(t) /\ ~Unstored(t) /\ t \notin lost
    <3>1. ~Exchanging(t)
      BY <1>3, ExchangesApart DEF Exchanging
    <3>2. ~Unstored(t)
      BY <1>1 DEF Unstored, IInv, RotatedInv, RotatedOK
    <3> QED BY <1>3, <3>1, <3>2 DEF LostInv
  <2>4. /\ status' \in [Tokens -> {"unissued", "live", "spent", "revoked"}]
        /\ \A x \in Tokens : status'[x] = IF x = t THEN "spent" ELSE IF x = new THEN "live" ELSE status[x]
    BY <2>1, <2>2 DEF IInv, TypeOK
  <2>5. \A x \in Tokens : status'[x] # status[x] => ~Exchanging(x) /\ ~Unstored(x)
    BY <2>1, <2>3, <2>4
  <2>6. /\ \A x \in Tokens : VaultStatus'[x] = IF status'[x] # status[x] THEN status'[x] ELSE VaultStatus[x]
        /\ \A x \in Tokens : ~Exchanging(x) /\ ~Unstored(x) => VaultStatus[x] = status[x]
        /\ VaultStatus' = [x \in Tokens |-> VaultStatus'[x]]
    BY <1>1, <2>4, <2>5, SeenFollows
  <2>7. VaultStatus[t] = "live" /\ VaultStatus[new] = "unissued"
    BY <1>3, <2>1, <2>3, <2>6
  <2>8. ASSUME NEW x \in Tokens
        PROVE  VaultStatus'[x] = IF x \in olds THEN "spent" ELSE IF x \in news THEN s[x] ELSE VaultStatus[x]
    BY <1>3, <2>1, <2>4, <2>6
  <2>9. VaultStatus' = [x \in Tokens |-> IF x \in olds THEN "spent"
                                         ELSE IF x \in news THEN s[x] ELSE VaultStatus[x]]
    BY <2>6, <2>8
  <2>10. /\ s \in [news -> {"live", "revoked"}]
         /\ news \in SUBSET {x \in Tokens : VaultStatus[x] = "unissued"}
         /\ olds \in SUBSET Tokens /\ olds # {} /\ olds \cap lost = {}
         /\ \A x \in olds : VaultStatus[x] = "live"
         /\ lost' = lost \cup olds
    BY <1>3, <2>1, <2>3, <2>7
  <2> HIDE DEF olds, news, s, new
  <2>11. Vault!Waste(olds)
    BY <1>1, <2>9, <2>10 DEF Vault!Waste
  <2> QED BY <2>10, <2>11 DEF Vault!Next
<1> QED BY <1>2, <1>3 DEF OrphanArrives

\* A revocation is seen unless it hits a successor that is not stored yet.
LEMMA RevokeRevokes ==
  ASSUME IInv, LostInv, NEW t \in Tokens, ProviderRevokes(t)
  PROVE  [Vault!Next]_(Vault!vars)
<1>1. /\ UNCHANGED <<rows, req, lost>> /\ status[t] = "live"
      /\ status' = [status EXCEPT ![t] = "revoked"]
  BY DEF ProviderRevokes
<1>2. ~Exchanging(t)
  BY <1>1, ExchangesApart DEF Exchanging
<1>3. /\ status' \in [Tokens -> {"unissued", "live", "spent", "revoked"}]
      /\ \A x \in Tokens : status'[x] = IF x = t THEN "revoked" ELSE status[x]
  BY <1>1 DEF IInv, TypeOK
<1>4. CASE Unstored(t)
  <2>1. \A x \in Tokens : (Exchanging(x)' <=> Exchanging(x)) /\ (Unstored(x)' <=> Unstored(x))
    BY <1>1 DEF Exchanging, Unstored, Rotated
  <2>2. \A x \in Tokens : Seen(x)' = Seen(x)
    BY <1>3, <1>4, <2>1 DEF Seen
  <2>3. VaultStatus' = VaultStatus
    BY <1>3, <2>2, VaultStatusIsSeen, VaultStatusIsSeenNext DEF IInv, TypeOK
  <2> QED BY <1>1, <2>3 DEF Vault!vars
<1>5. CASE ~Unstored(t)
  <2>1. \A x \in Tokens : status'[x] # status[x] => ~Exchanging(x) /\ ~Unstored(x)
    BY <1>2, <1>3, <1>5
  <2>2. /\ \A x \in Tokens : VaultStatus'[x] = IF status'[x] # status[x] THEN status'[x] ELSE VaultStatus[x]
        /\ VaultStatus[t] = "live"
        /\ VaultStatus' = [x \in Tokens |-> VaultStatus'[x]]
        /\ VaultStatus = [x \in Tokens |-> VaultStatus[x]]
    BY <1>1, <1>2, <1>3, <1>5, <2>1, SeenFollows
  <2>3. VaultStatus' = [VaultStatus EXCEPT ![t] = "revoked"]
    BY <1>1, <1>3, <2>2
  <2>4. Vault!Revoke(t)
    BY <1>1, <2>2, <2>3 DEF Vault!Revoke
  <2> QED BY <2>4 DEF Vault!Next
<1> QED BY <1>4, <1>5

\* A granted login stores its credential, or issues a token the table refuses.
LEMMA SaveStores ==
  ASSUME IInv, LostInv, NEW u \in Users, NEW a \in Accounts, SaveToken(u, a)
  PROVE  [Vault!Next]_(Vault!vars)
<1>1. UNCHANGED <<req, lost>>
  BY DEF SaveToken
<1>2. PICK rt \in {issued + 1, NoToken} :
        /\ IF rt = NoToken THEN UNCHANGED <<status, issued>> ELSE Issue(status)
        /\ \/ /\ \A id \in RowIds : ~(Owned(id, u) /\ rows[id].account = a)
              /\ nextRow \in RowIds
              /\ rows' = [rows EXCEPT ![nextRow] =
                            [owner |-> u, account |-> a, rt |-> rt, idt |-> a]]
           \/ UNCHANGED rows
  BY DEF SaveToken
<1> DEFINE c == [owner |-> u, account |-> a, rt |-> rt, idt |-> a]
<1>3. \/ rt = NoToken /\ VaultStatus' = VaultStatus
      \/ /\ rt \in Tokens /\ VaultStatus[rt] = "unissued"
         /\ VaultStatus' = [VaultStatus EXCEPT ![rt] = "live"]
  <2>1. CASE rt = NoToken
    <3>1. status' = status
      BY <1>2, <2>1
    <3> QED BY <1>1, <2>1, <3>1, SeenSame DEF Rotated
  <2>2. CASE rt # NoToken
    <3>1. rt = issued + 1 /\ status' = [status EXCEPT ![rt] = "live"]
      BY <1>2, <2>2 DEF Issue
    <3>2. rt \in Tokens /\ status[rt] = "unissued" /\ ~Exchanging(rt) /\ ~Unstored(rt)
      BY <1>2, <2>2, <3>1, NextTokenIsNew DEF Issue
    <3>3. /\ status' \in [Tokens -> {"unissued", "live", "spent", "revoked"}]
          /\ \A x \in Tokens : status'[x] = IF x = rt THEN "live" ELSE status[x]
      BY <3>1, <3>2 DEF IInv, TypeOK
    <3>4. \A x \in Tokens : status'[x] # status[x] => ~Exchanging(x) /\ ~Unstored(x)
      BY <3>2, <3>3
    <3>5. /\ \A x \in Tokens : VaultStatus'[x] = IF status'[x] # status[x] THEN status'[x] ELSE VaultStatus[x]
          /\ VaultStatus[rt] = "unissued"
          /\ VaultStatus' = [x \in Tokens |-> VaultStatus'[x]]
          /\ VaultStatus = [x \in Tokens |-> VaultStatus[x]]
      BY <1>1, <3>2, <3>3, <3>4, SeenFollows
    <3>6. VaultStatus' = [VaultStatus EXCEPT ![rt] = "live"]
      BY <3>2, <3>3, <3>5
    <3> QED BY <3>2, <3>5, <3>6
  <2> QED BY <2>1, <2>2
<1>4. CASE rows' = rows
  <2>1. CASE rt = NoToken /\ VaultStatus' = VaultStatus
    BY <1>1, <1>4, <2>1 DEF Vault!vars
  <2>2. CASE /\ rt \in Tokens /\ VaultStatus[rt] = "unissued"
             /\ VaultStatus' = [VaultStatus EXCEPT ![rt] = "live"]
    <3>1. Vault!IssueElsewhere(rt)
      BY <1>1, <1>4, <2>2 DEF Vault!IssueElsewhere
    <3> QED BY <2>2, <3>1 DEF Vault!Next
  <2> QED BY <1>3, <2>1, <2>2
<1>5. CASE /\ \A id \in RowIds : ~(Owned(id, u) /\ rows[id].account = a)
           /\ nextRow \in RowIds
           /\ rows' = [rows EXCEPT ![nextRow] = c]
  <2>1. rows[nextRow] = NoRow
    BY <1>5 DEF IInv, TypeOK, TokenInv, RowIds
  <2>2. c.idt = c.account /\ c.rt = rt /\ c.owner = u /\ c.account = a
    OBVIOUS
  <2>3. c \in Vault!Credential
    BY <1>3 DEF Vault!Credential
  <2>4. \A other \in RowIds : rows[other] # NoRow =>
          <<rows[other].owner, rows[other].account>> # <<c.owner, c.account>>
    BY <1>5, <2>2 DEF Owned, Present
  <2> HIDE DEF c
  <2>5. \/ c.rt = NoToken /\ VaultStatus' = VaultStatus
        \/ /\ c.rt \in Tokens /\ VaultStatus[c.rt] = "unissued"
           /\ VaultStatus' = [VaultStatus EXCEPT ![c.rt] = "live"]
    BY <1>3, <2>2
  <2>6. Vault!Store(nextRow, c)
    BY <1>1, <1>5, <2>1, <2>2, <2>4, <2>5 DEF Vault!Store
  <2> QED BY <1>5, <2>3, <2>6 DEF Vault!Next
<1> QED BY <1>2, <1>4, <1>5

\* An accepted reply replaces the refresh token at most.
LEMMA RefreshedKeepsIdentity ==
  ASSUME NEW row \in OAuthInfo, NEW reply, row.idt = row.account, IdentityAccepted(row, reply)
  PROVE  Refreshed(row, reply) =
           IF reply.rt # NoToken THEN [row EXCEPT !.rt = reply.rt] ELSE row
<1>1. (IF reply.idt # NoAccount THEN reply.idt ELSE row.idt) = row.idt
  BY DEF IdentityAccepted
<1>2. Refreshed(row, reply) = [row EXCEPT !.rt = IF reply.rt # NoToken THEN reply.rt ELSE row.rt,
                                          !.idt = row.idt]
  BY <1>1 DEF Refreshed, OAuthInfo
<1>3. CASE reply.rt # NoToken
  BY <1>2, <1>3 DEF OAuthInfo
<1>4. CASE reply.rt = NoToken
  BY <1>2, <1>4 DEF OAuthInfo
<1> QED BY <1>3, <1>4

\* The commit of a refresh is the atomic refresh: the row and the provider
\* change at once.  Without a rotation nothing changes.
LEMMA UpdateRefreshes ==
  ASSUME IInv, LostInv, NEW r \in Requests, UpdateToken(r)
  PROVE  [Vault!Next]_(Vault!vars)
<1> DEFINE id == req[r].row
           row == rows[id]
           old == req[r].sent
           new == req[r].reply.rt
<1>1. /\ req[r].pc = "saving" /\ rows' = [rows EXCEPT ![id] = req[r].model]
      /\ UNCHANGED <<status, lost>>
  BY DEF UpdateToken
<1>2. /\ req'[r].pc = "idle" /\ \A q \in Requests : q # r => req'[q] = req[q]
  BY DEF UpdateToken, IInv, TypeOK, IdleRequest
<1>3. /\ id \in RowIds /\ row \in OAuthInfo /\ old = row.rt /\ old \in Tokens
  BY <1>1, SentIsStored
<1>4. Present(id) /\ row.idt = row.account
  BY <1>3, RowAssumption DEF IInv, IdentityPreserved, Present
<1>5. IdentityAccepted(row, req[r].reply) /\ req[r].model = Refreshed(row, req[r].reply)
  BY <1>1 DEF IInv, ReadInv, ReadOK, InTransaction
<1>6. req[r].model = IF new # NoToken THEN [row EXCEPT !.rt = new] ELSE row
  BY <1>3, <1>4, <1>5, RefreshedKeepsIdentity
<1>7. ~Rotated(r)' /\ \A q \in Requests : q # r => (Rotated(q)' <=> Rotated(q))
  BY <1>2 DEF Rotated
<1>8. CASE new = NoToken
  <2>1. rows' = rows
    BY <1>1, <1>3, <1>6, <1>8 DEF IInv, TypeOK
  <2>2. ~Rotated(r)
    BY <1>8 DEF Rotated
  <2> QED BY <1>1, <1>2, <1>7, <2>1, <2>2, QuietStutters
<1>9. CASE new # NoToken
  <2>1. Rotated(r)
    BY <1>1, <1>9 DEF Rotated
  <2>2. rows' = [rows EXCEPT ![id].rt = new]
    BY <1>1, <1>3, <1>6, <1>9 DEF IInv, TypeOK
  <2>3. /\ Exchanging(old) /\ ~Unstored(old) /\ Seen(old) = "live"
        /\ new \in Tokens /\ Unstored(new) /\ ~Exchanging(new) /\ Seen(new) = "unissued"
    BY <2>1, SeenCases
  <2>4. \A q \in Requests : Rotated(q) /\ q # r => /\ req[q].sent # old /\ req[q].sent # new
                                                 /\ req[q].reply.rt # new /\ req[q].reply.rt # old
    BY <2>1, ExchangesApart
  <2>5. \A t \in Tokens : /\ Exchanging(t)' <=> Exchanging(t) /\ t # old
                          /\ Unstored(t)' <=> Unstored(t) /\ t # new
    BY <1>2, <1>7, <2>1, <2>4 DEF Exchanging, Unstored
  <2>6. status[old] = "spent" /\ status[new] \in {"live", "revoked"}
    BY <2>1, ExchangesApart
  <2>7. ASSUME NEW t \in Tokens
        PROVE  Seen(t)' = IF t = new THEN status[new] ELSE IF t = old THEN "spent" ELSE Seen(t)
    BY <1>1, <2>3, <2>5, <2>6 DEF Seen
  <2>8. VaultStatus = [t \in Tokens |-> Seen(t)] /\ VaultStatus' = [t \in Tokens |-> Seen(t)']
    BY <1>1, VaultStatusIsSeen, VaultStatusIsSeenNext DEF IInv, TypeOK
  <2>9. /\ VaultStatus[old] = "live" /\ VaultStatus[new] = "unissued"
        /\ VaultStatus' = [VaultStatus EXCEPT ![old] = "spent", ![new] = status[new]]
    BY <1>3, <2>3, <2>7, <2>8
  <2>10. rows[id].rt = old /\ rows[id] # NoRow
    BY <1>3, <1>4 DEF Present
  <2> HIDE DEF id, old, new
  <2>11. Vault!Refresh(id, new)
    BY <1>1, <1>3, <2>2, <2>6, <2>9, <2>10 DEF Vault!Refresh
  <2> QED BY <1>3, <2>3, <2>11 DEF Vault!Next
<1> QED BY <1>8, <1>9

\* Deleting a row removes it from the vault; the lock it waits for guarantees
\* that no exchange of its token is under way.
LEMMA DeleteRemoves ==
  ASSUME IInv, LostInv, NEW r \in Requests, DeleteUserOauth(r)
  PROVE  [Vault!Next]_(Vault!vars)
<1> DEFINE id == req[r].row
<1>1. /\ req[r].pc = "deleting" /\ Present(id) /\ rows' = [rows EXCEPT ![id] = NoRow]
      /\ UNCHANGED <<status, lost>>
  BY DEF DeleteUserOauth, Owned
<1>2. id \in RowIds
  BY <1>1 DEF IInv, ReadInv, ReadOK
<1>3. /\ req'[r].pc = "idle" /\ \A q \in Requests : q # r => req'[q] = req[q]
  BY DEF DeleteUserOauth, IInv, TypeOK, IdleRequest
<1>4. \A q \in Requests : Rotated(q)' <=> Rotated(q)
  BY <1>1, <1>3 DEF Rotated
<1>5. VaultStatus' = VaultStatus
  <2>1. \A q \in Requests : Rotated(q) => q # r
    BY <1>1 DEF Rotated
  <2> QED BY <1>1, <1>3, <1>4, <2>1, SeenSame
<1>6. Vault!Remove(id)
  BY <1>1, <1>5 DEF Vault!Remove, Present
<1> QED BY <1>2, <1>6 DEF Vault!Next

\* The locked read, the call and an accepted reply change nothing in the vault.
LEMMA RequestStepRefines ==
  ASSUME IInv, LostInv, NEW r \in Requests, RefreshStep(r)
  PROVE  [Vault!Next]_(Vault!vars)
<1>1. CASE GetOwnedTokenForUpdate(r)
  <2>1. /\ UNCHANGED <<rows, status, lost>> /\ req[r].pc = "locking" /\ req'[r].pc = "calling"
        /\ \A q \in Requests : q # r => req'[q] = req[q]
    BY <1>1 DEF GetOwnedTokenForUpdate, IInv, TypeOK, Request
  <2> QED BY <2>1, QuietStutters DEF Rotated
<1>2. CASE UpdateToken(r)
  BY <1>2, UpdateRefreshes
<1>3. CASE DeleteUserOauth(r)
  BY <1>3, DeleteRemoves
<1>4. CASE OAuthNotFound(r) \/ UpdateFails(r) \/ RefreshExpires(r) \/ DeleteCanceled(r)
  BY <1>4, RollbackWastes DEF OAuthNotFound, UpdateFails, RefreshExpires, DeleteCanceled
<1>5. CASE PresentToken(r)
  <2>1. CASE /\ req' = [req EXCEPT ![r].pc = "waiting", ![r].sent = req[r].model.rt]
             /\ UNCHANGED <<rows, status, lost>>
    <3>1. /\ req[r].pc = "calling" /\ req'[r].pc = "waiting"
          /\ \A q \in Requests : q # r => req'[q] = req[q]
      BY <1>5, <2>1 DEF PresentToken, IInv, TypeOK, Request
    <3> QED BY <2>1, <3>1, QuietStutters DEF Rotated
  <2> QED BY <1>5, <2>1, RollbackWastes DEF PresentToken
<1>6. CASE CheckReply(r)
  <2>1. CASE /\ req' = [req EXCEPT ![r].pc = "saving", ![r].model = Refreshed(req[r].model, req[r].reply)]
             /\ UNCHANGED <<rows, status, lost>>
    <3>1. /\ req[r].pc = "checking" /\ req'[r].pc = "saving"
          /\ req'[r].sent = req[r].sent /\ req'[r].reply = req[r].reply
          /\ \A q \in Requests : q # r => req'[q] = req[q]
      BY <1>6, <2>1 DEF CheckReply, IInv, TypeOK, Request
    <3> QED BY <2>1, <3>1, QuietStutters DEF Rotated
  <2> QED BY <1>6, <2>1, RollbackWastes DEF CheckReply
<1> QED BY <1>1, <1>2, <1>3, <1>4, <1>5, <1>6 DEF RefreshStep

\* Every step is a step of the vault or changes nothing in it.
LEMMA StepRefines ==
  ASSUME IInv, LostInv, [Next]_vars
  PROVE  [Vault!Next]_(Vault!vars)
<1>1. CASE UNCHANGED vars
  BY <1>1, QuietStutters DEF vars, Rotated
<1>2. ASSUME NEW r \in Requests, NEW u \in Users, NEW id \in RowIds,
             StartRefresh(r, u, id) \/ StartDelete(r, u, id)
      PROVE  [Vault!Next]_(Vault!vars)
  <2>1. /\ UNCHANGED <<rows, status, lost>>
        /\ req[r].pc = "idle" /\ req'[r].pc \in {"locking", "deleting"}
        /\ \A q \in Requests : q # r => req'[q] = req[q]
    BY <1>2 DEF StartRefresh, StartDelete, IInv, TypeOK, IdleRequest
  <2> QED BY <2>1, QuietStutters DEF Rotated
<1>3. ASSUME NEW i \in Instances, Crash(i) PROVE [Vault!Next]_(Vault!vars)
  BY <1>3, RollbackWastes DEF Crash
<1> QED BY <1>1, <1>2, <1>3, SaveStores, RequestStepRefines, AnswerStutters, OrphanWastes,
          RevokeRevokes DEF Next

\* An empty table and a provider that has issued nothing are an empty vault.
LEMMA InitRefines == Init => Vault!Init
<1>1. ASSUME Init PROVE VaultStatus = status
  <2>1. \A r \in Requests : ~Rotated(r)
    BY <1>1 DEF Init, Rotated, IdleRequest
  <2> QED BY <2>1 DEF VaultStatus
<1> QED BY <1>1 DEF Init, Vault!Init

\* A rollback never wastes what is already lost: the extra invariant the
\* refinement rests on.
THEOREM LossesAreCounted == Spec => []LostInv
<1>1. Init => LostInv
  BY DEF Init, LostInv, Rotated, IdleRequest
<1>2. IInv /\ LostInv /\ [Next]_vars => LostInv'
  BY LostPreserved
<1> QED BY <1>1, <1>2, Invariance, PTL DEF Spec

\* Concurrent refreshes, deletes, logins, crashes and late calls over any
\* number of instances implement the atomic vault: each commit of
\* RefreshToken is one replacement of a live token by its successor, and a
\* credential stops working only by a revocation or by a refresh whose
\* successor was not stored.
THEOREM RefreshImplementsVault == Spec => VaultSpec
<1>1. Init => Vault!Init
  BY InitRefines
<1>2. IInv /\ LostInv /\ [Next]_vars => [Vault!Next]_(Vault!vars)
  BY StepRefines
<1> QED BY <1>1, <1>2, Invariance, LossesAreCounted, PTL DEF Spec, VaultSpec, Vault!Spec

\* A row that exists is written or deleted only while a request of its owner
\* is saving or deleting, and keeps its owner and account: SaveToken inserts
\* under a fresh id, UpdateToken and DeleteUserOauth match id and user.
THEOREM RowsAreTheOwners == Spec => OnlyOwnerChanges
<1> DEFINE Changes(id) == Present(id) /\ rows'[id] # rows[id]
           ByOwner(id) ==
             /\ \E r \in Requests : req[r].row = id /\ req[r].user = rows[id].owner
                                    /\ req[r].pc \in {"saving", "deleting"}
             /\ rows'[id] # NoRow => /\ rows'[id].owner = rows[id].owner
                                     /\ rows'[id].account = rows[id].account
<1>1. ASSUME IInv, Next, NEW id \in RowIds, Changes(id)
      PROVE  ByOwner(id)
  <2>1. ASSUME NEW u \in Users, NEW a \in Accounts, SaveToken(u, a) PROVE FALSE
    <3>1. rows' = rows \/ \E c : nextRow \in RowIds /\ rows' = [rows EXCEPT ![nextRow] = c]
      BY <2>1 DEF SaveToken
    <3>2. nextRow \in RowIds => rows[nextRow] = NoRow
      BY <1>1 DEF IInv, TypeOK, TokenInv, RowIds
    <3> QED BY <1>1, <3>1, <3>2 DEF IInv, TypeOK, Present
  <2>2. ASSUME NEW r \in Requests, NEW u \in Users, NEW x \in RowIds,
               StartRefresh(r, u, x) \/ StartDelete(r, u, x)
        PROVE  FALSE
    BY <1>1, <2>2 DEF StartRefresh, StartDelete
  <2>3. ASSUME NEW t \in Tokens, OrphanArrives(t) \/ ProviderRevokes(t) PROVE FALSE
    BY <1>1, <2>3 DEF OrphanArrives, ProviderRevokes
  <2>4. ASSUME NEW i \in Instances, Crash(i) PROVE FALSE
    BY <1>1, <2>4 DEF Crash, Rollback
  <2>5. ASSUME NEW r \in Requests, ProviderAnswers(r) PROVE FALSE
    BY <1>1, <2>5 DEF ProviderAnswers
  <2>6. ASSUME NEW r \in Requests, RefreshStep(r) PROVE ByOwner(id)
    <3>1. CASE UpdateToken(r)
      <4>1. /\ req[r].pc = "saving" /\ Owned(req[r].row, req[r].user)
            /\ rows' = [rows EXCEPT ![req[r].row] = req[r].model]
        BY <3>1 DEF UpdateToken
      <4>2. req[r].row = id
        BY <1>1, <4>1 DEF IInv, TypeOK
      <4>3. rows[id] \in OAuthInfo /\ req[r].model = Refreshed(rows[id], req[r].reply)
        BY <1>1, <4>1, <4>2, SentIsStored DEF IInv, ReadInv, ReadOK, InTransaction
      <4>4. rows'[id] = req[r].model
        BY <1>1, <4>1, <4>2 DEF IInv, TypeOK
      <4>5. rows'[id].owner = rows[id].owner /\ rows'[id].account = rows[id].account
        BY <4>3, <4>4 DEF Refreshed, OAuthInfo
      <4> QED BY <4>1, <4>2, <4>5 DEF Owned
    <3>2. CASE DeleteUserOauth(r)
      <4>1. /\ req[r].pc = "deleting" /\ Owned(req[r].row, req[r].user)
            /\ rows' = [rows EXCEPT ![req[r].row] = NoRow]
        BY <3>2 DEF DeleteUserOauth
      <4>2. req[r].row = id /\ rows'[id] = NoRow
        BY <1>1, <4>1 DEF IInv, TypeOK
      <4> QED BY <4>1, <4>2 DEF Owned
    <3>3. CASE rows' = rows
      BY <1>1, <3>3
    <3> QED BY <2>6, <3>1, <3>2, <3>3 DEF RefreshStep, GetOwnedTokenForUpdate, OAuthNotFound,
              PresentToken, CheckReply, UpdateFails, RefreshExpires, DeleteCanceled, Rollback
  <2> QED BY <1>1, <2>1, <2>2, <2>3, <2>4, <2>5, <2>6 DEF Next
<1>2. IInv /\ [Next]_vars => [\A id \in RowIds : Changes(id) => ByOwner(id)]_vars
  BY <1>1
<1> QED BY <1>2, Invariance, PTL DEF Spec, OnlyOwnerChanges
=============================================================================
