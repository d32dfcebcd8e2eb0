--------------------------- MODULE ApiKeysProofs ---------------------------
(***************************************************************************)
(* KeyInv is an invariant of ApiKeys, and with it the scope, the bindings  *)
(* and the gate are what their properties say.  One lemma per operation,   *)
(* one step per part of the invariant.                                     *)
(***************************************************************************)
EXTENDS ApiKeys, TLAPS

USE KeyAssumptions DEF KeyIds, Targets, NoKey, NoTarget, Kinds

\* Every error path: a request that gives up takes its locks and its uncommitted
\* rows with it.
LEMMA RollbackInv ==
  ASSUME KeyInv, NEW r \in Requests, Rollback(r)
  PROVE  KeyInv'
<1>1. TypeOK'
  BY DEF Rollback, Ends, Goes, TypeOK, KeyInv, tables, inputs, writes, observed
<1>2. LockInv'
  BY DEF Rollback, Ends, Goes, TypeOK, LockInv, PhaseInv, OwnerInv, Writing, KeyInv,
         tables, inputs, writes, observed
<1>3. PhaseInv'
  BY DEF Rollback, Ends, Goes, TypeOK, PhaseInv, KeyInv, tables, inputs, writes,
         observed
<1>4. OwnerInv'
  BY DEF Rollback, Ends, Goes, TypeOK, LockInv, PhaseInv, OwnerInv, Writing, KeyInv,
         tables, inputs, writes, observed
<1>5. HeldInv'
  BY DEF Rollback, Ends, Goes, TypeOK, LockInv, PhaseInv, HeldInv, HeldOK, DeleteInv, Writing,
         Deleting, KeyInv, tables, inputs, writes, observed
<1>6. GoneInv'
  BY DEF Rollback, Ends, Goes, TypeOK, LockInv, PhaseInv, OwnerInv, GoneInv, Writing,
         OfKind, KeyInv, tables, inputs, writes, observed
<1>7. DeleteInv'
  BY DEF Rollback, Ends, Goes, TypeOK, PhaseInv, DeleteInv, KeyInv, tables, inputs,
         writes, observed
<1>8. ScopeInv'
  BY DEF Rollback, Ends, Goes, TypeOK, ScopeInv, KeyInv, tables, inputs, writes,
         observed
<1>9. GateInv'
  BY DEF Rollback, Ends, Goes, TypeOK, PhaseInv, GateInv, KeyInv, tables, inputs,
         writes, observed
<1>10. ScopeIsLastReplacement'
  BY DEF Rollback, Ends, Goes, TypeOK, ScopeIsLastReplacement, DeleteInv, ScopeInv,
         Exists, KeyInv, tables, inputs, writes, observed
<1>11. BindingsSound'
  BY DEF Rollback, Ends, Goes, TypeOK, BindingsSound, Exists, KeyInv, tables, inputs,
         writes, observed
<1>12. ChatWithinScope'
  BY DEF Rollback, Ends, Goes, TypeOK, PhaseInv, ChatWithinScope, KeyInv, tables,
         inputs, writes, observed
<1> QED BY <1>1, <1>2, <1>3, <1>4, <1>5, <1>6, <1>7, <1>8, <1>9, <1>10, <1>11, <1>12 DEF KeyInv

\* A new account or external key is in no scope yet.
LEMMA TargetAddedInv ==
  ASSUME KeyInv, NEW t \in Targets, TargetAdded(t)
  PROVE  KeyInv'
<1>1. TypeOK'
  BY DEF TargetAdded, TypeOK, KeyInv, tables, inputs, writes, observed
<1>2. LockInv'
  BY DEF TargetAdded, TypeOK, LockInv, PhaseInv, OwnerInv, Writing, KeyInv, tables,
         inputs, writes, observed
<1>3. PhaseInv'
  BY DEF TargetAdded, TypeOK, PhaseInv, KeyInv, tables, inputs, writes, observed
<1>4. OwnerInv'
  BY DEF TargetAdded, TypeOK, LockInv, PhaseInv, OwnerInv, Writing, KeyInv, tables,
         inputs, writes, observed
<1>5. HeldInv'
  BY DEF TargetAdded, TypeOK, LockInv, PhaseInv, HeldInv, HeldOK, DeleteInv, Writing,
         Deleting, KeyInv, tables, inputs, writes, observed
<1>6. GoneInv'
  BY DEF TargetAdded, TypeOK, LockInv, PhaseInv, OwnerInv, GoneInv, Writing, OfKind,
         KeyInv, tables, inputs, writes, observed
<1>7. DeleteInv'
  BY DEF TargetAdded, TypeOK, PhaseInv, DeleteInv, KeyInv, tables, inputs, writes,
         observed
<1>8. ScopeInv'
  BY DEF TargetAdded, TypeOK, ScopeInv, KeyInv, tables, inputs, writes, observed
<1>9. GateInv'
  BY DEF TargetAdded, TypeOK, PhaseInv, GateInv, KeyInv, tables, inputs, writes,
         observed
<1>10. ScopeIsLastReplacement'
  BY DEF TargetAdded, TypeOK, ScopeIsLastReplacement, DeleteInv, ScopeInv, Exists,
         KeyInv, tables, inputs, writes, observed
<1>11. BindingsSound'
  BY DEF TargetAdded, TypeOK, BindingsSound, Exists, KeyInv, tables, inputs, writes,
         observed
<1>12. ChatWithinScope'
  BY DEF TargetAdded, TypeOK, PhaseInv, ChatWithinScope, KeyInv, tables, inputs,
         writes, observed
<1> QED BY <1>1, <1>2, <1>3, <1>4, <1>5, <1>6, <1>7, <1>8, <1>9, <1>10, <1>11, <1>12 DEF KeyInv

\* A refresh locks an account: it only makes others wait.
LEMMA RefreshLocksInv ==
  ASSUME KeyInv, NEW t \in Targets, RefreshLocks(t)
  PROVE  KeyInv'
<1>1. TypeOK'
  BY DEF RefreshLocks, TypeOK, KeyInv, tables, inputs, writes, observed
<1>2. LockInv'
  BY DEF RefreshLocks, TypeOK, LockInv, PhaseInv, OwnerInv, Writing, KeyInv, tables,
         inputs, writes, observed
<1>3. PhaseInv'
  BY DEF RefreshLocks, TypeOK, PhaseInv, KeyInv, tables, inputs, writes, observed
<1>4. OwnerInv'
  BY DEF RefreshLocks, TypeOK, LockInv, PhaseInv, OwnerInv, Writing, KeyInv, tables,
         inputs, writes, observed
<1>5. HeldInv'
  BY DEF RefreshLocks, TypeOK, LockInv, PhaseInv, HeldInv, HeldOK, DeleteInv, Writing,
         Deleting, KeyInv, tables, inputs, writes, observed
<1>6. GoneInv'
  BY DEF RefreshLocks, TypeOK, LockInv, PhaseInv, OwnerInv, GoneInv, Writing, OfKind,
         KeyInv, tables, inputs, writes, observed
<1>7. DeleteInv'
  BY DEF RefreshLocks, TypeOK, PhaseInv, DeleteInv, KeyInv, tables, inputs, writes,
         observed
<1>8. ScopeInv'
  BY DEF RefreshLocks, TypeOK, ScopeInv, KeyInv, tables, inputs, writes, observed
<1>9. GateInv'
  BY DEF RefreshLocks, TypeOK, PhaseInv, GateInv, KeyInv, tables, inputs, writes,
         observed
<1>10. ScopeIsLastReplacement'
  BY DEF RefreshLocks, TypeOK, ScopeIsLastReplacement, DeleteInv, ScopeInv, Exists,
         KeyInv, tables, inputs, writes, observed
<1>11. BindingsSound'
  BY DEF RefreshLocks, TypeOK, BindingsSound, Exists, KeyInv, tables, inputs, writes,
         observed
<1>12. ChatWithinScope'
  BY DEF RefreshLocks, TypeOK, PhaseInv, ChatWithinScope, KeyInv, tables, inputs,
         writes, observed
<1> QED BY <1>1, <1>2, <1>3, <1>4, <1>5, <1>6, <1>7, <1>8, <1>9, <1>10, <1>11, <1>12 DEF KeyInv

\* A refresh ends.
LEMMA RefreshReleasesInv ==
  ASSUME KeyInv, NEW t \in Targets, RefreshReleases(t)
  PROVE  KeyInv'
<1>1. TypeOK'
  BY DEF RefreshReleases, TypeOK, KeyInv, tables, inputs, writes, observed
<1>2. LockInv'
  BY DEF RefreshReleases, TypeOK, LockInv, PhaseInv, OwnerInv, Writing, KeyInv,
         tables, inputs, writes, observed
<1>3. PhaseInv'
  BY DEF RefreshReleases, TypeOK, PhaseInv, KeyInv, tables, inputs, writes, observed
<1>4. OwnerInv'
  BY DEF RefreshReleases, TypeOK, LockInv, PhaseInv, OwnerInv, Writing, KeyInv,
         tables, inputs, writes, observed
<1>5. HeldInv'
  BY DEF RefreshReleases, TypeOK, LockInv, PhaseInv, HeldInv, HeldOK, DeleteInv, Writing,
         Deleting, KeyInv, tables, inputs, writes, observed
<1>6. GoneInv'
  BY DEF RefreshReleases, TypeOK, LockInv, PhaseInv, OwnerInv, GoneInv, Writing,
         OfKind, KeyInv, tables, inputs, writes, observed
<1>7. DeleteInv'
  BY DEF RefreshReleases, TypeOK, PhaseInv, DeleteInv, KeyInv, tables, inputs, writes,
         observed
<1>8. ScopeInv'
  BY DEF RefreshReleases, TypeOK, ScopeInv, KeyInv, tables, inputs, writes, observed
<1>9. GateInv'
  BY DEF RefreshReleases, TypeOK, PhaseInv, GateInv, KeyInv, tables, inputs, writes,
         observed
<1>10. ScopeIsLastReplacement'
  BY DEF RefreshReleases, TypeOK, ScopeIsLastReplacement, DeleteInv, ScopeInv, Exists,
         KeyInv, tables, inputs, writes, observed
<1>11. BindingsSound'
  BY DEF RefreshReleases, TypeOK, BindingsSound, Exists, KeyInv, tables, inputs,
         writes, observed
<1>12. ChatWithinScope'
  BY DEF RefreshReleases, TypeOK, PhaseInv, ChatWithinScope, KeyInv, tables, inputs,
         writes, observed
<1> QED BY <1>1, <1>2, <1>3, <1>4, <1>5, <1>6, <1>7, <1>8, <1>9, <1>10, <1>11, <1>12 DEF KeyInv

\* A delete of an account or external key begins.
LEMMA StartDeleteInv ==
  ASSUME KeyInv, NEW r \in Requests, NEW u \in Users, NEW t \in Targets, StartDelete(r, u, t)
  PROVE  KeyInv'
<1>1. TypeOK'
  BY DEF StartDelete, Begins, Goes, TypeOK, KeyInv, tables, inputs, writes, observed
<1>2. LockInv'
  BY DEF StartDelete, Begins, Goes, TypeOK, LockInv, PhaseInv, OwnerInv, Writing,
         KeyInv, tables, inputs, writes, observed
<1>3. PhaseInv'
  BY DEF StartDelete, Begins, Goes, TypeOK, PhaseInv, KeyInv, tables, inputs, writes,
         observed
<1>4. OwnerInv'
  BY DEF StartDelete, Begins, Goes, TypeOK, LockInv, PhaseInv, OwnerInv, Writing,
         KeyInv, tables, inputs, writes, observed
<1>5. HeldInv'
  BY DEF StartDelete, Begins, Goes, TypeOK, LockInv, PhaseInv, HeldInv, HeldOK, DeleteInv,
         Writing, Deleting, KeyInv, tables, inputs, writes, observed
<1>6. GoneInv'
  BY DEF StartDelete, Begins, Goes, TypeOK, LockInv, PhaseInv, OwnerInv, GoneInv,
         Writing, OfKind, KeyInv, tables, inputs, writes, observed
<1>7. DeleteInv'
  BY DEF StartDelete, Begins, Goes, TypeOK, PhaseInv, DeleteInv, KeyInv, tables,
         inputs, writes, observed
<1>8. ScopeInv'
  BY DEF StartDelete, Begins, Goes, TypeOK, ScopeInv, KeyInv, tables, inputs, writes,
         observed
<1>9. GateInv'
  BY DEF StartDelete, Begins, Goes, TypeOK, PhaseInv, GateInv, KeyInv, tables, inputs,
         writes, observed
<1>10. ScopeIsLastReplacement'
  BY DEF StartDelete, Begins, Goes, TypeOK, ScopeIsLastReplacement, DeleteInv,
         ScopeInv, Exists, KeyInv, tables, inputs, writes, observed
<1>11. BindingsSound'
  BY DEF StartDelete, Begins, Goes, TypeOK, BindingsSound, Exists, KeyInv, tables,
         inputs, writes, observed
<1>12. ChatWithinScope'
  BY DEF StartDelete, Begins, Goes, TypeOK, PhaseInv, ChatWithinScope, KeyInv, tables,
         inputs, writes, observed
<1> QED BY <1>1, <1>2, <1>3, <1>4, <1>5, <1>6, <1>7, <1>8, <1>9, <1>10, <1>11, <1>12 DEF KeyInv

\* The creation of a key begins.
LEMMA StartCreateInv ==
  ASSUME KeyInv, NEW r \in Requests, NEW u \in Users, NEW ts \in SUBSET Targets,
         StartCreate(r, u, ts)
  PROVE  KeyInv'
<1>1. TypeOK'
  BY DEF StartCreate, Begins, Goes, TypeOK, KeyInv, tables, inputs, writes, observed
<1>2. LockInv'
  BY DEF StartCreate, Begins, Goes, TypeOK, LockInv, PhaseInv, OwnerInv, Writing,
         KeyInv, tables, inputs, writes, observed
<1>3. PhaseInv'
  BY DEF StartCreate, Begins, Goes, TypeOK, PhaseInv, KeyInv, tables, inputs, writes,
         observed
<1>4. OwnerInv'
  BY DEF StartCreate, Begins, Goes, TypeOK, LockInv, PhaseInv, OwnerInv, Writing,
         KeyInv, tables, inputs, writes, observed
<1>5. HeldInv'
  BY DEF StartCreate, Begins, Goes, TypeOK, LockInv, PhaseInv, HeldInv, HeldOK, DeleteInv,
         Writing, Deleting, KeyInv, tables, inputs, writes, observed
<1>6. GoneInv'
  BY DEF StartCreate, Begins, Goes, TypeOK, LockInv, PhaseInv, OwnerInv, GoneInv,
         Writing, OfKind, KeyInv, tables, inputs, writes, observed
<1>7. DeleteInv'
  BY DEF StartCreate, Begins, Goes, TypeOK, PhaseInv, DeleteInv, KeyInv, tables,
         inputs, writes, observed
<1>8. ScopeInv'
  BY DEF StartCreate, Begins, Goes, TypeOK, ScopeInv, KeyInv, tables, inputs, writes,
         observed
<1>9. GateInv'
  BY DEF StartCreate, Begins, Goes, TypeOK, PhaseInv, GateInv, KeyInv, tables, inputs,
         writes, observed
<1>10. ScopeIsLastReplacement'
  BY DEF StartCreate, Begins, Goes, TypeOK, ScopeIsLastReplacement, DeleteInv,
         ScopeInv, Exists, KeyInv, tables, inputs, writes, observed
<1>11. BindingsSound'
  BY DEF StartCreate, Begins, Goes, TypeOK, BindingsSound, Exists, KeyInv, tables,
         inputs, writes, observed
<1>12. ChatWithinScope'
  BY DEF StartCreate, Begins, Goes, TypeOK, PhaseInv, ChatWithinScope, KeyInv, tables,
         inputs, writes, observed
<1> QED BY <1>1, <1>2, <1>3, <1>4, <1>5, <1>6, <1>7, <1>8, <1>9, <1>10, <1>11, <1>12 DEF KeyInv

\* A replacement begins.
LEMMA StartReplaceInv ==
  ASSUME KeyInv, NEW r \in Requests, NEW u \in Users, NEW k \in KeyIds, NEW ts \in SUBSET Targets,
         StartReplace(r, u, k, ts)
  PROVE  KeyInv'
<1>1. TypeOK'
  BY DEF StartReplace, Begins, Goes, TypeOK, KeyInv, tables, inputs, writes, observed
<1>2. LockInv'
  BY DEF StartReplace, Begins, Goes, TypeOK, LockInv, PhaseInv, OwnerInv, Writing,
         KeyInv, tables, inputs, writes, observed
<1>3. PhaseInv'
  BY DEF StartReplace, Begins, Goes, TypeOK, PhaseInv, KeyInv, tables, inputs, writes,
         observed
<1>4. OwnerInv'
  BY DEF StartReplace, Begins, Goes, TypeOK, LockInv, PhaseInv, OwnerInv, Writing,
         KeyInv, tables, inputs, writes, observed
<1>5. HeldInv'
  BY DEF StartReplace, Begins, Goes, TypeOK, LockInv, PhaseInv, HeldInv, HeldOK, DeleteInv,
         Writing, Deleting, KeyInv, tables, inputs, writes, observed
<1>6. GoneInv'
  BY DEF StartReplace, Begins, Goes, TypeOK, LockInv, PhaseInv, OwnerInv, GoneInv,
         Writing, OfKind, KeyInv, tables, inputs, writes, observed
<1>7. DeleteInv'
  BY DEF StartReplace, Begins, Goes, TypeOK, PhaseInv, DeleteInv, KeyInv, tables,
         inputs, writes, observed
<1>8. ScopeInv'
  BY DEF StartReplace, Begins, Goes, TypeOK, ScopeInv, KeyInv, tables, inputs, writes,
         observed
<1>9. GateInv'
  BY DEF StartReplace, Begins, Goes, TypeOK, PhaseInv, GateInv, KeyInv, tables,
         inputs, writes, observed
<1>10. ScopeIsLastReplacement'
  BY DEF StartReplace, Begins, Goes, TypeOK, ScopeIsLastReplacement, DeleteInv,
         ScopeInv, Exists, KeyInv, tables, inputs, writes, observed
<1>11. BindingsSound'
  BY DEF StartReplace, Begins, Goes, TypeOK, BindingsSound, Exists, KeyInv, tables,
         inputs, writes, observed
<1>12. ChatWithinScope'
  BY DEF StartReplace, Begins, Goes, TypeOK, PhaseInv, ChatWithinScope, KeyInv,
         tables, inputs, writes, observed
<1> QED BY <1>1, <1>2, <1>3, <1>4, <1>5, <1>6, <1>7, <1>8, <1>9, <1>10, <1>11, <1>12 DEF KeyInv

\* A chat request comes in: from here on it may use what is bound now.
LEMMA StartChatInv ==
  ASSUME KeyInv, NEW r \in Requests, NEW k \in KeyIds, StartChat(r, k)
  PROVE  KeyInv'
<1>1. TypeOK'
  BY DEF StartChat, Begins, Goes, TypeOK, KeyInv, tables, inputs, writes, observed
<1>2. LockInv'
  BY DEF StartChat, Begins, Goes, TypeOK, LockInv, PhaseInv, OwnerInv, Writing,
         KeyInv, tables, inputs, writes, observed
<1>3. PhaseInv'
  BY DEF StartChat, Begins, Goes, TypeOK, PhaseInv, KeyInv, tables, inputs, writes,
         observed
<1>4. OwnerInv'
  BY DEF StartChat, Begins, Goes, TypeOK, LockInv, PhaseInv, OwnerInv, Writing,
         KeyInv, tables, inputs, writes, observed
<1>5. HeldInv'
  BY DEF StartChat, Begins, Goes, TypeOK, LockInv, PhaseInv, HeldInv, HeldOK, DeleteInv,
         Writing, Deleting, KeyInv, tables, inputs, writes, observed
<1>6. GoneInv'
  BY DEF StartChat, Begins, Goes, TypeOK, LockInv, PhaseInv, OwnerInv, GoneInv,
         Writing, OfKind, KeyInv, tables, inputs, writes, observed
<1>7. DeleteInv'
  BY DEF StartChat, Begins, Goes, TypeOK, PhaseInv, DeleteInv, KeyInv, tables, inputs,
         writes, observed
<1>8. ScopeInv'
  BY DEF StartChat, Begins, Goes, TypeOK, ScopeInv, KeyInv, tables, inputs, writes,
         observed
<1>9. GateInv'
  BY DEF StartChat, Begins, Goes, TypeOK, PhaseInv, GateInv, KeyInv, tables, inputs,
         writes, observed
<1>10. ScopeIsLastReplacement'
  BY DEF StartChat, Begins, Goes, TypeOK, ScopeIsLastReplacement, DeleteInv, ScopeInv,
         Exists, KeyInv, tables, inputs, writes, observed
<1>11. BindingsSound'
  BY DEF StartChat, Begins, Goes, TypeOK, BindingsSound, Exists, KeyInv, tables,
         inputs, writes, observed
<1>12. ChatWithinScope'
  BY DEF StartChat, Begins, Goes, TypeOK, PhaseInv, ChatWithinScope, KeyInv, tables,
         inputs, writes, observed
<1> QED BY <1>1, <1>2, <1>3, <1>4, <1>5, <1>6, <1>7, <1>8, <1>9, <1>10, <1>11, <1>12 DEF KeyInv

\* A delete gets its row lock: nobody holds KEY SHARE, nobody else deletes it.
LEMMA DeleteLocksInv ==
  ASSUME KeyInv, NEW r \in Requests, DeleteLocks(r)
  PROVE  KeyInv'
<1>1. TypeOK'
  BY DEF DeleteLocks, Goes, TypeOK, KeyInv, tables, inputs, writes, observed
<1>2. LockInv'
  BY DEF DeleteLocks, Goes, TypeOK, LockInv, PhaseInv, OwnerInv, Writing, KeyInv,
         tables, inputs, writes, observed
<1>3. PhaseInv'
  BY DEF DeleteLocks, Goes, TypeOK, PhaseInv, KeyInv, tables, inputs, writes, observed
<1>4. OwnerInv'
  BY DEF DeleteLocks, Goes, TypeOK, LockInv, PhaseInv, OwnerInv, Writing, KeyInv,
         tables, inputs, writes, observed
<1>5. HeldInv'
  BY DEF DeleteLocks, Goes, TypeOK, LockInv, PhaseInv, HeldInv, HeldOK, DeleteInv, Writing,
         Deleting, KeyInv, tables, inputs, writes, observed
<1>6. GoneInv'
  BY DEF DeleteLocks, Goes, TypeOK, LockInv, PhaseInv, OwnerInv, GoneInv, Writing,
         OfKind, KeyInv, tables, inputs, writes, observed
<1>7. DeleteInv'
  <2>1. \A q \in Requests : pc[q] = "cascading" => ids[q] \cap ids[r] = {}
    BY DEF DeleteLocks, Deleting
  <2> QED BY <2>1 DEF DeleteLocks, Goes, KeyInv, TypeOK, DeleteInv, tables, inputs
<1>8. ScopeInv'
  BY DEF DeleteLocks, Goes, TypeOK, ScopeInv, KeyInv, tables, inputs, writes, observed
<1>9. GateInv'
  BY DEF DeleteLocks, Goes, TypeOK, PhaseInv, GateInv, KeyInv, tables, inputs, writes,
         observed
<1>10. ScopeIsLastReplacement'
  BY DEF DeleteLocks, Goes, TypeOK, ScopeIsLastReplacement, DeleteInv, ScopeInv,
         Exists, KeyInv, tables, inputs, writes, observed
<1>11. BindingsSound'
  BY DEF DeleteLocks, Goes, TypeOK, BindingsSound, Exists, KeyInv, tables, inputs,
         writes, observed
<1>12. ChatWithinScope'
  BY DEF DeleteLocks, Goes, TypeOK, PhaseInv, ChatWithinScope, KeyInv, tables, inputs,
         writes, observed
<1> QED BY <1>1, <1>2, <1>3, <1>4, <1>5, <1>6, <1>7, <1>8, <1>9, <1>10, <1>11, <1>12 DEF KeyInv

\* A delete commits with its cascade: no transaction had bound or unbound the row.
LEMMA CascadeInv ==
  ASSUME KeyInv, NEW r \in Requests, Cascade(r)
  PROVE  KeyInv'
<1>1. TypeOK'
  BY DEF Cascade, Ends, Goes, TypeOK, KeyInv, tables, inputs, writes, observed
<1>2. LockInv'
  BY DEF Cascade, Ends, Goes, TypeOK, LockInv, PhaseInv, OwnerInv, Writing, KeyInv,
         tables, inputs, writes, observed
<1>3. PhaseInv'
  BY DEF Cascade, Ends, Goes, TypeOK, PhaseInv, KeyInv, tables, inputs, writes,
         observed
<1>4. OwnerInv'
  BY DEF Cascade, Ends, Goes, TypeOK, LockInv, PhaseInv, OwnerInv, Writing, KeyInv,
         tables, inputs, writes, observed
<1>5. HeldInv'
  BY DEF Cascade, Ends, Goes, TypeOK, LockInv, PhaseInv, HeldInv, HeldOK, DeleteInv, Writing,
         Deleting, KeyInv, tables, inputs, writes, observed
<1>6. GoneInv'
  BY DEF Cascade, Ends, Goes, TypeOK, LockInv, PhaseInv, OwnerInv, GoneInv, Writing,
         OfKind, KeyInv, tables, inputs, writes, observed
<1>7. DeleteInv'
  BY DEF Cascade, Ends, Goes, TypeOK, PhaseInv, DeleteInv, KeyInv, tables, inputs,
         writes, observed
<1>8. ScopeInv'
  BY DEF Cascade, Ends, Goes, TypeOK, ScopeInv, KeyInv, tables, inputs, writes,
         observed
<1>9. GateInv'
  BY DEF Cascade, Ends, Goes, TypeOK, PhaseInv, GateInv, KeyInv, tables, inputs,
         writes, observed
<1>10. ScopeIsLastReplacement'
  BY DEF Cascade, Ends, Goes, TypeOK, ScopeIsLastReplacement, DeleteInv, ScopeInv,
         Exists, KeyInv, tables, inputs, writes, observed
<1>11. BindingsSound'
  BY DEF Cascade, Ends, Goes, TypeOK, BindingsSound, Exists, KeyInv, tables, inputs,
         writes, observed
<1>12. ChatWithinScope'
  BY DEF Cascade, Ends, Goes, TypeOK, PhaseInv, ChatWithinScope, KeyInv, tables,
         inputs, writes, observed
<1> QED BY <1>1, <1>2, <1>3, <1>4, <1>5, <1>6, <1>7, <1>8, <1>9, <1>10, <1>11, <1>12 DEF KeyInv

\* A replacement gets its key's lock: it is the only one that writes the key.
LEMMA LockKeyInv ==
  ASSUME KeyInv, NEW r \in Requests, LockKey(r)
  PROVE  KeyInv'
<1>1. TypeOK'
  BY DEF LockKey, Goes, TypeOK, KeyInv, tables, inputs, writes, observed
<1>2. LockInv'
  BY DEF LockKey, Goes, TypeOK, LockInv, PhaseInv, OwnerInv, Writing, KeyInv, tables,
         inputs, writes, observed
<1>3. PhaseInv'
  BY DEF LockKey, Goes, TypeOK, PhaseInv, KeyInv, tables, inputs, writes, observed
<1>4. OwnerInv'
  BY DEF LockKey, Goes, TypeOK, LockInv, PhaseInv, OwnerInv, Writing, KeyInv, tables,
         inputs, writes, observed
<1>5. HeldInv'
  BY DEF LockKey, Goes, TypeOK, LockInv, PhaseInv, HeldInv, HeldOK, DeleteInv, Writing,
         Deleting, KeyInv, tables, inputs, writes, observed
<1>6. GoneInv'
  BY DEF LockKey, Goes, TypeOK, LockInv, PhaseInv, OwnerInv, GoneInv, Writing, OfKind,
         KeyInv, tables, inputs, writes, observed
<1>7. DeleteInv'
  BY DEF LockKey, Goes, TypeOK, PhaseInv, DeleteInv, KeyInv, tables, inputs, writes,
         observed
<1>8. ScopeInv'
  BY DEF LockKey, Goes, TypeOK, ScopeInv, KeyInv, tables, inputs, writes, observed
<1>9. GateInv'
  BY DEF LockKey, Goes, TypeOK, PhaseInv, GateInv, KeyInv, tables, inputs, writes,
         observed
<1>10. ScopeIsLastReplacement'
  BY DEF LockKey, Goes, TypeOK, ScopeIsLastReplacement, DeleteInv, ScopeInv, Exists,
         KeyInv, tables, inputs, writes, observed
<1>11. BindingsSound'
  BY DEF LockKey, Goes, TypeOK, BindingsSound, Exists, KeyInv, tables, inputs, writes,
         observed
<1>12. ChatWithinScope'
  BY DEF LockKey, Goes, TypeOK, PhaseInv, ChatWithinScope, KeyInv, tables, inputs,
         writes, observed
<1> QED BY <1>1, <1>2, <1>3, <1>4, <1>5, <1>6, <1>7, <1>8, <1>9, <1>10, <1>11, <1>12 DEF KeyInv

\* The ids of one kind are the user's; for how long is the foreign key's business.
LEMMA CountedInv ==
  ASSUME KeyInv, NEW r \in Requests, pc[r] = "counting", Counted(r)
  PROVE  KeyInv'
<1>1. TypeOK'
  BY DEF Counted, Goes, TypeOK, KeyInv, tables, inputs, writes, observed
<1>2. LockInv'
  <2>1. CASE op[r] = "replace" /\ pc' = [pc EXCEPT ![r] = "clearing"]
    BY <2>1 DEF Counted, KeyInv, TypeOK, LockInv, Writing, inputs
  <2>2. CASE op[r] = "create" /\ (UNCHANGED pc \/ pc' = [pc EXCEPT ![r] = "creating"])
    BY <2>2 DEF Counted, KeyInv, TypeOK, LockInv, Writing, inputs
  <2> QED BY <2>1, <2>2 DEF Counted, Goes
<1>3. PhaseInv'
  BY DEF Counted, Goes, TypeOK, PhaseInv, KeyInv, tables, inputs, writes, observed
<1>4. OwnerInv'
  BY DEF Counted, Goes, TypeOK, LockInv, PhaseInv, OwnerInv, Writing, KeyInv, tables,
         inputs, writes, observed
<1>5. HeldInv'
  BY DEF Counted, Goes, TypeOK, LockInv, PhaseInv, HeldInv, HeldOK, DeleteInv, Writing,
         Deleting, KeyInv, tables, inputs, writes, observed
<1>6. GoneInv'
  BY DEF Counted, Goes, TypeOK, LockInv, PhaseInv, OwnerInv, GoneInv, Writing, OfKind,
         KeyInv, tables, inputs, writes, observed
<1>7. DeleteInv'
  BY DEF Counted, Goes, TypeOK, PhaseInv, DeleteInv, KeyInv, tables, inputs, writes,
         observed
<1>8. ScopeInv'
  BY DEF Counted, Goes, TypeOK, ScopeInv, KeyInv, tables, inputs, writes, observed
<1>9. GateInv'
  BY DEF Counted, Goes, TypeOK, PhaseInv, GateInv, KeyInv, tables, inputs, writes,
         observed
<1>10. ScopeIsLastReplacement'
  BY DEF Counted, Goes, TypeOK, ScopeIsLastReplacement, DeleteInv, ScopeInv, Exists,
         KeyInv, tables, inputs, writes, observed
<1>11. BindingsSound'
  BY DEF Counted, Goes, TypeOK, BindingsSound, Exists, KeyInv, tables, inputs, writes,
         observed
<1>12. ChatWithinScope'
  BY DEF Counted, Goes, TypeOK, PhaseInv, ChatWithinScope, KeyInv, tables, inputs,
         writes, observed
<1> QED BY <1>1, <1>2, <1>3, <1>4, <1>5, <1>6, <1>7, <1>8, <1>9, <1>10, <1>11, <1>12 DEF KeyInv

\* The new key's row: nobody knows its id, nothing is bound to it.
LEMMA CreateKeyInv ==
  ASSUME KeyInv, NEW r \in Requests, CreateKey(r)
  PROVE  KeyInv'
<1>1. TypeOK'
  BY DEF CreateKey, Goes, TypeOK, KeyInv, tables, inputs, writes, observed
<1>2. LockInv'
  BY DEF CreateKey, Goes, TypeOK, LockInv, PhaseInv, OwnerInv, Writing, KeyInv,
         tables, inputs, writes, observed
<1>3. PhaseInv'
  BY DEF CreateKey, Goes, TypeOK, PhaseInv, KeyInv, tables, inputs, writes, observed
<1>4. OwnerInv'
  BY DEF CreateKey, Goes, TypeOK, LockInv, PhaseInv, OwnerInv, Writing, KeyInv,
         tables, inputs, writes, observed
<1>5. HeldInv'
  BY DEF CreateKey, Goes, TypeOK, LockInv, PhaseInv, HeldInv, HeldOK, DeleteInv, Writing,
         Deleting, KeyInv, tables, inputs, writes, observed
<1>6. GoneInv'
  <2>0. nextKey \in KeyIds /\ keyOwner[nextKey] = NoUser
    BY DEF CreateKey, KeyInv, TypeOK, OwnerInv
  <2>1. bindings[nextKey] = {}
    BY <2>0 DEF KeyInv, BindingsSound, Exists
  <2>2. \A q \in Requests : Writing(q) => key[q] # nextKey
    BY DEF CreateKey, KeyInv, TypeOK, LockInv, OwnerInv
  <2> QED BY <2>1, <2>2 DEF CreateKey, Goes, KeyInv, TypeOK, PhaseInv, LockInv, GoneInv, Writing, writes
<1>7. DeleteInv'
  BY DEF CreateKey, Goes, TypeOK, PhaseInv, DeleteInv, KeyInv, tables, inputs, writes,
         observed
<1>8. ScopeInv'
  BY DEF CreateKey, Goes, TypeOK, ScopeInv, KeyInv, tables, inputs, writes, observed
<1>9. GateInv'
  BY DEF CreateKey, Goes, TypeOK, PhaseInv, GateInv, KeyInv, tables, inputs, writes,
         observed
<1>10. ScopeIsLastReplacement'
  BY DEF CreateKey, Goes, TypeOK, ScopeIsLastReplacement, DeleteInv, ScopeInv, Exists,
         KeyInv, tables, inputs, writes, observed
<1>11. BindingsSound'
  BY DEF CreateKey, Goes, TypeOK, BindingsSound, Exists, KeyInv, tables, inputs,
         writes, observed
<1>12. ChatWithinScope'
  BY DEF CreateKey, Goes, TypeOK, PhaseInv, ChatWithinScope, KeyInv, tables, inputs,
         writes, observed
<1> QED BY <1>1, <1>2, <1>3, <1>4, <1>5, <1>6, <1>7, <1>8, <1>9, <1>10, <1>11, <1>12 DEF KeyInv

\* A replacement has deleted the old bindings of one kind.
LEMMA ClearInv ==
  ASSUME KeyInv, NEW r \in Requests, Clear(r)
  PROVE  KeyInv'
<1>1. TypeOK'
  <2>1. key[r] \in KeyIds
    BY DEF Clear, KeyInv, PhaseInv
  <2>2. gone[r] \cup (bindings[key[r]] \cap OfKind(kind[r])) \in SUBSET Targets
    BY <2>1 DEF KeyInv, TypeOK
  <2>3. gone' \in [Requests -> SUBSET Targets]
    BY <2>2 DEF Clear, KeyInv, TypeOK
  <2> QED BY <2>3 DEF Clear, Goes, KeyInv, TypeOK, tables, inputs, observed
<1>2. LockInv'
  BY DEF Clear, Goes, TypeOK, LockInv, PhaseInv, OwnerInv, Writing, KeyInv, tables,
         inputs, writes, observed
<1>3. PhaseInv'
  BY DEF Clear, Goes, TypeOK, PhaseInv, KeyInv, tables, inputs, writes, observed
<1>4. OwnerInv'
  BY DEF Clear, Goes, TypeOK, LockInv, PhaseInv, OwnerInv, Writing, KeyInv, tables,
         inputs, writes, observed
<1>5. HeldInv'
  BY DEF Clear, Goes, TypeOK, LockInv, PhaseInv, HeldInv, HeldOK, DeleteInv, Writing,
         Deleting, KeyInv, tables, inputs, writes, observed
<1>6. GoneInv'
  BY DEF Clear, Goes, TypeOK, LockInv, PhaseInv, OwnerInv, GoneInv, Writing, OfKind,
         KeyInv, tables, inputs, writes, observed
<1>7. DeleteInv'
  BY DEF Clear, Goes, TypeOK, PhaseInv, DeleteInv, KeyInv, tables, inputs, writes,
         observed
<1>8. ScopeInv'
  BY DEF Clear, Goes, TypeOK, ScopeInv, KeyInv, tables, inputs, writes, observed
<1>9. GateInv'
  BY DEF Clear, Goes, TypeOK, PhaseInv, GateInv, KeyInv, tables, inputs, writes,
         observed
<1>10. ScopeIsLastReplacement'
  BY DEF Clear, Goes, TypeOK, ScopeIsLastReplacement, DeleteInv, ScopeInv, Exists,
         KeyInv, tables, inputs, writes, observed
<1>11. BindingsSound'
  BY DEF Clear, Goes, TypeOK, BindingsSound, Exists, KeyInv, tables, inputs, writes,
         observed
<1>12. ChatWithinScope'
  BY DEF Clear, Goes, TypeOK, PhaseInv, ChatWithinScope, KeyInv, tables, inputs,
         writes, observed
<1> QED BY <1>1, <1>2, <1>3, <1>4, <1>5, <1>6, <1>7, <1>8, <1>9, <1>10, <1>11, <1>12 DEF KeyInv

\* A row of the bindings is inserted: its target is there, the user's, and held
\* until the commit.
LEMMA InsertBindingsInv ==
  ASSUME KeyInv, NEW r \in Requests, InsertBindings(r)
  PROVE  KeyInv'
<1>0. PICK t \in Missing(r) :
        /\ life[t] = "live" /\ OwnerOf[t] = user[r] /\ ~Deleting(t)
        /\ Binds(r, t)
  BY DEF InsertBindings
<1>a. /\ pc[r] = "inserting" /\ pc' = pc /\ kind' = kind
      /\ held' = [held EXCEPT ![r] = @ \cup {t}]
      /\ t \in ids[r] /\ t \in OfKind(kind[r]) /\ t \in Targets
  BY <1>0 DEF InsertBindings, Binds, Missing, Wanted, KeyInv, TypeOK
<1>b. UNCHANGED <<tables, keyLock, inputs, gone, used, observed>>
  BY <1>0 DEF Binds
<1>1. TypeOK'
  BY <1>a, <1>b DEF TypeOK, KeyInv, tables, inputs, observed
<1>2. LockInv'
  BY <1>a, <1>b DEF KeyInv, TypeOK, LockInv, Writing, inputs
<1>3. PhaseInv'
  BY <1>a, <1>b DEF KeyInv, TypeOK, PhaseInv, inputs
<1>4. OwnerInv'
  BY <1>a, <1>b DEF KeyInv, TypeOK, OwnerInv, Writing, tables, inputs
<1>5. HeldInv'
  <2>1. held'[r] = held[r] \cup {t} /\ \A q \in Requests : q # r => held'[q] = held[q]
    BY <1>a DEF KeyInv, TypeOK
  <2>2. \A q \in Requests : Writing(q)' <=> Writing(q)
    BY <1>a, <1>b DEF Writing, inputs
  <2>3. \A s \in Targets : Deleting(s)' <=> Deleting(s)
    BY <1>a, <1>b DEF Deleting, inputs
  <2>4. \A q \in Requests :
          \A s \in held'[q] : (life[s] = "live" /\ OwnerOf[s] = user[q] /\ ~Deleting(s))'
    BY <1>0, <1>a, <1>b, <2>1, <2>3 DEF KeyInv, TypeOK, HeldInv, HeldOK, tables, inputs
  <2>5. Writing(r)
    BY <1>a DEF KeyInv, TypeOK, PhaseInv, Writing
  <2>6. t \in (IF kind[r] = "external" THEN ids[r] ELSE ids[r] \cap Accounts)
    BY <1>a DEF OfKind, KeyInv, TypeOK, Kinds
  <2>7. ids' = ids /\ gone' = gone
    BY <1>b DEF inputs
  <2>8. ASSUME NEW q \in Requests PROVE HeldOK(q)'
    <3>1. HeldOK(q)
      BY DEF KeyInv, HeldInv
    <3>2. CASE q = r
      BY <1>a, <2>1, <2>2, <2>4, <2>5, <2>6, <2>7, <3>1, <3>2 DEF HeldOK
    <3>3. CASE q # r
      BY <1>a, <2>1, <2>2, <2>4, <2>7, <3>1, <3>3 DEF HeldOK
    <3> QED BY <3>2, <3>3
  <2> QED
    BY <2>8 DEF HeldInv
<1>6. GoneInv'
  BY <1>a, <1>b DEF TypeOK, LockInv, PhaseInv, OwnerInv, GoneInv, Writing, OfKind, KeyInv,
     tables, inputs
<1>7. DeleteInv'
  BY <1>a, <1>b DEF KeyInv, TypeOK, DeleteInv, tables, inputs
<1>8. ScopeInv'
  BY <1>a, <1>b DEF TypeOK, ScopeInv, KeyInv, tables, observed
<1>9. GateInv'
  BY <1>a, <1>b DEF TypeOK, PhaseInv, GateInv, KeyInv, tables, inputs, observed
<1>10. ScopeIsLastReplacement'
  BY <1>b DEF ScopeIsLastReplacement, Exists, KeyInv, tables, observed
<1>11. BindingsSound'
  BY <1>b DEF BindingsSound, Exists, KeyInv, tables
<1>12. ChatWithinScope'
  BY <1>a, <1>b DEF TypeOK, PhaseInv, ChatWithinScope, KeyInv, tables, inputs, observed
<1> QED BY <1>1, <1>2, <1>3, <1>4, <1>5, <1>6, <1>7, <1>8, <1>9, <1>10, <1>11, <1>12 DEF KeyInv

\* The bindings of one kind are all there.
LEMMA InsertedInv ==
  ASSUME KeyInv, NEW r \in Requests, Inserted(r)
  PROVE  KeyInv'
<1>b. UNCHANGED <<tables, keyLock, inputs, gone, held, used, observed>>
  BY DEF Inserted
<1>a. /\ \A q \in Requests : q # r => kind'[q] = kind[q] /\ pc'[q] = pc[q]
      /\ pc[r] = "inserting" /\ op[r] \in {"create", "replace"}
      /\ \/ kind[r] = "external" /\ pc'[r] = "committing" /\ kind'[r] = "external"
         \/ /\ kind[r] = "account" /\ kind'[r] = "external"
            /\ pc'[r] = (IF op[r] = "replace" THEN "counting" ELSE "inserting")
      /\ Missing(r) = {}
  BY DEF Inserted, Goes, KeyInv, TypeOK, PhaseInv
<1>c. Writing(r) /\ \A q \in Requests : Writing(q)' <=> Writing(q)
  BY <1>a, <1>b DEF Writing, inputs
<1>d. \A s \in Targets : Deleting(s)' <=> Deleting(s)
  BY <1>a, <1>b DEF Deleting, inputs
<1>1. TypeOK'
  <2>1. kind' \in [Requests -> Kinds]
    <3>1. kind' = kind \/ kind' = [kind EXCEPT ![r] = "external"]
      BY DEF Inserted
    <3> QED BY <3>1 DEF TypeOK, KeyInv, Kinds
  <2>2. pc' = [pc EXCEPT ![r] = pc'[r]]
    BY DEF Inserted, Goes, TypeOK, KeyInv
  <2>3. pc' \in [Requests -> {"idle", "deleting", "cascading", "locking", "counting", "creating",
                              "clearing", "inserting", "committing", "gateKey", "gateAccounts",
                              "chatting"}]
    BY <1>a, <2>2 DEF TypeOK, KeyInv
  <2> QED
    BY <1>b, <2>1, <2>3 DEF TypeOK, KeyInv, tables, inputs, observed
<1>2. LockInv'
  BY <1>b, <1>c DEF KeyInv, TypeOK, LockInv, inputs
<1>3. PhaseInv'
  BY <1>a, <1>b DEF KeyInv, TypeOK, PhaseInv, inputs
<1>4. OwnerInv'
  BY <1>a, <1>b, <1>c DEF KeyInv, TypeOK, OwnerInv, tables, inputs
<1>5. HeldInv'
  <2>1. held' = held /\ gone' = gone /\ ids' = ids /\ user' = user /\ life' = life
    BY <1>b DEF tables, inputs
  <2>2. \A q \in Requests :
          \A s \in held'[q] : (life[s] = "live" /\ OwnerOf[s] = user[q] /\ ~Deleting(s))'
    BY <1>d, <2>1 DEF KeyInv, TypeOK, HeldInv, HeldOK
  <2>3. ids[r] \cap OfKind(kind[r]) \subseteq held[r]
    BY <1>a DEF Missing, Wanted
  <2>4. HeldOK(r)
    BY DEF KeyInv, HeldInv
  <2>5. ids[r] \cap ExternalKeys \subseteq held[r] /\ ids[r] \cap Accounts \subseteq held[r]
                                                 => ids[r] \subseteq held[r]
    BY DEF KeyInv, TypeOK, Targets
  <2>6. ASSUME kind[r] = "external" PROVE HeldOK(r)'
    <3>1. ids[r] \cap Accounts \subseteq held[r] /\ held[r] \subseteq ids[r]
      BY <1>a, <1>c, <2>4, <2>6 DEF HeldOK
    <3>2. held[r] = ids[r]
      BY <2>3, <2>5, <2>6, <3>1 DEF OfKind
    <3>3. pc'[r] = "committing"
      BY <1>a, <2>6
    <3> QED
      BY <1>c, <2>1, <2>2, <3>2, <3>3 DEF HeldOK
  <2>7. ASSUME kind[r] = "account" PROVE HeldOK(r)'
    <3>1. held[r] \subseteq ids[r] \cap Accounts
      BY <1>a, <1>c, <2>4, <2>7 DEF HeldOK
    <3>2. held[r] = ids[r] \cap Accounts
      BY <2>3, <2>7, <3>1 DEF OfKind
    <3>3. kind'[r] = "external" /\ pc'[r] \in {"counting", "inserting"}
      BY <1>a, <2>7
    <3> QED
      BY <1>c, <2>1, <2>2, <3>2, <3>3 DEF HeldOK
  <2>8. HeldOK(r)'
    <3>1. kind[r] \in {"account", "external"}
      BY DEF KeyInv, TypeOK, Kinds
    <3> QED BY <2>6, <2>7, <3>1
  <2>9. ASSUME NEW q \in Requests, q # r PROVE HeldOK(q)'
    <3>1. HeldOK(q) /\ kind'[q] = kind[q] /\ pc'[q] = pc[q]
      BY <1>a, <2>9 DEF KeyInv, HeldInv
    <3> QED
      BY <1>c, <2>1, <2>2, <3>1 DEF HeldOK
  <2> QED
    BY <2>8, <2>9 DEF HeldInv
<1>6. GoneInv'
  BY <1>a, <1>b DEF TypeOK, LockInv, PhaseInv, OwnerInv, GoneInv, Writing, OfKind, KeyInv,
     tables, inputs
<1>7. DeleteInv'
  <2>1. \A q \in Requests : pc'[q] = "cascading" => pc[q] = "cascading"
    BY <1>a
  <2> QED BY <1>b, <2>1 DEF KeyInv, DeleteInv, tables, inputs
<1>8. ScopeInv'
  BY <1>a, <1>b DEF TypeOK, ScopeInv, KeyInv, tables, observed
<1>9. GateInv'
  BY <1>a, <1>b DEF TypeOK, PhaseInv, GateInv, KeyInv, tables, inputs, observed
<1>10. ScopeIsLastReplacement'
  BY <1>b DEF ScopeIsLastReplacement, Exists, KeyInv, tables, observed
<1>11. BindingsSound'
  BY <1>b DEF BindingsSound, Exists, KeyInv, tables
<1>12. ChatWithinScope'
  BY <1>a, <1>b DEF TypeOK, PhaseInv, ChatWithinScope, KeyInv, tables, inputs, observed
<1> QED BY <1>1, <1>2, <1>3, <1>4, <1>5, <1>6, <1>7, <1>8, <1>9, <1>10, <1>11, <1>12 DEF KeyInv

\* The commit: what the transaction deleted was the whole old scope, because the
\* lock let nobody add to it, and what it inserted is the new one.
LEMMA CommitInv ==
  ASSUME KeyInv, NEW r \in Requests, Commit(r)
  PROVE  KeyInv'
<1>a. /\ Writing(r) /\ key[r] \in KeyIds /\ keyLock[key[r]] = r
      /\ held[r] = ids[r] /\ user[r] \in Users
      /\ \A t \in ids[r] : life[t] = "live" /\ OwnerOf[t] = user[r]
  BY DEF Commit, KeyInv, TypeOK, PhaseInv, LockInv, HeldInv, HeldOK, Writing
<1>b. (bindings[key[r]] \ gone[r]) \cup held[r] = ids[r]
  BY <1>a DEF Commit, KeyInv, GoneInv
<1>c. bindings' = [bindings EXCEPT ![key[r]] = ids[r]]
  BY <1>b DEF Commit
<1>d. \A q \in Requests : Writing(q) /\ q # r => key[q] # key[r] /\ key[q] \in KeyIds
  BY <1>a DEF KeyInv, LockInv
<1>e. \A q \in Requests : q # r => pc'[q] = pc[q] /\ op'[q] = op[q] /\ key'[q] = key[q]
                                   /\ kind'[q] = kind[q] /\ gone'[q] = gone[q]
  BY DEF Commit, Ends, Goes, KeyInv, TypeOK
<1>f. pc'[r] = "idle" /\ op'[r] = "none" /\ ~Writing(r)'
  BY DEF Commit, Ends, Goes, KeyInv, TypeOK, Writing
<1>1. TypeOK'
  <2>1. admitted' \in [Requests -> BOOLEAN] /\ valid' \in [KeyIds -> BOOLEAN]
    BY DEF Commit, TypeOK, KeyInv
  <2>2. /\ bindings' \in [KeyIds -> SUBSET Targets]
        /\ keyOwner' \in [KeyIds -> Users \cup {NoUser}]
        /\ scope' \in [KeyIds -> SUBSET Targets]
    BY <1>a, <1>c DEF Commit, TypeOK, KeyInv
  <2>3. open' \in [Requests -> SUBSET Targets]
    BY DEF Commit, TypeOK, KeyInv
  <2>4. keyLock' \in [KeyIds -> Requests \cup {NoRequest}]
    BY DEF Commit, Ends, TypeOK, KeyInv
  <2>5. /\ pc' = [pc EXCEPT ![r] = "idle"]
        /\ op' = [op EXCEPT ![r] = "none"]
        /\ user' = [user EXCEPT ![r] = NoUser]
        /\ key' = [key EXCEPT ![r] = NoKey]
        /\ ids' = [ids EXCEPT ![r] = {}]
        /\ kind' = [kind EXCEPT ![r] = "account"]
        /\ gone' = [gone EXCEPT ![r] = {}]
        /\ held' = [held EXCEPT ![r] = {}]
        /\ used' = [used EXCEPT ![r] = NoTarget]
        /\ UNCHANGED <<life, refreshing, nextKey>>
    BY DEF Commit, Ends, Goes
  <2> QED BY <2>1, <2>2, <2>3, <2>4, <2>5 DEF TypeOK, KeyInv, Kinds
<1>2. LockInv'
  BY DEF Commit, Ends, Goes, Asks, TypeOK, LockInv, PhaseInv, OwnerInv, Writing,
         KeyInv, tables, inputs, writes, observed
<1>3. PhaseInv'
  BY DEF Commit, Ends, Goes, Asks, TypeOK, PhaseInv, KeyInv, tables, inputs, writes,
         observed
<1>4. OwnerInv'
  BY DEF Commit, Ends, Goes, Asks, TypeOK, LockInv, PhaseInv, OwnerInv, Writing,
         KeyInv, tables, inputs, writes, observed
<1>5. HeldInv'
  BY DEF Commit, Ends, Goes, Asks, TypeOK, LockInv, PhaseInv, HeldInv, HeldOK, DeleteInv,
         Writing, Deleting, KeyInv, tables, inputs, writes, observed
<1>6. GoneInv'
  <2>1. \A q \in Requests : Writing(q)' => q # r /\ Writing(q)
    BY <1>e, <1>f DEF Writing
  <2>2. \A q \in Requests : Writing(q)' => bindings'[key'[q]] = bindings[key[q]]
    BY <1>c, <1>d, <1>e, <2>1 DEF KeyInv, TypeOK
  <2> QED BY <1>e, <2>1, <2>2 DEF KeyInv, GoneInv, OfKind
<1>7. DeleteInv'
  BY DEF Commit, Ends, Goes, Asks, TypeOK, PhaseInv, DeleteInv, KeyInv, tables,
         inputs, writes, observed
<1>8. ScopeInv'
  BY <1>a DEF Commit, KeyInv, TypeOK, ScopeInv
<1>9. GateInv'
  <2>1. \A q \in Requests : pc'[q] \in {"gateKey", "gateAccounts"} => q # r /\ op[q] = "chat"
    BY <1>e, <1>f DEF KeyInv, PhaseInv
  <2>2. \A q \in Requests : pc'[q] \in {"gateKey", "gateAccounts"} => bindings'[key'[q]] \subseteq open'[q]
    BY <1>a, <1>c, <1>e, <2>1 DEF Commit, Asks, KeyInv, TypeOK, GateInv, PhaseInv
  <2>3. \A q \in Requests : pc'[q] = "gateAccounts" => admitted'[q]
    BY <1>e, <2>1 DEF Commit, KeyInv, TypeOK, GateInv
  <2>4. \A q \in Requests : pc'[q] = "gateKey" => (valid'[key'[q]] => admitted'[q])
    <3> SUFFICES ASSUME NEW q \in Requests, pc'[q] = "gateKey", valid'[key'[q]]
                 PROVE  admitted'[q]
      OBVIOUS
    <3>1. q # r /\ op[q] = "chat" /\ key[q] \in KeyIds /\ pc[q] = "gateKey" /\ key'[q] = key[q]
      BY <1>e, <2>1 DEF KeyInv, PhaseInv
    <3>2. CASE key[q] = key[r] /\ op[r] = "create"
      BY <3>1, <3>2 DEF Commit, Asks
    <3>3. CASE ~(key[q] = key[r] /\ op[r] = "create")
      <4>1. valid[key[q]]
        BY <1>a, <3>1, <3>3 DEF Commit, KeyInv, TypeOK
      <4>2. admitted[q]
        BY <3>1, <4>1 DEF KeyInv, GateInv
      <4> QED BY <4>2 DEF Commit
    <3> QED BY <3>2, <3>3
  <2> QED BY <2>2, <2>3, <2>4 DEF GateInv
<1>10. ScopeIsLastReplacement'
  <2>1. scope' = [scope EXCEPT ![key[r]] = ids[r]] /\ life' = life
    BY DEF Commit
  <2>2. \A k \in KeyIds : k # key[r] => keyOwner'[k] = keyOwner[k]
    BY DEF Commit, KeyInv, TypeOK
  <2> QED BY <1>a, <1>c, <2>1, <2>2 DEF KeyInv, TypeOK, ScopeIsLastReplacement, Exists
<1>11. BindingsSound'
  <2>1. keyOwner' = [keyOwner EXCEPT ![key[r]] = user[r]] /\ life' = life
    BY DEF Commit
  <2> QED BY <1>a, <1>c, <2>1 DEF KeyInv, TypeOK, BindingsSound, Exists
<1>12. ChatWithinScope'
  BY DEF Commit, Ends, Goes, Asks, TypeOK, PhaseInv, ChatWithinScope, KeyInv, tables,
         inputs, writes, observed
<1> QED BY <1>1, <1>2, <1>3, <1>4, <1>5, <1>6, <1>7, <1>8, <1>9, <1>10, <1>11, <1>12 DEF KeyInv

\* A key is disabled or enabled.
LEMMA UpdateApikeyInv ==
  ASSUME KeyInv, NEW u \in Users, NEW k \in KeyIds, NEW v \in BOOLEAN, UpdateApikey(u, k, v)
  PROVE  KeyInv'
<1>1. TypeOK'
  BY DEF UpdateApikey, Asks, TypeOK, KeyInv, tables, inputs, writes, observed
<1>2. LockInv'
  BY DEF UpdateApikey, Asks, TypeOK, LockInv, PhaseInv, OwnerInv, Writing, KeyInv,
         tables, inputs, writes, observed
<1>3. PhaseInv'
  BY DEF UpdateApikey, Asks, TypeOK, PhaseInv, KeyInv, tables, inputs, writes,
         observed
<1>4. OwnerInv'
  BY DEF UpdateApikey, Asks, TypeOK, LockInv, PhaseInv, OwnerInv, Writing, KeyInv,
         tables, inputs, writes, observed
<1>5. HeldInv'
  BY DEF UpdateApikey, Asks, TypeOK, LockInv, PhaseInv, HeldInv, HeldOK, DeleteInv, Writing,
         Deleting, KeyInv, tables, inputs, writes, observed
<1>6. GoneInv'
  BY DEF UpdateApikey, Asks, TypeOK, LockInv, PhaseInv, OwnerInv, GoneInv, Writing,
         OfKind, KeyInv, tables, inputs, writes, observed
<1>7. DeleteInv'
  BY DEF UpdateApikey, Asks, TypeOK, PhaseInv, DeleteInv, KeyInv, tables, inputs,
         writes, observed
<1>8. ScopeInv'
  BY DEF UpdateApikey, Asks, TypeOK, ScopeInv, KeyInv, tables, inputs, writes,
         observed
<1>9. GateInv'
  BY DEF UpdateApikey, Asks, TypeOK, PhaseInv, GateInv, KeyInv, tables, inputs,
         writes, observed
<1>10. ScopeIsLastReplacement'
  BY DEF UpdateApikey, Asks, TypeOK, ScopeIsLastReplacement, DeleteInv, ScopeInv,
         Exists, KeyInv, tables, inputs, writes, observed
<1>11. BindingsSound'
  BY DEF UpdateApikey, Asks, TypeOK, BindingsSound, Exists, KeyInv, tables, inputs,
         writes, observed
<1>12. ChatWithinScope'
  BY DEF UpdateApikey, Asks, TypeOK, PhaseInv, ChatWithinScope, KeyInv, tables,
         inputs, writes, observed
<1> QED BY <1>1, <1>2, <1>3, <1>4, <1>5, <1>6, <1>7, <1>8, <1>9, <1>10, <1>11, <1>12 DEF KeyInv

\* A key expires.
LEMMA KeyExpiresInv ==
  ASSUME KeyInv, NEW k \in KeyIds, KeyExpires(k)
  PROVE  KeyInv'
<1>1. TypeOK'
  BY DEF KeyExpires, TypeOK, KeyInv, tables, inputs, writes, observed
<1>2. LockInv'
  BY DEF KeyExpires, TypeOK, LockInv, PhaseInv, OwnerInv, Writing, KeyInv, tables,
         inputs, writes, observed
<1>3. PhaseInv'
  BY DEF KeyExpires, TypeOK, PhaseInv, KeyInv, tables, inputs, writes, observed
<1>4. OwnerInv'
  BY DEF KeyExpires, TypeOK, LockInv, PhaseInv, OwnerInv, Writing, KeyInv, tables,
         inputs, writes, observed
<1>5. HeldInv'
  BY DEF KeyExpires, TypeOK, LockInv, PhaseInv, HeldInv, HeldOK, DeleteInv, Writing, Deleting,
         KeyInv, tables, inputs, writes, observed
<1>6. GoneInv'
  BY DEF KeyExpires, TypeOK, LockInv, PhaseInv, OwnerInv, GoneInv, Writing, OfKind,
         KeyInv, tables, inputs, writes, observed
<1>7. DeleteInv'
  BY DEF KeyExpires, TypeOK, PhaseInv, DeleteInv, KeyInv, tables, inputs, writes,
         observed
<1>8. ScopeInv'
  BY DEF KeyExpires, TypeOK, ScopeInv, KeyInv, tables, inputs, writes, observed
<1>9. GateInv'
  BY DEF KeyExpires, TypeOK, PhaseInv, GateInv, KeyInv, tables, inputs, writes,
         observed
<1>10. ScopeIsLastReplacement'
  BY DEF KeyExpires, TypeOK, ScopeIsLastReplacement, DeleteInv, ScopeInv, Exists,
         KeyInv, tables, inputs, writes, observed
<1>11. BindingsSound'
  BY DEF KeyExpires, TypeOK, BindingsSound, Exists, KeyInv, tables, inputs, writes,
         observed
<1>12. ChatWithinScope'
  BY DEF KeyExpires, TypeOK, PhaseInv, ChatWithinScope, KeyInv, tables, inputs,
         writes, observed
<1> QED BY <1>1, <1>2, <1>3, <1>4, <1>5, <1>6, <1>7, <1>8, <1>9, <1>10, <1>11, <1>12 DEF KeyInv

\* A key is deleted with its bindings; its id does not come back.
LEMMA DeleteApikeyInv ==
  ASSUME KeyInv, NEW u \in Users, NEW k \in KeyIds, DeleteApikey(u, k)
  PROVE  KeyInv'
<1>1. TypeOK'
  BY DEF DeleteApikey, TypeOK, KeyInv, tables, inputs, writes, observed
<1>2. LockInv'
  BY DEF DeleteApikey, TypeOK, LockInv, PhaseInv, OwnerInv, Writing, KeyInv, tables,
         inputs, writes, observed
<1>3. PhaseInv'
  BY DEF DeleteApikey, TypeOK, PhaseInv, KeyInv, tables, inputs, writes, observed
<1>4. OwnerInv'
  BY DEF DeleteApikey, TypeOK, LockInv, PhaseInv, OwnerInv, Writing, KeyInv, tables,
         inputs, writes, observed
<1>5. HeldInv'
  BY DEF DeleteApikey, TypeOK, LockInv, PhaseInv, HeldInv, HeldOK, DeleteInv, Writing,
         Deleting, KeyInv, tables, inputs, writes, observed
<1>6. GoneInv'
  BY DEF DeleteApikey, TypeOK, LockInv, PhaseInv, OwnerInv, GoneInv, Writing, OfKind,
         KeyInv, tables, inputs, writes, observed
<1>7. DeleteInv'
  BY DEF DeleteApikey, TypeOK, PhaseInv, DeleteInv, KeyInv, tables, inputs, writes,
         observed
<1>8. ScopeInv'
  BY DEF DeleteApikey, TypeOK, ScopeInv, KeyInv, tables, inputs, writes, observed
<1>9. GateInv'
  BY DEF DeleteApikey, TypeOK, PhaseInv, GateInv, KeyInv, tables, inputs, writes,
         observed
<1>10. ScopeIsLastReplacement'
  BY DEF DeleteApikey, TypeOK, ScopeIsLastReplacement, DeleteInv, ScopeInv, Exists,
         KeyInv, tables, inputs, writes, observed
<1>11. BindingsSound'
  BY DEF DeleteApikey, TypeOK, BindingsSound, Exists, KeyInv, tables, inputs, writes,
         observed
<1>12. ChatWithinScope'
  BY DEF DeleteApikey, TypeOK, PhaseInv, ChatWithinScope, KeyInv, tables, inputs,
         writes, observed
<1> QED BY <1>1, <1>2, <1>3, <1>4, <1>5, <1>6, <1>7, <1>8, <1>9, <1>10, <1>11, <1>12 DEF KeyInv

\* The gate's first read finds a valid key.
LEMMA AdmitsInv ==
  ASSUME KeyInv, NEW r \in Requests, pc[r] = "gateKey", KeyAccepted(key[r]), Admits(r)
  PROVE  KeyInv'
<1>1. TypeOK'
  <2>1. keyOwner[key[r]] \in Users \cup {NoUser}
    BY DEF KeyInv, TypeOK, PhaseInv
  <2> QED BY <2>1 DEF Admits, Goes, KeyInv, TypeOK, tables, inputs, writes, observed
<1>2. LockInv'
  BY DEF Admits, Goes, KeyAccepted, Exists, TypeOK, LockInv, PhaseInv, OwnerInv,
         Writing, KeyInv, tables, inputs, writes, observed
<1>3. PhaseInv'
  BY DEF Admits, Goes, KeyAccepted, Exists, TypeOK, PhaseInv, KeyInv, tables, inputs,
         writes, observed
<1>4. OwnerInv'
  BY DEF Admits, Goes, KeyAccepted, Exists, TypeOK, LockInv, PhaseInv, OwnerInv,
         Writing, KeyInv, tables, inputs, writes, observed
<1>5. HeldInv'
  BY DEF Admits, Goes, KeyAccepted, Exists, TypeOK, LockInv, PhaseInv, HeldInv, HeldOK,
         DeleteInv, Writing, Deleting, KeyInv, tables, inputs, writes, observed
<1>6. GoneInv'
  BY DEF Admits, Goes, KeyAccepted, Exists, TypeOK, LockInv, PhaseInv, OwnerInv,
         GoneInv, Writing, OfKind, KeyInv, tables, inputs, writes, observed
<1>7. DeleteInv'
  BY DEF Admits, Goes, KeyAccepted, Exists, TypeOK, PhaseInv, DeleteInv, KeyInv,
         tables, inputs, writes, observed
<1>8. ScopeInv'
  BY DEF Admits, Goes, KeyAccepted, Exists, TypeOK, ScopeInv, KeyInv, tables, inputs,
         writes, observed
<1>9. GateInv'
  BY DEF Admits, Goes, KeyAccepted, Exists, TypeOK, PhaseInv, GateInv, KeyInv, tables,
         inputs, writes, observed
<1>10. ScopeIsLastReplacement'
  BY DEF Admits, Goes, KeyAccepted, Exists, TypeOK, ScopeIsLastReplacement, DeleteInv,
         ScopeInv, KeyInv, tables, inputs, writes, observed
<1>11. BindingsSound'
  BY DEF Admits, Goes, KeyAccepted, Exists, TypeOK, BindingsSound, KeyInv, tables,
         inputs, writes, observed
<1>12. ChatWithinScope'
  BY DEF Admits, Goes, KeyAccepted, Exists, TypeOK, PhaseInv, ChatWithinScope, KeyInv,
         tables, inputs, writes, observed
<1> QED BY <1>1, <1>2, <1>3, <1>4, <1>5, <1>6, <1>7, <1>8, <1>9, <1>10, <1>11, <1>12 DEF KeyInv

\* The gate's second read finds an account in scope.
LEMMA SelectsInv ==
  ASSUME KeyInv, NEW r \in Requests, pc[r] = "gateAccounts", NEW t \in BoundAccounts(r), Selects(r, t)
  PROVE  KeyInv'
<1>1. TypeOK'
  BY DEF Selects, Goes, BoundAccounts, OwnedBy, TypeOK, KeyInv, tables, inputs,
         writes, observed
<1>2. LockInv'
  BY DEF Selects, Goes, BoundAccounts, OwnedBy, TypeOK, LockInv, PhaseInv, OwnerInv,
         Writing, KeyInv, tables, inputs, writes, observed
<1>3. PhaseInv'
  BY DEF Selects, Goes, BoundAccounts, OwnedBy, TypeOK, PhaseInv, KeyInv, tables,
         inputs, writes, observed
<1>4. OwnerInv'
  BY DEF Selects, Goes, BoundAccounts, OwnedBy, TypeOK, LockInv, PhaseInv, OwnerInv,
         Writing, KeyInv, tables, inputs, writes, observed
<1>5. HeldInv'
  BY DEF Selects, Goes, BoundAccounts, OwnedBy, TypeOK, LockInv, PhaseInv, HeldInv, HeldOK,
         DeleteInv, Writing, Deleting, KeyInv, tables, inputs, writes, observed
<1>6. GoneInv'
  BY DEF Selects, Goes, BoundAccounts, OwnedBy, TypeOK, LockInv, PhaseInv, OwnerInv,
         GoneInv, Writing, OfKind, KeyInv, tables, inputs, writes, observed
<1>7. DeleteInv'
  BY DEF Selects, Goes, BoundAccounts, OwnedBy, TypeOK, PhaseInv, DeleteInv, KeyInv,
         tables, inputs, writes, observed
<1>8. ScopeInv'
  BY DEF Selects, Goes, BoundAccounts, OwnedBy, TypeOK, ScopeInv, KeyInv, tables,
         inputs, writes, observed
<1>9. GateInv'
  BY DEF Selects, Goes, BoundAccounts, OwnedBy, TypeOK, PhaseInv, GateInv, KeyInv,
         tables, inputs, writes, observed
<1>10. ScopeIsLastReplacement'
  BY DEF Selects, Goes, BoundAccounts, OwnedBy, TypeOK, ScopeIsLastReplacement,
         DeleteInv, ScopeInv, Exists, KeyInv, tables, inputs, writes, observed
<1>11. BindingsSound'
  BY DEF Selects, Goes, BoundAccounts, OwnedBy, TypeOK, BindingsSound, Exists, KeyInv,
         tables, inputs, writes, observed
<1>12. ChatWithinScope'
  BY DEF Selects, Goes, BoundAccounts, OwnedBy, TypeOK, PhaseInv, GateInv, ChatWithinScope, KeyInv,
         tables, inputs, writes, observed
<1> QED BY <1>1, <1>2, <1>3, <1>4, <1>5, <1>6, <1>7, <1>8, <1>9, <1>10, <1>11, <1>12 DEF KeyInv

\* At the start nothing exists and nobody works.
LEMMA InitInv == Init => KeyInv
<1> SUFFICES ASSUME Init PROVE KeyInv
  OBVIOUS
<1>1. TypeOK
  BY DEF Init, TypeOK
<1>2. LockInv /\ PhaseInv /\ OwnerInv /\ HeldInv /\ GoneInv
  BY DEF Init, LockInv, PhaseInv, OwnerInv, HeldInv, HeldOK, GoneInv, Writing
<1>3. DeleteInv /\ ScopeInv /\ GateInv /\ ScopeIsLastReplacement /\ BindingsSound /\ ChatWithinScope
  BY DEF Init, DeleteInv, ScopeInv, GateInv, ScopeIsLastReplacement, BindingsSound,
         ChatWithinScope, Exists
<1> QED BY <1>1, <1>2, <1>3 DEF KeyInv

\* A stuttering step.
LEMMA StutterInv ==
  ASSUME KeyInv, UNCHANGED vars
  PROVE  KeyInv'
BY DEF vars, KeyInv, TypeOK, LockInv, PhaseInv, OwnerInv, HeldInv, HeldOK, GoneInv, DeleteInv, ScopeInv,
       GateInv, ScopeIsLastReplacement, BindingsSound, ChatWithinScope, Writing, Deleting, Exists,
       OfKind

\* The steps of a request: most of them may end in a rollback.
LEMMA RequestStepInv ==
  ASSUME KeyInv, NEW r \in Requests, RequestStep(r)
  PROVE  KeyInv'
<1>1. CASE DeleteLocks(r)
  BY <1>1, DeleteLocksInv
<1>2. CASE Cascade(r)
  BY <1>2, CascadeInv
<1>3. CASE LockKey(r)
  BY <1>3, LockKeyInv
<1>4. CASE Count(r)
  BY <1>4, CountedInv, RollbackInv DEF Count
<1>5. CASE CreateKey(r)
  BY <1>5, CreateKeyInv
<1>6. CASE Clear(r)
  BY <1>6, ClearInv
<1>7. CASE InsertBindings(r)
  BY <1>7, InsertBindingsInv
<1>8. CASE Commit(r) \/ Inserted(r)
  BY <1>8, CommitInv, InsertedInv
<1>9. CASE GateKey(r)
  BY <1>9, AdmitsInv, RollbackInv DEF GateKey
<1>10. CASE GateAccounts(r)
  <2>1. CASE \E t \in BoundAccounts(r) : Selects(r, t)
    BY <1>10, <2>1, SelectsInv DEF GateAccounts
  <2>2. CASE Rollback(r)
    BY <2>2, RollbackInv
  <2> QED BY <1>10, <2>1, <2>2 DEF GateAccounts
<1>11. CASE \/ DeleteFindsNothing(r) \/ KeyNotFound(r) \/ ForeignKeyViolated(r)
            \/ Canceled(r) \/ ChatEnds(r)
  BY <1>11, RollbackInv
  DEF DeleteFindsNothing, KeyNotFound, ForeignKeyViolated, Canceled, ChatEnds
<1> QED BY <1>1, <1>2, <1>3, <1>4, <1>5, <1>6, <1>7, <1>8, <1>9, <1>10, <1>11 DEF RequestStep

\* KeyInv is inductive.
LEMMA StepInv ==
  ASSUME KeyInv, [Next]_vars
  PROVE  KeyInv'
<1>1. CASE UNCHANGED vars
  BY <1>1, StutterInv
<1>2. CASE \E t \in Targets : TargetAdded(t) \/ RefreshLocks(t) \/ RefreshReleases(t)
  BY <1>2, TargetAddedInv, RefreshLocksInv, RefreshReleasesInv
<1>3. CASE \E r \in Requests, u \in Users :
             \/ \E t \in Targets : StartDelete(r, u, t)
             \/ \E ts \in SUBSET Targets : StartCreate(r, u, ts)
             \/ \E ts \in SUBSET Targets, k \in KeyIds : StartReplace(r, u, k, ts)
  BY <1>3, StartDeleteInv, StartCreateInv, StartReplaceInv
<1>4. CASE \E r \in Requests, k \in KeyIds : StartChat(r, k)
  BY <1>4, StartChatInv
<1>5. CASE \E r \in Requests : RequestStep(r)
  BY <1>5, RequestStepInv
<1>6. CASE \E r, d \in Requests : DeadlockDetected(r, d)
  BY <1>6, RollbackInv DEF DeadlockDetected
<1>7. CASE \E u \in Users, k \in KeyIds :
             DeleteApikey(u, k) \/ \E v \in BOOLEAN : UpdateApikey(u, k, v)
  BY <1>7, DeleteApikeyInv, UpdateApikeyInv
<1>8. CASE \E k \in KeyIds : KeyExpires(k)
  BY <1>8, KeyExpiresInv
<1> QED BY <1>1, <1>2, <1>3, <1>4, <1>5, <1>6, <1>7, <1>8 DEF Next

\* The inductive invariant of the API keys, for any number of concurrent
\* requests, users, accounts, external keys and API keys.
THEOREM KeyInvariance == Spec => []KeyInv
BY InitInv, StepInv, PTL DEF Spec

\* Concurrent replacements of a key never merge, and a failed one leaves the scope
\* as it was: "Serialize replacements of the same key so concurrent requests
\* cannot merge scopes" (ReplaceApikeyAccounts).
THEOREM ReplacementsDoNotMerge == Spec => []ScopeIsLastReplacement
<1>1. KeyInv => ScopeIsLastReplacement
  BY DEF KeyInv
<1> QED BY <1>1, KeyInvariance, PTL

\* The composite foreign keys and the locks they take keep every binding within
\* one user and between rows that exist.
THEOREM BindingsAreSound == Spec => []BindingsSound
<1>1. KeyInv => BindingsSound
  BY DEF KeyInv
<1> QED BY <1>1, KeyInvariance, PTL

\* The two reads of the gate give a chat no account that left the key's scope, and
\* no key that lost its validity, before the request came in.
THEOREM ChatsStayInScope == Spec => []ChatWithinScope
<1>1. KeyInv => ChatWithinScope
  BY DEF KeyInv
<1> QED BY <1>1, KeyInvariance, PTL
=============================================================================
