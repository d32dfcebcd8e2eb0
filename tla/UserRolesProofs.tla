--------------------------- MODULE UserRolesProofs ---------------------------
(***************************************************************************)
(* Proofs about users and the synchronisation of their roles, for any      *)
(* number of instances, calls, users and roles.  RoleInv is inductive: its *)
(* part OverlapInv, that calls which run side by side know of each other,  *)
(* is what the claims of a call follow from.                               *)
(***************************************************************************)
EXTENDS UserRoles, TLAPS

\* The initial state satisfies the invariant.
LEMMA InitInv == Init => RoleInv
BY RoleAssumptions DEF Init, RoleInv, TypeOK, BootstrapInv, CallInv, OverlapInv, MemoryInv,
       AloneIsExact, ClaimsWereAsked, BootstrapNameIsSafe, Active

\* The call that begins, and those it overlaps with, keep their types.
LEMMA BeginsTyped ==
  ASSUME RoleInv, NEW c \in Calls, NEW i \in Instances, NEW u \in Users, NEW r \in Roles,
         Begins(c, i, u, r)
  PROVE  /\ pc' \in [Calls -> {"idle", "reading", "deleting", "adding", "claiming", "returned",
                               "failed"}]
         /\ at' \in [Calls -> Instances \cup {NoInstance}]
         /\ subject' \in [Calls -> Users \cup {NoUser}]
         /\ desired' \in [Calls -> Roles \cup {NoRole}]
         /\ alone' \in [Calls -> BOOLEAN]
         /\ among' \in [Calls -> SUBSET Roles]
<1>1. \A d \in Running(i, u) : d \in Calls /\ desired[d] \in Roles
  BY DEF Running, Active, RoleInv, CallInv
<1>2. among' \in [Calls -> SUBSET Roles]
  BY <1>1 DEF Begins, RoleInv, TypeOK
<1>3. alone' \in [Calls -> BOOLEAN]
  BY DEF Begins, RoleInv, TypeOK
<1>4. /\ at' \in [Calls -> Instances \cup {NoInstance}]
      /\ subject' \in [Calls -> Users \cup {NoUser}]
      /\ desired' \in [Calls -> Roles \cup {NoRole}]
  BY DEF Begins, RoleInv, TypeOK
<1>5. pc' \in [Calls -> {"idle", "reading", "deleting", "adding", "claiming", "returned",
                         "failed"}]
  BY DEF Begins, RoleInv, TypeOK
<1> QED BY <1>2, <1>3, <1>4, <1>5

\* Both sides of an overlap note it.
LEMMA BeginsKnown ==
  ASSUME RoleInv, NEW c \in Calls, NEW i \in Instances, NEW u \in Users, NEW r \in Roles,
         Begins(c, i, u, r)
  PROVE  OverlapInv'
<1> SUFFICES ASSUME NEW d \in Calls, NEW e \in Calls,
                    Active(d)', Active(e)', at'[d] = at'[e], subject'[d] = subject'[e]
             PROVE  desired'[e] \in among'[d] /\ (d # e => ~alone'[d])
  BY DEF OverlapInv
<1>1. at'[c] = i /\ subject'[c] = u /\ desired'[c] = r
  BY DEF Begins, RoleInv, TypeOK
<1>2. \A q \in Calls : q # c => /\ at'[q] = at[q] /\ subject'[q] = subject[q]
                                /\ desired'[q] = desired[q] /\ pc'[q] = pc[q]
  BY DEF Begins, RoleInv, TypeOK
<1>3. \A q \in Calls : q # c => (Active(q)' <=> Active(q))
  BY <1>2 DEF Active
<1>4. c \notin Running(i, u)
  BY DEF Begins, Running, Active
<1>5. CASE d = c /\ e = c
  BY <1>1, <1>5 DEF Begins
<1>6. CASE d = c /\ e # c
  <2>1. e \in Running(i, u)
    BY <1>1, <1>2, <1>3, <1>6 DEF Running
  <2>2. desired[e] \in among'[c]
    BY <2>1 DEF Begins
  <2>3. ~alone'[c]
    BY <2>1 DEF Begins
  <2> QED BY <1>2, <1>6, <2>2, <2>3
<1>7. CASE d # c /\ e = c
  <2>1. d \in Running(i, u)
    BY <1>1, <1>2, <1>3, <1>7 DEF Running
  <2>2. r \in among'[d]
    BY <2>1, <1>7 DEF Begins
  <2>3. ~alone'[d]
    BY <2>1, <1>7 DEF Begins
  <2> QED BY <1>1, <1>7, <2>2, <2>3
<1>8. CASE d # c /\ e # c
  <2>1. desired[e] \in among[d] /\ (d # e => ~alone[d])
    BY <1>2, <1>3, <1>8 DEF RoleInv, OverlapInv
  <2>2. among[d] \subseteq among'[d]
    BY <1>8 DEF Begins
  <2>3. alone'[d] => alone[d]
    BY <1>8 DEF Begins
  <2> QED BY <1>2, <1>8, <2>1, <2>2, <2>3
<1> QED BY <1>5, <1>6, <1>7, <1>8

\* Start preserves the invariant.
LEMMA StartInv ==
  ASSUME RoleInv, NEW i \in Instances, Start(i)
  PROVE  RoleInv'
<1>1. TypeOK'
  BY RoleAssumptions DEF Start, StepsTo, RoleInv, TypeOK, CallInv, tables, processes,
         call, observed
<1>2. BootstrapInv'
  BY RoleAssumptions DEF Start, StepsTo, RoleInv, TypeOK, BootstrapInv, tables, processes,
         call, observed
<1>3. CallInv'
  BY RoleAssumptions DEF Start, StepsTo, RoleInv, TypeOK, CallInv, tables, processes,
         call, observed
<1>4. OverlapInv'
  BY RoleAssumptions DEF Start, StepsTo, RoleInv, TypeOK, CallInv, OverlapInv, Active,
         tables, processes, call, observed
<1>5. MemoryInv'
  BY RoleAssumptions DEF Start, StepsTo, RoleInv, TypeOK, CallInv, OverlapInv, MemoryInv,
         Active, tables, processes, call, observed
<1>6. AloneIsExact'
  BY RoleAssumptions DEF Start, StepsTo, RoleInv, TypeOK, CallInv, MemoryInv,
         AloneIsExact, tables, processes, call, observed
<1>7. ClaimsWereAsked'
  BY RoleAssumptions DEF Start, StepsTo, RoleInv, TypeOK, CallInv, MemoryInv,
         ClaimsWereAsked, tables, processes, call, observed
<1>8. BootstrapNameIsSafe'
  BY RoleAssumptions DEF Start, StepsTo, RoleInv, TypeOK, BootstrapInv,
         BootstrapNameIsSafe, tables, processes, call, observed
<1> QED BY <1>1, <1>2, <1>3, <1>4, <1>5, <1>6, <1>7, <1>8 DEF RoleInv

\* BootstrapLooks preserves the invariant.
LEMMA BootstrapLooksInv ==
  ASSUME RoleInv, NEW i \in Instances, BootstrapLooks(i)
  PROVE  RoleInv'
<1>1. TypeOK'
  BY RoleAssumptions DEF BootstrapLooks, StepsTo, RoleInv, TypeOK, CallInv, tables,
         processes, call, observed
<1>2. BootstrapInv'
  BY RoleAssumptions DEF BootstrapLooks, StepsTo, RoleInv, TypeOK, BootstrapInv, tables,
         processes, call, observed
<1>3. CallInv'
  BY RoleAssumptions DEF BootstrapLooks, StepsTo, RoleInv, TypeOK, CallInv, tables,
         processes, call, observed
<1>4. OverlapInv'
  BY RoleAssumptions DEF BootstrapLooks, StepsTo, RoleInv, TypeOK, CallInv, OverlapInv,
         Active, tables, processes, call, observed
<1>5. MemoryInv'
  BY RoleAssumptions DEF BootstrapLooks, StepsTo, RoleInv, TypeOK, CallInv, OverlapInv,
         MemoryInv, Active, tables, processes, call, observed
<1>6. AloneIsExact'
  BY RoleAssumptions DEF BootstrapLooks, StepsTo, RoleInv, TypeOK, CallInv, MemoryInv,
         AloneIsExact, tables, processes, call, observed
<1>7. ClaimsWereAsked'
  BY RoleAssumptions DEF BootstrapLooks, StepsTo, RoleInv, TypeOK, CallInv, MemoryInv,
         ClaimsWereAsked, tables, processes, call, observed
<1>8. BootstrapNameIsSafe'
  BY RoleAssumptions DEF BootstrapLooks, StepsTo, RoleInv, TypeOK, BootstrapInv,
         BootstrapNameIsSafe, tables, processes, call, observed
<1> QED BY <1>1, <1>2, <1>3, <1>4, <1>5, <1>6, <1>7, <1>8 DEF RoleInv

\* BootstrapInserts preserves the invariant.
LEMMA BootstrapInsertsInv ==
  ASSUME RoleInv, NEW i \in Instances, BootstrapInserts(i)
  PROVE  RoleInv'
<1>1. TypeOK'
  <2>1. role' \in [Users -> Roles \cup {NoRole}]
    BY RoleAssumptions DEF BootstrapInserts, RoleInv, TypeOK
  <2>2. inst' \in [Instances -> {"down", "starting", "inserting", "loading", "up"}]
    BY DEF BootstrapInserts, StepsTo, RoleInv, TypeOK
  <2> QED BY <2>1, <2>2 DEF BootstrapInserts, RoleInv, TypeOK, call, observed
<1>2. BootstrapInv'
  BY RoleAssumptions DEF BootstrapInserts, StepsTo, RoleInv, TypeOK, BootstrapInv, tables,
         processes, call, observed
<1>3. CallInv'
  BY RoleAssumptions DEF BootstrapInserts, StepsTo, RoleInv, TypeOK, CallInv, tables,
         processes, call, observed
<1>4. OverlapInv'
  BY RoleAssumptions DEF BootstrapInserts, StepsTo, RoleInv, TypeOK, CallInv, OverlapInv,
         Active, tables, processes, call, observed
<1>5. MemoryInv'
  BY RoleAssumptions DEF BootstrapInserts, StepsTo, RoleInv, TypeOK, CallInv, OverlapInv,
         MemoryInv, Active, tables, processes, call, observed
<1>6. AloneIsExact'
  BY RoleAssumptions DEF BootstrapInserts, StepsTo, RoleInv, TypeOK, CallInv, MemoryInv,
         AloneIsExact, tables, processes, call, observed
<1>7. ClaimsWereAsked'
  BY RoleAssumptions DEF BootstrapInserts, StepsTo, RoleInv, TypeOK, CallInv, MemoryInv,
         ClaimsWereAsked, tables, processes, call, observed
<1>8. BootstrapNameIsSafe'
  BY RoleAssumptions DEF BootstrapInserts, StepsTo, RoleInv, TypeOK, BootstrapInv,
         BootstrapNameIsSafe, tables, processes, call, observed
<1> QED BY <1>1, <1>2, <1>3, <1>4, <1>5, <1>6, <1>7, <1>8 DEF RoleInv

\* NewEnforcer preserves the invariant.
LEMMA NewEnforcerInv ==
  ASSUME RoleInv, NEW i \in Instances, NewEnforcer(i)
  PROVE  RoleInv'
<1>1. TypeOK'
  BY RoleAssumptions DEF NewEnforcer, StepsTo, RoleInv, TypeOK, CallInv, tables,
         processes, call, observed
<1>2. BootstrapInv'
  BY RoleAssumptions DEF NewEnforcer, StepsTo, RoleInv, TypeOK, BootstrapInv, tables,
         processes, call, observed
<1>3. CallInv'
  BY RoleAssumptions DEF NewEnforcer, StepsTo, RoleInv, TypeOK, CallInv, tables,
         processes, call, observed
<1>4. OverlapInv'
  BY RoleAssumptions DEF NewEnforcer, StepsTo, RoleInv, TypeOK, CallInv, OverlapInv,
         Active, tables, processes, call, observed
<1>5. MemoryInv'
  BY RoleAssumptions DEF NewEnforcer, StepsTo, RoleInv, TypeOK, CallInv, OverlapInv,
         MemoryInv, Active, tables, processes, call, observed
<1>6. AloneIsExact'
  BY RoleAssumptions DEF NewEnforcer, StepsTo, RoleInv, TypeOK, CallInv, MemoryInv,
         AloneIsExact, tables, processes, call, observed
<1>7. ClaimsWereAsked'
  BY RoleAssumptions DEF NewEnforcer, StepsTo, RoleInv, TypeOK, CallInv, MemoryInv,
         ClaimsWereAsked, tables, processes, call, observed
<1>8. BootstrapNameIsSafe'
  BY RoleAssumptions DEF NewEnforcer, StepsTo, RoleInv, TypeOK, BootstrapInv,
         BootstrapNameIsSafe, tables, processes, call, observed
<1> QED BY <1>1, <1>2, <1>3, <1>4, <1>5, <1>6, <1>7, <1>8 DEF RoleInv

\* Crash preserves the invariant.
LEMMA CrashInv ==
  ASSUME RoleInv, NEW i \in Instances, Crash(i)
  PROVE  RoleInv'
<1>1. TypeOK'
  BY RoleAssumptions DEF Crash, StepsTo, RoleInv, TypeOK, CallInv, tables, processes,
         call, observed
<1>2. BootstrapInv'
  BY RoleAssumptions DEF Crash, StepsTo, RoleInv, TypeOK, BootstrapInv, tables, processes,
         call, observed
<1>3. CallInv'
  BY RoleAssumptions DEF Crash, StepsTo, RoleInv, TypeOK, CallInv, tables, processes,
         call, observed
<1>4. OverlapInv'
  BY RoleAssumptions DEF Crash, StepsTo, RoleInv, TypeOK, CallInv, OverlapInv, Active,
         tables, processes, call, observed
<1>5. MemoryInv'
  BY RoleAssumptions DEF Crash, StepsTo, RoleInv, TypeOK, CallInv, OverlapInv, MemoryInv,
         Active, tables, processes, call, observed
<1>6. AloneIsExact'
  BY RoleAssumptions DEF Crash, StepsTo, RoleInv, TypeOK, CallInv, MemoryInv,
         AloneIsExact, tables, processes, call, observed
<1>7. ClaimsWereAsked'
  BY RoleAssumptions DEF Crash, StepsTo, RoleInv, TypeOK, CallInv, MemoryInv,
         ClaimsWereAsked, tables, processes, call, observed
<1>8. BootstrapNameIsSafe'
  BY RoleAssumptions DEF Crash, StepsTo, RoleInv, TypeOK, BootstrapInv,
         BootstrapNameIsSafe, tables, processes, call, observed
<1> QED BY <1>1, <1>2, <1>3, <1>4, <1>5, <1>6, <1>7, <1>8 DEF RoleInv

\* RoleChanged preserves the invariant.
LEMMA RoleChangedInv ==
  ASSUME RoleInv, NEW u \in Users, NEW r \in Roles, RoleChanged(u, r)
  PROVE  RoleInv'
<1>1. TypeOK'
  BY RoleAssumptions DEF RoleChanged, RoleInv, TypeOK, CallInv, tables, processes, call,
         observed
<1>2. BootstrapInv'
  BY RoleAssumptions DEF RoleChanged, RoleInv, TypeOK, BootstrapInv, tables, processes,
         call, observed
<1>3. CallInv'
  BY RoleAssumptions DEF RoleChanged, RoleInv, TypeOK, CallInv, tables, processes, call,
         observed
<1>4. OverlapInv'
  BY RoleAssumptions DEF RoleChanged, RoleInv, TypeOK, CallInv, OverlapInv, Active,
         tables, processes, call, observed
<1>5. MemoryInv'
  BY RoleAssumptions DEF RoleChanged, RoleInv, TypeOK, CallInv, OverlapInv, MemoryInv,
         Active, tables, processes, call, observed
<1>6. AloneIsExact'
  BY RoleAssumptions DEF RoleChanged, RoleInv, TypeOK, CallInv, MemoryInv, AloneIsExact,
         tables, processes, call, observed
<1>7. ClaimsWereAsked'
  BY RoleAssumptions DEF RoleChanged, RoleInv, TypeOK, CallInv, MemoryInv,
         ClaimsWereAsked, tables, processes, call, observed
<1>8. BootstrapNameIsSafe'
  BY RoleAssumptions DEF RoleChanged, RoleInv, TypeOK, BootstrapInv, BootstrapNameIsSafe,
         tables, processes, call, observed
<1> QED BY <1>1, <1>2, <1>3, <1>4, <1>5, <1>6, <1>7, <1>8 DEF RoleInv

\* Authorize preserves the invariant.
LEMMA AuthorizeInv ==
  ASSUME RoleInv, NEW c \in Calls, NEW i \in Instances, NEW u \in Users, Authorize(c, i, u)
  PROVE  RoleInv'
<1>1. TypeOK'
  <2>1. "user" \in Roles
    BY RoleAssumptions
  <2>2. /\ pc' \in [Calls -> {"idle", "reading", "deleting", "adding", "claiming", "returned",
                            "failed"}]
        /\ at' \in [Calls -> Instances \cup {NoInstance}]
        /\ subject' \in [Calls -> Users \cup {NoUser}]
        /\ desired' \in [Calls -> Roles \cup {NoRole}]
        /\ alone' \in [Calls -> BOOLEAN]
        /\ among' \in [Calls -> SUBSET Roles]
    BY <2>1, BeginsTyped DEF Authorize, RoleInv, TypeOK
  <2> QED BY <2>1, <2>2 DEF Authorize, RoleInv, TypeOK, tables, processes
<1>2. BootstrapInv'
  BY RoleAssumptions DEF Authorize, Begins, Running, RoleInv, TypeOK, BootstrapInv,
         tables, processes, call, observed
<1>3. CallInv'
  BY RoleAssumptions DEF Authorize, Begins, Running, RoleInv, TypeOK, CallInv, tables,
         processes, call, observed
<1>4. OverlapInv'
  BY BeginsKnown, RoleAssumptions DEF Authorize, RoleInv, TypeOK
<1>5. MemoryInv'
  BY RoleAssumptions DEF Authorize, Begins, Running, RoleInv, TypeOK, CallInv, OverlapInv,
         MemoryInv, Active, tables, processes, call, observed
<1>6. AloneIsExact'
  BY RoleAssumptions DEF Authorize, Begins, Running, RoleInv, TypeOK, CallInv, MemoryInv,
         AloneIsExact, tables, processes, call, observed
<1>7. ClaimsWereAsked'
  BY RoleAssumptions DEF Authorize, Begins, Running, RoleInv, TypeOK, CallInv, MemoryInv,
         ClaimsWereAsked, tables, processes, call, observed
<1>8. BootstrapNameIsSafe'
  BY RoleAssumptions DEF Authorize, Begins, Running, RoleInv, TypeOK, BootstrapInv,
         BootstrapNameIsSafe, tables, processes, call, observed
<1> QED BY <1>1, <1>2, <1>3, <1>4, <1>5, <1>6, <1>7, <1>8 DEF RoleInv

\* Register preserves the invariant.
LEMMA RegisterInv ==
  ASSUME RoleInv, NEW c \in Calls, NEW i \in Instances, NEW u \in Users, Register(c, i, u)
  PROVE  RoleInv'
<1>1. TypeOK'
  <2>1. "user" \in Roles
    BY RoleAssumptions
  <2>2. /\ pc' \in [Calls -> {"idle", "reading", "deleting", "adding", "claiming", "returned",
                            "failed"}]
        /\ at' \in [Calls -> Instances \cup {NoInstance}]
        /\ subject' \in [Calls -> Users \cup {NoUser}]
        /\ desired' \in [Calls -> Roles \cup {NoRole}]
        /\ alone' \in [Calls -> BOOLEAN]
        /\ among' \in [Calls -> SUBSET Roles]
    BY <2>1, BeginsTyped DEF Register, RoleInv, TypeOK
  <2> QED BY <2>1, <2>2 DEF Register, RoleInv, TypeOK, tables, processes
<1>2. BootstrapInv'
  BY RoleAssumptions DEF Register, Begins, Running, RoleInv, TypeOK, BootstrapInv, tables,
         processes, call, observed
<1>3. CallInv'
  BY RoleAssumptions DEF Register, Begins, Running, RoleInv, TypeOK, CallInv, tables,
         processes, call, observed
<1>4. OverlapInv'
  BY BeginsKnown, RoleAssumptions DEF Register, RoleInv, TypeOK
<1>5. MemoryInv'
  BY RoleAssumptions DEF Register, Begins, Running, RoleInv, TypeOK, CallInv, OverlapInv,
         MemoryInv, Active, tables, processes, call, observed
<1>6. AloneIsExact'
  BY RoleAssumptions DEF Register, Begins, Running, RoleInv, TypeOK, CallInv, MemoryInv,
         AloneIsExact, tables, processes, call, observed
<1>7. ClaimsWereAsked'
  BY RoleAssumptions DEF Register, Begins, Running, RoleInv, TypeOK, CallInv, MemoryInv,
         ClaimsWereAsked, tables, processes, call, observed
<1>8. BootstrapNameIsSafe'
  BY RoleAssumptions DEF Register, Begins, Running, RoleInv, TypeOK, BootstrapInv,
         BootstrapNameIsSafe, tables, processes, call, observed
<1> QED BY <1>1, <1>2, <1>3, <1>4, <1>5, <1>6, <1>7, <1>8 DEF RoleInv

\* GetRolesForUser preserves the invariant.
LEMMA GetRolesForUserInv ==
  ASSUME RoleInv, NEW c \in Calls, GetRolesForUser(c)
  PROVE  RoleInv'
<1>1. TypeOK'
  BY RoleAssumptions DEF GetRolesForUser, Moves, RoleInv, TypeOK, CallInv, tables,
         processes, call, observed
<1>2. BootstrapInv'
  BY RoleAssumptions DEF GetRolesForUser, Moves, RoleInv, TypeOK, BootstrapInv, tables,
         processes, call, observed
<1>3. CallInv'
  BY RoleAssumptions DEF GetRolesForUser, Moves, RoleInv, TypeOK, CallInv, tables,
         processes, call, observed
<1>4. OverlapInv'
  BY RoleAssumptions DEF GetRolesForUser, Moves, RoleInv, TypeOK, CallInv, OverlapInv,
         Active, tables, processes, call, observed
<1>5. MemoryInv'
  BY RoleAssumptions DEF GetRolesForUser, Moves, RoleInv, TypeOK, CallInv, OverlapInv,
         MemoryInv, Active, tables, processes, call, observed
<1>6. AloneIsExact'
  BY RoleAssumptions DEF GetRolesForUser, Moves, RoleInv, TypeOK, CallInv, MemoryInv,
         AloneIsExact, tables, processes, call, observed
<1>7. ClaimsWereAsked'
  BY RoleAssumptions DEF GetRolesForUser, Moves, RoleInv, TypeOK, CallInv, MemoryInv,
         ClaimsWereAsked, tables, processes, call, observed
<1>8. BootstrapNameIsSafe'
  BY RoleAssumptions DEF GetRolesForUser, Moves, RoleInv, TypeOK, BootstrapInv,
         BootstrapNameIsSafe, tables, processes, call, observed
<1> QED BY <1>1, <1>2, <1>3, <1>4, <1>5, <1>6, <1>7, <1>8 DEF RoleInv

\* DeleteRolesForUser preserves the invariant.
LEMMA DeleteRolesForUserInv ==
  ASSUME RoleInv, NEW c \in Calls, DeleteRolesForUser(c)
  PROVE  RoleInv'
<1>1. TypeOK'
  BY RoleAssumptions DEF DeleteRolesForUser, Moves, RoleInv, TypeOK, CallInv, tables,
         processes, call, observed
<1>2. BootstrapInv'
  BY RoleAssumptions DEF DeleteRolesForUser, Moves, RoleInv, TypeOK, BootstrapInv, tables,
         processes, call, observed
<1>3. CallInv'
  BY RoleAssumptions DEF DeleteRolesForUser, Moves, RoleInv, TypeOK, CallInv, tables,
         processes, call, observed
<1>4. OverlapInv'
  BY RoleAssumptions DEF DeleteRolesForUser, Moves, RoleInv, TypeOK, CallInv, OverlapInv,
         Active, tables, processes, call, observed
<1>5. MemoryInv'
  BY RoleAssumptions DEF DeleteRolesForUser, Moves, RoleInv, TypeOK, CallInv, OverlapInv,
         MemoryInv, Active, tables, processes, call, observed
<1>6. AloneIsExact'
  BY RoleAssumptions DEF DeleteRolesForUser, Moves, RoleInv, TypeOK, CallInv, MemoryInv,
         AloneIsExact, tables, processes, call, observed
<1>7. ClaimsWereAsked'
  BY RoleAssumptions DEF DeleteRolesForUser, Moves, RoleInv, TypeOK, CallInv, MemoryInv,
         ClaimsWereAsked, tables, processes, call, observed
<1>8. BootstrapNameIsSafe'
  BY RoleAssumptions DEF DeleteRolesForUser, Moves, RoleInv, TypeOK, BootstrapInv,
         BootstrapNameIsSafe, tables, processes, call, observed
<1> QED BY <1>1, <1>2, <1>3, <1>4, <1>5, <1>6, <1>7, <1>8 DEF RoleInv

\* AddRoleForUser preserves the invariant.
LEMMA AddRoleForUserInv ==
  ASSUME RoleInv, NEW c \in Calls, AddRoleForUser(c)
  PROVE  RoleInv'
<1>a. UNCHANGED <<role, inst, at, subject, desired, claims, registered, alone, among>>
  BY DEF AddRoleForUser, call, observed
<1>b. /\ \A d \in Calls : d # c => pc'[d] = pc[d]
      /\ pc[c] = "adding" /\ pc'[c] \in {"claiming", "failed"}
  BY DEF AddRoleForUser, Moves, RoleInv, TypeOK
<1>c. \A d \in Calls : Active(d)' => Active(d)
  BY <1>b DEF Active
<1>1. TypeOK'
  <2>1. subject[c] \in Users /\ at[c] \in Instances /\ desired[c] \in Roles
    BY DEF AddRoleForUser, RoleInv, CallInv
  <2>2. rules' \in [Users -> SUBSET Roles]
    BY <2>1 DEF AddRoleForUser, RoleInv, TypeOK
  <2>3. memory' \in [Instances -> [Users -> SUBSET Roles]]
    <3>1. CASE UNCHANGED memory
      BY <3>1 DEF RoleInv, TypeOK
    <3>2. CASE memory' = [memory EXCEPT ![at[c]][subject[c]] = @ \cup {desired[c]}]
      <4>1. memory[at[c]] \in [Users -> SUBSET Roles]
        BY <2>1 DEF RoleInv, TypeOK
      <4>2. [memory[at[c]] EXCEPT ![subject[c]] = @ \cup {desired[c]}]
              \in [Users -> SUBSET Roles]
        BY <2>1, <4>1
      <4> QED BY <2>1, <3>2, <4>2 DEF RoleInv, TypeOK
    <3> QED BY <3>1, <3>2 DEF AddRoleForUser
  <2>4. pc' = [pc EXCEPT ![c] = "claiming"] \/ pc' = [pc EXCEPT ![c] = "failed"]
    BY DEF AddRoleForUser, Moves
  <2>5. UNCHANGED <<role, inst, at, subject, desired, claims, registered, alone, among>>
    BY DEF AddRoleForUser, call, observed
  <2> QED BY <2>2, <2>3, <2>4, <2>5 DEF RoleInv, TypeOK
<1>2. BootstrapInv'
  BY <1>a DEF RoleInv, BootstrapInv
<1>3. CallInv'
  BY <1>a, <1>b DEF RoleInv, CallInv
<1>4. OverlapInv'
  BY <1>a, <1>c DEF RoleInv, OverlapInv
<1>5. MemoryInv'
  BY RoleAssumptions DEF AddRoleForUser, Moves, RoleInv, TypeOK, CallInv, OverlapInv,
         MemoryInv, Active, tables, processes, call, observed
<1>6. AloneIsExact'
  BY <1>a, <1>b DEF RoleInv, AloneIsExact
<1>7. ClaimsWereAsked'
  BY <1>a, <1>b DEF RoleInv, ClaimsWereAsked
<1>8. BootstrapNameIsSafe'
  BY <1>a DEF RoleInv, BootstrapNameIsSafe
<1> QED BY <1>1, <1>2, <1>3, <1>4, <1>5, <1>6, <1>7, <1>8 DEF RoleInv

\* StatementFails preserves the invariant.
LEMMA StatementFailsInv ==
  ASSUME RoleInv, NEW c \in Calls, StatementFails(c)
  PROVE  RoleInv'
<1>1. TypeOK'
  <2>1. subject[c] \in Users /\ desired[c] \in Roles
    BY DEF StatementFails, RoleInv, CallInv
  <2>2. rules' \in [Users -> SUBSET Roles]
    BY <2>1 DEF StatementFails, RoleInv, TypeOK
  <2>3. /\ pc' = [pc EXCEPT ![c] = "failed"]
        /\ UNCHANGED <<role, inst, memory, at, subject, desired, claims, registered, alone,
                       among>>
    BY DEF StatementFails, Moves, processes, call, observed
  <2> QED BY <2>2, <2>3 DEF RoleInv, TypeOK
<1>2. BootstrapInv'
  BY RoleAssumptions DEF StatementFails, Moves, RoleInv, TypeOK, BootstrapInv, tables,
         processes, call, observed
<1>3. CallInv'
  BY RoleAssumptions DEF StatementFails, Moves, RoleInv, TypeOK, CallInv, tables,
         processes, call, observed
<1>4. OverlapInv'
  BY RoleAssumptions DEF StatementFails, Moves, RoleInv, TypeOK, CallInv, OverlapInv,
         Active, tables, processes, call, observed
<1>5. MemoryInv'
  BY RoleAssumptions DEF StatementFails, Moves, RoleInv, TypeOK, CallInv, OverlapInv,
         MemoryInv, Active, tables, processes, call, observed
<1>6. AloneIsExact'
  BY RoleAssumptions DEF StatementFails, Moves, RoleInv, TypeOK, CallInv, MemoryInv,
         AloneIsExact, tables, processes, call, observed
<1>7. ClaimsWereAsked'
  BY RoleAssumptions DEF StatementFails, Moves, RoleInv, TypeOK, CallInv, MemoryInv,
         ClaimsWereAsked, tables, processes, call, observed
<1>8. BootstrapNameIsSafe'
  BY RoleAssumptions DEF StatementFails, Moves, RoleInv, TypeOK, BootstrapInv,
         BootstrapNameIsSafe, tables, processes, call, observed
<1> QED BY <1>1, <1>2, <1>3, <1>4, <1>5, <1>6, <1>7, <1>8 DEF RoleInv

\* ReadClaims preserves the invariant.
LEMMA ReadClaimsInv ==
  ASSUME RoleInv, NEW c \in Calls, ReadClaims(c)
  PROVE  RoleInv'
<1>1. TypeOK'
  BY RoleAssumptions DEF ReadClaims, Moves, RoleInv, TypeOK, CallInv, tables, processes,
         call, observed
<1>2. BootstrapInv'
  BY RoleAssumptions DEF ReadClaims, Moves, RoleInv, TypeOK, BootstrapInv, tables,
         processes, call, observed
<1>3. CallInv'
  BY RoleAssumptions DEF ReadClaims, Moves, RoleInv, TypeOK, CallInv, tables, processes,
         call, observed
<1>4. OverlapInv'
  BY RoleAssumptions DEF ReadClaims, Moves, RoleInv, TypeOK, CallInv, OverlapInv, Active,
         tables, processes, call, observed
<1>5. MemoryInv'
  BY RoleAssumptions DEF ReadClaims, Moves, RoleInv, TypeOK, CallInv, OverlapInv,
         MemoryInv, Active, tables, processes, call, observed
<1>6. AloneIsExact'
  BY RoleAssumptions DEF ReadClaims, Moves, RoleInv, TypeOK, CallInv, MemoryInv,
         AloneIsExact, tables, processes, call, observed
<1>7. ClaimsWereAsked'
  BY RoleAssumptions DEF ReadClaims, Moves, RoleInv, TypeOK, CallInv, MemoryInv,
         ClaimsWereAsked, tables, processes, call, observed
<1>8. BootstrapNameIsSafe'
  BY RoleAssumptions DEF ReadClaims, Moves, RoleInv, TypeOK, BootstrapInv,
         BootstrapNameIsSafe, tables, processes, call, observed
<1> QED BY <1>1, <1>2, <1>3, <1>4, <1>5, <1>6, <1>7, <1>8 DEF RoleInv

\* Returns preserves the invariant.
LEMMA ReturnsInv ==
  ASSUME RoleInv, NEW c \in Calls, Returns(c)
  PROVE  RoleInv'
<1>1. TypeOK'
  BY RoleAssumptions DEF Returns, Moves, RoleInv, TypeOK, CallInv, tables, processes,
         call, observed
<1>2. BootstrapInv'
  BY RoleAssumptions DEF Returns, Moves, RoleInv, TypeOK, BootstrapInv, tables, processes,
         call, observed
<1>3. CallInv'
  BY RoleAssumptions DEF Returns, Moves, RoleInv, TypeOK, CallInv, tables, processes,
         call, observed
<1>4. OverlapInv'
  BY RoleAssumptions DEF Returns, Moves, RoleInv, TypeOK, CallInv, OverlapInv, Active,
         tables, processes, call, observed
<1>5. MemoryInv'
  BY RoleAssumptions DEF Returns, Moves, RoleInv, TypeOK, CallInv, OverlapInv, MemoryInv,
         Active, tables, processes, call, observed
<1>6. AloneIsExact'
  BY RoleAssumptions DEF Returns, Moves, RoleInv, TypeOK, CallInv, MemoryInv,
         AloneIsExact, tables, processes, call, observed
<1>7. ClaimsWereAsked'
  BY RoleAssumptions DEF Returns, Moves, RoleInv, TypeOK, CallInv, MemoryInv,
         ClaimsWereAsked, tables, processes, call, observed
<1>8. BootstrapNameIsSafe'
  BY RoleAssumptions DEF Returns, Moves, RoleInv, TypeOK, BootstrapInv,
         BootstrapNameIsSafe, tables, processes, call, observed
<1> QED BY <1>1, <1>2, <1>3, <1>4, <1>5, <1>6, <1>7, <1>8 DEF RoleInv

\* So does every step.
LEMMA NextInv ==
  ASSUME RoleInv, [Next]_vars
  PROVE  RoleInv'
<1>1. CASE UNCHANGED vars
  BY <1>1 DEF vars, RoleInv, TypeOK, BootstrapInv, CallInv, OverlapInv, MemoryInv,
       AloneIsExact, ClaimsWereAsked, BootstrapNameIsSafe, Active
<1>2. CASE Next
  BY <1>2, StartInv, BootstrapLooksInv, BootstrapInsertsInv, NewEnforcerInv, CrashInv,
     RoleChangedInv, AuthorizeInv, RegisterInv, GetRolesForUserInv, DeleteRolesForUserInv,
     AddRoleForUserInv, StatementFailsInv, ReadClaimsInv, ReturnsInv DEF Next
<1> QED BY <1>1, <1>2

\* The inductive invariant of instances, rules and calls.
THEOREM RoleInvariance == Spec => []RoleInv
BY InitInv, NextInv, PTL DEF Spec

\* A call of AuthorizationForUser that none overlaps returns exactly the role
\* it was called with, whatever is left in the table and in memory.
THEOREM SynchronisationHeals == Spec => []AloneIsExact
<1>1. RoleInv => AloneIsExact
  BY DEF RoleInv
<1> QED BY RoleInvariance, <1>1, PTL

\* The claims of a call never name a role that neither it nor a call it overlaps
\* with was made with.
THEOREM ClaimsAreAskedFor == Spec => []ClaimsWereAsked
<1>1. RoleInv => ClaimsWereAsked
  BY DEF RoleInv
<1> QED BY RoleInvariance, <1>1, PTL

\* The name of the bootstrap administrator is never registered by anybody.
THEOREM BootstrapNameStaysSafe == Spec => []BootstrapNameIsSafe
<1>1. RoleInv => BootstrapNameIsSafe
  BY DEF RoleInv
<1> QED BY RoleInvariance, <1>1, PTL
=============================================================================
