------------------------------ MODULE UserRoles ------------------------------
(***************************************************************************)
(* Users, the bootstrap administrator, and the synchronisation of a user's *)
(* role with Casbin (modules/user, modules/auth, middleware/casbin).       *)
(*                                                                         *)
(* Several instances of the API share the tables users and casbin_rule.    *)
(* Each keeps a copy of the rules in memory, read when it starts; no       *)
(* watcher tells it what the others write.  AuthorizationForUser, called   *)
(* by login, refresh, registration and /users/me, brings the copy and the  *)
(* table in line with users.role_code in several calls of the enforcer,    *)
(* each atomic by itself.  The roles' permissions are all alike (only      *)
(* dashboard:view) and are left out.                                       *)
(***************************************************************************)
EXTENDS Naturals, FiniteSets

CONSTANTS
  Instances, Calls,
  Users,          \* user names
  Roles,          \* supportedRoles
  BootUser,       \* the configured bootstrap name ...
  BootRole,       \* ... and role
  Reassigned,     \* bound: the users whose role an operator changes
  NoInstance, NoUser

NoRole == "none"

ASSUME RoleAssumptions ==
  /\ BootUser \in Users
  /\ BootRole \in Roles /\ "user" \in Roles /\ NoRole \notin Roles
  /\ NoInstance \notin Instances
  /\ NoUser \notin Users

VARIABLES
  role,        \* users: role_code, NoRole where there is no row
  rules,       \* casbin_rule: the grouping rules of a user
  inst,        \* instances: "down", "starting", "inserting", "loading", "up"
  memory,      \* the rules as an instance's enforcer has them
  pc,          \* calls of AuthorizationForUser
  at, subject, \* where a call runs, and for whom
  desired,     \* the role it was called with
  claims,      \* the roles it returned
  registered,  \* observation: names that were registered
  alone,       \* observation: no other call for the user overlapped on the instance
  among        \* observation: the roles that it and those calls were called with

tables == <<role, rules>>
processes == <<inst, memory>>
call == <<at, subject, desired>>
observed == <<registered, alone, among>>
vars == <<role, rules, inst, memory, pc, at, subject, desired, claims, registered,
          alone, among>>

Init ==
  /\ role = [u \in Users |-> NoRole]
  /\ rules = [u \in Users |-> {}]
  /\ inst = [i \in Instances |-> "down"]
  /\ memory = [i \in Instances |-> [u \in Users |-> {}]]
  /\ pc = [c \in Calls |-> "idle"]
  /\ at = [c \in Calls |-> NoInstance]
  /\ subject = [c \in Calls |-> NoUser]
  /\ desired = [c \in Calls |-> NoRole]
  /\ claims = [c \in Calls |-> {}]
  /\ registered = {}
  /\ alone = [c \in Calls |-> FALSE]
  /\ among = [c \in Calls |-> {}]

-----------------------------------------------------------------------------
(* Processes                                                               *)

StepsTo(i, where) == inst' = [inst EXCEPT ![i] = where]

\* Mutant: the instance serves before it has looked for the bootstrap user.
Start_ServesAtOnce(i) ==
  /\ inst[i] = "down"
  /\ StepsTo(i, "up")
  /\ memory' = [memory EXCEPT ![i] = rules]
  /\ UNCHANGED <<tables, pc, call, claims, observed>>

Start(i) ==
  /\ inst[i] = "down"
  /\ StepsTo(i, "starting")
  /\ UNCHANGED <<tables, memory, pc, call, claims, observed>>

\* CreateBootstrapUser is FirstOrCreate: a SELECT ...
BootstrapLooks(i) ==
  /\ inst[i] = "starting"
  /\ StepsTo(i, IF role[BootUser] = NoRole THEN "inserting" ELSE "loading")
  /\ UNCHANGED <<tables, memory, pc, call, claims, observed>>

\* ... and an INSERT, which fails, and the start with it, where the name has
\* come into being in between.
BootstrapInserts(i) ==
  /\ inst[i] = "inserting"
  /\ \/ /\ role[BootUser] = NoRole
        /\ role' = [role EXCEPT ![BootUser] = BootRole]
        /\ StepsTo(i, "loading")
     \/ role[BootUser] # NoRole /\ StepsTo(i, "down") /\ UNCHANGED role
  /\ UNCHANGED <<rules, memory, pc, call, claims, observed>>

\* NewEnforcer reads the rules; the router runs when all else is ready.
NewEnforcer(i) ==
  /\ inst[i] = "loading"
  /\ StepsTo(i, "up")
  /\ memory' = [memory EXCEPT ![i] = rules]
  /\ UNCHANGED <<tables, pc, call, claims, observed>>

\* The process dies, with the calls it runs.
Crash(i) ==
  /\ inst[i] # "down"
  /\ StepsTo(i, "down")
  /\ memory' = [memory EXCEPT ![i] = [u \in Users |-> {}]]
  /\ pc' = [c \in Calls |-> IF at[c] = i THEN "idle" ELSE pc[c]]
  /\ at' = [c \in Calls |-> IF at[c] = i THEN NoInstance ELSE at[c]]
  /\ subject' = [c \in Calls |-> IF at[c] = i THEN NoUser ELSE subject[c]]
  /\ desired' = [c \in Calls |-> IF at[c] = i THEN NoRole ELSE desired[c]]
  /\ claims' = [c \in Calls |-> IF at[c] = i THEN {} ELSE claims[c]]
  /\ alone' = [c \in Calls |-> IF at[c] = i THEN FALSE ELSE alone[c]]
  /\ among' = [c \in Calls |-> IF at[c] = i THEN {} ELSE among[c]]
  /\ UNCHANGED <<tables, registered>>

\* An operator changes role_code; there is no endpoint for it.
RoleChanged(u, r) ==
  /\ u \in Reassigned
  /\ role[u] \notin {NoRole, r}
  /\ role' = [role EXCEPT ![u] = r]
  /\ UNCHANGED <<rules, processes, pc, call, claims, observed>>

-----------------------------------------------------------------------------
(* AuthorizationForUser                                                    *)

Active(c) == pc[c] \in {"reading", "deleting", "adding", "claiming"}

\* Calls of the instance i for the user u that have not returned.
Running(i, u) == {c \in Calls : Active(c) /\ at[c] = i /\ subject[c] = u}

\* A call begins with the role r that its caller has read; the calls it
\* overlaps with are noted on both sides.
Begins(c, i, u, r) ==
  /\ pc[c] = "idle" /\ inst[i] = "up"
  /\ pc' = [pc EXCEPT ![c] = "reading"]
  /\ at' = [at EXCEPT ![c] = i]
  /\ subject' = [subject EXCEPT ![c] = u]
  /\ desired' = [desired EXCEPT ![c] = r]
  /\ alone' = [d \in Calls |-> IF d = c THEN Running(i, u) = {}
                               ELSE alone[d] /\ d \notin Running(i, u)]
  /\ among' = [d \in Calls |->
                 IF d = c THEN {r} \cup {desired[e] : e \in Running(i, u)}
                 ELSE IF d \in Running(i, u) THEN among[d] \cup {r} ELSE among[d]]

\* Login, refresh or /users/me has read the user's row.
Authorize(c, i, u) ==
  /\ role[u] # NoRole
  /\ Begins(c, i, u, role[u])
  /\ UNCHANGED <<tables, processes, claims, registered>>

\* Registration: AddUser, then the same synchronisation.  A name that exists
\* is refused (ErrUserExists).
Register(c, i, u) ==
  /\ role[u] = NoRole
  /\ role' = [role EXCEPT ![u] = "user"]
  /\ registered' = registered \cup {u}
  /\ Begins(c, i, u, "user")
  /\ UNCHANGED <<rules, processes, claims>>

Moves(c, where) == pc' = [pc EXCEPT ![c] = where]

\* Mutant: a role is enough, whatever others there are.
GetRolesForUser_AnyOf(c) ==
  /\ pc[c] = "reading"
  /\ Moves(c, IF desired[c] \in memory[at[c]][subject[c]] THEN "claiming" ELSE "deleting")
  /\ UNCHANGED <<tables, processes, call, claims, observed>>

GetRolesForUser(c) ==
  /\ pc[c] = "reading"
  /\ Moves(c, IF memory[at[c]][subject[c]] = {desired[c]} THEN "claiming" ELSE "deleting")
  /\ UNCHANGED <<tables, processes, call, claims, observed>>

\* Mutant: the roles of before are not deleted.
DeleteRolesForUser_Skipped(c) ==
  /\ pc[c] = "deleting"
  /\ Moves(c, "adding")
  /\ UNCHANGED <<tables, processes, call, claims, observed>>

\* The rules of the user go, in the table and in memory.
DeleteRolesForUser(c) ==
  /\ pc[c] = "deleting"
  /\ rules' = [rules EXCEPT ![subject[c]] = {}]
  /\ memory' = [memory EXCEPT ![at[c]][subject[c]] = {}]
  /\ Moves(c, "adding")
  /\ UNCHANGED <<role, inst, call, claims, observed>>

\* A rule that is in memory is not added again; one that another instance has
\* inserted may be refused by the table's unique index.
AddRoleForUser(c) ==
  LET known == desired[c] \in memory[at[c]][subject[c]]
      stored == desired[c] \in rules[subject[c]]
  IN
  /\ pc[c] = "adding"
  /\ \/ known /\ Moves(c, "claiming") /\ UNCHANGED <<rules, memory>>
     \/ /\ ~known
        /\ rules' = [rules EXCEPT ![subject[c]] = @ \cup {desired[c]}]
        /\ memory' = [memory EXCEPT ![at[c]][subject[c]] = @ \cup {desired[c]}]
        /\ Moves(c, "claiming")
     \/ ~known /\ stored /\ Moves(c, "failed") /\ UNCHANGED <<rules, memory>>
  /\ UNCHANGED <<role, inst, call, claims, observed>>

\* A statement of the adapter fails; the table may have changed all the same.
StatementFails(c) ==
  /\ \/ /\ pc[c] = "deleting"
        /\ rules' \in {rules, [rules EXCEPT ![subject[c]] = {}]}
     \/ /\ pc[c] = "adding"
        /\ rules' \in {rules, [rules EXCEPT ![subject[c]] = @ \cup {desired[c]}]}
  /\ Moves(c, "failed")
  /\ UNCHANGED <<role, processes, call, claims, observed>>

\* GetImplicitRolesForUser
ReadClaims(c) ==
  /\ pc[c] = "claiming"
  /\ claims' = [claims EXCEPT ![c] = memory[at[c]][subject[c]]]
  /\ Moves(c, "returned")
  /\ UNCHANGED <<tables, processes, call, observed>>

\* The caller has its answer.
Returns(c) ==
  /\ pc[c] \in {"returned", "failed"}
  /\ Moves(c, "idle")
  /\ at' = [at EXCEPT ![c] = NoInstance]
  /\ subject' = [subject EXCEPT ![c] = NoUser]
  /\ desired' = [desired EXCEPT ![c] = NoRole]
  /\ claims' = [claims EXCEPT ![c] = {}]
  /\ alone' = [alone EXCEPT ![c] = FALSE]
  /\ among' = [among EXCEPT ![c] = {}]
  /\ UNCHANGED <<tables, processes, registered>>

Next ==
  \/ \E i \in Instances :
       Start(i) \/ BootstrapLooks(i) \/ BootstrapInserts(i) \/ NewEnforcer(i) \/ Crash(i)
  \/ \E u \in Users, r \in Roles : RoleChanged(u, r)
  \/ \E c \in Calls, i \in Instances, u \in Users : Authorize(c, i, u) \/ Register(c, i, u)
  \/ \E c \in Calls :
       \/ GetRolesForUser(c) \/ DeleteRolesForUser(c) \/ AddRoleForUser(c)
       \/ StatementFails(c) \/ ReadClaims(c) \/ Returns(c)

Spec == Init /\ [][Next]_vars

-----------------------------------------------------------------------------
(* Properties                                                              *)

\* Every variable holds a value of its kind.
TypeOK ==
  /\ role \in [Users -> Roles \cup {NoRole}]
  /\ rules \in [Users -> SUBSET Roles]
  /\ inst \in [Instances -> {"down", "starting", "inserting", "loading", "up"}]
  /\ memory \in [Instances -> [Users -> SUBSET Roles]]
  /\ pc \in [Calls -> {"idle", "reading", "deleting", "adding", "claiming", "returned", "failed"}]
  /\ at \in [Calls -> Instances \cup {NoInstance}]
  /\ subject \in [Calls -> Users \cup {NoUser}]
  /\ desired \in [Calls -> Roles \cup {NoRole}]
  /\ claims \in [Calls -> SUBSET Roles]
  /\ registered \subseteq Users
  /\ alone \in [Calls -> BOOLEAN]
  /\ among \in [Calls -> SUBSET Roles]

\* A call that no other call for the user overlapped on its instance returns
\* exactly the role it was called with, whatever earlier calls, other instances
\* and crashes have left behind: the synchronisation heals.
AloneIsExact ==
  \A c \in Calls : pc[c] = "returned" /\ alone[c] => claims[c] = {desired[c]}

\* With overlapping calls the claims may be empty or too many, but they never
\* name a role that none of these calls was made with.
ClaimsWereAsked ==
  \A c \in Calls : pc[c] = "returned" => claims[c] \subseteq among[c]

\* The comment on AuthorizationForUser and the test of it: the role is
\* synchronised, and exactly it is returned.
ClaimsAreTheRole ==
  \A c \in Calls : pc[c] = "returned" => claims[c] = {desired[c]}

\* The bootstrap name cannot be registered by anybody: the service is up only
\* when its row exists, also if several instances start at once.
BootstrapNameIsSafe == BootUser \notin registered

-----------------------------------------------------------------------------
(* The inductive invariant                                                 *)

\* An instance that serves has seen the bootstrap user's row.
BootstrapInv ==
  \A i \in Instances : inst[i] \in {"loading", "up"} => role[BootUser] # NoRole

\* A call runs on an instance that is up, for a user and with a role.
CallInv ==
  \A c \in Calls :
    /\ pc[c] # "idle" => /\ at[c] \in Instances /\ inst[at[c]] = "up"
                         /\ subject[c] \in Users /\ desired[c] \in Roles
    /\ pc[c] = "idle" => at[c] = NoInstance

\* Calls that run side by side know of each other.
OverlapInv ==
  \A c, d \in Calls :
    Active(c) /\ Active(d) /\ at[c] = at[d] /\ subject[c] = subject[d] =>
      /\ desired[d] \in among[c]
      /\ c # d => ~alone[c]

\* What a call has made of the rules in memory, and what others have added.
MemoryInv ==
  \A c \in Calls :
    /\ pc[c] \in {"adding", "claiming"} => memory[at[c]][subject[c]] \subseteq among[c]
    /\ pc[c] = "adding" /\ alone[c] => memory[at[c]][subject[c]] = {}
    /\ pc[c] = "claiming" /\ alone[c] => memory[at[c]][subject[c]] = {desired[c]}

RoleInv ==
  /\ TypeOK
  /\ BootstrapInv
  /\ CallInv
  /\ OverlapInv
  /\ MemoryInv
  /\ AloneIsExact
  /\ ClaimsWereAsked
  /\ BootstrapNameIsSafe
=============================================================================
