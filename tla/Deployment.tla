----------------------------- MODULE Deployment -----------------------------
(***************************************************************************)
(* The API process around the requests of UpstreamCalls: it opens what it  *)
(* needs one after the other, discovers the provider through the upstream  *)
(* service, serves, and dies without a graceful stop.  A start that fails  *)
(* at any step, or is killed, is repeated by the container: what it left   *)
(* in the database is what the next one finds.                             *)
(*                                                                         *)
(* The rows of bootstrap user and roles are in UserRoles; here the start   *)
(* seeds the default permissions, a delete and an insert per role.         *)
(***************************************************************************)
EXTENDS UpstreamCalls

CONSTANT Roles   \* supportedRoles

VARIABLES
  api,      \* the step of the start under way, or down, or serving
  offers,   \* whether the API was started with a configured provider
  policy,   \* role -> its permissions in the Casbin table
  enforced, \* role -> its permissions in the memory of the API's enforcer
  seed      \* role -> how far the seeding loop is with it

apiVars == <<api, offers, policy, enforced, seed>>
deploymentVars == <<vars, apiVars>>

Permissions == {"dashboard", "other"}
Stages == {"database", "redis", "bootstrap", "casbin", "seed", "client", "provider", "listen"}

NoPolicies == [role \in Roles |-> {}]
Unseeded == [role \in Roles |-> "todo"]

DeploymentInit ==
  /\ Init
  /\ api = "down"
  /\ offers = FALSE
  /\ policy \in [Roles -> SUBSET Permissions]
  /\ enforced = NoPolicies
  /\ seed = Unseeded

-----------------------------------------------------------------------------
(* The start, in order.                                                    *)

Advance(from, to) ==
  /\ api = from
  /\ api' = to

enforcerVars == <<policy, enforced, seed>>

loadAPIConfiguration ==
  /\ Advance("down", "database")
  /\ offers' \in BOOLEAN
  /\ UNCHANGED enforcerVars

\* Opened and pinged within the connect timeout.
ConnectDatabase == Advance("database", "redis") /\ UNCHANGED <<offers, enforcerVars>>
ConnectRedis == Advance("redis", "bootstrap") /\ UNCHANGED <<offers, enforcerVars>>

\* The bootstrap user is there already, or is created now.
createBootstrapUser == Advance("bootstrap", "casbin") /\ UNCHANGED <<offers, enforcerVars>>

\* The enforcer loads the table into its memory.
newEnforcer ==
  /\ Advance("casbin", "seed")
  /\ enforced' = policy
  /\ seed' = Unseeded
  /\ UNCHANGED <<offers, policy>>

\* Mutant: a role that has some permission is taken for seeded.
Seeded_Any(role) == enforced[role] # {}

\* The role has the dashboard's permission and no other.
Seeded(role) == enforced[role] = {"dashboard"}

\* The loop takes up a role when it is through with the one before.  (The order
\* of supportedRoles does not matter here, any is allowed.)
TakesUp(role) ==
  /\ api = "seed"
  /\ seed[role] = "todo"
  /\ \A other \in Roles : seed[other] # "cleared"

\* The loop continues with the next role.
Skip(role) ==
  /\ TakesUp(role)
  /\ Seeded(role)
  /\ seed' = [seed EXCEPT ![role] = "done"]
  /\ UNCHANGED <<api, offers, policy, enforced>>

\* Mutant: the role is cleared in the enforcer's memory alone.
DeletePermissionsForUser_MemoryOnly(role) ==
  /\ TakesUp(role)
  /\ ~Seeded(role)
  /\ enforced' = [enforced EXCEPT ![role] = {}]
  /\ seed' = [seed EXCEPT ![role] = "cleared"]
  /\ UNCHANGED <<api, offers, policy>>

\* A role that is not as it should be is cleared, in the table and in memory.
DeletePermissionsForUser(role) ==
  /\ TakesUp(role)
  /\ ~Seeded(role)
  /\ policy' = [policy EXCEPT ![role] = {}]
  /\ enforced' = [enforced EXCEPT ![role] = {}]
  /\ seed' = [seed EXCEPT ![role] = "cleared"]
  /\ UNCHANGED <<api, offers>>

\* Then it is granted the dashboard.  A row that the table has already breaks
\* the unique index, and the start with it.
AddPermissionForUser(role) ==
  /\ api = "seed"
  /\ seed[role] = "cleared"
  /\ "dashboard" \notin policy[role]
  /\ policy' = [policy EXCEPT ![role] = @ \cup {"dashboard"}]
  /\ enforced' = [enforced EXCEPT ![role] = @ \cup {"dashboard"}]
  /\ seed' = [seed EXCEPT ![role] = "done"]
  /\ UNCHANGED <<api, offers>>

\* The loop has come to its end without an error: nothing is looked at again.
SeedDefaultPolicies ==
  /\ \A role \in Roles : seed[role] = "done"
  /\ Advance("seed", "client")
  /\ UNCHANGED <<offers, enforcerVars>>

\* A client that connects when it is first used.
NewClient ==
  /\ Advance("client", IF offers THEN "provider" ELSE "listen")
  /\ UNCHANGED <<offers, enforcerVars>>

\* The provider's metadata is fetched from an upstream service that has it.
NewRemoteOIDCAuth ==
  /\ up = "serving" /\ oai
  /\ Advance("provider", "listen")
  /\ UNCHANGED <<offers, enforcerVars>>

Listen == Advance("listen", "serving") /\ UNCHANGED <<offers, enforcerVars>>

\* The process exits, and its enforcer's memory with it.
Exit ==
  /\ api' = "down"
  /\ enforced' = NoPolicies
  /\ seed' = Unseeded
  /\ UNCHANGED <<offers, policy>>

\* A step of the start returns an error, a statement of the seeding too.
StartAborted == api \in Stages /\ Exit

ApiStarts ==
  \/ loadAPIConfiguration \/ ConnectDatabase \/ ConnectRedis \/ createBootstrapUser
  \/ newEnforcer
  \/ \E role \in Roles : Skip(role) \/ DeletePermissionsForUser(role) \/ AddPermissionForUser(role)
  \/ SeedDefaultPolicies \/ NewClient \/ NewRemoteOIDCAuth \/ Listen

\* The process dies, in the middle of its start too: there is no graceful stop,
\* every request ends with it and its calls are canceled.
Kill ==
  /\ api # "down"
  /\ Exit
  /\ IF Active = {} THEN UNCHANGED vars ELSE ClientsLeave(Active)

DeploymentNext ==
  \/ (ApiStarts \/ StartAborted) /\ UNCHANGED vars
  \/ Kill
  \/ /\ \/ api = "serving" /\ offers /\ \E r \in Requests : Arrival(r)
        \/ \E r \in Requests : CallStep(r)
        \/ Process
        \/ Tick
     /\ UNCHANGED apiVars

DeploymentSpec == DeploymentInit /\ [][DeploymentNext]_deploymentVars
\* A process that has been started goes on with its start.
FairDeployment == DeploymentSpec /\ Fairness /\ WF_deploymentVars(ApiStarts /\ UNCHANGED vars)

-----------------------------------------------------------------------------
(* Properties                                                              *)

\* An API that serves lets every role do exactly what its version grants, and
\* leaves that in the table, whatever an older version, a failed start or a
\* death between the delete and the insert of the seeding left there.
ServesExactPolicies ==
  api = "serving" =>
    \A role \in Roles : enforced[role] = {"dashboard"} /\ policy[role] = {"dashboard"}

\* Every state that failed starts, deaths and restarts leave behind is one from
\* which the API comes up: if they end, and the upstream service stays up with
\* its provider, the API serves.
ServesAgain ==
  /\ <>[](up = "serving" /\ oai)
  /\ <>[][~StartAborted /\ ~Kill]_deploymentVars
  => <>[](api = "serving")

-----------------------------------------------------------------------------
(* The inductive invariant of the start.                                   *)

\* A role the seeding is through with is as it should be, one it has cleared is
\* empty.
SeedOK(role) ==
  /\ seed[role] = "done" => policy[role] = {"dashboard"}
  /\ seed[role] = "cleared" => policy[role] = {}

\* The enforcer of a start that has come so far agrees with the table.
EnforcerOK ==
  /\ api \in {"seed", "client", "provider", "listen", "serving"} => enforced = policy
  /\ api \in {"client", "provider", "listen", "serving"} => \A role \in Roles : seed[role] = "done"

\* Requests run only in an API that serves, and what a dead one had asked of
\* the upstream service is canceled there.
NoOrphans ==
  api # "serving" => \A r \in Requests : req[r].op = "none" /\ (Handling(r) => srv[r].canceled)

DeploymentInv ==
  /\ CallsInv
  /\ api \in Stages \cup {"down", "serving"}
  /\ policy \in [Roles -> SUBSET Permissions]
  /\ enforced \in [Roles -> SUBSET Permissions]
  /\ seed \in [Roles -> {"todo", "cleared", "done"}]
  /\ EnforcerOK
  /\ \A role \in Roles : SeedOK(role)
  /\ NoOrphans
=============================================================================
