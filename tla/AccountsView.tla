---------------------------- MODULE AccountsView ----------------------------
(***************************************************************************)
(* The console page that lists the authorized accounts and refreshes and   *)
(* deletes them, with the rows it shows.  At most one list request is      *)
(* under way: who wants the list meanwhile waits for it, and after a       *)
(* refresh asks again, because the answer may be older than the refresh.   *)
(*                                                                         *)
(* A row is a version: 0 before it is stored, then one more with every     *)
(* write.  Ids are not used again.                                         *)
(***************************************************************************)
EXTENDS Naturals, Sequences

CONSTANTS
  Ids,         \* rows of the user
  MaxVersion   \* bound: writes of a row

ASSUME VersionAssumption == MaxVersion \in Nat

VARIABLES
  version, deleted,  \* the table: row -> version, and the rows deleted since
  mounted,
  list,              \* listRequest and, once served, its answer
  queue,             \* refreshes that wait for the list request, in order
  op,                \* row -> what the page does with it
  accounts,          \* what the page shows: row -> version
  loaded, failed,    \* whether a list has arrived, and whether the last one failed
  told,              \* row -> the version of a refresh the page does not show yet
  gone               \* rows the page has reported as deleted

tableVars == <<version, deleted>>
pageVars == <<mounted, list, queue, op, accounts, loaded, failed, told, gone>>
accountsVars == <<tableVars, pageVars>>

\* Mutant: only rows that were refreshed once are listed.
Rows_Refreshed == {id \in Ids : version[id] > 1 /\ id \notin deleted}

Rows == {id \in Ids : version[id] > 0 /\ id \notin deleted}

NoList == [at |-> "none", items |-> <<>>]
NewList == [NoList EXCEPT !.at = "sent"]
Loading == list.at # "none"

AccountsInit ==
  /\ version \in [Ids -> 0 .. 1] /\ deleted = {}
  /\ mounted = FALSE
  /\ list = NoList /\ queue = <<>>
  /\ op = [id \in Ids |-> "none"]
  /\ accounts = <<>> /\ loaded = FALSE /\ failed = FALSE
  /\ told = [id \in Ids |-> 0]
  /\ gone = {}

Without(f, ids) == [id \in DOMAIN f \ ids |-> f[id]]

-----------------------------------------------------------------------------
(* The server.                                                             *)

\* A row is written: created by a flow that stores its credential, or updated by
\* a refresh.
RowWritten(id) ==
  /\ id \notin deleted /\ version[id] < MaxVersion
  /\ version' = [version EXCEPT ![id] = @ + 1]
  /\ UNCHANGED deleted

RowDeleted(id) ==
  /\ id \in Rows
  /\ deleted' = deleted \cup {id}
  /\ UNCHANGED version

\* A row changes without the page: another session, or a request the page no
\* longer waits for.
ChangedElsewhere(id) ==
  /\ RowWritten(id) \/ RowDeleted(id)
  /\ UNCHANGED pageVars

\* The rows of the user are read.
OauthList ==
  /\ list.at = "sent"
  /\ list' = [at |-> "served", items |-> [id \in Rows |-> version[id]]]
  /\ UNCHANGED <<tableVars, mounted, queue, op, accounts, loaded, failed, told, gone>>

\* The server makes the change the page waits for.
ServerChanges(id) ==
  /\ \/ op[id] = "refresh" /\ id \in Rows /\ RowWritten(id) /\ op' = [op EXCEPT ![id] = "refreshed"]
     \/ op[id] = "delete" /\ RowDeleted(id) /\ op' = [op EXCEPT ![id] = "deleted"]
  /\ UNCHANGED <<mounted, list, queue, accounts, loaded, failed, told, gone>>

-----------------------------------------------------------------------------
(* The list.                                                               *)

\* Mount, focus or the button: a list request, unless there is one already.
refreshAccounts ==
  /\ mounted /\ ~Loading
  /\ list' = NewList
  /\ failed' = FALSE
  /\ UNCHANGED <<tableVars, mounted, queue, op, accounts, loaded, told, gone>>

\* Mutant: the refresh that waited goes on without a request of its own.
AfterList_None == NoList

\* The list request after one that ends: the first refresh that waits makes
\* its own, the others wait again.
AfterList == IF queue = <<>> THEN NoList ELSE NewList

\* items has the row as the last refresh left it, or the row was deleted since.
Shows(items, id) == IF id \in DOMAIN items THEN items[id] >= told[id] ELSE id \in deleted

Olds == {id \in Ids : op[id] = "waitOld"}

\* loadAccounts ends: its owner goes on, then those who wait, in order; the
\* deletes among them take their rows out of what has arrived.
ListSettles(ok) ==
  /\ Loading /\ (ok => list.at = "served")
  /\ accounts' = Without(IF ok THEN list.items ELSE accounts, Olds)
  /\ loaded' = (loaded \/ ok)
  /\ list' = AfterList
  /\ failed' = (~ok /\ queue = <<>>)
  /\ queue' = IF queue = <<>> THEN queue ELSE Tail(queue)
  /\ op' = [id \in Ids |->
              CASE op[id] = "waitOld" -> "none"
                [] op[id] = "list" -> "none"
                [] op[id] = "queued" /\ id = Head(queue) -> "list"
                [] OTHER -> op[id]]
  /\ gone' = gone \cup Olds
  /\ told' = [id \in Ids |-> IF ok /\ Shows(list.items, id) THEN 0 ELSE told[id]]
  /\ UNCHANGED <<tableVars, mounted>>

-----------------------------------------------------------------------------
(* Refreshing and deleting.                                                *)

Send(id, kind) ==
  /\ id \in DOMAIN accounts /\ op[id] = "none"
  /\ op' = [op EXCEPT ![id] = kind]
  /\ UNCHANGED <<tableVars, mounted, list, queue, accounts, loaded, failed, told, gone>>

refreshCredential(id) == Send(id, "refresh")
deleteAccount(id) == Send(id, "delete")

\* The request is refused, or its answer does not come in time: the change may
\* have been made, or be made later.
ChangeFails(id) ==
  /\ op[id] \in {"refresh", "refreshed", "delete", "deleted"}
  /\ op' = [op EXCEPT ![id] = "none"]
  /\ UNCHANGED <<tableVars, mounted, list, queue, accounts, loaded, failed, told, gone>>

\* Mutant: a list request that is under way is taken for good enough.
RefreshConfirmed_AnyList(id) ==
  /\ op[id] = "refreshed"
  /\ told' = [told EXCEPT ![id] = version[id]]
  /\ op' = [op EXCEPT ![id] = IF Loading THEN "none" ELSE "list"]
  /\ list' = IF Loading THEN list ELSE NewList
  /\ failed' = (failed /\ Loading)
  /\ UNCHANGED <<tableVars, mounted, queue, accounts, loaded, gone>>

\* The refresh is confirmed: the list is loaded again, after the one under way.
RefreshConfirmed(id) ==
  /\ op[id] = "refreshed"
  /\ told' = [told EXCEPT ![id] = version[id]]
  /\ IF Loading
     THEN /\ op' = [op EXCEPT ![id] = "queued"]
          /\ queue' = Append(queue, id)
          /\ UNCHANGED <<list, failed>>
     ELSE /\ op' = [op EXCEPT ![id] = "list"]
          /\ list' = NewList
          /\ failed' = FALSE
          /\ UNCHANGED queue
  /\ UNCHANGED <<tableVars, mounted, accounts, loaded, gone>>

\* Mutant: the row is taken out at once, whatever list is under way.
WaitsForOld_Never == FALSE

WaitsForOld == Loading

\* The delete is confirmed: the row goes, once an older list has arrived.
DeleteConfirmed(id) ==
  /\ op[id] = "deleted"
  /\ IF WaitsForOld
     THEN /\ op' = [op EXCEPT ![id] = "waitOld"]
          /\ UNCHANGED <<accounts, gone>>
     ELSE /\ op' = [op EXCEPT ![id] = "none"]
          /\ accounts' = Without(accounts, {id})
          /\ gone' = gone \cup {id}
  /\ UNCHANGED <<tableVars, mounted, list, queue, loaded, failed, told>>

-----------------------------------------------------------------------------
MountAccounts ==
  /\ mounted' = TRUE
  /\ list' = NewList
  /\ UNCHANGED <<tableVars, queue, op, accounts, loaded, failed, told, gone>>

\* The page goes away; what it has sent goes on without it.
UnmountAccounts ==
  /\ mounted' = FALSE
  /\ list' = NoList /\ queue' = <<>>
  /\ op' = [id \in Ids |-> "none"]
  /\ accounts' = <<>> /\ loaded' = FALSE /\ failed' = FALSE
  /\ told' = [id \in Ids |-> 0] /\ gone' = {}
  /\ UNCHANGED tableVars

RowStep(id) ==
  \/ refreshCredential(id) \/ deleteAccount(id)
  \/ ServerChanges(id) \/ ChangeFails(id) \/ RefreshConfirmed(id) \/ DeleteConfirmed(id)

-----------------------------------------------------------------------------
(* Properties                                                              *)

\* A row the page has reported as deleted never comes back, by an answer that
\* was read before the delete and arrives after it, or in any other way.
DeletedStaysGone == gone \cap DOMAIN accounts = {}

\* When no list is under way and none has failed, the page shows every row it
\* has refreshed at least as new as it was when the refresh was confirmed.
QuietPageIsCurrent ==
  loaded /\ ~Loading /\ ~failed => \A id \in Ids : told[id] > 0 => Shows(accounts, id)

-----------------------------------------------------------------------------
(* The inductive invariant behind the properties above.                    *)

\* The table and the page hold values of their kinds.
AccountsTypes ==
  /\ version \in [Ids -> Nat] /\ deleted \subseteq Ids
  /\ list.at \in {"none", "sent", "served"}
  /\ queue \in Seq(Ids)
  /\ op \in [Ids -> {"none", "refresh", "refreshed", "delete", "deleted", "list", "queued", "waitOld"}]
  /\ told \in [Ids -> Nat]
  /\ gone \subseteq Ids

\* A delete that was confirmed has happened, and what the page reported as
\* deleted is in no answer under way.
GoneInv ==
  /\ \A id \in Ids : op[id] \in {"deleted", "waitOld"} => id \in deleted
  /\ gone \subseteq deleted
  /\ list.at = "served" => gone \cap DOMAIN list.items = {}
  /\ DeletedStaysGone

\* A refresh the page does not show yet waits in the queue, or is in the list
\* under way, which was asked for after it, or that list has failed.
ToldInv ==
  /\ \A id \in Ids : told[id] <= version[id]
  /\ \A id \in Ids : op[id] = "queued" => \E i \in 1 .. Len(queue) : queue[i] = id
  /\ list.at = "served" => \A id \in Ids : op[id] # "queued" => told[id] = 0 \/ Shows(list.items, id)
  /\ ~Loading /\ ~failed => \A id \in Ids : told[id] = 0
  /\ ~Loading => queue = <<>>

AccountsInv == AccountsTypes /\ GoneInv /\ ToldInv
=============================================================================
