------------------------------- MODULE Console -------------------------------
(***************************************************************************)
(* The two OAuth pages of the console and the way between them.  A device  *)
(* flow that ends well pushes the accounts page; every other way is the    *)
(* user's.  What a flow stores is what the accounts page lists.            *)
(***************************************************************************)
EXTENDS OAuthView, AccountsView

VARIABLES
  view,    \* the page that is mounted
  rowOf,   \* flow of the page -> the row it was stored in
  landed   \* the row of the flow whose success opened the accounts page

consoleVars == <<oauthVars, accountsVars, view, rowOf, landed>>

ConsoleInit ==
  /\ OAuthInit /\ AccountsInit
  /\ view = "oauth"
  /\ rowOf = [k \in Flows |-> {}]
  /\ landed = {}

OAuthOnly == UNCHANGED <<accountsVars, view, rowOf, landed>>
AccountsOnly == UNCHANGED <<oauthVars, view, rowOf, landed>>

\* The server ends a completion, with a new row if it saved the credential: the
\* unique index lets no flow write a row that exists.
FlowStored(k) ==
  /\ ServerCompletes(k)
  /\ IF saved' # saved
     THEN \E id \in Ids : /\ version[id] = 0 /\ RowWritten(id)
                          /\ rowOf' = [rowOf EXCEPT ![k] = {id}]
     ELSE UNCHANGED <<tableVars, rowOf>>
  /\ UNCHANGED <<pageVars, view, landed>>

ToAccounts(row) ==
  /\ view = "oauth" /\ view' = "accounts"
  /\ UnmountOAuth /\ MountAccounts
  /\ landed' = row
  /\ rowOf' = [k \in Flows |-> {}]

\* router.push of a device flow that was confirmed.
Pushed(k) == phase[k] = "pushing" /\ active(k) /\ ToAccounts(rowOf[k])

ToOAuth ==
  /\ view = "accounts" /\ view' = "oauth"
  /\ UnmountAccounts
  /\ landed' = {}
  /\ UNCHANGED <<oauthVars, rowOf>>

ConsoleNext ==
  \/ view = "oauth" /\ UserActs /\ OAuthOnly
  \/ \E k \in Flows : \/ (FlowStep(k) \/ ExpiryFires(k)) /\ OAuthOnly
                      \/ FlowStored(k)
                      \/ Pushed(k)
  \/ (LinkArrives \/ CompleteSettles) /\ OAuthOnly
  \/ ToAccounts({}) \/ ToOAuth
  \/ /\ \/ OauthList \/ refreshAccounts
        \/ \E ok \in BOOLEAN : ListSettles(ok)
        \/ \E id \in Ids : RowStep(id) \/ ChangedElsewhere(id)
     /\ AccountsOnly

\* Every request of the pages ends, with an answer or by its timeout, and so
\* does a navigation.
ConsoleFairness ==
  /\ \A k \in Flows : WF_consoleVars(FlowStep(k) /\ OAuthOnly)
  /\ WF_consoleVars((LinkArrives \/ CompleteSettles) /\ OAuthOnly)
  /\ WF_consoleVars((\E ok \in BOOLEAN : ListSettles(ok)) /\ AccountsOnly)
  /\ \A id \in Ids :
       WF_consoleVars((ChangeFails(id) \/ RefreshConfirmed(id) \/ DeleteConfirmed(id)) /\ AccountsOnly)

ConsoleSpec == ConsoleInit /\ [][ConsoleNext]_consoleVars
FairConsole == ConsoleSpec /\ ConsoleFairness

-----------------------------------------------------------------------------
(* Properties                                                              *)

\* A user whom a successful device flow brought to the accounts finds the
\* account there as soon as a list is shown, unless it was deleted since.
SavedIsListed ==
  loaded => landed \subseteq DOMAIN accounts \cup deleted

\* No button stays disabled: whatever the pages wait for ends, also a refresh
\* that waits for one list after the other.
WaitsEnd ==
  /\ Busy ~> ~Busy
  /\ \A id \in Ids : op[id] # "none" ~> op[id] = "none"

-----------------------------------------------------------------------------
(* The inductive invariant behind the properties of the pages.             *)

\* The accounts page holds nothing while it is not mounted.
Unmounted ==
  /\ ~mounted /\ list = NoList /\ queue = <<>>
  /\ op = [id \in Ids |-> "none"]
  /\ accounts = <<>> /\ ~loaded /\ ~failed
  /\ told = [id \in Ids |-> 0] /\ gone = {}

\* A row that a flow was stored in exists or existed, and an answer that was
\* read after the page was pushed has it.
LandedInv ==
  /\ rowOf \in [Flows -> SUBSET Ids] /\ landed \subseteq Ids
  /\ \A k \in Flows : \A id \in rowOf[k] : version[id] > 0
  /\ \A id \in landed : version[id] > 0
  /\ list.at = "served" => landed \subseteq DOMAIN list.items \cup deleted
  /\ SavedIsListed

ConsoleInv ==
  /\ OAuthInv
  /\ AccountsInv
  /\ LandedInv
  /\ view = "oauth" => Unmounted
=============================================================================
