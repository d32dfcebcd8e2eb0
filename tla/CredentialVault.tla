--------------------------- MODULE CredentialVault ---------------------------
(***************************************************************************)
(* What refreshing credentials promises to the rest of the system, without *)
(* transactions, requests, instances or network: a table of credentials    *)
(* in which a refresh is one atomic step that replaces a live token by its *)
(* successor, and in which a credential that stops working does so by an   *)
(* explicit step: it was revoked or its successor was wasted.              *)
(***************************************************************************)
EXTENDS Naturals

CONSTANTS Users, Accounts, NoRow, NoToken, Tokens, RowIds

VARIABLES rows, status, lost
vars == <<rows, status, lost>>

Credential == [owner: Users, account: Accounts, rt: Tokens \cup {NoToken}, idt: Accounts]

Init ==
  /\ rows = [id \in RowIds |-> NoRow]
  /\ status = [t \in Tokens |-> "unissued"]
  /\ lost = {}

\* A login stores a new credential; at most one per user and account.
Store(id, c) ==
  /\ rows[id] = NoRow
  /\ c.idt = c.account
  /\ \A other \in RowIds : rows[other] # NoRow =>
       <<rows[other].owner, rows[other].account>> # <<c.owner, c.account>>
  /\ rows' = [rows EXCEPT ![id] = c]
  /\ \/ c.rt = NoToken /\ UNCHANGED status
     \/ /\ c.rt \in Tokens /\ status[c.rt] = "unissued"
        /\ status' = [status EXCEPT ![c.rt] = "live"]
  /\ UNCHANGED lost

\* A token is issued that the table never sees.
IssueElsewhere(t) ==
  /\ UNCHANGED <<rows, lost>>
  /\ status[t] = "unissued"
  /\ status' = [status EXCEPT ![t] = "live"]

\* The live token of a row gives way to its successor, in the row and at the
\* provider at once.  The successor may already have been revoked.
Refresh(id, new) ==
  /\ rows[id] # NoRow
  /\ rows' = [rows EXCEPT ![id].rt = new]
  /\ LET old == rows[id].rt
     IN /\ old \in Tokens /\ status[old] = "live" /\ status[new] = "unissued"
        /\ \E s \in {"live", "revoked"} :
             status' = [status EXCEPT ![old] = "spent", ![new] = s]
  /\ UNCHANGED lost

\* The provider exchanges tokens and their successors are never stored: one
\* at a time, or several when a process that was refreshing them dies.
Waste(olds) ==
  /\ UNCHANGED rows
  /\ olds # {} /\ olds \cap lost = {}
  /\ lost' = lost \cup olds
  /\ \A t \in olds : status[t] = "live"
  /\ \E news \in SUBSET {t \in Tokens : status[t] = "unissued"} :
       \E s \in [news -> {"live", "revoked"}] :
         status' = [t \in Tokens |-> IF t \in olds THEN "spent"
                                    ELSE IF t \in news THEN s[t] ELSE status[t]]

Revoke(t) ==
  /\ UNCHANGED <<rows, lost>>
  /\ status[t] = "live"
  /\ status' = [status EXCEPT ![t] = "revoked"]

Remove(id) ==
  /\ rows[id] # NoRow
  /\ rows' = [rows EXCEPT ![id] = NoRow]
  /\ UNCHANGED <<status, lost>>

Next ==
  \/ \E id \in RowIds : Remove(id)
  \/ \E id \in RowIds : \E c \in Credential : Store(id, c)
  \/ \E id \in RowIds, t \in Tokens : Refresh(id, t)
  \/ \E t \in Tokens : IssueElsewhere(t) \/ Revoke(t)
  \/ \E olds \in SUBSET Tokens : Waste(olds)

Spec == Init /\ [][Next]_vars
=============================================================================
