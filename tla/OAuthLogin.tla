----------------------------- MODULE OAuthLogin -----------------------------
(***************************************************************************)
(* Authorizing a provider account: the browser flow (Login, Callback) and  *)
(* the device flow (LoginDeviceFlow, CallbackDeviceFlow) of modules/oauth. *)
(*                                                                         *)
(* A flow is kept in Redis under its random state or its device id until   *)
(* one completion request consumes it; the request then obtains a code,    *)
(* exchanges it through the upstream service, verifies the identity and    *)
(* inserts the credential.  Completion requests may be duplicated, sent by *)
(* another user, canceled by their client, or run into the flow's expiry.  *)
(*                                                                         *)
(* A flow's number stands for its state, PKCE verifier, nonce or device id, *)
(* which are random and never repeat.  A code is named after the flow in   *)
(* which the provider granted it.                                          *)
(***************************************************************************)
EXTENDS Naturals

CONSTANTS
  Requests,   \* slots in which completion requests are served
  Users, Accounts,
  NoUser, NoAccount, NoFlow,
  MaxFlow     \* bound: flows ever started

ASSUME LoginAssumptions ==
  /\ NoUser \notin Users
  /\ NoAccount \notin Accounts
  /\ MaxFlow \in Nat

None == 0
Flows == 1 .. MaxFlow
Kinds == {"browser", "device"}
LoginFlow == [kind: Kinds, user: Users]

ASSUME FlowAssumption == NoFlow \notin LoginFlow

VARIABLES
  flows,     \* Redis: flow -> LoginFlow, NoFlow when absent
  nextFlow,
  late,      \* flows whose ExpiresAt has passed
  granted,   \* the provider: flow -> the account that approved it
  rows,      \* oauth_infos: set of stored credentials
  req,       \* completion requests
  starter    \* observation: the user who started a flow

vars == <<flows, nextFlow, late, granted, rows, req, starter>>

\* A stored credential, with the flow it came from.
Credential == [owner: Users, account: Accounts, flow: Flows]

Request ==
  [pc: {"idle", "popping", "getting", "deleting", "polling", "exchanging", "saving"},
   user: Users \cup {NoUser},           \* from the JWT, or from the state a callback popped
   flow: Flows \cup {None},             \* the state or device id presented
   code: Flows \cup {None},             \* the code to exchange
   account: Accounts \cup {NoAccount}]  \* the verified identity

IdleRequest ==
  [pc |-> "idle", user |-> NoUser, flow |-> None, code |-> None, account |-> NoAccount]

\* The request has consumed its flow and works with it.
Holds(r, f) == req[r].pc \in {"polling", "exchanging", "saving"} /\ req[r].flow = f

Stored(f, kind) == flows[f] # NoFlow /\ flows[f].kind = kind

Init ==
  /\ flows = [f \in Flows |-> NoFlow]
  /\ nextFlow = 1
  /\ late = {}
  /\ granted = [f \in Flows |-> NoAccount]
  /\ rows = {}
  /\ req = [r \in Requests |-> IdleRequest]
  /\ starter = [f \in Flows |-> NoUser]

-----------------------------------------------------------------------------
(* Starting a flow, and its end in Redis.                                  *)

\* Login and StoreFlow, or LoginDeviceFlow and storeDeviceFlow.  When an
\* earlier step fails nothing is stored.
StartFlow(u, kind) ==
  /\ nextFlow \in Flows
  /\ flows' = [flows EXCEPT ![nextFlow] = [kind |-> kind, user |-> u]]
  /\ starter' = [starter EXCEPT ![nextFlow] = u]
  /\ nextFlow' = nextFlow + 1
  /\ UNCHANGED <<late, granted, rows, req>>

\* ExpiresAt passes.  The key's TTL was set later, so the key goes later.
FlowExpires(f) ==
  /\ f < nextFlow /\ f \notin late
  /\ late' = late \cup {f}
  /\ UNCHANGED <<flows, nextFlow, granted, rows, req, starter>>

KeyExpires(f) ==
  /\ f \in late /\ flows[f] # NoFlow
  /\ flows' = [flows EXCEPT ![f] = NoFlow]
  /\ UNCHANGED <<nextFlow, late, granted, rows, req, starter>>

\* The holder of an account approves the flow at the provider (external).
ProviderGrants(f, a) ==
  /\ f < nextFlow /\ granted[f] = NoAccount
  /\ granted' = [granted EXCEPT ![f] = a]
  /\ UNCHANGED <<flows, nextFlow, late, rows, req, starter>>

-----------------------------------------------------------------------------
(* Completion requests.                                                    *)

Unchanged == UNCHANGED <<nextFlow, late, granted, starter>>

\* The request is answered: with success, "invalid state", or another error.
Ends(r) == req' = [req EXCEPT ![r] = IdleRequest]
Goes(r, pc) == req' = [req EXCEPT ![r].pc = pc]

\* GET /oauth/callback: whoever has a state may present it, with any code
\* (None: the provider reported an error, or the code is missing).
Callback(r, f, code) ==
  /\ req[r].pc = "idle"
  /\ req' = [req EXCEPT ![r] = [IdleRequest EXCEPT !.pc = "popping", !.flow = f, !.code = code]]
  /\ UNCHANGED <<flows, rows>> /\ Unchanged

\* The callback goes on for the user the state belongs to.
Popped(r, u) == req' = [req EXCEPT ![r].pc = "exchanging", ![r].user = u]

\* Mutant: the state is read but not removed.
PopFlow_GetOnly(r) ==
  LET f == req[r].flow
  IN /\ req[r].pc = "popping"
     /\ \/ /\ ~Stored(f, "browser")
           /\ Ends(r)
           /\ UNCHANGED flows
        \/ /\ Stored(f, "browser")
           /\ IF f \in late \/ req[r].code = None THEN Ends(r) ELSE Popped(r, flows[f].user)
           /\ UNCHANGED flows
     /\ UNCHANGED rows /\ Unchanged

\* PopFlow (GETDEL), then the checks of Callback up to the exchange: the state
\* is gone even when they fail, and may be gone when Redis reports an error.
PopFlow(r) ==
  LET f == req[r].flow
  IN /\ req[r].pc = "popping"
     /\ \/ /\ ~Stored(f, "browser")
           /\ Ends(r)
           /\ UNCHANGED flows
        \/ /\ Stored(f, "browser")
           /\ flows' = [flows EXCEPT ![f] = NoFlow]
           /\ IF f \in late \/ req[r].code = None THEN Ends(r) ELSE Popped(r, flows[f].user)
        \/ /\ Stored(f, "browser")
           /\ flows' = [flows EXCEPT ![f] = NoFlow]
           /\ Ends(r)
     /\ UNCHANGED rows /\ Unchanged

\* POST /oauth/callbackdevice by user u.
CallbackDeviceFlow(r, u, f) ==
  /\ req[r].pc = "idle"
  /\ req' = [req EXCEPT ![r] = [IdleRequest EXCEPT !.pc = "getting", !.user = u, !.flow = f]]
  /\ UNCHANGED <<flows, rows>> /\ Unchanged

\* Mutant: the owner of the flow is not compared.
DeviceFlowValid_AnyUser(r, f) ==
  Stored(f, "device") /\ f \notin late

DeviceFlowValid(r, f) ==
  /\ Stored(f, "device")
  /\ flows[f].user = req[r].user
  /\ f \notin late

\* popDeviceFlow: GET and the checks on what was read ...
GetDeviceFlow(r) ==
  /\ req[r].pc = "getting"
  /\ IF DeviceFlowValid(r, req[r].flow) THEN Goes(r, "deleting") ELSE Ends(r)
  /\ UNCHANGED <<flows, rows>> /\ Unchanged

\* ... then the compare-and-delete, which only one request can win.  Redis may
\* report an error although the script ran.
ConsumeDeviceFlow(r) ==
  LET f == req[r].flow
  IN /\ req[r].pc = "deleting"
     /\ \/ /\ flows[f] = NoFlow
           /\ Ends(r)
           /\ UNCHANGED flows
        \/ /\ flows[f] # NoFlow
           /\ flows' = [flows EXCEPT ![f] = NoFlow]
           /\ Goes(r, "polling")
        \/ /\ flows[f] # NoFlow
           /\ flows' = [flows EXCEPT ![f] = NoFlow]
           /\ Ends(r)
     /\ UNCHANGED rows /\ Unchanged

\* PollDeviceFlow, up to the answer that ends the loop: the provider has
\* approved the device, or refuses it, or a request of the loop fails.
Poll(r) ==
  /\ req[r].pc = "polling"
  /\ \/ /\ granted[req[r].flow] # NoAccount /\ req[r].flow \notin late
        /\ req' = [req EXCEPT ![r].pc = "exchanging", ![r].code = req[r].flow]
     \/ Ends(r)
  /\ UNCHANGED <<flows, rows>> /\ Unchanged

\* The provider exchanges a code for the verifier of its own flow, and its ID
\* token carries that flow's nonce.  That it does so only once is left out: the
\* verifier is in the hands of one request (TicketSpec).
ExchangeGranted(r) ==
  /\ req[r].code \in Flows
  /\ granted[req[r].code] # NoAccount
  /\ req[r].code = req[r].flow

\* Exchange and verifyIDToken.  The answer to an exchange that the provider
\* made may be lost, or its identity may not verify.
Exchange(r) ==
  /\ req[r].pc = "exchanging"
  /\ \/ /\ ExchangeGranted(r)
        /\ req' = [req EXCEPT ![r].pc = "saving", ![r].account = granted[req[r].code]]
     \/ Ends(r)
  /\ UNCHANGED <<flows, rows>> /\ Unchanged

\* SaveToken: the ID token's nonce must be the flow's; then a plain insert into
\* a table unique on user and account.  The caller may see an error although
\* the row was inserted.
SaveToken(r) ==
  LET row == [owner |-> req[r].user, account |-> req[r].account, flow |-> req[r].flow]
      stored == \E c \in rows : c.owner = row.owner /\ c.account = row.account
  IN /\ req[r].pc = "saving"
     /\ \/ /\ req[r].code = req[r].flow
           /\ ~stored
           /\ rows' = rows \cup {row}
           /\ Ends(r)
        \/ /\ Ends(r)
           /\ UNCHANGED rows
     /\ UNCHANGED flows /\ Unchanged

\* The client goes away, or the API process dies.
Canceled(r) ==
  /\ req[r].pc # "idle"
  /\ Ends(r)
  /\ UNCHANGED <<flows, rows>> /\ Unchanged

\* Mutant: the poll is not bounded by the flow's expiry.
DeadlinePasses_NotInPoll(r) ==
  /\ req[r].pc \in {"popping", "getting", "deleting", "exchanging", "saving"}
  /\ Ends(r)
  /\ UNCHANGED <<flows, rows>> /\ Unchanged

\* Every call has a deadline: the flow's own expiry while a device flow is
\* polled, seconds everywhere else.
DeadlinePasses(r) ==
  /\ \/ req[r].pc \in {"popping", "getting", "deleting", "exchanging", "saving"}
     \/ req[r].pc = "polling" /\ req[r].flow \in late
  /\ Ends(r)
  /\ UNCHANGED <<flows, rows>> /\ Unchanged

-----------------------------------------------------------------------------
RequestStep(r) ==
  \/ PopFlow(r) \/ GetDeviceFlow(r) \/ ConsumeDeviceFlow(r)
  \/ Poll(r) \/ Exchange(r) \/ SaveToken(r) \/ Canceled(r) \/ DeadlinePasses(r)

Next ==
  \/ \E u \in Users, kind \in Kinds : StartFlow(u, kind)
  \/ \E f \in Flows : FlowExpires(f) \/ KeyExpires(f)
  \/ \E f \in Flows, a \in Accounts : ProviderGrants(f, a)
  \/ \E r \in Requests, f \in Flows :
       \/ \E code \in Flows \cup {None} : Callback(r, f, code)
       \/ \E u \in Users : CallbackDeviceFlow(r, u, f)
  \/ \E r \in Requests : RequestStep(r)

Spec == Init /\ [][Next]_vars

\* Time passes and deadlines fire.
Fairness ==
  /\ \A f \in Flows : WF_vars(FlowExpires(f))
  /\ \A r \in Requests : WF_vars(DeadlinePasses(r))

FairSpec == Spec /\ Fairness

-----------------------------------------------------------------------------
(* Properties                                                              *)

\* Flows, requests and stored credentials hold values of their kinds.
TypeOK ==
  /\ flows \in [Flows -> LoginFlow \cup {NoFlow}]
  /\ nextFlow \in 1 .. MaxFlow + 1
  /\ late \subseteq Flows
  /\ granted \in [Flows -> Accounts \cup {NoAccount}]
  /\ rows \subseteq Credential
  /\ req \in [Requests -> Request]
  /\ starter \in [Flows -> Users \cup {NoUser}]

\* A credential is stored for the user who started the flow in which the
\* provider granted it, and for the account that approved that flow, whoever
\* completes flows and with whatever states, device ids and codes.
StoredForStarter ==
  \A c \in rows : starter[c.flow] = c.owner /\ granted[c.flow] = c.account

\* Every completion request ends, also the one that waits for a human to
\* approve a device.
EveryCompletionEnds ==
  \A r \in Requests : req[r].pc # "idle" ~> req[r].pc = "idle"

-----------------------------------------------------------------------------
(* The inductive invariant behind the properties above.                    *)

\* A stored flow is the flow its starter started.
FlowInv ==
  /\ \A f \in Flows : flows[f] # NoFlow => f < nextFlow /\ flows[f].user = starter[f]
  /\ \A c \in rows : c.flow < nextFlow

\* A request that has consumed a flow, or found a device flow valid, acts for
\* the flow's starter; what it saves is what the flow was granted.
RequestOK(r) ==
  LET f == req[r].flow
  IN /\ req[r].pc # "idle" => f \in Flows
     /\ req[r].pc \in {"deleting", "polling", "exchanging", "saving"} =>
          f < nextFlow /\ req[r].user = starter[f] /\ starter[f] \in Users
     /\ Holds(r, f) => flows[f] = NoFlow
     /\ req[r].pc = "saving" =>
          /\ req[r].code = f
          /\ req[r].account = granted[f] /\ granted[f] \in Accounts

\* No two requests hold the same flow.
HolderInv == \A r, q \in Requests, f \in Flows : Holds(r, f) /\ Holds(q, f) => r = q

LoginInv ==
  /\ TypeOK
  /\ FlowInv
  /\ \A r \in Requests : RequestOK(r)
  /\ HolderInv
  /\ StoredForStarter

-----------------------------------------------------------------------------
(* A flow is a one-time ticket, and the requests past the pop hold it.     *)

TicketOf == [f \in Flows |-> IF flows[f] # NoFlow THEN "open"
                             ELSE IF f < nextFlow THEN "closed" ELSE "none"]
HoldersOf == [f \in Flows |-> {r \in Requests : Holds(r, f)}]

Ticket == INSTANCE OneTimeTicket
            WITH Tickets <- Flows, Holders <- Requests, ticket <- TicketOf, holders <- HoldersOf

\* Each flow is consumed at most once, under concurrent and repeated
\* completions: GETDEL for a state, GET and compare-and-delete for a device.
TicketSpec == Ticket!Spec
=============================================================================
