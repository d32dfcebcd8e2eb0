-------------------------- MODULE OAuthLoginProofs --------------------------
(***************************************************************************)
(* Proofs about OAuthLogin for any number of flows, users, accounts and    *)
(* concurrent completion requests.                                         *)
(***************************************************************************)
EXTENDS OAuthLogin, TLAPS

\* Request r is over and the other requests have not moved (Ends).
Ended(r) ==
  /\ req' \in [Requests -> Request]
  /\ req'[r].pc = "idle"
  /\ \A q \in Requests : q # r => req'[q] = req[q]

\* Request r has moved to pc, for the same user and flow, with code c (Goes).
Moved(r, pc, c) ==
  /\ req' \in [Requests -> Request]
  /\ req'[r].pc = pc /\ req'[r].user = req[r].user /\ req'[r].flow = req[r].flow
  /\ req'[r].code = c
  /\ \A q \in Requests : q # r => req'[q] = req[q]

\* What Ends does to the requests.
LEMMA EndsEffect ==
  ASSUME TypeOK, NEW r \in Requests, Ends(r)
  PROVE  Ended(r)
<1>1. IdleRequest \in Request /\ IdleRequest.pc = "idle"
  BY DEF IdleRequest, Request, None
<1>2. DOMAIN req = Requests /\ req \in [Requests -> Request]
  BY DEF TypeOK
<1> QED BY <1>1, <1>2 DEF Ends, Ended

\* What Goes does to the requests (popDeviceFlow moving on).
LEMMA GoesEffect ==
  ASSUME TypeOK, NEW r \in Requests,
         NEW pc \in {"deleting", "polling"}, Goes(r, pc)
  PROVE  Moved(r, pc, req[r].code)
<1>1. req \in [Requests -> Request] /\ req[r] \in Request
  BY DEF TypeOK
<1>2. /\ [req[r] EXCEPT !.pc = pc] \in Request
      /\ [req[r] EXCEPT !.pc = pc].pc = pc
      /\ [req[r] EXCEPT !.pc = pc].user = req[r].user
      /\ [req[r] EXCEPT !.pc = pc].flow = req[r].flow
      /\ [req[r] EXCEPT !.pc = pc].code = req[r].code
  BY <1>1 DEF Request
<1>3. req' = [req EXCEPT ![r] = [req[r] EXCEPT !.pc = pc]]
  BY DEF Goes
<1> QED BY <1>1, <1>2, <1>3 DEF Moved

\* The frame of a step of one request that stores nothing: what remains to be
\* shown is that the request itself is in order, and holds nothing another
\* request holds.
LEMMA RequestFrame ==
  ASSUME LoginInv, NEW r \in Requests, TypeOK',
         nextFlow' = nextFlow, granted' = granted, starter' = starter, rows' = rows,
         \A f \in Flows : flows'[f] \in {flows[f], NoFlow},
         \A q \in Requests : q # r => req'[q] = req[q],
         RequestOK(r)',
         \A q \in Requests, f \in Flows : q # r /\ Holds(q, f) => ~Holds(r, f)'
  PROVE  LoginInv'
<1>1. FlowInv'
  BY DEF LoginInv, FlowInv
<1>2. \A q \in Requests : RequestOK(q)'
  <2> SUFFICES ASSUME NEW q \in Requests, q # r PROVE RequestOK(q)'
    OBVIOUS
  <2>1. req'[q] = req[q] /\ RequestOK(q)
    BY DEF LoginInv
  <2> QED BY <2>1 DEF RequestOK, Holds
<1>3. \A q \in Requests, f \in Flows : q # r => (Holds(q, f)' <=> Holds(q, f))
  BY DEF Holds
<1>4. HolderInv'
  BY <1>3 DEF LoginInv, HolderInv
<1>5. StoredForStarter'
  BY DEF LoginInv, StoredForStarter
<1> QED BY <1>1, <1>2, <1>4, <1>5 DEF LoginInv

\* A request that ends leaves the invariant alone, whatever flow is deleted
\* with it (every error return of Callback and CallbackDeviceFlow).
LEMMA EndKeeps ==
  ASSUME LoginInv, NEW r \in Requests, Ended(r), Unchanged, rows' = rows,
         flows' \in [Flows -> LoginFlow \cup {NoFlow}],
         \A f \in Flows : flows'[f] \in {flows[f], NoFlow}
  PROVE  LoginInv'
<1>1. TypeOK'
  BY DEF LoginInv, TypeOK, Ended, Unchanged
<1>2. RequestOK(r)' /\ \A f \in Flows : ~Holds(r, f)'
  BY DEF Ended, RequestOK, Holds
<1> QED BY <1>1, <1>2, RequestFrame DEF Ended, Unchanged

-----------------------------------------------------------------------------
(* One lemma per step.                                                     *)

\* Login and LoginDeviceFlow start a flow nobody holds yet.
LEMMA StartKeeps ==
  ASSUME LoginInv, NEW u \in Users, NEW kind \in Kinds, StartFlow(u, kind)
  PROVE  LoginInv'
<1> USE LoginAssumptions, FlowAssumption
<1>1. [kind |-> kind, user |-> u] \in LoginFlow
  BY DEF LoginFlow
<1>2. TypeOK'
  BY <1>1 DEF LoginInv, TypeOK, StartFlow, Flows
<1>3. /\ \A f \in Flows : f # nextFlow => flows'[f] = flows[f] /\ starter'[f] = starter[f]
      /\ nextFlow \in Flows /\ flows'[nextFlow].user = u /\ starter'[nextFlow] = u
      /\ nextFlow' = nextFlow + 1 /\ req' = req /\ rows' = rows /\ granted' = granted
  BY DEF LoginInv, TypeOK, StartFlow
<1>4. FlowInv'
  BY <1>2, <1>3 DEF LoginInv, TypeOK, FlowInv, Credential, Flows
<1>5. \A r \in Requests : RequestOK(r)'
  <2> SUFFICES ASSUME NEW r \in Requests PROVE RequestOK(r)'
    OBVIOUS
  <2>1. RequestOK(r) /\ req[r] \in Request
    BY DEF LoginInv, TypeOK
  <2> QED BY <1>3, <2>1 DEF RequestOK, Holds, Flows
<1>6. HolderInv'
  BY <1>3 DEF LoginInv, HolderInv, Holds
<1>7. StoredForStarter'
  <2> SUFFICES ASSUME NEW c \in rows PROVE starter'[c.flow] = c.owner /\ granted[c.flow] = c.account
    BY <1>3 DEF StoredForStarter
  <2>1. c.flow \in Flows /\ c.flow < nextFlow
    BY DEF LoginInv, TypeOK, FlowInv, Credential
  <2> QED BY <1>3, <2>1 DEF LoginInv, StoredForStarter, Flows
<1> QED BY <1>2, <1>4, <1>5, <1>6, <1>7 DEF LoginInv

\* Expiry, of ExpiresAt or of the Redis key, takes nothing from a holder.
LEMMA ExpiryKeeps ==
  ASSUME LoginInv, NEW f \in Flows, FlowExpires(f) \/ KeyExpires(f)
  PROVE  LoginInv'
<1> USE LoginAssumptions, FlowAssumption
<1>1. TypeOK'
  BY DEF LoginInv, TypeOK, FlowExpires, KeyExpires
<1>2. /\ \A g \in Flows : flows'[g] \in {flows[g], NoFlow}
      /\ UNCHANGED <<nextFlow, granted, rows, req, starter>>
  BY DEF LoginInv, TypeOK, FlowExpires, KeyExpires
<1>3. FlowInv'
  BY <1>2 DEF LoginInv, FlowInv
<1>4. \A r \in Requests : RequestOK(r)'
  <2> SUFFICES ASSUME NEW r \in Requests PROVE RequestOK(r)'
    OBVIOUS
  <2>1. RequestOK(r)
    BY DEF LoginInv
  <2> QED BY <1>2, <2>1 DEF RequestOK, Holds
<1>5. HolderInv' /\ StoredForStarter'
  BY <1>2 DEF LoginInv, HolderInv, Holds, StoredForStarter
<1> QED BY <1>1, <1>3, <1>4, <1>5 DEF LoginInv

\* An approval at the provider does not touch flows that have one.
LEMMA GrantKeeps ==
  ASSUME LoginInv, NEW f \in Flows, NEW a \in Accounts, ProviderGrants(f, a)
  PROVE  LoginInv'
<1> USE LoginAssumptions
<1>1. TypeOK'
  BY DEF LoginInv, TypeOK, ProviderGrants
<1>2. /\ \A g \in Flows : granted[g] # NoAccount => granted'[g] = granted[g]
      /\ UNCHANGED <<flows, nextFlow, rows, req, starter>>
  BY DEF LoginInv, TypeOK, ProviderGrants
<1>3. FlowInv' /\ HolderInv'
  BY <1>2 DEF LoginInv, FlowInv, HolderInv, Holds
<1>4. \A r \in Requests : RequestOK(r)'
  <2> SUFFICES ASSUME NEW r \in Requests PROVE RequestOK(r)'
    OBVIOUS
  <2>1. RequestOK(r)
    BY DEF LoginInv
  <2> QED BY <1>2, <2>1 DEF RequestOK, Holds
<1>5. StoredForStarter'
  <2> SUFFICES ASSUME NEW c \in rows PROVE starter[c.flow] = c.owner /\ granted'[c.flow] = c.account
    BY <1>2 DEF StoredForStarter
  <2>1. c.flow \in Flows /\ c.account \in Accounts
    BY DEF LoginInv, TypeOK, Credential
  <2> QED BY <1>2, <2>1 DEF LoginInv, StoredForStarter
<1> QED BY <1>1, <1>3, <1>4, <1>5 DEF LoginInv

\* What the arrival of a completion request does to the requests.
LEMMA ArrivalEffect ==
  ASSUME TypeOK, NEW r \in Requests, NEW f \in Flows,
         \/ \E code \in Flows \cup {None} : Callback(r, f, code)
         \/ \E u \in Users : CallbackDeviceFlow(r, u, f)
  PROVE  /\ req[r].pc = "idle"
         /\ req' \in [Requests -> Request]
         /\ req'[r].pc \in {"popping", "getting"} /\ req'[r].flow = f
         /\ \A q \in Requests : q # r => req'[q] = req[q]
         /\ UNCHANGED <<flows, rows, nextFlow, late, granted, starter>>
<1>1. req \in [Requests -> Request]
  BY DEF TypeOK
<1>2. CASE \E code \in Flows \cup {None} : Callback(r, f, code)
  <2>1. PICK code \in Flows \cup {None} : Callback(r, f, code)
    BY <1>2
  <2> DEFINE x == [IdleRequest EXCEPT !.pc = "popping", !.flow = f, !.code = code]
  <2>2. x \in Request /\ x.pc = "popping" /\ x.flow = f
    BY DEF IdleRequest, Request
  <2>3. /\ req' = [req EXCEPT ![r] = x] /\ req[r].pc = "idle"
        /\ UNCHANGED <<flows, rows, nextFlow, late, granted, starter>>
    BY <2>1 DEF Callback, Unchanged
  <2> HIDE DEF x
  <2> QED BY <1>1, <2>2, <2>3
<1>3. CASE \E u \in Users : CallbackDeviceFlow(r, u, f)
  <2>1. PICK u \in Users : CallbackDeviceFlow(r, u, f)
    BY <1>3
  <2> DEFINE x == [IdleRequest EXCEPT !.pc = "getting", !.user = u, !.flow = f]
  <2>2. x \in Request /\ x.pc = "getting" /\ x.flow = f
    BY DEF IdleRequest, Request, None
  <2>3. /\ req' = [req EXCEPT ![r] = x] /\ req[r].pc = "idle"
        /\ UNCHANGED <<flows, rows, nextFlow, late, granted, starter>>
    BY <2>1 DEF CallbackDeviceFlow, Unchanged
  <2> HIDE DEF x
  <2> QED BY <1>1, <2>2, <2>3
<1> QED BY <1>2, <1>3

\* A completion request arrives (Callback, CallbackDeviceFlow).
LEMMA ArrivalKeeps ==
  ASSUME LoginInv, NEW r \in Requests, NEW f \in Flows,
         \/ \E code \in Flows \cup {None} : Callback(r, f, code)
         \/ \E u \in Users : CallbackDeviceFlow(r, u, f)
  PROVE  LoginInv'
<1>1. /\ req' \in [Requests -> Request]
      /\ req'[r].pc \in {"popping", "getting"} /\ req'[r].flow = f
      /\ \A q \in Requests : q # r => req'[q] = req[q]
      /\ UNCHANGED <<flows, rows, nextFlow, late, granted, starter>>
  BY ArrivalEffect DEF LoginInv
<1>2. TypeOK'
  BY <1>1 DEF LoginInv, TypeOK
<1>3. RequestOK(r)' /\ \A g \in Flows : ~Holds(r, g)'
  BY <1>1 DEF RequestOK, Holds
<1> QED BY <1>1, <1>2, <1>3, RequestFrame

\* GETDEL: the flow goes, and if the callback goes on it is the only holder.
LEMMA PopKeeps ==
  ASSUME LoginInv, NEW r \in Requests, PopFlow(r)
  PROVE  LoginInv'
<1> USE LoginAssumptions, FlowAssumption
<1> DEFINE f == req[r].flow
<1>0. TypeOK /\ f \in Flows /\ req[r] \in Request /\ RequestOK(r)
  BY DEF LoginInv, TypeOK, PopFlow, RequestOK
<1>1. /\ flows' \in [Flows -> LoginFlow \cup {NoFlow}]
      /\ \A g \in Flows : flows'[g] \in {flows[g], NoFlow}
      /\ rows' = rows /\ Unchanged
  BY <1>0 DEF PopFlow, TypeOK
<1>2. CASE Ends(r)
  BY <1>0, <1>1, <1>2, EndsEffect, EndKeeps DEF TypeOK
<1>3. CASE Stored(f, "browser") /\ flows'[f] = NoFlow /\ Popped(r, flows[f].user)
  <2>1. flows[f] # NoFlow /\ flows[f].user = starter[f] /\ f < nextFlow /\ flows[f].user \in Users
    BY <1>0, <1>3 DEF Stored, LoginInv, FlowInv, TypeOK, LoginFlow
  <2>2. /\ req' \in [Requests -> Request]
        /\ req'[r].pc = "exchanging" /\ req'[r].user = starter[f] /\ req'[r].flow = f
        /\ \A q \in Requests : q # r => req'[q] = req[q]
    <3>1. LET x == [req[r] EXCEPT !.pc = "exchanging", !.user = flows[f].user]
          IN  /\ x \in Request /\ x.pc = "exchanging" /\ x.user = flows[f].user /\ x.flow = f
              /\ req' = [req EXCEPT ![r] = x]
      BY <1>0, <1>3, <2>1 DEF Popped, Request, TypeOK
    <3> QED BY <1>0, <2>1, <3>1 DEF TypeOK
  <2>3. TypeOK'
    BY <1>0, <1>1, <2>2 DEF TypeOK, Unchanged
  <2>4. RequestOK(r)'
    BY <1>0, <1>1, <1>3, <2>1, <2>2 DEF RequestOK, Holds, Unchanged
  <2>5. \A q \in Requests, g \in Flows : q # r /\ Holds(q, g) => ~Holds(r, g)'
    BY <2>1, <2>2 DEF LoginInv, RequestOK, Holds
  <2> QED BY <1>1, <2>2, <2>3, <2>4, <2>5, RequestFrame DEF Unchanged
<1>4. \/ Ends(r)
      \/ Stored(f, "browser") /\ flows'[f] = NoFlow /\ Popped(r, flows[f].user)
  BY <1>0 DEF PopFlow, TypeOK
<1> QED BY <1>2, <1>3, <1>4

\* The first half of popDeviceFlow finds a flow of the requesting user.
LEMMA GetKeeps ==
  ASSUME LoginInv, NEW r \in Requests, GetDeviceFlow(r)
  PROVE  LoginInv'
<1> USE LoginAssumptions, FlowAssumption
<1> DEFINE f == req[r].flow
<1>0. TypeOK /\ f \in Flows /\ req[r] \in Request
  BY DEF LoginInv, TypeOK, GetDeviceFlow, RequestOK
<1>1. UNCHANGED <<flows, rows>> /\ Unchanged
  BY DEF GetDeviceFlow
<1>2. CASE Ends(r)
  BY <1>0, <1>1, <1>2, EndsEffect, EndKeeps DEF TypeOK
<1>3. CASE DeviceFlowValid(r, f) /\ Goes(r, "deleting")
  <2>1. Moved(r, "deleting", req[r].code)
    BY <1>0, <1>3, GoesEffect
  <2>2. f < nextFlow /\ req[r].user = starter[f] /\ starter[f] \in Users
    BY <1>0, <1>3 DEF DeviceFlowValid, Stored, LoginInv, FlowInv, TypeOK, LoginFlow
  <2>3. TypeOK'
    BY <1>0, <1>1, <2>1 DEF TypeOK, Unchanged, Moved
  <2>4. RequestOK(r)' /\ \A g \in Flows : ~Holds(r, g)'
    BY <1>0, <1>1, <2>1, <2>2 DEF RequestOK, Holds, Unchanged, Moved
  <2> QED BY <1>1, <2>1, <2>3, <2>4, RequestFrame DEF Unchanged, Moved
<1> QED BY <1>2, <1>3 DEF GetDeviceFlow

\* The compare-and-delete: whoever deletes the key is the only holder.
LEMMA ConsumeKeeps ==
  ASSUME LoginInv, NEW r \in Requests, ConsumeDeviceFlow(r)
  PROVE  LoginInv'
<1> USE LoginAssumptions, FlowAssumption
<1> DEFINE f == req[r].flow
<1>0. TypeOK /\ f \in Flows /\ req[r] \in Request
      /\ f < nextFlow /\ req[r].user = starter[f] /\ starter[f] \in Users
  BY DEF LoginInv, TypeOK, ConsumeDeviceFlow, RequestOK
<1>1. /\ flows' \in [Flows -> LoginFlow \cup {NoFlow}]
      /\ \A g \in Flows : flows'[g] \in {flows[g], NoFlow}
      /\ rows' = rows /\ Unchanged
  BY <1>0 DEF ConsumeDeviceFlow, TypeOK
<1>2. CASE Ends(r)
  BY <1>0, <1>1, <1>2, EndsEffect, EndKeeps DEF TypeOK
<1>3. CASE flows[f] # NoFlow /\ flows'[f] = NoFlow /\ Goes(r, "polling")
  <2>1. Moved(r, "polling", req[r].code)
    BY <1>0, <1>3, GoesEffect
  <2>2. TypeOK'
    BY <1>0, <1>1, <2>1 DEF TypeOK, Unchanged, Moved
  <2>3. RequestOK(r)'
    BY <1>0, <1>1, <1>3, <2>1 DEF RequestOK, Holds, Unchanged, Moved
  <2>4. \A q \in Requests, g \in Flows : q # r /\ Holds(q, g) => ~Holds(r, g)'
    BY <1>3, <2>1 DEF LoginInv, RequestOK, Holds, Moved
  <2> QED BY <1>1, <2>1, <2>2, <2>3, <2>4, RequestFrame DEF Unchanged, Moved
<1>4. \/ Ends(r)
      \/ flows[f] # NoFlow /\ flows'[f] = NoFlow /\ Goes(r, "polling")
  BY <1>0 DEF ConsumeDeviceFlow, TypeOK
<1> QED BY <1>2, <1>3, <1>4

\* An approved device flow goes on to its exchange.
LEMMA PollKeeps ==
  ASSUME LoginInv, NEW r \in Requests, Poll(r)
  PROVE  LoginInv'
<1> USE LoginAssumptions
<1> DEFINE f == req[r].flow
<1>0. TypeOK /\ f \in Flows /\ req[r] \in Request /\ RequestOK(r) /\ req[r].pc = "polling"
  BY DEF LoginInv, TypeOK, Poll, RequestOK
<1>1. UNCHANGED <<flows, rows>> /\ Unchanged
  BY DEF Poll
<1>2. CASE Ends(r)
  BY <1>0, <1>1, <1>2, EndsEffect, EndKeeps DEF TypeOK
<1>3. CASE req' = [req EXCEPT ![r].pc = "exchanging", ![r].code = f]
  <2>1. Moved(r, "exchanging", f)
    <3>1. LET x == [req[r] EXCEPT !.pc = "exchanging", !.code = f]
          IN  /\ x \in Request /\ x.pc = "exchanging" /\ x.user = req[r].user /\ x.flow = f
              /\ x.code = f
              /\ req' = [req EXCEPT ![r] = x]
      BY <1>0, <1>3 DEF Request, TypeOK
    <3> QED BY <1>0, <3>1 DEF Moved, TypeOK
  <2>2. TypeOK'
    BY <1>0, <1>1, <2>1 DEF TypeOK, Unchanged, Moved
  <2>3. RequestOK(r)' /\ \A g \in Flows : Holds(r, g)' => Holds(r, g)
    BY <1>0, <1>1, <2>1 DEF RequestOK, Holds, Unchanged, Moved
  <2>4. \A q \in Requests, g \in Flows : q # r /\ Holds(q, g) => ~Holds(r, g)'
    BY <2>3 DEF LoginInv, HolderInv
  <2> QED BY <1>1, <2>1, <2>2, <2>3, <2>4, RequestFrame DEF Unchanged, Moved
<1> QED BY <1>2, <1>3 DEF Poll

\* Only the code granted in the request's own flow is exchanged.
LEMMA ExchangeKeeps ==
  ASSUME LoginInv, NEW r \in Requests, Exchange(r)
  PROVE  LoginInv'
<1> USE LoginAssumptions
<1> DEFINE f == req[r].flow
<1>0. TypeOK /\ f \in Flows /\ req[r] \in Request /\ RequestOK(r) /\ req[r].pc = "exchanging"
  BY DEF LoginInv, TypeOK, Exchange, RequestOK
<1>1. flows' = flows /\ rows' = rows /\ Unchanged
  BY <1>0 DEF Exchange, ExchangeGranted, TypeOK
<1>2. CASE Ends(r)
  BY <1>0, <1>1, <1>2, EndsEffect, EndKeeps DEF TypeOK
<1>3. CASE ExchangeGranted(r) /\ req' = [req EXCEPT ![r].pc = "saving", ![r].account = granted[req[r].code]]
  <2>1. req[r].code = f /\ granted[f] \in Accounts
    BY <1>0, <1>3 DEF ExchangeGranted, TypeOK
  <2>2. Moved(r, "saving", f) /\ req'[r].account = granted[f]
    <3>1. LET x == [req[r] EXCEPT !.pc = "saving", !.account = granted[f]]
          IN  /\ x \in Request /\ x.pc = "saving" /\ x.user = req[r].user /\ x.flow = f
              /\ x.code = f /\ x.account = granted[f]
              /\ req' = [req EXCEPT ![r] = x]
      BY <1>0, <1>3, <2>1 DEF Request, TypeOK
    <3> QED BY <1>0, <3>1 DEF Moved, TypeOK
  <2>3. TypeOK'
    BY <1>0, <1>1, <2>2 DEF TypeOK, Unchanged, Moved
  <2>4. RequestOK(r)' /\ \A g \in Flows : Holds(r, g)' => Holds(r, g)
    BY <1>0, <1>1, <2>1, <2>2 DEF RequestOK, Holds, Unchanged, Moved
  <2>5. \A q \in Requests, g \in Flows : q # r /\ Holds(q, g) => ~Holds(r, g)'
    BY <2>4 DEF LoginInv, HolderInv
  <2> QED BY <1>1, <2>2, <2>3, <2>4, <2>5, RequestFrame DEF Unchanged, Moved
<1> QED BY <1>2, <1>3 DEF Exchange

\* What is inserted belongs to the flow's starter and its granted account.
LEMMA SaveKeeps ==
  ASSUME LoginInv, NEW r \in Requests, SaveToken(r)
  PROVE  LoginInv'
<1> USE LoginAssumptions
<1> DEFINE f == req[r].flow
           row == [owner |-> req[r].user, account |-> req[r].account, flow |-> f]
<1>0. TypeOK /\ f \in Flows /\ req[r] \in Request /\ RequestOK(r) /\ req[r].pc = "saving"
  BY DEF LoginInv, TypeOK, SaveToken, RequestOK
<1>1. flows' = flows /\ Unchanged
  BY DEF SaveToken
<1>2. Ended(r)
  BY <1>0, EndsEffect DEF SaveToken
<1>3. CASE rows' = rows
  BY <1>0, <1>1, <1>2, <1>3, EndKeeps DEF TypeOK
<1>4. CASE rows' = rows \cup {row}
  <2>1. row \in Credential /\ f < nextFlow /\ starter[f] = req[r].user /\ granted[f] = req[r].account
    BY <1>0 DEF RequestOK, Credential
  <2>2. TypeOK'
    BY <1>0, <1>1, <1>2, <1>4, <2>1 DEF TypeOK, Ended, Unchanged
  <2>3. FlowInv'
    BY <1>1, <1>4, <2>1 DEF LoginInv, FlowInv, Unchanged
  <2>4. \A q \in Requests : RequestOK(q)'
    <3> SUFFICES ASSUME NEW q \in Requests PROVE RequestOK(q)'
      OBVIOUS
    <3>1. RequestOK(q)
      BY DEF LoginInv
    <3> QED BY <1>1, <1>2, <3>1 DEF RequestOK, Holds, Ended, Unchanged
  <2>5. HolderInv'
    BY <1>2 DEF LoginInv, HolderInv, Holds, Ended
  <2>6. StoredForStarter'
    BY <1>1, <1>4, <2>1 DEF LoginInv, StoredForStarter, Unchanged
  <2> QED BY <2>2, <2>3, <2>4, <2>5, <2>6 DEF LoginInv
<1> QED BY <1>3, <1>4 DEF SaveToken

\* A request that is canceled, or runs into its deadline, just ends.
LEMMA AbortKeeps ==
  ASSUME LoginInv, NEW r \in Requests, Canceled(r) \/ DeadlinePasses(r)
  PROVE  LoginInv'
<1>1. TypeOK /\ Ends(r) /\ flows' = flows /\ rows' = rows /\ Unchanged
  BY DEF LoginInv, Canceled, DeadlinePasses
<1> QED BY <1>1, EndsEffect, EndKeeps DEF TypeOK

\* The inductive step.
LEMMA LoginStep ==
  ASSUME LoginInv, [Next]_vars
  PROVE  LoginInv'
<1>1. CASE Next
  BY <1>1, StartKeeps, ExpiryKeeps, GrantKeeps, ArrivalKeeps, PopKeeps, GetKeeps,
     ConsumeKeeps, PollKeeps, ExchangeKeeps, SaveKeeps, AbortKeeps
     DEF Next, RequestStep
<1>2. CASE UNCHANGED vars
  BY <1>2 DEF vars, LoginInv, TypeOK, FlowInv, RequestOK, HolderInv, Holds, StoredForStarter
<1> QED BY <1>1, <1>2

\* Initially nothing has been started.
LEMMA LoginInit ==
  ASSUME Init
  PROVE  LoginInv
<1> USE LoginAssumptions, FlowAssumption
<1>1. IdleRequest \in Request /\ IdleRequest.pc = "idle"
  BY DEF IdleRequest, Request, None
<1>2. TypeOK
  BY <1>1 DEF Init, TypeOK
<1>3. \A r \in Requests : req[r].pc = "idle"
  BY <1>1 DEF Init
<1> QED BY <1>2, <1>3 DEF Init, LoginInv, FlowInv, RequestOK, HolderInv, Holds, StoredForStarter

\* LoginInv holds of every state of the authorization flows.
THEOREM LoginInvariance == Spec => []LoginInv
<1>1. Init => LoginInv
  BY LoginInit
<1>2. LoginInv /\ [Next]_vars => LoginInv'
  BY LoginStep
<1> QED BY <1>1, <1>2, PTL DEF Spec

\* Whatever states, device ids and codes completion requests present, and
\* however they interleave, SaveToken stores a credential only for the user
\* who started the flow and the account that approved it.
THEOREM CredentialsAreTheStarters == Spec => []StoredForStarter
<1>1. LoginInv => StoredForStarter
  BY DEF LoginInv
<1> QED BY <1>1, LoginInvariance, PTL

\* The type invariant of OAuthLogin.
THEOREM LoginTypes == Spec => []TypeOK
<1>1. LoginInv => TypeOK
  BY DEF LoginInv
<1> QED BY <1>1, LoginInvariance, PTL

-----------------------------------------------------------------------------
(* Refinement: a flow is a one-time ticket.                                *)

\* Redis and the flow counter decide what the ticket looks like.
LEMMA TicketSame ==
  ASSUME flows' = flows, nextFlow' = nextFlow
  PROVE  TicketOf' = TicketOf
  BY DEF TicketOf

\* Deleting the key of a stored flow closes its ticket (GETDEL, the
\* compare-and-delete, the TTL).
LEMMA TicketCloses ==
  ASSUME LoginInv, NEW f \in Flows, flows[f] # NoFlow, flows' = [flows EXCEPT ![f] = NoFlow],
         nextFlow' = nextFlow
  PROVE  TicketOf[f] = "open" /\ TicketOf' = [TicketOf EXCEPT ![f] = "closed"]
<1>1. f < nextFlow
  BY DEF LoginInv, FlowInv
<1>2. \A g \in Flows : flows'[g] = IF g = f THEN NoFlow ELSE flows[g]
  BY DEF LoginInv, TypeOK
<1> QED BY <1>1, <1>2 DEF TicketOf

\* Only requests past the pop count.
LEMMA HoldersSame ==
  ASSUME \A q \in Requests, f \in Flows : Holds(q, f)' <=> Holds(q, f)
  PROVE  HoldersOf' = HoldersOf
<1>1. \A f \in Flows : {r \in Requests : Holds(r, f)'} = {r \in Requests : Holds(r, f)}
  OBVIOUS
<1> QED BY <1>1 DEF HoldersOf

\* When a request ends, it gives up the one flow it holds, if any.
LEMMA EndReleases ==
  ASSUME LoginInv, NEW r \in Requests, Ended(r), req[r].flow \in Flows
  PROVE  \/ HoldersOf' = HoldersOf /\ \A f \in Flows : ~Holds(r, f)
         \/ /\ Holds(r, req[r].flow)
            /\ HoldersOf[req[r].flow] # {}
            /\ HoldersOf' = [HoldersOf EXCEPT ![req[r].flow] = {}]
<1> DEFINE g == req[r].flow
<1>1. \A q \in Requests, f \in Flows : Holds(q, f)' <=> Holds(q, f) /\ q # r
  BY DEF Holds, Ended
<1>2. CASE ~Holds(r, g)
  <2>1. \A f \in Flows : ~Holds(r, f)
    BY <1>2 DEF Holds
  <2> QED BY <1>1, <2>1, HoldersSame
<1>3. CASE Holds(r, g)
  <2>1. r \in HoldersOf[g]
    BY <1>3 DEF HoldersOf
  <2>2. \A f \in Flows : {q \in Requests : Holds(q, f)'} =
                           IF f = g THEN {} ELSE {q \in Requests : Holds(q, f)}
    BY <1>1, <1>3 DEF LoginInv, HolderInv, Holds
  <2>3. HoldersOf' = [HoldersOf EXCEPT ![g] = {}]
    BY <2>2 DEF HoldersOf
  <2> QED BY <1>3, <2>1, <2>3
<1> QED BY <1>2, <1>3

\* A request that consumes a flow becomes its only holder.
LEMMA TakeHolds ==
  ASSUME LoginInv, NEW r \in Requests, NEW f \in Flows, flows[f] # NoFlow,
         req[r].flow = f, req[r].pc \in {"popping", "deleting"},
         req'[r].pc \in {"polling", "exchanging"}, req'[r].flow = f,
         \A q \in Requests : q # r => req'[q] = req[q]
  PROVE  HoldersOf' = [HoldersOf EXCEPT ![f] = {r}]
<1>1. \A q \in Requests : ~Holds(q, f)
  BY DEF LoginInv, RequestOK, Holds
<1>2. \A q \in Requests, g \in Flows :
         Holds(q, g)' <=> IF q = r THEN g = f ELSE Holds(q, g)
  BY DEF Holds
<1>3. \A g \in Flows : {q \in Requests : Holds(q, g)'} =
                         IF g = f THEN {r} ELSE {q \in Requests : Holds(q, g)}
  <2> SUFFICES ASSUME NEW g \in Flows
               PROVE  {q \in Requests : Holds(q, g)'} =
                        IF g = f THEN {r} ELSE {q \in Requests : Holds(q, g)}
    OBVIOUS
  <2>1. CASE g = f
    BY <1>1, <1>2, <2>1
  <2>2. CASE g # f
    <3>1. ~Holds(r, g)
      BY <2>2 DEF Holds
    <3> QED BY <1>2, <2>2, <3>1
  <2> QED BY <2>1, <2>2
<1> QED BY <1>3 DEF HoldersOf

\* Login and LoginDeviceFlow open a ticket.
LEMMA StartOpens ==
  ASSUME LoginInv, NEW u \in Users, NEW kind \in Kinds, StartFlow(u, kind)
  PROVE  [Ticket!Next]_(Ticket!vars)
<1> DEFINE f == nextFlow
           flow == [kind |-> kind, user |-> u]
<1>1. f \in Flows /\ flow \in LoginFlow /\ flow # NoFlow /\ f \in Nat
  BY FlowAssumption DEF StartFlow, LoginFlow, Flows
<1>2. flows[f] = NoFlow
  BY <1>1 DEF LoginInv, FlowInv
<1>3. /\ flows'[f] = flow /\ nextFlow' = f + 1
      /\ \A g \in Flows : g # f => flows'[g] = flows[g]
  BY <1>1 DEF StartFlow, LoginInv, TypeOK
<1>4. TicketOf[f] = "none"
  BY <1>1, <1>2 DEF TicketOf
<1>5. \A g \in Flows : g # f => (g < f + 1 <=> g < f)
  BY <1>1 DEF Flows
<1>6. TicketOf' = [TicketOf EXCEPT ![f] = "open"]
  BY <1>1, <1>3, <1>5 DEF TicketOf
<1>7. HoldersOf' = HoldersOf
  <2>1. req' = req
    BY DEF StartFlow
  <2> QED BY <2>1, HoldersSame DEF Holds
<1>8. Ticket!Open(f)
  BY <1>4, <1>6, <1>7 DEF Ticket!Open
<1> QED BY <1>1, <1>8 DEF Ticket!Next

\* A step that neither deletes a flow nor changes who holds one.
LEMMA QuietStutters ==
  ASSUME flows' = flows, nextFlow' = nextFlow,
         \A q \in Requests, f \in Flows : Holds(q, f)' <=> Holds(q, f)
  PROVE  [Ticket!Next]_(Ticket!vars)
  BY TicketSame, HoldersSame DEF Ticket!vars

\* A request that ends without deleting a key finishes its ticket or does
\* nothing to any.
LEMMA EndFinishes ==
  ASSUME LoginInv, NEW r \in Requests, Ended(r), req[r].flow \in Flows,
         flows' = flows, nextFlow' = nextFlow
  PROVE  [Ticket!Next]_(Ticket!vars)
<1>1. TicketOf' = TicketOf
  BY TicketSame
<1>2. CASE HoldersOf' = HoldersOf
  BY <1>1, <1>2 DEF Ticket!vars
<1>3. CASE /\ HoldersOf[req[r].flow] # {}
           /\ HoldersOf' = [HoldersOf EXCEPT ![req[r].flow] = {}]
  <2>1. Ticket!Finish(req[r].flow)
    BY <1>1, <1>3 DEF Ticket!Finish
  <2> QED BY <2>1 DEF Ticket!Next
<1> QED BY <1>2, <1>3, EndReleases

\* A request that deletes the key and then ends lets the ticket lapse.
LEMMA EndLapses ==
  ASSUME LoginInv, NEW r \in Requests, Ended(r), req[r].flow \in Flows,
         req[r].pc \in {"popping", "deleting"},
         flows[req[r].flow] # NoFlow, flows' = [flows EXCEPT ![req[r].flow] = NoFlow],
         nextFlow' = nextFlow
  PROVE  [Ticket!Next]_(Ticket!vars)
<1> DEFINE f == req[r].flow
<1>1. TicketOf[f] = "open" /\ TicketOf' = [TicketOf EXCEPT ![f] = "closed"]
  BY TicketCloses
<1>2. HoldersOf' = HoldersOf
  BY EndReleases DEF Holds
<1>3. Ticket!Lapse(f)
  BY <1>1, <1>2 DEF Ticket!Lapse
<1> QED BY <1>3 DEF Ticket!Next

\* A request that deletes the key and goes on takes the ticket.
LEMMA ConsumptionTakes ==
  ASSUME LoginInv, NEW r \in Requests, NEW f \in Flows, flows[f] # NoFlow,
         req[r].flow = f, req[r].pc \in {"popping", "deleting"},
         req'[r].pc \in {"polling", "exchanging"}, req'[r].flow = f,
         \A q \in Requests : q # r => req'[q] = req[q],
         flows' = [flows EXCEPT ![f] = NoFlow], nextFlow' = nextFlow
  PROVE  [Ticket!Next]_(Ticket!vars)
<1>1. TicketOf[f] = "open" /\ TicketOf' = [TicketOf EXCEPT ![f] = "closed"]
  BY TicketCloses
<1>2. HoldersOf' = [HoldersOf EXCEPT ![f] = {r}]
  BY TakeHolds
<1>3. Ticket!Take(f, r)
  BY <1>1, <1>2 DEF Ticket!Take
<1> QED BY <1>3 DEF Ticket!Next

\* Expiry, approvals and arrivals.
LEMMA SurroundingsRefine ==
  ASSUME LoginInv, NEW f \in Flows,
         \/ FlowExpires(f) \/ KeyExpires(f)
         \/ \E a \in Accounts : ProviderGrants(f, a)
  PROVE  [Ticket!Next]_(Ticket!vars)
<1>1. nextFlow' = nextFlow /\ req' = req
  BY DEF FlowExpires, KeyExpires, ProviderGrants
<1>2. CASE flows' = flows
  BY <1>1, <1>2, QuietStutters DEF Holds
<1>3. CASE KeyExpires(f)
  <2>1. TicketOf[f] = "open" /\ TicketOf' = [TicketOf EXCEPT ![f] = "closed"]
    BY <1>3, TicketCloses DEF KeyExpires
  <2>2. HoldersOf' = HoldersOf
    BY <1>1, HoldersSame DEF Holds
  <2>3. Ticket!Lapse(f)
    BY <2>1, <2>2 DEF Ticket!Lapse
  <2> QED BY <2>3 DEF Ticket!Next
<1> QED BY <1>2, <1>3 DEF FlowExpires, ProviderGrants

\* An arriving request holds no flow yet.
LEMMA ArrivalRefines ==
  ASSUME LoginInv, NEW r \in Requests, NEW f \in Flows,
         \/ \E code \in Flows \cup {None} : Callback(r, f, code)
         \/ \E u \in Users : CallbackDeviceFlow(r, u, f)
  PROVE  [Ticket!Next]_(Ticket!vars)
<1>1. /\ flows' = flows /\ nextFlow' = nextFlow /\ req[r].pc = "idle"
      /\ req'[r].pc \in {"popping", "getting"}
      /\ \A q \in Requests : q # r => req'[q] = req[q]
  BY ArrivalEffect DEF LoginInv
<1> QED BY <1>1, QuietStutters DEF Holds

\* GETDEL takes the ticket, or lets it lapse when a check of Callback fails.
LEMMA PopRefines ==
  ASSUME LoginInv, NEW r \in Requests, PopFlow(r)
  PROVE  [Ticket!Next]_(Ticket!vars)
<1> DEFINE f == req[r].flow
<1>0. /\ TypeOK /\ f \in Flows /\ req[r] \in Request /\ req[r].pc = "popping"
      /\ nextFlow' = nextFlow
  BY DEF LoginInv, TypeOK, PopFlow, RequestOK, Unchanged
<1>1. CASE Ends(r) /\ flows' = flows
  BY <1>0, <1>1, EndsEffect, EndFinishes
<1>2. CASE /\ Ends(r)
           /\ flows[f] # NoFlow /\ flows' = [flows EXCEPT ![f] = NoFlow]
  BY <1>0, <1>2, EndsEffect, EndLapses
<1>3. CASE /\ Popped(r, flows[f].user)
           /\ flows[f] # NoFlow /\ flows' = [flows EXCEPT ![f] = NoFlow]
  <2>1. /\ req'[r].pc = "exchanging" /\ req'[r].flow = f
        /\ \A q \in Requests : q # r => req'[q] = req[q]
    BY <1>0, <1>3 DEF Popped, TypeOK, Request
  <2> QED BY <1>0, <1>3, <2>1, ConsumptionTakes
<1> QED BY <1>1, <1>2, <1>3 DEF PopFlow, Stored

\* The compare-and-delete takes the ticket, or finds it closed.
LEMMA ConsumeRefines ==
  ASSUME LoginInv, NEW r \in Requests, ConsumeDeviceFlow(r)
  PROVE  [Ticket!Next]_(Ticket!vars)
<1> DEFINE f == req[r].flow
<1>0. /\ TypeOK /\ f \in Flows /\ req[r] \in Request /\ req[r].pc = "deleting"
      /\ nextFlow' = nextFlow
  BY DEF LoginInv, TypeOK, ConsumeDeviceFlow, RequestOK, Unchanged
<1>1. CASE Ends(r) /\ flows' = flows
  BY <1>0, <1>1, EndsEffect, EndFinishes
<1>2. CASE Ends(r) /\ flows[f] # NoFlow /\ flows' = [flows EXCEPT ![f] = NoFlow]
  BY <1>0, <1>2, EndsEffect, EndLapses
<1>3. CASE Goes(r, "polling") /\ flows[f] # NoFlow /\ flows' = [flows EXCEPT ![f] = NoFlow]
  <2>1. Moved(r, "polling", req[r].code)
    BY <1>0, <1>3, GoesEffect
  <2> QED BY <1>0, <1>3, <2>1, ConsumptionTakes DEF Moved
<1> QED BY <1>1, <1>2, <1>3 DEF ConsumeDeviceFlow

\* Every other step of a request keeps its ticket or finishes it.
LEMMA WorkRefines ==
  ASSUME LoginInv, NEW r \in Requests,
         \/ GetDeviceFlow(r) \/ Poll(r) \/ Exchange(r) \/ SaveToken(r)
         \/ Canceled(r) \/ DeadlinePasses(r)
  PROVE  [Ticket!Next]_(Ticket!vars)
<1> DEFINE f == req[r].flow
<1>0. /\ TypeOK /\ f \in Flows /\ req[r] \in Request
      /\ nextFlow' = nextFlow /\ flows' = flows
  <2>1. req[r].pc # "idle"
    BY DEF GetDeviceFlow, Poll, Exchange, SaveToken, Canceled, DeadlinePasses
  <2>2. nextFlow' = nextFlow /\ flows' = flows
    BY DEF GetDeviceFlow, Poll, Exchange, SaveToken, Canceled, DeadlinePasses, Unchanged
  <2> QED BY <2>1, <2>2 DEF LoginInv, TypeOK, RequestOK
<1>1. CASE Ends(r)
  BY <1>0, <1>1, EndsEffect, EndFinishes
<1>2. CASE req[r].pc = "getting" /\ Goes(r, "deleting")
  <2>1. Moved(r, "deleting", req[r].code)
    BY <1>0, <1>2, GoesEffect
  <2> QED BY <1>0, <1>2, <2>1, QuietStutters DEF Moved, Holds
<1>3. CASE /\ req[r].pc = "polling"
           /\ req' = [req EXCEPT ![r].pc = "exchanging", ![r].code = f]
  <2>1. /\ req'[r].pc = "exchanging" /\ req'[r].flow = f
        /\ \A q \in Requests : q # r => req'[q] = req[q]
    BY <1>0, <1>3 DEF TypeOK, Request
  <2> QED BY <1>0, <1>3, <2>1, QuietStutters DEF Holds
<1>4. CASE /\ req[r].pc = "exchanging"
           /\ req' = [req EXCEPT ![r].pc = "saving", ![r].account = granted[req[r].code]]
  <2>1. /\ req'[r].pc = "saving" /\ req'[r].flow = f
        /\ \A q \in Requests : q # r => req'[q] = req[q]
    BY <1>0, <1>4 DEF TypeOK, Request
  <2> QED BY <1>0, <1>4, <2>1, QuietStutters DEF Holds
<1> QED BY <1>1, <1>2, <1>3, <1>4
        DEF GetDeviceFlow, Poll, Exchange, SaveToken, Canceled, DeadlinePasses

\* Every step is a step of the tickets or leaves them alone.
LEMMA StepRefines ==
  ASSUME LoginInv, [Next]_vars
  PROVE  [Ticket!Next]_(Ticket!vars)
<1>1. CASE Next
  BY <1>1, StartOpens, SurroundingsRefine, ArrivalRefines, PopRefines, ConsumeRefines,
     WorkRefines DEF Next, RequestStep
<1>2. CASE UNCHANGED vars
  BY <1>2, QuietStutters DEF vars, Holds
<1> QED BY <1>1, <1>2

\* Before the first flow there are no tickets and nobody holds one.
LEMMA InitRefines ==
  ASSUME Init
  PROVE  Ticket!Init
<1>1. \A f \in Flows : flows[f] = NoFlow /\ ~(f < nextFlow)
  BY DEF Init, Flows
<1>2. \A r \in Requests, f \in Flows : ~Holds(r, f)
  BY DEF Init, Holds, IdleRequest
<1>3. TicketOf = [f \in Flows |-> "none"]
  BY <1>1 DEF TicketOf
<1>4. HoldersOf = [f \in Flows |-> {}]
  <2>1. \A f \in Flows : {r \in Requests : Holds(r, f)} = {}
    BY <1>2
  <2> QED BY <2>1 DEF HoldersOf
<1> QED BY <1>3, <1>4 DEF Ticket!Init

\* Login flows are one-time tickets: however completion requests, expiry and
\* approvals interleave, at most one request ever gets past the pop with a
\* given state or device id, and a consumed one never comes back.
THEOREM FlowsAreTickets == Spec => TicketSpec
<1>1. Init => Ticket!Init
  BY InitRefines
<1>2. LoginInv /\ [Next]_vars => [Ticket!Next]_(Ticket!vars)
  BY StepRefines
<1> QED BY <1>1, <1>2, LoginInvariance, PTL DEF Spec, TicketSpec, Ticket!Spec
=============================================================================
