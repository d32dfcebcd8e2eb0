--------------------------- MODULE BrowserProofs ---------------------------
(***************************************************************************)
(* Proofs about the browser's side: the sessions of its tabs (Session) and *)
(* the two OAuth pages (OAuthView, AccountsView, Console), for any number  *)
(* of tabs, calls, users, tokens, flows and accounts.  The two             *)
(* specifications share no variable; their proofs are independent.         *)
(***************************************************************************)
EXTENDS Session, Console, TLAPS

-----------------------------------------------------------------------------
(* Sessions.  The Redis operations are dealt with once, as lemmas; every   *)
(* action then is one of them or leaves Redis alone.                       *)

\* The types of the Redis part, and of the rest.
RedisType ==
  /\ sessions \in [Tokens -> Users \cup {NoUser}]
  /\ made \in 0 .. MaxToken
  /\ origin \in [Tokens -> Tokens \cup {NoToken}]

BrowserType ==
  /\ isActive \in [Users -> BOOLEAN]
  /\ cookie \in Tokens \cup {NoToken}
  /\ local \in Users \cup {NoUser}
  /\ tabStore \in [Tabs -> Users \cup {NoUser}]
  /\ page \in [Tabs -> {"login", "app"}]
  /\ form \in [Tabs -> Exchange]
  /\ calls \in [Calls -> Call]
  /\ refresh \in [Calls -> Exchange]
  /\ refreshRequest \in [Tabs -> Calls \cup {NoCall}]
  /\ ghosts \subseteq Ghost
  /\ ended \subseteq Tokens \cup {NoToken}

RedisInv ==
  /\ \A t \in Tokens : Live(t) => t <= made /\ origin[t] <= made
  /\ OneSessionPerLogin

\* A new login starts a chain of its own (CreateRefreshToken).
LEMMA CreateKeeps ==
  ASSUME RedisType, RedisInv, NEW u \in Users \cup {NoUser}, CreateRefreshToken(u)
  PROVE  RedisType' /\ RedisInv' /\ made + 1 \in Tokens
<1> USE SessionAssumptions DEF RedisType, CreateRefreshToken, Tokens, NoToken
<1>1. made + 1 \in Tokens
  OBVIOUS
<1>2. RedisType'
  <2>1. sessions' \in [Tokens -> Users \cup {NoUser}]
    BY <1>1
  <2>2. origin' \in [Tokens -> Tokens \cup {NoToken}]
    BY <1>1
  <2>3. made' \in 0 .. MaxToken
    OBVIOUS
  <2> QED BY <2>1, <2>2, <2>3
<1>3. /\ \A t \in Tokens : t # made + 1 => sessions'[t] = sessions[t] /\ origin'[t] = origin[t]
      /\ origin'[made + 1] = made + 1
  BY <1>1
<1>4. \A t \in Tokens : sessions'[t] # NoUser => t <= made' /\ origin'[t] <= made'
  BY <1>1, <1>3 DEF RedisInv, Live
<1>5. OneSessionPerLogin'
  BY <1>1, <1>3 DEF RedisInv, OneSessionPerLogin, Live
<1> QED BY <1>1, <1>2, <1>4, <1>5 DEF RedisInv, Live

\* The rotated token takes the place of the old one in its chain
\* (rotateRefreshTokenScript).
LEMMA RotateKeeps ==
  ASSUME RedisType, RedisInv, NEW old \in Tokens, RotateRefreshToken(old)
  PROVE  RedisType' /\ RedisInv' /\ made + 1 \in Tokens /\ sessions[old] \in Users
  BY SessionAssumptions
     DEF RedisType, RedisInv, RotateRefreshToken, OneSessionPerLogin, Live, Tokens, NoToken

\* Deleting a token keeps the others as they are (DeleteRefreshToken).
LEMMA DeleteKeeps ==
  ASSUME RedisType, RedisInv, NEW t \in Tokens \cup {NoToken}, DeleteRefreshToken(t)
  PROVE  RedisType' /\ RedisInv'
  BY SessionAssumptions
     DEF RedisType, RedisInv, DeleteRefreshToken, OneSessionPerLogin, Live, Tokens, NoToken

\* A step that leaves Redis alone (any handler that makes no Redis call).
LEMMA IdleKeeps ==
  ASSUME RedisType, RedisInv, UNCHANGED server
  PROVE  RedisType' /\ RedisInv'
  BY DEF RedisType, RedisInv, server, OneSessionPerLogin, Live

\* Every form a request takes on its way is an Exchange (Sent, Obtains, Goes,
\* Reply), and what remains of it when it is abandoned is a Ghost.
LEMMA ExchangeForms ==
  ASSUME cookie \in Tokens \cup {NoToken}
  PROVE  /\ NoExchange \in Exchange
         /\ \A kind \in {"refresh", "login", "logout"}, u \in Users \cup {NoUser},
               remember \in BOOLEAN : Sent(kind, u, remember) \in Exchange
         /\ \A x \in Exchange :
              /\ x.user \in Users \cup {NoUser} /\ x.token \in Tokens \cup {NoToken}
              /\ x.new \in Tokens \cup {NoToken}
              /\ x.remember \in BOOLEAN
              /\ CookieAfter(x) \in Tokens \cup {NoToken}
         /\ \A x \in Exchange, t \in Tokens, u \in Users \cup {NoUser} : Obtains(x, t, u) \in Exchange
         /\ \A x \in Exchange, pc \in {"checked", "rotated", "arrived"} : Goes(x, pc) \in Exchange
         /\ \A x \in Exchange, outcome \in {"ok", "invalid", "disabled", "missing", "error"} :
              Reply(x, outcome) \in Exchange
<1>1. NoExchange \in Exchange
  BY DEF Exchange, NoExchange
<1>2. ASSUME NEW kind \in {"refresh", "login", "logout"}, NEW u \in Users \cup {NoUser},
             NEW remember \in BOOLEAN
      PROVE  Sent(kind, u, remember) \in Exchange
  BY DEF Exchange, NoExchange, Sent
<1>3. ASSUME NEW x \in Exchange
      PROVE  /\ x.user \in Users \cup {NoUser} /\ x.token \in Tokens \cup {NoToken}
             /\ x.new \in Tokens \cup {NoToken}
             /\ x.remember \in BOOLEAN
             /\ CookieAfter(x) \in Tokens \cup {NoToken}
  BY DEF Exchange, CookieAfter
<1>4. ASSUME NEW x \in Exchange, NEW t \in Tokens, NEW u \in Users \cup {NoUser}
      PROVE  Obtains(x, t, u) \in Exchange
  BY DEF Exchange, Obtains
<1>5. ASSUME NEW x \in Exchange, NEW pc \in {"checked", "rotated", "arrived"}
      PROVE  Goes(x, pc) \in Exchange
  BY DEF Exchange, Goes
<1>6. ASSUME NEW x \in Exchange,
             NEW outcome \in {"ok", "invalid", "disabled", "missing", "error"}
      PROVE  Reply(x, outcome) \in Exchange
  BY DEF Exchange, Reply
<1> QED BY <1>1, <1>2, <1>3, <1>4, <1>5, <1>6

\* Abandoning a request keeps the ghosts well formed (FormFails, RefreshFails).
LEMMA AbandonForms ==
  ASSUME BrowserType, NEW x \in Exchange
  PROVE  Abandon(x) \subseteq Ghost
  BY DEF BrowserType, Abandon, Ghost, Exchange

\* The forms of a call (RequestNewAccessToken, Settle).
LEMMA CallForms ==
  /\ NoRequest \in Call
  /\ [NoRequest EXCEPT !.pc = "sent"] \in Call
  /\ \A c \in Calls : [pc |-> "await", retried |-> TRUE, on |-> c] \in Call
  /\ \A x \in Call : [x EXCEPT !.pc = "sent", !.on = NoCall] \in Call
  BY DEF Call, NoRequest

\* The browser's and the users' part of the type is kept by every action,
\* given that a token just generated is one.
LEMMA BrowserStep ==
  ASSUME RedisType, BrowserType, Next
  PROVE  BrowserType'
<1> USE SessionAssumptions
<1>t. made < MaxToken => made + 1 \in Tokens
  BY DEF RedisType, Tokens
<1>e. \A t \in Tokens \cup {NoToken} : Ends(t) \subseteq Tokens \cup {NoToken}
  BY DEF Ends, RedisType
<1>x. cookie \in Tokens \cup {NoToken}
  BY DEF BrowserType
<1>1. ASSUME NEW tab \in Tabs, NEW u \in Users, NEW remember \in BOOLEAN, StartLogin(tab, u, remember)
      PROVE  BrowserType'
  BY <1>1, <1>x, ExchangeForms
     DEF StartLogin, BrowserType, server, storage
<1>2. ASSUME NEW tab \in Tabs, StartLogout(tab)
      PROVE  BrowserType'
  BY <1>2, <1>x, ExchangeForms, <1>e
     DEF StartLogout, BrowserType, server, storage
<1>3. ASSUME NEW tab \in Tabs, LoginChecks(tab)
      PROVE  BrowserType'
  <2>1. Goes(form[tab], "checked") \in Exchange /\ Reply(form[tab], "error") \in Exchange
    BY <1>x, ExchangeForms DEF BrowserType
  <2>2. form' \in [Tabs -> Exchange]
    BY <1>3, <2>1 DEF LoginChecks, BrowserType
  <2> QED BY <1>3, <2>2 DEF LoginChecks, BrowserType, server, storage
<1>4. ASSUME NEW tab \in Tabs, LoginCreates(tab)
      PROVE  BrowserType'
  <2>1. Reply(form[tab], "error") \in Exchange
    BY <1>x, ExchangeForms DEF BrowserType
  <2>2. made < MaxToken => Reply(Obtains(form[tab], made + 1, form[tab].user), "ok") \in Exchange
    BY <1>x, <1>t, ExchangeForms DEF BrowserType
  <2>3. form' \in [Tabs -> Exchange]
    BY <1>4, <2>1, <2>2 DEF LoginCreates, CreateRefreshToken, BrowserType
  <2> QED BY <1>4, <2>3 DEF LoginCreates, BrowserType, server, storage
<1>5. ASSUME NEW tab \in Tabs, LogoutServes(tab)
      PROVE  BrowserType'
  <2>1. Reply(form[tab], "ok") \in Exchange /\ Reply(form[tab], "error") \in Exchange
    BY <1>x, ExchangeForms DEF BrowserType
  <2>2. form' \in [Tabs -> Exchange]
    BY <1>5, <2>1 DEF LogoutServes, BrowserType
  <2> QED BY <1>5, <2>2 DEF LogoutServes, BrowserType, server, storage
<1>6. ASSUME NEW tab \in Tabs, FormArrives(tab)
      PROVE  BrowserType'
  BY <1>6, <1>x, ExchangeForms
     DEF FormArrives, BrowserType, server, storage
<1>7. ASSUME NEW tab \in Tabs, FormSettles(tab)
      PROVE  BrowserType'
  <2>1. form' \in [Tabs -> Exchange]
    BY <1>7, <1>x, ExchangeForms DEF FormSettles, BrowserType
  <2>2. form[tab].user \in Users \cup {NoUser}
    BY <1>x, ExchangeForms DEF BrowserType
  <2>3. local' \in Users \cup {NoUser} /\ tabStore' \in [Tabs -> Users \cup {NoUser}]
    BY <1>7, <2>2 DEF FormSettles, BrowserType, SaveSession, ClearSession, storage
  <2>4. page' \in [Tabs -> {"login", "app"}]
    BY <1>7 DEF FormSettles, BrowserType
  <2> QED BY <1>7, <2>1, <2>3, <2>4 DEF FormSettles, BrowserType, server
<1>8. ASSUME NEW tab \in Tabs, FormFails(tab)
      PROVE  BrowserType'
  BY <1>8, <1>x, ExchangeForms, AbandonForms
     DEF FormFails, ClearSession, BrowserType, server, storage
<1>9. ASSUME NEW tab \in Tabs, Navigate(tab)
      PROVE  BrowserType'
  BY <1>9
     DEF Navigate, BrowserType, server, storage
<1>10. ASSUME NEW c \in Calls, StartCall(c)
      PROVE  BrowserType'
  BY <1>10, CallForms
     DEF StartCall, BrowserType, server, storage
<1>11. ASSUME NEW c \in Calls, CallEnds(c)
      PROVE  BrowserType'
  BY <1>11, CallForms
     DEF CallEnds, Rejected, ClearSession, BrowserType, server, storage
<1>12. ASSUME NEW c \in Calls, Unauthorized(c)
      PROVE  BrowserType'
  <2>1. Sent("refresh", NoUser, FALSE) \in Exchange
    BY <1>x, ExchangeForms
  <2>2. CASE RequestNewAccessToken(c) /\ UNCHANGED <<storage, page>>
    <3>1. refresh' \in [Calls -> Exchange]
      BY <2>1, <2>2 DEF RequestNewAccessToken, BrowserType
    <3>2. refreshRequest' \in [Tabs -> Calls \cup {NoCall}]
      BY <2>2 DEF RequestNewAccessToken, BrowserType
    <3>3. calls' \in [Calls -> Call]
      <4>1. TabOf[c] \in Tabs /\ refreshRequest[TabOf[c]] \in Calls \cup {NoCall}
        BY DEF BrowserType
      <4>2. PICK d \in Calls :
              calls' = [calls EXCEPT ![c] = [pc |-> "await", retried |-> TRUE, on |-> d]]
        BY <2>2, <4>1 DEF RequestNewAccessToken
      <4>3. [pc |-> "await", retried |-> TRUE, on |-> d] \in Call
        BY CallForms
      <4> QED BY <4>2, <4>3 DEF BrowserType
    <3> QED BY <1>12, <2>2, <3>1, <3>2, <3>3 DEF Unauthorized, BrowserType, server, storage
  <2>3. CASE /\ calls' = [calls EXCEPT ![c] = NoRequest]
             /\ Rejected(c)
             /\ UNCHANGED <<refresh, refreshRequest>>
    BY <1>12, <2>3, CallForms DEF Unauthorized, Rejected, ClearSession, BrowserType, server, storage
  <2> QED BY <1>12, <2>2, <2>3 DEF Unauthorized
<1>13. ASSUME NEW c \in Calls, RefreshRotates(c)
      PROVE  BrowserType'
  <2>1. \A outcome \in {"invalid", "missing", "error"} : Reply(refresh[c], outcome) \in Exchange
    BY <1>x, ExchangeForms DEF BrowserType
  <2>2. ASSUME refresh[c].token \in Tokens, RotateRefreshToken(refresh[c].token)
        PROVE  Goes(Obtains(refresh[c], made + 1, sessions[refresh[c].token]), "rotated") \in Exchange
    BY <2>2, <1>x, <1>t, ExchangeForms DEF BrowserType, RedisType, RotateRefreshToken
  <2>3. refresh[c].token \in Tokens \cup {NoToken}
    BY <1>x, ExchangeForms DEF BrowserType
  <2>4. refresh' \in [Calls -> Exchange]
    BY <1>13, <2>1, <2>2, <2>3 DEF RefreshRotates, Answers, BrowserType
  <2>5. ended' \subseteq Tokens \cup {NoToken}
    BY <1>13, <1>e, <2>3 DEF RefreshRotates, BrowserType
  <2> QED BY <1>13, <2>4, <2>5 DEF RefreshRotates, BrowserType, server, storage
<1>14. ASSUME NEW c \in Calls, RefreshAuthorizes(c)
      PROVE  BrowserType'
  <2>1. \A outcome \in {"ok", "disabled", "error"} : Reply(refresh[c], outcome) \in Exchange
    BY <1>x, ExchangeForms DEF BrowserType
  <2>2. refresh[c].new \in Tokens \cup {NoToken}
    BY <1>x, ExchangeForms DEF BrowserType
  <2>3. refresh' \in [Calls -> Exchange]
    BY <1>14, <2>1 DEF RefreshAuthorizes, Answers, BrowserType
  <2>4. ended' \subseteq Tokens \cup {NoToken}
    BY <1>14, <1>e, <2>2 DEF RefreshAuthorizes, BrowserType
  <2> QED BY <1>14, <2>3, <2>4 DEF RefreshAuthorizes, BrowserType, server, storage
<1>15. ASSUME NEW c \in Calls, RefreshArrives(c)
      PROVE  BrowserType'
  BY <1>15, <1>x, ExchangeForms
     DEF RefreshArrives, BrowserType, server, storage
<1>16. ASSUME NEW c \in Calls, RefreshSettles(c)
      PROVE  BrowserType'
  <2>1. refresh' \in [Calls -> Exchange] /\ calls' \in [Calls -> Call]
        /\ refreshRequest' \in [Tabs -> Calls \cup {NoCall}]
    BY <1>16, <1>x, ExchangeForms, CallForms DEF RefreshSettles, Settle, BrowserType
  <2>2. refresh[c].user \in Users \cup {NoUser}
    BY <1>x, ExchangeForms DEF BrowserType
  <2>3. local' \in Users \cup {NoUser} /\ tabStore' \in [Tabs -> Users \cup {NoUser}]
    BY <1>16, <2>2 DEF RefreshSettles, ReplaceAccessToken, ClearSession, BrowserType
  <2> QED BY <1>16, <2>1, <2>3 DEF RefreshSettles, BrowserType, server
<1>17. ASSUME NEW c \in Calls, RefreshFails(c)
      PROVE  BrowserType'
  BY <1>17, <1>x, ExchangeForms, CallForms, AbandonForms, <1>e
     DEF RefreshFails, Settle, ClearSession, BrowserType, server, storage
<1>18. ASSUME NEW t \in Tokens, SessionExpires(t)
      PROVE  BrowserType'
  BY <1>18
     DEF SessionExpires, RedisType, BrowserType, server, storage
<1>19. ASSUME NEW u \in Users, UserDisabled(u)
      PROVE  BrowserType'
  BY <1>19
     DEF UserDisabled, BrowserType, server, storage
<1>20. ASSUME NEW g \in ghosts, GhostServed(g)
      PROVE  BrowserType'
  BY <1>20
     DEF GhostServed, BrowserType, server, storage
<1> QED BY <1>1, <1>2, <1>3, <1>4, <1>5, <1>6, <1>7, <1>8, <1>9, <1>10, <1>11, <1>12,
           <1>13, <1>14, <1>15, <1>16, <1>17, <1>18, <1>19, <1>20 DEF Next

\* What a step does to Redis is one of the four things the lemmas are about.
LEMMA RedisStep ==
  ASSUME RedisType, BrowserType, Next
  PROVE  \/ \E u \in Users \cup {NoUser} : CreateRefreshToken(u)
         \/ \E t \in Tokens : RotateRefreshToken(t)
         \/ \E t \in Tokens \cup {NoToken} : DeleteRefreshToken(t)
         \/ UNCHANGED server
<1> USE SessionAssumptions
<1>x. cookie \in Tokens \cup {NoToken}
  BY DEF BrowserType
<1>1. ASSUME NEW tab \in Tabs, LoginCreates(tab)
      PROVE  (\E u \in Users \cup {NoUser} : CreateRefreshToken(u)) \/ UNCHANGED server
  BY <1>1, <1>x, ExchangeForms DEF LoginCreates, BrowserType
<1>2. ASSUME NEW tab \in Tabs, LogoutServes(tab)
      PROVE  (\E t \in Tokens \cup {NoToken} : DeleteRefreshToken(t)) \/ UNCHANGED server
  BY <1>2, <1>x, ExchangeForms DEF LogoutServes, BrowserType
<1>3. ASSUME NEW c \in Calls, RefreshRotates(c)
      PROVE  (\E t \in Tokens : RotateRefreshToken(t)) \/ UNCHANGED server
  BY <1>3, <1>x, ExchangeForms DEF RefreshRotates, BrowserType
<1>4. ASSUME NEW t \in Tokens, SessionExpires(t)
      PROVE  DeleteRefreshToken(t)
  BY <1>4 DEF SessionExpires
<1>5. ASSUME NEW g \in ghosts, GhostServed(g)
      PROVE  \/ \E u \in Users \cup {NoUser} : CreateRefreshToken(u)
             \/ \E t \in Tokens : RotateRefreshToken(t)
             \/ \E t \in Tokens \cup {NoToken} : DeleteRefreshToken(t)
             \/ UNCHANGED server
  BY <1>5 DEF GhostServed, BrowserType, Ghost
<1> QED BY <1>1, <1>2, <1>3, <1>4, <1>5
   DEF Next, StartLogin, StartLogout, LoginChecks, FormArrives, FormSettles, FormFails,
       Navigate, StartCall, CallEnds, Unauthorized, RefreshAuthorizes, RefreshArrives,
       RefreshSettles, RefreshFails, UserDisabled

\* The inductive step (one action of Next, or a stutter).
LEMMA SessionStep ==
  ASSUME SessionInv, [Next]_vars
  PROVE  SessionInv'
<1>1. RedisType /\ BrowserType /\ RedisInv
  BY DEF SessionInv, TypeOK, RedisType, BrowserType, RedisInv
<1>2. RedisType' /\ RedisInv' /\ BrowserType' => SessionInv'
  BY DEF SessionInv, TypeOK, RedisType, BrowserType, RedisInv
<1>3. CASE Next
  <2>1. BrowserType'
    BY <1>1, <1>3, BrowserStep
  <2>2. RedisType' /\ RedisInv'
    BY <1>1, <1>3, RedisStep, CreateKeeps, RotateKeeps, DeleteKeeps, IdleKeeps
  <2> QED BY <1>2, <2>1, <2>2
<1>4. CASE UNCHANGED vars
  BY <1>1, <1>2, <1>4 DEF vars, RedisType, RedisInv, BrowserType, OneSessionPerLogin, Live
<1> QED BY <1>3, <1>4

\* The initial state: no session, nothing under way.
LEMMA SessionInit ==
  ASSUME Init
  PROVE  SessionInv
<1>1. BrowserType
  BY SessionAssumptions, ExchangeForms, CallForms DEF Init, BrowserType
<1>2. RedisType /\ RedisInv
  BY SessionAssumptions DEF Init, RedisType, RedisInv, OneSessionPerLogin, Live
<1> QED BY <1>1, <1>2 DEF SessionInv, TypeOK, RedisType, BrowserType, RedisInv

\* SessionInv is an invariant of the sessions, tabs and requests of Session.
THEOREM SessionInvariance == Spec => []SessionInv
<1>1. Init => SessionInv
  BY SessionInit
<1>2. SessionInv /\ [Next]_vars => SessionInv'
  BY SessionStep
<1> QED BY <1>1, <1>2, PTL DEF Spec

\* For any number of tabs, calls, users and tokens, a login has at most one
\* live refresh token (RotateRefreshToken, Login, Logout, expiry).
THEOREM LoginHasOneSession == Spec => []OneSessionPerLogin
<1>1. SessionInv => OneSessionPerLogin
  BY DEF SessionInv
<1> QED BY <1>1, SessionInvariance, PTL

\* The type invariant of Session.
THEOREM SessionTypes == Spec => []TypeOK
<1>1. SessionInv => TypeOK
  BY DEF SessionInv
<1> QED BY <1>1, SessionInvariance, PTL

-----------------------------------------------------------------------------
(* One tab: whatever makes Redis refuse a refresh, it is not the tab      *)
(* itself.                                                                 *)

\* All tabs but the one are out of the picture.
OneTab == \A s, t \in Tabs : s = t

\* A step that changes no origin and ruins no token but those in X.
KeepsTokens(X) ==
  /\ made <= made' /\ ended \subseteq ended'
  /\ \A t \in Tokens : t <= made =>
       origin'[t] = origin[t] /\ (Fine(t) /\ t \notin X => Fine(t)')

\* Redis leaves alone every token but the one it rotates; what it deletes or
\* rotates after its login ended is no loss (CreateRefreshToken,
\* RotateRefreshToken, DeleteRefreshToken).
LEMMA TokensKept ==
  ASSUME SessionInv, ended \subseteq ended'
  PROVE  /\ UNCHANGED server => KeepsTokens({})
         /\ \A u \in Users \cup {NoUser} : CreateRefreshToken(u) =>
              /\ KeepsTokens({}) /\ made + 1 \in Tokens /\ made' = made + 1
              /\ u \in Users => Fine(made)'
         /\ \A t \in Tokens : RotateRefreshToken(t) =>
              /\ KeepsTokens({t}) /\ made + 1 \in Tokens /\ made' = made + 1
              /\ Fine(made)' /\ origin'[made + 1] = origin[t]
              /\ origin'[t] = origin[t] /\ t <= made
              /\ origin[t] \in ended' => KeepsTokens({})
         /\ \A t \in Tokens \cup {NoToken} :
              DeleteRefreshToken(t) /\ Ends(t) \subseteq ended' => KeepsTokens({})
<1> USE SessionAssumptions
<1>0. /\ made \in Nat /\ made <= MaxToken /\ MaxToken \in Nat /\ NoUser \notin Users
      /\ sessions \in [Tokens -> Users \cup {NoUser}]
      /\ origin \in [Tokens -> Tokens \cup {NoToken}]
      /\ \A t \in Tokens : sessions[t] # NoUser => t <= made
      /\ \A t \in Tokens : t \in Nat /\ t # NoToken
  BY DEF SessionInv, TypeOK, Live, Tokens, NoToken
<1>1. UNCHANGED server => KeepsTokens({})
  BY <1>0 DEF KeepsTokens, server, Fine, Live
<1>2. ASSUME NEW u \in Users \cup {NoUser}, CreateRefreshToken(u)
      PROVE  /\ KeepsTokens({}) /\ made + 1 \in Tokens /\ made' = made + 1
             /\ u \in Users => Fine(made)'
  <2>1. made + 1 \in Tokens /\ made' = made + 1
    BY <1>0, <1>2 DEF CreateRefreshToken, Tokens
  <2>2. /\ \A t \in Tokens : t <= made => sessions'[t] = sessions[t] /\ origin'[t] = origin[t]
        /\ sessions'[made + 1] = u
    BY <1>0, <1>2, <2>1 DEF CreateRefreshToken
  <2> QED BY <1>0, <2>1, <2>2 DEF KeepsTokens, Fine, Live
<1>3. ASSUME NEW t \in Tokens, RotateRefreshToken(t)
      PROVE  /\ KeepsTokens({t}) /\ made + 1 \in Tokens /\ made' = made + 1
             /\ Fine(made)' /\ origin'[made + 1] = origin[t]
             /\ origin'[t] = origin[t] /\ t <= made
             /\ origin[t] \in ended' => KeepsTokens({})
  <2>1. made + 1 \in Tokens /\ made' = made + 1 /\ t <= made /\ sessions[t] # NoUser
    BY <1>0, <1>3 DEF RotateRefreshToken, Tokens, Live
  <2>2. /\ \A s \in Tokens : s <= made /\ s # t => sessions'[s] = sessions[s]
        /\ \A s \in Tokens : s <= made => origin'[s] = origin[s]
        /\ sessions'[made + 1] = sessions[t] /\ origin'[made + 1] = origin[t]
    BY <1>0, <1>3, <2>1 DEF RotateRefreshToken
  <2>3. KeepsTokens({t})
    BY <1>0, <2>1, <2>2 DEF KeepsTokens, Fine, Live
  <2>4. origin[t] \in ended' => KeepsTokens({})
    BY <1>0, <2>1, <2>2 DEF KeepsTokens, Fine, Live
  <2> QED BY <2>1, <2>2, <2>3, <2>4 DEF Fine, Live
<1>4. ASSUME NEW t \in Tokens \cup {NoToken}, DeleteRefreshToken(t), Ends(t) \subseteq ended'
      PROVE  KeepsTokens({})
  BY <1>0, <1>4 DEF KeepsTokens, DeleteRefreshToken, Ends, Fine, Live
<1> QED BY <1>1, <1>2, <1>3, <1>4

\* What the type invariant says of the records TabInv is about.
LEMMA TabTypes ==
  ASSUME SessionInv
  PROVE  /\ made \in Nat /\ cookie \in Tokens \cup {NoToken}
         /\ \A t \in Tokens : t \in Nat /\ t # NoToken
         /\ NoToken \in Nat
         /\ refresh \in [Calls -> Exchange] /\ form \in [Tabs -> Exchange]
         /\ refreshRequest \in [Tabs -> Calls \cup {NoCall}]
         /\ \A c \in Calls : refresh[c].token \in Tokens \cup {NoToken}
         /\ \A c \in Calls : refresh[c].new \in Tokens \cup {NoToken}
         /\ \A tab \in Tabs : form[tab].token \in Tokens \cup {NoToken}
         /\ \A tab \in Tabs : form[tab].new \in Tokens \cup {NoToken}
         /\ \A g \in ghosts : g.token \in Tokens \cup {NoToken}
         /\ ghosts \subseteq Ghost
<1>1. /\ made \in Nat /\ cookie \in Tokens \cup {NoToken}
      /\ \A t \in Tokens : t \in Nat /\ t # NoToken
      /\ NoToken \in Nat
  BY SessionAssumptions DEF SessionInv, TypeOK, Tokens, NoToken
<1>2. refresh \in [Calls -> Exchange] /\ form \in [Tabs -> Exchange] /\ ghosts \subseteq Ghost
      /\ refreshRequest \in [Tabs -> Calls \cup {NoCall}]
  BY DEF SessionInv, TypeOK
<1>3. \A x \in Exchange : x.token \in Tokens \cup {NoToken} /\ x.new \in Tokens \cup {NoToken}
  BY DEF Exchange
<1>4. \A g \in ghosts : g.token \in Tokens \cup {NoToken}
  BY <1>2 DEF Ghost
<1> QED BY <1>1, <1>2, <1>3, <1>4

\* What the forms of a request leave of its fields (Sent, Obtains, Goes, Reply).
LEMMA RequestFields ==
  /\ \A x \in Exchange, pc \in {"checked", "rotated", "arrived"} :
       /\ Goes(x, pc).pc = pc /\ Goes(x, pc).kind = x.kind /\ Goes(x, pc).user = x.user
       /\ Goes(x, pc).token = x.token /\ Goes(x, pc).new = x.new
       /\ Goes(x, pc).outcome = x.outcome
  /\ \A x \in Exchange, outcome \in {"ok", "invalid", "disabled", "missing", "error"} :
       /\ Reply(x, outcome).pc = "reply" /\ Reply(x, outcome).kind = x.kind
       /\ Reply(x, outcome).user = x.user /\ Reply(x, outcome).token = x.token
       /\ Reply(x, outcome).new = x.new /\ Reply(x, outcome).outcome = outcome
  /\ \A x \in Exchange, t \in Tokens, u \in Users \cup {NoUser} :
       /\ Obtains(x, t, u).pc = x.pc /\ Obtains(x, t, u).kind = x.kind
       /\ Obtains(x, t, u).user = u /\ Obtains(x, t, u).token = x.token
       /\ Obtains(x, t, u).new = t /\ Obtains(x, t, u).outcome = x.outcome
       /\ Obtains(x, t, u) \in Exchange
  /\ \A kind \in {"refresh", "login", "logout"}, u \in Users \cup {NoUser}, remember \in BOOLEAN :
       /\ Sent(kind, u, remember).pc = "sent" /\ Sent(kind, u, remember).kind = kind
       /\ Sent(kind, u, remember).user = u /\ Sent(kind, u, remember).token = cookie
       /\ Sent(kind, u, remember).new = NoToken /\ Sent(kind, u, remember).outcome = "none"
<1>1. ASSUME NEW x \in Exchange, NEW pc \in {"checked", "rotated", "arrived"}
      PROVE  /\ Goes(x, pc).pc = pc /\ Goes(x, pc).kind = x.kind /\ Goes(x, pc).user = x.user
             /\ Goes(x, pc).token = x.token /\ Goes(x, pc).new = x.new
             /\ Goes(x, pc).outcome = x.outcome
  BY DEF Goes, Exchange
<1>2. ASSUME NEW x \in Exchange, NEW outcome \in {"ok", "invalid", "disabled", "missing", "error"}
      PROVE  /\ Reply(x, outcome).pc = "reply" /\ Reply(x, outcome).kind = x.kind
             /\ Reply(x, outcome).user = x.user /\ Reply(x, outcome).token = x.token
             /\ Reply(x, outcome).new = x.new /\ Reply(x, outcome).outcome = outcome
  BY DEF Reply, Exchange
<1>3. ASSUME NEW x \in Exchange, NEW t \in Tokens, NEW u \in Users \cup {NoUser}
      PROVE  /\ Obtains(x, t, u).pc = x.pc /\ Obtains(x, t, u).kind = x.kind
             /\ Obtains(x, t, u).user = u /\ Obtains(x, t, u).token = x.token
             /\ Obtains(x, t, u).new = t /\ Obtains(x, t, u).outcome = x.outcome
             /\ Obtains(x, t, u) \in Exchange
  BY DEF Obtains, Exchange
<1>4. ASSUME NEW kind \in {"refresh", "login", "logout"}, NEW u \in Users \cup {NoUser},
             NEW remember \in BOOLEAN
      PROVE  /\ Sent(kind, u, remember).pc = "sent" /\ Sent(kind, u, remember).kind = kind
             /\ Sent(kind, u, remember).user = u /\ Sent(kind, u, remember).token = cookie
             /\ Sent(kind, u, remember).new = NoToken /\ Sent(kind, u, remember).outcome = "none"
  BY DEF Sent, NoExchange
<1> QED BY <1>1, <1>2, <1>3, <1>4

\* A refresh that a step leaves alone stays well behaved (every action but
\* those of the refresh itself).
LEMMA RefreshKept ==
  ASSUME SessionInv, NEW c \in Calls, RefreshOf(c), KeepsTokens({}),
         SessionInv', refresh'[c] = refresh[c],
         refresh[c].pc # "idle" => refreshRequest'[TabOf[c]] = refreshRequest[TabOf[c]]
  PROVE  RefreshOf(c)'
<1>1. /\ made \in Nat /\ made' \in Nat /\ made <= made' /\ ended \subseteq ended'
      /\ \A t \in Tokens : t \in Nat /\ t # NoToken
      /\ refresh[c].token \in Tokens \cup {NoToken} /\ refresh[c].new \in Tokens \cup {NoToken}
      /\ NoToken \in Nat
  BY TabTypes DEF KeepsTokens, SessionInv, TypeOK
<1>2. ASSUME NEW t \in Tokens, t <= made
      PROVE  origin'[t] = origin[t] /\ (Fine(t) => Fine(t)')
  BY <1>2 DEF KeepsTokens
<1>3. refresh[c].token <= made' /\ refresh[c].new <= made'
  BY <1>1 DEF RefreshOf
<1>4. refresh[c].pc = "sent" /\ refresh[c].token # NoToken => Fine(refresh[c].token)'
  BY <1>1, <1>2 DEF RefreshOf
<1> QED BY <1>1, <1>2, <1>3, <1>4 DEF RefreshOf, Rotating, Fine, Live

\* The same for a login or logout request.
LEMMA FormKept ==
  ASSUME SessionInv, NEW tab \in Tabs, FormOf(tab), NEW X, KeepsTokens(X),
         SessionInv', form'[tab] = form[tab],
         Fresh(form[tab]) => form[tab].new \notin X
  PROVE  FormOf(tab)'
<1>1. /\ made \in Nat /\ made' \in Nat /\ made <= made' /\ ended \subseteq ended'
      /\ \A t \in Tokens : t \in Nat /\ t # NoToken
      /\ form[tab].token \in Tokens \cup {NoToken} /\ form[tab].new \in Tokens \cup {NoToken}
      /\ NoToken \in Nat
  BY TabTypes DEF KeepsTokens, SessionInv, TypeOK
<1>2. ASSUME NEW t \in Tokens, t <= made
      PROVE  origin'[t] = origin[t] /\ (Fine(t) /\ t \notin X => Fine(t)')
  BY <1>2 DEF KeepsTokens
<1>3. form[tab].token <= made' /\ form[tab].new <= made'
  BY <1>1 DEF FormOf
<1>4. form[tab].kind = "logout" => Ends(form[tab].token)' \subseteq ended'
  BY <1>1, <1>2 DEF FormOf, Ends
<1>5. Fresh(form[tab]) => Fine(form[tab].new)'
  BY <1>1, <1>2 DEF FormOf, Fresh
<1> QED BY <1>1, <1>3, <1>4, <1>5 DEF FormOf, Fresh

\* And for the abandoned requests.
LEMMA GhostKept ==
  ASSUME SessionInv, NEW g \in ghosts, GhostOf(g), NEW X, KeepsTokens(X), SessionInv'
  PROVE  GhostOf(g)'
<1>1. /\ made \in Nat /\ made' \in Nat /\ made <= made' /\ ended \subseteq ended'
      /\ \A t \in Tokens : t \in Nat
      /\ g.token \in Tokens \cup {NoToken} /\ NoToken \in Nat
  BY TabTypes DEF KeepsTokens, SessionInv, TypeOK
<1>2. g.token \in Tokens => origin'[g.token] = origin[g.token]
  BY DEF KeepsTokens, GhostOf
<1> QED BY <1>1, <1>2 DEF GhostOf, Ends

\* The cookie, when a step leaves it and the rotations under way alone.
LEMMA CookieKept ==
  ASSUME SessionInv, CookieInv, KeepsTokens({}), SessionInv', cookie' = cookie,
         \A c \in Calls : Rotating(refresh[c]) =>
           \/ Rotating(refresh'[c]) /\ refresh'[c].token = refresh[c].token
           \/ refresh[c].token # NoToken /\ refresh[c].token <= made
              /\ origin[refresh[c].token] \in ended'
  PROVE  CookieInv'
<1>1. /\ made \in Nat /\ made' \in Nat /\ made <= made' /\ ended \subseteq ended'
      /\ \A t \in Tokens : t \in Nat /\ t # NoToken
      /\ cookie \in Tokens \cup {NoToken} /\ NoToken \in Nat
      /\ cookie <= made
  BY TabTypes DEF KeepsTokens, SessionInv, TypeOK, CookieInv
<1>2. cookie' <= made'
  BY <1>1
<1>3. cookie \in Tokens => origin'[cookie] = origin[cookie] /\ (Fine(cookie) => Fine(cookie)')
  BY <1>1 DEF KeepsTokens
<1>4. CASE cookie = NoToken
  BY <1>2, <1>4 DEF CookieInv
<1>5. CASE cookie # NoToken /\ Fine(cookie)
  BY <1>1, <1>2, <1>3, <1>5 DEF CookieInv
<1>6. CASE cookie # NoToken /\ \E c \in Calls : Rotating(refresh[c]) /\ refresh[c].token = cookie
  <2>1. PICK c \in Calls : Rotating(refresh[c]) /\ refresh[c].token = cookie
    BY <1>6
  <2>2. CASE Rotating(refresh'[c]) /\ refresh'[c].token = refresh[c].token
    BY <1>2, <2>1, <2>2 DEF CookieInv, Rotating
  <2>3. CASE origin[refresh[c].token] \in ended'
    <3>1. Fine(cookie)'
      BY <1>1, <1>3, <1>6, <2>1, <2>3 DEF Fine
    <3> QED BY <1>2, <3>1 DEF CookieInv
  <2> QED BY <2>1, <2>2, <2>3
<1> QED BY <1>4, <1>5, <1>6 DEF CookieInv

\* No new holder of a token appears, and no new login answer.
LEMMA ApartKept ==
  ASSUME SessionInv, Apart, SessionInv',
         cookie' \in {cookie, NoToken},
         \A tab \in Tabs : Fresh(form'[tab]) => Fresh(form[tab]) /\ form'[tab].new = form[tab].new,
         \A c \in Calls : refresh'[c].pc # "idle" =>
           /\ refresh[c].pc # "idle"
           /\ refresh'[c].token = refresh[c].token
           /\ refresh'[c].new = refresh[c].new
  PROVE  Apart'
<1>1. SUFFICES ASSUME NEW tab \in Tabs, Fresh(form'[tab])
               PROVE  /\ form'[tab].new # cookie'
                      /\ \A c \in Calls : refresh'[c].pc # "idle" =>
                           form'[tab].new # refresh'[c].token /\ form'[tab].new # refresh'[c].new
  BY DEF Apart, Fresh
<1>2. Fresh(form[tab]) /\ form'[tab].new = form[tab].new /\ form[tab].new # NoToken
  BY <1>1 DEF Fresh
<1> QED BY <1>2 DEF Apart

\* A step that touches neither the cookie nor the requests (a view, a call that
\* is rejected or joins a refresh, an expiry).
LEMMA ElsewhereTab ==
  ASSUME TabInv, SessionInv', KeepsTokens({}),
         UNCHANGED <<cookie, refresh, refreshRequest, form, ghosts>>
  PROVE  TabInv'
<1>1. SessionInv /\ CookieInv /\ Apart
  BY DEF TabInv
<1>2. \A c \in Calls : RefreshOf(c)'
  BY <1>1, RefreshKept DEF TabInv
<1>3. \A tab \in Tabs : FormOf(tab)'
  BY <1>1, FormKept DEF TabInv
<1>4. \A g \in ghosts' : GhostOf(g)'
  BY <1>1, GhostKept DEF TabInv
<1>5. CookieInv'
  BY <1>1, CookieKept
<1>6. Apart'
  BY <1>1, ApartKept
<1> QED BY <1>2, <1>3, <1>4, <1>5, <1>6 DEF TabInv

\* A login or logout moves on without touching the cookie; the token a login
\* brings is the one just generated.
LEMMA FormMoves ==
  ASSUME TabInv, SessionInv', KeepsTokens({}), NEW tab \in Tabs,
         UNCHANGED <<cookie, refresh, refreshRequest>>,
         \A s \in Tabs : s # tab => form'[s] = form[s],
         FormOf(tab)', \A g \in ghosts' \ ghosts : GhostOf(g)',
         Fresh(form'[tab]) => form'[tab].new = made + 1
  PROVE  TabInv'
<1>1. SessionInv /\ CookieInv /\ Apart
  BY DEF TabInv
<1>2. \A c \in Calls : RefreshOf(c)'
  BY <1>1, RefreshKept DEF TabInv
<1>3. \A s \in Tabs : FormOf(s)'
  <2>1. ASSUME NEW s \in Tabs, s # tab
        PROVE  FormOf(s)'
    BY <1>1, <2>1, FormKept DEF TabInv
  <2> QED BY <2>1
<1>4. \A g \in ghosts' : GhostOf(g)'
  BY <1>1, GhostKept DEF TabInv
<1>5. CookieInv'
  BY <1>1, CookieKept
<1>6. Apart'
  <2>1. made \in Nat /\ cookie <= made
        /\ \A c \in Calls : refresh[c].token <= made /\ refresh[c].new <= made
    BY <1>1, TabTypes DEF TabInv, CookieInv, RefreshOf
  <2>2. cookie \in Nat /\ \A c \in Calls : refresh[c].token \in Nat /\ refresh[c].new \in Nat
    BY <1>1, TabTypes
  <2>3. ASSUME NEW s \in Tabs, Fresh(form'[s])
        PROVE  /\ form'[s].new # cookie
               /\ \A c \in Calls : refresh[c].pc # "idle" =>
                    form'[s].new # refresh[c].token /\ form'[s].new # refresh[c].new
    <3>1. CASE s = tab
      BY <2>1, <2>2, <2>3, <3>1
    <3>2. CASE s # tab
      BY <1>1, <2>3, <3>2 DEF Apart
    <3> QED BY <3>1, <3>2
  <2> QED BY <2>3 DEF Apart, Fresh
<1> QED BY <1>2, <1>3, <1>4, <1>5, <1>6 DEF TabInv

\* A login or logout request leaves with the cookie (StartLogin, StartLogout).
LEMMA StartFormTab ==
  ASSUME TabInv, SessionInv', NEW tab \in Tabs,
         StartLogout(tab) \/ \E u \in Users, remember \in BOOLEAN : StartLogin(tab, u, remember)
  PROVE  TabInv'
<1>1. SessionInv /\ cookie <= made
  BY DEF TabInv, CookieInv
<1>2. /\ UNCHANGED <<sessions, made, origin, cookie, refresh, refreshRequest, ghosts>>
      /\ ended \subseteq ended'
      /\ \A s \in Tabs : s # tab => form'[s] = form[s]
  BY <1>1, TabTypes DEF StartLogin, StartLogout, server
<1>3. KeepsTokens({})
  BY <1>1, <1>2, TokensKept DEF server
<1>4. /\ form'[tab].pc = "sent" /\ form'[tab].token = cookie /\ form'[tab].new = NoToken
      /\ \/ form'[tab].kind = "logout" /\ ended' = ended \cup Ends(cookie)
         \/ form'[tab].kind = "login" /\ form'[tab].user \in Users
  <2>1. CASE StartLogout(tab)
    <3>1. form'[tab] = Sent("logout", NoUser, FALSE) /\ ended' = ended \cup Ends(cookie)
      BY <1>1, <2>1, TabTypes DEF StartLogout
    <3> QED BY <3>1 DEF Sent, NoExchange
  <2>2. ASSUME NEW u \in Users, NEW remember \in BOOLEAN, StartLogin(tab, u, remember)
        PROVE  /\ form'[tab].pc = "sent" /\ form'[tab].token = cookie
               /\ form'[tab].new = NoToken
               /\ form'[tab].kind = "login" /\ form'[tab].user \in Users
    <3>1. form'[tab] = Sent("login", u, remember)
      BY <1>1, <2>2, TabTypes DEF StartLogin
    <3> QED BY <3>1, RequestFields
  <2> QED BY <2>1, <2>2
<1>5. FormOf(tab)'
  <2>1. form'[tab].kind = "logout" => Ends(form[tab].token)' \subseteq ended'
    BY <1>2, <1>4 DEF Ends
  <2>2. form'[tab].new <= made'
    BY <1>1, <1>2, <1>4, TabTypes DEF NoToken
  <2> QED BY <1>1, <1>2, <1>4, <2>1, <2>2 DEF FormOf, Fresh
<1> QED BY <1>2, <1>3, <1>4, <1>5, FormMoves DEF Fresh

\* The login is checked (LoginChecks).
LEMMA LoginChecksTab ==
  ASSUME TabInv, SessionInv', NEW tab \in Tabs, LoginChecks(tab)
  PROVE  TabInv'
<1>1. SessionInv /\ FormOf(tab)
  BY DEF TabInv
<1>2. /\ UNCHANGED <<sessions, made, origin, cookie, refresh, refreshRequest, ghosts, ended>>
      /\ \A s \in Tabs : s # tab => form'[s] = form[s]
  BY <1>1, TabTypes DEF LoginChecks, server
<1>3. KeepsTokens({})
  BY <1>1, <1>2, TokensKept DEF server
<1>4. /\ form[tab].kind = "login" /\ form[tab].pc = "sent" /\ form'[tab].pc \in {"checked", "reply"}
      /\ form'[tab].kind = "login" /\ form'[tab].token = form[tab].token
      /\ form'[tab].new = form[tab].new /\ form'[tab].user = form[tab].user
  <2>1. form[tab] \in Exchange /\ form[tab].kind = "login" /\ form[tab].pc = "sent"
    BY <1>1, TabTypes DEF LoginChecks
  <2>2. form'[tab] = Goes(form[tab], "checked") \/ form'[tab] = Reply(form[tab], "error")
    BY <1>1, TabTypes DEF LoginChecks
  <2> QED BY <2>1, <2>2, RequestFields
<1>5. form[tab].new = NoToken
  BY <1>1, <1>4 DEF FormOf
<1>6. FormOf(tab)'
  BY <1>1, <1>2, <1>4, <1>5 DEF FormOf, Fresh
<1> QED BY <1>2, <1>3, <1>4, <1>5, <1>6, FormMoves DEF Fresh

\* The session is created, or Redis fails (LoginCreates).
LEMMA LoginCreatesTab ==
  ASSUME TabInv, SessionInv', NEW tab \in Tabs, LoginCreates(tab)
  PROVE  TabInv'
<1>1. SessionInv /\ FormOf(tab)
  BY DEF TabInv
<1>2. /\ UNCHANGED <<cookie, refresh, refreshRequest, ghosts, ended>>
      /\ \A s \in Tabs : s # tab => form'[s] = form[s]
  BY <1>1, TabTypes DEF LoginCreates
<1>3. form[tab].user \in Users /\ form[tab].kind = "login" /\ form[tab].new = NoToken
  BY <1>1 DEF FormOf, LoginCreates
<1>4. /\ KeepsTokens({})
      /\ CreateRefreshToken(form[tab].user) =>
           made + 1 \in Tokens /\ made' = made + 1 /\ Fine(made)'
  BY <1>1, <1>2, <1>3, TokensKept DEF LoginCreates
<1>5. /\ form'[tab].pc = "reply" /\ form'[tab].kind = "login"
      /\ form'[tab].token = form[tab].token /\ form'[tab].user = form[tab].user
      /\ \/ form'[tab].new = NoToken
         \/ CreateRefreshToken(form[tab].user) /\ form'[tab].new = made + 1
  <2>1. form[tab] \in Exchange
    BY <1>1, TabTypes
  <2>2. CASE form' = [form EXCEPT ![tab] = Reply(@, "error")]
    <3>1. form'[tab] = Reply(form[tab], "error")
      BY <1>1, <2>2, TabTypes
    <3> QED BY <1>3, <2>1, <3>1, RequestFields
  <2>3. CASE /\ CreateRefreshToken(form[tab].user)
             /\ form' = [form EXCEPT ![tab] = Reply(Obtains(@, made + 1, form[tab].user), "ok")]
    <3>1. form'[tab] = Reply(Obtains(form[tab], made + 1, form[tab].user), "ok")
      BY <1>1, <2>3, TabTypes
    <3>2. made + 1 \in Tokens
      BY <1>4, <2>3
    <3> QED BY <1>3, <2>1, <2>3, <3>1, <3>2, RequestFields
  <2> QED BY <2>2, <2>3 DEF LoginCreates
<1>6. FormOf(tab)'
  <2>1. made \in Nat /\ made' \in Nat /\ made <= made' /\ form[tab].token <= made
        /\ form[tab].token \in Nat /\ NoToken = 0
    BY <1>1, <1>4, TabTypes DEF FormOf, KeepsTokens, SessionInv, TypeOK, NoToken
  <2>2. Fresh(form'[tab]) => Fine(form[tab].new)'
    BY <1>4, <1>5 DEF Fresh
  <2> QED BY <1>3, <1>4, <1>5, <2>1, <2>2 DEF FormOf, Fresh
<1> QED BY <1>2, <1>4, <1>5, <1>6, FormMoves DEF Fresh

\* The session of a logout is deleted, or Redis fails (LogoutServes).
LEMMA LogoutServesTab ==
  ASSUME TabInv, SessionInv', NEW tab \in Tabs, LogoutServes(tab)
  PROVE  TabInv'
<1>1. SessionInv /\ FormOf(tab)
  BY DEF TabInv
<1>2. /\ UNCHANGED <<cookie, refresh, refreshRequest, ghosts, ended>>
      /\ \A s \in Tabs : s # tab => form'[s] = form[s]
  BY <1>1, TabTypes DEF LogoutServes
<1>3. form[tab].kind = "logout" /\ Ends(form[tab].token) \subseteq ended
  BY <1>1 DEF FormOf, LogoutServes
<1>4. KeepsTokens({})
  BY <1>1, <1>2, <1>3, TabTypes, TokensKept DEF LogoutServes
<1>5. /\ form'[tab].pc = "reply" /\ form'[tab].kind = "logout"
      /\ form'[tab].token = form[tab].token /\ form'[tab].new = form[tab].new
  <2>1. form[tab] \in Exchange
    BY <1>1, TabTypes
  <2>2. form'[tab] = Reply(form[tab], "ok") \/ form'[tab] = Reply(form[tab], "error")
    BY <1>1, TabTypes DEF LogoutServes
  <2> QED BY <1>3, <2>1, <2>2, RequestFields
<1>6. FormOf(tab)'
  <2>1. /\ made \in Nat /\ made' \in Nat /\ made <= made'
        /\ form[tab].token <= made /\ form[tab].new <= made
        /\ form[tab].token \in Tokens \cup {NoToken} /\ \A t \in Tokens : t \in Nat
        /\ NoToken \in Nat /\ form[tab].new \in Tokens \cup {NoToken}
    BY <1>1, <1>4, TabTypes DEF FormOf, KeepsTokens, SessionInv, TypeOK
  <2>2. form[tab].token \in Tokens => origin'[form[tab].token] = origin[form[tab].token]
    BY <1>4, <2>1 DEF KeepsTokens
  <2>3. Ends(form[tab].token)' \subseteq ended'
    BY <1>2, <1>3, <1>5, <2>1, <2>2 DEF Ends
  <2> QED BY <1>5, <2>1, <2>3 DEF FormOf, Fresh
<1> QED BY <1>2, <1>4, <1>5, <1>6, FormMoves DEF Fresh

\* A request is over: nothing is left of it (FormSettles), or a ghost
\* (FormFails).
LEMMA FormEndsTab ==
  ASSUME TabInv, SessionInv', NEW tab \in Tabs, FormSettles(tab) \/ FormFails(tab)
  PROVE  TabInv'
<1>1. SessionInv /\ FormOf(tab)
  BY DEF TabInv
<1>2. /\ UNCHANGED <<sessions, made, origin, cookie, refresh, refreshRequest, ended>>
      /\ \A s \in Tabs : s # tab => form'[s] = form[s]
      /\ form'[tab] = NoExchange
  BY <1>1, TabTypes DEF FormSettles, FormFails, server
<1>3. KeepsTokens({})
  BY <1>1, <1>2, TokensKept DEF server
<1>4. FormOf(tab)'
  BY <1>1, <1>2, TabTypes DEF FormOf, Fresh, NoExchange, NoToken
<1>5. \A g \in ghosts' \ ghosts : GhostOf(g)'
  <2>1. SUFFICES ASSUME NEW g \in ghosts' \ ghosts
                 PROVE  GhostOf(g)'
    OBVIOUS
  <2>2. g = [kind |-> form[tab].kind, token |-> form[tab].token, user |-> form[tab].user]
        /\ form[tab].pc \in {"sent", "checked"}
    BY <2>1 DEF FormSettles, FormFails, Abandon
  <2>3. g.kind = form[tab].kind /\ g.token = form[tab].token
    BY <2>2
  <2>4. g.kind \in {"login", "logout"}
    BY <1>1, <2>2, <2>3 DEF FormOf
  <2>5. Ends(g.token)' = Ends(g.token)
    BY <1>2 DEF Ends
  <2> QED BY <1>1, <1>2, <2>3, <2>4, <2>5 DEF GhostOf, FormOf
<1> QED BY <1>2, <1>3, <1>4, <1>5, FormMoves DEF Fresh, NoExchange

\* The answer of a login or logout reaches the one tab and sets the cookie
\* (FormArrives).
LEMMA FormArrivesTab ==
  ASSUME OneTab, TabInv, SessionInv', NEW tab \in Tabs, FormArrives(tab)
  PROVE  TabInv'
<1>1. SessionInv /\ FormOf(tab) /\ CookieInv
  BY DEF TabInv
<1>2. /\ UNCHANGED <<sessions, made, origin, refresh, refreshRequest, ghosts, ended>>
      /\ \A s \in Tabs : s = tab
      /\ form[tab].pc = "reply" /\ cookie' = CookieAfter(form[tab])
      /\ form'[tab] = Goes(form[tab], "arrived") /\ form[tab] \in Exchange
  BY <1>1, TabTypes DEF FormArrives, server, OneTab
<1>3. KeepsTokens({})
  BY <1>1, <1>2, TokensKept DEF server
<1>4. /\ form'[tab].pc = "arrived" /\ form'[tab].kind = form[tab].kind
      /\ form'[tab].token = form[tab].token /\ form'[tab].new = form[tab].new
      /\ form'[tab].user = form[tab].user
  BY <1>2, RequestFields
<1>5. FormOf(tab)'
  BY <1>1, <1>2, <1>4 DEF FormOf, Fresh, Ends
<1>6. CookieInv'
  <2>1. form[tab].kind \in {"login", "logout"}
    BY <1>1, <1>2 DEF FormOf
  <2>2. cookie' \in {NoToken, cookie} \/ (Fresh(form[tab]) /\ cookie' = form[tab].new)
    <3>1. CASE form[tab].kind = "login" /\ form[tab].outcome = "ok"
      <4>1. cookie' = form[tab].new
        BY <1>2, <3>1 DEF CookieAfter
      <4> QED BY <1>2, <3>1, <4>1 DEF Fresh
    <3>2. CASE form[tab].kind = "login" /\ form[tab].outcome # "ok"
      BY <1>2, <3>2 DEF CookieAfter
    <3>3. CASE form[tab].kind = "logout"
      BY <1>2, <3>3 DEF CookieAfter
    <3> QED BY <2>1, <3>1, <3>2, <3>3
  <2>3. CASE cookie' = cookie
    BY <1>1, <1>2, <1>3, <2>3, CookieKept DEF TabInv
  <2>4. CASE cookie' = NoToken
    BY <1>1, <1>2, <2>4, TabTypes DEF CookieInv, NoToken
  <2>5. CASE Fresh(form[tab]) /\ cookie' = form[tab].new
    BY <1>1, <1>2, <2>5 DEF CookieInv, FormOf, Fine, Live
  <2> QED BY <2>2, <2>3, <2>4, <2>5
<1>7. \A c \in Calls : RefreshOf(c)'
  BY <1>1, <1>2, <1>3, RefreshKept DEF TabInv
<1>8. \A g \in ghosts' : GhostOf(g)'
  BY <1>1, <1>2, <1>3, GhostKept DEF TabInv
<1>9. Apart'
  BY <1>2, <1>4 DEF Apart, Fresh
<1> QED BY <1>2, <1>5, <1>6, <1>7, <1>8, <1>9 DEF TabInv

\* In the one tab no two refreshes are under way at once.
LEMMA OneRefresh ==
  ASSUME OneTab, TabInv, NEW c \in Calls, NEW d \in Calls,
         refresh[c].pc # "idle", refresh[d].pc # "idle"
  PROVE  c = d
<1>1. refreshRequest[TabOf[c]] = c /\ refreshRequest[TabOf[d]] = d
  BY DEF TabInv, RefreshOf
<1>2. TabOf[c] = TabOf[d]
  BY SessionAssumptions DEF OneTab
<1> QED BY <1>1, <1>2

\* The call that finds no refresh under way starts one, with a fine cookie
\* (RequestNewAccessToken).
LEMMA RefreshStartsTab ==
  ASSUME OneTab, TabInv, SessionInv', NEW c \in Calls, Unauthorized(c)
  PROVE  TabInv'
<1>1. SessionInv /\ CookieInv /\ Apart
  BY DEF TabInv
<1>2. UNCHANGED <<sessions, made, origin, cookie, form, ghosts, ended>>
  BY DEF Unauthorized, server
<1>3. KeepsTokens({})
  BY <1>1, <1>2, TokensKept DEF server
<1>4. CASE UNCHANGED <<refresh, refreshRequest>>
  BY <1>2, <1>3, <1>4, ElsewhereTab
<1>5. CASE /\ refreshRequest[TabOf[c]] = NoCall
           /\ refresh' = [refresh EXCEPT ![c] = Sent("refresh", NoUser, FALSE)]
           /\ refreshRequest' = [refreshRequest EXCEPT ![TabOf[c]] = c]
  <2>1. \A d \in Calls : refresh[d].pc = "idle"
    <3>1. SUFFICES ASSUME NEW d \in Calls, refresh[d].pc # "idle"
                   PROVE  FALSE
      OBVIOUS
    <3>2. TabOf[c] = TabOf[d] /\ NoCall \notin Calls
      BY SessionAssumptions DEF OneTab
    <3>3. refreshRequest[TabOf[d]] = d
      BY <3>1 DEF TabInv, RefreshOf
    <3> QED BY <1>5, <3>2, <3>3
  <2>2. cookie <= made /\ (cookie # NoToken => Fine(cookie))
    BY <1>1, <2>1 DEF CookieInv, Rotating
  <2>3. /\ refresh'[c].pc = "sent" /\ refresh'[c].kind = "refresh"
        /\ refresh'[c].token = cookie /\ refresh'[c].new = NoToken
        /\ refresh'[c].outcome = "none"
        /\ \A d \in Calls : d # c => refresh'[d] = refresh[d]
        /\ refreshRequest'[TabOf[c]] = c
    BY <1>1, <1>5, TabTypes, SessionAssumptions DEF Sent, NoExchange
  <2>4. RefreshOf(c)'
    BY <1>1, <1>2, <2>2, <2>3, TabTypes DEF RefreshOf, Rotating, Fine, Live, NoToken
  <2>5. ASSUME NEW d \in Calls, d # c
        PROVE  RefreshOf(d)'
    BY <1>1, <1>3, <2>1, <2>3, <2>5, RefreshKept DEF TabInv
  <2>6. \A tab \in Tabs : FormOf(tab)'
    BY <1>1, <1>2, <1>3, FormKept DEF TabInv
  <2>7. \A g \in ghosts' : GhostOf(g)'
    BY <1>1, <1>2, <1>3, GhostKept DEF TabInv
  <2>8. CookieInv'
    BY <1>2, <2>2 DEF CookieInv, Fine, Live
  <2>9. Apart'
    BY <1>1, <1>2, <2>1, <2>3 DEF Apart, Fresh
  <2> QED BY <2>4, <2>5, <2>6, <2>7, <2>8, <2>9 DEF TabInv
<1> QED BY <1>4, <1>5 DEF Unauthorized, RequestNewAccessToken

\* The refresh of c moves on or is over, without touching the cookie.
LEMMA RefreshMoves ==
  ASSUME OneTab, TabInv, SessionInv', KeepsTokens({}), NEW c \in Calls,
         UNCHANGED <<cookie, form>>, refresh[c].pc # "idle",
         \A d \in Calls : d # c => refresh'[d] = refresh[d],
         RefreshOf(c)', \A g \in ghosts' \ ghosts : GhostOf(g)',
         Rotating(refresh[c]) =>
           \/ Rotating(refresh'[c]) /\ refresh'[c].token = refresh[c].token
           \/ origin[refresh[c].token] \in ended',
         refresh'[c].pc # "idle" => refresh'[c].token = refresh[c].token
                                    /\ refresh'[c].new = refresh[c].new
  PROVE  TabInv'
<1>1. SessionInv /\ CookieInv /\ Apart
  BY DEF TabInv
<1>2. \A d \in Calls : d # c => refresh[d].pc = "idle"
  BY OneRefresh
<1>3. \A d \in Calls : RefreshOf(d)'
  <2>1. ASSUME NEW d \in Calls, d # c
        PROVE  RefreshOf(d)'
    BY <1>1, <1>2, <2>1, RefreshKept DEF TabInv
  <2> QED BY <2>1
<1>4. \A tab \in Tabs : FormOf(tab)'
  BY <1>1, FormKept DEF TabInv
<1>5. \A g \in ghosts' : GhostOf(g)'
  BY <1>1, GhostKept DEF TabInv
<1>6. CookieInv'
  <2>1. Rotating(refresh[c]) => refresh[c].token # NoToken /\ refresh[c].token <= made
    BY DEF TabInv, RefreshOf
  <2>2. \A d \in Calls : Rotating(refresh[d]) => d = c
    BY <1>2 DEF Rotating
  <2> QED BY <1>1, <2>1, <2>2, CookieKept
<1>7. Apart'
  BY <1>1, ApartKept
<1> QED BY <1>3, <1>4, <1>5, <1>6, <1>7 DEF TabInv

\* Redis answers without a rotation, or its answer to one is lost
\* (RefreshRotates).
LEMMA RefreshAnsweredTab ==
  ASSUME OneTab, TabInv, SessionInv', NEW c \in Calls, refresh[c].pc = "sent",
         UNCHANGED <<cookie, form, refreshRequest, ghosts>>,
         NEW outcome \in {"missing", "invalid", "error"}, Answers(c, outcome),
         KeepsTokens({})
  PROVE  TabInv'
<1>1. SessionInv /\ RefreshOf(c)
  BY DEF TabInv
<1>2. /\ refresh'[c] = Reply(refresh[c], outcome) /\ refresh[c] \in Exchange
      /\ \A d \in Calls : d # c => refresh'[d] = refresh[d]
  BY <1>1, TabTypes DEF Answers
<1>3. /\ refresh'[c].pc = "reply" /\ refresh'[c].kind = refresh[c].kind
      /\ refresh'[c].token = refresh[c].token /\ refresh'[c].new = refresh[c].new
      /\ refresh'[c].outcome = outcome
  BY <1>2, RequestFields
<1>4. refresh[c].new = NoToken
  BY <1>1 DEF RefreshOf
<1>5. /\ made \in Nat /\ made' \in Nat /\ made <= made'
      /\ refresh[c].token \in Nat /\ refresh[c].new \in Nat
      /\ refresh[c].token <= made /\ refresh[c].new <= made
  BY <1>1, TabTypes DEF KeepsTokens, SessionInv, TypeOK, RefreshOf
<1>6. refresh'[c].token <= made' /\ refresh'[c].new <= made'
  BY <1>3, <1>5
<1>7. refreshRequest'[TabOf[c]] = c /\ refresh[c].kind = "refresh"
  BY <1>1 DEF RefreshOf
<1>8. RefreshOf(c)'
  BY <1>3, <1>4, <1>6, <1>7 DEF RefreshOf, Rotating
<1>9. ~Rotating(refresh[c])
  BY <1>4 DEF Rotating
<1> QED BY <1>2, <1>3, <1>8, <1>9, RefreshMoves

\* The rotation: the cookie's token is spent, its successor on the way, and
\* nobody else had it (RefreshRotates).
LEMMA RotationTab ==
  ASSUME OneTab, TabInv, SessionInv', NEW c \in Calls, refresh[c].pc = "sent",
         UNCHANGED <<cookie, form, refreshRequest, ghosts, ended>>,
         refresh[c].token # NoToken, RotateRefreshToken(refresh[c].token),
         refresh' = [refresh EXCEPT ![c] =
                       Goes(Obtains(@, made + 1, sessions[refresh[c].token]), "rotated")]
  PROVE  TabInv'
<1> DEFINE old == refresh[c].token
<1>1. SessionInv /\ RefreshOf(c) /\ CookieInv /\ Apart
  BY DEF TabInv
<1>2. old \in Tokens /\ sessions[old] \in Users \cup {NoUser}
  BY <1>1, TabTypes DEF SessionInv, TypeOK
<1>3. /\ KeepsTokens({old}) /\ made + 1 \in Tokens /\ made' = made + 1
      /\ Fine(made)' /\ origin'[made + 1] = origin[old]
      /\ origin'[old] = origin[old] /\ old <= made
  BY <1>1, <1>2, TokensKept
<1>4. /\ refresh'[c].pc = "rotated" /\ refresh'[c].kind = refresh[c].kind
      /\ refresh'[c].token = old /\ refresh'[c].new = made + 1
      /\ refresh'[c].outcome = refresh[c].outcome
  <2>1. /\ refresh'[c] = Goes(Obtains(refresh[c], made + 1, sessions[old]), "rotated")
        /\ refresh[c] \in Exchange
    BY <1>1, TabTypes
  <2>2. Obtains(refresh[c], made + 1, sessions[old]) \in Exchange
    BY <1>2, <1>3, <2>1, RequestFields
  <2> QED BY <1>2, <1>3, <2>1, <2>2, RequestFields
<1>5. \A d \in Calls : d # c => refresh'[d] = refresh[d] /\ refresh[d].pc = "idle"
  BY <1>1, TabTypes, OneRefresh
<1>6. /\ made \in Nat /\ old \in Nat /\ cookie \in Nat /\ cookie <= made
      /\ \A tab \in Tabs : form[tab].new \in Nat /\ form[tab].new <= made
      /\ \A d \in Calls : refresh[d].token \in Nat /\ refresh[d].new \in Nat
      /\ \A d \in Calls : refresh[d].token <= made /\ refresh[d].new <= made
  BY <1>1, TabTypes DEF TabInv, CookieInv, FormOf, RefreshOf
<1> HIDE DEF old
<1>7. RefreshOf(c)'
  <2>1. refresh[c].kind = "refresh" /\ refresh[c].outcome = "none"
        /\ refreshRequest'[TabOf[c]] = c
    BY <1>1 DEF RefreshOf
  <2>2. refresh'[c].token <= made' /\ refresh'[c].new <= made'
    BY <1>3, <1>4, <1>6
  <2>3. Fine(refresh[c].new)' /\ origin'[refresh'[c].new] = origin'[refresh'[c].token]
    BY <1>3, <1>4
  <2>4. refresh'[c].token # NoToken
    BY <1>4 DEF old
  <2> QED BY <1>4, <2>1, <2>2, <2>3, <2>4 DEF RefreshOf, Rotating
<1>8. ASSUME NEW d \in Calls, d # c
      PROVE  RefreshOf(d)'
  <2>1. refresh'[d] = refresh[d] /\ refresh[d].pc = "idle"
    BY <1>5, <1>8
  <2>2. refresh'[d].token <= made' /\ refresh'[d].new <= made'
    BY <1>3, <1>6, <2>1
  <2> QED BY <2>1, <2>2 DEF RefreshOf, Rotating
<1>9. \A tab \in Tabs : FormOf(tab)'
  <2>1. ASSUME NEW tab \in Tabs, Fresh(form[tab])
        PROVE  form[tab].new \notin {old}
    BY <1>1, <2>1 DEF Apart, old
  <2> QED BY <1>1, <1>3, <2>1, FormKept DEF TabInv
<1>10. \A g \in ghosts' : GhostOf(g)'
  BY <1>1, <1>3, GhostKept DEF TabInv
<1>11. CookieInv'
  <2>1. cookie' <= made'
    BY <1>3, <1>6
  <2>2. CASE cookie = NoToken
    BY <2>1, <2>2 DEF CookieInv
  <2>3. CASE cookie = old
    BY <1>3, <1>4, <1>6, <2>1, <2>3, TabTypes DEF CookieInv, Rotating, NoToken
  <2>4. CASE cookie # NoToken /\ cookie # old
    <3>1. Fine(cookie)
      BY <1>1, <1>5, <2>4 DEF CookieInv, Rotating, old
    <3>2. cookie \in Tokens
      BY <1>1, <2>4, TabTypes
    <3>3. Fine(cookie)'
      BY <1>3, <1>6, <2>4, <3>1, <3>2 DEF KeepsTokens, Fine, Live
    <3> QED BY <2>1, <3>3 DEF CookieInv
  <2> QED BY <2>2, <2>3, <2>4
<1>12. Apart'
  <2>1. ASSUME NEW tab \in Tabs, Fresh(form[tab])
        PROVE  /\ form[tab].new # cookie
               /\ \A d \in Calls : refresh'[d].pc # "idle" =>
                    form[tab].new # refresh'[d].token /\ form[tab].new # refresh'[d].new
    <3>1. form[tab].new # cookie /\ form[tab].new # old
      BY <1>1, <2>1 DEF Apart, old
    <3> QED BY <1>4, <1>5, <1>6, <3>1
  <2> QED BY <2>1 DEF Apart, Fresh
<1> QED BY <1>7, <1>8, <1>9, <1>10, <1>11, <1>12 DEF TabInv

\* AuthHandler.Refresh, all its branches (RefreshRotates).
LEMMA RefreshRotatesTab ==
  ASSUME OneTab, TabInv, SessionInv', NEW c \in Calls, RefreshRotates(c)
  PROVE  TabInv'
<1>1. SessionInv /\ refresh[c].pc = "sent"
      /\ UNCHANGED <<cookie, form, refreshRequest, ghosts>>
  BY DEF TabInv, RefreshRotates
<1>2. CASE UNCHANGED <<server, ended>>
           /\ \E outcome \in {"missing", "invalid", "error"} : Answers(c, outcome)
  <2>1. KeepsTokens({})
    BY <1>1, <1>2, TokensKept
  <2> QED BY <1>1, <1>2, <2>1, RefreshAnsweredTab
<1>3. CASE /\ refresh[c].token # NoToken /\ RotateRefreshToken(refresh[c].token)
           /\ Answers(c, "error") /\ ended' = ended \cup Ends(refresh[c].token)
  <2>1. refresh[c].token \in Tokens
    BY <1>1, <1>3, TabTypes
  <2>2. ended \subseteq ended' /\ origin[refresh[c].token] \in ended'
    BY <1>3 DEF Ends
  <2>3. KeepsTokens({})
    BY <1>1, <1>3, <2>1, <2>2, TokensKept
  <2> QED BY <1>1, <1>3, <2>3, RefreshAnsweredTab
<1>4. CASE /\ refresh[c].token # NoToken /\ RotateRefreshToken(refresh[c].token)
           /\ refresh' = [refresh EXCEPT ![c] =
                             Goes(Obtains(@, made + 1, sessions[refresh[c].token]), "rotated")]
           /\ UNCHANGED ended
  BY <1>1, <1>4, RotationTab
<1> QED BY <1>2, <1>3, <1>4 DEF RefreshRotates

\* The user is looked up, after the rotation (RefreshAuthorizes).
LEMMA RefreshAuthorizesTab ==
  ASSUME OneTab, TabInv, SessionInv', NEW c \in Calls, RefreshAuthorizes(c)
  PROVE  TabInv'
<1>1. SessionInv /\ RefreshOf(c)
  BY DEF TabInv
<1>2. UNCHANGED <<sessions, made, origin, cookie, form, refreshRequest, ghosts>>
      /\ refresh[c].pc = "rotated" /\ ended \subseteq ended'
  BY DEF RefreshAuthorizes, server
<1>3. KeepsTokens({})
  BY <1>1, <1>2, TokensKept DEF server
<1>4. PICK outcome \in {"ok", "disabled", "error"} :
        /\ refresh' = [refresh EXCEPT ![c] = Reply(@, outcome)]
        /\ outcome = "error" => ended' = ended \cup Ends(refresh[c].new)
  BY DEF RefreshAuthorizes, Answers
<1>5. /\ refresh'[c] = Reply(refresh[c], outcome) /\ refresh[c] \in Exchange
      /\ \A d \in Calls : d # c => refresh'[d] = refresh[d]
  BY <1>1, <1>4, TabTypes
<1>6. /\ refresh'[c].pc = "reply" /\ refresh'[c].kind = refresh[c].kind
      /\ refresh'[c].token = refresh[c].token /\ refresh'[c].new = refresh[c].new
      /\ refresh'[c].outcome = outcome
  BY <1>5, RequestFields
<1>7. refresh[c].new # NoToken =>
        /\ refresh[c].token # NoToken /\ Fine(refresh[c].new)
        /\ origin[refresh[c].new] = origin[refresh[c].token]
        /\ outcome = "error" => origin[refresh[c].token] \in ended'
  BY <1>1, <1>2, <1>4 DEF RefreshOf, Rotating, Ends
<1>8. refresh[c].new # NoToken => Fine(refresh[c].new)'
  BY <1>2, <1>6, <1>7 DEF Fine, Live
<1>9. RefreshOf(c)'
  BY <1>1, <1>2, <1>6, <1>7, <1>8 DEF RefreshOf, Rotating
<1>10. Rotating(refresh[c]) => Rotating(refresh'[c]) /\ refresh'[c].token = refresh[c].token
  BY <1>6 DEF Rotating
<1> QED BY <1>2, <1>3, <1>5, <1>6, <1>9, <1>10, RefreshMoves

\* The answer reaches the browser: its cookie is the new token, or none, or
\* it is kept after an error, whose login counts as ended (RefreshArrives).
LEMMA RefreshArrivesTab ==
  ASSUME OneTab, TabInv, SessionInv', NEW c \in Calls, RefreshArrives(c)
  PROVE  TabInv'
<1>1. SessionInv /\ RefreshOf(c) /\ CookieInv /\ Apart
  BY DEF TabInv
<1>2. /\ UNCHANGED <<sessions, made, origin, form, refreshRequest, ghosts, ended>>
      /\ refresh[c].pc = "reply" /\ cookie' = CookieAfter(refresh[c])
      /\ refresh' = [refresh EXCEPT ![c] = Goes(@, "arrived")]
  BY DEF RefreshArrives, server
<1>3. KeepsTokens({})
  BY <1>1, <1>2, TokensKept DEF server
<1>4. /\ refresh'[c] = Goes(refresh[c], "arrived") /\ refresh[c] \in Exchange
      /\ \A d \in Calls : d # c => refresh'[d] = refresh[d] /\ refresh[d].pc = "idle"
  BY <1>1, <1>2, TabTypes, OneRefresh
<1>5. /\ refresh'[c].pc = "arrived" /\ refresh'[c].kind = refresh[c].kind
      /\ refresh'[c].token = refresh[c].token /\ refresh'[c].new = refresh[c].new
  BY <1>4, RequestFields
<1>6. refresh[c].kind = "refresh" /\ refresh[c].outcome # "none"
  BY <1>1, <1>2 DEF RefreshOf
<1>7. \/ cookie' = refresh[c].new
      \/ cookie' = NoToken
      \/ cookie' = cookie /\ refresh[c].outcome \notin {"ok", "invalid", "disabled", "none"}
  <2>1. CASE refresh[c].outcome = "ok"
    BY <1>2, <1>6, <2>1 DEF CookieAfter
  <2>2. CASE refresh[c].outcome \in {"invalid", "disabled"}
    BY <1>2, <1>6, <2>2 DEF CookieAfter
  <2>3. CASE refresh[c].outcome \notin {"ok", "invalid", "disabled"}
    <3>1. cookie' = cookie
      BY <1>2, <1>6, <2>3 DEF CookieAfter
    <3> QED BY <1>6, <2>3, <3>1
  <2> QED BY <2>1, <2>2, <2>3
<1>8. RefreshOf(c)'
  BY <1>1, <1>2, <1>5, <1>6 DEF RefreshOf, Rotating
<1>9. ASSUME NEW d \in Calls, d # c
      PROVE  RefreshOf(d)'
  BY <1>1, <1>2, <1>3, <1>4, <1>9, RefreshKept DEF TabInv
<1>10. \A tab \in Tabs : FormOf(tab)'
  BY <1>1, <1>2, <1>3, FormKept DEF TabInv
<1>11. \A g \in ghosts' : GhostOf(g)'
  BY <1>1, <1>2, <1>3, GhostKept DEF TabInv
<1>12. CookieInv'
  <2>1. CASE cookie' = NoToken
    BY <1>1, <1>2, <2>1, TabTypes DEF CookieInv, NoToken
  <2>2. CASE cookie' = refresh[c].new /\ refresh[c].new # NoToken
    <3>1. Fine(refresh[c].new) /\ refresh[c].new <= made
      BY <1>1, <1>2, <2>2 DEF RefreshOf, Rotating
    <3> QED BY <1>2, <2>2, <3>1 DEF CookieInv, Fine, Live
  <2>3. CASE cookie' = cookie /\ refresh[c].outcome \notin {"ok", "invalid", "disabled", "none"}
    <3>1. Rotating(refresh[c]) => /\ origin[refresh[c].token] \in ended'
                                  /\ refresh[c].token # NoToken /\ refresh[c].token <= made
      BY <1>1, <1>2, <2>3 DEF RefreshOf
    <3>2. \A d \in Calls : Rotating(refresh[d]) => d = c
      BY <1>4 DEF Rotating
    <3> QED BY <1>1, <1>2, <1>3, <2>3, <3>1, <3>2, CookieKept
  <2> QED BY <1>7, <2>1, <2>2, <2>3
<1>13. Apart'
  <2>1. ASSUME NEW tab \in Tabs, Fresh(form[tab])
        PROVE  /\ form[tab].new # cookie'
               /\ \A d \in Calls : refresh'[d].pc # "idle" =>
                    form[tab].new # refresh'[d].token /\ form[tab].new # refresh'[d].new
    <3>1. /\ form[tab].new # cookie /\ form[tab].new # NoToken
          /\ form[tab].new # refresh[c].token /\ form[tab].new # refresh[c].new
      BY <1>1, <1>2, <2>1 DEF Apart, Fresh
    <3> QED BY <1>4, <1>5, <1>7, <3>1
  <2> QED BY <1>2, <2>1 DEF Apart, Fresh
<1> QED BY <1>8, <1>9, <1>10, <1>11, <1>12, <1>13 DEF TabInv

\* The promise settles, after the answer (RefreshSettles) or without it
\* (RefreshFails), when the login counts as ended.
LEMMA RefreshEndsTab ==
  ASSUME OneTab, TabInv, SessionInv', NEW c \in Calls, RefreshSettles(c) \/ RefreshFails(c)
  PROVE  TabInv'
<1>1. SessionInv /\ RefreshOf(c)
  BY DEF TabInv
<1>2. /\ UNCHANGED <<sessions, made, origin, cookie, form>>
      /\ refresh[c].pc # "idle" /\ ended \subseteq ended'
      /\ refresh' = [refresh EXCEPT ![c] = NoExchange]
  BY DEF RefreshSettles, RefreshFails, Settle, server
<1>3. KeepsTokens({})
  BY <1>1, <1>2, TokensKept DEF server
<1>4. /\ refresh'[c] = NoExchange
      /\ \A d \in Calls : d # c => refresh'[d] = refresh[d]
  BY <1>1, <1>2, TabTypes
<1>5. RefreshOf(c)'
  BY <1>1, <1>2, <1>4, TabTypes DEF RefreshOf, Rotating, NoExchange, NoToken
<1>6. Rotating(refresh[c]) => origin[refresh[c].token] \in ended'
  <2>1. CASE RefreshSettles(c)
    BY <2>1 DEF RefreshSettles, Rotating
  <2>2. CASE RefreshFails(c)
    BY <1>1, <2>2 DEF RefreshFails, RefreshOf, Ends
  <2> QED BY <2>1, <2>2
<1>7. \A g \in ghosts' \ ghosts : GhostOf(g)'
  <2>1. SUFFICES ASSUME NEW g \in ghosts' \ ghosts
                 PROVE  GhostOf(g)'
    OBVIOUS
  <2>2. /\ g = [kind |-> refresh[c].kind, token |-> refresh[c].token, user |-> refresh[c].user]
        /\ ended' = ended \cup Ends(refresh[c].token)
    BY <2>1 DEF RefreshSettles, RefreshFails, Abandon
  <2>3. g.token = refresh[c].token
    BY <2>2
  <2>4. Ends(g.token)' = Ends(g.token)
    BY <1>2 DEF Ends
  <2> QED BY <1>1, <1>2, <2>2, <2>3, <2>4 DEF GhostOf, RefreshOf
<1> QED BY <1>2, <1>3, <1>4, <1>5, <1>6, <1>7, RefreshMoves DEF NoExchange

\* An abandoned request is served: it creates a session nobody knows, or
\* touches one of an ended login (GhostServed).
LEMMA GhostServedTab ==
  ASSUME TabInv, SessionInv', NEW g \in ghosts, GhostServed(g)
  PROVE  TabInv'
<1>1. SessionInv /\ GhostOf(g)
  BY DEF TabInv
<1>2. UNCHANGED <<cookie, refresh, refreshRequest, form, ended>> /\ ghosts' \subseteq ghosts
  BY DEF GhostServed
<1>3. KeepsTokens({})
  <2>1. g.token \in Tokens \cup {NoToken}
    BY <1>1, TabTypes
  <2>2. CASE g.kind = "refresh" /\ g.token # NoToken /\ RotateRefreshToken(g.token)
    <3>1. origin[g.token] \in ended'
      BY <1>1, <1>2, <2>2 DEF GhostOf, Ends
    <3> QED BY <1>1, <1>2, <2>1, <2>2, <3>1, TokensKept
  <2>3. CASE g.kind = "logout" /\ DeleteRefreshToken(g.token)
    BY <1>1, <1>2, <2>1, <2>3, TokensKept DEF GhostOf
  <2>4. CASE UNCHANGED server
    BY <1>1, <1>2, <2>4, TokensKept
  <2>5. CASE g.kind = "login" /\ CreateRefreshToken(g.user)
    <3>1. g.user \in Users \cup {NoUser}
      BY <1>1, TabTypes DEF Ghost
    <3> QED BY <1>1, <1>2, <2>5, <3>1, TokensKept
  <2> QED BY <2>2, <2>3, <2>4, <2>5 DEF GhostServed
<1>4. \A c \in Calls : RefreshOf(c)'
  BY <1>1, <1>2, <1>3, RefreshKept DEF TabInv
<1>5. \A tab \in Tabs : FormOf(tab)'
  BY <1>1, <1>2, <1>3, FormKept DEF TabInv
<1>6. \A h \in ghosts' : GhostOf(h)'
  BY <1>1, <1>2, <1>3, GhostKept DEF TabInv
<1>7. CookieInv'
  BY <1>1, <1>2, <1>3, CookieKept DEF TabInv
<1>8. Apart'
  BY <1>1, <1>2, ApartKept DEF TabInv
<1> QED BY <1>4, <1>5, <1>6, <1>7, <1>8 DEF TabInv

\* The inductive step of TabInv: one action of Next, or a stutter.
LEMMA TabStep ==
  ASSUME OneTab, TabInv, [Next]_vars
  PROVE  TabInv'
<1>1. SessionInv
  BY DEF TabInv
<1>2. SessionInv'
  BY <1>1, SessionStep
<1>3. CASE /\ UNCHANGED <<server, ended>>
           /\ UNCHANGED <<cookie, refresh, refreshRequest, form, ghosts>>
  <2>1. KeepsTokens({})
    BY <1>1, <1>3, TokensKept
  <2> QED BY <1>2, <1>3, <2>1, ElsewhereTab
<1>4. ASSUME NEW t \in Tokens, SessionExpires(t)
      PROVE  TabInv'
  <2>1. ended \subseteq ended' /\ Ends(t) \subseteq ended' /\ DeleteRefreshToken(t)
    BY <1>4 DEF SessionExpires, Ends
  <2>2. KeepsTokens({})
    BY <1>1, <2>1, TokensKept
  <2>3. UNCHANGED <<cookie, refresh, refreshRequest, form, ghosts>>
    BY <1>4 DEF SessionExpires
  <2> QED BY <1>2, <2>2, <2>3, ElsewhereTab
<1>5. ASSUME NEW tab \in Tabs,
             \/ StartLogout(tab)
             \/ \E u \in Users, remember \in BOOLEAN : StartLogin(tab, u, remember)
             \/ LoginChecks(tab) \/ LoginCreates(tab) \/ LogoutServes(tab)
             \/ FormArrives(tab) \/ FormSettles(tab) \/ FormFails(tab) \/ Navigate(tab)
      PROVE  TabInv'
  <2>1. Navigate(tab) => TabInv'
    BY <1>3 DEF Navigate
  <2> QED BY <1>2, <1>5, <2>1, StartFormTab, LoginChecksTab, LoginCreatesTab, LogoutServesTab,
             FormArrivesTab, FormEndsTab
<1>6. ASSUME NEW c \in Calls,
             \/ StartCall(c) \/ CallEnds(c) \/ Unauthorized(c)
             \/ RefreshRotates(c) \/ RefreshAuthorizes(c) \/ RefreshArrives(c)
             \/ RefreshSettles(c) \/ RefreshFails(c)
      PROVE  TabInv'
  <2>1. StartCall(c) \/ CallEnds(c) => TabInv'
    BY <1>3 DEF StartCall, CallEnds
  <2> QED BY <1>2, <1>6, <2>1, RefreshStartsTab, RefreshRotatesTab, RefreshAuthorizesTab,
             RefreshArrivesTab, RefreshEndsTab
<1>7. ASSUME NEW u \in Users, UserDisabled(u)
      PROVE  TabInv'
  BY <1>3, <1>7 DEF UserDisabled
<1>8. ASSUME NEW g \in ghosts, GhostServed(g)
      PROVE  TabInv'
  BY <1>2, <1>8, GhostServedTab
<1>9. CASE UNCHANGED vars
  BY <1>3, <1>9 DEF vars, server
<1> QED BY <1>4, <1>5, <1>6, <1>7, <1>8, <1>9 DEF Next

\* Nothing is under way and no token exists at first.
LEMMA TabInit ==
  ASSUME Init
  PROVE  TabInv
<1>1. SessionInv
  BY SessionInit
<1>2. \A c \in Calls : RefreshOf(c)
  BY DEF Init, RefreshOf, Rotating, NoExchange, NoToken
<1>3. \A tab \in Tabs : FormOf(tab)
  BY DEF Init, FormOf, Fresh, NoExchange, NoToken
<1>4. CookieInv /\ Apart /\ \A g \in ghosts : GhostOf(g)
  BY DEF Init, CookieInv, Apart, Fresh, NoExchange, NoToken
<1> QED BY <1>1, <1>2, <1>3, <1>4 DEF TabInv

\* Redis refuses a refresh only if it left with a token whose login ended
\* (RefreshRotates; no other step answers a refresh that has not been served).
LEMMA RefusalIsDeserved ==
  ASSUME TabInv, [Next]_vars, NEW c \in Calls,
         refresh[c].pc = "sent", refresh'[c].outcome = "invalid"
  PROVE  Ends(refresh[c].token) \subseteq ended
<1>1. SessionInv /\ RefreshOf(c) /\ refresh[c].outcome = "none"
  BY DEF TabInv, RefreshOf
<1>2. refresh[c].token # NoToken => Fine(refresh[c].token)
  BY <1>1 DEF RefreshOf
<1>3. \/ refresh[c].token = NoToken
      \/ ~Live(refresh[c].token)
  <2>1. refresh'[c] # refresh[c]
    BY <1>1
  <2>2. ~UNCHANGED refresh
    BY <2>1
  <2>3. PICK d \in Calls :
          \/ Unauthorized(d) /\ refresh' = [refresh EXCEPT ![d] = Sent("refresh", NoUser, FALSE)]
          \/ RefreshRotates(d) \/ RefreshAuthorizes(d) \/ RefreshArrives(d)
          \/ RefreshSettles(d) \/ RefreshFails(d)
    BY <2>2
       DEF Next, vars, StartLogin, StartLogout, LoginChecks, LoginCreates, LogoutServes,
           FormArrives, FormSettles, FormFails, Navigate, StartCall, CallEnds, Unauthorized,
           RequestNewAccessToken, SessionExpires, UserDisabled, GhostServed
  <2>4. refresh \in [Calls -> Exchange]
    BY <1>1, TabTypes
  <2>5. d = c
    BY <2>1, <2>3, <2>4 DEF RefreshRotates, Answers, RefreshAuthorizes, RefreshArrives,
       RefreshSettles, RefreshFails, Settle
  <2>6. CASE refresh'[c] \in {NoExchange, Sent("refresh", NoUser, FALSE)}
    <3>1. NoExchange.outcome = "none" /\ Sent("refresh", NoUser, FALSE).outcome = "none"
      BY DEF NoExchange, Sent
    <3> QED BY <2>6, <3>1
  <2>7. CASE RefreshRotates(c)
    <3>1. ASSUME refresh[c].token # NoToken, Live(refresh[c].token)
          PROVE  FALSE
      <4>1. CASE Answers(c, "error")
        <5>1. refresh'[c] = Reply(refresh[c], "error")
          BY <2>4, <4>1 DEF Answers
        <5> QED BY <2>4, <5>1, RequestFields
      <4>2. CASE /\ RotateRefreshToken(refresh[c].token)
                 /\ refresh' = [refresh EXCEPT ![c] =
                       Goes(Obtains(@, made + 1, sessions[refresh[c].token]), "rotated")]
        <5>1. refresh'[c] = Goes(Obtains(refresh[c], made + 1, sessions[refresh[c].token]), "rotated")
          BY <2>4, <4>2
        <5>2. refresh[c].token \in Tokens
          BY <1>1, <3>1, TabTypes
        <5>3. made + 1 \in Tokens /\ sessions[refresh[c].token] \in Users \cup {NoUser}
          BY <1>1, <4>2, <5>2, SessionAssumptions
             DEF RotateRefreshToken, SessionInv, TypeOK, Tokens
        <5> QED BY <1>1, <2>4, <5>1, <5>3, RequestFields
      <4> QED BY <2>7, <3>1, <4>1, <4>2 DEF RefreshRotates
    <3> QED BY <3>1
  <2> QED BY <2>3, <2>4, <2>5, <2>6, <2>7
      DEF RefreshAuthorizes, RefreshArrives, RefreshSettles, RefreshFails, Settle
<1> QED BY <1>2, <1>3 DEF Fine, Ends

\* In a browser with one tab TabInv always holds, whatever its calls, logins
\* and logouts do and however the server's answers are lost.
THEOREM TabInvariance ==
  ASSUME OneTab
  PROVE  Spec => []TabInv
<1>1. Init => TabInv
  BY TabInit
<1>2. TabInv /\ [Next]_vars => TabInv'
  BY TabStep
<1> QED BY <1>1, <1>2, PTL DEF Spec

\* The shared refreshRequest keeps a tab from losing its own session: for any
\* number of calls, users and tokens, the refresh of a tab on its own is
\* refused only after its login ended (requestNewAccessToken, Refresh).
THEOREM TabsKeepTheirSession ==
  ASSUME OneTab
  PROVE  Spec => TabKeepsItsSession
<1>1. TabInv /\ [Next]_vars =>
        \/ \A c \in Calls :
             refresh[c].pc = "sent" /\ refresh'[c].outcome = "invalid"
               => Ends(refresh[c].token) \subseteq ended
        \/ UNCHANGED vars
  BY RefusalIsDeserved
<1> QED BY <1>1, TabInvariance, PTL DEF Spec, TabKeepsItsSession

-----------------------------------------------------------------------------
(* The OAuth pages.                                                        *)

\* Nothing of the page changes.
LEMMA OAuthFrame ==
  ASSUME OAuthInv, UNCHANGED oauthVars
  PROVE  OAuthInv'
BY DEF OAuthInv, OAuthTypes, DeviceViewIsOurs, SuccessIsEarned, LinkHasItsTimer,
       oauthVars, deviceVars, linkVars, flowVars

\* Flows are numbered from one; the flow of the controller, and a link's, is
\* the last one, and a page that is not busy has no controller.
LEMMA FlowNumbers ==
  ASSUME OAuthInv
  PROVE  /\ flows \in Nat /\ flows <= MaxFlows
         /\ \A k \in Flows : k # None /\ k \in Nat
         /\ \A k \in 1 .. flows : k \in Flows
         /\ ctl # None => ctl \in Flows
         /\ ~Busy => ctl = None
<1>1. flows \in 0 .. MaxFlows /\ ctl \in 0 .. flows
  BY DEF OAuthInv, OAuthTypes
<1>2. ~Busy => ctl = None
  BY DEF OAuthInv, DeviceViewIsOurs, Busy
<1> QED BY <1>1, <1>2, FlowAssumption DEF Flows, None

\* Hiding the link stops its timer.
LEMMA CloseStops ==
  ASSUME OAuthInv, close
  PROVE  link' = None /\ timers' = {}
BY DEF OAuthInv, LinkHasItsTimer, close

\* A new flow, of either kind, starts on a page that is not busy.
LEMMA StartKeeps ==
  ASSUME OAuthInv, startDevice \/ start
  PROVE  OAuthInv'
<1>1. /\ flows' = flows + 1 /\ flows + 1 \in Flows /\ flows \in Nat /\ ctl = None /\ ~Busy
      /\ success' = None /\ expired' = FALSE
      /\ UNCHANGED <<aborted, deviceWaiting, saving, expiryTimer, polling, saved>>
  BY FlowNumbers DEF startDevice, start, deviceVars
<1>2. link' = None /\ timers' = {}
  BY CloseStops DEF startDevice, start
<1>3. ~deviceLoading /\ ~deviceWaiting /\ ~loading /\ ~saving
  BY <1>1 DEF Busy
<1>4. flows + 1 # None /\ flows' \in 0 .. MaxFlows
  BY <1>1, FlowAssumption DEF Flows, None
<1>5. CASE startDevice
  <2>1. /\ phase' = [phase EXCEPT ![flows + 1] = "starting"] /\ ctl' = flows + 1
        /\ device' = None /\ deviceLoading' = TRUE /\ loading' = loading
    BY <1>5 DEF startDevice
  <2>2. phase'[ctl'] = "starting"
    BY <1>1, <2>1 DEF OAuthInv, OAuthTypes
  <2>3. OAuthTypes'
    BY <1>1, <1>2, <1>3, <1>4, <2>1 DEF OAuthInv, OAuthTypes, None
  <2>4. ctl' \notin aborted'
    BY <1>1, <2>1 DEF OAuthInv, OAuthTypes
  <2>5. DeviceViewIsOurs'
    BY <1>1, <1>3, <1>4, <2>1, <2>2, <2>4 DEF DeviceViewIsOurs
  <2>6. SuccessIsEarned'
    BY <1>1, <1>2, <1>3, <2>1 DEF SuccessIsEarned
  <2>7. LinkHasItsTimer'
    BY <1>2 DEF LinkHasItsTimer
  <2>8. ~loading'
    BY <1>3, <2>1
  <2> QED BY <1>2, <2>2, <2>3, <2>5, <2>6, <2>7, <2>8 DEF OAuthInv
<1>6. CASE start
  <2>1. UNCHANGED <<phase, ctl, device, deviceLoading>> /\ loading' = TRUE
    BY <1>6 DEF start, deviceVars
  <2>2. OAuthTypes'
    BY <1>1, <1>2, <1>3, <1>4, <2>1 DEF OAuthInv, OAuthTypes, None
  <2>3. DeviceViewIsOurs'
    BY <1>1, <2>1 DEF OAuthInv, DeviceViewIsOurs
  <2>4. SuccessIsEarned'
    BY <1>1, <1>3, <2>1 DEF SuccessIsEarned
  <2>5. LinkHasItsTimer'
    BY <1>2 DEF LinkHasItsTimer
  <2> QED BY <1>1, <1>2, <1>4, <2>1, <2>2, <2>3, <2>4, <2>5 DEF OAuthInv
<1> QED BY <1>5, <1>6

\* The browser flow and the counter stand still.
LinkStill ==
  /\ loading' = loading /\ saving' = saving /\ link' = link
  /\ expiryTimer' = expiryTimer /\ timers' = timers /\ flows' = flows

\* What a step of the device flow does otherwise.
DeviceMoves ==
  /\ phase' \in [Flows -> {"idle", "starting", "completing", "pushing", "over"}]
  /\ aborted' \subseteq 1 .. flows
  /\ ctl' \in {None, ctl} /\ device' \in 0 .. flows
  /\ ctl' # None => phase'[ctl'] \in {"starting", "completing", "pushing"}

\* What becomes of a success.
SuccessMoves ==
  /\ saved \subseteq saved'
  /\ success' = success \/ (success' = flows /\ flows \in saved')

\* Then only what the device flow shows has to be checked.
LEMMA DeviceOnly ==
  ASSUME OAuthInv, LinkStill, DeviceMoves, SuccessMoves, DeviceViewIsOurs'
  PROVE  OAuthInv'
<1>1. flows \in Nat
  BY FlowNumbers
<1>2. OAuthTypes'
  BY <1>1 DEF OAuthInv, OAuthTypes, LinkStill, DeviceMoves, SuccessMoves, None
<1>3. SuccessIsEarned'
  BY DEF OAuthInv, SuccessIsEarned, LinkStill, DeviceMoves, SuccessMoves
<1>4. LinkHasItsTimer'
  BY DEF OAuthInv, LinkHasItsTimer, LinkStill
<1>5. /\ ctl' # None => phase'[ctl'] \in {"starting", "completing", "pushing"}
      /\ link' # None => link' = expiryTimer' /\ ~loading'
      /\ loading' => flows' # None
  BY DEF OAuthInv, LinkStill, DeviceMoves
<1> QED BY <1>2, <1>3, <1>4, <1>5 DEF OAuthInv

\* A flow that ends takes its own view away and nobody else's.
LEMMA EndedKeeps ==
  ASSUME OAuthInv, NEW k \in Flows, Ended(k), LinkStill, saved' = saved
  PROVE  OAuthInv'
<1>1. /\ phase' = [phase EXCEPT ![k] = "over"] /\ aborted' \subseteq aborted /\ success' = success
  BY DEF Ended
<1>2. phase' \in [Flows -> {"idle", "starting", "completing", "pushing", "over"}]
  BY <1>1 DEF OAuthInv, OAuthTypes
<1>3. SuccessMoves
  BY <1>1 DEF SuccessMoves
<1>4. CASE active(k)
  <2>1. ctl' = None /\ device' = None /\ deviceLoading' = FALSE /\ deviceWaiting' = FALSE
    BY <1>4 DEF Ended
  <2>2. DeviceViewIsOurs'
    BY <2>1 DEF DeviceViewIsOurs
  <2>3. device' \in 0 .. flows /\ aborted' \subseteq 1 .. flows
    BY <1>1, <2>1, FlowNumbers DEF None, OAuthInv, OAuthTypes
  <2>4. DeviceMoves
    BY <1>2, <2>1, <2>3 DEF DeviceMoves
  <2> QED BY <1>3, <2>2, <2>4, DeviceOnly
<1>5. CASE ~active(k)
  <2>1. UNCHANGED <<ctl, device, deviceLoading, deviceWaiting>>
    BY <1>5 DEF Ended
  <2>2. ctl # k
    BY <1>5, FlowNumbers DEF active, OAuthInv, DeviceViewIsOurs
  <2>3. ctl # None => phase'[ctl] = phase[ctl]
    BY <1>1, <2>2, FlowNumbers DEF OAuthInv, OAuthTypes
  <2>4. DeviceViewIsOurs'
    BY <1>1, <2>1, <2>3 DEF OAuthInv, DeviceViewIsOurs
  <2>5. device' \in 0 .. flows /\ aborted' \subseteq 1 .. flows
    BY <1>1, <2>1 DEF OAuthInv, OAuthTypes
  <2>6. ctl' # None => phase'[ctl'] \in {"starting", "completing", "pushing"}
    BY <2>1, <2>3 DEF OAuthInv
  <2>7. DeviceMoves
    BY <1>2, <2>1, <2>5, <2>6 DEF DeviceMoves
  <2> QED BY <1>3, <2>4, <2>7, DeviceOnly
<1> QED BY <1>4, <1>5

\* Answers of a device flow, and the server that ends its poll.
LEMMA DeviceKeeps ==
  ASSUME OAuthInv, NEW k \in Flows,
         FlowStep(k) \/ ServerCompletes(k)
  PROVE  OAuthInv'
<1>1. LinkStill
  BY DEF FlowStep, ServerCompletes, DeviceFails, DeviceCodeArrives, DeviceCompleted,
         linkVars, flowVars, LinkStill
<1>2. CASE DeviceFails(k)
  <2>1. Ended(k) /\ saved' = saved
    BY <1>2 DEF DeviceFails, flowVars
  <2> QED BY <1>1, <2>1, EndedKeeps
<1>3. CASE ServerCompletes(k)
  <2>1. UNCHANGED <<phase, aborted, ctl, device, deviceLoading, deviceWaiting>>
    BY <1>3 DEF ServerCompletes, deviceVars
  <2>2. DeviceViewIsOurs'
    BY <2>1 DEF OAuthInv, DeviceViewIsOurs
  <2>3. SuccessMoves
    BY <1>3 DEF ServerCompletes, SuccessMoves
  <2>4. DeviceMoves
    BY <2>1 DEF OAuthInv, OAuthTypes, DeviceMoves
  <2> QED BY <1>1, <2>2, <2>3, <2>4, DeviceOnly
<1>4. CASE DeviceCodeArrives(k)
  <2>1. CASE active(k)
    <3>1. /\ phase' = [phase EXCEPT ![k] = "completing"] /\ device' = k
          /\ deviceLoading' = FALSE /\ deviceWaiting' = TRUE
          /\ UNCHANGED <<aborted, ctl, success, saved>> /\ ctl = k /\ k \notin aborted
      BY <1>4, <2>1 DEF DeviceCodeArrives, active
    <3>2. /\ phase' \in [Flows -> {"idle", "starting", "completing", "pushing", "over"}]
          /\ phase'[k] = "completing"
      BY <3>1 DEF OAuthInv, OAuthTypes
    <3>3. DeviceViewIsOurs'
      BY <3>1, <3>2, FlowNumbers DEF DeviceViewIsOurs
    <3>4. DeviceMoves
      BY <3>1, <3>2 DEF OAuthInv, OAuthTypes, DeviceMoves
    <3>5. SuccessMoves
      BY <3>1 DEF SuccessMoves
    <3> QED BY <1>1, <3>3, <3>4, <3>5, DeviceOnly
  <2>2. CASE ~active(k)
    <3>1. Ended(k) /\ saved' = saved
      BY <1>4, <2>2 DEF DeviceCodeArrives
    <3> QED BY <1>1, <3>1, EndedKeeps
  <2> QED BY <2>1, <2>2
<1>5. CASE DeviceCompleted(k)
  <2>1. CASE active(k)
    <3>1. /\ phase' = [phase EXCEPT ![k] = "pushing"] /\ device' = None /\ success' = k
          /\ UNCHANGED <<aborted, ctl, deviceLoading, deviceWaiting, saved>>
          /\ ctl = k /\ k \notin aborted /\ phase[k] = "completing" /\ k \in saved
      BY <1>5, <2>1 DEF DeviceCompleted, active, Confirmed, flowVars
    <3>2. /\ phase' \in [Flows -> {"idle", "starting", "completing", "pushing", "over"}]
          /\ phase'[k] = "pushing"
      BY <3>1 DEF OAuthInv, OAuthTypes
    <3>3. k # None /\ k = flows
      BY <3>1, FlowNumbers DEF OAuthInv, SuccessIsEarned
    <3>4. ~deviceLoading /\ deviceWaiting
      BY <3>1, <3>3 DEF OAuthInv, DeviceViewIsOurs
    <3>5. DeviceViewIsOurs'
      BY <3>1, <3>2, <3>3, <3>4 DEF DeviceViewIsOurs
    <3>6. DeviceMoves
      BY <3>1, <3>2, FlowNumbers DEF OAuthInv, OAuthTypes, DeviceMoves, None
    <3>7. SuccessMoves
      BY <3>1, <3>3 DEF SuccessMoves
    <3> QED BY <1>1, <3>5, <3>6, <3>7, DeviceOnly
  <2>2. CASE ~active(k)
    <3>1. Ended(k) /\ saved' = saved
      BY <1>5, <2>2 DEF DeviceCompleted, flowVars
    <3> QED BY <1>1, <3>1, EndedKeeps
  <2> QED BY <2>1, <2>2
<1> QED BY <1>2, <1>3, <1>4, <1>5 DEF FlowStep

\* Cancelling forgets the controller.
LEMMA CancelKeeps ==
  ASSUME OAuthInv, cancelDevice
  PROVE  OAuthInv'
<1>1. /\ aborted' = aborted \cup ({ctl} \ {None}) /\ ctl' = None /\ device' = None
      /\ deviceLoading' = FALSE /\ deviceWaiting' = FALSE
      /\ UNCHANGED <<phase, saved, success>>
  BY DEF cancelDevice, Abort, flowVars
<1>2. DeviceViewIsOurs'
  BY <1>1 DEF DeviceViewIsOurs
<1>3. DeviceMoves
  BY <1>1, FlowNumbers DEF OAuthInv, OAuthTypes, DeviceMoves, None
<1>4. SuccessMoves /\ LinkStill
  BY <1>1 DEF SuccessMoves, LinkStill, cancelDevice, linkVars, flowVars
<1> QED BY <1>2, <1>3, <1>4, DeviceOnly

\* The device flow and the counter stand still.
DeviceStill ==
  /\ phase' = phase /\ aborted' = aborted /\ ctl' = ctl /\ device' = device
  /\ deviceLoading' = deviceLoading /\ deviceWaiting' = deviceWaiting /\ flows' = flows

\* What a step of the browser flow does otherwise.
LinkMoves ==
  /\ link' \in 0 .. flows /\ expiryTimer' \in 0 .. flows /\ timers' = {link'} \ {None}
  /\ link' # None => link' = expiryTimer'

\* The flags of the browser flow exclude each other and the device flow.
FlagsMove ==
  /\ loading' => loading
  /\ ~(loading' /\ saving')
  /\ ctl # None => ~saving' /\ link' = None
  /\ link' # None => ~loading'

\* Then only what the browser flow shows has to be checked.
LEMMA LinkOnly ==
  ASSUME OAuthInv, DeviceStill, SuccessMoves, LinkMoves, FlagsMove
  PROVE  OAuthInv'
<1>1. flows \in Nat
  BY FlowNumbers
<1>2. OAuthTypes'
  BY <1>1 DEF OAuthInv, OAuthTypes, DeviceStill, SuccessMoves, LinkMoves, None
<1>3. DeviceViewIsOurs'
  BY DEF OAuthInv, DeviceViewIsOurs, DeviceStill
<1>4. SuccessIsEarned'
  BY DEF OAuthInv, SuccessIsEarned, DeviceStill, SuccessMoves, FlagsMove
<1>5. LinkHasItsTimer'
  BY DEF LinkHasItsTimer, LinkMoves
<1>6. /\ ctl' # None => phase'[ctl'] \in {"starting", "completing", "pushing"}
      /\ link' # None => link' = expiryTimer' /\ ~loading'
      /\ loading' => flows' # None
  BY DEF OAuthInv, DeviceStill, LinkMoves, FlagsMove
<1> QED BY <1>2, <1>3, <1>4, <1>5, <1>6 DEF OAuthInv

\* The steps of the browser flow.
LEMMA LinkKeeps ==
  ASSUME OAuthInv,
         \/ LinkArrives \/ CompleteSettles \/ complete \/ ClosePanel
         \/ \E k \in Flows : ExpiryFires(k)
  PROVE  OAuthInv'
<1>1. /\ flows \in Nat /\ link \in 0 .. flows /\ expiryTimer \in 0 .. flows /\ timers \subseteq 1 .. flows
      /\ timers = {link} \ {None} /\ (link # None => link = expiryTimer)
  BY FlowNumbers DEF OAuthInv, OAuthTypes, LinkHasItsTimer
<1>2. /\ link # None => ~loading
      /\ ctl # None => ~loading /\ ~saving /\ link = None
      /\ ~(loading /\ saving)
      /\ loading => flows # None
  BY DEF OAuthInv, SuccessIsEarned
<1>3. DeviceStill /\ saved' = saved
  BY DEF LinkArrives, CompleteSettles, complete, ClosePanel, ExpiryFires, deviceVars, flowVars, DeviceStill
<1>4. 0 \in 0 .. flows /\ flows \in 0 .. flows
  BY <1>1
<1>5. CASE LinkArrives
  <2>1. loading /\ loading' = FALSE /\ saving' = saving /\ success' = success
    BY <1>5 DEF LinkArrives
  <2>2. link = None /\ ctl = None /\ timers = {} /\ flows # None
    BY <1>1, <1>2, <2>1
  <2>3. FlagsMove
    BY <2>1, <2>2 DEF FlagsMove
  <2>4. SuccessMoves
    BY <1>3, <2>1 DEF SuccessMoves
  <2>5. LinkMoves
    <3>1. CASE UNCHANGED <<link, expiryTimer, timers>>
      BY <1>1, <3>1 DEF LinkMoves
    <3>2. CASE link' = flows /\ expiryTimer' = flows /\ timers' = timers \cup {flows}
      BY <1>4, <2>2, <3>2 DEF LinkMoves
    <3> QED BY <1>5, <3>1, <3>2 DEF LinkArrives
  <2> QED BY <1>3, <2>3, <2>4, <2>5, LinkOnly
<1>6. CASE CompleteSettles
  <2>1. saving /\ saving' = FALSE /\ loading' = loading /\ expiryTimer' = expiryTimer
    BY <1>6 DEF CompleteSettles
  <2>2. CASE UNCHANGED <<success, link, timers>>
    <3>1. LinkMoves
      BY <1>1, <2>1, <2>2 DEF LinkMoves
    <3>2. FlagsMove
      BY <1>2, <2>1, <2>2 DEF FlagsMove
    <3>3. SuccessMoves
      BY <1>3, <2>2 DEF SuccessMoves
    <3> QED BY <1>3, <3>1, <3>2, <3>3, LinkOnly
  <2>3. CASE Confirmed(flows) /\ success' = flows /\ close
    <3>1. link' = None /\ timers' = {} /\ flows \in saved
      BY <2>3, CloseStops DEF Confirmed
    <3>2. LinkMoves
      BY <1>1, <1>4, <2>1, <3>1 DEF LinkMoves, None
    <3>3. FlagsMove
      BY <1>2, <2>1, <3>1 DEF FlagsMove
    <3>4. SuccessMoves
      BY <1>3, <2>3, <3>1 DEF SuccessMoves
    <3> QED BY <1>3, <3>2, <3>3, <3>4, LinkOnly
  <2> QED BY <1>6, <2>2, <2>3 DEF CompleteSettles
<1>7. CASE complete
  <2>1. link # None /\ saving' = TRUE /\ UNCHANGED <<loading, link, expiryTimer, timers, success>>
    BY <1>7 DEF complete
  <2>2. LinkMoves
    BY <1>1, <2>1 DEF LinkMoves
  <2>3. FlagsMove
    BY <1>2, <2>1 DEF FlagsMove
  <2>4. SuccessMoves
    BY <1>3, <2>1 DEF SuccessMoves
  <2> QED BY <1>3, <2>2, <2>3, <2>4, LinkOnly
<1>8. ASSUME ClosePanel \/ \E k \in Flows : ExpiryFires(k) PROVE OAuthInv'
  <2>1. link' = None /\ timers' = {} /\ UNCHANGED <<loading, saving, expiryTimer, success>>
    <3>1. CASE ClosePanel
      BY <3>1, CloseStops DEF ClosePanel
    <3>2. ASSUME NEW k \in Flows, ExpiryFires(k)
          PROVE  link' = None /\ timers' = {} /\ UNCHANGED <<loading, saving, expiryTimer, success>>
      BY <1>1, <3>2 DEF ExpiryFires
    <3> QED BY <1>8, <3>1, <3>2
  <2>2. LinkMoves
    BY <1>1, <1>4, <2>1 DEF LinkMoves, None
  <2>3. FlagsMove
    BY <1>2, <2>1 DEF FlagsMove
  <2>4. SuccessMoves
    BY <1>3, <2>1 DEF SuccessMoves
  <2> QED BY <1>3, <2>2, <2>3, <2>4, LinkOnly
<1> QED BY <1>5, <1>6, <1>7, <1>8

\* Leaving the page clears it.
LEMMA UnmountKeeps ==
  ASSUME OAuthInv, UnmountOAuth
  PROVE  OAuthInv'
<1>1. link' = None /\ timers' = {} /\ flows' = flows /\ flows \in 0 .. MaxFlows /\ flows \in Nat
  BY CloseStops, FlowNumbers DEF UnmountOAuth, OAuthInv, OAuthTypes
<1>2. /\ phase' = [k \in Flows |-> "idle"] /\ aborted' = {} /\ ctl' = None /\ device' = None
      /\ deviceLoading' = FALSE /\ deviceWaiting' = FALSE /\ loading' = FALSE /\ saving' = FALSE
      /\ expired' = FALSE /\ expiryTimer' = None /\ success' = None
  BY DEF UnmountOAuth
<1>3. OAuthTypes'
  BY <1>1, <1>2 DEF OAuthTypes, None
<1> QED BY <1>1, <1>2, <1>3 DEF OAuthInv, DeviceViewIsOurs, SuccessIsEarned, LinkHasItsTimer

\* The page as it is first mounted.
LEMMA OAuthStarts ==
  ASSUME OAuthInit
  PROVE  OAuthInv
<1>1. OAuthTypes
  BY FlowAssumption DEF OAuthInit, OAuthTypes, None
<1> QED BY <1>1 DEF OAuthInit, OAuthInv, DeviceViewIsOurs, SuccessIsEarned, LinkHasItsTimer, None

-----------------------------------------------------------------------------
(* The accounts page.                                                      *)

\* The table only grows: versions go up, and what is deleted stays deleted.
TableGrows ==
  /\ version' \in [Ids -> Nat] /\ \A id \in Ids : version[id] <= version'[id]
  /\ deleted \subseteq deleted' /\ deleted' \subseteq Ids

\* The list, its queue and what the page shows stand still.
ListStill ==
  /\ list' = list /\ queue' = queue /\ accounts' = accounts
  /\ failed' = failed /\ told' = told /\ gone' = gone

\* What the page does with its rows changes, but for those that wait.
OpMoves ==
  /\ op' \in [Ids -> {"none", "refresh", "refreshed", "delete", "deleted", "list", "queued", "waitOld"}]
  /\ \A id \in Ids : op'[id] \in {"deleted", "waitOld"} => id \in deleted'
  /\ \A id \in Ids : op'[id] = "queued" <=> op[id] = "queued"

\* Table steps and requests on their way leave the invariant alone.
LEMMA RowsOnly ==
  ASSUME AccountsInv, TableGrows, ListStill, OpMoves
  PROVE  AccountsInv'
<1>1. AccountsTypes'
  BY DEF AccountsInv, AccountsTypes, TableGrows, ListStill, OpMoves
<1>2. GoneInv'
  BY DEF AccountsInv, GoneInv, DeletedStaysGone, TableGrows, ListStill, OpMoves
<1>3. /\ version \in [Ids -> Nat] /\ version' \in [Ids -> Nat] /\ told \in [Ids -> Nat]
      /\ \A id \in Ids : told[id] <= version[id] /\ version[id] <= version'[id]
  BY DEF AccountsInv, AccountsTypes, ToldInv, TableGrows
<1>4. \A id \in Ids : told'[id] <= version'[id]
  BY <1>3 DEF ListStill
<1>5. \A id \in Ids : Shows(list.items, id) => Shows(list.items, id)'
  BY DEF Shows, ListStill, TableGrows
<1>6. list'.at = "served" => \A id \in Ids : op'[id] # "queued" => told'[id] = 0 \/ Shows(list.items, id)'
  BY <1>5 DEF AccountsInv, ToldInv, ListStill, OpMoves
<1>7. \A id \in Ids : op'[id] = "queued" => \E i \in 1 .. Len(queue') : queue'[i] = id
  BY DEF AccountsInv, ToldInv, ListStill, OpMoves
<1>8. /\ ~Loading' /\ ~failed' => \A id \in Ids : told'[id] = 0
      /\ ~Loading' => queue' = <<>>
  BY DEF AccountsInv, ToldInv, ListStill, Loading
<1>9. ToldInv'
  BY <1>4, <1>6, <1>7, <1>8 DEF ToldInv
<1> QED BY <1>1, <1>2, <1>9 DEF AccountsInv

\* The table stands still.
LEMMA TableStands ==
  ASSUME AccountsInv, UNCHANGED tableVars
  PROVE  TableGrows /\ version' = version /\ deleted' = deleted
BY DEF AccountsInv, AccountsTypes, tableVars, TableGrows

\* A write or a delete is growth.
LEMMA WritesGrow ==
  ASSUME AccountsInv, NEW id \in Ids, RowWritten(id) \/ RowDeleted(id)
  PROVE  TableGrows
<1>1. version \in [Ids -> Nat] /\ deleted \subseteq Ids
  BY DEF AccountsInv, AccountsTypes
<1>2. CASE RowWritten(id)
  BY <1>1, <1>2 DEF RowWritten, TableGrows
<1>3. CASE RowDeleted(id)
  BY <1>1, <1>3 DEF RowDeleted, TableGrows
<1> QED BY <1>2, <1>3

\* Nothing the page does changes.
LEMMA OpStands ==
  ASSUME AccountsInv, TableGrows, op' = op
  PROVE  OpMoves
BY DEF AccountsInv, AccountsTypes, GoneInv, TableGrows, OpMoves

\* Somebody else changes a row.
LEMMA ElsewhereKeeps ==
  ASSUME AccountsInv, NEW id \in Ids, RowWritten(id) \/ RowDeleted(id), UNCHANGED pageVars
  PROVE  AccountsInv'
<1>1. TableGrows
  BY WritesGrow
<1>2. ListStill /\ op' = op
  BY DEF pageVars, ListStill
<1> QED BY <1>1, <1>2, OpStands, RowsOnly

\* Requests for a row are sent, served, refused.
LEMMA RequestKeeps ==
  ASSUME AccountsInv, NEW id \in Ids,
         refreshCredential(id) \/ deleteAccount(id) \/ ServerChanges(id) \/ ChangeFails(id)
  PROVE  AccountsInv'
<1> DEFINE Ops == {"none", "refresh", "refreshed", "delete", "deleted", "list", "queued", "waitOld"}
<1>1. op \in [Ids -> Ops] /\ \A x \in Ids : op[x] \in {"deleted", "waitOld"} => x \in deleted
  BY DEF AccountsInv, AccountsTypes, GoneInv
<1>2. ListStill
  BY DEF refreshCredential, deleteAccount, Send, ServerChanges, ChangeFails, ListStill
<1>3. CASE refreshCredential(id) \/ deleteAccount(id) \/ ChangeFails(id)
  <2>1. TableGrows /\ deleted' = deleted
    BY <1>3, TableStands DEF refreshCredential, deleteAccount, Send, ChangeFails
  <2>2. /\ op[id] \in {"none", "refresh", "refreshed", "delete", "deleted"}
        /\ \E o \in {"refresh", "delete", "none"} : op' = [op EXCEPT ![id] = o]
    BY <1>3 DEF refreshCredential, deleteAccount, Send, ChangeFails
  <2>3. OpMoves
    BY <1>1, <2>1, <2>2 DEF OpMoves
  <2> QED BY <1>2, <2>1, <2>3, RowsOnly
<1>4. CASE ServerChanges(id)
  <2>1. TableGrows
    BY <1>4, WritesGrow DEF ServerChanges
  <2>2. /\ op[id] \in {"refresh", "delete"}
        /\ \/ op' = [op EXCEPT ![id] = "refreshed"]
           \/ op' = [op EXCEPT ![id] = "deleted"] /\ id \in deleted'
    BY <1>4 DEF ServerChanges, RowDeleted
  <2>3. OpMoves
    BY <1>1, <2>1, <2>2 DEF OpMoves, TableGrows
  <2> QED BY <1>2, <2>1, <2>3, RowsOnly
<1> QED BY <1>3, <1>4

\* A request for the list has no answer yet.
LEMMA ListForms ==
  /\ NoList.at = "none" /\ NewList.at = "sent"
  /\ AfterList.at = IF queue = <<>> THEN "none" ELSE "sent"
BY DEF NoList, NewList, AfterList

\* The list is asked for: nothing is served, nothing has failed.
LEMMA AskKeeps ==
  ASSUME AccountsInv, UNCHANGED <<tableVars, queue, op, accounts, told, gone>>,
         list' = NewList
  PROVE  AccountsInv'
<1>1. list'.at = "sent" /\ version' = version /\ deleted' = deleted
  BY ListForms, TableStands
<1>2. AccountsTypes'
  BY <1>1 DEF AccountsInv, AccountsTypes
<1>3. GoneInv'
  BY <1>1 DEF AccountsInv, GoneInv, DeletedStaysGone
<1>4. ToldInv'
  BY <1>1 DEF AccountsInv, ToldInv, Loading
<1> QED BY <1>2, <1>3, <1>4 DEF AccountsInv

\* The rows are read: what was refreshed is in the answer as new as it was.
LEMMA ReadKeeps ==
  ASSUME AccountsInv, OauthList
  PROVE  AccountsInv'
<1>1. /\ list.at = "sent" /\ list'.at = "served"
      /\ DOMAIN list'.items = Rows /\ \A id \in Rows : list'.items[id] = version[id]
      /\ UNCHANGED <<queue, op, accounts, told, gone>>
  BY DEF OauthList
<1>2. version' = version /\ deleted' = deleted
  BY TableStands DEF OauthList
<1>3. AccountsTypes'
  BY <1>1, <1>2 DEF AccountsInv, AccountsTypes
<1>4. GoneInv'
  BY <1>1, <1>2 DEF AccountsInv, GoneInv, DeletedStaysGone, Rows
<1>5. ASSUME NEW id \in Ids, told'[id] # 0 PROVE Shows(list.items, id)'
  <2>1. told[id] \in Nat /\ version[id] \in Nat /\ told[id] <= version[id] /\ told[id] # 0
    BY <1>1, <1>5 DEF AccountsInv, AccountsTypes, ToldInv
  <2>2. CASE id \in Rows
    BY <1>1, <2>1, <2>2 DEF Shows
  <2>3. CASE id \notin Rows
    <3>1. id \in deleted
      BY <2>1, <2>3 DEF Rows
    <3> QED BY <1>1, <1>2, <2>3, <3>1 DEF Shows
  <2> QED BY <2>2, <2>3
<1>6. ToldInv'
  BY <1>1, <1>2, <1>5 DEF AccountsInv, ToldInv, Loading
<1> QED BY <1>3, <1>4, <1>6 DEF AccountsInv

\* The first of a queue leaves it, the others stay.
LEMMA TailKeeps ==
  ASSUME NEW q \in Seq(Ids), q # <<>>, NEW i \in 1 .. Len(q)
  PROVE  /\ Tail(q) \in Seq(Ids) /\ Head(q) \in Ids
         /\ q[i] # Head(q) => \E j \in 1 .. Len(Tail(q)) : Tail(q)[j] = q[i]
<1>1. Tail(q) \in Seq(Ids) /\ Head(q) \in Ids /\ Head(q) = q[1]
  OBVIOUS
<1>2. ASSUME q[i] # Head(q) PROVE \E j \in 1 .. Len(Tail(q)) : Tail(q)[j] = q[i]
  <2>1. i - 1 \in 1 .. Len(Tail(q)) /\ Tail(q)[i - 1] = q[i]
    BY <1>1, <1>2
  <2> QED BY <2>1
<1> QED BY <1>1, <1>2

\* A list ends: answers of deletes go through before anything is shown, and
\* whoever waits for a newer list gets one.
LEMMA SettleKeeps ==
  ASSUME AccountsInv, NEW ok \in BOOLEAN, ListSettles(ok)
  PROVE  AccountsInv'
<1> DEFINE Ops == {"none", "refresh", "refreshed", "delete", "deleted", "list", "queued", "waitOld"}
<1>1. version' = version /\ deleted' = deleted
  BY TableStands DEF ListSettles
<1>2. /\ op \in [Ids -> Ops] /\ queue \in Seq(Ids) /\ told \in [Ids -> Nat] /\ gone \subseteq Ids
      /\ version \in [Ids -> Nat] /\ deleted \subseteq Ids
  BY DEF AccountsInv, AccountsTypes
<1>3. op' = [id \in Ids |->
              CASE op[id] = "waitOld" -> "none"
                [] op[id] = "list" -> "none"
                [] op[id] = "queued" /\ id = Head(queue) -> "list"
                [] OTHER -> op[id]]
  BY DEF ListSettles
<1>4. ASSUME NEW id \in Ids
      PROVE  /\ op'[id] \in Ops
             /\ op'[id] # "waitOld"
             /\ op'[id] = "deleted" => op[id] = "deleted"
             /\ op'[id] = "queued" => op[id] = "queued" /\ id # Head(queue)
  BY <1>2, <1>3
<1>5. op' \in [Ids -> Ops]
  BY <1>3, <1>4
<1>6. list'.at = IF queue = <<>> THEN "none" ELSE "sent"
  BY ListForms DEF ListSettles
<1>7. Olds \subseteq deleted /\ Olds \subseteq Ids
  BY DEF Olds, AccountsInv, GoneInv
<1>8. gone' = gone \cup Olds
  BY DEF ListSettles
<1>9. \A id \in Ids : told'[id] \in {0, told[id]}
  BY DEF ListSettles
<1>10. told' \in [Ids -> Nat]
  BY <1>2 DEF ListSettles
<1>11. queue' \in Seq(Ids)
  BY <1>2, TailKeeps DEF ListSettles
<1>12. AccountsTypes'
  BY <1>1, <1>2, <1>5, <1>6, <1>7, <1>8, <1>10, <1>11 DEF AccountsTypes
<1>13. gone' \cap DOMAIN accounts' = {}
  <2>1. DOMAIN accounts' = DOMAIN (IF ok THEN list.items ELSE accounts) \ Olds
    BY DEF ListSettles, Without
  <2>2. ok => list.at = "served"
    BY DEF ListSettles
  <2> QED BY <1>8, <2>1, <2>2 DEF AccountsInv, GoneInv, DeletedStaysGone
<1>14. GoneInv'
  BY <1>1, <1>4, <1>6, <1>7, <1>8, <1>13 DEF AccountsInv, GoneInv, DeletedStaysGone
<1>15. \A id \in Ids : told'[id] <= version'[id]
  <2> SUFFICES ASSUME NEW id \in Ids PROVE told'[id] <= version'[id]
    OBVIOUS
  <2>1. told[id] \in Nat /\ version[id] \in Nat /\ told[id] <= version[id]
    BY <1>2 DEF AccountsInv, ToldInv
  <2>2. told'[id] \in {0, told[id]} /\ version'[id] = version[id]
    BY <1>1, <1>9
  <2> QED BY <2>1, <2>2
<1>16. ASSUME NEW id \in Ids, op'[id] = "queued"
       PROVE  \E i \in 1 .. Len(queue') : queue'[i] = id
  <2>1. PICK i \in 1 .. Len(queue) : queue[i] = id
    BY <1>4, <1>16 DEF AccountsInv, ToldInv
  <2>2. queue # <<>>
    BY <1>2, <2>1
  <2>3. queue' = Tail(queue)
    BY <2>2 DEF ListSettles
  <2> QED BY <1>2, <1>4, <1>16, <2>1, <2>2, <2>3, TailKeeps
<1>17. ASSUME ~Loading', ~failed', NEW id \in Ids PROVE told'[id] = 0
  <2>1. queue = <<>>
    BY <1>6, <1>17 DEF Loading
  <2>2. ok = TRUE /\ list.at = "served"
    BY <1>17, <2>1 DEF ListSettles
  <2>3. op[id] # "queued"
    BY <1>2, <2>1 DEF AccountsInv, ToldInv
  <2>4. told[id] = 0 \/ Shows(list.items, id)
    BY <2>2, <2>3 DEF AccountsInv, ToldInv
  <2> QED BY <2>2, <2>4 DEF ListSettles
<1>18. ~Loading' => queue' = <<>>
  BY <1>6 DEF Loading, ListSettles
<1>19. ToldInv'
  BY <1>6, <1>15, <1>16, <1>17, <1>18 DEF ToldInv
<1> QED BY <1>12, <1>14, <1>19 DEF AccountsInv

\* A refresh is confirmed: it waits for a list that is asked for after it.
LEMMA ConfirmKeeps ==
  ASSUME AccountsInv, NEW id \in Ids, RefreshConfirmed(id)
  PROVE  AccountsInv'
<1> DEFINE Ops == {"none", "refresh", "refreshed", "delete", "deleted", "list", "queued", "waitOld"}
<1>1. version' = version /\ deleted' = deleted
  BY TableStands DEF RefreshConfirmed
<1>2. /\ op \in [Ids -> Ops] /\ queue \in Seq(Ids) /\ told \in [Ids -> Nat] /\ gone \subseteq Ids
      /\ version \in [Ids -> Nat] /\ deleted \subseteq Ids
  BY DEF AccountsInv, AccountsTypes
<1>3. /\ op[id] = "refreshed" /\ told' = [told EXCEPT ![id] = version[id]]
      /\ accounts' = accounts /\ gone' = gone
  BY DEF RefreshConfirmed
<1>4. told' \in [Ids -> Nat] /\ \A x \in Ids : told'[x] <= version'[x]
  BY <1>1, <1>2, <1>3 DEF AccountsInv, ToldInv
<1>5. CASE Loading
  <2>1. op' = [op EXCEPT ![id] = "queued"] /\ queue' = Append(queue, id) /\ list' = list
    BY <1>5 DEF RefreshConfirmed
  <2>2. queue' \in Seq(Ids) /\ Len(queue') = Len(queue) + 1 /\ queue'[Len(queue) + 1] = id
        /\ \A i \in 1 .. Len(queue) : queue'[i] = queue[i]
    BY <1>2, <2>1
  <2>3. AccountsTypes'
    BY <1>1, <1>2, <1>3, <1>4, <2>1, <2>2 DEF AccountsInv, AccountsTypes
  <2>4. GoneInv'
    BY <1>1, <1>2, <1>3, <2>1 DEF AccountsInv, GoneInv, DeletedStaysGone
  <2>5. ASSUME NEW x \in Ids, op'[x] = "queued" PROVE \E i \in 1 .. Len(queue') : queue'[i] = x
    <3>1. CASE x = id
      <4>1. Len(queue) + 1 \in 1 .. Len(queue')
        BY <1>2, <2>2
      <4> QED BY <2>2, <3>1, <4>1
    <3>2. CASE x # id
      <4>1. PICK i \in 1 .. Len(queue) : queue[i] = x
        BY <1>2, <2>1, <2>5, <3>2 DEF AccountsInv, ToldInv
      <4>2. i \in 1 .. Len(queue')
        BY <1>2, <2>2
      <4> QED BY <2>2, <4>1, <4>2
    <3> QED BY <3>1, <3>2
  <2>6. ASSUME list'.at = "served", NEW x \in Ids, op'[x] # "queued"
        PROVE  told'[x] = 0 \/ Shows(list.items, x)'
    <3>1. x # id /\ op[x] # "queued" /\ told'[x] = told[x]
      BY <1>2, <1>3, <2>1, <2>6
    <3>2. told[x] = 0 \/ Shows(list.items, x)
      BY <2>1, <2>6, <3>1 DEF AccountsInv, ToldInv
    <3> QED BY <1>1, <2>1, <3>1, <3>2 DEF Shows
  <2>7. Loading'
    BY <1>5, <2>1 DEF Loading
  <2>8. ToldInv'
    BY <1>4, <2>5, <2>6, <2>7 DEF ToldInv
  <2> QED BY <2>3, <2>4, <2>8 DEF AccountsInv
<1>6. CASE ~Loading
  <2>1. op' = [op EXCEPT ![id] = "list"] /\ queue' = queue /\ list' = NewList
    BY <1>6 DEF RefreshConfirmed
  <2>2. list'.at = "sent"
    BY <2>1, ListForms
  <2>3. AccountsTypes'
    BY <1>1, <1>2, <1>3, <1>4, <2>1, <2>2 DEF AccountsTypes
  <2>4. GoneInv'
    BY <1>1, <1>2, <1>3, <2>1, <2>2 DEF AccountsInv, GoneInv, DeletedStaysGone
  <2>5. \A x \in Ids : op'[x] = "queued" => \E i \in 1 .. Len(queue') : queue'[i] = x
    BY <1>2, <2>1 DEF AccountsInv, ToldInv
  <2>6. ToldInv'
    BY <1>4, <2>2, <2>5 DEF ToldInv, Loading
  <2> QED BY <2>3, <2>4, <2>6 DEF AccountsInv
<1> QED BY <1>5, <1>6

\* A delete is confirmed: its row goes at once, or once the list under way,
\* which may still have it, has arrived.
LEMMA DeleteKeepsPage ==
  ASSUME AccountsInv, NEW id \in Ids, DeleteConfirmed(id)
  PROVE  AccountsInv'
<1> DEFINE Ops == {"none", "refresh", "refreshed", "delete", "deleted", "list", "queued", "waitOld"}
<1>1. version' = version /\ deleted' = deleted /\ TableGrows
  BY TableStands DEF DeleteConfirmed
<1>2. /\ op \in [Ids -> Ops] /\ op[id] = "deleted" /\ id \in deleted
      /\ \A x \in Ids : op[x] \in {"deleted", "waitOld"} => x \in deleted
  BY DEF DeleteConfirmed, AccountsInv, AccountsTypes, GoneInv
<1>3. CASE Loading
  <2>1. op' = [op EXCEPT ![id] = "waitOld"] /\ ListStill
    BY <1>3 DEF DeleteConfirmed, WaitsForOld, ListStill
  <2>2. OpMoves
    BY <1>1, <1>2, <2>1 DEF OpMoves
  <2> QED BY <1>1, <2>1, <2>2, RowsOnly
<1>4. CASE ~Loading
  <2>1. /\ op' = [op EXCEPT ![id] = "none"] /\ gone' = gone \cup {id}
        /\ accounts' = Without(accounts, {id})
        /\ UNCHANGED <<list, queue, failed, told>>
    BY <1>4 DEF DeleteConfirmed, WaitsForOld
  <2>2. DOMAIN accounts' = DOMAIN accounts \ {id}
    BY <2>1 DEF Without
  <2>3. list.at = "none"
    BY <1>4 DEF Loading
  <2>4. AccountsTypes'
    BY <1>1, <1>2, <2>1 DEF AccountsInv, AccountsTypes
  <2>5. GoneInv'
    BY <1>1, <1>2, <2>1, <2>2, <2>3 DEF AccountsInv, GoneInv, DeletedStaysGone
  <2>6. \A x \in Ids : op'[x] = "queued" => \E i \in 1 .. Len(queue') : queue'[i] = x
    BY <1>2, <2>1 DEF AccountsInv, ToldInv
  <2>7. ToldInv'
    BY <1>1, <2>1, <2>3, <2>6 DEF AccountsInv, ToldInv, Loading
  <2> QED BY <2>4, <2>5, <2>7 DEF AccountsInv
<1> QED BY <1>3, <1>4

-----------------------------------------------------------------------------
(* The two pages together.                                                 *)

\* A page that holds nothing satisfies the invariant, whatever the table is.
LEMMA EmptyPage ==
  ASSUME version \in [Ids -> Nat], deleted \subseteq Ids, Unmounted
  PROVE  AccountsInv
<1>1. list.at = "none"
  BY ListForms DEF Unmounted
<1>2. AccountsTypes
  BY <1>1 DEF Unmounted, AccountsTypes
<1>3. GoneInv
  BY <1>1 DEF Unmounted, GoneInv, DeletedStaysGone
<1>4. ToldInv
  BY <1>1 DEF Unmounted, ToldInv, Loading
<1> QED BY <1>2, <1>3, <1>4 DEF AccountsInv

\* Leaving the accounts page empties it.
LEMMA LeaveKeeps ==
  ASSUME AccountsInv, UnmountAccounts
  PROVE  AccountsInv' /\ Unmounted'
<1>1. version' = version /\ deleted' = deleted
  BY TableStands DEF UnmountAccounts
<1>2. Unmounted'
  BY DEF UnmountAccounts, Unmounted
<1>3. list'.at = "none"
  BY ListForms DEF UnmountAccounts
<1>4. AccountsTypes'
  BY <1>1, <1>3 DEF AccountsInv, AccountsTypes, UnmountAccounts
<1>5. GoneInv'
  BY <1>3 DEF UnmountAccounts, GoneInv, DeletedStaysGone
<1>6. \A id \in Ids : told'[id] = 0 /\ op'[id] = "none" /\ version[id] \in Nat
  BY DEF UnmountAccounts, AccountsInv, AccountsTypes
<1>7. ToldInv'
  BY <1>1, <1>3, <1>6 DEF UnmountAccounts, ToldInv, Loading
<1> QED BY <1>2, <1>4, <1>5, <1>7 DEF AccountsInv

\* LandedInv asks of a step that it shrinks neither the table nor, but for
\* deleted rows, what is shown or about to be.
LEMMA LandedOnly ==
  ASSUME AccountsInv, LandedInv, TableGrows, rowOf' = rowOf, landed' = landed,
         list'.at = "served" => landed \subseteq DOMAIN list'.items \cup deleted',
         loaded' => landed \subseteq DOMAIN accounts' \cup deleted'
  PROVE  LandedInv'
<1>1. version \in [Ids -> Nat] /\ version' \in [Ids -> Nat] /\ \A id \in Ids : version[id] <= version'[id]
  BY DEF AccountsInv, AccountsTypes, TableGrows
<1>2. \A id \in Ids : version[id] > 0 => version'[id] > 0
  BY <1>1
<1>3. \A k \in Flows : \A id \in rowOf'[k] : version'[id] > 0
  BY <1>2 DEF LandedInv
<1>4. \A id \in landed' : version'[id] > 0
  BY <1>2 DEF LandedInv
<1>5. rowOf' \in [Flows -> SUBSET Ids] /\ landed' \subseteq Ids
  BY DEF LandedInv
<1> QED BY <1>3, <1>4, <1>5 DEF LandedInv, SavedIsListed

\* The same, when list and accounts stand still.
LEMMA LandedStill ==
  ASSUME AccountsInv, LandedInv, TableGrows, rowOf' = rowOf, landed' = landed,
         list' = list, accounts' = accounts, loaded' = loaded
  PROVE  LandedInv'
<1>1. /\ list'.at = "served" => landed \subseteq DOMAIN list'.items \cup deleted'
      /\ loaded' => landed \subseteq DOMAIN accounts' \cup deleted'
  BY DEF LandedInv, SavedIsListed, TableGrows
<1> QED BY <1>1, LandedOnly

\* A row a flow is stored in has a version from then on.
LEMMA StoredLands ==
  ASSUME ConsoleInv, NEW k \in Flows, FlowStored(k)
  PROVE  ConsoleInv'
<1>1. OAuthInv'
  BY DeviceKeeps DEF ConsoleInv, FlowStored
<1>2. UNCHANGED pageVars /\ view' = view /\ landed' = landed
  BY DEF FlowStored
<1>3. UNCHANGED <<list, accounts, loaded>> /\ (Unmounted => Unmounted')
  BY <1>2 DEF pageVars, Unmounted
<1>4. CASE UNCHANGED <<tableVars, rowOf>>
  <2>1. TableGrows /\ ListStill /\ op' = op
    BY <1>2, <1>4, TableStands DEF ConsoleInv, pageVars, ListStill
  <2>2. AccountsInv'
    BY <2>1, OpStands, RowsOnly DEF ConsoleInv
  <2>3. LandedInv'
    BY <1>2, <1>3, <1>4, <2>1, LandedStill DEF ConsoleInv
  <2> QED BY <1>1, <1>2, <1>3, <2>2, <2>3 DEF ConsoleInv
<1>5. ASSUME NEW id \in Ids, RowWritten(id), rowOf' = [rowOf EXCEPT ![k] = {id}]
      PROVE  ConsoleInv'
  <2>1. AccountsInv'
    BY <1>2, <1>5, ElsewhereKeeps DEF ConsoleInv
  <2>2. TableGrows /\ version \in [Ids -> Nat]
    BY <1>5, WritesGrow DEF ConsoleInv, AccountsInv, AccountsTypes
  <2>3. version'[id] > 0
    BY <1>5, <2>2 DEF RowWritten
  <2>4. \A x \in Ids : version[x] > 0 => version'[x] > 0
    BY <2>2 DEF TableGrows
  <2>5. rowOf' \in [Flows -> SUBSET Ids] /\ landed' \subseteq Ids
    BY <1>2, <1>5 DEF ConsoleInv, LandedInv
  <2>6. \A x \in landed' : version'[x] > 0
    BY <1>2, <2>4 DEF ConsoleInv, LandedInv
  <2>7. ASSUME NEW j \in Flows, NEW x \in rowOf'[j] PROVE version'[x] > 0
    <3>1. j = k => x = id
      BY <1>5, <2>7 DEF ConsoleInv, LandedInv
    <3>2. j # k => x \in rowOf[j]
      BY <1>5, <2>7 DEF ConsoleInv, LandedInv
    <3> QED BY <2>3, <2>4, <3>1, <3>2 DEF ConsoleInv, LandedInv
  <2>8. /\ list'.at = "served" => landed' \subseteq DOMAIN list'.items \cup deleted'
        /\ loaded' => landed' \subseteq DOMAIN accounts' \cup deleted'
    BY <1>2, <1>3, <2>2 DEF ConsoleInv, LandedInv, SavedIsListed, TableGrows
  <2>9. LandedInv'
    BY <2>5, <2>6, <2>7, <2>8 DEF LandedInv, SavedIsListed
  <2> QED BY <1>1, <1>2, <1>3, <2>1, <2>9 DEF ConsoleInv
<1> QED BY <1>4, <1>5 DEF FlowStored

\* The way to the accounts: the page asks for its list when it is mounted.
LEMMA ToAccountsKeeps ==
  ASSUME ConsoleInv, NEW row \in SUBSET Ids, \A id \in row : version[id] > 0, ToAccounts(row)
  PROVE  ConsoleInv'
<1>1. OAuthInv' /\ view' = "accounts" /\ view = "oauth"
  BY UnmountKeeps DEF ConsoleInv, ToAccounts
<1>2. /\ list' = NewList /\ landed' = row /\ rowOf' = [k \in Flows |-> {}]
      /\ UNCHANGED <<tableVars, queue, op, accounts, loaded, told, gone>>
  BY DEF ToAccounts, MountAccounts
<1>3. AccountsInv'
  BY <1>2, AskKeeps DEF ConsoleInv
<1>4. version' = version /\ list'.at = "sent"
  BY <1>2, ListForms, TableStands DEF ConsoleInv
<1>5. ~loaded'
  BY <1>1, <1>2 DEF ConsoleInv, Unmounted
<1>6. LandedInv'
  BY <1>2, <1>4, <1>5 DEF LandedInv, SavedIsListed
<1> QED BY <1>1, <1>3, <1>6 DEF ConsoleInv

\* The way back.
LEMMA ToOAuthKeeps ==
  ASSUME ConsoleInv, ToOAuth
  PROVE  ConsoleInv'
<1>1. UNCHANGED oauthVars /\ UnmountAccounts /\ landed' = {} /\ rowOf' = rowOf
  BY DEF ToOAuth
<1>2. OAuthInv' /\ AccountsInv' /\ Unmounted'
  BY <1>1, OAuthFrame, LeaveKeeps DEF ConsoleInv
<1>3. version' = version
  BY <1>1, TableStands DEF ConsoleInv, UnmountAccounts
<1>4. LandedInv'
  BY <1>1, <1>3 DEF ConsoleInv, LandedInv, SavedIsListed
<1> QED BY <1>2, <1>4 DEF ConsoleInv

\* Steps of the authorization page leave the accounts alone.
LEMMA OAuthPageKeeps ==
  ASSUME ConsoleInv, OAuthInv', OAuthOnly
  PROVE  ConsoleInv'
<1>1. /\ UNCHANGED <<tableVars, pageVars>> /\ view' = view /\ rowOf' = rowOf /\ landed' = landed
  BY DEF OAuthOnly, accountsVars
<1>2. /\ ListStill /\ op' = op /\ loaded' = loaded /\ (Unmounted => Unmounted')
  BY <1>1 DEF pageVars, ListStill, Unmounted
<1>3. TableGrows
  BY <1>1, TableStands DEF ConsoleInv
<1>4. AccountsInv'
  BY <1>2, <1>3, OpStands, RowsOnly DEF ConsoleInv
<1>5. LandedInv'
  BY <1>1, <1>2, <1>3, LandedStill DEF ConsoleInv, ListStill
<1> QED BY <1>1, <1>2, <1>4, <1>5 DEF ConsoleInv

\* A step of the accounts page takes place on a page that holds something, and
\* what it shows next has the landed row.
LEMMA AccountsPageKeeps ==
  ASSUME ConsoleInv, AccountsOnly,
         \/ OauthList \/ refreshAccounts
         \/ \E ok \in BOOLEAN : ListSettles(ok)
         \/ \E id \in Ids : RowStep(id) \/ ChangedElsewhere(id)
  PROVE  ConsoleInv'
<1>1. OAuthInv' /\ view' = view /\ rowOf' = rowOf /\ landed' = landed
  BY OAuthFrame DEF ConsoleInv, AccountsOnly
<1>2. ASSUME AccountsInv', LandedInv', Unmounted => Unmounted' PROVE ConsoleInv'
  BY <1>1, <1>2 DEF ConsoleInv
<1>3. /\ \A id \in landed : version[id] > 0 /\ id \in Ids
      /\ list.at = "served" => landed \subseteq DOMAIN list.items \cup deleted
      /\ loaded => landed \subseteq DOMAIN accounts \cup deleted
  BY DEF ConsoleInv, LandedInv, SavedIsListed
<1>4. Unmounted => /\ list.at = "none" /\ ~Loading /\ ~mounted /\ DOMAIN accounts = {}
                   /\ \A id \in Ids : op[id] = "none"
  BY ListForms DEF Unmounted, Loading
<1>5. CASE OauthList
  <2>1. AccountsInv'
    BY <1>5, ReadKeeps DEF ConsoleInv
  <2>2. TableGrows /\ deleted' = deleted
    BY <1>5, TableStands DEF ConsoleInv, OauthList
  <2>3. /\ DOMAIN list'.items = Rows /\ UNCHANGED <<accounts, loaded>> /\ list.at = "sent"
    BY <1>5 DEF OauthList
  <2>4. landed \subseteq Rows \cup deleted
    BY <1>3 DEF Rows
  <2>5. LandedInv'
    BY <1>1, <1>3, <2>2, <2>3, <2>4, LandedOnly DEF ConsoleInv
  <2>6. ~Unmounted
    BY <1>4, <2>3
  <2> QED BY <1>2, <2>1, <2>5, <2>6
<1>6. CASE refreshAccounts
  <2>1. /\ mounted /\ list' = NewList
        /\ UNCHANGED <<tableVars, queue, op, accounts, loaded, told, gone>>
    BY <1>6 DEF refreshAccounts
  <2>2. AccountsInv'
    BY <2>1, AskKeeps DEF ConsoleInv
  <2>3. TableGrows /\ deleted' = deleted /\ list'.at = "sent"
    BY <2>1, TableStands, ListForms DEF ConsoleInv
  <2>4. LandedInv'
    BY <1>1, <1>3, <2>1, <2>3, LandedOnly DEF ConsoleInv
  <2>5. ~Unmounted
    BY <1>4, <2>1
  <2> QED BY <1>2, <2>2, <2>4, <2>5
<1>7. ASSUME NEW ok \in BOOLEAN, ListSettles(ok) PROVE ConsoleInv'
  <2>1. AccountsInv'
    BY <1>7, SettleKeeps DEF ConsoleInv
  <2>2. TableGrows /\ deleted' = deleted
    BY <1>7, TableStands DEF ConsoleInv, ListSettles
  <2>3. list'.at \in {"none", "sent"}
    BY <1>7, ListForms DEF ListSettles
  <2>4. DOMAIN accounts' = DOMAIN (IF ok THEN list.items ELSE accounts) \ Olds
    BY <1>7 DEF ListSettles, Without
  <2>5. (ok => list.at = "served") /\ loaded' = (loaded \/ ok) /\ Loading
    BY <1>7 DEF ListSettles
  <2>6. Olds \subseteq deleted
    BY DEF Olds, ConsoleInv, AccountsInv, GoneInv
  <2>7. loaded' => landed \subseteq DOMAIN accounts' \cup deleted'
    <3>1. CASE ok
      BY <1>3, <2>2, <2>4, <2>5, <2>6, <3>1
    <3>2. CASE ~ok
      BY <1>3, <2>2, <2>4, <2>5, <2>6, <3>2
    <3> QED BY <3>1, <3>2
  <2>8. LandedInv'
    BY <1>1, <2>2, <2>3, <2>7, LandedOnly DEF ConsoleInv
  <2> QED BY <1>2, <1>4, <2>1, <2>5, <2>8
<1>8. ASSUME NEW id \in Ids,
             refreshCredential(id) \/ deleteAccount(id) \/ ServerChanges(id) \/ ChangeFails(id)
      PROVE  ConsoleInv'
  <2>1. AccountsInv'
    BY <1>8, RequestKeeps DEF ConsoleInv
  <2>2. UNCHANGED <<list, accounts, loaded>> /\ (op[id] # "none" \/ id \in DOMAIN accounts)
    BY <1>8 DEF refreshCredential, deleteAccount, Send, ServerChanges, ChangeFails
  <2>3. TableGrows
    <3>1. CASE ServerChanges(id)
      BY <3>1, WritesGrow DEF ConsoleInv, ServerChanges
    <3>2. CASE ~ServerChanges(id)
      BY <1>8, <3>2, TableStands DEF ConsoleInv, refreshCredential, deleteAccount, Send, ChangeFails
    <3> QED BY <3>1, <3>2
  <2>4. LandedInv'
    BY <1>1, <2>2, <2>3, LandedStill DEF ConsoleInv
  <2> QED BY <1>2, <1>4, <2>1, <2>2, <2>4
<1>9. ASSUME NEW id \in Ids, RefreshConfirmed(id) PROVE ConsoleInv'
  <2>1. AccountsInv'
    BY <1>9, ConfirmKeeps DEF ConsoleInv
  <2>2. UNCHANGED <<accounts, loaded>> /\ op[id] # "none" /\ (list' = list \/ list' = NewList)
    BY <1>9 DEF RefreshConfirmed
  <2>3. TableGrows /\ deleted' = deleted
    BY <1>9, TableStands DEF ConsoleInv, RefreshConfirmed
  <2>4. list'.at = "served" => landed \subseteq DOMAIN list'.items \cup deleted'
    BY <1>3, <2>2, <2>3, ListForms
  <2>5. loaded' => landed \subseteq DOMAIN accounts' \cup deleted'
    BY <1>3, <2>2, <2>3
  <2>6. LandedInv'
    BY <1>1, <2>3, <2>4, <2>5, LandedOnly DEF ConsoleInv
  <2> QED BY <1>2, <1>4, <2>1, <2>2, <2>6
<1>10. ASSUME NEW id \in Ids, DeleteConfirmed(id) PROVE ConsoleInv'
  <2>1. AccountsInv'
    BY <1>10, DeleteKeepsPage DEF ConsoleInv
  <2>2. UNCHANGED <<list, loaded>> /\ op[id] = "deleted"
    BY <1>10 DEF DeleteConfirmed
  <2>3. id \in deleted
    BY <2>2 DEF ConsoleInv, AccountsInv, GoneInv
  <2>4. DOMAIN accounts \subseteq DOMAIN accounts' \cup {id}
    BY <1>10 DEF DeleteConfirmed, Without
  <2>5. TableGrows /\ deleted' = deleted
    BY <1>10, TableStands DEF ConsoleInv, DeleteConfirmed
  <2>6. loaded' => landed \subseteq DOMAIN accounts' \cup deleted'
    BY <1>3, <2>2, <2>3, <2>4, <2>5
  <2>7. list'.at = "served" => landed \subseteq DOMAIN list'.items \cup deleted'
    BY <1>3, <2>2, <2>5
  <2>8. LandedInv'
    BY <1>1, <2>5, <2>6, <2>7, LandedOnly DEF ConsoleInv
  <2> QED BY <1>2, <1>4, <2>1, <2>2, <2>8
<1>11. ASSUME NEW id \in Ids, ChangedElsewhere(id) PROVE ConsoleInv'
  <2>1. UNCHANGED pageVars /\ (RowWritten(id) \/ RowDeleted(id))
    BY <1>11 DEF ChangedElsewhere
  <2>2. AccountsInv' /\ TableGrows
    BY <2>1, ElsewhereKeeps, WritesGrow DEF ConsoleInv
  <2>3. UNCHANGED <<list, accounts, loaded>> /\ (Unmounted => Unmounted')
    BY <2>1 DEF pageVars, Unmounted
  <2>4. LandedInv'
    BY <1>1, <2>2, <2>3, LandedStill DEF ConsoleInv
  <2> QED BY <1>2, <2>2, <2>3, <2>4
<1> QED BY <1>5, <1>6, <1>7, <1>8, <1>9, <1>10, <1>11 DEF RowStep

\* Every step of the console preserves the invariant.
LEMMA ConsoleStep ==
  ASSUME ConsoleInv, [ConsoleNext]_consoleVars
  PROVE  ConsoleInv'
<1>1. CASE UNCHANGED consoleVars
  <2>1. UNCHANGED oauthVars /\ OAuthOnly
    BY <1>1 DEF consoleVars, OAuthOnly
  <2> QED BY <2>1, OAuthFrame, OAuthPageKeeps DEF ConsoleInv
<1>2. CASE UserActs /\ OAuthOnly
  BY <1>2, StartKeeps, CancelKeeps, LinkKeeps, OAuthPageKeeps DEF UserActs, ConsoleInv
<1>3. ASSUME NEW k \in Flows, FlowStep(k) \/ ExpiryFires(k), OAuthOnly PROVE ConsoleInv'
  BY <1>3, DeviceKeeps, LinkKeeps, OAuthPageKeeps DEF ConsoleInv
<1>4. ASSUME NEW k \in Flows, Pushed(k) PROVE ConsoleInv'
  <2>1. rowOf[k] \in SUBSET Ids /\ (\A id \in rowOf[k] : version[id] > 0) /\ ToAccounts(rowOf[k])
    BY <1>4 DEF Pushed, ConsoleInv, LandedInv
  <2> QED BY <2>1, ToAccountsKeeps
<1>5. CASE (LinkArrives \/ CompleteSettles) /\ OAuthOnly
  BY <1>5, LinkKeeps, OAuthPageKeeps DEF ConsoleInv
<1>6. CASE ToAccounts({})
  BY <1>6, ToAccountsKeeps
<1>7. CASE ToOAuth
  BY <1>7, ToOAuthKeeps
<1>8. CASE /\ \/ OauthList \/ refreshAccounts
              \/ \E ok \in BOOLEAN : ListSettles(ok)
              \/ \E id \in Ids : RowStep(id) \/ ChangedElsewhere(id)
           /\ AccountsOnly
  BY <1>8, AccountsPageKeeps
<1> QED BY <1>1, <1>2, <1>3, <1>4, <1>5, <1>6, <1>7, <1>8, StoredLands DEF ConsoleNext

\* The console starts on an empty authorization page.
LEMMA ConsoleStarts ==
  ASSUME ConsoleInit
  PROVE  ConsoleInv
<1>1. OAuthInv
  BY OAuthStarts DEF ConsoleInit
<1>2. Unmounted /\ version \in [Ids -> Nat] /\ deleted \subseteq Ids
  BY DEF ConsoleInit, AccountsInit, Unmounted
<1>3. AccountsInv
  BY <1>2, EmptyPage
<1>4. list.at = "none"
  BY <1>2, ListForms DEF Unmounted
<1>5. LandedInv
  BY <1>2, <1>4 DEF ConsoleInit, LandedInv, SavedIsListed, Unmounted
<1> QED BY <1>1, <1>2, <1>3, <1>5 DEF ConsoleInv

\* ConsoleInv is an invariant of the two pages.
THEOREM ConsoleInvariance == ConsoleSpec => []ConsoleInv
<1>1. ConsoleInit => ConsoleInv
  BY ConsoleStarts
<1>2. ConsoleInv /\ [ConsoleNext]_consoleVars => ConsoleInv'
  BY ConsoleStep
<1> QED BY <1>1, <1>2, PTL DEF ConsoleSpec

\* For any number of flows: what the authorization page shows of a device flow
\* is that of the flow it waits for, however late answers of canceled flows are
\* (active in OAuthView.vue).
THEOREM DeviceViewStaysOurs == ConsoleSpec => []DeviceViewIsOurs
<1>1. ConsoleInv => DeviceViewIsOurs
  BY DEF ConsoleInv, OAuthInv
<1> QED BY <1>1, ConsoleInvariance, PTL

\* A success that is reported is that of the last flow, and stored.
THEOREM SuccessesAreEarned == ConsoleSpec => []SuccessIsEarned
<1>1. ConsoleInv => SuccessIsEarned
  BY DEF ConsoleInv, OAuthInv
<1> QED BY <1>1, ConsoleInvariance, PTL

\* A link is shown exactly as long as its own timer runs.
THEOREM LinksHaveTheirTimer == ConsoleSpec => []LinkHasItsTimer
<1>1. ConsoleInv => LinkHasItsTimer
  BY DEF ConsoleInv, OAuthInv
<1> QED BY <1>1, ConsoleInvariance, PTL

\* For any number of rows and any order of answers, a row the page reported as
\* deleted does not come back (deleteAccount waits for the older list).
THEOREM DeletedRowsStayGone == ConsoleSpec => []DeletedStaysGone
<1>1. ConsoleInv => DeletedStaysGone
  BY DEF ConsoleInv, AccountsInv, GoneInv
<1> QED BY <1>1, ConsoleInvariance, PTL

\* When the page is quiet and its last list did not fail, it shows what it
\* refreshed (refreshCredential loads the list again after the one under way).
THEOREM QuietPagesAreCurrent == ConsoleSpec => []QuietPageIsCurrent
<1>1. ASSUME ConsoleInv PROVE QuietPageIsCurrent
  <2>1. ~Loading /\ ~failed => \A id \in Ids : told[id] = 0
    BY <1>1 DEF ConsoleInv, AccountsInv, ToldInv
  <2> QED BY <2>1 DEF QuietPageIsCurrent
<1> QED BY <1>1, ConsoleInvariance, PTL

\* The row of the device flow that opened the accounts page is listed as soon
\* as a list is shown, unless it was deleted since.
THEOREM SavedRowsAreListed == ConsoleSpec => []SavedIsListed
<1>1. ConsoleInv => SavedIsListed
  BY DEF ConsoleInv, LandedInv
<1> QED BY <1>1, ConsoleInvariance, PTL
=============================================================================
