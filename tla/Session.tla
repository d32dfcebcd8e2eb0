------------------------------ MODULE Session ------------------------------
(***************************************************************************)
(* Local sessions: the refresh tokens kept in Redis (middleware/redis), the *)
(* auth handlers that create, rotate and delete them (modules/auth), and   *)
(* one browser whose tabs share a cookie jar and localStorage and run the  *)
(* axios interceptors that refresh an expired access token.                *)
(*                                                                         *)
(* Refresh tokens are numbers in the order they are generated (random      *)
(* values never repeat); an access token is abstracted to the user it      *)
(* names, and may be found expired at any time.                            *)
(***************************************************************************)
EXTENDS Naturals, FiniteSets

CONSTANTS
  Tabs,      \* tabs of the browser
  Calls,     \* slots for the API calls a tab makes
  TabOf,     \* the tab a call slot belongs to
  Users,
  NoUser, NoCall,
  FormTabs,  \* bound: the tabs in which the user logs in and out
  MaxToken,  \* bound: refresh tokens ever generated
  MaxGhosts  \* bound: abandoned requests the server may still get to

ASSUME SessionAssumptions ==
  /\ TabOf \in [Calls -> Tabs]
  /\ FormTabs \subseteq Tabs
  /\ NoUser \notin Users
  /\ NoCall \notin Calls
  /\ MaxToken \in Nat
  /\ MaxGhosts \in Nat

NoToken == 0
Tokens == 1 .. MaxToken

VARIABLES
  sessions,        \* Redis: refresh token -> its user, NoUser when absent
  made,            \* how many refresh tokens have been generated
  isActive,        \* users table: is_active
  cookie,          \* the browser's refresh_token cookie
  local,           \* localStorage: the access token every tab sees
  tabStore,        \* sessionStorage of each tab
  page,            \* what the router of each tab shows
  form,            \* the login or logout request of each tab
  calls,           \* API calls
  refresh,         \* the refresh request a call started
  refreshRequest,  \* the shared promise of a tab: the call that started it
  ghosts,          \* requests the server may still serve though nobody waits
  origin,          \* observation: the login a refresh token descends from
  ended            \* observation: logins that ended, or may have moved on unseen

server == <<sessions, made, origin>>
storage == <<local, tabStore>>
vars == <<sessions, made, isActive, cookie, local, tabStore, page, form, calls,
          refresh, refreshRequest, ghosts, origin, ended>>

Exchange ==
  [kind: {"none", "refresh", "login", "logout"},
   pc: {"idle", "sent", "checked", "rotated", "reply", "arrived"},
   token: Tokens \cup {NoToken},      \* the cookie the request carried
   new: Tokens \cup {NoToken},        \* the token it obtained
   user: Users \cup {NoUser}, remember: BOOLEAN,
   outcome: {"none", "ok", "invalid", "disabled", "missing", "error"}]

NoExchange == [kind |-> "none", pc |-> "idle", token |-> NoToken, new |-> NoToken,
               user |-> NoUser, remember |-> FALSE, outcome |-> "none"]

\* A request leaves with the cookie; the server takes a token for a user,
\* goes on, answers.
Sent(kind, u, remember) ==
  [NoExchange EXCEPT !.kind = kind, !.pc = "sent", !.token = cookie,
                     !.user = u, !.remember = remember]
Obtains(x, t, u) == [x EXCEPT !.new = t, !.user = u]
Goes(x, pc) == [x EXCEPT !.pc = pc]
Reply(x, outcome) == [x EXCEPT !.pc = "reply", !.outcome = outcome]

\* What is left of a request nobody waits for.
Ghost == [kind: {"none", "refresh", "login", "logout"}, token: Tokens \cup {NoToken},
          user: Users \cup {NoUser}]

Call == [pc: {"idle", "sent", "await"}, retried: BOOLEAN, on: Calls \cup {NoCall}]
NoRequest == [pc |-> "idle", retried |-> FALSE, on |-> NoCall]

Live(t) == sessions[t] # NoUser

\* The ghosts once the request x is abandoned too.
Abandon(x) ==
  IF Cardinality(ghosts) < MaxGhosts
  THEN ghosts \cup {[kind |-> x.kind, token |-> x.token, user |-> x.user]}
  ELSE ghosts

Init ==
  /\ sessions = [t \in Tokens |-> NoUser]
  /\ made = 0
  /\ isActive = [u \in Users |-> TRUE]
  /\ cookie = NoToken
  /\ local = NoUser
  /\ tabStore = [tab \in Tabs |-> NoUser]
  /\ page = [tab \in Tabs |-> "login"]
  /\ form = [tab \in Tabs |-> NoExchange]
  /\ calls = [c \in Calls |-> NoRequest]
  /\ refresh = [c \in Calls |-> NoExchange]
  /\ refreshRequest = [tab \in Tabs |-> NoCall]
  /\ ghosts = {}
  /\ origin = [t \in Tokens |-> NoToken]
  /\ ended = {}

-----------------------------------------------------------------------------
(* Redis.                                                                  *)

CreateRefreshToken(u) ==
  /\ made < MaxToken
  /\ made' = made + 1
  /\ sessions' = [sessions EXCEPT ![made + 1] = u]
  /\ origin' = [origin EXCEPT ![made + 1] = made + 1]

\* Mutant: GET and SET without the DEL.
RotateRefreshToken_NoDelete(old) ==
  /\ made < MaxToken
  /\ Live(old)
  /\ made' = made + 1
  /\ sessions' = [sessions EXCEPT ![made + 1] = sessions[old]]
  /\ origin' = [origin EXCEPT ![made + 1] = origin[old]]

\* The Lua script, when the old key exists: one atomic step.
RotateRefreshToken(old) ==
  /\ made < MaxToken
  /\ Live(old)
  /\ made' = made + 1
  /\ sessions' = [sessions EXCEPT ![old] = NoUser, ![made + 1] = sessions[old]]
  /\ origin' = [origin EXCEPT ![made + 1] = origin[old]]

DeleteRefreshToken(t) ==
  /\ sessions' = IF t = NoToken THEN sessions ELSE [sessions EXCEPT ![t] = NoUser]
  /\ UNCHANGED <<made, origin>>

\* The TTL of a key runs out.
SessionExpires(t) ==
  /\ Live(t)
  /\ DeleteRefreshToken(t)
  /\ ended' = ended \cup {origin[t]}
  /\ UNCHANGED <<isActive, cookie, storage, page, form, calls, refresh, refreshRequest, ghosts>>

Ends(t) == IF t = NoToken THEN {} ELSE {origin[t]}

\* An operator disables or deletes a user in the database (external).
UserDisabled(u) ==
  /\ isActive[u]
  /\ isActive' = [isActive EXCEPT ![u] = FALSE]
  /\ UNCHANGED <<server, cookie, storage, page, form, calls, refresh, refreshRequest,
                 ghosts, ended>>

-----------------------------------------------------------------------------
(* Browser storage and routing.                                            *)

\* getAccessToken: localStorage first.
AccessToken(tab) == IF local # NoUser THEN local ELSE tabStore[tab]

ClearSession(tab) ==
  /\ local' = NoUser
  /\ tabStore' = [tabStore EXCEPT ![tab] = NoUser]

SaveSession(tab, u, remember) ==
  /\ local' = IF remember THEN u ELSE NoUser
  /\ tabStore' = [tabStore EXCEPT ![tab] = IF remember THEN NoUser ELSE u]

ReplaceAccessToken(tab, u) ==
  IF local # NoUser
  THEN local' = u /\ UNCHANGED tabStore
  ELSE tabStore' = [tabStore EXCEPT ![tab] = u] /\ UNCHANGED local

\* The router's guard: login is for guests, everything else needs a token.
Navigate(tab) ==
  /\ page' = [page EXCEPT ![tab] = IF AccessToken(tab) = NoUser THEN "login" ELSE "app"]
  /\ page' # page
  /\ UNCHANGED <<server, isActive, cookie, storage, form, calls, refresh,
                 refreshRequest, ghosts, ended>>

\* What an answer's Set-Cookie header leaves in the jar.
CookieAfter(x) ==
  CASE x.kind # "logout" /\ x.outcome = "ok"                  -> x.new
    [] x.kind = "refresh" /\ x.outcome \in {"invalid", "disabled"} -> NoToken
    [] x.kind = "logout"                                      -> NoToken
    [] OTHER                                                  -> cookie

-----------------------------------------------------------------------------
(* Login and logout.                                                       *)

StartLogin(tab, u, remember) ==
  /\ page[tab] = "login" /\ form[tab].pc = "idle"
  /\ form' = [form EXCEPT ![tab] = Sent("login", u, remember)]
  /\ UNCHANGED <<server, isActive, cookie, storage, page, calls, refresh,
                 refreshRequest, ghosts, ended>>

\* AuthService.Login up to the access token: a user who is unknown, whose
\* password is wrong or who is disabled gets an error answer.
LoginChecks(tab) ==
  /\ form[tab].kind = "login" /\ form[tab].pc = "sent"
  /\ \/ /\ isActive[form[tab].user]
        /\ form' = [form EXCEPT ![tab] = Goes(@, "checked")]
     \/ form' = [form EXCEPT ![tab] = Reply(@, "error")]
  /\ UNCHANGED <<server, isActive, cookie, storage, page, calls, refresh,
                 refreshRequest, ghosts, ended>>

\* issueTokensForUser: the session is stored.  Redis may fail, before or after
\* it stored the key.
LoginCreates(tab) ==
  /\ form[tab].pc = "checked"
  /\ \/ /\ CreateRefreshToken(form[tab].user)
        /\ form' = [form EXCEPT ![tab] = Reply(Obtains(@, made + 1, form[tab].user), "ok")]
     \/ /\ CreateRefreshToken(form[tab].user) \/ UNCHANGED server
        /\ form' = [form EXCEPT ![tab] = Reply(@, "error")]
  /\ UNCHANGED <<isActive, cookie, storage, page, calls, refresh, refreshRequest, ghosts, ended>>

StartLogout(tab) ==
  /\ page[tab] = "app" /\ form[tab].pc = "idle"
  /\ form' = [form EXCEPT ![tab] = Sent("logout", NoUser, FALSE)]
  /\ ended' = ended \cup Ends(cookie)
  /\ UNCHANGED <<server, isActive, cookie, storage, page, calls, refresh,
                 refreshRequest, ghosts>>

\* The handler deletes the session the cookie names; it clears the cookie
\* even when Redis fails.
LogoutServes(tab) ==
  /\ form[tab].kind = "logout" /\ form[tab].pc = "sent"
  /\ \/ /\ DeleteRefreshToken(form[tab].token)
        /\ form' = [form EXCEPT ![tab] = Reply(@, "ok")]
     \/ /\ form[tab].token # NoToken
        /\ DeleteRefreshToken(form[tab].token) \/ UNCHANGED server
        /\ form' = [form EXCEPT ![tab] = Reply(@, "error")]
  /\ UNCHANGED <<isActive, cookie, storage, page, calls, refresh, refreshRequest, ghosts, ended>>

FormArrives(tab) ==
  /\ form[tab].pc = "reply"
  /\ cookie' = CookieAfter(form[tab])
  /\ form' = [form EXCEPT ![tab] = Goes(@, "arrived")]
  /\ UNCHANGED <<server, isActive, storage, page, calls, refresh, refreshRequest, ghosts, ended>>

\* auth.js: a good login is saved, whatever became of a logout the tab forgets
\* its access token.  Then the view navigates, through the router's guard.
FormSettles(tab) ==
  /\ form[tab].pc = "arrived"
  /\ form' = [form EXCEPT ![tab] = NoExchange]
  /\ \/ /\ form[tab].kind = "login" /\ form[tab].outcome = "ok"
        /\ SaveSession(tab, form[tab].user, form[tab].remember)
        /\ page' = [page EXCEPT ![tab] = "app"]
     \/ /\ form[tab].kind = "login" /\ form[tab].outcome # "ok"
        /\ UNCHANGED <<storage, page>>
     \/ /\ form[tab].kind = "logout"
        /\ ClearSession(tab)
        /\ page' = [page EXCEPT ![tab] = "login"]
  /\ UNCHANGED <<server, isActive, cookie, calls, refresh, refreshRequest, ghosts, ended>>

\* The answer to a login or logout never comes, or not within axios' timeout.
\* The server may still serve the request.
FormFails(tab) ==
  /\ form[tab].pc \in {"sent", "checked", "reply"}
  /\ form' = [form EXCEPT ![tab] = NoExchange]
  /\ ghosts' = IF form[tab].pc = "reply" THEN ghosts ELSE Abandon(form[tab])
  /\ IF form[tab].kind = "logout"
     THEN ClearSession(tab) /\ page' = [page EXCEPT ![tab] = "login"]
     ELSE UNCHANGED <<storage, page>>
  /\ UNCHANGED <<server, isActive, cookie, calls, refresh, refreshRequest, ended>>

-----------------------------------------------------------------------------
(* API calls and the refresh that a 401 sets off.                          *)

StartCall(c) ==
  /\ page[TabOf[c]] = "app" /\ calls[c].pc = "idle"
  /\ calls' = [calls EXCEPT ![c] = [NoRequest EXCEPT !.pc = "sent"]]
  /\ UNCHANGED <<server, isActive, cookie, storage, page, form, refresh,
                 refreshRequest, ghosts, ended>>

\* A call is rejected.  The dashboard answers any rejection by forgetting the
\* access token and going back to the login page, other views do not.
Rejected(c) ==
  \/ UNCHANGED <<storage, page>>
  \/ ClearSession(TabOf[c]) /\ page' = [page EXCEPT ![TabOf[c]] = "login"]

\* Any answer but a 401, or axios' timeout.
CallEnds(c) ==
  /\ calls[c].pc = "sent"
  /\ calls' = [calls EXCEPT ![c] = NoRequest]
  /\ Rejected(c)
  /\ UNCHANGED <<server, isActive, cookie, form, refresh, refreshRequest, ghosts, ended>>

\* Mutant: every call starts a refresh of its own.
RequestNewAccessToken_EachCall(c) ==
  /\ refresh' = [refresh EXCEPT ![c] = Sent("refresh", NoUser, FALSE)]
  /\ refreshRequest' = [refreshRequest EXCEPT ![TabOf[c]] = c]
  /\ calls' = [calls EXCEPT ![c] = [pc |-> "await", retried |-> TRUE, on |-> c]]

\* The tab's refresh under way is shared; without one, c starts it.
RequestNewAccessToken(c) ==
  IF refreshRequest[TabOf[c]] = NoCall
  THEN /\ refresh' = [refresh EXCEPT ![c] = Sent("refresh", NoUser, FALSE)]
       /\ refreshRequest' = [refreshRequest EXCEPT ![TabOf[c]] = c]
       /\ calls' = [calls EXCEPT ![c] = [pc |-> "await", retried |-> TRUE, on |-> c]]
  ELSE /\ calls' = [calls EXCEPT ![c] = [pc |-> "await", retried |-> TRUE,
                                         on |-> refreshRequest[TabOf[c]]]]
       /\ UNCHANGED <<refresh, refreshRequest>>

\* One refresh for each call, and only while there is a token to replace.
CanRefresh(c) == ~calls[c].retried /\ AccessToken(TabOf[c]) # NoUser

\* The access token is missing or expired: refresh and retry once, or reject.
Unauthorized(c) ==
  /\ calls[c].pc = "sent"
  /\ \/ /\ CanRefresh(c)
        /\ RequestNewAccessToken(c)
        /\ UNCHANGED <<storage, page>>
     \/ /\ ~CanRefresh(c)
        /\ calls' = [calls EXCEPT ![c] = NoRequest]
        /\ Rejected(c)
        /\ UNCHANGED <<refresh, refreshRequest>>
  /\ UNCHANGED <<server, isActive, cookie, form, ghosts, ended>>

Answers(c, outcome) ==
  refresh' = [refresh EXCEPT ![c] = Reply(@, outcome)]

\* AuthHandler.Refresh and the rotation.  Redis may fail before the script
\* runs, or lose the answer of a script that ran.
RefreshRotates(c) ==
  LET old == refresh[c].token
  IN /\ refresh[c].pc = "sent"
     /\ \/ /\ old = NoToken
           /\ Answers(c, "missing")
           /\ UNCHANGED <<server, ended>>
        \/ /\ old # NoToken
           /\ ~Live(old)
           /\ Answers(c, "invalid")
           /\ UNCHANGED <<server, ended>>
        \/ /\ old # NoToken
           /\ RotateRefreshToken(old)
           /\ refresh' = [refresh EXCEPT ![c] = Goes(Obtains(@, made + 1, sessions[old]), "rotated")]
           /\ UNCHANGED ended
        \/ /\ old # NoToken
           /\ Answers(c, "error")
           /\ UNCHANGED <<server, ended>>
        \/ /\ old # NoToken
           /\ RotateRefreshToken(old)
           /\ Answers(c, "error")
           /\ ended' = ended \cup Ends(old)
     /\ UNCHANGED <<isActive, cookie, storage, page, form, calls, refreshRequest, ghosts>>

\* The rest of AuthService.Refresh: the session has already been rotated.
RefreshAuthorizes(c) ==
  /\ refresh[c].pc = "rotated"
  /\ \/ /\ isActive[refresh[c].user]
        /\ Answers(c, "ok")
        /\ UNCHANGED ended
     \/ /\ ~isActive[refresh[c].user]
        /\ Answers(c, "disabled")
        /\ UNCHANGED ended
     \/ /\ Answers(c, "error")
        /\ ended' = ended \cup Ends(refresh[c].new)
  /\ UNCHANGED <<server, isActive, cookie, storage, page, form, calls, refreshRequest, ghosts>>

RefreshArrives(c) ==
  /\ refresh[c].pc = "reply"
  /\ cookie' = CookieAfter(refresh[c])
  /\ refresh' = [refresh EXCEPT ![c] = Goes(@, "arrived")]
  /\ UNCHANGED <<server, isActive, storage, page, form, calls, refreshRequest, ghosts, ended>>

\* Mutant: only the call that started the refresh hears how it ended.
Settle_OwnCall(c, ok) ==
  /\ refresh' = [refresh EXCEPT ![c] = NoExchange]
  /\ refreshRequest' = [refreshRequest EXCEPT ![TabOf[c]] = NoCall]
  /\ calls' = [calls EXCEPT ![c] = IF ok THEN [@ EXCEPT !.pc = "sent", !.on = NoCall]
                                        ELSE NoRequest]

\* The promise settles: every call that waits for it goes on.
Settle(c, ok) ==
  /\ refresh' = [refresh EXCEPT ![c] = NoExchange]
  /\ refreshRequest' = [refreshRequest EXCEPT ![TabOf[c]] = NoCall]
  /\ calls' = [d \in Calls |->
                 IF calls[d].pc = "await" /\ calls[d].on = c
                 THEN IF ok THEN [calls[d] EXCEPT !.pc = "sent", !.on = NoCall] ELSE NoRequest
                 ELSE calls[d]]

RefreshSettles(c) ==
  /\ refresh[c].pc = "arrived"
  /\ Settle(c, refresh[c].outcome = "ok")
  /\ IF refresh[c].outcome = "ok"
     THEN ReplaceAccessToken(TabOf[c], refresh[c].user)
     ELSE ClearSession(TabOf[c])
  /\ UNCHANGED <<server, isActive, cookie, page, form, ghosts, ended>>

\* The refresh is not answered in time: the tab gives up, the server may not.
RefreshFails(c) ==
  /\ refresh[c].pc \in {"sent", "rotated", "reply"}
  /\ Settle(c, FALSE)
  /\ ClearSession(TabOf[c])
  /\ ghosts' = IF refresh[c].pc = "sent" THEN Abandon(refresh[c]) ELSE ghosts
  /\ ended' = ended \cup Ends(refresh[c].token)
  /\ UNCHANGED <<server, isActive, cookie, page, form>>

\* The server gets to a request nobody waits for.
GhostServed(g) ==
  /\ g \in ghosts
  /\ ghosts' = ghosts \ {g}
  /\ \/ g.kind = "refresh" /\ g.token # NoToken /\ RotateRefreshToken(g.token)
     \/ g.kind = "logout" /\ DeleteRefreshToken(g.token)
     \/ g.kind = "login" /\ isActive[g.user] /\ CreateRefreshToken(g.user)
     \/ UNCHANGED server
  /\ UNCHANGED <<isActive, cookie, storage, page, form, calls, refresh, refreshRequest, ended>>

-----------------------------------------------------------------------------
Next ==
  \/ \E tab \in Tabs :
       \/ /\ tab \in FormTabs
          /\ \/ \E u \in Users, remember \in BOOLEAN : StartLogin(tab, u, remember)
             \/ StartLogout(tab)
       \/ LoginChecks(tab) \/ LoginCreates(tab) \/ LogoutServes(tab)
       \/ FormArrives(tab) \/ FormSettles(tab) \/ FormFails(tab) \/ Navigate(tab)
  \/ \E c \in Calls :
       \/ StartCall(c) \/ CallEnds(c) \/ Unauthorized(c)
       \/ RefreshRotates(c) \/ RefreshAuthorizes(c) \/ RefreshArrives(c)
       \/ RefreshSettles(c) \/ RefreshFails(c)
  \/ \E t \in Tokens : SessionExpires(t)
  \/ \E u \in Users : UserDisabled(u)
  \/ \E g \in ghosts : GhostServed(g)

Spec == Init /\ [][Next]_vars

\* axios' timeout always fires, and a settled promise runs its continuations.
Fairness ==
  \A c \in Calls :
    WF_vars(CallEnds(c)) /\ WF_vars(RefreshFails(c)) /\ WF_vars(RefreshSettles(c))

FairSpec == Spec /\ Fairness

-----------------------------------------------------------------------------
(* Properties                                                              *)

\* Every variable holds a value of its kind.
TypeOK ==
  /\ sessions \in [Tokens -> Users \cup {NoUser}]
  /\ made \in 0 .. MaxToken
  /\ isActive \in [Users -> BOOLEAN]
  /\ cookie \in Tokens \cup {NoToken}
  /\ local \in Users \cup {NoUser}
  /\ tabStore \in [Tabs -> Users \cup {NoUser}]
  /\ page \in [Tabs -> {"login", "app"}]
  /\ form \in [Tabs -> Exchange]
  /\ calls \in [Calls -> Call]
  /\ refresh \in [Calls -> Exchange]
  /\ refreshRequest \in [Tabs -> Calls \cup {NoCall}]
  /\ ghosts \subseteq Ghost
  /\ origin \in [Tokens -> Tokens \cup {NoToken}]
  /\ ended \subseteq Tokens \cup {NoToken}

\* A login has at most one live session, however many tabs refresh, log out
\* or give up at once: the rotation replaces a session, it never copies one.
OneSessionPerLogin ==
  \A s, t \in Tokens : Live(s) /\ Live(t) /\ origin[s] = origin[t] => s = t

\* What makes it inductive: live tokens, and the logins they descend from, are
\* among the tokens generated so far, so a new token starts a new login.
SessionInv ==
  /\ TypeOK
  /\ \A t \in Tokens : Live(t) => t <= made /\ origin[t] <= made
  /\ OneSessionPerLogin

\* Within one tab the shared refresh request keeps the tab from losing its own
\* session: Redis refuses a refresh token only if its login expired, was logged
\* out, or had a refresh fail after the rotation or go unanswered.
TabKeepsItsSession ==
  [][\A c \in Calls :
       refresh[c].pc = "sent" /\ refresh'[c].outcome = "invalid"
         => Ends(refresh[c].token) \subseteq ended]_vars

\* Every API call settles: a call that joined the refresh of another one does
\* not wait for a promise nobody resolves, whichever of them fails, and a call
\* that was retried is not retried again.
EveryCallSettles ==
  \A c \in Calls : calls[c].pc # "idle" ~> calls[c].pc = "idle"

\* Logging out removes the session (docs: a logout deletes the session): once
\* a logout has been answered "ok", the login it ended has no live session.
LogoutDeletesSession ==
  \A tab \in Tabs :
    form[tab].kind = "logout" /\ form[tab].outcome = "ok" /\ form[tab].token # NoToken
      => \A t \in Tokens : Live(t) => origin[t] # origin[form[tab].token]
-----------------------------------------------------------------------------
(* The inductive invariant behind TabKeepsItsSession, for a browser with   *)
(* one tab.                                                                *)

\* A token that Redis takes, or one of a login that ended.
Fine(t) == Live(t) \/ origin[t] \in ended

\* The old token is rotated and the answer with the new one is on its way.
Rotating(x) == x.pc \in {"rotated", "reply"} /\ x.new # NoToken

\* The answer of a login with a new token is on its way.
Fresh(x) == x.kind = "login" /\ x.pc = "reply" /\ x.new # NoToken

\* A refresh leaves with a fine token and comes back with a fine one; in
\* between it is the one its tab's promise is about.
RefreshOf(c) ==
  /\ refresh[c].token <= made /\ refresh[c].new <= made
  /\ refresh[c].pc # "idle" => refreshRequest[TabOf[c]] = c /\ refresh[c].kind = "refresh"
  /\ refresh[c].pc = "sent" =>
       /\ refresh[c].new = NoToken /\ refresh[c].outcome = "none"
       /\ refresh[c].token # NoToken => Fine(refresh[c].token)
  /\ refresh[c].pc = "reply" => refresh[c].outcome # "none"
  /\ Rotating(refresh[c]) =>
       /\ refresh[c].token # NoToken /\ Fine(refresh[c].new)
       /\ origin[refresh[c].new] = origin[refresh[c].token]
       /\ refresh[c].outcome \notin {"ok", "disabled", "invalid", "none"}
            => origin[refresh[c].token] \in ended

\* A login comes back with a fine token; a logout names an ended login.
FormOf(tab) ==
  /\ form[tab].token <= made /\ form[tab].new <= made
  /\ form[tab].pc # "idle" => form[tab].kind \in {"login", "logout"}
  /\ form[tab].pc = "checked" => form[tab].kind = "login"
  /\ form[tab].pc \in {"sent", "checked"} => form[tab].new = NoToken
  /\ form[tab].kind = "login" => form[tab].user \in Users
  /\ form[tab].kind = "logout" => Ends(form[tab].token) \subseteq ended
  /\ Fresh(form[tab]) => Fine(form[tab].new)

\* What nobody waits for can only rotate or delete tokens of ended logins.
GhostOf(g) ==
  /\ g.token <= made
  /\ g.kind \in {"refresh", "logout"} => Ends(g.token) \subseteq ended

\* The cookie is fine, or the token that an answer on its way will replace.
CookieInv ==
  /\ cookie <= made
  /\ \/ cookie = NoToken
     \/ Fine(cookie)
     \/ \E c \in Calls : Rotating(refresh[c]) /\ refresh[c].token = cookie

\* Nobody else holds the token that a login is about to bring.
Apart ==
  \A tab \in Tabs : Fresh(form[tab]) =>
    /\ form[tab].new # cookie
    /\ \A c \in Calls : refresh[c].pc # "idle" =>
         form[tab].new # refresh[c].token /\ form[tab].new # refresh[c].new

TabInv ==
  /\ SessionInv
  /\ \A c \in Calls : RefreshOf(c)
  /\ \A tab \in Tabs : FormOf(tab)
  /\ \A g \in ghosts : GhostOf(g)
  /\ CookieInv
  /\ Apart
=============================================================================
