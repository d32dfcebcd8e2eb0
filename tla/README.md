# A TLA+ model of the AI gateway

This directory models the protocols of the gateway in `src/`: who may use which
credential, session, login flow and API key when several API processes, browser
tabs, Redis, PostgreSQL and an OAuth provider interleave and fail. Every module
is translated from the Go and JavaScript sources; `PROJECT.json` maps each
definition to the lines it stands for.

Model-check a run with `tlc -config <cfg> <module>`, check the proofs of a module
with `tlapm <module>.tla`.

## 1. The system

Three Go processes (API, gateway, upstream) and a Vue console. The API serves
the console and the chat clients, keeps users, OAuth credentials and API keys in
PostgreSQL and refresh tokens and login flows in Redis. It reaches the outside
world only through the upstream service (gRPC).

| Part | State it keeps | Operations | Interacts with | Module |
| --- | --- | --- | --- | --- |
| `modules/oauth`: stored credentials | `oauth_infos` rows | RefreshToken, Delete, OauthList, SaveToken | PostgreSQL row locks, upstream service, provider | `OAuthRefresh` |
| `modules/oauth`: authorization | login flows in Redis (state or device id) | Login, Callback, LoginDeviceFlow, CallbackDeviceFlow | Redis, upstream service, provider, `oauth_infos` | `OAuthLogin` |
| `modules/auth`, `middleware/redis/refresh_token.go` | refresh tokens in Redis | Login, Register, Refresh (rotate), Logout | users table, Casbin, the browser's cookie | `Session`, `UserRoles` (Register) |
| console: `axios/service.js`, `services/session.js`, `services/auth.js`, `router` | cookie jar, localStorage, sessionStorage, one shared refresh promise per tab | login, logout, API calls, refresh and retry on 401, navigation guard | auth handlers | `Session` |
| `modules/apikey`, `modules/external_apikey` | `api_keys`, the two binding tables, external keys | create, list, update, replace accounts, delete; the gate of chat requests | `oauth_infos` (composite foreign keys) | `ApiKeys` |
| `modules/chat`, `chat/route`, `upstreamserver/chat.go` | one stream per request | Chat, ChatStream, ChatNonStream, relay, aggregation | gRPC streams, the provider's body, the client's connection | `ChatStream`, `StreamAggregate` |
| `middleware/casbin`, `modules/user` | policies and grouping rules (table and memory), users | bootstrap administrator, synchronise a user's role | PostgreSQL | `UserRoles` |
| `upstreamserver`, `directory/upstream`, `cmd/upstream` | the process's life, a handler with its timers per call | ExchangeCode, RefreshToken, Verifier, GetDeviceFlowCode, PollDeviceFlow; run, Serve, graceful and forced stop | gRPC, provider, the handlers of the API | `UpstreamCalls` |
| `cmd/gateway` | none | reverse proxy with two response header timeouts | browser, API | `UpstreamCalls` (its clock) |
| `cmd/api` | the stage of its start, the enforcer's memory | connect, bootstrap, load and seed policies, discover, listen; death and restart | PostgreSQL, Redis, upstream service | `Deployment` |
| console: `OAuthView.vue`, `services/oauth.js` | a device flow, a link with its timer | start, cancel, complete | the OAuth handlers | `OAuthView` |
| console: `AuthorizedAccountsView.vue` | the list, one list request, the buttons of each row | list, refresh, delete | the OAuth handlers | `AccountsView`, with `OAuthView` in `Console` |
| `middleware/jwt`, `modules/translator`, key pages of the console | none, or forms | sign and check, translate, edit | all of the above | see section 7 |

What is hard: a provider that spends a refresh token before the row is written;
two instances and a row lock held across a network call; a deadline that fires
while the call is still on its way; a process that dies in between; several
tabs that share one cookie but not one refresh promise; completions of a login
flow that arrive twice, late, or for someone else's flow; a producer goroutine
and a handler that must both end whichever of them fails first; replacements of
a key's scope that cross the cascade of a deleted account; an enforcer whose
memory no other instance updates; seven timeouts, one inside the other, that
must fire in the right order; a stop that has to drain a poll of fifteen
minutes; a start that dies between a delete and an insert; answers that reach a
page after it has moved on. `PROJECT.json` lists these under `hazards`,
each at its line, with the properties that would catch it going wrong.

What makes each part correct:

- **credentials**: a refresh works on the credential its row stores; a token is
  lost only through an explicit failure; identity and owner never change;
- **authorization**: a flow is consumed once, by its starter, and the credential
  goes to the starter;
- **sessions**: a login has one live session, a tab does not lose its own, every
  call settles;
- **keys**: a scope is what was last asked for, bindings do not dangle or cross
  owners, a chat stays within the scope;
- **chat**: what looks like a complete answer is one, and everything ends;
- **roles**: the claims are the user's role, and the bootstrap name is safe;
- **calls**: whoever waits, waits longer than what it waits for; a stop loses no
  rotated token; the status names the true cause;
- **processes**: every state a failed start leaves behind is one to start from;
- **pages**: an answer counts for the flow that asked, a deleted row stays away,
  and no button stays disabled.

## 2. Plan

Done, in this order:

1. `OAuthRefresh` with the abstract `CredentialVault`, proofs in `OAuthRefreshProofs`;
2. `Session` (server and browser in one module, because the races are between
   them), proofs in `BrowserProofs`;
3. `OAuthLogin` with the abstract `OneTimeTicket`, proofs in `OAuthLoginProofs`;
4. `ChatStream` (upstream handler, gRPC stream, goroutine and HTTP handler
   composed), proofs in `ChatStreamProofs`;
5. `ApiKeys`, proofs in `ApiKeysProofs`;
6. `StreamAggregate`, the consumer of what `ChatStream` relays, proofs in
   `StreamAggregateProofs`;
7. `UserRoles`, proofs in `UserRolesProofs`.
8. `UpstreamCalls` (the clocks of a call from the gateway to the provider, the
   poll loop and the stop of the upstream process) and `Deployment`, which
   composes it with the start and death of the API, proofs of both in
   `DeploymentProofs`;
9. `OAuthView` and `AccountsView`, composed in `Console`, proofs in `BrowserProofs`
   too (the two specifications share no variable, only the browser).

Left, in this order:

1. what a logout does guarantee for every number of tabs, as a complement to the
   finding of `session_logout`;
2. the key pages (`ApiKeysView.vue`, `ExternalApiKeysView.vue`), whose requests
   `ApiKeys` has from the server's side.

## 3. The modules and the code

Comments in each module name the functions its actions stand for. A program
counter (`pc`) marks every point at which another actor may get in between: a
database statement, a Redis command, an RPC, a channel operation or an answer
in flight. Variables marked "observation" are read by properties only, never by
a guard.

**OAuthRefresh.** `rows` and `lock` are the table and PostgreSQL's row locks,
`req` the requests, `status` the provider's view of each refresh token. A
refresh is StartRefresh, the locked read (`GetOwnedTokenForUpdate`), the call,
the provider's answer, the checks of `validateRefreshedIdentity`, the update and
the commit. The deadline (`RefreshExpires`), a crash of the instance (which
rolls back all of its transactions) and a call whose caller has gone
(`orphans`) can hit between any two of them. The provider is external: it
rotates the token or leaves it, may refuse, err, or answer for another identity.
`CredentialVault` is the promise: one atomic step per refresh. The mapping hides
an exchange until its commit or its rollback.

**OAuthLogin.** A flow in Redis has a starter; a completion consumes it by
GETDEL (state) or by GET and compare-and-delete (device id), polls or takes the
code it was given, exchanges it, verifies the identity and inserts the row. Any
user presents any state, device id and code. What a completion is answered is
left out; which of its effects remain is not. `OneTimeTicket` is the promise of
the flows.

**Session.** `sessions` is Redis; `cookie`, `local` and `tabStore` are the
browser; `form`, `calls` and `refresh` are the requests. Rotation is one atomic
step (the Lua script of `refresh_token.go`), the lookup of the user behind it is
another. A request that the browser gave up on may still be served (`ghosts`).
An answer first reaches the browser (cookie) and only then the script (storage,
promise).

**ChatStream.** Four actors: the upstream handler (`upPc`), the goroutine of
`ChatService.ChatStream` (`prodPc`), the handler's select loop (`handPc`) and the
surroundings (client, provider's body, connection). The channels are modelled by
what they carry: `respchan` is unbuffered, so a send and its receive are one
step; `errchan` holds one error; closing is a step of its own per channel, in
the code's order.

**StreamAggregate.** `streamtoNonStream` line by line: data lines that are joined
until a blank line, items collected by index, the first final event, the
completion of its output, and the HTTP status of every failure. Of the relay
only its verdict is left (a body that ends without a final event is an error).

**ApiKeys.** Transactions of several statements at READ COMMITTED: `bindings` is
what is committed, `gone` and `held` what a transaction has deleted and inserted.
`keyLock` is the FOR UPDATE lock of a key; an INSERT of bindings takes KEY SHARE
on its targets one after the other, which a DELETE of a target waits for and the
other way around.
`refreshing` marks rows that a credential refresh holds. `DeadlockDetected`
aborts one of two transactions that wait for each other. The gate of a chat is
two reads without a transaction.

**UserRoles.** Every enforcer call of `AuthorizationForUser` is a step on the
instance's memory and, for the writing ones, on the shared table. Instances
start (bootstrap user, then policies into memory), crash and start again;
`role_code` is changed by an operator only.

**UpstreamCalls.** `req` is a request of the API with the ticks left on the
deadline of its flow or service (`left`) and of its current Directory call
(`rpc`), the ticks it has spent in Redis (`redis`) and its `age` at the gateway.
A callback and a device completion are in Redis before anything else (`PopFlow`,
`popDeviceFlow`), a device code is kept there before it is answered
(`storeDeviceFlow`), all three under the request's context, which has no
deadline: only go-redis gives up (`RedisLimit`). `srv` is the handler that serves the call,
in an HTTP request or in the sleep between two polls; `up` is the upstream
process. `Tick` lets all timers run, but not past one that has run out: its
reaction comes first, as the runtime's timers do up to scheduling. A failure
travels as in the code: outcome of the provider, gRPC code
(`exchangeErrorCode`, `deviceHTTPError`, the verifier's), error of the Directory,
HTTP status. `answers` keeps the statuses of the last step with their cause.
A poll (`PollDeviceFlow`) alternates HTTP requests and sleeps under its own
limit; SIGTERM withdraws health, drains, and cuts what is left at the shutdown
timeout. The environment decides on outcomes, disconnects, signals and crashes.

**Deployment.** Extends `UpstreamCalls` by the API: the stages of `run` in order,
the permissions in the Casbin table that a start may find half-written (also
those of an older version), what the enforcer has of them in memory, and the
death of the process at any point, which cancels all its calls. The seeding is
the loop of `SeedDefaultPolicies`, statement by statement: a role is skipped, or
cleared and then granted its permission, an error ends the start, and after the
last role the start goes on without looking again. Requests arrive while the API
serves.

**OAuthView, AccountsView, Console.** The reactive state of the two pages, field
by field. Each `await` ends in an action of its own, so answers arrive late, out
of order, or after a cancel or a restart. In `OAuthView` the flows are numbered;
`ctl` is `deviceController`, `phase` where each `startDevice` stands. In
`AccountsView` a row is a version number; `list` is the one shared list request
and `queue` the refreshes that wait for it to load again afterwards; the
continuations of one promise run in the order in which they were attached.
`Console` mounts one page at a time and lets a flow's credential become a row.

## 4. The runs

| Run | Question | Bounds |
| --- | --- | --- |
| `refresh` | can refreshes, deletes, logins, deadlines, crashes and late calls make a refresh work on a stale credential, lose a token silently, mix identities or touch another user's row? Does the transaction implement the atomic vault, and does every refresh and delete end? | 2 requests, 2 users, 2 accounts, 1 row, 3 tokens |
| `refresh_reauthorize` (violation) | does authorizing again repair a rejected credential? | 1 user, 1 account |
| `session_tab` | can a login grow into two sessions, a tab lose its own session to its own concurrent calls, and does every call settle? | 1 tab, 2 calls, 2 tokens, 1 abandoned request; several tabs by the theorem `LoginHasOneSession` |
| `session_logout` (violation) | does a logout delete the session? | 1 tab, 1 call |
| `login_flows` | are credentials the starter's, are flows consumed once, and does every completion end? | 2 requests, 2 users, 2 accounts, 2 flows |
| `deployment` | do the timeouts of gateway, API, Directory and server fire in an order in which every caller gets its true answer, as long as Redis is fast enough? Does a stop end in time and cut polls only, and does every request end? Does the API come up again with exact permissions, whatever an aborted start left? | 2 requests, 2 roles; HTTP request 1 tick, call 1, service 1, interval 1, poll 3, shutdown 2, Redis 1, gateway 4 and 5 |
| `console` | can a late answer touch a flow or a link it does not belong to, bring a deleted account back or leave an old list? Does a button stay disabled? | 2 flows, 2 accounts, 2 versions of a row |
| `stream` | can a truncated answer look complete, an event be skipped, or a healthy stream be reported as failed? Does everything end, whatever ends first? | 3 lines, window 1 |
| `keys` | do scopes merge or bindings dangle? Do chats leave the scope when there are accounts to choose among? Is every request answered, deadlocks included? | 2 requests, 2 users, 2 accounts, 1 API key |
| `aggregate` | is a 200 the whole answer, and is every refusal caused? | 4 events, indexes -1 to 2, 2 contents |
| `roles` | does the synchronisation heal, and name only roles asked for? Can anybody register the bootstrap name? | 2 instances, 2 calls, 2 names, 2 roles; the role of one user changes |
| `roles_claims` (violation) | are the claims always exactly the role? | 1 instance, 2 calls |

Why the bounds are enough to be interesting: each hazard needs two actors on one
object, and every instance has two that can meet on it, with a second object or
user to confuse it with where ownership matters. Tokens, rows and flows are
numbered and never used twice, so what matters is that there is room for a
predecessor and a successor. Request slots are reused, so long sequences of
requests occur. A window of one makes the gRPC stream full as soon as a message
is under way. Four events are enough for two items, out of order or repeated, an
ignored event and a final one. In `keys` one user owns
both accounts there are to bind, and the other tries to use them, so that a scope
can be replaced by another, a chat has a choice, and an insert waits with a row
lock in hand. The run has no external key: it would differ from an account only
in never being refreshed or chatted with, and a third target takes the liveness
check out of reach. The theorems hold for every number of both kinds. Symmetry is used on
contents (`aggregate`), instances and calls (`roles`), which the run treats alike,
and on no run with a liveness property.

In `deployment` a tick is what one HTTP request of the upstream server may take,
and the numbers are small ones that keep the order of the defaults the properties
rest on (`TimeoutAssumptions`): 8 s for an HTTP request before the 10 s of a
drain, 10 s of a call and 15 s of a service together before the gateway's 30 s,
15 min of a poll before the gateway's 16 min. What these leave over is
`RedisSlack`, just under 5 s of a callback and a minute of a device completion.
The run lets Redis use all of it. go-redis may take longer in the code, and
`GatewayOutwaits` promises nothing then: with `RedisLimit = 2` and the premise on
`redis` taken out of the property TLC finds the gateway giving up first. A call
has the length of an HTTP request and of a service here, so that two deadlines of
a request run out together and either is the one that fires; the theorems cover
every other length. With these numbers a
poll sleeps and asks twice, a drain meets a poll in every state, and a poll can
wait longer for its server than an HTTP request may take. In `console` the second
flow is the one the answers of the first must not touch, and the second version
of a row is what an old list does not show. `refresh` has one row, which any of
the users may own and both requests work on, because rows only meet in a
request's choice of one; a second row takes the liveness check out of reach. The
theorems hold for any number of rows, which leaves `EveryRequestEnds` with one.

The inductive invariants of section 6 are not among the runs' properties: the
proofs establish them for every instance.

`stream` does not check for deadlock: a chat request really ends, and `WindsDown`
asks the stronger question whether it ends properly. `StreamAggregate` has a
stuttering step (`Terminated`) for the answered request; in the other modules
there is always a next request, and deadlock is checked.

**Findings.** Three runs show a disagreement:

- `refresh_reauthorize`: a rejected refresh tells the user to reauthorize, but
  `SaveToken` is a plain insert and fails on the unique index while the dead row
  is there; the newly granted credential is dropped.
- `session_logout`: a logout deletes the key named by its cookie. If a refresh
  rotates that key first, the rotated session survives a logout that answered
  success, although the docs say that a logout deletes the session.
- `roles_claims`: of two calls that find a user's role missing in memory, one can
  delete between the other's add and its read, so the other returns no role.
  `AloneIsExact` and `ClaimsWereAsked` say what does hold.

Every property of a passing run has a mutant: a plausible bug of the code (a
lock not taken, a check left out, a step moved) under which TLC finds it
violated. They stand before the definitions they replace, named after them and
after what is wrong (`RotateRefreshToken_NoDelete`), and no specification uses
them.

## 5. Fairness, and why the code justifies it

- `EveryRequestEnds` (run `refresh`): weak fairness of the deadline
  (`context.WithTimeout` around the whole refresh), strong fairness of the delete
  because PostgreSQL queues the waiters of a row lock. Nothing is assumed of the
  provider.
- `EveryCallSettles` (`session_tab`): weak fairness of what ends a call (axios has
  a timeout) and of the continuations of a settled promise.
- `EveryCompletionEnds` (`login_flows`): a flow's expiry passes and the deadlines
  of the RPCs fire. No human is assumed to approve anything.
- `WindsDown` (`stream`): goroutines run, a cancellation travels, and the
  provider's header arrives or the transport's header timeout fires. Nothing is
  assumed of the body: a provider may keep it open for ever.
- `EveryKeyRequestEnds` (`keys`): statements end; waiters of a row lock are queued
  (strong fairness of the three statements that wait); the deadlock detector
  runs; a refresh that holds an account's row ends, which is what `refresh`
  shows.
- `EveryRequestEnds` (`deployment`): a timer that has run out gets its
  reaction, that of go-redis included,
  a drain that is done or over ends, and time passes (strong fairness of `Tick`,
  which other steps may hold up again and again, but not for ever). Nothing is
  assumed of the provider, the user's approval or the processes.
- `ServesAgain` (`deployment`): in addition a start goes on. That starts and
  deaths end, and that the upstream service stays up, are premises of the
  property, not fairness.
- `WaitsEnd` (`console`): every request the pages make settles, because axios has
  a timeout for it (16 min for a device completion), and then its continuation
  runs.

The remaining runs check safety only and assume no fairness.

## 6. What is proved

For every value of the constants, under the named assumptions
`RefreshAssumptions`, `RowAssumption`, `SessionAssumptions`, `LoginAssumptions`,
`FlowAssumption`, `VersionAssumption`, `StreamAssumptions`, `AggregateAssumptions`, `KeyAssumptions`,
`RoleAssumptions` and `TimeoutAssumptions` (the placeholders are no members of
the sets, the bounds are numbers, slots belong to instances, tabs or owners, and
the timeouts have the order of the configuration's defaults; TLC evaluates them
in every run):

| Module | Theorems |
| --- | --- |
| `OAuthRefreshProofs` | `Invariance` (`IInv`), `TypeCorrect`, `RefreshNeverStale`, `StoredTokensUsable`, `IdentitySafe`, `RejectionsAreJust`, `RowsAreTheOwners` (action property), `LossesAreCounted` (`LostInv`), `RefreshImplementsVault` (refinement) |
| `BrowserProofs`, sessions | `SessionInvariance`, `LoginHasOneSession`, `SessionTypes`; for one tab `TabInvariance` and `TabsKeepTheirSession` (action property) |
| `BrowserProofs`, pages | `ConsoleInvariance`, `DeviceViewStaysOurs`, `SuccessesAreEarned`, `LinksHaveTheirTimer`, `DeletedRowsStayGone`, `QuietPagesAreCurrent`, `SavedRowsAreListed` |
| `OAuthLoginProofs` | `LoginInvariance`, `CredentialsAreTheStarters`, `FlowsAreTickets` (refinement) |
| `ChatStreamProofs` | `StreamInvariance`, `StreamsEndHonestly`, `StreamsHaveNoGap`, `DoneFollowsAll`, `ErrorsAreJust` |
| `ApiKeysProofs` | `KeyInvariance`, `ReplacementsDoNotMerge`, `BindingsAreSound`, `ChatsStayInScope` |
| `UserRolesProofs` | `RoleInvariance`, `SynchronisationHeals`, `ClaimsAreAskedFor`, `BootstrapNameStaysSafe` |
| `StreamAggregateProofs` | `AggregateInvariance`, `AnswersAreWhole`, `RefusalsHaveCause` |
| `DeploymentProofs` | `DeploymentInvariance`, `GatewayWaitsLongest`, `StopsAreClean`, `AnswersAreJust`, `PoliciesAreExact`, `DeploymentImplementsCalls` (refinement) |

Each proof has the same shape: an inductive invariant, a lemma per action, one
step per conjunct the action can disturb, and the temporal theorem at the end.
Why the properties need a strengthening:

- `IInv`: that the stored token is usable rests on the lock (`LockInv`), on what
  the transaction holds in memory (`ReadInv`), on no token being in two rows
  (`TokenInv`), and on the successor of a token under exchange being known to
  that exchange alone (`RotatedInv`). `RejectionIsJust` follows from
  `RejectedInv`: a refusal on its way back is a just one.
- The refinement of `CredentialVault`: an exchange that the provider has made and
  no commit has stored (`Exchanging`, `Unstored`) has not happened yet for the
  vault. The commit is then the vault's refresh, a rollback, a crash or a lost
  answer its loss, a delete its delete, and every other step a stutter. `IInv`
  gives what the guards of the vault's steps ask for; `LostInv` adds that no
  token is lost twice, so that a loss is a step of the vault and not a repetition.
- `SessionInv`: the tokens and logins so far are numbered up to `made`, so a new
  token starts a new login.
- `TabInv`: a token is fine when Redis takes it or its login has ended. A refresh
  leaves with a fine token, because the cookie is fine except while the answer
  that replaces it is on its way (`CookieInv`), and then the tab's promise holds
  up the next refresh (`RefreshOf`). The rotation spends a token nobody else
  holds, since that of a login's answer is not in any other hand (`Apart`);
  abandoned requests can only hurt logins that count as ended (`GhostOf`). The
  premise `OneTab` is what the code needs, not the proof: the promise is a
  variable of a tab's script, and with two tabs TLC finds a cookie spent twice.
- `OAuthInv`: a controller stands for a flow that still runs, the last one; a
  link remembers its own timer and is not shown while another is fetched.
- `AccountsInv`: what the page reported as deleted is in no answer under way
  (`GoneInv`); a refresh the page does not show yet waits in the queue, or is in
  the list under way, which was asked for after it, or that list has failed
  (`ToldInv`).
- `ConsoleInv`: the two of them, that nothing of the accounts page is there while
  it is not mounted (`Unmounted`), and that a row a flow was stored in has been
  written, so any list read after the push has it (`LandedInv`).
- `LoginInv`: a flow that a request holds is no longer in Redis, and no two
  requests hold the same flow. It carries the refinement: each step of the
  flows is Open, Take, Lapse, Finish or nothing.
- `StreamInv`: the counters are ordered (received, sent, read), an "ok" of the
  gRPC stream means that a final line was seen and everything was sent, and a
  goroutine that closes its channels has either left an error, or seen a
  cancellation, or delivered everything.
- `KeyInv`: who writes a key holds its lock; what a transaction has bound is
  neither deleted nor being deleted; what it has deleted is all there was of
  the kinds it is done with; what the gate may still find has been recorded.
- `AggregateInv`: a stream that is being received is in one of three phases: no
  event under way (`Quiet`), the last event partly received (`Coming`), or the
  body ended (`Ended`). In each the data lines in hand are those of the last
  event, the relay's verdict is about that event, and the items are those of the
  events before it (`Collected`), so an index has the item sent last. That the
  items fill a list without a gap is a matter of counting them
  (`CompleteFacts`).
- `DeploymentInv` with `CallsInv`: the age of a request and the ticks left on the
  deadlines ahead of it add up to no more than its kind allows and Redis took
  (`AgeOK`), which is what `GatewayOutwaits` needs; the HTTP request of a drained call ends before
  the drain does (`DrainOK`) and the ticks waited and left make up the shutdown
  timeout (`StopInv`), which is what `StopIsClean` needs; a call that was sent
  has a live handler (`HandlerOK`). From the load on, memory and table agree
  (`EnforcerOK`); a role the loop has cleared is empty and one it is through with
  is exact (`SeedOK`), so the end of the loop is all that `ServesExactPolicies`
  needs. Nothing runs in an API that does not serve (`NoOrphans`).
- `RoleInv`: calls that run side by side know of each other, and what an
  undisturbed call has made of the memory is still there.

**Only model-checked:** all liveness (`EveryRequestEnds` of both modules,
`EveryCallSettles`, `EveryCompletionEnds`, `WindsDown`, `EveryKeyRequestEnds`,
`ServesAgain`, `WaitsEnd`): fairness and ENABLED are out of TLAPS' reach. Every
safety property of a passing run, every action property and every refinement is
a theorem. The three runs that find a violation need no proof.

## 7. Abstractions, and what is not modelled

Where the models allow more than the code does:

- `OAuthLogin`: the exchange and the insert of a device flow may still happen
  after the flow's expiry; the provider would exchange a code twice; errors of single Redis reads are covered by
  `DeadlinePasses` and `Canceled`, which end the request at the same points.
- `ApiKeys`: accounts may be disabled or expire at any time, so the gate's filter
  on them is a free choice; both binding tables share one space of ids; a
  cascade is one step after the row has been locked; `valid` stands for neither
  disabled nor expired.
- `UserRoles`: adding a rule that is in the table but not in memory may fail on
  the unique index or not.
- `UpstreamCalls`: which outcome the provider has is free at every request; the
  verifier may or may not recognise an outage of the key endpoint, since that
  depends on how the library wraps the error; statements of the store and
  commands of Redis end when they like, up to their deadline or `RedisLimit`.
- `Deployment`: the seeding takes the roles in any order, the code in that of
  `supportedRoles`.
- `AccountsView`: rows change by themselves (another tab, another user's login);
  a list is read at any time between the request and its answer.
- `ChatStream`, `StreamAggregate`: the translator is external and yields a fixed
  number of events per kind of line; all final events are alike to the relay.

What they leave out:

- the passthrough of untranslated lines and the unary call of `ChatNonStream`:
  every registered route translates and forces a stream; the check for an
  `http.Flusher`, which gin's writer always passes; a client that neither reads
  nor disconnects;
- in `Session`: the access token's contents; it names a user and may be found
  expired at any time;
- in `UserRoles`: permissions, which are the same for all roles (`Deployment`
  seeds them);
- in `UpstreamCalls`: chat streams, which have no deadline of their own and which
  a stop may cut (`ChatStream` has the cut as a failing connection); requests
  that fail the checks of their arguments; sub-tick delays of the scheduler;
- in `Deployment`: routes and health probes, which keep no state; the closing of
  the connections of a start that failed (`applicationInstances.Close`), since the
  process exits right after it;
- a bound on Redis: `GatewayOutwaits` speaks of requests to which Redis was no
  slower than `RedisSlack`. The code sets no deadline for its Redis commands, so
  with a Redis that answers a callback only after 5 s, and an exchange and a save
  that use up theirs, the gateway answers 502 while the credential is being saved
  and the flow is used up. No document promises otherwise. `Logout` and the
  refresh of a session use Redis too, in `Session`, which has no clock;
- in the pages: the wording of messages, the confirm dialog and the copy button.
  Two small races of the wording were seen on the way: after two refreshes of
  which the first one's list fails, its message says that all went well
  (`AuthorizedAccountsView.vue:57`); and a link that expires while its callback
  is being saved leaves the success and the expiry side by side
  (`OAuthView.vue:120`). No document says otherwise, and the lists and rows
  are right in both;
- encryption, expiry columns and access tokens in `OAuthRefresh`: they travel
  with the refresh token in the same row write.

Not modelled: JWT signing and the request filter (no state), the translator (a
third-party library) and the route table (filled once at start-up), the
forwarding of the gateway (the standard library's proxy, without state), the
forms of the key pages (one request per dialog, in `ApiKeys` from the server's
side), configuration, logging and encryption (pure functions and I/O), generated
RPC code and TLS, probes and deployment files.
