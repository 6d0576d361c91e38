# A verification development for clawd-monitor

clawd-monitor is a self-hosted dashboard for OpenClaw agents: one Node.js
process (`src/src/server.ts`) that serves a Next.js application and its API,
and a WebSocket endpoint on which agents push snapshots. This directory holds
TLA+ models of its stateful parts, TLC configurations that model-check them on
small instances, and TLAPS proofs of their properties for every value of the
constants. `PROJECT.json` maps every definition to the source lines it models.

    tlasany AgentSession.tla                              parse
    tlc -workers 2 -config AgentSession.cfg MCAgentSession   model-check
    tlc -workers 2 -config Parts.cfg MCParts                 model-check
    tlapm AgentSession_proofs.tla                          check the proofs

## 1. Inventory

All paths are below `src/src/` unless they start with `src/`.

### How the parts fit together

    agents --ws /api/agents/ws--> lib/agent-ws-handler --> lib/agent-registry (memory)
                                        |                       ^
                                        v                       | list, snapshot, health, remove
    browser --HTTP + JWT cookie--> app/api/** ------------------+
                                        |--> settings/tokens/**, auth/change-password
                                        |         `--> lib/data-store --> tokens.json, password.json
                                        |--> auth --> lib/login-rate-limit (memory)
                                        `--> stream/**, proxy/** --> gateways, docker, GitHub

Everything on the server runs on one event loop. Code between two `await`s is
never interrupted, so the only interleavings are at awaits and between
callbacks; data-store.ts is synchronous throughout. State is of three kinds:
in memory and lost on restart (registry, sockets, limiter, CI cache), on disk
(tokens.json, password.json), and in the browser (localStorage, React state).

### Components

| component | state | operations | what is hard | correct when |
|---|---|---|---|---|
| **Agent sessions and registry** (lib/agent-ws-handler.ts, lib/agent-registry.ts, app/api/agents/**) | per socket `agentId` and `authenticated`; `AgentRegistry.agents` | connect, auth, snapshot, ping, close; list, health, snapshot, remove; lazy `cleanup()` | a bcrypt loop awaited in the middle of a handshake; reconnects that overlap; frames sent ahead of their answer; restarts | only the close of the owning socket takes an agent offline; nobody registers on a revoked token; an online agent is neither evicted nor removed; snapshots survive reconnects; an online agent has a connection |
| **Token store and settings routes** (lib/data-store.ts, app/api/settings/tokens/**) | tokens.json | create, rename, revoke; the stamp of `lastUsedAt` by a handshake | read, await, write against a list that changed in between; a file that becomes unreadable or read-only | the file implements a ledger: no lost creation, no undone rename, no resurrected token |
| **Atomic data files** (lib/data-store.ts) | target, temp files | `writeDataFile`, `readDataFile` | five system calls that may each fail; a crash or a power failure between two of them; stray temp files | replaced as a whole or not at all, and the caller told which |
| **Login rate limiter** (lib/login-rate-limit.ts) | counter table, shared bucket, known-good set and its reserve | `acquire`, `reset`, `recordSuccess` | attempts charged before they are verified; two keys per client; a full table; eviction | bounded; lockouts neither lifted nor extended; untracked guesses capped; the known-good set earned |
| **Login route** (app/api/auth/route.ts, lib/secure-compare.ts) | – | POST, GET, DELETE | the awaited verification; precedence of stored hash, environment, development default | a changed password stops the old one |
| **Password store and change** (app/api/auth/change-password/route.ts) | password.json | read, verify, hash, write | two awaits between check and write | no change on the strength of a replaced password, except by a request that was already running |
| **Client keys** (lib/client-ip.ts) | – | `getClientKeys` | trusted hops of X-Forwarded-For; /64 and /48 of an IPv6 address | one client has one key; what a client writes does not choose it |
| **Server and upgrade** (server.ts, lib/ws-upgrade.ts, lib/env-bootstrap.ts) | – | start, stamp the peer address, route an upgrade | two WebSocket servers on one HTTP server | the stamp cannot be sent by a client |
| **Session tokens** (lib/auth.ts) | – | sign, verify | – | a library's JWT |
| **Gateway calls** (lib/gateway.ts, lib/gateway-policy.ts, lib/pinned-fetch.ts, lib/input-validators.ts) | connection pool | check the URL, resolve, judge, connect, fetch, release the body | DNS that answers differently from one moment to the next; pooled connections; the exemption of the default gateway; some twenty address ranges | only a judged address is connected to; the exemption is the operator's; no body is left |
| **Log stream and agent logs route** (app/api/stream/logs/route.ts, app/api/agents/[agentId]/logs/route.ts, components/widgets/LogTailWidget.tsx) | a child process, a gateway request, an abort signal; an EventSource | start, fall back, push, abort; choose source, container, agent | they end in any order; the selector connects twice | no child outlives its request except in the known ways; lines are of the selection |
| **Metrics stream** (app/api/stream/metrics/route.ts, components/widgets/MetricsWidget.tsx) | a baseline, an interval and a timer per connection | sample, abort | samples of several connections interleave, an abort during one | a connection reports its own window |
| **GitHub CI proxy** (app/api/proxy/github/route.ts, lib/github-ci.ts) | a cache with age and limit | look up, fill, evict | fills of one key that overlap | within its limit; no success older than the TTL |
| **Other proxy routes, health** | – | one request and a conversion each | – | they release what they fetch; health only evicts (modelled as `GetAll`) |
| **Dashboard layout** (lib/layout-storage.ts, components/Grid/**, app/dashboard/page.tsx) | localStorage, React state | load, migrate, add, remove, reset, save | several breakpoints; a save that fails or reads back as nothing | a removed widget stays removed |
| **Agent switcher** (components/Nav/AgentSwitcher.tsx, lib/active-agent.tsx, components/Nav/useMenuA11y.ts) | the list, the selection, the row being removed, the keyboard focus | poll, select, remove, leave, come back | answers out of order; a focused button that leaves the page | only a removal drops a row; the focus stays in the menu |
| **Settings page, Add Agent dialog** (app/settings/page.tsx, components/AddAgentModal.tsx) | React state | generate, revoke, rename, change the password; open and close | one revocation at a time with its guard in a ref; a dialog closed during a request | guard and mark agree; a closed dialog holds no token |
| **Audit gate** (src/scripts/audit-gate.mjs) | – | read, evaluate, walk the chains, exit | chains that share packages and run in cycles | a clean exit is justified, and so is a finding |
| **Display widgets, shortcuts, theme, schemas** | – | rendering, one stored word, validation | – | – |

The hazards of this code, each at its line and with the properties that watch
it, are the list "hazards" in PROJECT.json.

## 2. Modules

| module | what it is |
|---|---|
| `TokenLedger` | abstract: what the settings API promises about tokens |
| `TokenStore` | tokens.json and the settings routes; no behaviour of its own, it is part of `AgentSession` |
| `AgentSession` | sockets, handshakes, registry, routes, clock, restart; EXTENDS `TokenStore` and implements `TokenLedger` |
| `MCAgentSession` | instance for TLC (symmetry) |
| `AgentSession_proofs` | theorems about `AgentSession` and `TokenStore` |
| `LoginRateLimiter` | the limiter, driven by the login route |
| `MCLoginRateLimiter` | instance for TLC (clients, keys, /48s) |
| `LoginRateLimiter_proofs` | theorems about `LoginRateLimiter` |
| `AtomicFile` | abstract: a file that is replaced as a whole or not at all |
| `DataStore` | `writeDataFile()` call by call; implements `AtomicFile` |
| `MCDataStore`, `DataStore_proofs` | instance for TLC, theorems |
| `PasswordRoutes` | login, change of password and logout over password.json and the environment |
| `GatewayClient` | the URL rule, the pinned pool over a DNS that changes, and the routes that call gateways |
| `AddressPolicy` | `isPrivateHost` against a table of prefixes |
| `ClientKeys` | peer stamp, trusted hop, limiter key and parent |
| `LogStreams` | the two log routes and the log tail widget |
| `MetricsStream` | the metrics route and its widget |
| `Streams_proofs` | theorems about `LogStreams` and `MetricsStream` |
| `GithubCi` | the pull request route and its cache of commits that passed |
| `Routes_proofs` | theorems about `PasswordRoutes`, `ClientKeys`, `GatewayClient`, `AddressPolicy` and `GithubCi` |
| `AgentSwitcher`, `MenuFocus` | the switcher's requests and selection; its menu's rows and focus |
| `DashboardLayout` | the dashboard page, its grid and what is stored of it |
| `SettingsPage`, `AddAgentModal` | tokens and password in the browser; the dialog |
| `Positions` | filter and indexOf, said of positions and without recursion |
| `Pages_proofs` | theorems about the five modules of the pages |
| `AuditGate`, `AuditGate_proofs` | the audit gate's decision, its walk step by step; theorems |
| `MCParts` | instance for TLC of all modules from `PasswordRoutes` on |
| `Parts_proofs` | theorems about that composition: it keeps what its parts promise |

`TokenStore` rewrites tokens.json in one step. That step is what `DataStore`
justifies: its theorem `StoreImplementsAtomicFile` says that between two calls
a reader sees either the old file or the new one, and `AgentSession` has no
reader in the middle of a call, because the call is synchronous.

Definitions named `..._Mutant` are plausible faults. No other definition uses
them; each is the replacement under which the property it belongs to (see
"mutants" in PROJECT.json) is violated, which shows that the property
distinguishes the code from that fault.

### AgentSession and TokenStore

| state | in the code |
|---|---|
| `sock` | `readyState` of each WebSocket; "closing" from `ws.close()` to the 'close' event |
| `agentId` | the closure of `handleAgentConnection`: `agentId`, and `authenticated` (set together) |
| `handshake` | handshakes suspended in `bcrypt.compare`, with the list they read before |
| `registry` | `AgentRegistry.agents`: online flag, owning socket, token, age of the last snapshot |
| `tokens`, `disk`, `issued` | tokens.json; whether it can be read and written; ids drawn so far |

| action | in the code |
|---|---|
| `Connect`, `SocketCloses` | a new connection, the 'close' event and `disconnect()` |
| `AuthWithStaticToken` | an `auth` frame with a token of AGENT_TOKENS: no await on the way |
| `AuthWithoutList` | the first read threw or listed nothing: `auth_error` and close |
| `StartHandshake`, `FinishHandshake` | an `auth` frame up to the bcrypt await, and from there: re-read, compare, stamp, `register()` or refuse |
| `EarlyFrame`, `Snapshot` | snapshot or ping before authentication; `update()` |
| `GetAll`, `RemoveAgent` | list and health routes with `cleanup()`; DELETE |
| `CreateToken`, `RenameToken`, `RevokeToken` | the settings routes |
| `DiskChanges`, `Tick`, `Restart`, `Collect` | the environment: the disk, the clock, the process, and reuse of the name of a socket nothing refers to |

The bcrypt loop awaits once per listed token. The model makes it one pause:
what the loop computes depends on nothing but the list read before it. Two
constants say how an agent behaves: with `Pipelined = FALSE` it waits for an
answer before the next frame, with `Overlapping = FALSE` it does not connect
while its old socket is up. The passing runs set both to TRUE, so they assume
nothing of agents.

Not modelled: frames that change nothing (invalid, ping after authentication,
a second `auth` after the first was accepted), name, version and gateway of an
entry, the `lastUsedAt` value (only whether it was ever set), an operator who
deletes or restores tokens.json by hand, a clock that runs backwards.

### LoginRateLimiter

| state | in the code |
|---|---|
| `entries` | the counter table, keys and /48 parents in one map |
| `credit`, `stamp` | `overflowCredit`, `overflowStamp`, in units of one clock tick |
| `order`, `lastSuccess`, `lastReserved`, `lastReservedAny` | the insertion-ordered map `known` and the stamps of its reserve |
| `pending` | admitted attempts whose password is being verified |
| `overflowed`, `reserved` | history: how many attempts each bucket let in |

`acquire()` is synchronous and is one step with four outcomes:
`RefuseLockedOut`, `AdmitTracked`, `UseOverflow`, `UseReserve` (the latter two
granted or not). An admitted attempt stays pending until `VerifyFails` or
`VerifySucceeds` (`reset()` and `recordSuccess()`). When entries tie in
`evictOne()`, any of them may go: the code takes the first in the insertion
order of the map, which the model does not keep. Left out: the Retry-After
seconds and the saturation warning. `Date.now()` is taken to be monotonic; a
clock that is set back is listed as a hazard.

### DataStore

| state | in the code |
|---|---|
| `target` | the data file as a reader finds it: absent, a version, or torn |
| `durable` | the versions a power failure may leave |
| `temps` | temp files in the directory, each with its data and whether it was synced |
| `call` | the locals of the call under way and the system call it is at |
| `answer`, `accidents` | history: how the last call ended; deaths, power failures and failed unlinks |

There is one action per system call (`OpenTemp`, `WriteTemp`, `SyncTemp`,
`CloseTemp`, `RenameTemp`, `SyncDirectory`), one for each way it may fail
(`NameTaken`, `OpenFails`, `CallFails`, `CleanUp`), and `ProcessDies` and
`PowerFails` at any point. What the file system does is an assumption written
at the head of the module: exclusive create, atomic rename, fsync of file and
directory; data that was not synced may be lost.

### PasswordRoutes

| state | in the code |
|---|---|
| `env` | ADMIN_PASSWORD_HASH, ADMIN_PASSWORD, NODE_ENV |
| `stored`, `readable`, `writable` | password.json and its directory |
| `pwRequest` | requests suspended in `verifyPassword` or in `bcrypt.hash`: what they compare with, what they will write |
| `attempts` | the two limiters, as counters |
| `signedIn` | browsers with a valid cookie |

A request is `AdmitLogin` or `AdmitChange` up to its first await, then `Refuse`,
`LoginSucceeds` or `ChangeVerified`, and for a change `ChangeEnds` after the
second await. `SessionEnds` is the logout or the end of the 24 hours;
`StoreDamaged`, `StoreRepaired`, `StoreRemoved` (the documented recovery),
`DirectoryMode`, `WindowEnds` and `ServerRestarts` are the surroundings.
`RetiredStaysRetired` allows exactly one thing: a request that was running when
the password was replaced may still finish against the old one.

### GatewayClient and AddressPolicy

| state | in the code |
|---|---|
| `dns` | what each name resolves to at the moment |
| `connections` | the pinned Agent's pool: origin and address |
| `attempt` | connects under way: the lookup, or the addresses it judged usable |
| `call`, `unread` | calls until their route replied; answers whose body is neither read nor cancelled |

`CheckGatewayUrl`, `IsOperatorChosen` and `Judge` are the rule and
`createPinnedLookup`. A call starts as `SendDirect` (the operator's default, the
global fetch), `SendPooled` or `SendConnecting`; `Resolve`, `ConnectPinned` and
`ConnectFails` follow, and `CallEnds` may take the caller away at any point,
while its attempt goes on. The routes (`CatchAllRoute`, `CronRoute`,
`SessionsRoute`, `HeartbeatRoute`, `MemoryRoute`, `AgentLogsRoute`) differ in
where their URL comes from and in how they end with the body. `DnsChanges` is
unconstrained. A URL is its scheme, host and port; how text becomes these three
is the URL parser's. The pool is undici's and Node's `net`, modelled from how
pinned-fetch.ts configures them.

`AddressPolicy` has the tests of gateway-policy.ts in the code's order, and
beside them a table of the prefixes that the code's comments name after the
IANA lists (private, local, documentation, benchmarking, translated and
tunnelled ranges), compared bit by bit as prefixes are. Their agreement, `PolicyMatchesRegistries`, is judged on every value at and beside
every boundary.

### ClientKeys

`Arrive` is a request as the route sees it: the peer address `withPeerAddress`
stamped, a peer header the client sent itself, the entries of X-Forwarded-For
and the configured number of hops. `GetClientKeys` picks the address,
`ParseClient` turns it into a key and a parent. An address is its octets or
groups with the way it is written (port, brackets, zone).

### LogStreams

| state | in the code |
|---|---|
| `stream` | per request: whether its handler ran, what `child` names, which children run, the gateway request, the abort |
| `source`, `container`, `activeAgent` | the widget's selection |
| `effectFor`, `es`, `esFor`, `shown` | the effect's last dependencies, the EventSource and its selection, the lines on the screen |

`Start` is a handler up to its return; `JournalComplains`, `GatewayStreams`,
`GatewayLacksStream` and `Cancelled`, `UrlRefused`, `GatewayEnds` and
`ChildExits` are its callbacks; `Abort` is the abort event, which may be past
before the handler runs. In the browser, `ChooseContainer` connects by itself
and `RunEffect` connects again; `Message`, `ConnectionBreaks` and `Reconnect`
are the EventSource's. Lines are told apart by the selection they were read
for. The heartbeat is left out.

`OrphansHaveThreeOrigins` is worth knowing: a child process does outlive its
request, when the abort comes before the handler, while a refused gateway body
is being cancelled, or before the journal's first complaint, because each of
these starts a child after the only abort event. That is all there is.

### MetricsStream

`proc` is the history of /proc/stat, which may be unreadable for a while;
`feed` holds each connection's baseline, timer and interval. `FeedTicks`,
`FeedWarms` (the timer that no abort cancels) and `FeedAborts` come in any
order; `WatchHost`, `Monitor`, `FeedMessage` and `SnapshotArrives` are the
widget. Memory figures are left out: each is one reading.

### GithubCi

| state | in the code |
|---|---|
| `passedCi` | the `Map`, in insertion order, with the time of each entry |
| `task`, `getPhase` | what each request is at with each repository, and its answer |
| `lastPass` | history: when a lookup last saw a commit pass |

`GetPullRequests` starts all repositories; `ListingIsEmpty`, `ListingFails`
(the request is rejected while the others go on), `FetchCiStatus` (a hit, or a
lookup), `CiLookupAnswered`, `CiLookupFails`. `Remember` evicts the oldest entry
when the cache is full, also when the commit is cached already, as the code
does. A listing holds one pull request at most.

### The pages

* `AgentSwitcher`: requests are sent, served and answered in three steps, and a
  component that has left the screen keeps its closures (`ours`). The selection
  is compared as it was at the click. `missed` and `dropped` are history.
* `MenuFocus`: the rows with their elements, the focus, and the row under
  removal; an element that leaves the page loses the focus to the page.
* `DashboardLayout`: items are their widgets; the grid library is what it calls
  back with. Storage may be full or blocked.
* `SettingsPage`: each handler up to its await and after it. A load of the list
  carries what the page does when it is over. Save may be pressed again while a
  rename is in flight; a PATCH is only counted, because its answer ends
  whatever edit is open by then. `MaxRenames`, two renames in flight, and
  `Load = {l1}`, one load at a time, are bounds.
* `AddAgentModal`: the dialog stays mounted while it is closed, so the answer
  to Generate meets whatever state the dialog is in.

### AuditGate

`ReadInput` decides on everything but the packages (allowlist, review dates,
npm's status and output, metadata), `EvaluatePackage` on one package, and
`WalkVia` and `WalkReturns` are one step of the recursion, with `stack` for its
calls and `visited` for its guard. `VerdictIsJustified` compares the outcome
with a closure that does not walk.

### MCParts

These thirteen modules have no variable in common, and the code behind them has
no shared state either, except where another module takes over: the limiter
(`LoginRateLimiter`), the way a file is written (`DataStore`), the token list
on the server (`TokenStore`) and the registry (`AgentSession`). `MCParts` puts
them into one run: `part` says which one moves in a behaviour, the others stay
at their start. The full product would reach the same states of each part, so
nothing is lost for properties that speak of one part, which all of them do.

## 3. Model checking

| run | instance | what it shows |
|---|---|---|
| `agent_session` | 2 sockets, 2 agents, 1 stored and 1 static token, 2 handshakes, TTL 0 | `OfflineMeansOwnerClosed`, `OnlineIsNeverDropped`, `SnapshotSurvives`, `GhostsHaveThreeOrigins`, with agents that pipeline and overlap |
| `agent_tokens` | 1 socket, 2 tokens, 2 names, 2 handshakes | `RegistrationsAreAuthorized`; `KeepsTheLedger`, the refinement of `TokenLedger` |
| `agent_live` | 2 sockets, 1 handshake | `AuthIsAnswered`, `OfflineIsTransient` under `FairSpec` |
| `ghost_agent` (violation) | 1 socket, a polite agent | `OnlineHasConnection` fails when the socket closes while bcrypt compares |
| `ghost_reconnect` (violation) | 2 sockets, a static token | `OnlineHasConnection` fails when a replaced socket outlives the owner and speaks once more |
| `login_rate_limiter` | 3 clients, two of one /48, a table of 2 entries, 2 pending, 4 ticks | `TableIsBounded`, `ParentCountsItsChildren`, `UntrackedGuessesAreCapped`, `LockoutIsFixed` |
| `login_known_good` | the same, two clients that know the password, room for 2 known keys instead of 1, 1 pending | `KnownIsBounded`, `KnownIsEarned` |
| `parent_lockout` (violation) | three /64s of one /48, a table of 4 | `OneParentLocksFew` fails |
| `data_store` | 2 versions, 3 temp names, 2 attempts, 3 accidents | `NeverTorn`, `OneStrayPerAccident`, `ForeignTempsAreUntouched`; `ReplacesAtomically`, the refinement of `AtomicFile` |
| `parts` | 2 requests, calls, streams, feeds, polls or revocations of each kind (see below) | the fourteen invariants and five action properties of the modules from `PasswordRoutes` on |
| `relisted` (violation) | 2 agents, 1 poll, 1 removal | `RemovedStaysUnlisted` fails |
| `late_token` (violation) | 2 tokens, 2 requests | `ClosedModalHoldsNoToken` fails |

The properties of `parts`, by the part they speak of:

| part | properties |
|---|---|
| passwords | `RetiredStaysRetired` |
| gateway calls | `PinnedIsPublic`, `ExemptionIsTheOperators`, `BodiesAreReleased` |
| addresses | `PolicyMatchesRegistries` |
| client keys | `ForgeryIsIgnored`, `OneClientOneKey` |
| log streams | `RunningChildIsKnown`, `OrphansHaveThreeOrigins`, `LinesAreOfTheSelection` |
| metrics | `EveryFeedHasItsWindow` |
| CI cache | `CiCacheIsSound`, `SuccessIsRecent` |
| switcher and menu | `DropsOnlyTheRemoved`, `RemovalHandsFocusOn` |
| layout | `RemovedStaysRemoved` |
| settings | `RevocationIsExclusive` |
| audit gate | `VerdictIsJustified` |
| all | `PartsTypeOK` |

Why the bounds are enough:

* Sessions. Every hazard of the registry is about one owner and one other
  socket of the same agent, so two sockets; about two handshakes that run at
  once, so two slots; about one socket bound twice, so two agents. Sockets are
  recycled by `Collect`, so a run of reconnects may be as long as one likes.
  Ages stop at `TTL + 1` (older is no different) and `TTL + 2` (never);
  `TTL = 0` keeps both and the fresh age. There is no bound on the length of
  behaviours, on restarts or on changes of the disk.
* Tokens. Two ids and two names are what a lost update needs: one token under
  comparison, another one created, renamed or revoked meanwhile.
* Limiter. Three clients on a table of two entries keep it full, locked out
  and evicting; two clients share a /48, one has none. `Horizon` lets a
  window end and another one begin; `MaxPending` 2 lets two attempts of one
  /48 be under verification at once. In `login_known_good`, two successful
  clients have three keys for two places. The clock stops at `Horizon`, and
  nothing need be enabled then, hence `CHECK_DEADLOCK FALSE`.
* Data files. Three names and two attempts let a stray file of each of two
  earlier calls collide with both attempts of a third; three accidents leave
  the third call one more.
* Passwords. Two requests overtake each other in every way; two chosen
  passwords let a change retire one of them; two environments, one in
  production with a plain password, one outside it with a hash.
* Gateways. Two calls share a pool and an attempt; one public and one private
  address, and any set of answers; URLs that fail each check of the rule alone.
* Addresses and keys. Judged one at a time, on every boundary value and its
  neighbours; two header entries, with up to two trusted hops.
* Log and metrics streams. Two requests: the old one dies while the new one is
  read. Two moments of the counters make one window between them.
* CI cache. Two requests that look up three commits of one named repository
  beside a misnamed one, and a cache of two entries: a third success evicts,
  and two lookups of one commit that end one after the other meet an entry that
  is there already, with and without a second one to lose. A commit of another
  repository would be a further key and nothing else. The TTL and the clock let
  an entry age out. `MaxNow` stops the clock.
* Pages. In `parts` one agent with two polls (in `relisted`, two agents with
  one), one token with two revocations, two rows in the menu, two widgets at
  two breakpoints with stored values that are absent, broken, legacy or mixed.
  That the marked row is the one under revocation can fail with two tokens
  only; it is the theorem `OneRevocationAtATime` that covers these.
* Audit gate. Three packages are enough for chains that share a package and
  for cycles of length one to three.

`parts` uses no symmetry. Its `CHECK_DEADLOCK FALSE` is for the audit gate,
which exits.

### Fairness

`FairSpec` asks for weak fairness of four things. `FinishHandshake`: a bcrypt
comparison settles and the event loop runs its continuation. The 'close' event
of a socket on which the server called `ws.close()`: the ws library destroys
the socket after its close timeout if the peer does not answer. `Tick`: time
passes. `GetAll`: the dashboard polls `/api/agents/list`, or a probe reads
`/api/health`. The last one matters: eviction is lazy, and with nobody reading
the list an offline entry stays. Nothing is asked of agents.

### Findings

1. **An agent may be registered after its socket has closed.** The handshake
   does not look at the socket after the bcrypt await. If the peer hung up
   meanwhile, the 'close' event ran while `agentId` was still null, so nothing
   will ever take the new entry offline (`ghost_agent`). It is shown online,
   never evicted, and DELETE answers 409, until the agent reconnects or the
   server restarts. docs/AGENT-PROTOCOL.md:143 says that a closing socket
   marks its agent offline.
2. **A replaced connection can revive an offline agent.** `update()` sets
   `online = true` for a snapshot from any authenticated socket of the agent,
   `disconnect()` honours only the owner (`ghost_reconnect`). The same
   sentence of the protocol is contradicted.
3. **More than eleven keys of one /48 can be locked out at once.**
   docs/configuration.md:225-226 says that one /48 holds at most eleven locked
   entries. Each key has its own window, so the /48's may end, and its budget
   start again, while /64s it paid for are still locked out
   (`parent_lockout`).

4. **A removed agent may be listed again without having reconnected.**
   docs/okf/agent-registry-lifecycle.md:186-188 says that it does not reappear
   on the next poll. `load()` shows whatever its answer holds; one that the
   server gave before the removal and that arrives after it brings the row
   back until the poll after it (`relisted`).
5. **A closed Add Agent dialog may hold a plaintext token.** The component's
   comment (AddAgentModal.tsx:28-30) says that the token is cleared on close
   and on the next open. `handleGenerate()` sets it after its await whether or
   not the dialog is still open (`late_token`). The token is cleared at the
   next opening; nobody saw it, and the server keeps it until it is revoked.

`GhostsHaveThreeOrigins`, which holds, puts 1 and 2 in their place: besides
them, the only way to a ghost is a second `auth` frame for another agent sent
before the first was answered.

## 4. Proofs

Every safety property that a passing run checks is also a theorem, for every
value of the constants that satisfies the named assumptions of the modules
(`NoTokenAssumption`, `SessionAssumption`, `LimiterAssumption`,
`NoEntryAssumption`, `DataStoreAssumption`, `PasswordAssumption`,
`KeyAssumption`, `GatewayAssumption`, `AddressAssumption`, `GithubAssumption`,
`LogAssumption`, `MetricsAssumption`, `SwitcherAssumption`, `MenuAssumption`,
`LayoutAssumption`, `SettingsAssumption`, `ModalAssumption`, `GateAssumption`).
They say that marker values are not ordinary ones, that inputs are of their
type, that limits and intervals are naturals (positive where the code would
otherwise divide by them or admit nobody), that the sets of keys and of temp
names are finite, that addresses with one limiter key have one /48, and that
the default widgets are known ones, each listed once. TLC evaluates them on
each run. The sets of sockets, agents, tokens and handshakes are arbitrary.

* **AgentSession_proofs.** `TypeCorrect`; `OfflineOwnersAreClosed`, whose
  inductive invariant is `TypeOK /\ OfflineMeansOwnerClosed` itself (the hard
  case is `Collect`, which may reuse a socket only when no entry is owned by
  it). The action properties `OnlyAuthorizedRegister`, `OnlineStays`,
  `SnapshotStays` and `GhostOrigins` follow from `TypeOK` by the lemma
  `StepKinds`, which sorts the actions by what they do to the registry.
  `SessionsImplementTheLedger` is the refinement of `TokenLedger`: its heart is
  `StampKeepsNames`, that a late stamp changes no name because it is applied
  to the list just re-read. Five theorems are about more than a run checks.
  `RevocationIsFinal`: a revoked token is issued and not listed, and nothing
  takes it back there; its invariant `ListedIsIssued` relates the file to the
  tokens ever issued. `EveryEndIsAnAnswer` and `OfflineAgentsAge` are what the
  two liveness properties rest on besides fairness: that no path gives up a
  handshake on an open socket, and that the age of an offline entry only grows
  until the next read drops it. `PatientAgentsKeepTheirSocket` and
  `SingleConnectionsAreShown` say what agents can do about ghosts. The
  constants `Pipelined` and `Overlapping` say whether an agent sends a frame
  before the last one was answered, and whether it connects while an earlier
  connection is up. Without the first no socket is bound twice (`PatientInv`: a
  socket has at most one handshake, and none once it is bound). Without both,
  an agent shown offline has no connection, and only a handshake that ends
  after its socket closed (finding 1) misleads; the invariant is `OneSpeaker`,
  that at most one receiving socket is, or is about to be, an agent's.
* **LoginRateLimiter_proofs.** `TypeCorrect`; `LockoutsHold`
  (`LockedEntriesRemain`: whatever makeRoom does, a used-up entry whose window
  is running remains); `TableStaysBounded` (`RoomIsMade`: after makeRoom the
  present and the new keys fit); `GuessesAreCapped`, an invariant that balances
  attempts let in against credit and clock, inductive together with
  `BucketTypeOK`. `KnownStaysBounded` rests on `KnownInv`: the order lists each
  known key once and is never longer than the limit, because a key is deleted
  before it is appended. `KnownKeysAreEarned` has the hypothesis
  `KnownMaxKeys > 1`, and needs it: a login brings in two keys, and a limit of
  one would evict the caller's own /48 (the code's limit is 64).
  `ParentsCountTheirChildren` is about a sum over the /64s of a /48. The sum is
  the cardinality of a set of numbered attempts, `ChildAttempts`, so that a
  step that counts an attempt adds at most one element to it; the inductive
  invariant `ParentInv` adds that no window began in the future.
  `BudgetsHold` says that no window overdraws its budget while verifications
  are under way. With the account of the /48 it gives `ParentsPayForLocks`,
  the part of the claim of finding 3 that holds: locked entries whose windows
  began after that of their /48 number at most its budget over theirs. It takes
  apart the attempts of distinct keys (`ChildAttempts`) and counts them.
* **DataStore_proofs.** `NeverTorn` is not inductive: at the rename one has to
  know that the temp file is complete and synced. The inductive invariant is
  `TypeOK /\ NeverTorn /\ OwnTempIsComplete`. From it follow `FilesAreWhole`,
  `ForeignTempsStay`, `StraysArePaidFor` (which adds the counting of files) and
  `StoreImplementsAtomicFile`. `OldVersionsStayGone` is about the disk behind
  the file: once the directory was synced no other version is left that a power
  failure could bring back, and no leftover temp file is ever renamed.
* **Routes_proofs.** For `PasswordRoutes`: `RetiredPasswords`. The invariant
  adds to the types that every request that is not stale compares with the
  password in force, and that a change has a password to write; its heart is
  `VerifierInForce`, that an unreadable store yields no password at all. For
  `ClientKeys`: `ForgeriesAreIgnored` counts from the end of the forwarded
  entries, where what is put in front changes nothing; `ClientsHaveOneKey`
  takes the cases of the two addresses' families apart (an IPv4 address may
  come mapped into IPv6) and is about bytes and 16 bit words. For
  `GatewayClient`: `PinnedConnections`, `Exemption`, `Bodies`, by one
  invariant: pooled connections are public; an attempt that connects has public
  targets, and one that still resolves has a name for a host, so that its
  lookup judges it; every call in progress passed the URL rule in one of its
  two ways; an unread body belongs to a call whose route is still to reply.
  `JudgedIsPublic` is the fact about the lookup. For `GithubCi`: `CiCache` and
  `RecentSuccess`: a cache whose keys are unique and whose entries bear the
  time of the last success stays so under deletion, eviction and replacement
  (`DeletedEntry`, `OldestDropped`, `SetEntry`), for any limit. For
  `AddressPolicy`: `PolicyIsTheRegistries`, that the comparisons of the code
  are the prefixes of the registries, for every address and not only at the
  boundaries that the run enumerates. A lemma per prefix says which values of
  its bytes or words it stands for.
* **Streams_proofs.** For `LogStreams`: `KnownChild`, `ScreenLines` and
  `OrphanOrigins`. The invariant has for each stream a record that is `Sound`
  (no child runs but the one that is named, none before a fallback that still
  may start one, none for an agent) and for the widget that its EventSource
  reads the selection it was opened for. The lemma of a server step sorts what
  becomes of one stream. For `MetricsStream`: `MetricsWindows`. Its invariant
  says that a connection's baseline is the reading it was taken from, and that
  the counters only grow, so that a share between two of its readings is a
  share.
* **Pages_proofs.** `DropsNeedARemoval`: an agent the registry has been without
  is in `missed`, and so is every agent an answer under way lacks, whether it
  was served before or after. `OneRevocationAtATime` is inductive with the
  types, restated without cardinality and turned into it at the end.
  `RemovedWidgetsStay` is not inductive: a removed widget could come back out of
  the storage. `DlInv` adds that what is stored, once it is read, shows no
  removed widget either, and `ReadBack` that writing and reading adds none.
  `RemovalsHandFocusOn` needs `MfInv`: a button that stands in its row has had
  the menu open, and its agent listed, ever since the click, so that the index
  that `focusNeighbour` compares with exists; `NeighbourStays` then says that
  the item it picks is among those of the rows that are left. `ShownTokens`: the
  dialog never holds a token that the server has not made, closed or not.
  Two theorems say what holds in place of the claims of findings 4 and 5.
  `RelistingsComeFromOldPolls`: the answers that can bring a removed row back
  are those given before the removal; their number only falls, by one each time
  the row returns (`DroppedAreGone`: a dropped agent is in no registry entry
  until it connects again). `TokensLeaveForGood`: a token that left the dialog
  does not return to it, so that one arriving late is never shown; its invariant
  `OnePlace` says that a token is in the dialog or in one answer, not in both.
* **AuditGate_proofs.** `AuditVerdictIsJustified`. The invariant `AgInv` is that
  of a depth-first walk: every package on the stack is there once and was
  visited, what the scanned part of a package names was visited, nothing scanned
  blocks while the walk passes, and everything visited belongs to the chain.
  When the stack is empty the visited packages are closed under "names", hence
  are the whole chain, in whatever way its packages are shared or run in cycles.
* **Parts_proofs.** `PartsAreIndependent`: the run `parts` puts thirteen
  specifications side by side and lets one of them move; each of them is
  implemented by the whole. Hence `PartsTypes` and `PartsKeepTheirPromises`:
  what is proved of a part alone, for any constants, holds of what TLC runs.

Each of the others also proves the type invariant of every module it is about.

What an array is after filter() is usually defined, and reasoned about, by
recursion, which is out of the provers' reach (see below). `Positions` defines
it by ranks instead: the element at n is the one whose position has n positions
of the selection up to itself. `RanksCount` proves once, from facts about
cardinalities, that the ranks of a set of positions are 1, 2, ... up to its
size, and everything else about filtered lists (`Subsequences`,
`WithoutElement`, `CleanItemsFacts`, `MenuContents`) follows from that.

Only model-checked:

* the liveness properties (`AuthIsAnswered`, `OfflineIsTransient`): temporal
  proofs from fairness need ENABLED, which TLAPS does not reach. Their safety
  part is proved (`EveryEndIsAnAnswer`, `OfflineAgentsAge`); what is left to TLC
  is that the fair actions are enabled when they are needed.

The claims that do not hold (see Findings) have their counterexamples from TLC;
what holds in place of each is proved: `GhostOrigins` and
`SingleConnectionsAreShown` for the first two, `ParentsPayForLocks`,
`RelistingsComeFromOldPolls` and `TokensLeaveForGood` for the others.

## 5. What is not modelled

* JWT signing and verification: a library, without state; a browser has a valid
  cookie or not.
* Start-up and the routing of upgrades (server.ts, ws-upgrade.ts,
  env-bootstrap.ts): sequential, one comparison of a path. The peer stamp is in
  `ClientKeys`.
* The docker, containers and alert-history routes: one command or request and
  its conversion, with nothing kept.
* Rendering: the display widgets and the memory and session widgets, which show
  one polled answer each; keyboard shortcuts and the theme, one handler and one
  stored word.
* Schemas beyond "an invalid frame changes nothing"; the wording of messages,
  the install snippet, the parsing of URLs, dates and JSON.
* A clock that is set back (a hazard of the limiter), and what the selection of
  the switcher should be when another agent is selected while a removal is
  under way, of which nothing says what is right. Both are listed as hazards
  without a property.
