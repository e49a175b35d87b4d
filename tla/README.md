# A verification project for octroi

Octroi is a gateway between AI agents and the HTTP tools they call. It authenticates an
agent by its key, limits how often the agent and everyone may call a tool, checks budgets,
forwards the request with the tool's credentials and records what it cost. This directory
holds TLA+ models of that core, TLC configurations that check them, and proofs that TLAPS
checks. Paths below are relative to the repository's root.

## 1. Inventory

| Component | State it keeps | Operations | Talks to |
|---|---|---|---|
| Metering collector, `internal/metering/collector.go` | a buffer under a mutex, a `done` channel, a gauge callback | `Record`, `flush`, `Start`, `Stop` | proxy handlers call `Record`; `flush` calls `Store.BatchInsert`; `runServe` calls `Start` and `Stop` |
| Metering store, `internal/metering/store.go` | table `transactions` | `BatchInsert`, `ListTransactions`, summaries | collector, usage handlers, budget queries |
| Server lifecycle, `cmd/octroi/serve.go` | goroutines, the pool, the HTTP server | start, signal, `Stop`, `Shutdown`, `Close` | every component |
| Token bucket limiter, `internal/ratelimit/ratelimit.go`, `middleware.go` | one bucket per key under a mutex | `Allow`, `AllowCustom`, `Status`, `StatusCustom` | middleware, tool limits |
| Tool rate limits, `tool_limiter.go`, `tool_rate_store.go` | tables `tools.rate_limit`, `tool_rate_limits` | `Resolve`, `CheckToolRateLimit`, set, delete | proxy, administrators |
| Proxy, `internal/proxy/proxy.go` | none of its own | `ServeHTTP`, `recordTransaction` | limiter, budgets, upstream, collector |
| Budgets, `internal/agent/budget_store.go` | table `agent_tool_budgets`, the tool's own budget | `Set`, `CheckBudget`, `CheckToolGlobalBudget` | proxy; sums the `transactions` table |
| Login limiter, `internal/api/router.go` | one counter per address in a `sync.Map`, each under its own mutex | `allow`, `cleanup` | the login route |
| Users and teams, `internal/user/store.go`, `internal/api/users_handler.go`, `teams_handler.go` | table `users`; a user's memberships are one JSON value of its row | create, update, delete, add and remove a member | administrators, teams' administrators; scopes what members see |
| Sessions, `internal/user/store.go`, `internal/api/auth_handler.go`, `internal/auth/middleware.go` | table `sessions`, passwords' hashes | login, logout, change of password, hourly cleanup | every request of a user is authenticated by one |
| Agents, `internal/agent/store.go`, `internal/api/agents_handler.go`, `member_handler.go` | table `agents`: hashes of keys, teams | create, update, delete, regenerate | cascades into budgets and transactions |
| Tool registry, `internal/registry`, `internal/api/tools_handler.go` | table `tools`: endpoint templates, credentials, budgets | create, update, delete, list, search | proxy; encryption; cascades as agents do |
| Listings and usage, `internal/api/usage_handler.go`, `member_handler.go`, `search_handler.go` | none but the cursor in the client's hands | pages and summaries | the stores of agents, tools and transactions |
| Metrics, encryption, configuration, manifest, errors, audit, UI | counters or none | rendering and conversions | all of the above |

What is hard in it, and what makes each part correct:

- **Collector.** Any handler that fills the buffer flushes it, beside a goroutine that flushes
  on a ticker and at shutdown; deletions, failed INSERTs, crashes and the shutdown of the
  server fall between any two of their steps. A transaction must be in one place at a time,
  must not be inserted twice, must leave memory while the gateway runs, and a buffer must not
  grow while nobody is about to empty it.
- **Limiter.** Refills happen in fractions of a token, at whatever instant a call comes and at
  whatever rate it names. Tokens must be neither created nor lost by retries or by looking.
- **Admission.** A request makes up to eight calls that each take the limiter's lock anew. It
  must have paid everywhere before it goes through, whatever other requests and
  administrators do between those calls.
- **Budgets.** A check is several queries at several instants, over a table that lags behind.
  Overspending must be bounded, and refusals must be justified.
- **Login limiter.** `cleanup` reads an entry, unlocks it and then deletes the key.
- **Users and teams.** Handlers read, count and then write, in separate statements, and a
  membership is changed by writing all of a user's memberships. A team should keep an
  administrator, nobody's membership should change unasked, and who writes should be allowed to.
- **Sessions.** A password is compared with a row that may have changed, or gone, when the
  session or the new password is written. Sessions that are over must leave the table.
- **Agents.** An agent is loaded and its team compared with the caller's before a statement
  changes it by id. A replaced key must stay dead.
- **Registry.** An update is validated against a row that another update may change before the
  first one writes. A stored endpoint should be one the proxy can call.
- **Listings.** Pages are cut at a (time, id) cursor while rows come and go; a report for teams
  looks up their agents in one statement and their transactions in another.

`PROJECT.json` lists each of these hazards at the line where it bites, and the properties
that cover it.

## 2. Modules

| Module | What it is |
|---|---|
| `UsageLedger` | abstract: what metering promises. A transaction is pending, then stored or gone; a commit is all or nothing; nothing comes back |
| `Collector` | the collector with handlers, deletions, shutdown, crash and restart; implements `UsageLedger` |
| `CollectorProofs` | its invariants and the refinement, proved |
| `RateLimiter` | the token buckets, one step per call |
| `RateBounds` | `RateLimiter` with history: what a client was granted and told |
| `Admission` | concurrent requests through the middleware and `CheckToolRateLimit`, each of whose calls is a step of `RateLimiter` |
| `Quotas` | `Admission` with history: the quota a request was shown, and who spent it |
| `LimiterProofs` | the properties of the four modules above, proved |
| `Budgets` | the proxy's budget checks, query by query, over an instance of `UsageLedger` |
| `LoginLimiter` | login attempts from several addresses, and the cleanup of their counters |
| `LoginLimiterProofs` | its invariants, proved |
| `Members` | users, their teams, and the requests that change them |
| `MembersProofs` | its invariants and action properties, proved |
| `Sessions` | login, logout, passwords, expiry and cleanup |
| `SessionsProofs` | its types and action properties, proved |
| `AgentKeys` | agents, their keys and their teams, under members and administrators |
| `AgentKeysProofs` | its invariants and action properties, proved |
| `Registry` | creation and update of tools: validation, merge, failing statements, and the encryption of credentials |
| `ToolsProofs` | the invariants and action properties of `Registry` and `Budgets`, proved; sums of costs |
| `Paging` | keyset pagination as operators on sets of rows |
| `PageWalk` | abstract: what a client that walks pages may count on while rows come and go |
| `Listings` | the listings and reports of agents, tools and usage; implements `PageWalk` |
| `ListingsProofs` | that a walk descends and misses nothing, that refinement, and the scope of reports, proved |
| `MCCollector`, `MCLimiter`, `MCLoginLimiter`, `MCMembers`, `MCSessions`, `MCAgentKeys`, `MCRegistry`, `MCTools`, `MCListings` | values of the constants for TLC |

The modules compose in three places. `Collector` is shown to implement `UsageLedger`, and
`Budgets` uses that ledger in the collector's place: `Record` is its `Accept`, a flush its
`Commit` or `GiveUp`. `Admission` makes its calls with the actions of `RateLimiter`, so what
`RateBounds` shows of any sequence of calls holds of those that concurrent requests make. (A
request in `Budgets` starts where one in `Admission` is `"forwarded"`.) `Listings` is shown to implement
`PageWalk`, whatever the listing is of, so that what is proved of a walk holds of all of them.
(`Budgets` prefixes its specification with `B`, `Admission` with `A` and `Quotas` with `Q`,
because proof and MC modules extend them together with another module.)
`AgentKeys` and `Listings` see a write of `Members` as a user whose teams change (`SetTeams`,
and the teams in `Request`).

### Collector

A handler is named by the transaction it records. `pc` is where it is between critical
sections: `Append` is `Record` up to the unlock, `Notify` the callback and the test of the
length that was seen under the lock, `TakeBatch`/`FlushEmpty` the critical section of
`flush`, `ZeroGauge` its callback, and `InsertOK`, `InsertRejected`, `InsertFailed` the
outcomes of `BatchInsert`. `Tick` and `Stopped` are the cases of `Start`'s select. In
`serve.go`, `Stop`, `Shutdown`, `Drained` or `DrainTimeout` (the 10 s of the context), and
`Halt` are the steps of the way out, and `Halt` may also come at any moment, as a crash.
`Restart` starts a process on the same database; requests answered by the previous one are not
made again. `rows` are the agents and tools that exist, and `Delete` cascades into `table` as
the foreign keys say. `recorded` and `fate` are history.

Left out: the order of a batch, which nothing observes (buffers are sets); the contents of
a transaction, but for its foreign keys and for a cost that its column cannot hold
(`Unstorable`); the context of `Start`, which is cancelled only as `runServe` returns;
`pool.Close` waiting for connections in use (an INSERT running when the pool closes may end
as `InsertFailed`).

### RateLimiter and RateBounds

Every method of `Limiter` holds the mutex throughout, so a call is one step: `Grant` and
`Refuse` are `Allow` by its result, `Status` is `Status`. The code keeps tokens in a
`float64`; here they are whole units of 1/`Window` token, so `elapsed / window * rate` is exact. The
rounding of floating point is left out. A call reads the clock once or twice (a new bucket's
`lastRefill`, and `refill`); the model reads it once. `RateBounds` adds an arbitrary instant
`mark`, the requests granted since, the last grant and the last `X-RateLimit-Reset` sent,
truncated to a second as `middleware.go:41` does.

### Admission

`AgentStatus`, `AgentGrant`, `AgentRefuse` are the middleware; `Resolve` and `ResolveFails`
the query of the rates (an error lets the request through, as in `proxy.go`); `ScopeGrant`,
`ScopeRefuse` and `ScopeStatus` the loop of `CheckToolRateLimit`, which goes on after a
refusal and charges the later scopes too. `Configure` is an administrator's change of a
scope's rate at any moment. `paid`, `required` and `peak` are history. One tool is modelled:
keys of different tools never meet. An agent's own limit is a constant.

`Quotas` remembers of each request the `X-RateLimit-Remaining` that `Status` gave it (`shown`),
and counts the tokens that other requests of its agent take until its own `Allow` (`spent`).
`QuotaKept` says that a request which is refused although it was shown tokens has lost all of
them in this way.

### Budgets

`Begin` is a request that the rate limits have let through. `ReadBudget` is the row of
`agent_tool_budgets` and the clock, `ReadCap` the tool's own budget; `Sum` is one
`SELECT SUM(cost)` at its own instant; `Unchecked` is an error, or a missing row, on which
`ServeHTTP` admits. `Record` adds to the ledger with any cost from `Costs` (the tool's
price, or the reported one), `NotForwarded` is the way out without a record. `Settle` is the
collector, `SetBudget`, `SetCap`, `DeleteAgent` and `Midnight` the world. `arrival` (the day a
request began), `passed` and `last` are history.

Left out: deletion of the tool, which removes all at once; negative limits; zones other than
UTC (the code uses UTC throughout); fractions of a cent.

### LoginLimiter

`Load` is the first lines of `allow`, up to `LoadOrStore`; `Allow` and `Refuse` are its locked
section, by the answer. `Sweep` is the start of a `cleanup`, `Look` its callback's comparison
under the entry's mutex, `Delete` the deletion that follows the unlock. An entry is named by
the attempt that created it, because two entries of one address can be in use at once: the
one in the map and one that was deleted from under an attempt. The one abstraction of time is
that the clock does not tick while an attempt is between `Load` and its answer (the window is
a minute, the gap a few instructions and a mutex that is never held for long); `cleanup` may
be delayed at will. `Retry-After`, the rest of the window in seconds, is left out.

### Members

A request is a process: `BeginAdmin` and `BeginTeam` are its authentication by a session and
the check of its caller's role, against the row of that moment. `LoadAdd`, `LoadRemove` and
`LoadAdmin` are `GetByID` with the early returns that follow, `CountRemove` and `CountAdmin` are
`List` and the two different ways the code counts administrators, `Write` is the last
statement. No handler opens a transaction, so any other request may come between two of these.
`UpdateUser` without a list of teams writes at once, as the code does. `touched` is history:
the standings (of a user in a team, or in the organisation) that others changed since the
request began. The properties say exactly what such a change may excuse. `Fail` is a statement that
fails, or whatever else ends a request before its write; a write whose answer is lost is a write.

A row's `teams` is what the JSON list says of each team, in the order of its entries. The
administrators' handlers store any list, also one that names a team more than once: then
`RemoveTeamMember` takes the role from the team's first entry (`Head` in `LoadRemove`), counts
every entry (`AdminEntries`), and removes them all. A lone request can so take away a team's last
administrator: when the first entry says member, and when one user's two entries pass for two administrators.
`LastAdminGuarded` names this exception beside that of a request that was overtaken.

Left out: names, e-mail addresses and passwords (the last are in `Sessions`); `UpdateSelf`,
which writes a name; the order of entries of different teams, which nothing reads.

### Sessions

`BeginLogin` is `GetByEmail` with bcrypt's answer, `CreateSession` the INSERT; `BeginLogout` and
`BeginChange` the middleware, `CheckPassword` the `GetByID` and bcrypt of `ChangePassword`,
`WritePassword` its UPDATE. `SetPassword` and `DeleteUser` are the administrators' statements,
`Cleanup` that of the hourly goroutine. A password stands for its hash. A logout may leave the
session where it is: its handler ignores an error of the statement, and wants the scheme of the
header spelled `Bearer ` where the middleware ignores case (`auth_handler.go:111`).

### AgentKeys

`BeginCreate` and `Begin` are the middleware, which copies the caller's teams; `Load` is
`GetByID` with the comparison of teams; `Write` the statement. `Admin` is any handler of
`agents_handler.go`, a single statement each. `issued` and `touched` are history. A key stands for its hash; only
the random draw makes it unique, which the column's `UNIQUE` would enforce.

### Registry

Bodies are records in which a field may be `Absent`. `BeginCreate` and `BeginUpdate` are the
handlers up to the first statement, with `validateCreate` and `validateUpdate`; `Load` is the
cross-field validation of `Service.Update` over the row that `GetByID` returns, `Insert` and
`Write` are the statements, and the answer is what the handler replies. An endpoint is known by
what validation asks of it: whether it is a URL as it stands, and under which variables its
template resolves to one. `keyed` is whether this process has an encryption key; `Restart` may
change it. A statement sends `Columns`, in which `Encrypt` has sealed the credential if there is a
key; the column is JSONB, so the database refuses what is sealed (`Rejected`). Every call of the
database may also fail: before it changed its row or, with the answer lost, after, which the handler
cannot tell apart (`failed`, a 500 either way). `Decrypt` falls back to the stored text, so rows that
were written without a key stay readable, and reading needs no action of its own. `overtaken` is history.

Left out: fields that validation does not relate to others (name, pricing, limits, `auth_type`).

### Paging, PageWalk and Listings

`Paging` is the common part of `ListTransactions`, the lists of agents and of tools, and `Search`: the
order by (time, id), a page of at most `limit` rows after the cursor, an extra row fetched to
know whether to hand out a cursor, and the last row of the page as that cursor. `PageWalk` is
the client's view, with the visible rows changing at will between pages. In `Listings`, `Ask` says what the
client wants; `Request` is a request for the first or the next page, `Resolve` a lookup of
teams' agents (one statement for a member, one for each team for an administrator), `Answer` the
page, `Summarise` a `GetSummary`. `Create`, `Store` (a batch of the collector, with calls that
began before some already stored), `Delete` with its cascade, and `Move` are the world.
`returned`, `stable` and `moved` are history.

Left out: the filters `from` and `to`, which select by a column that never changes, as `tool_id`
does; `GetToolCallCounts`; a cursor that does not decode, and failing statements, which answer with an error.

## 3. Runs

| Run | Bounds | What it shows |
|---|---|---|
| `collector` | 3 transactions of 2 agents, one of them not storable, `BatchSize` 2 | `Accounting`, `BufferBound`, `NoOrphans`, `BatchAtomic`, that the ledger is implemented, and `UsageSettles` |
| `limiter` | calls: 1 key, rates 1 and 2, 10 ticks; requests: 2 of an agent with a team, 1 of an agent without, limits of 0 to 2, one window; a window of 2 ticks, 3 ticks a second | `RateBound`, `NoStarvation`, `ResetWithinASecond` for every sequence of calls; `AllScopesPaid`, `StricterWins`, `QuotaKept` for every interleaving of requests |
| `login` | 6 attempts from 1 address, limit 2, window of 2 ticks, 4 instants | `AttemptsBound`, `RefusalsEarned` |
| `members` | 2 users, 2 teams, 3 requests, 3 lists an administrator may send, one of which names a team twice, 3 initial tables | `LastAdminGuarded`, `OnlyAskedMembership`, `WriterHasAuthority` |
| `sessions` | 2 users, 2 tokens, 2 passwords, 2 requests, a lifetime of 1 tick, 3 ticks | `SessionEarned`, `PasswordEarned`, `ExpiredRemoved` |
| `agent_keys` | 1 member, 1 agent, 2 teams, 3 keys, 2 requests beside administrators | `OwnAgentsOnly`, `NoKeyRevives` |
| `listings` | 2 agents of 2 teams, 1 tool, 3 calls, pages of 1 or 2 rows | `CompleteWalk`, `ScopeKept`, and that `PageWalk` is implemented |
| `tools` | registry: 1 tool, 2 administrators that send requests without end, 3 endpoints, 2 sets of variables, 2 credentials, with and without a key; budgets: 2 requests of 1 agent, costs 1 and 2, budget 2 a day and 3 a month, tool's budget 3 a day or none, months of 2 days, 3 days | `ToolsStayCallable`; `OverspendBound`, `RefusalsEarned` |
| `collector_stop`, `usage_scope`, `tool_encryption` | as `collector`, `listings` and the registry of `tools` | disagreements of code and documentation: section 5 |
| `members_last_admin` | as `members`, with 2 requests, lists that name a team once, and a table with two administrators of a team | the same |

Why the bounds are enough to be interesting:

- `collector`: with three handlers and batches of two, two handlers and the loop can flush at
  once, a third transaction enters between a handler's unlock and its flush, a batch mixes
  rows of a deleted and a live agent, and `Halt` and `Restart` cut any of it. The proofs
  cover every number of handlers and every batch size.
- `limiter` and `tools` each hold two specifications side by side: a behaviour is one of the first or
  one of the second, by `part`, and leaves the variables of the other as they were. The two parts of
  `limiter` share the buckets, which is why the bounds of the window are common.
- `limiter`, calls: 2 does not divide by the second of 3 ticks, so resets fall inside seconds;
  at rate 1 a refill is half a token; 10 ticks are five windows. Buckets of different keys share
  nothing, so one key is enough, and the proofs cover any number.
- `limiter`, requests: one agent's two requests compete for every bucket they share, its own
  included, so either can take what the other was shown; the third competes for the tool's
  bucket only and skips the team's scope. A team's limit
  of 2, beside limits of 0 or 1 that come and go for the tool and the agent, makes a scope absent, stricter or looser than another.
- `tools`, budgets: 2 requests are enough for both to pass a check before either is stored; costs
  of 2 jump over a limit of 3; three days hold a month's end and a midnight in a month.
- `login`: six attempts are what the bound of 3 * 2 - 1 takes: one before the period, one in
  the rest of its window, two in the next, and two more after `cleanup` has deleted that
  one; 5 are reached, so the bound is tight. Addresses share nothing but the sweep.

- `members`: two requests that overlap are enough to lose an administrator or an update; the third
  makes a change that must not be an excuse for either. The lists take a user out of a team,
  name a team twice with both roles, and add the user to another; the tables start with an organisation's administrator, with
  two administrators who can remove each other, and with one user who creates the other. The proofs
  cover any numbers.
- `sessions`: a request overlaps a password change of another and the administrators' statements;
  two tokens let one session end while the other is live.
- `agent_keys`: one agent is enough for a request to hold a stale row of it, three keys for
  two replacements after the first. The proofs cover any numbers.
- `listings`: with pages of one row, three calls make a walk of three pages, between which the other
  rows are stored, moved and deleted; two rows share a time, so that ids decide.
- `tools`, registry: two updates interleave between load and write in every combination of fields; the
  endpoints are a plain URL, a template that is a URL as it stands, and one that is only when resolved.

Bounds on otherwise unbounded things are `MaxTime` and `MaxNow` (clock ticks), `MaxDay` (the calendar)
and `MaxPage` (the largest page, which holds every row). All other sets are finite because a request is handled
once and an id or a key is drawn once; in `Registry` a request is a slot that is used again. `SYMMETRY` is used for
requests, ids or attempts from the same address, which no definition tells apart, and only in runs without
liveness. `CHECK_DEADLOCK FALSE` stands where the bounded clock makes the model stop and every
request has ended; `collector`, `collector_stop` and `tool_encryption`, whose processes can always restart, are checked for deadlock.

**Fairness.** `UsageSettles` and `ExpiredRemoved` need it. `FairSpec` of `Collector` assumes weak
fairness of three things: `Notify` and `FlushStep`, because the Go scheduler runs a runnable goroutine and
`flush` gives its INSERT a deadline of 10 s (whatever the database does, it returns); and
`Tick`, because the ticker ticks and the loop's select waits for nothing else. Requests,
answers of upstreams, deletions, signals and crashes are not forced. The property excuses a gateway that is
stopping: section 5 says what happens then. `Sessions` assumes weak fairness of `Cleanup`: the
ticker of `serve.go` fires every hour while the server runs, and a failed statement is tried again
an hour later, so a database that answers now and then is enough.

## 4. Proofs

TLAPS proves the following for every value of the constants, under the `ASSUME`s in the
modules (finite sets, natural numbers, disjoint names), which TLC evaluates in the runs.

- **Collector** (`CollectorProofs`). `Accounting` is not inductive by itself: that a batch is
  empty outside a flush (`HandsEmpty`), that a dead process has no loop (`Exited`), and that a
  handler records once (`Fresh`) are needed to see that `TakeBatch` and `Append` do not
  duplicate. `IInv` is their conjunction with `TypeOK`. From it follow `TypeCorrect`,
  `AccountingHolds`, `BatchAtomicHolds` and, step by step, `LedgerImplemented`: every action
  is one of the ledger's or a stutter. `BufferBoundHolds` is a second induction on top of
  `IInv`, with cardinalities: a handler enters `Owing` exactly when it makes the buffer full.
  `NoOrphansHolds` needs the types only.
- **Limiter** (`LimiterProofs`). `RateBound` says what was granted; the induction also has to
  say what may still be. `Paid` adds the tokens left in the bucket to those granted, and bounds
  the sum by a full bucket and the yield since `mark`. `Kept` says the bucket holds the yield of
  `MinRate` since the last grant or a token, and `Reached` that the deficit the client was told
  of has shrunk by what has been refilled. `HInv` is their conjunction; the lemmas `RefillPaid`,
  `RefillKept` and `RefillReached` carry the multiplications, and the steps are a grant
  (`GrantStep`) or a look (`LookStep`, for refusals and `Status`).
- **Admission** (`LimiterProofs`). `AllScopesPaid` speaks of the end of the loop. In `AInv`,
  `Sound` says for every request that each scope it must pay is paid, still to do, or the
  verdict is already a refusal. `StricterWinsHolds` relates the
  number of requests that paid in a scope to the tokens of its bucket (`Funded`, by `Covered`):
  granted and left together never exceed what a bucket of the highest rate resolved so far
  could have yielded. It needs that the rates on the list of a request were counted in that
  highest rate when they were read (`Rated`), although an administrator may have changed them since.
  `QuotaKeptHolds` says of a request between its `Status` and its `Allow` that what it was shown
  is in its agent's bucket or counted in `spent` (`Unspent`). A call on a bucket finds no less in
  it than was left (`AgentCurrent`, because the bucket of an agent runs at one rate and is
  never above its cap: `Steady`), and only a grant takes a token, which `spent` counts;
  a refusal finds no whole token.
- **Login limiter** (`LoginLimiterProofs`). `Counted` says that an entry's count is the number of
  attempts it has allowed since its `windowStart`, for every entry, also for one no longer in
  the map; `InWindow` that each of them is younger than the window, so that a reset loses
  none; `Holding` that an attempt holds an entry of its own address. `RefusalsEarnedHolds`
  follows: what a refusal found on the count was allowed less than a window ago.
  `AttemptsBoundHolds` needs the order of an address's entries. A window opens with an attempt
  that it allows (`Opened`), so what an entry allowed in the window before `windowStart` falls short of
  the limit (`Spaced`): this is the `- 1` of the bound. `cleanup` deletes an entry only when
  its window is over, so its last two deletions of an address are a window apart, and there is a time
  before which everything was allowed by entries that are gone, and in the window before it by
  one of them (`Split`). `Order` is the conjunction. A period as long as the window then meets
  the allowed attempts of at most three windows, one of which is not full.
- **Budgets** (`ToolsProofs`). Costs are added up by a fold over a set, and the induction over finite
  sets that a fact about such a sum needs cannot be cited from the library, whose theorem
  takes an operator. It is done in first-order terms instead: `Smallest` (from the well-founded order of
  strict inclusion) gives a least set in any set of counterexamples, `Growing` turns that into
  an induction over the subsets of a set, `SumExists` constructs a function that adds, and
  `FoldAdds` shows that the fold is it. `TotalGrows` (more requests, at higher costs) and `TotalSplits`
  (of a union) are what the invariant uses; `Windowed` is the calendar. The invariant is
  `Kept`. For `OverspendBound`, a request that was found below a limit and may still
  spend was open when the limit was last respected (`OpenCovers`), so that the others, which
  are `Closed`, have spent less than that limit (`Below`): at that moment by the sum that was just
  taken, and afterwards because `Closed` only shrinks and windows only move on. For
  `RefusalsEarned`, a check asks for the spending since the start of the day, or of the month, in which the request
  arrived, or since later, under a limit that is one of the agent's or the tool's (`Asked`); and a check that
  has found a limit reached, and goes on, has found it for good (`Refusing`), because the sum over
  all recorded requests never falls, even where an agent's deletion removes stored ones.
- **Registry** (`ToolsProofs`). The answer of a validation is carried to the statement that acts on it:
  the body of a creation is `Insertable`; the body of an update is valid by itself at any time,
  and its merge with the row is valid for as long as no other request has written that row
  (`Applicable`, with the history `overtaken`). `ToolsStayCallableHolds` reads it at the UPDATE,
  where `MergeKeepsCallable` is the merge; `WhoWrites` says that nothing but the three
  statements changes the table. A statement that fails after its change is a case of the same step.
- **Members** (`MembersProofs`). What a request holds was right when it was read. The invariant
  keeps it right, or names the change that spoiled it: the caller still has its authority or lost it
  (`touched`); the list of a team request agrees with the table on every team but the one asked
  for and those touched; and a request that has counted either left another administrator in
  each team it takes one from, or somebody's standing in that team was touched, or removes a user
  whose list repeats the team. (For the others, two entries of administrators are two users: `AdminEntries`.) Each of the
  three action properties is that invariant read at the request's write.
- **Sessions** (`SessionsProofs`). Between the comparison of a password and the statement that
  relies on it, the password is the one that was compared or its user was touched (`Held`).
  Whoever writes a user's row touches that user for every other request (`TouchHeld`), so it survives
  every step; the two action properties read it at the write. The types include that a session's
  user exists, which the cascade of a deletion keeps.
- **AgentKeys** (`AgentKeysProofs`). The types include that the keys in the table are issued and
  pairwise different; with it, a new key comes from outside `issued`, and no statement writes an old
  one (`KeysStayDead`). For `OwnAgentsHolds`, a request that has loaded its agent found it in one of the
  caller's teams, and both still stand or are marked in `touched`.
- **PageWalk and Listings** (`ListingsProofs`). In a walk, nothing that was visible since the first
  page is skipped: it is returned already or still after the cursor; and nothing returned is after
  the cursor (`WInv`). Both use that the order of positions is total and that a finite set with
  more than `n` rows has `n` of them on a page. `ListingIsAWalk` maps each action of `Listings`: an
  answer is a page, a new question starts a walk, everything else is a change of what is visible.
  It needs `Seen`: between two pages the question and the result of its lookup stay, so
  what `stable` records was visible all along. `ListingComplete` and `ListingDescends` follow from the walk's
  theorems by the refinement. `ScopeKeptHolds` needs `Lookup`: the agents found so far were in the teams
  asked for when they were looked up, or have moved since.

With these, every invariant and every action property of the passing runs, and both
refinements, are theorems. Only model-checked are `UsageSettles` and `ExpiredRemoved` (liveness
under fairness is out of the prover's reach). The invariants of the inductions were themselves checked
with TLC, on small instances, before they were proved.

## 5. Where the code and its documentation disagree

Four disagreements are runs whose property states the quoted sentence and which TLC refutes:

- `collector_stop`. *"Stop signals the background goroutine to exit and performs a final
  flush"* (`internal/metering/collector.go:122`). `Stop` only closes a channel, and `runServe`
  calls it before `srv.Shutdown`: handlers that end while the server drains append to a buffer
  that nobody flushes. `runServe` does not wait for the final flush either.
- `usage_scope`. *"Own team's usage summary"*, *"Own team's transactions"* (`DEVELOPING.md:239-240`).
  A member's report looks up the agents of its teams and passes their ids on. `buildWhereClause`
  (`internal/metering/store.go:198`) makes a condition of a list only if it is not empty, so a
  member without teams, or whose teams have no agents, is shown everybody's usage.
- `members_last_admin`. *"checkLastTeamAdmin verifies that removing admin memberships from a user
  would not leave any team without an admin"* (`internal/api/users_handler.go:23`), *"Enforce at least
  one team admin constraint"* (`internal/api/teams_handler.go:265`). Both list the users, count, and
  write in a later statement without a transaction: of two administrators who are removed at the
  same time, each is counted for the other. `LastAdminGuarded` says when the check can be trusted; the
  removal of a user whose list repeats the team is another way around it, which needs no second request.
- `tool_encryption`. *"Tool credentials are AES-256-GCM encrypted (when `OCTROI_ENCRYPTION_KEY` is
  set)"* (`README.md:96`), *"An optional cipher encrypts auth_config at rest"*
  (`internal/registry/store.go:23`). `auth_config` is a JSONB column (`migrations/000001_initial.up.sql:7`)
  and the ciphertext is base64 text (`internal/registry/store.go:91`), which is not JSON. With a key, every
  creation of a tool and every change of credentials is rejected, and none is stored encrypted.

The models show more, which the properties take into account:

- A batch is one INSERT: one row that the table refuses takes the other rows of its batch with
  it, and they are not retried (`internal/metering/collector.go:114`; `BatchAtomic`), where
  `DEVELOPING.md:68` says *"Every proxied request is logged asynchronously"*.
- The gauge of *"buffered metering transactions"* (`internal/metrics/metrics.go:105`) is set after the unlock, so a stale report can
  follow the 0 of a flush and stays until the next call.
- *"Wait for `X-RateLimit-Reset` then retry"* (`AGENT_INSTRUCTIONS.md:62`): the time is rounded down
  to a second, so with a limit of one request per window that retry is refused once more. `ResetWithinASecond`
  says by how much. It speaks of the header of a refusal, and of `Status` alone: a request that is granted
  carries the time computed before it spent its own token, which is earlier by that token.
- *"Requests exceeding a budget get HTTP 403"* (`README.md:88`): spending that is still in the
  collector is not counted. `OverspendBound` says by how much a budget may be exceeded.
- *"cleanup removes entries whose window has expired"* (`internal/api/router.go:76`): it unlocks the
  entry before it deletes it, and an attempt in between has renewed it. `AttemptsBound` says what that
  costs: with 5 per minute, up to 14 in a minute (a fixed window alone allows 9).
- An update that names mode `service` together with an endpoint skips both validations of that endpoint
  (`internal/registry/service.go:157`); `ToolsStayCallable` has to make an exception for it.

Some hazards are named by a property as its exception, and so happen in the code and in the model:
two updates of a tool that are valid one by one and not together (`overtaken` in `ToolsStayCallable`), the
update with mode `service` above, and a membership that a concurrent write of the whole list undoes
(`touched` in `OnlyAskedMembership`). What is checked is that nothing else goes wrong in their place. Two
more have no property, because the code promises nothing: a batch is as large as the handlers in flight
make it, though a statement takes 5041 rows (`internal/metering/store.go:32`); and a session
goes on after a change of password, and is not looked up again after the middleware.

## 6. Not modelled, and what is left

Not modelled, for good: rendering of metrics and their percentiles, the manifest, configuration, migrations, the seed
command, the UI, audit lines and the formatting of errors. They are conversions or I/O
without state that these properties could tell apart. Headers, bodies and URLs in the proxy
are data, and so is AES-GCM.

Left for later: an administrator's change of an agent's own rate limit in `Admission`; negative limits and the deletion of the tool in `Budgets`; a client that resumes an old
cursor in `Listings`.
