# A verification project for hero_quant

hero_quant is a multi-tenant agent platform for quantitative research: an HTTP
server, an agent that calls tools, and the services around them.  Most of its
code is numerics, text and I/O.  What can go wrong in ways that a unit test hardly
reaches is its coordination: several workers on one queue, several processes with
one idempotency key, several connections on one hash chain, several threads on
one circuit breaker, a loop that must end with the text it checked, caches and
files and tables that must agree.  That is what the modules here describe, check and prove.

Paths are relative to `src/src/hero_quant/` of the repository unless they start with `db/`.

## 1. Inventory

| component | state it keeps | operations | interacts with |
|---|---|---|---|
| long-task queue (`runs/`) | tables `runs`, `run_steps` | enqueue, claim (SKIP LOCKED), heartbeat, finish, fail, request and settle a cancel, reap; `RunContext.step` | workers by SQL only; API; the sessions share the table `runs` |
| run API (`runs/api.py`) | of a stream: the last status and the progress told | submit, cancel, event stream by polling | queue, step ledger |
| tool deduplication (`governance/dedup.py`, `tools/registry.py`) | one record per idempotency key in SQLite or PostgreSQL, a copy in each process | claim (`insert_pending`), mark, get with expiry, wait and replay | the agent loop calls tools through the registry |
| audit chain (`audit/chain.py`, `audit/store.py`) | `audit_log` (append-only by trigger), `audit_chain_head` | append, verify, export, archive | kill switch, secrets, sessions report to it |
| circuit breaker, token buckets (`telemetry/circuit.py`) | sliding window, state, probes; tokens | allow, record a success or a failure; acquire from both buckets, read, reset | shadow risk checks, LLM gateway, MCP router |
| LLM gateway (`llm/gateway.py`) | a breaker and a counter of consecutive failures per provider, last usage | complete, stream, health | breaker, agent loop |
| agent loop (`agent/loop.py`), its trace (`agent/trace.py`) | text, evidence, budgets, attempts of one conversation; a file of lines with sidecars | stream from the model, run tools, check the figures, look at the budgets, save, go on or end; append a record, read the trace | gateway, tools, checkpoints, memory; the server runs it |
| checkpoints (`checkpoint/postgres.py`) | numbered states of a thread and its pointer, in two tables | put, put the pointer, read it | agent loop |
| sessions (`session/store.py`) | sessions, messages, `runs`, `tool_calls` | append a message, page behind a cursor, start and finish a run, record and complete a tool call | table `runs` of the queue, audit |
| kill switch (`killswitch/switch.py`) | a Redis key per scope and target | enable with audit and rollback, disable, check by three reads | Redis, audit; the server's gate |
| quota (`auth/quota.py`) | a Redis counter per tenant and day | consume with rollback, read | Redis; the server charges it |
| HTTP and WebSocket server (`api/`) | tickets; channels of sockets, heartbeats, presence keys; degraded reasons of a request; verdicts of readiness; the bundle of the research page in each process and in Redis | query and its stream, from the ticket to the charge; `/ready`; the four routes of the bundle; issue and consume a ticket; connect, receive, evict | everything above |
| Redis infrastructure (`infra/redis.py`) | windows and locks in Redis; fallbacks in memory | acquire by script, or under a lock that expires | quota, sessions |
| billing (`billing/service.py`) | purchases, a mirror in each process, a queue of entries to replay | sell with check, row, ledger entry, compensation; replay | ledger |
| order ledger, reconciliation (`governance/`) | hashed lines in a file and its segments, a cache of what was verified | append, rotate, verify one file or all; reconcile a day | billing, shadow account |
| scheduler (`scheduled/service.py`) | a memo and locks of each process, a lock in Redis | dispatch the playbook of a day once; next time of a cron expression | agent loop |
| memory (`memory/store.py`, `lifecycle.py`) | files, an SQLite index, vectors, three caches | write, index, search, collect, reconcile at start | agent loop |
| market data (`data/`) | files per day and a manifest per snapshot, or two tables | write daily bars, read them as of a day | backtest, research |
| backtest (`backtest/`) | none between two calls | judge what is asked, go through the bars, report | server, tools |
| secrets (`secrets/`) | two versions of a secret in a file | begin, complete a rotation | audit; no caller in the repository |
| approvals, quantlib, risk, pricing, sandbox, MCP, filters, front end | none, or of one call | pure functions, loaders, processes | |

What is hard, per component (each is listed with its line under `hazards` in `PROJECT.json`):

* **queue**: a worker presumed dead that comes back beside the one that took its run
  (fencing by `attempt`); a cancel that races a heartbeat, a finish, the reaper; the
  budget of attempts counted by three statements; calls that commit without an answer.
* **deduplication**: claims of several processes; a time-to-live that passes while
  the tool still runs; a database that fails between claim and mark; expiry read in one
  statement and acted upon in another.
* **audit chain**: the first append of a tenant has no row to lock; a verification by
  several statements beside appends; two locks.
* **breaker and limiters**: results that arrive after the state has changed, reports that
  never arrive, probes admitted together; a clock read before a lock is taken.
* **agent loop**: a tool that was given up and still runs; a stream that fails half-way
  and is retried; a check that comes before a cut; budgets that end a run in the middle.
* **checkpoints**: two runs of one thread; a pointer that cannot be read.
* **server**: an answer that exists before its charge is refused; tickets whose
  consumption fails after its effect; a socket that reconnects while it is evicted.
* **stores of money and records**: a row, a receipt and a ledger entry that are
  written one after the other; a rotation beside an append; a write that stops in its line.
* **memory**: a file and its rows written one after the other by threads that share a
  transaction; caches that are cleared while a search is under way.
* **scheduler**: a lock that expires under its holder; a search that jumps over months.
* **files that several append to**: the start of a line that a crash has left; names and
  bytes that reach the disk at different times; what is read before a file is replaced.
* **readiness**: one pool whose threads wait for other threads of it.
* **bundle**: a computation of seconds outside of every lock, beside three copies.
* **gateway**: a count of failures before a breaker that has a count of its own.
* **backtest**: a decision of one bar that is executed at prices of the next.

What would make each component correct: the queue executes a run under one token, never
stores the result of a stale attempt and always ends a run; a key leads to one execution
and one answer; a log that nobody touched is one chain and verifies, one that was
touched does not; a breaker admits little while it probes, recovers, and is moved by
current results only; a run of the loop ends and reports "completed" only for the text that was
checked; what was granted fits the budget and what was not charged is told; a ticket
admits once; what was acknowledged stays in the ledger; a sale is booked; a playbook is executed as
often as its locks promise; a file and its index agree; a search is not stale for ever; a
stream ends with its run; whoever asks for readiness is told, and of a refusal there is a cause; a reader never
sees what was not known by the day asked for; damage is refused before it is reported on.

## 2. Modules

| module | models | checked in | proved in |
|---|---|---|---|
| `RunLifecycle` | what the queue promises: the life of each run | property of `RunQueue` | `RunQueueRefinement` |
| `RunQueue` | `runs/store.py`, `worker.py`, `steps.py`, `cli.py` | `MCRunQueue` | `RunQueueProofs` |
| `ToolDedup` | `governance/dedup.py`, `execute_tool_call` | `MCToolDedup`, `MCStores` | `ToolDedupProofs` |
| `AuditChain` | `audit/chain.py`, `AuditStore._tx`, migrations 0003 and 0006 | `MCAuditChain`, `MCBooks`, `MCServices` | `ServiceProofs` |
| `CircuitBreaker` | the methods of the breaker, as functions of it | through `BreakerCalls` | `ProgressProofs` |
| `BreakerCalls` | threads that guard calls by a breaker (`shadow/service.py`, `llm/gateway.py`) | `MCBreakerCalls`, `MCProgress` | `ProgressProofs` |
| `AgentLoop` | one run of `agent/loop.py` | `MCProgress` | `ProgressProofs` |
| `WsChannels` | the sockets of one user and their monitor (`api/ws.py`) | `MCProgress` | `ProgressProofs` |
| `AgentCheckpoints` | checkpoints of one thread (`checkpoint/postgres.py`, `agent/loop.py`) | `MCStores` | `RecordProofs` |
| `Sessions` | messages and tool calls of a session (`session/store.py`) | `MCStores` | `RecordProofs` |
| `KillSwitch` | `killswitch/switch.py` and the gate | `MCStores` | `AdmissionProofs` |
| `TenantQuota` | `auth/quota.py` | `MCStores` | `AdmissionProofs` |
| `QueryRequests` | `GET /v1/query` and its stream (`api/server.py`), over `TenantQuota` | `MCStores` | `AdmissionProofs` |
| `RedisLimiter` | the sliding window and its lock (`infra/redis.py`) | `MCStores` | `AdmissionProofs` |
| `TokenBuckets` | the two buckets of `telemetry/circuit.py` | `MCStores` | `AdmissionProofs` |
| `LedgerFile` | `governance/ledger.py` | `MCBooks` | `RecordProofs` |
| `FactorSales` | `billing/service.py` with its ledger entries | `MCBooks` | `BookProofs` |
| `PlaybookDispatch` | `dispatch` of `scheduled/service.py` | `MCBooks` | `BookProofs` |
| `CronTrigger` | `get_next_trigger` of `scheduled/service.py` | `MCBooks` | `BookProofs` |
| `SseTickets` | tickets of `api/security.py` | `MCStores` | `AdmissionProofs` |
| `BundleCache` | the bundle of the research page (`api/server.py`) | `MCStores` | `RecordProofs` |
| `Reconciliation` | `governance/reconcile.py`, over `LedgerFile` | `MCStores` | `RecordProofs` |
| `RunEvents` | the event stream of a run (`runs/api.py`) | `MCServices` | `ServiceProofs` |
| `Readiness` | `GET /ready` (`api/server.py`) | `MCServices` | `ServiceProofs` |
| `ProviderFallback` | `llm/gateway.py` over a chain of providers, with `CircuitBreaker` | `MCProgress` | `ProgressProofs` |
| `Backtest` | `BacktestEngine.run` and its metrics | `MCBooks` | `BookProofs`, but for the numbers |
| `PitStore` | `data/pit_store.py`, and the answers of `data/snapshot.py` | `MCStores` | `RecordProofs` |
| `TraceFile` | `agent/trace.py` | `MCStores` | `RecordProofs` |
| `MemoryNotes` | notes, index and collector of `memory/` | `MCBooks` | `BookProofs` |
| `MemorySearch` | search over its caches (`memory/store.py`) | `MCBooks` | `BookProofs` |

### RunQueue

`row[r]` is the row of `runs`, `ledger[r][s]` the attempt whose insert into `run_steps`
won, `arrived` the clock behind `created_at`, `worker[w]` the process: the label it is at,
its run, its token (`attempt`), the status it cached, whether its lease is held and its
heartbeat thread alive.  Each SQL statement is one action because each is one
autonomous UPDATE whose WHERE clause is its guard: `Claimed`, `Finished`, `Failed`, `Reaped`,
`MaySettle` are the SET and WHERE parts.  What lies between two statements of a worker is a
label, so that the reaper, the API and other workers may act there.  Faults are actions:
`Crash`, `HeartbeatDies`, `HandlerCallFails` (with or without the effect committed),
`SettlingCallFails`, `LeaseExpires`.

`RunLifecycle` has one variable, the life of each run (status, attempts, result), and
seven moves; the refinement maps the row onto it.

### ToolDedup

One key: keys do not interact.  `row` is its record in the store, `mem[h]` the copy in process
`h`, `call[c]` a call of `execute_tool_call`: claim, run the tool, mark, or wait and
replay.  `deployment` never changes: it says which backend is used (`Postgres`) and whether
its statements answer always, sometimes or never (`StoreAnswers`; the last is PostgreSQL
behind the asynchronous pool, whose synchronous path gives up at once).  The TTL is the action
that makes a record stale, `expired` counts it, `granted` counts the claims.

### AuditChain

One tenant: the lock and the chain are per tenant.  `log` is the committed table, `head` the
chain head, `rowLock` and `xactLock` the two locks of an append, `writer` and `verifier` the
transactions, a label and what they have read.  A digest is the sequence of what went into
it.  `Repair` is somebody who disables the trigger and rewrites, deletes or archives a row,
or drops the head; `changed` remembers it.

### CircuitBreaker, BreakerCalls, TokenBuckets, RedisLimiter

A method of the breaker runs under its mutex, so it is a function from a breaker
to a breaker.  `BreakerCalls` adds the threads: `Ask` is `allow()`, `Succeed` and `Fail` the
record, `Abandon` a call that never reports, `Tick` time.  `call[t]` remembers how a call
was let through and `passed` how many probes succeeded; both only observe.

A bucket has a mutex each; `try_acquire` takes the burst's first (`TakeBurstLock`) and then
decides on both (`Acquire`), while reading and resetting visit one after the other.  `mark` is an arbitrary instant
from which `drawn` counts, so that `RateIsBounded` speaks of every window.  `RedisLimiter` has
the script as one step and the fallback as four under a lock with a time to live
(`scripts` says which, for a whole behaviour); a caller reads the clock first.

### AgentLoop, AgentCheckpoints

One run is one thread, so each step of `AgentLoop` is what lies between two places where something
else may happen: a chunk of the stream, a tool that ends, fails or is given up, the
clock.  `text` is a sequence of fragments that remember their iteration and whether they state
figures; `began` is what `_rollback` goes back to.  `charged` is the budget breaker, `usage` what
the run reports.  `zombies` are tools that were given up and still run.  The checkpoints appear as
the reasons they carry (`saved`); where they go is `AgentCheckpoints`: the two tables
(`table`, `legacy`), the pointer as number 0, runs that start where the pointer says, follow
each other, stop half-way or run side by side, and a database that fails without a word.

### Sessions

An id is taken when a message is inserted and seen when its transaction commits; the client
asks for pages behind its cursor.  `overtaken` are the messages that commit behind it, which is the
one exception the code makes.  `toolCall` is the row of one key, `repeat` the callers that
record, run and complete it.

### KillSwitch, TenantQuota, QueryRequests

`switch` is the key of a tenant's switch, of the tool for this tenant and of the tool for
everybody, each with the number of the enable that set it; the gate reads them one after the other.
`TenantQuota` is the counter with one step per Redis command.  `QueryRequests` extends it:
a request is a consumer, so its charge is `Consume`, `TakeBack`, `Grant` of the quota and
nothing else.  What the loop did is its outcome: tokens used, a stream given up, an exception and the
rerun that follows it.  `log` is what was audited of a request.

### SseTickets, WsChannels

A ticket is in Redis or in the memory of the server that issued it; its consumption goes through
GETDEL, the script and the memory, each of which may fail after its effect.  `WsChannels` has the
handlers of the sockets of one user, the record of the last message of their channel, the
presence key and the monitor; steps between two awaits are atomic because one event loop runs them.

### LedgerFile, FactorSales

Files are numbered because a handle outlives a name: `path` and `archive` are names.  What is done
under the lock of a file is one step; a rotation looks first and renames later.  `spoiled` is
what a fault took: an edited line, a line glued onto one that had lost its end.  `FactorSales` follows one factor and one buyer
through lock, mirror, INSERT with its conflict, ledger entry, compensation and queue.

### PlaybookDispatch, CronTrigger

`redis` says for a whole behaviour whether there is a Redis, and whether it fails; `lapses` counts the
expiries of its lock, `life` the restarts of a process.  `CronTrigger` is the search as
a state machine over a small calendar (months of 2 and 3 days, of which every other
second month of the year has a third), for every expression of a set of parts, with the union of days of month
and days of week.

### MemoryNotes, MemorySearch

`rows` are the committed rows, `uncommitted` the open transaction of the one connection all
threads share; a commit takes what is there, whoever wrote it.  `believed` is what a caller was
last told, and `strained` marks the notes of which the code promises nothing until the next
undisturbed success.  `MemorySearch` follows one note in one query; its contents are
numbered versions, `sidecar` is the vector table, `outdatedFor` how long a version has
not been readable anywhere.  Searches take at most `Slow`.

### RunEvents, Readiness, BundleCache

`RunEvents` follows one client beside a run that moves as `RunLifecycle` allows (`Life`), whatever moves
it: `told` is what the client has been told, `stream` where the poll is.  The row and the steps are read in two
transactions, and either read may fail.  `Readiness` has one `task` per level of a check and request,
a `line` of tasks that wait for a thread of the pool, deadlines that count down, and
what the probe said (`readyCache`); time passes only when no thread can go on.  `sinceGood` and `sinceTrouble` are
histories that its properties speak of.  In `BundleCache` a visitor goes through the memory of its process, the copy and
the lock in Redis, the computation and the publication; `mishaps` records what failed.

### ProviderFallback

One caller asks the providers in turn: a chunk that was passed on ends the fallback.  `gate[p]` is the
breaker of a provider and the count of consecutive failures before it; `voices` are the providers
that the answer of a call comes from, `streak` and `sinceRow` the failures in a row.  A health check may come first.

### Backtest

A market of a few bars, by closes or by opens as well, weights, a rate of cost and the kind of what is asked are
chosen initially; `Bar` is one step of the loop.  Numbers are exact fractions, so that the properties compare without a tolerance.

### PitStore, TraceFile, Reconciliation

`PitStore`: `part` is the file of a day, `manifest` what was stated for a snapshot; a writer reads and replaces
one day after the other and writes its manifest last.  `rivals` are the snapshots and days that two writers had at once.
`TraceFile`: `pieces` are whole lines, starts and rests of lines; `syncedTo`, `onDisk`, `named` and `traceNamed` say what survives
a loss of power; `sure` are the records that were appended with nothing failing on the way.
`Reconciliation` extends the ledger with the one who reads it: three verifications of segments and file, each read under the
lock of its own file, and a last read for the trades.

## 3. Runs

| run | question | bounds |
|---|---|---|
| `zombies` | do fencing, budget, checkpoints and lifecycle hold with zombies of two earlier attempts and every fault? | 1 run, 3 workers, up to 3 attempts, 1 step |
| `live` | does each run end although workers crash and handlers raise, and does one run starve another? | 2 runs, 2 workers, 2 attempts |
| `cancel` (violated) | does an accepted cancel complete? | 1 run, no fault |
| `zombie_steps` (violated) | does a stale worker record nothing? | 2 workers |
| `stores` | what do an agent and the requests for it leave in stores? | see below |
| `dedup_purge` (violated) | is each execution paid for by an expiry, with SQLite? | 4 calls, 1 expiry |
| `dedup_async` (violated) | do two processes exclude each other behind the asynchronous pool? | 4 calls |
| `services` | what is served, and does it end? | see below |
| `books` | what is to be written, sold, started or let in once? | see below |
| `audit_alarm` (violated) | is a log nobody touched ever reported? | 2 writers |
| `progress` | what goes on under faults, and after the last one? | see below |
| `breaker_probes` (violated) | are probes limited? | 3 threads |

`stores`, `books`, `services` and `progress` check several components in one run.  These share no
variable, so their product would say nothing that they do not say one by one: a variable
`focus`, chosen initially, names the component whose actions a behaviour takes, and the
others stay in their initial states.  The few equations beside `focus` in `MCInit` only fix the initial value
of a component that is not explored, and the fairness of `MCFairSpec` is that of the
modules, restated for the component in focus.  Components that do interact are composed in
their modules: requests with the quota, sales with ledger entries, notes with their index, checkpoints
with the loops that leave them, the reconciliation with the ledger that others write, the gateway with its breakers.

| component in focus | property | bounds |
|---|---|---|
| `stores`: deduplication | `OnceIfStoreDecides`, `PaidIfPostgresDecides`, `RepliesAreRight`, `SettledWithinTTL` | 4 calls, 2 processes, 4 deployments, 2 expiries |
| checkpoints | `ConversationInv`, `CoveredIsKept` | 2 runs, 2 numbers, a TTL of 1 |
| session | `ConversationInv` | 3 appends, pages of 1, 2 callers of one key |
| kill switch | `GateInv` | 2 operators, 2 enables, 1 request, 3 keys |
| quota | `BudgetInv` | 3 consumers of 1 or 2 in a budget of 3, asked for 6 |
| requests | `BudgetInv` | 2 requests, 1 rerun, the same budget |
| limiters | `LimitsInv` | 2 callers, limit 2, window 2, lock 2, 4 times; 2 threads, buckets of 3 and 2, 5 times |
| tickets | `GateInv` | 2 tickets, 2 servers, 2 bearers, room for 1 in memory |
| bundle | `ShownInv` | 2 servers, 2 visitors, 3 visits, 2 troubles |
| reconciliation | `ReportIsSound` | 2 processes of which 1 rotates, 1 tenant, 3 appends, full at 2, 1 reconciliation |
| bars of a day | `ShownInv` | 2 snapshots that share a day, 2 writers, 1 reader, 3 calls of one and 1 of the other |
| trace | `ConversationInv` | 2 writers, 3 records, 2 failures, crashes or losses of power |
| `services`: appends | `Integrity`, `AppendOnly`, `AppendsEnd` | 3 writers, 4 ids |
| event stream | `ServingInv`, `ServingEnds` | 1 client, runs of 1 or 2 tries, 2 steps |
| readiness | `ServingInv`, `ServingEnds` | 2 requests, 1 database and 1 service that only warns, 4 threads |
| `books`: verify | `VerdictIsRight` | 2 writers, 1 verifier, 3 ids, 2 contents, limits 0, 1, 2 |
| ledger | `LedgerInv` | 2 processes of which 1 rotates, 2 tenants, 4 appends, full at 2 |
| sales | `SalesInv`, `CompensationIsOwn` | 3 calls in 2 services, 2 sales |
| dispatch | `ScheduleInv` | 3 calls in 2 processes, 1 expiry, 1 restart each |
| cron | `ScheduleInv` | 4 months, 2 hours of 2 minutes, 8 starts, horizon of 4 days |
| notes | `MemoryInv` | 1 note, 1 summary, 2 texts, 2 threads, 3 calls, 2 mishaps |
| search | `MemoryInv` | 2 processes of which 1 writes, 1 write, cache time 1, searches up to 1 |
| backtest | `BacktestInv` | 4 bars, 1 or 2 assets, 273 series of prices, 10 sets of weights, 8 kinds of what is asked |
| `progress`: breaker | `HalfOpenAllows`, `ProbesAreIsolated`, `OutageNotProlonged`, `Recovers` | 3 threads, 2 probes, 4 faults |
| loop | `AgentInv`, `AgentEnds` | 2 iterations, 2 attempts, 2 chunks, 2 tools, one of them read-only |
| sockets | `WsInv`, `GhostsAreEvicted` | 2 sockets, a timeout of 2, 1 keepalive |
| gateway | `AgentInv`, `AgentEnds` | 2 providers, 2 failures in a row, 3 failures, 3 events that count |

An invariant named `...Inv` is a conjunction of named parts, each with a comment of its own in
the module.  Those of two components that one run explores are joined in its MC module (`ConversationInv`
is `CkptInv /\ SessionInv`, and so on), and so are `AgentEnds` and `ServingEnds`; a mutant breaks one of their parts.  The deep ones are these.

* `VerdictIsRight`: verify never blames an untouched row, ok covers every row counted, a
  verification alone with the log is right, a change made before is never called ok.
* `RepliesAreRight`: what is replayed succeeded somewhere, and all that wait get one answer.
* `LedgerInv`: what was acknowledged is in the file or a segment (`AckedIsKept`), a
  cached verdict is that of a whole check (`CacheIsSound`), and the check over all
  segments accepts an undamaged ledger exactly while it has not been rotated (`HistoryVerdict`).
* `SalesInv`: a sale has its entry, or somebody is still at it; an entry without a sale comes from
  the queue.
* `SwitchInv`: a switch that is on all the while stops the request, for all that happens
  between its three reads; a switch stands until it is taken away.
* `BudgetInv`: grants fit the budget; tokens of all requests add up; what is not charged is told; a
  budget once full stays full for newcomers, whatever is taken back beside.
* `LimitsInv`: no window above the limit but for late callers; both buckets bound what is let
  through from any instant on.
* `CkptInv`: the pointer never goes back and names a checkpoint that was stored, unless the
  database dropped it; `CoveredIsKept` adds that runs that follow each other never write over history.
* `LoopInv`: "completed" is said of the text that the last check saw; a stream that failed leaves
  nothing but its charge; a tool that was given up counts for nothing.
* `SessionInv`: a resuming client misses only messages that commit late; a key has one effect.
* `DispatchInv`, `NextTriggerIsFirst`, `TicketsInv`: a playbook once per life or
  per expiry, and at least once; the answer of cron is the first time; a ticket admits once.
* `WsInv`, `GhostsAreEvicted`: no socket is out of the monitor's sight, presence follows the
  sockets, who was heard is not evicted, and who vanished is.
* `NotesInv`, `SearchInv`: file, rows and what the caller was told agree where the code
  promises it; an answer is no older than three cache times and three searches.

* `EventsInv`, `EventStreamEnds`: the last event of a stream is true of the run, a stream that breaks has told no verdict,
  progress goes back only after a read of damaged steps; the stream of a run that is over ends.
* `ReadyInv`, `EveryoneIsAnswered`: "ok" rests on an answer since the time of the cache, a refusal has a cause
  since then, and only trouble makes an answer late; everyone is answered though all wait in one pool.
* `BundleInv`: a process shows one bundle for good, what is shared is shown, nobody computes without need
  or releases the lock of another.
* `ReportIsSound`: what was damaged before a reconciliation began is never reported on (`DamageIsRefused`), and
  a report with one trade from before has them all, unless somebody rotated (`AllOrNone`).  With one verification instead of
  three TLC finds damage that a rotation carries past it.
* `GatewayInv`, `PrimaryComesBack`: an answer has one voice; a provider is refused only for failures
  in a row; once the failures end the first provider answers again, and the gateway says so.
* `BacktestInv`: nothing is earned at a price that was not executable yet; returns, costs, positions and
  episodes of the drawdown agree with each other; what may not be asked is refused.
* `PitInv`: what a manifest vouches for is there, and what is answered is what the tables of the other store would answer, nothing
  that was not known by the day and nothing missing (`AnswersAreAsOf`), but for days that two writers had at once.
* `TraceInv`: a record appended without a failure is read back with its content whatever happens to others, to
  processes and to the power, unless it stands behind the start of a line (`SureIsRead`).

**Why the bounds are enough.** Three workers are the smallest number with two zombies
beside the current holder, and two zombies are what could confuse each other's tokens.  Four
calls allow two that claim and two that wait in different processes.  Two verifier limits
below the length of the chain make prefixes.  Two probes are the smallest number with a
first and a last one.  Handlers have one step: how checkpoints of
several steps add up is proved for every number of them (`NoStepIsMissing`, `SkipsAreReal`).
Three appends let one commit between two that were numbered before and after it; four lines in files of
two make rotations; three sales calls are a winner, a loser in its process and one in the other.
A budget of 3 for amounts of 1 and 2 has room for one of each and refuses the next.
Two iterations of two attempts are a retry in the last iteration and in one before it.
The bound of `SearchInv` is tight: TLC reaches it, and the neighbouring instances with
a cache time of 2 and with both processes writing hold as well.
All bounds are constants or counters named in the modules
(`MaxExpiries`, `MaxId`, `MaxEvents`, `MaxFaults`, `MaxAsked`, `MaxMishaps`, ...); no state constraint is used.
Where workers, calls, connections, tickets, clients or writers are interchangeable the safety runs use symmetry
(in `stores` one permutation exchanges pairs of several components at once, which is the same as exchanging those of the one in focus);
the runs with a liveness property do not.  `live` leaves out calls that fail in the
database and cancels, which two runs and two workers make too many: that a row left behind by such
a call carries a lease, so that the reaper finds it, is a part of `IInv` in `zombies`, and proved.

**Deadlock.** It is checked in `progress`: the breaker and the sockets never stop, and a run of the loop may
only stop when it is over (`MayStop`; that it gets there is `RunEnds`, a part of `AgentEnds`).  The other configurations switch
it off, because their systems may stop: every run has ended, every call has returned,
all ids are used.  That nothing stops earlier is what `EveryRunSettles` and `AppendsEnd` check.

### What disagrees with the documentation

Six disagreements have a run that shows them.

* `cancel`: a heartbeat beats between an accepted cancel and the next step boundary.  It is
  refused because the row is no longer `running`, the worker takes that for a lost lease and
  leaves, and nobody settles the row, which stays `cancelling`.
* `zombie_steps`: a checkpoint is inserted without comparing the token.
* `dedup_purge`: SQLite deletes an expired record by key in a second statement, and by
  then the key may belong to somebody else.
* `dedup_async`: behind the asynchronous pool each process decides by its own memory.
* `audit_alarm`: rows and head are read by two statements at READ COMMITTED.
* `breaker_probes`: `allow()` compares the number of probes that succeeded, which is always
  below the limit while half open.

The others were met while modelling and are the exceptions which the invariants name.

* Ledger: two processes that rotate may rename one segment over the other (`governance/ledger.py:500`), so
  `MCBooks` lets one rotate; `verify_chain_with_archives` rejects every rotated ledger, on which
  reconciliation insists; a write that loses only its end of line makes the next one glue onto it.
* Sales: a lost answer of the commit leaves a receipt without an entry; an entry that was
  refused and queued is replayed for a sale that was withdrawn.
* Kill switch: the rollback of an enable deletes by key, whoever set it since.
* Limiter: a caller that decides late comes on top of the limit.
* Checkpoints: a failing database is only logged by `put`, so the fail-closed accounting of `agent/loop.py:808`
  never sees it and the pointer may name a dropped checkpoint; a pointer that cannot be read restarts
  the thread at 0 over its history; requests without X-Request-ID share the thread "adhoc"
  (`api/server.py:391`).  Checkpoints of iterations in the middle say "completed" and not terminated.
* Loop: the retry policy is asked with the iteration for the attempt; a budget breaker is created per request,
  so its daily limit is that of a request; one right figure vouches for a whole text; serial tools have no
  deadline; the wall time relabels a result after its last checkpoint; the banner of a compacted context is put
  before a text that was already checked; a RuntimeError reruns the whole loop, which is charged once.
* Sessions: a message that commits behind the cursor is never sent; a tool call whose caller died stays PENDING.
* Requests: an answer whose usage cannot be built is uncharged without a reason, though the docstring at
  `api/server.py:723` wants nothing silent; a stream whose client leaves during the loop is neither charged nor audited; the ticket is
  burnt by refusals that follow it.
* Tickets and sockets: a bound WebSocket ticket whose first consumption failed in Redis can be accepted by
  the second probe as anonymous, where the docstring at `api/ws.py:60` has both fail; heartbeats are per channel, so a silent
  socket beside a talking one of the same user stays; closes longer than the timeout make the monitor forget a
  reconnected socket until its next keepalive.
* Scheduler: after the expiry of the Redis lock another process executes the key again; with
  an error of Redis and the local lock two may run; when the holder of the lock crashes, the others are told
  "duplicate" though nobody ran.  Cron: at a change of the clocks an answer may lie before the time asked for, and
  February 29 beyond the horizon of 366 days raises.  Both are left out of the calendar modelled here.
* Notes: the retry of a failed write within 30 s is suppressed as if it had succeeded (the comment near
  `memory/store.py:1417` wants a failure not to report success), as is the third of A, B, A; a crash between file and
  commit leaves the index behind; a row under the path of a file stays for ever; the rows of a failing
  write may be committed by another thread; the collector keeps the row of a file it removes; `.bak` is shared by
  concurrent writers.
* Search: `memory/store.py:606` promises new notes to other processes, but a search under way, the caches of
  another process and Redis may hand out old answers for as long as `SearchInv` says; after a failed upsert of
  the vectors the old content stays without a bound; a search on the shared connection sees rows that are not committed.

* Readiness: the checks of two cold requests exhaust the pool of eight threads, no SELECT gets one, and a healthy database is
  reported degraded and kept so for five seconds; the waits of one request add up to 6.4 s, where `api/server.py:1483` wants
  less than 5 s.
* Bundle: the memory of a process never expires, so that a degraded bundle stays for its life and, through Redis, reaches
  others for ten minutes; the lock in Redis lets everybody pass when Redis fails; processes may differ for good; after a failure the static bundle is
  called `synthetic_demo` though nothing was synthesized; without scripts a release of two commands may drop the lock of another.
* Backtest: with one asset returns are multiplied by the sum of absolute weights, where the docstring near
  `backtest/engine.py:556` has the sum; the cost of entry at the first bar is in neither the cumulative return nor the drawdown;
  the signal sees the whole series from the first bar; positions are capped and returns are not; the turnover comes from returns by
  closes; an equity below zero puts the capital back to its start; a report removes the old file before the new one has its name.
* Daily bars: of two writers that share a day the second loses a row of the first for good, where the docstring at
  `data/pit_store.py:13` has later snapshots overwrite nothing; of two that write the same snapshot the later manifest stands.
* Trace: the start of a line that a crash left is never completed, and the next record is glued behind it although its append returned; the line of a
  failed append may appear later, from the buffer; when a sidecar cannot get its name the line refers to nothing.
* Gateway: a success looks at the failures recorded before it and may open the breaker of a provider that has just
  answered; half open, single failures are not told, so that every other call may fail and the breaker closes; the health
  that the server shows is that of its start.
* Reconciliation: after a rotation it is refused for good (`HistoryVerdict`), but just after one, when the new file has no line yet, it reports
  `verified` and no trades at all; an entry between the last verification and the read of trades may then be the only one; a change of the file
  there is summed up unverified; a verification creates a ledger file that is missing.

## 4. Fairness

* Worker steps are weakly fair: a live thread goes on, and the bodies of steps end.
  `Claim` and `Reap` recur because `runs/cli.py` loops over them.  No fairness is
  assumed of faults, of the callers of the API or of the bodies' success; a lost lease
  expires (`LeaseExpires` is fair only for a row that nobody renews).
* A statement that waits for a lock gets it after it has been free again and again (strong
  fairness of the locking statements, as PostgreSQL queues waiters); transactions end.
* `BreakerCalls` assumes that time passes, that a call under way ends and that calls
  go on to be made.  The last is a premise about the traffic: without calls a breaker stays
  half open, and nobody is refused.
* `AgentLoop` assumes that its one thread goes on (`LoopStep`): the model answers or raises, a tool
  returns or is given up.  That a stream is finite is the bound `MaxChunks`; zombies and the clock are not fair.
* `WsChannels` assumes that the event loop runs its tasks (the monitor's steps, the handlers') and that
  time passes.  Clients need do nothing.
* `ProviderFallback` assumes the same as the breaker: time passes, a call goes on (`PromptStep`; a stream says something or fails), and
  somebody goes on asking.
* `RunEvents` assumes that the generator of the stream is run (`StreamStep`); the run need not move: the property speaks of one that is over.
* `Readiness` assumes that threads run (`TaskStep`, `Assigned`), that time passes and that a request whose wait is over goes on.
* The other modules have safety properties only and assume no fairness.

## 5. Proofs

Every theorem is proved for all values of the constants, under the assumptions
named in the modules (sizes are natural numbers, `NoRun` is no run, and the like), which
TLC evaluates in every run.  A theorem on an `...Inv` has an inductive invariant `...IInv` in
the proof module: the types as the prover needs them, the parts of `...Inv`, and what each actor
knows at each of its steps.  Each action has a lemma that it keeps the invariant.
* `RunQueueProofs`.  The invariant `IInv` adds to the types and the five safety
  properties: a worker's token was issued, so it is at most that of the row (`TokensIssued`);
  a worker behind step `s` has seen a checkpoint of every step up to `s`, and has steps left
  exactly while its handler runs (`HandlerProgress`); a run that was not enqueued has no row
  (`AbsentRows`).  From it follow `TokensAreUnique`, `Fencing`, `BudgetRespected`,
  `NoStepIsMissing`, `SkipsAreReal` and `LeaseIsThere`.  Hardly any of them is inductive alone:
  two workers keep different tokens only because no worker holds one above that of the
  row, which the next claim increments; a succeeded run has all its checkpoints only because of what
  the handler has passed when it returns.  `LeaseIsRespected` is an action property: a running row whose lease
  has not expired is queued again or ends only by a finish or fail under its own token, because the reaper takes
  expired leases only and a settled cancel only rows that are cancelling (`LiveRowMoves`).
* `RunQueueRefinement`.  With `IInv` each step of the queue is a move of `RunLifecycle`
  or a stutter (`LifecycleImplemented`); `FinalityProved` and `CancelWinsProved` are action
  properties proved the same way.
* `ToolDedupProofs`.  `ToolRunsOnce`: if the store decides (SQLite, or PostgreSQL that always
  answers) the tool runs once within a TTL; the invariant counts claims against the record that
  is there.  `EveryRunIsPaid`: with PostgreSQL the number of executions is bounded by the number
  of expiries, because there the purge is one statement.  `RepliesAreSound`: a record of a success is vouched for by a call
  that has returned its own value (`AllVouched`), and as long as no TTL has passed all that is known of executions
  (those that run, those of a record, those whose value was returned) is of one (`OneExecution`).  `SettledOnce` follows
  from the claims that the record excludes.
* `ServiceProofs`.
  - The audit chain.  The invariant says that whoever is about to append knows the head
    and holds the lock that keeps it: the row lock if there is a head, the advisory lock
    otherwise.  From that `AppendsAreSerial`, `ChainIsWhole`, `RowsAreOnlyAdded`.
    What `verify` says has an invariant of its own (`VerifyIInv`), about what a verification knows at each
    of its statements: rows that were read are the first of those that are there, unless somebody changed
    the table (`KnowsRows`); what was counted is not more than there is (`KnowsCount`); alone it has read
    everything (`KnowsAll`).  A change by hand leaves a row or a head that does not fit (`Wounded`), and
    appends do not hide it: their row is compared with the last one, but carries the digest of the head.
    From that `VerdictsAreRight`, and the types of all tables and processes, `ChainTypes`.
  - The event stream of a run.  The row that was read is one that the run has passed, and a run that is over stays
    as it is (`RowWasRead`), so that what the stream told of a row that ends it is true of the run: `EventsAreTrue`.
  - Readiness.  Time goes on only when nothing is due, and then whoever waits, waits in the end for work that is in the
    line or for a service that does not answer (`ProbeWaitsInTrouble`, `FullWaitsInTrouble`, `AskingIsTrouble`).  So a
    request that had no trouble has not waited (`CalmIsSound`), and what a thread hands to another was true in the same
    tick (`ProbeIsSound`, `SelectIsSound`) or is not older than the cache (`CacheIsSound`).  The times of the waits are added up by a
    recursive function that is shown to exist (`WaitsExist`), again by the least number principle.  The line is a list
    without repetitions of the work that is queued (`Lists`), from which work is taken at its head or cancelled in
    its middle.  From that `ReadinessIsTrue`, for any services, databases, threads and times, and with the event
    stream `ServingIsKept`.
* `ProgressProofs`.
  - The breaker.  `Sound` says that probes are counted while half open only and are below
    the limit; every method keeps it (one lemma each).  From it `HalfOpenIsNeverStuck` and
    `LateResultsAreIgnored`.  `Isolated` adds that a half-open breaker has recorded as many calls as it
    counts probes, none of which failed: `ProbesStayApart`.  What the events of the window say (`TooBad`)
    is never expanded there.  For `BreakerTypes` the events are followed as well (`Recording`): `_prune` cuts at the first event that is
    not too old, which is shown to exist (`FirstRecentExists`).
  - The gateway.  `RefusalsAreEarned` looks into the events: the older, the earlier, and no failure among those that
    count is younger than the last row of failures (`Timely`).  `_prune` keeps that, a success cannot add to it, and a breaker
    that is too bad holds a failure (`TooBadHasOne`), so that it opens for a row within its window.  A gate counts
    what the history counts (`GateIsSound`), and until a provider has answered the consumer has heard nobody or
    that provider (`PromptIsSound`).
  - The agent loop.  The invariant says place by place how long the text may be (`TextIsShort`), that its fragments are
    of this iteration or earlier ones that were not undone, and what the text was when the stream began (`TextIsClean`);
    where the spending has been looked at (`BooksAreKept`); and that what is given up from earlier iterations cannot
    be taken for a tool of this one (`ResultIsKept`).  From it `RunsAreSound`, and `AgentIsKept` with the gateway.
  - The channels of sockets.  Whoever is connected or leaving answers for the presence of
    the channel (`PresenceIsOwed`, `PresenceComesBack`), and what the monitor goes by is not older than the
    silence of the clients (`SilenceIsSeen`): `ChannelsAreKept`.
* `BookProofs` is about what is done once or in time.
  - `SalesAreBooked`, `CompensationHitsOwn`: no two calls hold the same sale (`SalesAreOwn`), and what a call
    that inserted the row knows of it is what is in the table until it lets go of it (`BuyerIsSound`).
  - `PlaybooksRunOnce`: without Redis the local lock guards the playbook until the memo is filled, and the
    memo from then on (`LockGuards`, `MemoGuards`); with Redis every call that was let through was paid
    for by an expiry (`ExpiriesPay`); who keeps others away is there (`NobodyWaitsForNobody`).
  - `FirstTimeIsFound`: nothing between the start and the candidate matches (`NothingIsPassed`), because all minutes
    of a month are of that month (`MonthsHaveTimes`).  The first days of the months are a recursive
    function: it exists (`FirstDaysExist`), and grows, by the least number principle.
  - `FilesAndRowsAgree`: the transaction differs from the committed rows only at keys of calls that are under way
    (`UncommittedIsOwn`), so that the commit or rollback of another thread harms only keys that are strained then; who has taken
    `_lock` holds it (`LockIsHeld`).  For a call that shares its key with none and is not strained, the invariant says what it has done to the
    file and the transaction, and that the backup it could go back to is what was last told (`Progress`).
  - `AnswersAreRecent`: every copy of an answer is bounded by its own age and by the chain of caches that it came through (`KeptWithin`
    with `HitsLimit`, `SharedLimit`, `ResultsLimit`), and a search under way holds what was within the limit of the place it read
    (`InHand`); a write makes nothing older, only what can still be read.  With the notes, `MemoryIsKept`.
  - `ResultsArePointInTime`: of a backtest, whatever its numbers are.  The guards of `run` lie before every bar (`PassedGuards`), so weights
    of a later day are in no result that is not flagged; the series grow together to a row per bar (`RowsPerBar`), with a position
    in each column (`RowsAreComplete`), although the signal sets the weights after the guards.
* `AdmissionProofs` is about what is let in.
  - `SwitchIsSafe`: a request relies only on keys that are on and that it has still to read
    (`SteadyIsAhead`), and the number of an enable is in no key but its own (`OwnKeyOnly`).
  - `TicketsAreSingleUse`: what a bearer holds was taken out of the one place where it lay.
  - `RateIsKept`: what was drawn since an instant, with what could be drawn now, is no more than the
    capacity and what flowed in (`DrawnAndLeft`).
  - `WindowIsKept`: what the latest time still has to see is in the sorted set (`RecentAreKept`), and
    who is about to add has found room (`RoomToAdd`), by the lock as long as none was lost.
  - `QuotaIsKept`: the counter alone does not show that grants fit: the invariant adds the amounts
    that were counted, not found over the budget and not granted yet (`PromisesFit`).  Sums over consumers are
    cardinalities of sets of units (`Units`, `SumOf`), about which the lemmas can be proved without
    induction on data.
  - `BudgetIsKept`: what is known of a request at each step (`Sound`) and of the consumption it has
    under way (`Fits`), and the two sums of tokens that are not paid.
* `RecordProofs` is about what is stored and shown.
  - `CheckpointsAreKept`, `HistoryIsKept`: who moves the pointer has put its checkpoint before
    (`PutsAreBacked`); a run that could read the pointer and has no company is ahead of all that can
    still be read (`LoneRunIsAhead`).
  - `SessionsAreKept`: a page is the ids of the lowest ranks (`Rank`), so that what lies at or below the
    cursor was sent or committed late; who inserted the row of a tool call is the one that runs it (`FirstRuns`).
  - `RecordsAreKept`: a writer knows of its record whether the sidecar is on the disk, the line
    written, the line synced (`TracerHolds`); a record that is sure has a line among the synced pieces,
    and its sidecar on the disk under its name (`Lasts`); pieces are only added (`FileGrows`), so that a
    whole line stays one.
  - `BundleIsOne`: a condition on each visitor (`VisitIsSound`) that others keep because memories are
    only filled, except by a restart, which ends the visits of its process.
  - `SnapshotsAreKept`: two writers that have a day in common dispute it (`RivalsDispute`), so that what
    a writer has found in a file still is what is there, as far as nobody disputes it.
  - `LedgerIsKept`, if one process rotates (`OneRotator`).  A file has at most one name, and who appends holds a file that
    has one (`HandlesAreNamed`), so that nothing is acknowledged into a file that nobody will read (`AckedIsKept`); what a process
    remembers of a file was verified in it (`CachesAreVerified`).  Whether a line fits depends only on what is before it,
    so that a check from a remembered line accepts what a check from the first line does (`AcceptedIsVerified`).
    In joined files numbering begins again with each file, so that they are accepted as one only if one of
    them at most has lines (`Joined`): that is `HistoryVerdict`.  What the segments hold together is a
    recursive function that is shown to exist (`ArchivedExists`), and followed file by file (`SegmentsRead`).
  - `ReportsAreSound`, under the same hypothesis.  Damage shows in its line wherever that is read (`DamageIsLocal`), and what the
    others do takes back no name, no segment and no damage, and writes only new numbers (`LedgerMoves`, `NumbersAreNew`).
    So while a reconciliation is under way, damage from before it is in what it has still to read (`DamageIsAhead`), and, as
    long as nobody has rotated, the old records are in one place (`RecordsAreTogether`).

In each of these parts the constants are arbitrary sets and numbers: any number of operators, callers, consumers
(finitely many), servers, runs, writers, readers, and any limits, budgets and times.  The one hypothesis beyond the
assumptions of the modules is `OneRotator`, of the two theorems on the ledger: section 3 says what two rotators do.  The least of a set of
numbers is taken from the well-founded order of the library, since the induction theorems with an operator as
parameter cannot be used.

Only model-checked: all liveness properties (the prover does not treat fairness and
ENABLED); and what `BacktestInv` says of the numbers, whose parts compare folds (`FoldLeft`) over
series of fractions, for which no backend has a theory and which an induction over the bars would be needed for.
Its first part, `UnflaggedIsPointInTime`, is proved with the shape of a result (`ResultsArePointInTime`).

## 6. What is not modelled

* queue: `request_stop`, which has no caller; a handler that polls `is_cancelled` by itself; several threads in
  one worker process; tenants and row-level security (keys and rows of tenants do not
  interact); payloads and results beyond the attempt that produced them.
* run events: a run stuck in `cancelling` (see `cancel`) keeps its stream open; `EventStreamEnds` speaks of runs that are over.
* deduplication: the cap of the memory of a process; the hash of the arguments; the two
  PostgreSQL tables of the two code paths are one row here; the wrapping of results that are
  not JSON.
* audit: rows appended without the chain and their count; a verification whose
  connection fails; collisions of SHA-256 and the canonical form of the fields; `user_id`,
  which is not hashed.
* breaker: its privileged reset, the gauge, and durations (a call is slow or it is not).
* loop: prompts, messages and their compaction beyond the banner, the graph, traces and memory recall; the
  content of an answer beyond whether it states figures and whether evidence covers them.
* sessions: `start_run` and `finish_run`.  The first inserts a running row without a lease into the table of the queue, which no reaper
  finds; the second (`session/store.py:355`) updates a run whatever its status, so that a late call overwrites a terminal one.
* server: the routes other than the query and its stream, the bundle and the readiness, the middlewares and the rate limiter before them, which appear as
  refusals; the authentication of a socket.
* memory: ranking, fusion, ingestion and the hierarchy; several notes in one search; a second
  process that writes the same files.
* scheduler: the thread that sleeps until the next time; time zones.
* gateway: several callers at once (that is `BreakerCalls`, for one breaker), clients, catalogue and prices.
* reconciliation: the sums per symbol, positions of the broker, a journal in the place of the ledger.
* market data: loaders and their fallbacks.  The loaders registered for production serve disjoint markets, and a cross-check
  asks one after the other and fails closed: sequential code without state of its own.
* backtest: Monte Carlo, walk-forward and the drawing of reports; real numbers are fractions here, so nothing is said of rounding.
* secrets: `secrets/rotation.py` loads, changes and replaces a file without a lock and under one temporary name, so that two
  rotations at once may lose a record; nothing in the repository but its tests rotates a secret.
* approvals: they keep no state; the 300 s that a pending one may wait are left to the caller.
* billing: prices, listings beyond the publication of the factor, reports.
* the components marked `not_modelled` in `PROJECT.json`, each with its reason: most of the lines of
  the repository are numerics, text, loaders, forms and a front end.
* The MCP router reports only failures to its breaker: after the first outage it stays half
  open for good.  While half open everything is let through, so nothing but the gauge
  shows it.

## 7. Plan

1. An abstract specification for `ToolDedup` (a map from keys to one
   outcome) and for `AuditChain` (a sequence that only grows) with their refinements.
2. `start_run` and `finish_run` of the sessions beside the reaper; several callers of `ProviderFallback`.
3. Secret rotation, as a store of versions under concurrent rotations, once something calls it; the redelivery of heartbeats.
