# Kronaxis Router: verification models

TLA+ models of the parts of the router and of its agent gateway where several
goroutines, processes or crashes meet, checked with TLC on small instances and,
for every safety invariant and action property the passing runs check, proved with
TLAPS for all values of the constants. Line references are to the repository's source.

## 1. The system

Two Go programs. The **router** (`*.go` in the root) is an OpenAI-compatible
proxy: every HTTP request is a goroutine that goes through sessions, caches,
compression and budgets, is routed to a list of backends and sent down that list
until one answers. The **agent gateway** (`agent-gateway/`) is a backend the
router can call: it runs a command line agent per request in a workspace of its
own and translates its output into a chat answer.

| component | state | operations | meets | what makes it correct |
|---|---|---|---|---|
| backend pool, health checks (`backends.go`) | name → `Backend` object; per object status, failure count, `ActiveReqs` | register, deregister, reload, `checkAll`/`checkOne`, `IsAvailable` | request goroutines write the same health record; goroutines hold objects the map has dropped | counter equals calls in progress; the status is what the thresholds make of the count; what answers again recovers |
| dispatch (`proxy.go`, `router.go`) | candidates of a request, attempt | route, downgrade, call, retry, fail over, stream, second call | pool, batcher, budgets, quality gate | never calls nothing, no way out skips the decrement, a chosen list that has aged does no harm |
| throughput batcher (`throughput.go`) | queue and timer per route, limits | enqueue, expire, dispatch, fall back, deliver | handlers wait on a channel each | one answer to each entry and nobody else's, nobody waits for ever |
| batch API (`batch.go`) | jobs map, `jobs.json`, results files | submit, poll, expire, download, webhook, save, load | provider, clients, crashes | honest status, one poller per running job, acknowledged jobs survive, every job ends, its webhook is posted |
| agent run (`agent-gateway/agent_chat.go`, `agent_dispatch.go`, `runner/`) | limits' channels, two event channels, lease, workspace, process | admit, check out, start, parse, bridge, reap, report | client that may leave, CLI, account pool | limits exact, no event lost, nothing left behind, a request ends |
| profile limits and registry (`profile_limits.go`, `registry/`, `agents_handlers.go`) | override file, profile, debounce timer, event channel, limiter per name | watch, apply, register, remove, get, reset | requests between reading a profile and taking a place; POST and DELETE; shutdown | limiters count exactly, new limits take effect, the watcher comes to rest or ends |
| account pools (`accounts/`) | accounts in order, cooldowns, turn | load, checkout, peek, release | concurrent callers of one pool | an account that is there is found, leases are even, waits are told right |
| legacy gateway path (`server.go`, `auth_pool.go`, `pool.go`, `worktree.go`, `workspace_store.go`, `sweeper.go`) | accounts with windows, warm pool, named workspaces, directories, credentials | pick, admit, take, seed, run, record, clean up, refill, sweep | other requests, refill loop, sweeper by age, crashes | one owner per workspace, a run is charged to whose credential it used, nothing is left for good |
| adapters (`adapter_*.go`) and the two completions of `server.go` | line being read, tool numbers, event channel | start, parse, send, wait, hear, join | program or API, client that may leave | everything said is told, in order and to the right tool; a completion ends |
| rate limits (`ratelimit.go`, `tenant_ratelimit.go`) | buckets per service or tenant | allow, refill, update | reload during requests | nobody gets more than the limits in force |
| sessions (`sessions.go`, `sessions_http.go`) | row in a database, read cache | create, get, append, delete, sweep, hydrate | concurrent turns, deletion, expiry | turns see each other, deleted sessions stay deleted |
| response and semantic caches (`cache.go`, `semcache.go`) | entries with age | get, set, evict, look up alike | requests for the same key | capacity, one entry per key |
| budgets and costs (`costs.go`) | spending per service and day | check, record, reload, seed | every request; change of day, restart | the budget bites on what was spent, the overdraft is bounded |
| configuration (`config.go`, `api.go`) | file, `cfg`, what each component works by, skip flag | edit, save, upload, reload, poll | API, people, watcher | in the end all of them agree |
| KV prefix index (`kvtree.go`, `kv_index.go`, `prefix_hash.go`) | tree of prefixes with last use | insert, look up, order, prune | sweeper and requests | what was lately given is found, the count is right |
| answer quality (`qualitygate.go`, `schema_validate.go`, `consensus.go`, `reflect.go`, the forwarding of `proxy.go`) | answers heard, answer kept | gate, retry, ask several, arbitrate, review | two or more backends in any order | no answer that fails its checks while a better one was heard |
| retrieval (`graphify_*.go`) | changed files, pipeline, index | watch, walk, chunk, batch, embed, store | walkers and workers, failing batches | the index has the files whole |
| text handling (`classifier.go`, `compress*.go`, ...), output (`audit.go`, `metrics.go`, ...), commands, SDKs, packaging | none, or written and not read back | | | |

The hard behaviours are listed one by one, at their lines, under `hazards` in
`PROJECT.json`, with the properties that cover them.

## 2. Modules

```
BackendHealth            the health record and its three writers (operators only)
  BackendPool            the map, the objects, the checks (actions, no Init/Next)
    Dispatch             request goroutines over the pool: the whole specification
      MCDispatch         instances       Dispatch_proofs   theorems
RequestReply             what a caller of the batcher relies on (abstract)
Batcher                  the batcher; OneReply = it implements RequestReply
  MCBatcher              instances       Batcher_proofs    theorems
BatchJobs                the batch API with its file and crashes
  MCBatchJobs            instances       BatchJobs_proofs  theorems
AgentRun                 one gateway request: handler, dispatcher, bridge, CLI
  MCAgentRun             instances       AgentRun_proofs   theorems
Profiles                 override file, watcher, limiters, requests that pass them
  MCProfiles             instances       Profiles_proofs   theorems
AuthPool, Workspaces     accounts; directories, warm pool, named workspaces (actions)
  LegacyChat             the legacy path over both, with crashes
    MCLegacyChat         instances       LegacyChat_proofs theorems
Requests                 the set of requests
  RateLimits, Sessions, Answers          three stations of a request (actions)
    FrontDoor            each by itself
      MCFrontDoor        instances       FrontDoor_proofs  theorems
  LiveConfig, AccountPools, PrefixTree   (actions)
AnswerQuality, GraphIngest, Completion   (actions)
    Support              the six, each by itself
      MCSupport          instances       Support_proofs    theorems
```

`FrontDoor` and `Support` put modules together that share no state. Their
product would only multiply the states, so `part`, chosen at the start, says which
one moves; what is true of a part alone is then true of it among the others, as
none of them reads or writes another's variables. `FrontDoor` takes what a
request does in one station for any request at all: a request that comes to the
caches may have come through any session, and one that is limited may ask again.

Definitions called *Mutant of X* are not part of any specification: they are
plausible mistakes in X, kept to show that a property would notice them
(`PROJECT.json`, `mutants`).

### BackendHealth, BackendPool, Dispatch

A `Backend` is the heap object: `pool` maps names to objects, and a handler's
`cands` may hold an object the map has dropped. `Backend` objects nobody refers
to may be handed out again as new ones (garbage collection), so a finite set
suffices. `checking` and `probing` count the `checkOne` goroutines of an object
before and after their HTTP request has been sent; the answer is applied to
whatever the record then is. `Failures` saturates at `FailureCap` (at least 5):
the code compares it with 0, 1, 2, 3 and 5 only. Probes and requests judge by
different thresholds, and `by` remembers who has failed with the backend since the
last success: `HealthConsistent` holds the status to the documented thresholds where
only probes have, to those of `forwardToBackend` where only requests have, and
between the two after a mixture.

A handler goes `idle → ready → calling → recorded → ...`. `Call` is the
increment of `ActiveReqs` and the start of the HTTP request, `Answer` is the
critical section that updates the health record, and the deferred decrement
(`Leave`) is part of the step after it: the two are apart in the code, and other
goroutines can look in between. Routing, with the downgrade that prepends a
candidate, is one step; retry, failover, streams (which never report health) and
the extra calls of reflection and the quality gate are actions of their own.
Candidates are ordered by least connections, with ties in any order
(`applyLeastConnRR`); cost-, queue- and prefix-aware orders are left out, and no
property depends on the order. SLA, LoRA and price filters only shorten lists and
are left out too.

### RequestReply, Batcher

One queue (queues share the configuration only). A timer is identified with the
entry that started it: `armed` until it fires, `expired` while its callback waits
for the queue's lock. `Stop` on an expired timer does nothing, and the callback
takes whatever the queue then holds. `Enqueue` reads the limit in a step of its
own, before it takes the queue's lock, and `UpdateConfig` can come in between.
`taken`, `posted`, `delivering` and `single` follow a batch through
`dispatchBatch`: the multi-prompt call, its fallback, and the delivery, one channel
at a time. The endpoint may list its choices in any order (`Orders`): the code reads
their index and never looks at it, so `Deliver` gives the choice at a position to the
entry at that position, whoever's answer it is. `shuffled` remembers the entries
whose call was answered in another order. `RequestReply` is the abstract service:
one reply each, no answer given twice, and the answer to the own prompt unless the
backend mixed up the call (`mixed`). `Caller!Safe` with `asked` mapped to the waiting
entries and `mixed` to `shuffled` is checked as a property and proved.

### BatchJobs

A job has up to three goroutines (submitting handler, poller, downloader).
`saveJobs` is three steps (list under the read lock; marshal and truncate; write)
because nothing is locked between them; two writers of one file can also leave a
mixture, which does not parse. `Restart` is a crash at any moment followed by
`loadJobs`. A status that is written while it is marshalled may be read torn: the
code has no lock there. Results and provider formats are abstracted to "the file
is there" and to what the provider says of the job.

A submission ends as the provider's job (`running`), in an error or a lost answer
(`unknown`, the job is failed), or in a confirmation whose body has no name that can
be read (`nameless`): the code then goes on without a name or with an invented one,
the job is submitted and polled, and every answer about it is one that names no end
(`PollRunning`, the default case of the poll, which an error page falls under too).
The webhook's address is the one the job has when its completion is noticed
(`PollCompleted`); `hook` is the goroutine's copy of it, `posted` what this process
has delivered or given up.

### AgentRun

The run of a request is a record: where the dispatcher is (`step`), the lease,
whether the workspace exists, the process, the lines in its stdout pipe, the two
channels' fill (`rch`, `events`), the bridge, and how many events were sent and
received. The handler is in `pc`; `slots` and `sem` are the profile's and the
gateway's channel. `gone` is the set of requests whose context is done.
`Send` waits for room in `rch` without looking at the context, as the parsers do,
while `Quit` lets the bridge go as soon as it does: that asymmetry is the code's.
After `Join` all goroutines of the request have ended and the record is reset.
The rate bucket of the limiter appears as a nondeterministic refusal.

### Profiles

One profile name. `file` is the override file (a version, broken, or absent),
`fsq` the file events not yet seen, `timer` the debounce, `applier` the callbacks
of timers that have fired (there may be two at a time), `out` the channel of
events, `profile` the registry's entry with its source, `store` the limiter in the
store. POST adds the profile and then writes the file; DELETE removes both, in two
steps. A request reads the profile (`Look`), asks for the limiter (`GetLimiter`),
waits for a place (`Acquire`) and gives it back to the limiter it holds (`Leave`),
whatever the store has by then. `StopWatch` closes `out` while a callback may still
send: `panicked` is then the end of the program. `raced` notes the crossings after
which nobody can say which version is right: a request between reading the profile
and asking for its limiter while the loop resets it, a POST or DELETE over an edit,
and the like.

### AuthPool, Workspaces, LegacyChat

A search (`PickNext`) takes the next number of the shared cursor at each of its
steps, so two searches can divide the accounts between them; `shaken` says that
something moved under a search. A workspace is a directory with the credential
linked into it: waiting in the warm pool, named and kept in the store, or taken or
made by one request. `Takes` is the part of the handler all three ways have in
common, with the account's credential put over the host's. After the run the
handler looks its account up again (`LookUp`), which fails if that account has
been disabled in between: then the outcome is recorded nowhere (`PassOver`).
`CleanUp` may leave the directory, as the configuration can say and a failing
`RemoveAll` does. An account that was disabled stays so, whatever its later runs say.
`Restart` may come anywhere; directories survive it, everything else does not.
Deleting a named workspace forgets it and leaves its directory to the sweeper,
which goes by age alone, whoever may refer to the directory: a pooled or named one
can be swept under its user. Only what a running request has made for itself is
spared, as runs are shorter than the maximal age (`Young`).

### RateLimits, Sessions, Answers, FrontDoor

*RateLimits.* The tenants' limiter, then the services'. The first reads its limits
when it makes a bucket, under the lock; the second before, outside of it
(`ReadLimits`), which is the crossing `slipped` notes. Reading the clock is left
out: a bucket is refilled whole, at any time. Requests keep the bucket they found
over a reload. The reloads of the API leave the services' limits as they are, the
watcher's does not (`ReloadLimits`).

*Sessions.* One session: its row, the copy in the read cache, the sweeper between
its two steps (delete rows, empty the cache). `hydrateSessionRequest` is `GetCopy`,
`ReadRow`, `KeepCopy`, `AppendTurn`, `PutTurn`; deletion is `DeleteRow`,
`ForgetCopy`; a database error lets the request go on without its conversation
(`GoesOnAlone`). A GET that read the row before a DELETE puts it back into the
cache after it: the next turn is stopped by its `UPDATE`, a GET is not.

*Answers.* `Alike` says which prompts the semantic cache takes for one another (it
knows neither model nor age). `DropExpired` deletes by key, later than the look
that found the entry expired. A call costs one unit; `today` is what was truly
spent, `spent` what the tracker believes, `slack` what a midnight before the first
check, or a restart before the log was written, has cost it. `CheckBudget` rejects, or
lets the request go on with the configured action noted (`over`), which may be neither
rejection nor downgrade. `RouteRequest` then does what comes before the call, in the code's order:
a bulk request goes to a batch API, a consensus answers at the usual backends, and
only what is left is downgraded, if the target is known and available. `loose` says
that since midnight something else than the budget decided: a request was let through
over the limit, or the budget was changed, or charges the tracker did not know came
back with a restart; `Uncharged` are the requests between check and charge. A service
without any budget is never held and is not modelled.

### LiveConfig, AccountPools, PrefixTree

*LiveConfig.* A configuration has three parts: rules, budgets, and the limits per
service, which the API's reloads do not pass on. Writing the file is two steps
(truncate, fill), either of which may fail; the watcher polls, takes the flag, or
loads and installs. What the file is at the watcher's first look counts as loaded
(`StartWatching`), though the router has loaded it before. `crossed` notes that two
changes, or a change and a reload, were under way together, or that an edit came
before that first look: with one flag for all writers and no lock on the file
nothing can be promised for those. Left out: values taken from the environment, which
a save writes out resolved, and the bypassed tenants, which each load appends to the
list again.

*AccountPools.* Loading replaces an entry with the same id in its place.
`Checkout`, `TakeTurn` and `Look` are apart, since only the turn is atomic; leases
end in any outcome, and a good one ends the cooldown another has brought.
`leases` counts from the least, for as long as nothing has cooled.

*PrefixTree.* Prompts are flattened and cut into chunks as the code does it, and
nodes are named by their path. `Insert` goes from lock to lock (`WalkDown`), marks
nodes outside them (`Touch`), and may find that a sweep has taken its node out of
the tree (`adrift`); `Sweep` asks whether a child is empty, whether it is stale, and
drops it in three steps, holding the locks of its parents only. `setBack` are nodes
to which a slow record gave an older time than they had, `leaked` counts the nodes
that are counted but not, or no longer, in the tree.

### AnswerQuality, GraphIngest, Completion, Support

*AnswerQuality.* Providers reply, forwarding turns the reply into an answer (a
Gemini body that cannot be parsed becomes an answer that says so), and gate,
consensus and review choose among answers that are good, poor, shapeless, blank,
an error or lost. All combinations are enumerated.

*GraphIngest.* A text is its length and the places of its newlines, inner bytes of
characters, and beginnings of sections; `ChunksOf` cuts it into the windows of
`chunkCharWindow`. Watcher, walkers, channel, workers with their buffers. A file may
be passed over when it is read (it cannot be opened, is too large, or is not text),
and a batch that cannot be stored ends its worker, which drains the channel: the
files concerned are `missed` until they change again.

*Completion.* The three parsers work on lines `[is, block, text]` and turn them
into events; `said` is what the parser read, `told` what reached the client. A program
may leave a process behind that holds its output open (`heldOpen`), be it that it
ended or was killed: the parser then waits for an end that does not come until that
process lets go (`LetGo`). The channel's capacity and the pipe's are constants.

## 3. Runs

| run | instance | shows |
|---|---|---|
| `dispatch_churn` | 2 names, 2 objects, 2 handlers, two configuration files, downgrade target, no probes | `ActiveReqs` is exact through retries, failover, streams, deregistration and replacement. Two objects and two handlers are enough for a held object to be replaced and for a handler to meet another at the same object |
| `dispatch_recovery` | 1 handler, probes (one `checkOne` per object at a time), a probed and a cloud backend | the status is what the thresholds of whoever failed make of the count; a probed backend that answers again is healthy for good; a cloud backend that went down stays down |
| `dispatch_down` | the same | violates `DownOnlyRecovers` (finding) |
| `batcher` | 4 entries, batches of 2 or 3, one or two models | one answer each and nobody else's, the own one where the endpoint kept the order; the timer a queue refers to is always its own; everybody is answered. Four entries give a flush, a stale callback, and a queue begun behind it; batches of 2 and 3 come back in every order |
| `batch_jobs` | 2 jobs (one at a provider without status check), one restart | statuses are honest in memory and on disk; exactly one watcher per running job; the disk is never ahead of the memory; the webhook of a watched job that has its address is posted, with or without an output file; every job ends |
| `batch_lost` | 2 jobs | violates `JobsOnDisk` (finding) |
| `agent_run` | 3 requests, profile limit 2, gateway limit 1, channels and pipe of one place, 2 lines | limits exact, no event lost for a client that stays, runs end clean, a served request ends unless its parser is stuck |
| `agent_stuck` | 1 request, 3 lines | violates `LeaseReturned` (finding) |
| `profiles` | 2 requests, 3 limiters, 2 edits by hand or by POST and DELETE, a version without a limit and one for a single request | counts of every limiter in use are exact; a reload nothing crossed leaves file, profile and limiter in agreement; the watcher comes to rest or ends. Three limiters are the most that two requests and the store can refer to; two edits let a second event find a callback of the first at work |
| `legacy_chat` | 2 requests, 2 accounts (one with a budget of one run), 2 workspaces, a pool of one, crashes at any time | workspaces have one owner; a run is charged to the account whose credential it used; a search that nothing disturbed finds an account if there is one; left-over directories go |
| `front_door` | 2 requests; 3 callers and limits of 2, then 1; 3 turns; 2 prompts, a cache of one, budgets of 1 or 2 with each action, 2 units a day; the two requests are interchangeable (symmetry) | the limits in force hold over a reload; a conversation is a beginning of the stored one; what was deleted stays so; the budget bites on what was spent, and the overdraft stays below the number of requests. Two units are enough to overdraw a budget of 1 |
| `support` | 2 changes of the configuration; 3 accounts from 4 entries, 3 ticks; 3 records of 3 prompts, a cap of one node; 2 opinions, 3 pairs of providers; 2 files in 2 versions, 2 workers, batches of 2; 4 programs, capacities of one | the configuration settles; checkouts are fair; prefixes are kept; answers are checked; the index has the files whole; what was said is told; completions end |

Channel capacities are constants of the models; capacity one makes "full" a
frequent case, and the proofs of section 4 hold for every capacity. Bounds that
exist only in the models: `FailureCap`, `MaxChecks`, `MaxRestarts`, `MaxEvents`, `MaxEdits`, `MaxTurns`,
`MaxToday`, `Horizon`, `LastTime`, `MaxRecords`. `batch_jobs`, `batch_lost`,
`agent_run`, `agent_stuck` and the last four runs do not check for deadlock:
requests, jobs, edits and turns come to an end and the system then stops.
`dispatch_churn` uses symmetry and a view that ignores what an unreferenced
object last held; it checks invariants only. `front_door` uses symmetry of its two
requests, for invariants and an action property that speaks of all requests alike.
The runs with liveness use neither.

**Fairness.** Weak fairness only, of steps the code cannot put off for ever:
calls and probes have client timeouts; timers fire; a goroutine that can go on is
scheduled; a job expires after 25 hours; a CLI process ends or is killed at its
timeout; the watchers' polling and timers and the loops that read their events; the
sweeper's ticker; a call of the API that has begun; the ingestion's walkers and
workers; an adapter and its handler. Never fair: arrival of requests, operators and
edits, shutdown, a client's departure, a program's writing, a process that lets go of
its output, a provider that finishes, an endpoint that comes back (`ProbedBackendRecovers`
*assumes* one that answers from some time on).

**What the violations say** is in `PROJECT.json`, `findings`: a backend that is
down can be made degraded by a late failure (`proxy.go:522`); a cloud backend
that went down has no way back (`backends.go:315`); overlapping saves can lose an
acknowledged job (`batch.go:100`); a client that leaves can block its parser, and
with it the handler, both limits' places, the lease and the workspace
(`agent_dispatch.go:137`); early returns of `Run` do not give the lease back
(`runner.go:90-145`).

**What the passing runs had to leave out.** Where the code does less than its
documents and comments say, the property names the case, and `findings` quotes the
line:

* requests that fail are counted by other thresholds than the documented ones, which
  only probes keep to (`proxy.go:516`);
* choices of a multi-prompt call are handed out by position, whatever their index
  says (`throughput.go:224`);
* a job confirmed without a readable name is polled all the same, until it expires
  (`batch.go:415`);
* a job that completes before its callback address is set gets no webhook, nor does
  one whose process is restarted before some save has the address (`batch.go:533`);
* over the limit a request passes undiminished unless rejection is configured or the
  downgrade target is there, and bulk work and consensus answers pass before the
  downgrade (`proxy.go:265`);
* a fallback's answer is passed on unchecked (`qualitygate.go:305`);
* the cap on nodes only prunes what is stale (`kvtree.go:86`);
* an edit between a save of the router's own and the next poll is not loaded
  (`config.go:528`), nor is one between the load at start and the watcher's first look;
* a request that read a limit before a reload makes its bucket with it after
  (`ratelimit.go:65`), and so does one with a profile's limiter (`agent_chat.go:24`);
* a changed file that cannot be read or is not text is passed over in silence and
  keeps its old rows (`graphify_ingest.go:151`).

Without a line against it, but worth knowing: `max_concurrent` filters candidates and
is not held at the call, so that requests routed together overshoot it
(`backends.go:91`); the API's reloads never reach the services' rate limits; a turn
is stored before the budget is checked, so that a rejected turn stays in the
conversation; requests in flight together overshoot a budget, by less than their
number while nothing else lets requests through (`Overdrawn`); a prefix tree is not
made for a backend that a reload adds; a file whose batch failed is not tried again
until it changes, and its worker takes other files' chunks with it; a streaming
handler whose client left can wait for ever for an adapter that cannot send
(`server.go:374`); a completion lasts as long as any process holds the CLI's output
open, its timeout passed or not (`adapter_claude_cli.go:107`); a call of the Anthropic
API has no time limit of its own.

## 4. Proofs

All for arbitrary sets and arbitrary capacities; every safety invariant and every
action property that a passing run checks is stated by a theorem. The assumptions are
the named `ASSUME`s of the modules and nothing else, and TLC evaluates each of them.
Beyond the types of the constants they say: requests, backends, limiters, files and
workers are finite sets, and there is at least one request and worker; capacities,
concurrency limits, buckets and `MaxTurns` are at least one; a list of accounts is not
empty; values that stand for "nothing" are not members of the sets they complete; the
overlap of chunks is less than half their size (600 of 3200 bytes in
`graphify_chunks.go`); two or three opinions are asked for; `FailureCap` is at least
the largest number the code compares with. The type invariants of Profiles and
BatchJobs are proved only: no run repeats them.

* **Dispatch_proofs.** `TypeOK` is not inductive: that `ActiveReqs` stays a
  natural number at `Leave` needs `ActiveIsInFlight`, which needs to know that a
  goroutine in flight has a first candidate. Both are proved together with
  `HealthConsistent`; `StrandedForGood` is an action property that follows from
  the same invariant, since a consistent record gives the cloud check nothing to
  restore and routing hands out only objects that are not down.
* **Batcher_proofs.** `TypeOK`, `WindowClock`, and the refinement of
  `RequestReply` (`OneReply`). The inductive invariant says where an entry is:
  queued, in exactly one of the sets a batch goes through, or answered, so that
  no step can answer it twice; and where its answer is: the choices still to be
  handed out are a permutation of answers nobody has yet, of the call's own entries,
  and the very entries in line where the endpoint kept their order. That a call has
  one choice per prompt is the model's assumption about the endpoint (`Orders`); other
  numbers of choices take the fallback.
* **BatchJobs_proofs.** `TypeOK`, `HonestStatus`, `Watched`, `DiskBehind`, and
  `WebhookOnce`, the safety half of `Notified`: a webhook that is owed has its
  goroutine, and no process posts one twice. What the file has, and what any goroutine
  is about to write to it, is an earlier view of the jobs; the invariant says what an
  earlier view still has right (`Told`). That survives every step that moves a job forward (`Forward`), so it does not matter
  in which order the saves end, and a restart makes the view the present. The rest
  of the invariant (`Sound`) is about one job and its three goroutines, and steps of
  other jobs leave it alone.
* **AgentRun_proofs.** `TypeOK`, `SlotsHeld`, `NoEventLost`, `NothingLeft`. The
  invariant `Coherent` speaks of one run, its handler and its client, so each
  step of a run's goroutines keeps it for that run and leaves the others alone.
  The counting of places is a lemma about how one handler's move changes the
  number of handlers in a set of states (`Moves`).
* **Profiles_proofs.** `PlacesExact` for any number of requests, limiters, versions
  and edits, `TypeOK`, and `ReloadSettles`. That a limiter counts its requests has to
  survive its being handed out again, so the invariant adds that a limiter nobody
  refers to has nobody inside. For the reload, `RInv` says who still has something to
  do: as long as nothing raced, a version in the file that is not in force has a file
  event, a timer, a callback or a POST on its way to apply it, and a limiter that is
  not the profile's has a reset on its way (`Loaded`, `Cleared`, `Invalidated`). When
  nobody has anything to do, the three agree. That a removal is the last event seen
  only of a file that is gone (`Queued`) holds whether or not anything raced.
* **LegacyChat_proofs.** `TypeOK`, `OneOwner`, `OwnCredential`, and the action
  property `PickFinds`. The invariant adds that nobody holds a workspace that waits
  in the pool; new workspaces are ones nobody has, so a credential is only ever
  written where no other run of its own is. For the search, `Seen` says that the
  accounts the counter has passed are still unavailable; whatever could change
  that marks the search as disturbed (`shaken`).
* **FrontDoor_proofs.** `WithinLimits`, `Transcript`, `DeletedStays`, the action
  property `BudgetHonest`, and `TypeOK`. For the limits, `IInv` accounts for the
  tokens of each bucket in use and says what a request may still hold: the bucket in
  use, or one of an earlier configuration. For the sessions, everything anybody holds
  of a conversation, be it the copy in the cache, what a request has read, or what it
  got back, is a beginning of the row while there is one (`Begins`); only appending
  changes a row that stays, and rows are not made twice. That a turn is not missed
  holds only while requests do not overlap, and needs that the copy then is as long as
  the row unless a request is just about to put it there (`Alone`). For the budget,
  what the tracker believes and what was lost to it add up to what was spent
  (`Money`). The bound on the overdraft (`Overdrawn`) is inductive together with it: a
  charge only moves a request from the count of the uncharged to the sum.
* **Support_proofs.** `AnswerChecked`, `CheckoutFair`, `PrefixKept`, `ToldInFull`,
  and `TypeOK` of all six parts.
  *Answers*: what the gate has heard is what the mode asks for, and all of it before
  it chooses (`Gate`).
  *Accounts*: a caller that found its account active and has not looked at it yet
  still finds it so, but for a cooldown reported in between (`Fair`); while nobody
  fails, leases and callers about to lease follow the counter of turns (`InTurn`), from
  which the difference of at most one follows.
  *Tree* (`TreeInv`): the nodes are closed under prefixes; a record knows where it is
  and that what it has walked through is there and has its time or a later one, unless
  a slower record set it back (`Walks`, `Reached`); what a sweep has still to visit
  lies beside its way down, so that no node it has dropped is visited again
  (`Sweeps`); what is promised was reached and is not old (`Promises`); and the counter
  is the number of nodes, those a sweep has dropped and not yet subtracted, and those
  that leaked.
  *Completions* (`ToldInv`): what was sent, arrived or not, agrees with what was said
  (`Agreed`): tools are numbered as they begin, the pieces of a tool's arguments are
  those said of it, in order, and the block the parser remembers holds the number of
  the tool that is open there. Each line is a lemma about both sequences growing at
  their ends (`ToolBegins`, `ToolGoesOn`, `ToolStops`, `QuietLine`, `QuietEvent`);
  `Ending` says what is settled at each way a completion ends.
  The types of the retrieval index need that a chunk begins after the one before, for
  which the overlap must be less than half the size.

The operators of the modules under proof are written with ranks, counts and sets of
places where a sorting or filtering of sequences would do for TLC (`Rank`, `TextsAt`,
`OfTool`), with `IF` where cases overlap, and with explicit functions instead of the
operators `:>` and `@@`, as the provers can expand those.

Model-checked only: the liveness properties (`ProbedBackendRecovers`,
`AllAnswered`, `JobEnds`, `Notified`, `EndsOrStuck`, `ReloadEnds`, `LeftoversSwept`,
`ConfigSettles`, `IndexSettles`, `CompletionEnds`), which the proof system cannot
reason about under fairness.

## 5. Limits

Known abstractions beyond those above: a reload that replaces `Backend.Config`
while `checkOne` reads its fields (a torn read) is not modelled; marshalling the
jobs of one save is one step; the address of a webhook is only present or absent;
with a Gemini job in place of the Fireworks one the invariants of `batch_jobs`
hold as well, in a state space too large for the liveness check.

Not modelled, and why:

* *Prompt classification and compression* (`classifier.go`, `compress*.go`): scores
  and rewritings of strings without shared state, but for a bounded store of
  originals; a model of them would be their text over again.
* *Commands, MCP server, pages* (`init_cmd.go`, `mcp.go`, `ui.go`, ...): one
  question and answer each over state that the modules above have.
* *Telemetry, audit, export, statistics, metrics*: written by everybody and read
  back by no one who decides anything.
* *Queue scrapes and latency windows*: they order candidates, an order Dispatch
  leaves open.
* *Embedding service, SDKs, packaging*: other programs and generated files.
* Parts of modelled components that are left out are named in `PROJECT.json`.

## 6. Plan

1. Sessions as an implementation of an abstract register of conversations, and
   Completion of an abstract list of what was said, each by a refinement.
2. `AgentRun` over a pool of AccountPools, so that an outcome's cooldown is seen by
   the next checkout.
3. Job event streams, whose client waits for ever for a job that was cancelled; the
   drain of the warm pool at shutdown.
4. Routing filters (LoRA, SLA, price) as functions of the candidates, against what
   the configuration's documentation promises of them.
5. Rows of files that were deleted or have become shorter, which no step of the
   ingestion removes.
