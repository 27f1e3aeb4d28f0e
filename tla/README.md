# Formal models of HexaGate (coolagents)

HexaGate puts a policy in front of an AI agent's tools. An SDK (`hexgate/`)
wraps the tools, fetches a signed policy bundle from a platform
(`platform/api/hexgate_api`), asks a person when the policy says so, and reports
each decision through an OTLP collector and Kafka to ClickHouse. This directory
holds TLA+ models of the parts where steps of several actors meet, the TLC
configurations that check them and proofs that TLAPS checks.

Run from this directory: `tlc -workers 2 -config X.cfg M`, with the module and the
configuration that `PROJECT.json` gives for each run, and `tlapm XProofs.tla`.

## 1. The system

| Component | State | Operations | Hard part |
|---|---|---|---|
| Approval relay (`cli/serve.py`, `agents/approvals.py`) | pending requests, bound socket, send lock, one event and box per call | `__call__`, `resolve`, `bind_socket`, `unbind_socket`, teardown | parallel calls, replies that are late, repeated or lost, TTL, cancellation at any await |
| Policy source and binding (`security/source.py`, `binding.py`) | cached engine, ETag, yaml hash, lock; the enforcer's policy | `fetch`, `refresh` | threads, conditional GETs while the row changes, swap outside the lock |
| Policy release (`features/policy_modules`, `features/agents`, `core/locks.py`) | modules, role bindings, agent rows with bundles, project lock | module PUT/DELETE, role bindings with flip and rollback, agent update, registration, startup backfill | two commits per write, failing compiles and commits, restart between them |
| Policy language (`security/linker.py`, `analyzer.py`, `policy_set.py`, `rego.py`) | none | link, lint, resolve, compile | layers joined as text; the checks at write time against those at compile time |
| Span enricher (`jobs/enricher`) | Kafka position and offset, the poll in hand, rows, dead letters | poll, map, resolve, insert, park, commit | crash, rebalance and stop anywhere; partial inserts; replay |
| Relay hub (`core/relay.py`, `features/chat`) | serve socket, agent name and tabs of a project | attach, detach, hello, broadcast, relay | broadcasts socket by socket after the lock is released, eviction by a newer process |
| Serve session (`cli/serve.py`, `cli/state.py`) | one conversation over all connections, chat lock, tasks | chat turn, stream events, reset, reconnect | a reset in the midst of a turn, a disconnect with turns queued |
| Bans (`security/bans.py`, `features/bans`) | ban rows; the shared source's set, ETag and lock | create, lift, fetch, check | check then insert, conditional feed, fail-open |
| Guarded call (`guards/`, `security/enforcer.py`) | the call's arguments, records, reports | guards before, decide, approve, run, guards after | rewrites after an approval, policy swapped between the roles of one decision |
| Run context and facts (`runtime/`) | context variable, saved stack | enter, exit, record | tasks that share one context object |
| Constraint engines (`security/constraints.py`, `rego.py`, `policy_set.py`) | none | load, parse, compile, evaluate | Python and rego must decide alike |
| Accounts (`features/auth`, `orgs`, `members`, `invitations`, `projects`) | SQL rows | register, create, invite, accept, revoke, change, remove | each request in a session of its own, no lock between its reads and its commit |
| Dashboard: workspace (`lib/auth.ts`, `active.ts`, `orgs.ts`, `AppShell`, the routes) | cached reads, selection in local storage, the page | sign in and out, select, create, leave, accept an invitation, reload | answers of another moment than the session, effects that write what they read |
| Dashboard: playground (`lib/playground.ts`) | a store and a socket that outlive the page | open a project, send, answer a prompt, reset, reconnect | frames name no turn, close events come late |
| Streaming adapters (`adapters/*/streaming.py`, `streaming/`) | the accumulator of one run | frameworks' events in, frames out | text sent twice, tools side by side and without ids, a stream that breaks |
| Read models (`features/audit`, `query_scope.py`) | rows in ClickHouse | insert, merge, summary, feed, anomalies | one read takes several queries, with inserts and merges between |
| Event senders (`tracing/_senders.py`, `audit.py`) | registry of senders, one queue and worker each | get or create, emit, close, shutdown | no lock, a late event, a shutdown abandoned half way, exit |
| Keystore (`core/keystore.py`) | two files, the keypair of each process | ensure, sign | processes that start together and die half way |
| API keys (`features/tokens`, `core/biscuits.py`) | a row per key | mint, revoke, attenuate | blocks anybody may append |
| MCP toolset (`mcp/`) | open transports, proxies | enter, exit, call | failure half way through enter |
| Collector auth extension (Go) | snapshot of the key table, its age | start, poll, authenticate | loads that fail, hang or are late; the snapshot judged outside its lock |
| Spawner, serve manager (`deploy/`) | sandboxes, tasks | launch, stop | limits checked before an await |

How they interact: an admin's write goes through *policy release*, which stores a
bundle on the agent's row; *policy source and binding* fetches that row before
each run, and the *ban feed* is asked beside it; the run enters its *context* and
calls tools through the *guarded call*, whose decision the *engines* make and which
may wait at the *approval relay*. A chat turn of the *serve session* and its
approvals travel through the *relay hub* to playground tabs. Each decision leaves
by an *event sender*, the collector and Kafka, the *span enricher* records it and the
*read models* count it for the *dashboard*, whose user reaches a project through its
*accounts*. What a framework says during a turn the *streaming adapters* turn into
frames, which the serve process and the *playground* fold into what people see.
`PROJECT.json` lists every component with its status and every hazard at its line.

## 2. Modules

| Module | Models | Used by |
|---|---|---|
| `ApprovalGate` | what an approval channel promises a waiting call | `RelayApproval` |
| `RelayApproval` | the relay handler, its connection, its replies | `RelayProofs` |
| `PolicyFeed` | what a binding promises its runs: no cache, no lock | `PolicyRefresh` |
| `PolicyRefresh` | `PlatformPolicySource.fetch` and `PolicyBinding.refresh` | `PolicyProofs` |
| `PolicyRelease` | the store, its checks, the recompile, rows and backfill | `MCPolicyRelease`, `PolicyProofs` |
| `BanFeed` | ban rows, the platform's feed, the SDK's shared source | `AgentRuns` |
| `GuardedCall` | one tool call with its guards, decision, approvals and trail | `AgentRuns` |
| `AgentRuns` | runs of one agent in a host process: refresh, ban check, context, tool call | `MCAgentRuns`, `AgentRunsProofs` |
| `Constraints` | the constraint language in Python and as compiled rego | `Linking` |
| `Linking` | the linker's fold of modules, the boolean grammar, the role and agent matrix, the lints | `PolicyEngines` |
| `PolicyEngines` | loading or linking, inheritance, compilation, and a decision by either engine | `MCPolicyEngines` |
| `RelayHub` | the registry, its broadcasts, the two websocket routes | `ChatRelay` |
| `ServeSession` | the read loop, tasks, chat lock and history of `hexgate serve` | `ChatRelay` |
| `ChatRelay` | tabs, hub, a process that reconnects and a rival process | `MCChatRelay`, `RelayProofs` |
| `Tenancy` | accounts, organisations, members, invitations and projects, statement by statement | `Workspace` |
| `Workspace` | one tab of the dashboard over them: session, cached reads, selection, pages | `MCWorkspace`, `WorkspaceProofs` |
| `TurnView` | the frames of a run, and the two readers that fold them | `RunStream`, `ChatTab` |
| `RunStream` | the event streams of four frameworks, the accumulator, the LangChain normalizer | `MCRunStream` |
| `ChatTab` | the playground's store, sockets and timers | `Playground` |
| `Playground` | a tab, and the process that answers in each project | `MCPlayground`, `PlaygroundProofs` |
| `ReadModels` | inserts and merges, the summary, the paged feed, the search for anomalies | `MCReadModels`, `ReadModelsProofs` |
| `KeyStore` | the root keypair on disk and the processes that start on it | `IngestAuth` |
| `IngestAuth` | API keys, the collector's revocation cache, authentication | `EventPath` |
| `EventSenders` | the SDK's registry of senders, their queues and workers, shutdown and exit | `EventPath` |
| `EventPath` | a host's senders exporting to the collector over a network that loses answers | `MCEventPath`, `EventPathProofs` |
| `EventSink` | what the enricher promises the topic | `Enricher` |
| `Enricher` | a consumer group of `EnricherJob`s on one partition | `MCEnricher`, `EnricherProofs` |

### RelayApproval

One action is the code an asyncio task runs between two awaits. `pc` is where a
call's `__call__` stands: waiting for `send_lock`, in `ws.send`, in
`wait_for(evt.wait())`, or `expiring`, the gap between the timer that cancels the
wait and the task running again. `pending`, `evt` and `box` are `_pending` and
its entries, `ws` is `_ws`. `Bind` and `Unbind` are one connection of
`_serve_loop`; `run_serve` opens the next one only after the teardown of the last
has awaited or cancelled every task it dispatched, which is `Bind`'s guard.
Playground tabs may answer any number of times and differently, and a frame may
never arrive (`Resolve` is owed no fairness).

### PolicyRefresh

`Ask`, `Serve`, `Digest` split one `fetch`: take the lock and send the cached
ETag; the platform answers from the row it holds at that moment; the response is
checked and cached. `Swap` is the assignment to `enforcer.policy`, after the lock
is released. A bundle is named by its content hash and the ETag is that name; a
bundle is either in `Verified` or not, which stands for signature, hash and size
checks.

### PolicyRelease

A write takes the project lock, checks, commits the store (`PutModule`,
`DeleteModule`, `PutRoles`), compiles every agent (`Compile`) and commits the rows
(`Install`). Failing builds (`Keep`), failing commits (`InstallFails`), the
rollback of a flip and its failure (`Undo`, `UndoFails`), opa going away and a
restart between any two steps are actions. Of a module only what composition can
tell apart is kept: it is plain, defines a constant one way or the other, uses
it, or denies. The history variable `debt` says what the bundles owe the store:
`stale` after an accepted write until a whole fan-out is committed, `torn` after a
write was cut between its commits; the code promises nothing about those, and
the invariants say where they stop.

### Enricher

`Poll` is `getmany` and everything `_process_poll` does before its first await:
decode, map, deduplicate, build envelopes. Then `Resolve`, `Insert`, `Park` (one
per envelope) and `Commit`, each with its failing attempt. A failed insert may
have landed the tables before it and any blocks of its own; a failed send may
have landed. `stop` is looked at where the code looks: at the top of the poll loop
and in the failure branch of a retry. The group coordinator may move the
partition at any await, and a consumer's position then restarts at the
committed offset. `window` is the clock as `validate_event_window` sees it: an
event rejected for being in the future may be accepted on replay, and one
accepted may have aged out. A span is identified as in the code, by project and
`event_id`; two different spans may share one.

### AgentRuns, with BanFeed and GuardedCall

A run refreshes the policy binding (any version may be swapped in: fetches overtake
each other), checks its bans, enters the `HexgateContext` it was given, calls its
tool and leaves. `BanFeed` splits the check at its lock and its request: wait,
ask, the platform's answer from the rows it holds, install; a fetch that fails
decides on the last good set, which is empty before the first success. The
platform's `create_ban` looks up and inserts in two steps. `GuardedCall` splits a
call where another thread may swap the policy or a person is awaited: each guard,
each role of the decision, each approval, the tool. A guard may do whatever its
interface allows: agree, rewrite, halt with a denial or an approval, raise, be
cancelled. `seen`, `inForce` and `met` are history: what the ban table said during
a check, the versions in force during a decision, the runs whose scopes overlapped
on one object, directly or through others.
The OpenAI adapter is the one followed; the others drive the same parts.

### Constraints, Linking and PolicyEngines

JSON values are records of one shape, a text is a run of one letter. `Py` is
`_eval` and what it calls; `Body` is the compiled constraint under rego's own
semantics, where a line with an undefined operand fails and types are ordered.
`Load` is `load_policy_map` with its refusals, `Compile` is `compile_to_rego` with
its own, `Ask` decides one request. The engines are known to part in few places,
which `Divides` and `Apart` name one by one and `EnginesAgree` excepts: a
quantifier over an object (rego ranges over its values), membership in a constant
that is no list, an ordered comparison of two operands of different known types,
a boolean and a number inside lists (equal in Python), a constraint on the role of
a caller without one (the bundle is told `default`), and a constant that is `true`
in one role and `1` in another (not reported as a conflict). Regular expressions
are left out.

`Linking` is the other way to a policy: a project of boundary and capability modules
and the matrix of who imports what. A module's constraints are given as the trees
their author meant; `TextOf` writes them down with the parentheses the documented
grammar needs, the linker joins those texts (`AndExpr`, `Union`, `FoldTool`) and
`Parsed` reads the result as `parse_constraint` does, a comparison, call or
quantifier being one word. So `LayersCompose`, which evaluates the layers one by
one on the trees, speaks about the joining and about the parser. `Link` resolves
one agent's column, with every refusal of `resolve_for_project`. Of the lints, those
that need an agent's manifest are left out. Approval is a matter of the tool, not of
the arguments: one grant or ceiling that asks makes every call of the tool ask.

### ChatRelay, with RelayHub and ServeSession

The sections under the registry's lock contain no await, so each is one step with
what follows it up to the next send; a broadcast then visits the tabs it copied
one by one, in any order, while everything else goes on. A new serve socket
evicts the old one: its handler may still take one frame it was parked for.
`ServeSession` steps from await to await of one event loop; `chat_lock` is FIFO
and made anew for each connection, the history is not. `Lost` and `Reap` are the
end of a connection: unread frames are gone, tasks get a second and are then
cancelled. `ChatRelay` joins them over two links and adds a second process of the
same project. What a reader may not expect, and the invariants spell out: two
statuses on their way to one tab at once may arrive in either order and leave it
wrong until the next (`raced`); a late hello of an evicted socket names the agent
of the new one; the answer of a turn in whose midst a reset fell is kept in the new
conversation; a turn cut by a disconnect leaves its question without an answer. A
process that is evicted reconnects at once, so two processes of one project evict
each other without end; the connections are bounded, so no run shows it.

### Workspace, with Tenancy

A request is its statements: authorise (which reads the caller's row), find the
member, count the owners, write and commit. Each statement sees what is committed
then, except that a session keeps the attributes of a row it has read. A row has
an id of its own, so a member removed and invited again is another row: deleting a
row that is gone only warns, updating it fails, inserting a second one of a user
is refused. `raced` collects the organisations one of whose commits relied on what
another request had changed since it was read; the books of those are not claimed
to be in order, because the code does not keep them so (section 3).

`Workspace` is one tab. A cached read has its data, whether it is stale and the
request on its way (`Refetched`, `Invalidated`, `Mounted` are what the query library
does, and external). An answer is of the moment the request was served, and may
arrive after a login or logout. `Effects` are what React runs after a render, before
anything else happens (`Rendered`): redirects and the bootstrap of the selection.
`Load` is a reload, after which only the cookie and local storage are left.
`OthersAct` is everybody else, who may send any request of `Tenancy`.

### Playground, with ChatTab and TurnView

`ChatTab` is the module-level store of `playground.ts` and what the browser does with
sockets and timers: a socket is new, connecting, open, closing, closed, its close
event may come late, and a timer that was set fires once. `Playground` adds the user,
who changes projects, signs out, types, resets and answers, and in each project a
process that answers one turn at a time. Frames carry no turn, so the tab gives what
it hears to `currentTurnId`; the history variables name the cases where that goes
wrong: `overlap` (a project is entered again before its old socket has gone: nothing
closes that one), `hasty` (a message was sent before the last run was over and
heard), `late` (an old socket's close event came after a new socket was made),
`unseen` (prompts for which the tab had no socket, or that it swept: it compares
`expires_at` with its own clock, whatever the process's gate is at, so `Sweep` may
take any prompt at any time).

### RunStream

The frameworks are external and do what their streams allow: talk, think, call tools
side by side, with ids or without, return, raise, or stop anywhere; two items of one
response (OpenAI) or two model runs (LangChain) may talk at once. Everything between
is the code: the accumulator's blocks and steps, the mapping of each adapter, and the
two readers of `TurnView`. Google's SSE sends each segment in pieces and whole, and
the adapter tells what is new by comparing with the block that is open; `murky` marks
the chunk no comparison can tell, one that begins with all its block had. Open text is
kept as in the code: by item for OpenAI, by model run in the LangChain normalizer, which
at the end writes the text of each run in one piece, so that of runs that speak at once
each keeps its order but not the turns they took.

### ReadModels

A table keeps every row inserted; a retried one is there twice until some merge. A
query sees one moment, a read may take several: a summary two scans, the feed one per
page, the anomalies one for the busy users and one for their rows. `read.merged` records
that a merge fell between the queries of one read. The rows of a user come to the scan in
the order of their time and no other (`ORDER BY user_id, occurred_at`), so each order of
equal times is tried, the copies of one row apart included (`Timelines`).

`BurstsFound` says what a reader of the anomalies may rely on. A call is hot when the
earlier calls of the hour up to it, with itself, are enough requests, and the refusals of
that hour enough for as many: while a burst goes on the scan meets no other. A streak has
only hot calls. Every busy hour is in one streak with the end of a reported burst, or
ends within two hours of a call of such a streak. The second case is needed: a burst that
ends takes its whole window with it, so an hour that begins among those calls is no
longer counted in full. No row, copies counted, is in two bursts.

### EventPath, with KeyStore, IngestAuth and EventSenders

`KeyStore` is one file operation a step: a start finds the private file or draws a
keypair, `Link` publishes it or adopts the winner's, the public file is opened and
then written. A process may die between any two; one that dies after the link leaves
the directory without a public file for good, since later starts only load, and the
collector has then to be given the key that a process publishes (`Published`).
`IngestAuth` has a clock, which stands still inside a step and may pass between any
two: a load is asked for, reads the rows, replaces the snapshot; `Tick` does not pass
a load's deadline, because its context ends it. `Authenticate` is verification,
the copy of the snapshot under the read lock, and the judgement outside it. A
credential is a key with what its holder appended: its claims of other ids, and the
moment its checks hold until. `EventSenders` splits `get_or_create_sender` between
lookup and registration, `emit` between its check of `_closing` and the queue, and
`shutdown` into list, clear and close; a worker is OpenTelemetry's and external. In
`EventPath` a batch is posted under its sender's key and accepted for the project of
the key's row, or refused; an answer may be lost and the batch posted again, and a
worker may have given up on a request the collector still accepts. A 401 is final
over HTTP even where it stands for an outage, so an outage of the key table loses
what is exported meanwhile, and a collector that dies loses what its batcher held: no
document promises otherwise, and `NothingLeftBehind` speaks only of the host's side. There
a join that times out empties the queue as lost (`JoinTimesOut`), as the code does, so
what the property says is that no sender is left unshut with events in it.

## 3. Runs

| Run | Checks | Bounds, and why they are enough |
|---|---|---|
| `relay_approval` | registry exact, nobody stranded, implements `ApprovalGate` with its liveness | 2 calls, 2 connections: a call of the old connection beside one of the new, contradictory replies, two calls at one lock. 450 k states |
| `policy_refresh` | cache paired, implements `PolicyFeed` (nothing unverified is enforced), converges | 2 refreshes, good and bad bundles and yamls: an older answer swapped in late, a downgrade, 304 after any sequence of payload kinds |
| `policy_release` | library links, bundles match store, one mode, last good bundle stays | 2 requests, 2 agents, 2 capabilities, 1 boundary, 6 writes: flip, change, flip back, with a concurrent writer. 770 k states, requests symmetric |
| `enricher` | no record skipped, implements `EventSink` (committed spans are settled), every record acknowledged in the end | 2 members, 2 records of 2 keyed kinds, 2 crashes, stops or rebalances: a partition can be lost and regained within one poll. 560 k states. The two kinds that are parked whole are left to the proofs and have been run once, with 1 crash, without an error |
| `event_path` | one root keypair, verdicts are recent, events reach their project, nothing left behind | 2 API processes and keypairs, 1 crash; 2 keys of 2 projects, presented plain, with an appended claim of the other and an expiry, and cut short; staleness, poll and load timeout of 1 in 4 moments: a failed and a late load and the moment after; 2 threads, 2 senders, 2 events, queues of 1. 390 k states |
| `agent_runs` | ban checks atomic, tool run as decided, gates separate, trail and reports true, scopes restored | 3 runs that share one context object, so that scopes close in every order; one of them calls a tool behind 2 before-guards (one observing) and an after-guard; 2 policies, 3 roles of which the cap cuts one, 2 ban rows, 2 operators. 710 k states |
| `policy_engines` | both engines agree, violations explain the decision, reaching agents is a closed world, inheritance is linear; linked layers compose; what the analyzer passes links and compiles, and its lints are true | some 1900 documents: one rule under every constraint of depth 2 over the values of every type, and three policies in every inheritance shape; some 1450 projects: up to two boundaries over one or two capabilities on one tool, with conjunctions, disjunctions and negations whose joining needs parentheses, and a faulty or sound library under every small matrix; some 60 requests. 330 k states |
| `chat_relay` | turns do not mix, a reset forgets, the indicator is true, frames in order | 2 tabs, 2 connections, 2 turns of an event and an end, 2 resets. 1.17 M states |
| `accounts` | the books are kept unless a write relied on what another had changed; the tab settles on a page and a selection that fit its session | 2 users, 3 organisations, 2 projects, 3 member rows, 2 invitations, 3 clicks in the tab, 1 request of somebody else of any kind: a logout, a login as the other user and a request in between, with each answer late. 510 k states |
| `run_stream` | shown as said, tools settle | 5 events, 2 calls and 2 items or model runs of each of 4 frameworks: two texts around a tool or at once, or two tools side by side ending in either order, in each way to break off |
| `playground` | nothing crosses, a turn shows its own run, prompts are not swallowed, the link is live | 2 projects, 3 sockets, 2 turns of which one asks, 2 letters, 3 changes of page, 1 drop: away and back with the first socket still closing. 1.9 M states |
| `read_models` | the summary adds up, no row is skipped, busy hours are found | 3 events of 2 users, 1 retried, an hour of 1 and windows of up to 3 in 4 moments, thresholds of 2 calls, pages of 1: an insert, a merge or a moment between any two queries; two hours one after the other, and a burst that ends by age or by rate. 4.2 M states |

Five runs are reduced. `playground`: the two projects are symmetric; `Live` forgets the
project of a socket that is gone, a timer that has fired, and after an overlap everything but
the link, since only `LinkIsLive` speaks of it then. `agent_runs`: ban
rows, operators and the two runs that call no tool are symmetric; steps of a tool call
touch neither the ban feed nor the scopes, so these stand still while a call is under
way (`CallsUndisturbed`); `OneSide` lets a behaviour either fill the ban table or go
inside its runs; `Live` forgets the feed when no check is ahead and a call when its run
has left. `chat_relay`: tabs are symmetric, `Live` forgets the frames of connections
that are over, and `Focused` lets a behaviour be large on the relay's side (at most one
tab closes; resets, connections and closed tabs together at most 4) or on the session's
(one reset, the relay keeps up with it) but not on both; the product of the two sides
adds no interaction, since they meet in two queues. Each side has been run once with
larger bounds (3 turns; 3 connections; 3 tabs in part) without an error. `event_path`:
`Focused` lets a behaviour be large among the API processes, on the clock (one thread,
one event, one key that comes and goes) or among the senders (both keys known, the
collector up, one request at a time and nothing half way while it judges); threads,
events and senders are symmetric. `policy_release`: requests are symmetric. A view hides
only what no property of the run and no later step reads.

Deadlock is not checked in the runs with a bound (writes, connections, records):
they stop where the bound is used up. It is in the others, whose configuration does
not say `CHECK_DEADLOCK FALSE`.

Each property of a passing run has a mutant in `PROJECT.json`: a variant of one
mapped definition, written beside it as "Faulty variant", that breaks the property.

### Where the code parts from its documents

All properties above hold. These are places where a comment or a document says more
than the code does; the models follow the code, and the properties say where they stop.

1. `serve.py:83` promises a denial on TTL timeout. A reply handled between the timer
   and the cancelled task (`serve.py:189`) still finds its entry and sets the box, and
   the call that was logged as timed out returns approved (`Expire`, then `Resolve`).
2. R-POL-002 says PUT and DELETE keep the store composable. DELETE checks capabilities
   only, and only for being imported: deleting a boundary that defines a constant an
   imported capability uses leaves a project that does not resolve. `LibraryLinks` is
   about what the checks do keep.
3. R-POL-002 says only opa being down leaves a stale bundle. Constants are checked
   role by role at write time and across roles at compile time (`rego.py:162`), so two
   roles with different values are accepted and never compile. Nor does the check look
   for what only the compiler refuses: an ordered comparison inside a quantifier of two
   operands of unknown type (`rego.py:671`). `CheckedProjectsBuild` excepts both.
4. `members/service.py:3` says the invariant of at least one owner lives there. Owners
   are counted in one statement and the write is a later commit (`:62`), so two owners
   who leave, or demote or remove each other, at once both pass the check.
5. An invitation accepted while it is revoked, or while its address is invited again,
   ends accepted and revoked, or leaves two pending ones; accepting on a stale row may
   lower somebody promoted meanwhile. `BooksKept` excepts an organisation so `raced`.
6. `orgs/router.py:38` says concurrent repairs cannot make two organisations. Two
   requests that both find none do, if the second picks its slug after the first has
   committed; with the same slug one of them fails.
7. `CreateOrgDialog.tsx:79` and `AcceptInvitation` select the new organisation. The
   bootstrap of `AppShell.tsx:55` may run with the old list and take it back.
8. `lib/active.ts:6` says the selection resets on logout. Nothing resets it, and the
   former user's cached organisations stay until the next answer; `TabSettles` says
   that this passes.
9. The playground's close handler drops the prompts, because the process "has already
   denied every in-flight approval" (`playground.ts:242`). That is so when the process
   went; when only the tab's own socket dropped, the call waits on without a prompt
   (`unseen`). And a project entered again while its old socket is still closing gets
   a second socket that nothing closes (`overlap`). The tab also sweeps expired prompts
   by its own clock (`playground.ts:336`), against a moment that the process stamps
   before it takes the lock and sends (`serve.py:144`), while the TTL it waits for only
   starts after the send (`:179`): a call may wait on without its prompt.
10. `audit/service.py:490` says both scans of a summary see one slice. That is so for
    the range, not for rows inserted or merged between the scans; a merge between pages
    of the feed moves rows past the offset.
11. `audit/service.py:798` and `:811` define an anomaly by "more than"
    `ANOMALY_MIN_REQUESTS` requests. The query (`HAVING count() >=`) and the scan take
    exactly as many for enough, and so does the model.
12. `hexgatebiscuitauth/config.go:92` calls `poll_interval` the worst case for which a
    revoked key still works. That is so while each poll succeeds at once; through polls
    that fail, hang or are late it is `max_staleness` and one load, as `VerdictIsRecent`
    says.

## 4. Fairness

- `RelayApproval`: the event loop runs ready tasks, timers fire, `ws.send` returns
  or raises (the keepalive closes a dead peer): weak fairness. `asyncio.Lock` is
  FIFO, so a waiter is not overtaken for ever: strong fairness of `TakeSendLock`.
  People, networks and cancellations owe nothing.
- `PolicyRefresh`: a thread that has its answer runs on. That answers keep coming is
  a premise of `Converges`, not an assumption.
- `Enricher`: `restart: unless-stopped` restarts members, the coordinator assigns a
  partition nobody has, and stores come back: an attempt repeated for ever
  succeeds. `Assign` is strongly fair because its members come and go.
- `Workspace`: the browser renders, delivers answers, and the platform answers, which
  `TabSettles` needs. Users owe nothing, and are bounded, so the tab can come to rest.
- `PolicyRelease`, `AgentRuns`, `PolicyEngines`, `ChatRelay`, `EventPath`, `RunStream`,
  `Playground` and `ReadModels` have safety properties only. In `EventPath` every step
  of delivery may fail for good; in `ChatRelay` and `Playground` nothing brings a lost
  status or frame again.

## 5. Proofs

All theorems are for every value of the constants, from the `ASSUME`s of the
component modules, which TLC evaluates in each run: disjointness of model values
(`NoneAssumption`, `NoSocketAssumption`, `ChatTabAssumption` and the like), ranges of
bounds, the shape of records and bindings, that an edit is not the placeholder of an
agent that is not registered (`EditsAssumption`), that the two processes of
`ChatRelay` have names (`AgentsAssumption`), that the tab's two requests are among the
requests (`RequestsAssumption`), and that events are of known roles and have an outcome
(`SamplesAssumption`), with `Medium <= High` as in `audit/service.py:56`.

A property as it is checked is rarely inductive: it forgets who holds what and what
is still on its way. Each proof module states an invariant that adds this, run
through TLC first (but for `ReadInv`, whose sequences TLC cannot enumerate), shows
that it holds at the start and through every action, one lemma an action, and derives
the properties from it. Two modules hold the proofs of two specifications each.

**`RelayProofs`**, on `RelayApproval` (`PendingIsOwed`, `NoneStranded`, the safety part of
`GateSpec`). `ApprovalInv` joins to the checked ones that a box or a reply that says
yes was granted, that a live call has a socket, and that a call that has not asked
has nothing registered. From it: `RegistryExact`, `DisconnectReleases`,
`NoUngrantedApproval`, `FramesDoNotInterleave`, `AnswersAreFinal`, `ImplementsGate`.

**`RelayProofs`**, on `ChatRelay` (`TurnsDoNotMix`, `ResetForgets`, `IndicatorIsTrue`,
`FramesInOrder`). `SessionInv`: the running turn is the one that holds the lock
(`OneRunner`), frames on their way and tasks that wait are of turns once each, and the
running turn's input is the history, unless a reset has fallen since, in which case the
history is empty and the turn was cut (`InputIsHistory`); answers follow their questions
(`AnswersFollow`). `HubInv`: the attached connection is the last one accepted
(`ServeIsLast`, by a least-number argument over any number of connections), who
broadcasts has finished evicting, a tab has been sent each frame the hub took or is
about to be (`FramesSent`), and a status that travels alone is true (`StatusIsTrue`):
the last of these is what makes `IndicatorIsTrue` inductive, since the statement is
silent while anything is on its way. `FramesStayInOrder` is an action property.

**`PolicyProofs`**, on `PolicyRefresh` (`CacheIsPaired`, `FeedSpec`). `RefreshInv`: only the
holder of the lock has a response, a 304 is only there while the cache has an ETag, and
everything in hand was accepted. From it: `RefreshTyped`, `CachePaired`,
`EnforcedWasVerified`, `ImplementsFeed`.

**`PolicyProofs`**, on `PolicyRelease` (`LibraryLinks`, `BundlesMatchStore`, `OneMode`,
`LastGoodStays`). Only the holder of the project lock has a job (`LockDiscipline`), so
the rows that a job will commit are still what the store and the agents say
(`FanoutIsFresh`, `RowIsFresh`), however opa came and went since they were compiled.
What makes the mode single is a case split over the recompile that is under way: a flip
finds the bundles of a classic project and may have to restore them, a fan-out to
classic finds those of a modular one, and in every other state the bundles are in the
project's mode (`BundlesInMode`, `FlipFoundMatching`, `ClassicIsSettled`). Linking comes
apart into lemmas about `Cell` and the checks of each route: each checks its own half,
and the proof shows that the halves make a whole. `LastGoodAlwaysStays` is an action
property.

**`EnricherProofs`** (`SinkSpec` without its fairness). What a poll took is, part by
part, in its hands or in the stores; envelopes are only sent once the rows are in;
the owner's position is the committed offset or the end of the poll in hand. From
it: `NothingLost`, `NoRecordSkipped`, `Attribution`, `ImplementsSink`.

**`AgentRunsProofs`** (all five properties of its run). Three invariants. Of the feed:
the ETag pairs with the cached set, ids once given keep what they name, and a
response or a set in hand decides as the table did at a moment its run's check has
seen; hence `ChecksAreAtomic`. Of the scopes: an object's stack is as deep as the runs
inside are many, and each of its entries is one that every run inside may restore;
hence `ScopesAreRestored`, for any number of runs on one object. Of a call: what it
has recorded, asked for, reported and run at each of its steps, for any policy and
any chain of guards; hence `CallsExecuteAsDecided`, `CallsPassEveryGate`,
`CallsLeaveTrueTrails` and `CallsReportRewrites`. The three give `RunsAreTyped`.
`RolesAssumption` (a role set is a non-empty sequence of roles) is an assumption
because `Distinct` is a fold, about which the provers cannot reason by induction.

**`EventPathProofs`** (`OneRoot`, `VerdictIsRecent`, `EventsReachTheirProject`,
`NothingLeftBehind`). One part per composed module. Keystore: whoever is past the link
holds the keypair on disk, and a damaged private file stops everybody before a key
is drawn (`KeysAgree`), so what is signed is signed by one root (`SignedByRoot`).
Collector: a snapshot is the key table of some moment, at most one load older than
its stamp (`Dated`), the load in hand began no longer ago than its timeout
(`CacheDated`), and a request that looked at a snapshot keeps that one; so a verdict
is at most `max_staleness` and one load old, and the proof needs arithmetic on
moments but no bound on them. Senders: a sender is made with its key, a thread emits
through a sender of its own key, so what is queued or in flight was emitted under the
sender's key (`EventsKeepKey`), however registry entries are replaced; a sender that
does not run holds nothing (`EndsEmpty`), which together with the exit hooks gives
`NothingIsLeftBehind`. The path joins them: what the collector judges is the key of
the sender that posted.

**`PlaygroundProofs`** (`NothingCrosses`, `OneAnswerPerTurn`, `NoPromptSwallowed`,
`LinkIsLive`). Layer by layer. The link: without overlap the active socket is the only
one that lives, and a timer runs only when it has gone (`OneLink`). So what it hears
is of the open project (`InboxOfProject`, `ShownOfProject`, `AskedHere`). A chat frame
on its way is of a turn that was sent, once, in its project (`SentOnce`), hence one
run of a turn. Prompts: a call whose request was not missed, and whose prompt was
not swept, has its prompt, its request or its reply on the way (`PromptInv`). Turns: without haste the frames in the
socket are of the turn that `currentTurnId` names, in order, each letter later than
all it shows (`HeardInOrder`), which is what `OneAnswerPerTurn` lacks to be inductive:
letters still in the socket must not repeat those on the screen. `RunEnd` replaces the
text by the whole message, and an error may cut it; the empty message, which the
reader ignores, is a case of its own.

**`WorkspaceProofs`** (`BooksKept`, for any number of users, organisations and rows, and
any number of requests at once beside the tab's own). The organisations that are not
`raced` are kept in order because of what a request that is half way through knows
(`RequestSound`, theorem `RequestsKnow`). A row it has read may have been changed or
deleted, but its number was not given again, so the row of that number is of the same
organisation (`KnownRow`, `KnownInvite`): a commit can only disturb the organisation
that it marks as raced when the row is another one by now. A request that is about to
remove or demote an owner has counted another owner (`OwnerLeaves`), who is there still
or the organisation is raced. The invitations that a request is about to revoke as stale
are all of the organisation it writes to (`KnownStale`). The steps of the tab change
none of these rows; its two requests go through the same statements as all others.

**`ReadModelsProofs`** (`SummaryAddsUp`, `NoneSkipped`, `BurstsFound`, for any rows,
roles, page size, window and thresholds). These are about the results of sums over
sets, of concatenations and of a scan with two pointers, so the module begins with
induction over data, made for each function apart (see below). Then, part by part
of `ReadInv`:
- `SummaryRead`. The groups of one scan, added up in any way, give the rows of the
  slice (`GroupedAddsUp`, from `CountByKey`: a sum over a set is the sum over its
  classes), and until the second scan the slice has only grown (`AskedGrows`).
- `FeedRead`. An event that was there from the start is loaded already, or has at least
  as many rows before it as the offset says (`AheadOf`), which inserts and retries only
  make more. A page then shows the rows after the offset, in the order of the query.
- `AnomalyRead`. One step of the scan (`Scan`) reports no row twice (`SlideOnce`), and it
  finds what is busy (`BusyIsNear`), in any order of equal times. Its window is always
  the end of what came (`Held`); a row out of it is too old, or went with a burst that
  left a trail (`Gone`). So at the last call of a busy hour the window holds the whole
  hour, is above the threshold and in one streak with a burst that is reported
  (`Reached`), or a burst discarded part of that hour and is near.

The proof corrected the model twice. `BurstsFound` once spoke of the hour up to any call in
the slice, by whatever user, and held on the run's three events. It is false on larger
tables: the code slides its hour over one user's rows, so an hour that ends between two
calls of a user can be above the threshold while none that ends at a call of theirs is.
It now says what the code promises, the hour up to a call of that user. And that every
busy hour has a burst of its own is false as well, because of the rows that a burst that
ends takes with it; that case is now part of the statement.

Induction over data: the library's induction theorems take an operator as a parameter,
which the provers cannot instantiate. Where a definition is a function over sets or
numbers, the proofs go round this with a set of numbers that holds 0 and the next of
each of its members (`NatSetInduction`), and the same for the subsets of a finite set
(`SubsetInduction`); both follow from the least-number principle. That has to be done
for each function, and serves here for sums, `FlattenSeq` and the scan, and in
`RelayProofs` for the last connection accepted.

Only model-checked:

- liveness: `GateSpec`'s fairness, `Converges`, `EverythingSettles`, `TabSettles`,
  which TLAPS does not reach;
- `PolicyEngines` (`EnginesAgree`, `LayersCompose`, `InheritanceIsLinear`,
  `AnalyzerIsRight`): its functions recur over documents (`RECURSIVE`);
- `RunStream` (`ShownAsSaid`, `ToolsSettle`): both compare folds, over the events of a
  run, with filtered histories (`FoldLeft`, `SelectSeq`), for four adapters; that would
  be an induction for each of their functions.

## 6. Not modelled

Cryptography, HTTP and WebSocket framing, handshakes and tokens, regular
expressions, the parser of operands, SQL below the transaction, Kafka's own
replication, topic retention (a permanent failure outlasts the three days of the raw
topic; the deployment file calls it a known gap), several partitions (the job treats
them alike), oversized envelopes (`dlq.py` caps them), formatting, redaction and byte
caps of fields, demo data.

Parts of modelled components: expiry of bans, policy version history and manifests,
run facts, policies from local files (`BundleDirPolicySource`, `YamlPolicySource`),
renaming of organisations, Google sign-in, e-mail verification and password reset;
the collector's mode without revocation (it trusts the signed project), its parsing
of headers and its outage log; the local mode of the senders; Google's thought parts;
time series, the list of decisions (which orders by `occurred_at` alone) and the
summary of LLM invocations; the dashboard's policy editor, graphs and forms, failing
or retried requests, other tabs that change the cookie, and the rest of a given-up
fetch on the server. A login before the first answer about the user has come joins
the older fetch; `SignInForm` waits for that answer, as a person would.

Whole components: the MCP toolset (a failure half way through `__aenter__` leaves
proxies of clients that are closed, `mcp/proxy.py:170`), the spawners and the serve
manager (a cap is checked before the sandbox is created, `modal_app.py`), egress control
and the sandbox, and the CLI are I/O and configuration with no protocol of several
actors. `PROJECT.json` gives a reason for each.

## 7. Plan

In order of what it would tell us:

1. `RunStream`: lemmas about `ApplyToTurn` and the accumulator, one frame at a time, then
   the induction over frames in the manner of `ReadModelsProofs`.
2. `PolicyDelivery`: `PolicyRelease` serving `PolicyRefresh`; an accepted edit is
   enforced in the end, and a deleted grant is gone.
3. Run facts recorded by the calls of one run, in `AgentRuns`; manifests and version
   history in `PolicyRelease`.
