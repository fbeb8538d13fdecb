# A formal model of mcpflow

mcpflow is a gateway for MCP servers. It keeps a registry of child servers, starts each
one that is enabled and approved, publishes their tools on one endpoint, and lets several
users own, share and administer servers. Everything runs on one asyncio event loop, so
steps interleave only where the code awaits.

This directory holds TLA+ models of that code (src/src/mcpflow), TLC configurations that
check them on small instances, and TLAPS proofs that hold for every size.

## Inventory

| Part | Source | State it keeps | Operations | What must hold |
|---|---|---|---|---|
| Child lifecycle | supervisor.py | `_children`, `_removing`; per child: lock, status, spec, start task, session, provider | startup, add, update, approve, remove, enable, disable, restart, finish_oauth, shutdown; `_run_start`, `_teardown`, `_probe_child` | only the approved stored revision is reachable; one process per key; the status tells the truth; every operation returns |
| Registry | registry.py | servers.json and the user file; records with revision and approval | add, update/merge, remove, set_* | persist then adopt; an edit un-approves; masks never persist |
| OAuth credentials, flows | oauth.py, supervisor.finish_oauth | client/token/refresh file per reference; open flows | create, peek, pop, discard, write_*, remove | a flow is spent once; no credential outlives or precedes its server |
| Header refresh | supervisor.py 977-1270 | refresh task and grant counter per child | loop, once, repair, cancel | a late answer never overwrites a newer grant; file before header |
| Identity | identity.py | users, groups, setup codes, incarnation | authenticate, setup, replace_credential | a stale code, cookie or verify never opens the account of a successor |
| Sessions, tokens | auth.py | token files per user; signed cookies | create, revoke, lookup, verify | cap; an effective scope never exceeds the role |
| Access policy | policy.py | rules | resolve, keys_for, add/remove rule, delete_user, delete_group, issue_setup_code | global allow never reveals a private server; cascades survive a crash |
| Caller router | router.py | none (reads the mount table) | list, get, by hash | a name two servers may own is refused |
| Tool snapshot, visibility | supervisor.py | snapshot per generation, transforms | tools, probing, set_*_muted | a mute hides for everyone; a stale probe writes nothing |
| Source store | sources.py | directory per reference | write, remove, owns | a crash leaves the old or the new tree |
| Actions, instructions | actions.py, instructions.py | none | run_action, reads | lease discipline; secrets masked |
| Adapters | web.py, api.py, admin_mcp.py, gateway.py, cli.py, config.py, catalog.py, importer.py | forms, caches | routes | thin over the parts above |

The parts interact by direct calls (adapters call the supervisor and the policy; both call
the stores) and by shared state: the mount table, the `Child` objects and their sessions.
What is hard is the interleaving of long operations (a teardown spans several awaits while
it holds the lock of its child) with start tasks, probes, leases, lock-free visibility
writes, token refreshes and OAuth callbacks; crashes between two files; and answers that
arrive after the state they belong to is gone. PROJECT.json lists these hazards by line.

## Plan

1. **ChildLifecycle**, its abstract specification **ApprovedService**, and proofs (done).
2. **HeaderGrant**, its abstract specification **GrantLedger**, and proofs: the flows,
   finish_oauth, the refresh loop, crash and restart of a header sink (done). Left: the file
   sinks.
3. and 4. **Accounts**: login, setup and settings with the worker thread between check and
   write, incarnations, admission, and the cascades with a failure between two stores (done).
   Left: group memberships, the two token files.
5. **Access** and **Routing**: the decision, the view, the refusal of ambiguous names, with
   theorems (done).
6. **Stores** and **Gateway**: the registry files, visibility, logs, sources and rules, and the
   requests and action runs beside them; **Redaction** (done).
7. Left: `shutdown`, which is a teardown with no lock, in ChildLifecycle; the age of snapshots.

## Modules

### ChildLifecycle

State and actions follow the code one to one. A step is the code between two awaits.

| TLA+ | Code |
|---|---|
| `registry` | the stored record: revision, approved revision, enabled |
| `children`, `removing` | `_children`, `_removing` |
| `key`, `kind`, `pc`, `target` | a call: its key, operation, suspension point, resolved `Child` |
| `lock`, `status`, `spec`, `task`, `run`, `session`, `provider` | the fields of `Child`; `run` is the generation number its start will take |
| `genState`, `genRev`, `leases`, `probe` | `ChildSession`: state, the revision it was built from, lease holders, probe task |
| `expired` | history: generations whose drain was cut short |
| `Add` | `add`, which never suspends |
| `Invoke`, `Granted`, `Refuse`, `Abandon` | `_locked`: resolve, wait, check; refuse; be cancelled while queued |
| `Begin*` ... `Finish*` | the operation up to its first await in `_teardown`, and its synchronous tail |
| `StartTeardown`, `TaskEnds`, `Drain`, `CloseSession` | `_teardown` between its awaits |
| `RunStart`, `ProbeReturns`, `Publish`, `FailStart` | `_run_start` |
| `Lease`, `Release`, `ScheduleProbe`, `StartProbe`, `EndRead`, `ReportProbeFailure` | `_lease`, `_schedule_probe`, `_probe_child` |
| `Mute` | the lock-free visibility writes, as far as they refresh `child.spec` |

An operation creates at most one `Child` and at most one generation, so one finite set
`Call` names the three. It is the only bound: a model allows as many operations as `Call`
has elements, less the servers that exist at boot.

Abstractions, each of which only adds behaviour:

- Waiters are not queued: any waiter may get a free lock (asyncio grants in order).
- A start or a probe that is ready for a free lock may take it in a later step.
- An operation may always refuse: whether the actor still has its right, and whether a
  credential or a source is in order, is state of other parts.
- `Drain` is a step even when there is nothing to wait for, and its bound may pass at once.
- A queued call may be cancelled; a teardown is never cut short, since its awaits absorb a
  cancel and go on.
- stdio and remote children differ in who enters the client, not in any step modelled here.

Two constants switch what the environment does: `BuildMayFail` lets `_build_transport`
raise, `CancelMaySwallow` lets the client library turn the cancel of a start into an
exception of its own. A client exit and a transport close are assumed to return.

### ApprovedService

What the supervisor promises, in two variables: the records, and the revision each key
serves. There an edit, a disable and a removal withdraw what is served in the same step as
they change the record, and serving starts only from a record that is enabled and approved.

Two models implement it, each with what the other leaves out. In ChildLifecycle the tasks,
locks, leases and teardowns are in the way, and `ServedRev`, the revision of the generation
behind the mounted provider of the current object, is the refinement mapping. In Stores and
Gateway it is the files, the failing writes, the visibility writes, the requests and the crash:
`StoredRecord` is what the registry says of the process (a mute is not seen), and `ServedEnv` is
the environment of `child.spec` while a transform is mounted. A crash is `StopAll`: nothing is
served, and no record is lost, since memory is what the files hold.

### MCChildLifecycle, MCHeaderGrant, MCAccounts, MCGateway

The instances for TLC: symmetry over the sets of interchangeable values in the safety
runs (no member of these sets is distinguished), none in the liveness runs. `MCGateway` has no
symmetry, since its servers and users differ; its `Scenario` gives each initial state a budget
of steps of each kind, and it also states `ScrubKeepsPromise`, which TLC evaluates: over all
texts of up to five letters and all sets of five overlapping secrets, `Scrub` is `Promised`.

### HeaderGrant

One admin-owned server whose access token is a request header. References share no file and
no flow, so one server stands for all; it can be added, removed and added again, and then
keeps its name but not its identity (`server` tells the two apart).

| TLA+ | Code |
|---|---|
| `disk` | the record in servers.json (whose it is, enabled, header) and `refresh.json` |
| `flow`, `server`, `exchanging` | `PendingFlows._flows` with the reference of each, `_exchanging` |
| `child`, `used`, `removing`, `lock` | `_children[key]`, the objects made so far, `_removing`, `child.lock` |
| `kid` | the fields of the `Child`: grant, kind of `last_error`, `refresh_rejected`, status, the header in the live transport |
| `table`, `task` | `_refresh_tasks[key]`, the tasks with what each captured |
| `call` | a callback, or a remove or disable, at its suspension point |
| `issued`, `posted` | history: where a token comes from, which codes were posted |
| `Connect`, `Reauthorize`, `Expire` | the two forms, `_sweep` |
| `BeginCallback`, `Exchange*`, `Finish*`, `EnableFails` | `oauth_callback` and `finish_oauth`, whole and with a failing write |
| `Sync*`, `RecordFault`, `Send*`, `Renewed`, `NotRefreshed`, `Retry`, `Apply*`, `RecordRejection` | one round of `_refresh_loop` |
| `Enable`, `BuildTransport`, `StartEnds`, `ProbeFails` | `enable`; the two moments of `_run_start`; the failure path of `_probe_child`, as far as status and `last_error` go |
| `CancelledEnds`, `CancelSwallowed` | what a cancelled task does |
| `Crash`, `Boot*` | the end of the process at any point, `startup` |

An operation that writes twice is given as the sequence of states of the disk it goes through
(`AddWrites`, `RefreshWrites`, ...). Nothing runs between two writes without an await, so one
step makes them all; a crash (`Torn`) or an error (`CutShort`) may leave any of the states in
between. Each write by itself is atomic, as `_write_private` makes it.

Abstractions:

- A token stands for one answer of the token endpoint: an access token and the refresh token
  to use next. What the provider does with the old one is not tracked; that a request
  carries the stored one is a property (`SendsWhatIsStored`).
- Sleeps and the clock are left out: a round may send at any time, a flow may expire at any
  time, a retry may or may not find its token expired.
- A restart or an update is, for the header, a disable and an enable. The start task is cut
  down to the moment it takes the header and the moment it ends; a teardown is a suspension
  that holds the lock. Both are modelled in full in ChildLifecycle.
- A child is created only by the connect form. Headers that an admin edits by hand, a
  user-owned header sink (which never has a `refresh.json`) and a file sink are left out.
- `CancelMaySwallow` lets the HTTP client lose the cancel of a request under way, so that an
  old task lives on; `AnswerMayBeGarbled` lets the endpoint answer 2xx with no JSON.

`MaxMishaps` bounds crashes and failed reads or writes together. The other bounds are the sets.

### Accounts

One user id besides the bootstrap admin, one group name and one private server key. Each can
be deleted and created again, and then shares nothing but its name: `life` counts the
creations of a name and is what no store records.

| TLA+ | Code |
|---|---|
| `disk.user` | the record in users.json: exists, hash or code, pending or active, in `admins` |
| `disk.group`, `disk.server` | a name in `_groups`; a private record of the registry with its owner |
| `disk.tokens`, `disk.rules` | `TokenStore._records`, `RuleStore._rules`, as far as what they name |
| `incarnation` | `_incarnations[id]` |
| `removing` | the key is in `Supervisor._removing` |
| `cookie` | the last session cookie the user was given; an older one binds the same credential or a dead one |
| `call` | a request at its suspension point: a login, setup or settings form in its slow hash, or an admitted page, /api or /mcp request with its `User` snapshot |
| `BeginLogin` ... `Swap` | `login_post`, `setup_post`, `settings_password`, cut at the worker thread |
| `Admit*`, `ResolveTool` | `SessionGate`, `AdminTokenGate`, `HashedTokenVerifier`, `current_user` |
| `CreateUser` ... `FinishRemoveServer` | the operations of `AccessPolicy`, and `Supervisor.add` and `remove` as far as owners and rules go |
| `Restart` | the end of the process and `load` |

An admitted request writes once, at any later time: that is the await between the gate and
the operation (the form, the lock). The operation itself has no await, so it is one step; a
cascade goes through the states of its `...Writes` and a mishap leaves any of them but the
last. A write to one store is atomic (each store writes a file beside, renames it, then
adopts). A crash inside a cascade is a mishap followed by `Restart`.

Abstractions: credentials are numbers in the order they are made, since neither a salted hash
nor a code repeats; a wrong password, a wrong or expired code and an expired cookie are steps
not taken (`GiveUp`); the bootstrap admin may act at any time and its account never changes;
the tools of /mcp write servers of the gateway, which are not among these stores, so that
write is the step `ToolWrites` itself. A rule's level, tool and effect are left to the module
of `resolve`.

### Access, Routing, Redaction

The parts with no state. `Access` is `resolve`, `Reach` and the view of a user; a definition
has the name of the function it translates. `Permitted` says a second time, by levels, what a
decision means. `Routing` is what the caller router does with the answers of the servers:
`Clash`, `Unique`, `Single` are `_clash`, `_unique`, `_single`. `Redaction` is `scrub_secrets`,
and `Promised` what it promises letter by letter.

A name is the sequence of the parts that `_` separates, so that "starts with `n_`" is "has `n`
as a strict prefix"; a resource has its namespace as the first part of the path. A text is a
sequence of letters, a mask one letter.

### Stores

| TLA+ | Code |
|---|---|
| `specs`, `rootMuted`, `builtin` | `Registry._specs`, `_root_muted`, the admin object |
| `adminFile`, `userFile` | servers.json and user_servers.json |
| `rules` | `RuleStore._rules` and rules.json, which never differ |
| `status`, `spec`, `task` | the fields of `Child` |
| `live`, `builtinLive` | the `Visibility` mounted for a child, for the built-in server |
| `op` | the operation between its two steps: it holds the lock, or the key in `_removing` |
| `log` | the environments whose output logs/<ref>.log has or may still get |
| `tree`, `version`, `seen` | servers/<ref> with `.tmp` and `.old`; the write each is from; what the process read |
| `pending`, `acked` | `write_source` calls before their restart; the last that answered |
| `SetRootMuted` ... `SetAdminToolMuted` | the visibility writes: registry, `child.spec`, transform |
| `AddRule`, `RemoveRule` | the rules of an administrator |
| `Add`, `BeginUpdate`, `Approve`, `BeginRestart`, `BeginRemove`, `Finish*` | the operations, before and after the awaits of `_teardown` |
| `RunStart`, `Publish`, `StartFails`, `ProbeFails` | `_run_start`, the failure of `_probe_child` |
| `Stages`, `WriteSource`, `ReadSource` | `SourceStore.write` state by state, and the process reading beside it |
| `Crash` | the end of the process, `load`, `register_builtin`, `startup` |

Each write may fail (`ok`, `done`), and an operation that writes several stores may stop after
any of them. Abstractions: `env` stands for all of a record that the approval digest covers;
the lock and the leases are ChildLifecycle's and are here the one value `op`; the right of the
actor is in Accounts. `enable` and `disable` are not among the operations: to these stores each
is an edit of `enabled`, and ChildLifecycle has both; the header that a sign-in or a refresh
writes into a record is in HeaderGrant. A local start truncates the log, a remote one does not; the model keeps
the old output in both. An absent source tree reads as version 0. A mute that would change
nothing is not taken. That `_build_transport` may raise is the finding of ChildLifecycle.

### Gateway

Extends the four modules above with one request and one action run.

| TLA+ | Code |
|---|---|
| `admins` | who is in the group of administrators now |
| `req` | an operation of `CallerRouter`, or the instructions of a new session, at its await: its `Reach`, the providers routed, the answers so far |
| `req.chain` | a provider that was unmounted meanwhile, which keeps its marks |
| `req.shown`, `req.steady` | history: what the stored policy showed at some moment, at every moment, of the request |
| `act` | `run_action` between its check of the actor and its call |
| `Receive`, `Initialize` | `_route`, `routed`, the candidates of `instructions_blocks` |
| `Answer`, `AnswerFails` | one result of the `gather` in `_ask` |
| `ReturnList`, `ReturnGet`, `Lookup`, `Named`, `ReturnInstructions` | the ends of the paths |
| `BeginAction`, `FinishAction` | `run_action`; its outcomes that change nothing and run nothing are left out or end the run |
| `Follow` | what a step of Stores does to a request and a run under way |

The error that an ambiguous identity raises is a refusal. A crash ends the request and the run.

### GrantLedger

What the sign-in promises, in five variables: the flows, the server of each, where each token
comes from, the listed server and its refresh token. A flow writes once, for the server it was
opened for, and is spent in the same step; an answer replaces only the very token it was given
for; a listed server starts without a token, and none of its flows outlives it. No file, lock,
task, request or crash is in sight. HeaderGrant implements it with `LiveGrant`, refresh.json of
the server that is listed: the file an unfinished removal left is nobody's, and the crash
between two writes is the same ledger step as the operation it cuts short, or none.

### The proof modules

ChildLifecycleProofs, ChildLifecycleRefinement, HeaderGrantProofs, AccountsProofs,
DecisionProofs, RedactionProofs, StoresProofs and GatewayProofs hold the theorems; see Proofs.

Definitions whose comment starts with `Mutation:` are not part of the specification. Each
is a plausible mistake in the definition that follows it, kept to show that a property
would catch it.

## Runs

| Run | Instance | States | Shows |
|---|---|---|---|
| safety | one user-owned key, 2 revisions, 4 calls, 1 reader, both switches on | 289 784 | the safety and action properties, the refinement |
| liveness | one key, 1 revision, 3 calls, both switches off, fair | 77 869 | every call returns, every start settles |
| build_fails | as liveness, `BuildMayFail` | counterexample | a start that cannot build stays `starting` |
| swallowed_cancel | as liveness, `CancelMaySwallow` | counterexample | a teardown and the start it cancelled wait on each other |
| grant_safety | 2 flows, 3 tokens, 2 children, 2 tasks, 2 requests, 1 mishap, swallowed cancels | 310 394 | the safety and action properties of the grant, the refinement |
| grant_liveness | 1 flow, 2 tokens, 1 child, 2 tasks, 2 requests, 1 mishap, fair | 22 060 | every callback is answered, the header catches up |
| grant_retrying | 1 flow, one token without expiry, 1 mishap | counterexample | a server says "retrying" with no task |
| grant_garbled | 1 flow, garbled answers | counterexample | one flow is exchanged twice |
| grant_covered | 1 flow, one token that expires, no mishap | counterexample | a failing probe takes a rejection off a running server |
| accounts_safety | 2 requests, 1 token, 1 rule, 3 credentials, 3 lives in all, 1 mishap | 623 646 | the safety and action properties of the accounts |
| gateway_safety | 4 servers, 3 users, 8 rules, nine scenarios | 212 233 | the safety and action properties of the gateway and its stores, the refinement |
| accounts_tool | the same | counterexample | a tool request of a deleted user writes as its successor |

Why the bounds are enough: the worst interleavings known from the code's own tests need a
child that exists at boot, an operation that is queued or tearing down, a second that
removes or replaces, and a third that re-adds: four calls. Two revisions tell an approved
one from its edit. One reader can hold a drain. Two cases lie outside these bounds: a stale
waiter whose replacement already runs (one call more, the approval; `RecordChangesUnderLock`
meets the waiter while the replacement is idle), and an admin-owned server, which needs no
approval and which only the gateway run has. The proofs do away with the bounds, and with the
choice of owner, for every safety property of the lifecycle and for the refinement.

For the grant: the second flow either authorizes the same server again or adds its
successor; the third token is a refresh that meets a new sign-in; a swallowed cancel keeps
the task of the old grant beside the task of the new one, hence two tasks; two requests are
a callback and whatever removes or disables under it. One mishap is a crash, or a write that
fails with everything after it in order; two mishaps in one history are not covered. Tokens
without an expiry are absent from grant_safety because `RetryingIsTrue` fails with them
(grant_retrying).

For the accounts: three lives let two of the three names live, or one of them live again
while another exists, which is all that a rule, a token or an owner relates. Three
credentials are a code, the password set with it, and the code of a reset or of the next
life. Two requests are a slow login or change of a password and whatever redeems or changes
under it; the bootstrap admin acts besides. One slot for a token and one for a rule suffice
because no property relates two tokens or two rules; the cap of tokens is therefore met at
one token only.

For the gateway: servers `n` and `n_x` of the administrators share the name `n_x_t`; Alice owns
a second `n`, or may use a server of Bob that has one tool she is denied elsewhere. The nine
scenarios are one run of each pair of actors that share state: a request beside a policy change
and a failure; a request beside an edit, a removal or a restart; an action run beside all of
these; policy, edit and crash; two edits with a failure or a crash; two source writes, with a
restart, a failure and a crash. Three versions are the first tree and two writes. Lists are asked
for all three kinds, gets by name for tools and prompts only (`Asked`): TLC cannot hold the name
of a resource, whose first part is a whole namespace, in one set with the others. The proofs
cover that get too, and do away with these bounds. The run allows a state with no step (`CHECK_DEADLOCK FALSE`): when the
budget is spent and all is settled nothing is left to do.

The properties:

- `PublishedImpliesApproved`: whatever is mounted is current, enabled, approved and open.
- `OneProcessPerKey`: two generations of a key are never alive together, and a live one is
  reachable by the teardown that must close it.
- `SettledStatus`: while nobody holds the lock, the status says exactly what the child has.
- `NoCloseUnderLease`: a generation is closed with a reader inside only if its drain expired.
- `RecordChangesUnderLock`: a stored record changes only in a step that takes an operation off
  the free lock of the current child, and that operation had resolved this very child. A
  request that waited for a removed server never edits its replacement, idle or not.
- `OnlyReviewedCodeRuns`: what a step may start or lease.
- `ImplementsService`: the refinement.
- `EveryCallReturns`, `StartSettles`: liveness.

Of the grant:

- `CredentialsBelongToServer`: what is on disk was issued for the server that is listed, not
  for one that had its name before, whatever is removed, added again, replayed or cut short.
- `HeaderFollowsFile`, `HeaderCatchesUp`: a header behind its file has a task that repairs it,
  and catches up. `FileFirst`: the order of the writes that makes this possible.
- `OneRenewer`, `NoGrantAbandoned`: a grant that can be renewed is renewed by one task, the
  one in the table, or its rejection was recorded. The exception is a sign-in whose write
  raised: the old grant is retired, no task is started, and what is on disk stays as it is. Only
  the answer to the callback said so; no field of the child does (`kid.unfinished` is history).
  There the property says the rest: no task at all renews until the next sign-in or boot, so
  the old grant never comes back over half of the new one.
- `LiveHeaderCurrent`: a running child sends the header the registry holds.
- `RejectionVisible`: a running child whose grant was rejected shows it, through starts, late
  refreshes and probes; only the error of a start or a probe that made the child fail may cover
  it; and no rejection is shown that a sign-in has settled. `RetryingIsTrue`: a server that says
  "retrying" has a task that does.
- `ImplementsLedger`: the refinement of GrantLedger; a late answer never overwrites a newer
  grant, a replayed callback writes nothing, nothing goes to a server of the same name that was
  added later. `WrittenOnce`, the part of it about one write of the file, follows and is only
  proved. `SendsWhatIsStored`, `OneExchangePerState`: what goes to the provider.
- `CallbackAnswered`: liveness.

Of the accounts:

- `NothingInherited`: an id, a group or a server that is created again meets no token and no
  rule of the one before, whatever was cut short in between.
- `OwnerLives`: a private server belongs to the user that lives now.
- `ResetRevokes`: while a user is pending, no token is from before its code.
- `CookieEarned`, `SwapEarned`: a cookie binds, and a change replaces, the very credential
  that the client proved, whatever changed while the hash was computed.
- `SnapshotCurrent`: a page or /api request writes only for the user it was admitted for, and
  only with a role that user still has.
- `RulesStay`: a rule in force is lost only by its own removal. It tells a loss from a removal
  by everything else the step changes.

Of the gateway:

- `AnswerEarned`: what a request returns was permitted by its rules, shown by the stored policy
  at some moment of the request, and is no other server's: not published by two, not possibly
  owned by one that failed. An app identity is refused once any server failed.
- `ActionEarned`: an action runs for an administrator of that moment, on a shown tool, on a
  generation nobody closed.
- `MemoryIsDisk`: memory is what a restart would load, whatever write failed.
- `MarksAgree`: the rows, the mounted transforms and the stored policy show the same tools.
- `LogMaskable`: of every line in a log, masking with the secrets of the present record shows
  what masking with those of the process that wrote it would.
- `RestartServesWrite`: a source write that answered "restarted" is what the process reads,
  whole and not older, whatever later write overlaps or fails.
- `ImplementsService`: the refinement, here with files, failures and crashes.

And, violated:

- `RejectionStays`: what supervisor.py:1424 says, that only a re-authorization clears a rejection.
- `NoWriteByDeleted`: what CHANGELOG.md:89 promises, of /mcp too.

Fairness: the loop runs every ready task (`CallStep`, `RunStart`), `child_start_timeout`
ends the probe of a start (`StartStep`), `LEASE_DRAIN_TIMEOUT` ends a drain. There is no
fairness for clients, readers, probes or mutes. Weak fairness is enough because only
finitely many calls compete for a lock: a finite number of calls is what stands in for the
order in which asyncio grants it.

The grant has no such bound on competition (a refresh task takes the lock in every round), so
there a waiter gets strong fairness: `asyncio.Lock` grants in the order of waiting, so a
waiter is not overtaken for ever. Requests to the provider end because the HTTP client has a
timeout, and a process that died is started again. Nothing is assumed of users, of the
browser that returns from the provider, of starts, of probes or of mishaps.

## Findings

- **A start that cannot build stays `starting`** (build_fails). `_run_start` builds the
  transport before its `try`; an `OSError` from the log file ends the task outside every
  handler. `restart` and `enable` both decline such a child; disable, update or remove end it.
- **A swallowed cancel blocks a child** (swallowed_cancel). `_teardown` awaits the start it
  cancelled without a bound, under the lock the start's failure block needs. It takes a
  client library that turns a cancel into another exception, which the comments and tests of
  this repository say it can do in a probe.
- **A "retrying" that retries nothing** (grant_retrying). A round that fails before its
  request records "refresh failed (...); retrying". If the token has no expiry the next round
  ends the task without clearing the text.
- **A garbled answer leaves the flow open** (grant_garbled). A 2xx answer that is no JSON
  raises outside the callback's handlers: the flow is not spent, and a repeated callback posts
  the code again. The only harm is a second request; `finish_oauth` still writes once
  (`ImplementsLedger`).
- **A failing probe covers a rejection** (grant_covered). Once a refresh is rejected the access
  token expires, and the next probe fails: `_probe_child` marks the child failed and replaces
  the text that says to authorize again by that of the probe. `refresh_rejected` keeps the
  rejection but nothing shows it, and only a start that succeeds copies it back. The comment at
  supervisor.py:1424 says that only a re-authorization clears it.
- **A tool acts as the successor of its user** (accounts_tool). On /mcp the token is verified
  when the request arrives and the user is resolved by name when the tool runs. A user who is
  deleted and created again as an admin in between lends its incarnation to the old request,
  so `require_current` passes. CHANGELOG.md:89 promises that such a request cannot land.

## Proofs

`ChildLifecycleProofs` proves, for all constants that satisfy `ConstantsAssumption` (admin
keys are keys; `None` is none of the other values; the switches are Boolean):

1. `Init => IInv` (`InitIInv`), `IInv` is kept by each action (one lemma per action, one step
   per conjunct) and so by `[Next]_vars` (`NextIInv`); hence `Spec => []IInv` (`Inductive`).
2. `TypeCorrect`, `PublishedSafe`, `OneProcess`, `StatusSettled`, `NoEarlyClose`: the type
   invariant and the four state properties.

3. `NeverBlocked`, the safety half of the liveness properties: the guard of the next step of
   every lock holder holds in every reachable state (unless `CancelMaySwallow`), a call that
   waits waits for a holder inside a teardown, which waits for no other lock, and a start under
   way has its next step (unless `BuildMayFail`). It needs `PendingInv` beside `IInv`: no crashed
   and no swallowed task, and an object that is `starting` is current. What is left to TLC is
   that such steps are taken, which is the fairness, and that their number is finite. The two
   findings about starts and cancels are the two hypotheses: neither can be dropped.

`ChildLifecycleRefinement` proves `RecordsGuarded` and `OnlyReviewed` (the action
properties) and `Implements`: `Spec => ImplementsService`.

`HeaderGrantProofs` proves, from `ConstantsAssumption` and `OriginAssumption` (`None` is not
the origin of a token), every property of grant_safety; it needs no bound on flows, tokens,
tasks, requests or mishaps, and holds whatever the switches say, but for two theorems: that
"retrying" is true needs `Lasting = {}`, that a state is exchanged once needs
`~AnswerMayBeGarbled`. The counterexample runs show that neither can be dropped. Four of the
properties are conjuncts of `IInv` as they stand; what carries them is `TaskInv`: a task that
is current is the one in the table, no cancel reached it, and its round is about what
refresh.json holds, so its answer continues the stored grant. That survives because

- `LockInv`: a lock is held exactly by the request inside a teardown, and its child stays
  stopped (or is gone and its key reserved), so no step of a task, a sign-in or an operation
  comes in between;
- `FlowInv`: at most one flow is open, it is for the listed server, and that of a connect finds
  the server with neither credential nor task, so a late callback cannot find a grant to mix with;
- `DiskInv`, `ChildInv`: credentials are of the listed server, and without a child there are
  none; between a crash and the boot only `DiskInv` holds, and `TornIsSound` shows it of every
  state between two writes.

The action properties follow from what a step may leave on the disk (`StepWrites`) and from
who posts and who exchanges (`WhoSends`, `WhoExchanges`). `LedgerImplemented` is the refinement,
with one lemma for each kind of step: what lists, removes, signs in, continues, answers, crashes
and boots. `CutShort` of each operation's writes is treated with the operation, so a crash needs
no argument of its own: `TornIs` says which operation it cuts. `FlowInv` (one open flow, of the
listed server) and `TaskOk` (the answer in hand is that for the stored token) carry it.

`AccountsProofs` proves, from `ConstantsAssumption`, the eight properties of accounts_safety.
The five invariants need four facts of the order of events (`IInv`): the credential of a
user is the last one made (`CredentialIsLast`), what a request read and proved lies in the
past in that order (`ProofsInOrder`), a snapshot of the present incarnation is of this life
(`SnapshotsInOrder`), and a server that is taken down has no record (`RemovingIsGone`). So a
login that signs the binding it read first has proved that same credential, and a request
that is still current writes for its own user. That cascades cut short lose no rule in force is
one lemma (`CascadesKeepRules`): the subject or the server is gone before or after each loss.

`DecisionProofs` proves, of the operators of Access and Routing and for any rules, users,
servers and names: `resolve` means what the levels say (`DecisionIsPermitted`); a private
server opens only by a rule that names it (`PrivateStaysPrivate`); a view has one server per
namespace, the own one first (`OneKeyPerNamespace`, `OwnServerInView`); once
the rules that name a server are dropped, the global rules alone decide on it and place it, and
a private one is its owner's unless a global deny applies to the owner
(`OnlyGlobalRulesRemain`); a list is unambiguous and agrees with the get of each
name (`ListIsUnambiguous`, `GetAgreesWithList`); names are shared only where namespaces are
prefixes (`SharedNameSharedPrefix`).

`StoresProofs` and `GatewayProofs` prove, from `AccessAssumption`, `StoresAssumption` and
`GatewayAssumption`, the invariants `StoresInv` and `GatewayInv` and from them the eight
properties of gateway_safety. `StoresInv` has four parts beside the types. `ChildrenBeside`
says how a child relates to its record at every step of an operation, and gives `MarksAgree`:
the mounted marks are those of `child.spec`, and what a mute copies into `child.spec` during an
edit has the marks of the record. `MemoryIsDisk` is inductive by itself. `LogsMatch`: every
environment in a log has the secrets of the stored record, and those of the running one.
`SourcesServe`: the tree serves every write that was answered, that waits for its restart or
whose restart is under way: there is no tree, or a whole one at least as new.
`GatewayInv` adds `RunInv` (the record an action run holds is the present one until its key
goes) and `ReqInv` (an answer comes from a routed server, and was shown at a moment of the
request). `LogMaskable` follows from `LogsMatch` and from what the masking computes, below.

The refinement (`StoresImplement`, `GatewayImplements`) needs one invariant more, `AllReviewed`:
a start task, a mounted transform and a restart under way belong to a child whose status says
so and whose key nobody else holds, and but for an edit between its two steps the stored record
of a child that is starting, running or failed is enabled and approved. `LogsMatch` then gives
that `child.spec` has the environment of the stored record whenever something is mounted, and
`MemoryIsDisk` that a crash changes no record. `AllReviewed` also shows that the approval, which
a restart asks for again after its teardown, is never missing there: nothing can withdraw it
while the operation holds the lock. `ServesReviewed` reads the result off in the words
of the service.

`RedactionProofs` proves of `scrub_secrets`, for any text and any secrets:

- `ScrubIsPromised`: it keeps exactly the letters that no long enough secret covers, and each
  run of the others becomes one mask. The merged spans are increasing, apart from each other and
  cover what the spans cover (`MergeInv`); joined piece by piece they are the promised text.
- `ShownIsUncovered`, `NoSecretIsShown`: no letter of a covered place is shown, and no long
  enough secret occurs in the result, not even where the masking joined two pieces: two
  neighbours of the result without a mask between them are neighbours of the text, so an
  occurrence there would be an occurrence in the text. It assumes that no secret has the mask
  in it. `LogHidesSecrets` says it of the log of every server.

These are inductions, over the spans and over the letters, without the induction theorems of
the library, which take an operator: each is a least counterexample, which `WFMin` of
WellFoundedInduction gives for a set, and the recursive functions of the folds are proved to
exist first. `MergedSpans` is therefore a fold over the set of spans, latest last: `SortSeq` of
TLC is evaluated by Java and has no definition that a prover could use.

None of the properties of the lifecycle is inductive. `PublishedImpliesApproved` needs to know that an edit
finds no provider it does not unmount: that a pending start has published nothing
(`FreeInv`), that the object of a lock holder is the current one (`TeardownInv`) and that a
lock is held exactly by a call inside a teardown (`LockInv`). `OneProcessPerKey` needs that a
removal reserves its key (`TeardownInv`), that every live generation is the session of the
object its start was begun for (`GenerationInv`), and that a start not yet run has a fresh
generation. `NoCloseUnderLease` needs what a finished drain established to survive until the
close (`LeaseInv`). `CallsInv` and `TablesInv` tie calls, objects and keys together. `IInv`
is the conjunction of these.

Model-checked only: the liveness properties (liveness under fairness is beyond the prover), on
the instances above. Every safety property, action property and refinement that a passing run
checks is proved. `IInv` of the lifecycle, `PendingInv`, `NobodyIsBlocked` and `AllReviewed` were checked by TLC
before they were proved; since the proofs hold for every instance, no run repeats them.

## Not modelled

PROJECT.json lists every part with its status.

- Of the lifecycle: `shutdown` (a teardown without the lock) and the error texts; `finish_oauth`
  is modelled with the grant, not beside generations and leases.
- Of the grant: file sinks, user-owned servers, hand-edited headers.
- Of the accounts: group memberships other than of admins, the two token files, expiry.
- Of the registry: the echo masks, the pinned check, a malformed file.
- Of the stores: a start that reads many files while a write swaps the tree may see some files
  of one whole version and some of the next; the model speaks of versions, not of files. A write
  that fails between its two renames leaves no live tree until the next write, and that write
  first deletes the old copy: the model has both, and no property forbids them, since the code
  says so.
- Of snapshots: their age and the poll mark. Of actions: the clauses, the coercion of a form and
  the redaction of its result, which are functions over JSON schemas.
- Versions of one component and the fallback of a template within one server, which cannot make
  two servers answer one name.
- The adapters: api.py and admin_mcp.py call one operation per route, web.py beside its modelled
  parts renders pages, gateway.py, cli.py and config.py wire and start, catalog.py and importer.py
  parse static data.
