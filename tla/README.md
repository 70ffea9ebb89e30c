# TLA+ models of kdb_mw

kdb_mw ("Leebalso") manages WAS and web servers through agents. Agents poll
the server for commands, or are pushed them over MQTT, and post results; some
results are configurations that the server parses into its tables. This
directory holds models of the parts whose correctness rests on an order of
steps: what two requests, a job and a crash can do to each other.

Paths below are relative to the repository (`app/...`, `idp/...`, `docs/...`).

## 1. The system

### Processes and what they share

| process | threads | state |
|---|---|---|
| application server (`gunicorn_config.py`: one worker, two threads) | request threads; one APScheduler thread and its pool; one paho network thread | PostgreSQL at READ COMMITTED; the job store (`SQLAlchemyJobStore`, commits on its own); in memory: `session.info['mqtt_pending']`, the queue of the MQTT client |
| agents | outside this repository | the command ids they have seen |
| MQTT broker | outside | one session per agent |
| IDP (`idp/Dockerfile.idp`: `gunicorn -w 1`) | one | its own PostgreSQL database; reads an external one |

Request threads and jobs use `db.session` and meet in the tables only. No code
path takes an explicit row lock, so what keeps two transactions apart is the
lock an `UPDATE`, an upsert or a foreign key takes.

### Inventory

| component | state | operations | hard behaviour | correct when |
|---|---|---|---|---|
| **command dispatch** (`app/sqls/agent.py`, `app/api/agent_api.py`, `app/mqtt/`) | `ag_command_master`, `ag_command_detail`, `ag_result`; pending pushes; client and broker queues | `create_command_detail`, `flush_mqtt_pending`, `send_commands`, `add_result` | commit before push; `SELECT` then `UPDATE` of a poll; push, poll and result of one row in any order; timeouts; a crash between any two | nothing uncommitted is pushed, a status never contradicts the results, rows only move forward, a waiting row is taken, a poll loses nothing outside its window |
| **command scheduler** (`app/jobs.py`, hooks in `app/views/agent.py`) | master flags, the jobs | hooks on insert, update, delete; cancel; start; finish job; runs | job store and tables commit separately; the scheduler submits before it moves on; start against cancel; misfires, restarts | a cancelled or finished command does not run, a command with runs ahead has a job, a one-time command runs once and is not forgotten |
| **JEUS domain registration** (`app/sqls/jeus_dml.py`, `AutorunResult` in `agent_dml.py`) | `mw_was`, its instances, datasources, applications, connectors, change history, `result_status` | result, manual re-run, REST post, re-registration from text, WEBMain.xml, hosts | compare without a lock, then upsert; two registrations; rollback after part of the work | tables are those of the stored configuration, history tells what happened, statuses tell what was stored |
| **IDP users and sync** (`idp/app/services/sync_service.py`, `user_service.py`) | `idp_user`, external table | sync, create, update, deactivate | savepoint and whole rollback, failed flush, conflicts | a clean sync mirrors the source, a sync gives no row a second user and leaves local and refused users untouched |
| **agent registration and tokens** (`app/sqls/agent.py`, `app/api/agent_api.py`, `app/jobs.py`) | `ag_agent`, refresh commands, the tokens of the agents | register, approve, refresh job, poll, fetch | nothing is retried: a failed job, poll or fetch and a lost response are made good by the job's next run | a token ends only after the refresh was prevented for days; the stored date never promises more than the agent has |
| MQTT connection (`app/mqtt/mqtt_publisher.py`) | connected flag, reason codes by message id | callbacks, `send_message`, `close` | late answers and reused ids, two threads | a return value is about its own message |
| WebToB registration (`app/sqls/webtob_dml.py`) | `mw_web` and children | registration, re-registration | as for domains, with five child tables and four associations | children are those of the stored http.m |
| **WAS-WEB relationship** (`app/sqls/relationship.py`) | associations of connectors, JSV servers and domains, two flags of a web | `update_was_web_relation` for one web (its registration) or all (batch function) | the ORM writes the difference to rows it loaded earlier; no unique key; the registration of a domain does not take part | what a refresh leaves is what the connectors say, no row is doubled, flags follow |
| WAS status (`app/sqls/monitor.py`, `agent.py`) | one status row per instance | status upsert, `get_not_running_was_list` | age threshold, blackout ranges | an alarm for what is not running and not in a blackout |
| **batch functions** (`app/sqls/batch.py`) | the session of a scheduler thread: loaded rows, statements, locks | the wrapper and four re-registrations; ten others | a failure without a rollback, in a session that is never closed; agents register meanwhile | a run puts back only what was registered in its window, stores what it reports but for what a failed upsert rolled back, leaves no row locked |
| role permissions (`batch.py`) | roles | `sync_role_permissions` | none | read and edit variants are subsets |
| ITAM comparison, result parsers (SSL, license, properties, logs), server registry, generic data APIs, views, knowledge base, files, mail, Kafka | one row per call, or none | create, read, update, delete | none beyond their transactions | |

`PROJECT.json` lists all of them under `components`, and under `hazards` the
lines where the hard behaviour bites, with the properties that cover each.

### How they interact

- The hooks of the command view put a job into the store (scheduler) or, for
  an IMMEDIATE command, call `create_command_detail` in the transaction of the
  insert (dispatch). A job of an agent command calls the same function.
- `add_result` files a result and commits; only then the autorun function
  mapped to the file runs (domain registration), in a transaction of its own.
- The registration of a web ends in the relationship component; that of a
  domain does not, and leaves its connectors to the next sync.
- The batch functions repeat both registrations from the stored texts, in one
  transaction, in the scheduler's threads, a request or the API.
- The job that refreshes tokens creates command rows without
  `create_command_detail`; the polls of dispatch hand them out.
- The finish job reads what dispatch and scheduler have written and ends
  commands once a minute.

## 2. Modules

| module | models | lines of code |
|---|---|---|
| `CommandDispatch` | dispatch, with polls, pushes, results, crashes | `app/sqls/agent.py`, `app/mqtt/mqtt_publisher.py`, `app/api/agent_api.py` |
| `CommandLedger` | what the detail table promises: the abstract specification of `CommandDispatch` | |
| `CommandScheduler` | master, job, flags, clock, restarts | `app/jobs.py`, `app/views/agent.py`, `app/sqls/agent.py` |
| `CommandLife` | when a command runs and when it ends, without jobs and restarts: the abstract specification of `CommandScheduler` | |
| `DomainConfig` | configurations of a domain, and what they name | `app/sqls/jeus_dml.py` |
| `DomainRegistration` | one domain, several handlers | `app/sqls/agent_dml.py`, `app/sqls/jeus_dml.py`, `app/sqls/batch.py` |
| `SerialRegistration` | registrations one after the other: the abstract specification of `DomainRegistration` | |
| `IdpUserSync` | the sync and the user API | `idp/app/...` |
| `AtomicSync` | a sync as one step: the abstract specification of `IdpUserSync` | |
| `WebRelation` | links, domains and flags of webs, several transactions | `app/sqls/relationship.py`, `app/sqls/webtob_dml.py`, `app/models/was.py` |
| `AgentLifecycle` | registration, approval, refresh job, tokens | `app/sqls/agent.py`, `app/api/agent_api.py`, `app/jobs.py` |
| `BatchSession` | re-registration from stored texts, sessions of threads | `app/sqls/batch.py`, `app/sqls/jeus_dml.py` |
| `MC...` | small instances | |
| `..._proofs` | theorems; `DomainHistory_proofs` adds to `DomainRegistration_proofs` | |

### CommandDispatch

A key is `(command, agent, repetition_seq)`. `status`, `master` and `results`
are the committed tables. One run of `create_command_detail` per command is
`CreateBegin`, `CreateAgent` for each target, `CreateCommit` or
`CreateRollback`; `staged` holds its uncommitted rows. After the commit each
pending row is published (`PublishAcked`, `PublishRefused`, `PublishOffline`,
`PublishTimeout`) and a second transaction marks the delivered ones
(`FlushMark`, `FlushMarkFails`). A poll is `PollSelect`, `PollUpdate`,
`PollCommit`, then `PollReply` or `PollReplyLost`, or `PollFails`; `marked`
holds the rows it has locked, and an `UPDATE` waits while another poll has one
of them. As in PostgreSQL, it re-checks the status after the wait: `PollUpdate`
takes what is CREATE when it gets through. `OutboxSend`, `BrokerDeliver` and
`BrokerDrop` are the network with QoS 1: at least once, late, or never.
`PostResult` is `add_result`; `Crash` forgets everything but the tables, the
broker and the agents. `answered` and `late` are history variables.

Abstracted: the content of a command and a result; the Kafka branch, since its
producer is always `None`; the resolution of targets, which is any subset of
`Targets[c]` at each run.

### CommandScheduler

A tick is a minute. `job[c]` is the next run time in the store. A request is
two steps (`InsertFlush`/`InsertCommit`, `CancelRemove`/`CancelCommit`,
`DeleteFlush`/`DeleteCommit`), because the job store is written between them
in a transaction of its own; either commit may fail. `Submit` hands a due job
to a worker thread and `Advance` moves it on afterwards; a `Crash` in between
leaves the job due. `Start` brings the server up. From then on requests are
taken, while `StartReads` and `StartJob`, a job of their own, read the commands
that need a job and create them one by one; `StartFails` ends that loop, which
catches nothing (`app/jobs.py:35-38`). A run (`RunCommits`) needs the master
row of an agent command and none for a batch function. `FinishCommands` is the
cron job.

Misfires and coalescing follow APScheduler 3 (`LastBefore`, `RunTime`,
`Grace`). `WithJob` moves a past start ahead of now as `job_ag_create_job`
does. `Tick` waits until requests, the start and the due jobs have been
handled, as these take seconds; a running job may take longer.

`CommandLife` has no jobs, no starts and no scheduler thread: a command is
entered, its runs begin inside its period, in the order of their times and one
only unless it is periodic, and it ends. What the implementation needs beyond
it is mapped to `gone` (deleted, or an insert that was not committed), `off` (a
cancel that reached the job) and `again` (the server died between submitting a
job and moving it on, so that a one-time run may begin twice).

`EditToMqtt` and `EditCancelYn` are edits in the form of the command view: the
former, of agent and batch commands alike, leaves the old job; the latter sets
`cancel_yn` (`withdrawn`), which only a start looks at. Edits of a command's
times are left out.

### DomainRegistration

One row of `mw_was` and what hangs on it. A run of `update_domain` is
`Compare` (unlocked read), then `NotChanged`, or `Refuse` for a host that is
not registered, or `Upsert` (takes the row lock), `Prune` (the `DELETE` with
what it saw) and `Commit`. `Fail` rolls back and writes the status, `Abort` is
the death of the process. Runs begin with `Receive`, `UpdateConfig`,
`PostConfig` or `ReRegister`. `Config[v]` is what the parser makes of version
`v`; `DsLinksOf`, `AppLinksOf` and the connectors follow the code in passing
over a server to which the configuration gives none. `chain`, `holes`,
`refused` and `twice` are history variables.

`SerialRegistration` has no handlers, locks or transactions: a registration is
one step that stores a configuration, gives the tables its image and files a
history row. The row may name any version that was stored before as the old
one, since the code reads it for the comparison without a lock; `HistoryComplete` says when it
is the one before.

Assumed: a JEUSMain.xml comes from the node it names.

### IdpUserSync

`users` is the committed table and `view` what the session of the sync sees.
`RowUpdates` and `RowCreates` handle a row with and without a user;
`broken` is the state of a session after a failed flush, in which every query
raises (`RowOnBroken`, `SyncFails`). A conflict on a new row sets `view` back
to `users`, as `db.session.rollback()` does; so does a row for which `Slots`
has no place. The API actions run between syncs, since the process has one
thread.

`UpdateUser` is the PUT, whose body is stored as it is (`idp/app/api.py:104`,
`user_repo.py:42-44`): besides the name and the address it sets `active` and
the origin, that is `sync_source` and `sync_id`. One PUT can thus give an
external row a second user, or make a synced user a local one; `moved` holds
the users whose origin a PUT has changed. `Local` is no source or any source
other than the synced one. A PUT of the primary key is left out.

In `AtomicSync` a sync is one step: each user is kept, switched off because its
row is gone, or made the image of its row; a free slot takes the image of a row,
and that user is then the only one of its row. Names and addresses are distinct
afterwards. Which rows are stored is open, as conflicts may prevent any of
them. The API writes any columns of one user.

### WebRelation

A transaction is the registration of a web, named like the web, or `Sync`, the
batch function. `web`, `link` and `rel` are the committed tables (the last two
count the rows of a pair, as nothing keeps them unique); `mem[t]` holds what
the ORM has loaded, `put[t]` the web rows it has written, `ins`, `del`,
`rins`, `rdel` the association rows. `RegisterRead`/`RegisterUpsert` or
`SyncBegin` start it; `ConnsRead` and `ConnsFlush` bring the links of the
candidate connectors in line, and `WebRead`, `WebWrite` the domains and flags
of one web after the other; `Commit` or `Fail` ends it. Every statement sees
what others have committed by then, and the differences are those to what was
seen. `DomainRegister` gives a connector another configuration, `UseWas`,
`UseWeb` and `Isolate` are edits in a form. `alone`, `overlapped` and `since`
record what ran next to what.

A configuration is what `get_web_servers` finds for a connector (`to`) and the
webs whose registration looks at it (`near`): a part of a virtual address is
found by the one and not by the other.

Assumed: two registrations of one web wait for each other at its row, so they
are one after the other; a web has one JSV server; webs and domains are not
deleted; the database starts as a sync leaves it.

### AgentLifecycle

A tick is the job's period, half a day, and a time is what is left of it.
`JobRead` selects the agents whose date is near or null and `JobCommit` inserts
a command row for those that have none waiting; agents register, are approved
and poll in between. `Fetch` commits the date of the token and then answers;
`PollReplyLost`, `FetchReplyLost`, `FetchFails` and `JobFails` are the losses.
An agent that is away is one that takes no step. `idle` counts the ticks in a
row in which something kept the agent's refresh from being complete.

### BatchSession

A text is the number of the registration it came with. A run loads all texts
(`mem`), comes to one domain after the other (`Item`), waits for its row and
writes it (`Writes`, with the outcome of its statements), and commits or
leaves. A pool thread keeps what a failed run has written and locked until the
next job of the thread commits or rolls it back (`JobCommits` and the
like); a request ends its session (`Teardown`). A function that raises before
its `UPDATE` leaves the changed object in the session (`dirty`): the next
statement there, of a job or of the view, flushes it first and waits for the
row (`DirtyFlushes`). `undone` holds the domains a run had counted when its
last upsert failed and rolled them back. `broken` is a session that
refuses statements until a rollback, which only the agent commands perform.
`Deadlock` is PostgreSQL choosing a victim of two runs that wait for each
other. `Register` is an agent's registration in between.

## 3. What the runs check

| run | instance | states | shows |
|---|---|---|---|
| `push` | 1 agent, an MQTT and a periodic command, 2 runs, 1 crash | 906 k | pushes only of committed rows, status and results agree, no run behind one that waits; every step is a step of the ledger |
| `live` | 1 agent with 2 polls open, MQTT command, 1 crash | 24 k | a poll loses only what was committed in its own window, a row is in no more responses than there are server threads, rows only move forward; a waiting row is taken |
| `lost` | as `push` | violation | see findings |
| `sched_agent` | a periodic agent command and an immediate batch function over 4 ticks, at most one edit in force, 1 restart that may fail halfway | 2.0 M | cancelled and finished commands do not run, a command with runs ahead has a job; every step is a step of a command's life |
| `sched_once` | a one-time command, 2 restarts | 48 k | it runs once, and fires or misses its time |
| `domain_reports` | 3 results from 2 hosts, 1 handler, 3 registrations | 1.4 M | history and statuses agree with what was stored |
| `domain_race` | 2 handlers, JEUSMain.xml then domain.xml, 2 registrations | 139 k | instances, links and orphans under races; gaps of the history have a named reason; runs end; races have the effect of registrations one after the other |
| `sync_mirror` | 2 external rows, 3 users, names and addresses, any edits, 1 user moved by a PUT, symmetry | 101 k | a clean sync mirrors, gives no row a second user, deactivates only gone users, touches neither local users nor those whose row it refuses; with its savepoints and rollbacks it is one atomic step |
| `sync_rollback` | the same with 2 names | violation | see findings |
| `relation` | 2 webs, 2 domains with a connector each, 2 refreshes and an edit | 1.9 M | what a sync or a registration leaves is exact until something disturbs it; rows are doubled only by refreshes that overlap; an isolated web stays so |
| `agent` | 2 agents, a life of 4 ticks, the job from 2 ticks before the end, symmetry | 856 k | a token or a date ends only after every refresh of the last days was prevented; the date never outlasts the token; one refresh waits at a time |
| `batch` | 2 domains, a scheduler thread and a request, 2 runs, 2 texts per domain | 106 k | only what was registered in a run's window is put back; what a run reports and does not store are the domains counted before its last failed upsert; a row does not stay locked |

`CHECK_DEADLOCK FALSE` appears where the bounds or the system end the run: no
more commands, ticks, registrations. `sync_mirror`, `agent` and `batch` check
deadlock: something can always happen there. The type invariants are theorems
(`TypeCorrect` of each component) and not repeated in the runs.

### Bounds, and why they are enough

- `MaxSeq` 2 lets a second run follow a first one that waits, was handed out,
  or is being reported. Several agents, and several paths of one target, are
  covered by the theorems, which take any `Agents` and `Paths`.
- `Requests` {1, 2}: two server threads, so two open polls of an agent are all
  there can be.
- One crash reaches every window of dispatch; a second one starts from a state
  the first leaves, which other paths reach. `sched_once` has two, as a
  restart after a restart meets jobs of both lives; `sched_agent` one, to
  leave room for two commands.
- `MaxTime`: each command has a tick before, at and after its times.
  `BatchFirst` has the batch function entered in the first tick, for it fires at
  once whenever that is; the agent command is entered in any. `BatchStays` and
  `OneEdit` keep the batch function from being deleted or withdrawn and at most
  one edit in force, which meets every other step; `sched_once` has no such
  bound.
- `MaxChain` bounds registrations that begin. Two are a race; three let a
  history row have a predecessor and a successor.
- `Slots`: a user for each external row and a local one, or two of one row. A
  row beyond them is refused, as by a constraint. `MaxMoved` 1: two users of
  one row take one PUT of an origin. Other edits are unbounded: a row goes,
  comes back and clashes as often as it likes.
- `MaxTx` 2 refreshes are what can overlap in pairs, or follow each other;
  what holds after any number is a theorem. The two configurations of a
  connector contain a web it reaches and one it does not, and a web that its
  registration does not find it for.
- `Life` 4, `Ahead` 2: a date that is far, near, at its last tick, and over.
- `MaxText` 2: a run can find a text older than, equal to and newer than what
  it read. `MaxRuns` 2: next to each other, or the second in the session the
  first has left.

### Fairness

- Dispatch: an agent polls as long as it lives (`WF` of `PollSelect` and of
  the reply), the flush runs on, and a poll that keeps getting its row locks
  or reaching its commit does so in the end (`SF`): its requests do not all
  fail. `CreateIsTaken` stops at SENDED: the code has no retry for a lost
  response.
- Scheduler: requests end, the container is restarted, its start reads the
  commands and goes on, scheduler and cron job run, time passes.
- Domain: `SF` of `Run(h)`, since PostgreSQL serves the waiters of a row lock
  in turn.
- Batch: a run goes on (`WF`), gets its row lock in its turn (`SF`), PostgreSQL
  finds deadlocks, and every idle pool thread is given a job that commits again
  and again, after it has got the row that the session may still have to write
  (`SF` of `DirtyFlushes` or `JobCommits`): the finish job comes every minute
  and the pool hands jobs round.
- The others have no liveness property: a sync is a loop over its rows, and
  the promise about tokens is one about safety (what must have been prevented
  before one ends).

### Findings

1. `lost`: `send_commands` marks what is CREATE at the `UPDATE`, not what it
   selected. A command committed in between becomes SENDED and no response
   contains it, against `docs/agent_command_system.md:128`.
   `LostOnlyInWindow` says that this is the only way to lose one.
2. `sync_rollback`: the conflict handler rolls back the whole sync and not its
   own savepoint (comment at `sync_service.py:183`); earlier rows are counted
   and not stored.

Disagreements met on the way that have no run, mostly because a property
states them as its exception:

- A poll between the push and its update to MQTT hands the command out again,
  against `docs/agent_command_system.md:120-121`; the agent knows both by the
  same command id (`agent.py:439`).
- A publish that times out returns 1; the docstring of `mqtt_publisher.py:9`
  says -1.
- `docs/emergency_response.md:142` promises that a database lock lets one of
  several Gunicorn workers execute a job: the code takes none, but the deployed
  default is one worker.
- SPEC_010 (lines 26, 42, 44) has the registration of a web refresh its
  relation. It does not reach a connector that has been pointed elsewhere
  since, nor one that matches a part of the virtual address
  (`relationship.py:372`, 404). The registration of another web may add a link
  without the row in `mw_was_web`.
- The flags of a web are decided by the home loaded before the upsert
  (`relationship.py:457`); the protection of Isolated at `webtob_dml.py:82`
  never applies, for the upsert only ever sets Internal (line 267), and so an
  Isolated web with a "webserver" home becomes Internal.
- Doubled association rows survive a sync, and every later delete of one by
  the ORM fails on the number of rows.
- The summary of a re-registration counts domains that the rollback of a later
  one took along (HOWTO_004:33); the batch API answers 400 when the count is
  not 1. A text that a run put back stays: the agent compares with what it
  sent and reports no change.
- A PUT can give an external row two users, which the sync, looking for the
  user of a row, does not reckon with: it refreshes one of them, and no key of
  the table forbids two (`idp/app/models.py:24-25`). `OneUserPerRow` and
  `AtomicSync` except the users a PUT has moved.

Some properties name what the code gets wrong as an exception, and so describe
it without forbidding it: `LinksFollow` leaves out the servers a new
configuration passes over, `FreshIsLinked` the connectors pointed elsewhere,
`SyncedFlags` a web whose home its registration changed, and `ReportIsStored`
the domains a rollback took along. `PROJECT.json` does not claim these hazards
as covered. Nor is a cycle of waits between `UPDATE`s of dispatch represented,
as `FlushMark` and `PostResult` are one step each.

## 4. What is proved

`tlapm` checks these for every value of the constants, from the named
assumptions in the modules (finite values, subsets, natural bounds).

**`CommandDispatch_proofs`.** `TypeCorrect`, `Inductive`, and from it
`PushSafe`, `ResultSafe`, `LossSafe`, `LaneSafe`, `ForwardSafe`, `PolledSafe`
and `Refinement` (the ledger). Three facts make the safety properties inductive:

- what a creator holds by phase (`CreatorInv`, `StagedInv`): staged rows are
  the next ones of a lane in which nothing waits, and stay so because only
  the creator of a command adds to its lanes;
- lanes have no gap (`Gapless`): `LastSeq` then counts rows, which makes a new
  row absent and a run fit the ledger;
- a locked row stays CREATE until its commit, and nobody else locks it
  (`LockInv`), and what a poll marks it has read or was committed late
  (`SnapshotInv`).

`PolledSafe` bounds how often a row is handed out by the number of request
threads. A poll locks every CREATE row it has read, so after its commit none of
them is CREATE and no later poll reads it (`PollInv`). The requests that have
answered with a row are then as many as its responses, and none of them holds
it again (`SpentInv`).
The bound is met: each of two overlapping polls answers with the row, and the
agent knows both by the command id.

The refinement maps a step of the tables to `Issue`, `HandOut` or `Finish`,
and every other step to a stutter.

**`CommandScheduler_proofs`.** `TypeCorrect`, `FinishedSafe`, `AheadSafe`,
`CancelSafe`, `OnceSafe`, `LifeSafe`. A job is put back only for a command the start has
read, within the tick it was read in, so it is one with a run ahead
(`StartAhead`); cancel and finish leave no such command without a trace
(`CancelledIsOut`, `FinishedWhy`). `OnceSafe` and `LifeSafe` assume one
scheduler process. That a command with runs ahead has a job (`AheadInv`) holds
while the server is down and coming up as well, of what the start has yet to
read (`UnfinishedIs`). For `LifeSafe`, that every step is one of `CommandLife`, the order of
the runs is what takes an invariant: after a crash a job may be due at a time
before that of a run which has begun, for the scheduler did not move it on; but
a coalesced job is run for its last missed time, which never moves back
(`RunsInOrder`, `DivMono`, `RunTimeTick`), and a job that is made is not in the
past (`MadeIs`).

**`DomainRegistration_proofs`.** `Inductive`, `InstancesSafe`, `OrphansSafe`,
`SettledSafe`. The argument of the first three is the row lock: only the
handler that writes holds it (`Exclusive`), so the instances its `DELETE` found
are still those the new configuration does not name (`Fresh`). Without the
lock the property fails, which is what the mutant `UpsertsUnlocked` shows. The
fourth has an invariant of its own: a result that one handler works on is
still open (`Owned`).

**`DomainHistory_proofs`.** `TypeCorrect`, `LinksSafe`, `CompleteSafe`,
`HistorySafe`, `CompletedSafe`, `SerialSafe`. The stored version is the last of the chain
(`LastStored`) and what a handler compared with is somewhere in it (`OldStored`), so
the row it files names a version that was stored, and the one it replaces
unless another commit came between. `SerialSafe` is the refinement: a handler's
statements are one `Register` or `Refuse` of `SerialRegistration` at its
commit, because from its upsert on it holds the row lock, so the tables it
finishes are those its `DELETE` looked at (`Fresh`). Links name only datasources
that are there (`LinksExist`), and a handler that finds nothing changed has the
version it compared with (`SameStored`).

**`IdpUserSync_proofs`.** `Inductive`, `OneUserSafe`: the committed table and
the session's view agree on local users, and in both a row has two users only
if a PUT moved one of them; commit and rollback go from one to the other.
`TypeCorrect`, `MirrorSafe`, `DeactivateSafe`, `RefusedSafe`: while no row had
an error, the view has the users of the rows done (`RunningInv`) and an active
user for each row present (`ActiveKept`), and a row not reached or in error has
its users as they were committed (`RefusedInv`). `AtomicSafe` is the refinement: at any
moment of a sync each user of the view is the committed one or the image of its
row (`OldSlots`), each new one is the image of a row that no other user has
(`NewSlots`, `NewAlone`), and no two share a name or an address
(`DistinctTable`), so the commit, and a commit after any rollback, is one
`Synchronise`; a flush that breaks the session changes nothing. A PUT is one
step of `AtomicSync`'s API.

**`WebRelation_proofs`.** `TypeCorrect`, `SyncSafe`, `FlagsSafe`, `FreshSafe`,
`OnceSafe`, `IsolatedSafe`. What a transaction has in memory may be stale, so
little holds of one that overlaps. For one that runs by itself (`Sole`) the
rows in memory are the committed ones (`MemKept`), what it writes differs from
them by the upsert and the flags (`PutKept`), and the rows it adds and removes
are the missing and the superfluous ones, of the links (`LinksKept`) and of
the webs that are done (`RelKept`, `FlagsKept`). Until two transactions have
overlapped no row is there twice, nor added twice (`OneInv`).

**`AgentLifecycle_proofs`.** `TypeCorrect`, `DateNeverLater`,
`OneRefreshAtATime`, `TokenOutlasts`, `DateOutlasts`. What the job has seen
and what did not fail since is on its way to the agent (`Offered`), and is
with it once a poll followed (`Given`); so the ticks since the last complete
refresh and the ticks left make up `Ahead` (`DateKept`, `TokenKept`).

**`BatchSession_proofs`.** `TypeCorrect`, `RevertSafe`, `ReportSafe`. Every
written row is locked and no two threads lock one (`LocksApart`); what is left
to be written belongs to no run (`DirtyIdle`); what a run has counted is behind
it (`CountedPast`), so `undone` and what was written since do not meet; a domain
whose text is held is locked or still to come (`Handled`); so a text that a
thread holds or has written is the newest one unless the domain was registered
in the window (`MemFresh`, `PutFresh`).

### Only model-checked

Liveness (`CreateIsTaken`, `OnetimeFires`, `RunEnds`, `LockedIsReleased`) and
whatever speaks of ENABLED, which the prover does not support; every safety and
action property of the passing runs is a theorem. `OnceSafe` and `LifeSafe` are
theorems about one scheduler process, the deployed default: two that submit one
due job run it twice. No module with a theorem reaches a RECURSIVE
operator; what a recursive definition computes for all inputs would need an
induction the provers cannot do.

## 5. Not modelled

The rows without a module in the inventory. In short: parsers and views have
no state between calls; generic data APIs do what the request names; Kafka
is unreachable; files and mail are input and output. The handlers of the OAuth2
and OIDC sign-in run one at a time, each in one transaction. Authentication,
role storage and the job store are libraries, modelled, where they matter, as
the code uses them. The JavaScript under `app/static` is third-party (jQuery
plugins, an editor, a date library): it keeps no state of the system, and what
the server does is all in Python.

In the modelled components: tags, `mw_db_master` and `mw_app_master`, edits of
a command's times, the batch functions other than the sync and the four
re-registrations, the children of a web other than its JSV server, the deletion
of a domain or a web by hand.

## 6. Plan

In this order; each extends a module that is there or follows its pattern.

1. **`WebtobRegistration`**, the http.m counterpart of `DomainRegistration`:
   one child table stands for the five, with its associations; properties as
   there, and the same lock argument as a proof. Composes with `WebRelation`,
   whose `RegisterUpsert` is its upsert.
2. **`MqttConnection`**: callbacks, reason codes by message id, ids that wrap.
3. **Abstract specifications** are there for dispatch (`CommandLedger`), the
   scheduler (`CommandLife`), domains (`SerialRegistration`) and the IDP
   (`AtomicSync`). Next: `BatchSession` as runs that each register, in one
   step, texts that were current in their window.
4. **`WasStatus`** and the role variants, as pure operators against a reference
   definition.

Runs are to stay few: a new component gets one run for safety and, where it
promises progress, one for liveness; instances that answer the same question
are merged.
