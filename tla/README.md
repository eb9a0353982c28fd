# SIEMatic: TLA+ specifications and proofs

SIEMatic collects events on many hosts (the *agent*), sends them to a central
server (the *indexer*), stores them through Django, and searches, watches and
displays them. This directory specifies the parts whose correctness depends on
interleavings, failures and restarts. All paths below are relative to the
repository.

## 1. The system

| Component | Code | State it keeps | Talks to |
| --- | --- | --- | --- |
| Agent loop | `agent/management/commands/agent.py` | a manager per plugin | managers (calls) |
| Plugin process manager | `agent/plugins/plugin_process_manager.py` | processes, restart attempts, next restart, two bounded queues | plugin and sender processes |
| Checkpointed plugins (Kubernetes logs, Keycloak) | `agent/plugins/base.py`, `kube_logs_plugin.py`, `keycloak_events_plugin.py` | read and acknowledged positions, failed targets, the batch under way | `event_queue`, `ack_queue`, a connection of their own for the checkpoints |
| Other plugins | `agent/plugins/*_plugin.py` | file positions, snapshots | `event_queue` |
| Sender process | `plugin_process_manager.py:187-306` | `pending`, the resumed agent | queues, WebSocket |
| Consumer | `indexer/consumers.py` | bound agent | WebSocket, database |
| Tables of ingestion | `agent/models.py`, `events/models.py` | Agent, Checkpoint, BatchReceipt, Event | all consumers, admin, pruning |
| Crawler service | `crawlers/management/commands/run_crawlers.py` | daemons, restart counts, next runs | crawler processes |
| Crawlers, findings, alerts | `crawlers/` | Finding | database, analysts, mail |
| Search | `search2/engine/`, `search2/commands/` | the data between two stages | database, pandas |
| Saved searches | `search2/models.py`, `views.py`, `api.py` | SavedSearch | search, users |
| Dashboards | `dashboarding/` | dashboards, panels | search, users |
| Login and groups | `project/oidc.py`, `project/signals.py` | users, groups, permissions | provider, administrator |
| Launchers | `project/management/commands/`, `indexer/management/commands/` | child processes, job object, certificate, passwords | operating system |
| Deployment package | `bootstrap.py` | build directories | download site |
| Settings, seeded content, tools | `SIEMatic/settings/`, `seed_default_content.py`, `tools/` | none of their own | |

What is hard, by part, and what makes it correct:

* **Ingestion tables.** Transactions of several connections meet at the unique
  key of a receipt and at the rows of an agent and a checkpoint; the indexer may
  die between any two statements, an administrator may delete an agent meanwhile.
  A batch is stored once per receipt, an ack is sent only for what is stored with
  that content, counters are exact, an agent never changes its owner, and nobody
  waits for ever.
* **Checkpointed delivery.** A batch crosses two queues, a socket and a
  transaction; each can lose or delay the answer, and each process can die. No
  record may be skipped before the checkpoint, none stored twice, and every record
  is stored in the end.
* **Supervision.** One loop watches every process and also waits on their queues.
  Restarts keep to their limit and backoff, no plugin is forgotten, heartbeats go
  on.
* **Crawlers.** The loop of the service is late, and the processes it starts die.
  A job is spawned once per slot, a daemon is started again within its limit. Scans look back over a
  sliding window and check a cooldown that nothing protects, while retention
  deletes events that analysts are working on.
* **Cursors and snapshots.** A plugin that polls has to find its place again:
  between equal time stamps, in the log of a container that was restarted or of a pod
  that it had left, on pages
  that shift, in a file that is rotated while its last line is being written. A
  plugin that reports differences must never lose one, or the view of whoever
  follows them stays wrong.
* **Search.** A stage of a pipe means the same whatever form the data has: a lazy
  SQL statement, a DataFrame or a list of records.
* **Users.** Requests read a row and write it back later, without a lock: saved
  searches, dashboards and accounts belong to someone and have to stay that way.
* **Launchers.** Processes start processes while others end them, and Ctrl-C may
  come at any moment: what is left behind?

`PROJECT.json` lists every component with its status, and every hazard with the
line at which it bites and the properties that would catch it.

## 2. Modules

| Module | What it specifies |
| --- | --- |
| `BatchLedger` | The promise of the tables: a batch name gets a receipt, its events and its checkpoint in one step, once. |
| `IndexerStore` | The consumers and their transactions, statement by statement. Implements `BatchLedger`. |
| `CheckpointedDelivery` | Plugin, queues, sender, socket, consumer and tables together. Implements `BatchLedger`. |
| `AgentSupervisor` | The agent loop, its managers and the life of their processes. |
| `KubeCursor`, `KeycloakCursor`, `FileTail` | How a plugin finds its place in a log, a paged API, a file. |
| `Chunking` | Where the Kubernetes and the Keycloak plugin cut a poll into batches. |
| `NetworkSecurity`, `HostPosture` | Plugins that report differences of snapshots. |
| `CrawlerService`, `Findings` | The loop that runs crawlers; what crawlers, retention and analysts do to events and findings. |
| `SearchPipeline` | `run_pipeline` and its commands as operators on tables, in three forms. |
| `Sharing`, `Accounts` | Saved searches and dashboards; logins, groups and flags. |
| `DevStack`, `Bootstrap` | `rundev` and `bootstrap.py`. |
| `BatchLedger_proofs`, `IndexerStore_proofs`, `CheckpointedDelivery_proofs`, `AgentSupervisor_proofs`, `Findings_proofs` | Theorems about the module of that name. |
| `Users_proofs` | Theorems about `Sharing` and `Accounts`. |
| `Operations_proofs` | Theorems about `CrawlerService`, `DevStack` and `Bootstrap`. |
| `Collectors_proofs` | Theorems about `NetworkSecurity`, `FileTail`, `HostPosture`, `KeycloakCursor` and `KubeCursor` (with `Chunking`). |
| `MCIndexerStore`, `MCCheckpointedDelivery`, `MCAgentSupervisor` | Instances for TLC. |
| `MCOperations`, `MCPlatform` | The other modules, composed for TLC. |

`BatchLedger` is the seam. `IndexerStore` shows that the transactions give it,
with every interleaving of several connections; `CheckpointedDelivery` has the
transaction as one step, which that refinement justifies, and spends its states on
the queues and processes instead. The cursors in turn have delivery as one step: what
`NoGap` and `NoRecordTwice` say of numbered records, `KubeCursor` and
`KeycloakCursor` say of time stamps, hashes and pages.

The components of `MCOperations` and of `MCPlatform` share no state with one
another. A behaviour therefore picks one of them in its initial state (`part`) and
runs it alone; what its modules say is explored exactly as in a run of its own, and
the initial choices of the others are pinned. Each has also a specification of its own
(`SharingSpec`, `TailSpec`, ...), which the theorems are about: its initial states and steps
are those that the composition takes when `part` is that component.

### BatchLedger

`receipts` is the BatchReceipt table, `rows` counts how often the events of a batch
were inserted, `checkpoint` is the cursor of each target. `Apply` is
`_persist_typed_batch` (`consumers.py:193-257`) as the callers see it.

### IndexerStore

One consumer per connection, in a phase per point where its transaction takes a
lock:

| Action | Code (`indexer/consumers.py`) |
| --- | --- |
| `Connect`, `HangUp` | `connect`, `disconnect` |
| `ReceiveResume`, `ResumeSelect`, `ResumeCreate`, `ResumeSave`, `Bind` | `_handle_resume`, `_resume_agent`: `select_for_update`, then create or save |
| `ReceiveBatch` | `_handle_batch` and the validation |
| `PersistReceipt` | `get_or_create` of the receipt; replay and `batch_id_reused` |
| `PersistTouch` | `last_seen` of a replay, and its ack |
| `PersistAgent` | the event rows and `Agent.update(events_delivered=F(..)+n)`; `unknown_agent` |
| `PersistCheckpoint` | `update_or_create` of the checkpoint |
| `PersistCommit` | commit, ack |
| `DbError`, `Crash` | an exception in the handler, the end of the process |
| `DeleteAgent`, `DeleteOwner`, `PruneReceipt` | admin, cascade, `prune_batch_receipts` |

Row locks are those of PostgreSQL. SQLite, the default of a development setup,
has one writer at a time, so its interleavings are a subset. Transactions of one
agent are serialised already by the agent's row; only agents that share a target
meet at the checkpoint, which is why a scene of `store_agents` has two. Refused messages
that change nothing are not steps.

`DeleteAgent` waits for the lock of the agent's row only. The admin's delete first sets
`checkpoint.agent` to NULL (`SET_NULL`, `agent/models.py:35-41`) and so locks checkpoints
before the agent, the reverse of the consumer's order. With a batch of that agent under way
the two can wait for each other, and PostgreSQL aborts one: the delete, or the consumer's
transaction, which is what `DbError` does to it. The reference itself is read by nobody
and not in the model. `DeleteAgent` is therefore left out of the scene with two agents,
where the question is whether the consumers block one another; in the scene with one agent
it is there without that order of locks, so `EveryMessageAnswered` says nothing of a
deadlock with the admin.

`store_agents` bounds what clients and administrators do by a TLC constraint (`Scenes` in
`MCIndexerStore`). A step of a handler never leads out of it, so no wait is hidden by it.

`eventRows`, `rows`, `acked`, `credited` and `pruned` are history: what the properties
compare the tables with.

### CheckpointedDelivery

`plan` is chosen in the initial state and never changes: how many records each
target writes, the batch size, which records the indexer refuses, whether a failed
target is skipped (Keycloak) or polled again (Kubernetes), and how often each fault
may happen. `MCCheckpointedDelivery` names the plans: in `LossyLink` everything
between plugin and database fails, in `PluginDies` the plugin dies twice, in
`SharedQueue` two targets, one of them refused, share the queue with a heartbeat;
`OneOutage` has one fault of each process, `OnlyHeartbeats` and `OneRefused` next
to nothing.

A source is the number of records it has written, a cursor a number of records,
and a batch the triple of target, first and last record (its `batch_id` in the code
is a hash of just that). The plugin's program counter is `plugin`, the sender's
`sender`.

| Action | Code |
| --- | --- |
| `PluginStart` | the head of `run`: `fetch_checkpoints` |
| `Poll`, `PollDies`, `Chunks` | `collect_once`, cutting records into batches |
| `Deliver`, `Enqueue`, `TakeAnswer`, `Report`, `Timeout` | `deliver_batch`, `enqueue_batch`, `_next_acknowledgement` (`base.py`) |
| `HeartbeatDue`, `QueueOtherEvent` | the agent loop has a heartbeat to put (`agent.py:113-128`), and there is room for it |
| `SenderRestart`, `PluginStart` | `check_and_restart`, only while the agent is not waiting in `put` |
| `SenderConnect`, `Drain`, `Send`, `ReceiveResume`, `ReceiveAnswer`, `SenderFails`, `AckTimeout`, `PutAnswer`, `SenderExit` | `sender_process` and its end |
| `ConsumeResume`, `ConsumeBatch`, `ConsumeList`, `ConsumeOrphan` | the consumer; an orphan is a frame of a lost connection that is still handled |
| `PluginCrash`, `LinkDrop` | the environment |

`deliver_batch` is only called for one batch at a time, so the backlog of answers
in `_ack_backlog` is never used and is left out. A heartbeat that shares the queue
is an item without content. The agent loop is a process of its own here (`agent`): while it
waits for room it restarts nothing. One manager is modelled; in the code the full queue of
another manager blocks the same loop.

Three conditions in the properties are the code's own limits and not conveniences:

* `base`: a target without a checkpoint is collected from the moment the plugin
  starts. A plugin that dies before its first ack starts again later, and the
  records in between are not collected. `NoGap` speaks of what follows `base`.
* `stale`: a plugin that is started while a batch of its predecessor is still in
  a queue or on the wire reads from the stored checkpoint and may build other
  batches over the same records. Then both are stored, and the later commit decides
  the checkpoint. `NoRecordTwice` and `CheckpointAdvances` are stated for
  behaviours where that has not happened; without the condition TLC violates
  `NoRecordTwice` under the plan `PluginDies`.
* `Wedged`: the sender has died while the agent waits for room in the queue that only the
  sender would empty. Nothing is delivered from then on; `sup_wedge` shows how the agent gets
  there. `EventuallyStored` is stated for behaviours that never do.

### AgentSupervisor

A pass of the loop (`agent.py:103-132`) is, for each manager in turn, a *check* and a
*put*. `CheckLeaves`, `CheckRestarts` and `CheckFails` are `check_and_restart` with no
restart due, with one, and with one whose process start raises; each includes the
restart of a dead sender, which may be refused too. `PutHeartbeat` waits for room. `Tick` is ten seconds in
which the agent sleeps, or waits for room; `wait` (to `next_restart_at`) and `age`
(of a process, saturating at `restart_reset_after`) move with it. `starts` and
`waited` are history. A process that exits is noticed only by the next pass.
`PluginPuts` and `SenderTakes` are all that matters here of the other processes.

A SIGINT of a terminal also reaches the children; the model is of a signal to the
agent alone, such as a service manager's.

### KubeCursor

`log` is every line ever written, with its time stamp, its hash and its container;
`position` and `checkpoint` are cursors: the latest time stamp, how many lines of each
hash carry it, and the container. The batches of a poll are the chunks of `Chunking`: a time
stamp is never cut in two, so each time stamp has a place, the number of its chunk
(`Place`, over the recursion of the loop at `kube_logs_plugin.py:391`). `KeycloakCursor` has the same with
events. What closes a chunk (`Full`) is each plugin's own.

| Action | Code (`agent/plugins/kube_logs_plugin.py`) |
| --- | --- |
| `WriteLine`, `RestartContainer` | the cluster, where every pod may write and restart; `kept` says whether the kubelet has the previous log |
| `ReplacePod` | `resolve_pod` finds another pod: the newest that runs, which is a new one, or one that it had before when the newest has stopped (a rollout undone, one of several replicas gone) |
| `PollTarget` | `_collect_target`: `read_logs`, `_after_boundary`, the chunks with their cursors |
| `DeliverBatch` | the ack of a batch (`CheckpointedDelivery` in one step); a batch that has its receipt is a replay and stores nothing |
| `CrashPlugin` | the end of the process, and `fetch_checkpoints` of the next |

Lines of two containers do not share a time stamp. `LinesCollected` has two exceptions, which
are what the code does:

* `unreadable`: a line whose container was gone, or whose pod was not the newest any more,
  when the first poll after it came. If the previous log of the *same* pod is
  unavailable, the plugin reports the gap as an event (`kube_logs_plugin.py:304-322`). Of a
  pod that was replaced it does not ask for anything and reports nothing: the lines after
  the last poll are missing, silently.
* `again`: a stored line that was read again because the plugin came back to its pod from
  another. The cursor is then of the other pod, and the log of the container is read
  from its beginning without a boundary (335-340). Such a line is stored again unless its
  batch comes out with the same `batch_id`.

### KeycloakCursor

`happened` is an event's time, `committed` what the API returns. A poll fetches one
page per step (`FetchPage`), newest first and by offset, while `Happen` and
`CommitEvent` move the events to later pages; `FetchFails` and `GiveUp` are a page that
fails twice and the page limit; `FinishPoll` is the rest of `collect_once` with the
fingerprints of the cursor. `EventsCollected` asks for what was committed before the
poll began and not behind a window that an earlier poll had asked for: an event that
is committed with a time the cursor has passed is not found again.

### FileTail

A file is a sequence of pieces, with and without a line end, so that a line can be
read while it is being written. `OpenFile`, `ReadLine`, `WaitForEnd` and `CloseFile`
are the body of the loop of `tail_plugin.py`; `Write` and `Rotate` are other programs.
Three of the code's limits are in `LinesWhole`: a line whose rest arrives within the
0.1 s the plugin waits is queued without its beginning (`torn`); a file replaced by one at
least as long is not noticed (`noticed`); and a file that is first seen empty after a rotation
is, with `seek_from_end`, passed over up to what it holds when it is opened again
(`FindEmpty`, `FindFile`).

### NetworkSecurity, HostPosture

Both keep the last snapshot and queue what differs. The modules replay those events
and compare: `SocketsShown` and `PostureShown` say that whoever follows the events knows
what the plugin knows, after failed polls, denied processes, partial snapshots and
restarts. In `NetworkSecurity` the identity of a socket (`Identity`) contains the process,
for several share an address. In `HostPosture` two of the six components stand for
all: the security controls, whose probes may be absent, fail or answer, on each kind of
system; and the sessions, a list that the operating system gives in any order.

### CrawlerService

`MonitorDaemons` and `RunJobs` are the two halves of a pass of `run_crawlers.py`, and `Sleep`
its `time.sleep(10)` with what the machine adds. `count` is `restart_count` of the daemons
that are in `daemon_processes`; a daemon over its limit is removed from it, and the next
pass starts it as a new one. `starts` counts (history) what `RestartsLimited`, which the
documentation states, compares with the limit. `StartFails` is a `start()` that raises, which ends the
service; `InterruptService` is Ctrl-C. A pass is never later than a slot is long: passes
take ten seconds and slots at least a minute.

### Findings

| Action | Code (`crawlers/`) |
| --- | --- |
| `Scan`, `Check`, `Create` | `failed_login_crawler.py`, `base.py`: the query of a window of 1.5 intervals, `can_create_finding`, the insert |
| `ScannerDies` | the process ends in a scan and is started again |
| `Arrive` | an event becomes visible, and is dated then; `Event.created` is set before the commit (`auto_now_add`), so that an event committed late may fall behind a window, which the model leaves out |
| `Mark`, `Sweep` | `data_retention_crawler.py`: a queryset's `delete()` selects, then deletes |
| `OpenFinding`, `SaveFinding`, `BulkUpdate`, `DeleteFinding` | `views.py` |

No two of these queries are in one transaction, so each is a step. Two findings in one
cooldown are possible with two processes and at most one for each
(`CooldownPerProcess`). `OpenFindingsKept` excepts events whose findings changed after
they were selected: retention deletes an event, and with it the finding, that an
analyst reopened or a crawler created in between.

### SearchPipeline

A row is a function from columns to values, a table a sequence of rows, a QuerySet a
record of what it adds to its SQL statement (`Evaluate` gives the rows of that
statement), a DataFrame and records their rows. Every command is an operator on the
data in any of the three forms (`Run`), and `RunStage` and `Finish` are `run_pipeline`. A
QuerySet gives dicts or instances of the model (`values`), and may have been evaluated
(`cached`): `tail` calls `len()` on it, and the next slice of it is a list. A list of dicts
is records; of a list of instances `detect_kind` knows no kind (`core.py:134-138`), the
next command is run without data, and all but `search` refuse that.

`StagesCompose` compares each stage, on all data that up to three stages before it can
make of the tables, with what it means for plain rows (`Meaning`). The forms do not agree
everywhere, and `Composes` names where they do. Outside it, to mention what a user may
meet:

* grouping after a sort groups by the sort's columns too, and after a slice, a `unique`
  or another grouping it is not a grouping of what was shown;
* `annotate` evaluates its expression on a QuerySet only: the other forms store the
  unevaluated expression in every row;
* `^` becomes `&` (`expression_util.py:469`);
* records are sorted backwards by all keys if one is descending;
* a `groupby` of a DataFrame drops the rows without a key;
* after `tail`, `head` gives instances of the model: the columns that `annotate` or
  `explode` added are not shown (`search2/utils.py:246-261`), no command can follow, and
  `explode` right after `tail` fails. The end of `run_pipeline` slices in the same way, so
  that `annotate | tail` alone loses the column (`Loses`);
* `explode` of a DataFrame makes columns of objects in objects as well, `details_a.b`
  (`json_normalize`, `explode.py:81`), where `docs/search-and-dashboards/search-language.md:57` and
  the other forms have the top-level keys (`Nests`);
* the sum of a group, or of a table, without a value is NULL in SQL and 0 in a DataFrame
  and in records (`expression_util.py:298-302`, `SumsNothing`);
* a second `search` starts anew.

### Sharing

Requests read a row and write it later: `UpdateSearch`, `SaveSearch` and `ShareSearch` are
one `savedsearch_update`, `SubmitForm` and `SaveForm` one `dashboard_edit`, `View` and
`ApplyRefresh` one look at a dashboard with an interval. `StartRun` and `Lookup` are
`run_saved_search`, one lookup per step. `save()` of a row that has gone inserts it again,
a save of named fields does not. Within one owner the last writer wins, and a refresh
writes back settings that the owner has changed since; `OwnersAlone` says that no such
race reaches what belongs to somebody else.

### Accounts

A login is `Match` (`filter_users_by_claims`), `CreateAccount` with the signal of new users,
`SetGroups` and `SaveAccount` (`sync_user`). The administrator and the realm change between
any two of them. `save()` writes the row that was read, so an edit in between is
lost, and an account deleted in between is inserted again, with the default group of a new
one; `ProviderDecides` is about logins nobody interfered with.

### DevStack, Bootstrap

`DevStack` has the phases of `rundev.py`: preparation, starting one service after the other,
supervision, stopping the tree from its end. `Interrupt` is Ctrl-C in any phase after
preparation; `wards` are the processes of the services, which come and go while they are
enumerated. `windows` chooses whether a job object ends them with `rundev`. `poll()` and
`children()` are one step (`Enumerate`): a service that ends between them is passed over
with its wards, as one that had ended before. Left out are a psutil that is refused access
and an end of `rundev` itself by SIGTERM or SIGHUP, which no code handles.

`Bootstrap` has the seven steps of `bootstrap.py` as commands and as `all`; each may fail and
leave what it had done. A single `package` packs whatever lies there, and a single
`extract` takes any tarball, intact or not; only `all` promises more
(`AllPackagesVerified`). `Clean` may leave anything (`Remains`) and go on, because
`shutil.rmtree` is told to ignore errors (`bootstrap.py:81`). A tarball of another release
that stayed (`kept`) may be what `extract` takes: the package of that `all` then holds a
Python that nothing verified in this run. The property names that exception; a wrong
tarball of the latest release is never packaged.

## 3. Runs

| Run | Question | Bounds |
| --- | --- | --- |
| `store_tx` | Two connections of one agent, same and different batch ids, conflicting cursors, refused content, error, crash, deleted rows: stored once, acked truthfully, the ledger implemented | 2 connections, 2 ids, 2 cursors |
| `store_agents` | Two users, one agent id, pruning, deletion; or two agents, one target: is the count exact? In both, do the locks ever deadlock? | `Scenes`: one agent id and one batch, 2 users, 2 agent rows, one prune; or 2 agents and 2 batches of one user, none deleted or pruned; one error |
| `delivery_faults` | Records skipped or stored twice, answers mistaken, the checkpoint moved back, while everything between plugin and database fails, the plugin dies, or targets share the queue? | three plans: 3 records in batches of 2 (twice), 2 targets of 2 records; queues of 2; each fault once or twice |
| `delivery_live` | Is every record stored in the end unless the agent is wedged, and the ledger implemented on the way? | 2 records, one of each fault |
| `sup_live` | Limit, backoff, late passes, a refused start, an interrupt: do plugins and heartbeats come back? | 2 managers (limit 1 and none), 2 exits, backoff 2 up to 3, queue of 4, outage of 2 periods |
| `operations` | `run_crawlers`: are jobs on time? `rundev`: what is left behind, and does one service stop all? `bootstrap`: is the package what was verified? | 2 jobs (slots of 3, interval 2), 3 daemons, 3 deaths, 8 ticks; 3 services, 2 Ctrl-C, 2 wards; 2 releases |
| `platform` | One of nine components at a time: cursors, snapshots, findings, pipes, sharing, accounts | below |
| `delivery_raw`, `delivery_failed`, `sup_wedge`, `sup_exit`, `crawler_limit` | expected violations, section 5 | smallest that show them; `crawler_limit` those of `operations` |

Bounds of `platform`: 3 log lines of 2 hashes in 3 units of time, one container restart, 2 pods
that the plugin may go to and come back from, a crash, batches of
1; 4 Keycloak events on pages of 1, at most 3 pages, so that one event more is too many;
files of 4 pieces with a rotation; 6 possible sockets, 2 changes, 2 polls, a failure and a
restart; 4 kinds of systems, 3 sessions of which two sort alike, 3 polls; one event, 2
scanners, a death and an edit in 3 ticks; 2 tables of 3 rows, 28 stages in pipes of up to
3; 2 users, 2 names, 2 rows, 3 requests, calls 2 deep; 2 people, 3 names of which two
differ in case, 2 accounts, 2 logins, 2 changes by the administrator.

Why these bounds are enough to be of use: the conflicts of the store are between
two transactions at a time (a key, an agent row, a checkpoint row), and two ids or
two agents give each of them; three records in batches of two give a full batch, a
short one, and a restart inside the range of an earlier batch; queues of two fill up
with one batch and its repetition. `MaxCopies` bounds the repetitions of one batch
that are outstanding when it times out; both queues can only be full at once, with
each side waiting for the other, when it exceeds `QueueSize`. `plan.limit`
bounds each fault; liveness needs them finite. Of the components in `platform` and
`operations`, each conflict is between two of a kind: two lines of one time stamp, a
page and the next, a read and a write with one other write in between, two processes
at one address, two tarballs. Eight ticks give a job two slots and a late pass at
either. The failed-login window is explored on one event, for scans do not relate
two.


A run without `CHECK_DEADLOCK FALSE` also shows that the system never stops. It is
off for `sup_live` and `sup_exit`, where the agent may have exited, for
`delivery_live`, where it may be wedged, and for `operations` and `platform`, whose programs end and whose users, clocks and files
reach their bounds.

### Fairness

* `IndexerStore`: strong fairness of each handler's steps. A coroutine is taken up again when
  its statement returns, for which weak fairness would do; but a row lock that one waits
  for may be taken and freed by others again and again, and what guarantees that one
  obtains it is the database, which grants a contended lock in the order it was
  asked for. Nothing is assumed of clients, administrators or faults.
* `CheckpointedDelivery`: each of the three processes goes on (weak fairness of its
  steps): they are loops which the operating system schedules. The agent restarts a dead
  sender or plugin, and puts its heartbeat when there is room (weak fairness of
  `SenderRestart`, `PluginStart` and `QueueOtherEvent`, each possible only in its own part of
  the loop): an agent that waits in `put` owes no restart. That plugins are restarted is
  the documented setting `restart: True`; without it a plugin that died stays
  dead. Nothing is assumed of the source, of faults or of orphans.
* `AgentSupervisor`: the agent's steps, time, and a connected sender. Nothing is
  assumed of plugins. `PromptSenders` says in addition that a sender with a
  connection empties its queue within a period: it drains up to 500 items at once, ten
  seconds is long, and without it the "short" outage of `sup_live` could begin with
  an arbitrarily full queue. The indexer's absence is bounded by `MaxOutage`.
* `MCOperations`: the code of `rundev` that supervises and stops its children. It waits
  for nothing but the clock (`sleep(0.5)`, `wait_procs` with a time-out), so it is
  always taken up again. Nothing is assumed of child processes, of preparation or of the user.

## 4. Proofs

All theorems hold for every value of the constants that satisfies the named
assumption of the module (`StoreAssumption`, `DeliveryAssumption`, `FindingsAssumption` and so
on, which TLC evaluates in every run; `LedgerAssumption` is a hypothesis of the
ledger's theorems). The assumptions give the constants their types and name what the
code takes for granted:

* `IndexerStore`: `Size` is positive and `None` is no value of anything.
* `AgentSupervisor`: at least one manager, and a queue with room for one event.
* `CheckpointedDelivery`: capacities are positive, and a plan is one of the module's.
* `Findings`: `2 * Slack <= Interval`. The window of the failed-login crawler is one and a
  half intervals; it can make up for half an interval of delay and no more.
* `CrawlerService`: a pass is never later than a slot of a job is long (`MaxLag < Period[j]`).
* `DevStack`: `Order` is a sequence of services. `Accounts`: no person is called "nobody",
  the email of accounts the administrator adds. `HostPosture`: sessions are finitely many.

Each proof has the same form: an inductive invariant that contains or implies the
property, a lemma per action (or per kind of step), and a theorem that joins them.

**`BatchLedger_proofs`**: `StoredOnce`, `CheckpointIsBacked`. The invariant is the
conjunction of the module's own properties; it is inductive as it stands.

**`IndexerStore_proofs`**: `TypeCorrect`, `StoredExactlyOnce`, `AcknowledgedIsStored`,
`CheckpointOfStoredBatch`, `CheckpointIsExact`, `AgentIsExact`, `NoStepTakesOver`, and the
refinement `StoreImplementsLedger`. The properties are not inductive: each is about
committed tables and is broken or kept by a commit whose values were chosen
several steps earlier. The strengthening adds `MsgFits` (the message fits the phase it is
handled in), `AbsentUnowned` (no owner without a row), `Locks` (no two transactions hold
one key, agent or checkpoint), `Held` (what an open transaction has staged is the
committed value plus its own contribution, because it holds the row since it read it),
and `Promises` (the properties). The refinement needs `MaxPrunes = 0`: a pruned receipt is
forgotten by the tables and not by the ledger. Only `PersistCommit` maps to a step of
the ledger; every other action stutters.

**`CheckpointedDelivery_proofs`**: `TypeCorrect`, `AnswersMatchAlways`, `NoGapAlways`,
`NoRecordTwiceAlways`, `CheckpointNeverBack`, and the refinement `ImplementsLedger`; for any
number of targets and records, any capacity of the queues and any number of faults. The
invariant is in layers, each proved with those before it:

1. `TypeInv`: types, and what the plugin works on in each of its states.
2. `OneRequest`: on the socket there is at most one frame that is answered, it is the one
   the sender waits for, and nothing outlives the connection. This is why answers
   need no number, and gives `AnswersMatch`.
3. `AcksStored`: an ack on its way, in whichever queue, is of a stored batch.
4. `Chained`, `Known`: the batches that are still to be delivered follow one another up to
   where the plugin has read, and none goes beyond what the source has written.
5. `Frontier`: whatever lies behind a checkpoint, behind what the plugin believes
   acknowledged, and before any batch that is under way, is stored. `NoGap` alone is not
   inductive: an ack moves the plugin's position over a batch, which closes no gap only
   because what comes before the batch was stored when it was queued.
6. `Order`: without a second plugin over the batch of a first (`stale`), a target has at
   most one batch that is still to be stored, the plugin's own, and all that is stored
   comes before it. Hence no record is stored twice and no commit moves a checkpoint back.

A step is first classified (`StepShape`): it carries batches or loses them (`Carry`), stores
one that was on its way (`Store`), moves the plugin (`PluginMove`) or lets a source grow
(`Grow`). Layers 4 to 6 are proved over these four kinds; only what moves the plugin is taken action by action.
Only `Store` maps to a step of the ledger.

**`AgentSupervisor_proofs`**: `StartsWithinLimit`, `NeverBeforeBackoff`, `CountersInRange`,
`NoneForgotten`. The strengthening says that only a removed plugin waits for a restart,
that `attempts` counts all starts but one, that a restart is scheduled only while one is
left, and that what was waited and what is left make up the backoff. The provers know
nothing of powers but the value of each, and the exponent of the backoff stops at 32 in
the code, so `PowerPositive` goes through them.

**`Findings_proofs`**: `LoginsFound`, `CooldownKept`, `RetentionKeepsOpen`, from
`FindingsInvariant`. For the first, the invariant keeps where each login is that the
latest scan of a process had in view: found, given up with a dead scan, or still on its
list (`Covered`); the step that needs it is the next `Scan`, whose window reaches back to
before the last one because a process is never later than `Interval + Slack` (`InTime`).
For the second, what has been checked has no recent finding *by that process* (`Rested`);
another process may create one in between. For the third, an event that was selected for
deletion has no open finding unless it is `dirty` (`Closed`). `WFMin`, with the well-founded
order of the naturals, stands in for induction where a first event is needed.

**`Users_proofs`**: `NobodyElses` and `ProviderHasLastWord`. `OwnersAlone` needs
`OwnRequests` (a row that was read for a change belongs to who changes it) and `OneOwner`
(an id never changes hands, in the table or in a form or request that may write it
back), because a `save()` inserts a row that was deleted meanwhile. `ProviderDecides` needs
that ids are never reused (`Numbered`) and that a login nobody disturbed finds the account,
and then the groups, as it left them (`Undisturbed`).

**`Operations_proofs`**: `PackagesVerified`, `JobsPunctual`, `RundevLeavesNothing`. For `bootstrap`
the invariant is how far `all` has come and what lies there then (`Progress`): what was there
when it began and could not be removed, and what it has done itself. For
`run_crawlers` it is where `next_run` stands between slots, that each slot before it has
one start (`Punctual`), and that an interval has passed since every start (`Spaced`). For
`rundev`, every running service and every one that has left a ward is accounted for:
in `processes`, on its way into it, or passed over by Ctrl-C (`UpKnown`, `WardsKnown`,
`Enumerated`, `Ended`).

**`Collectors_proofs`**: `EventsReplay`, `LinesOnceAndWhole`, `PostureTold`, `EventsInOrder`,
`EventsAllCollected`, `CursorsHavePlaces`, `LinesAllCollected`. The first rests on a
lemma about differences alone (`ReplayShows`: replaying the difference of two snapshots
turns a view of the one into a view of the other). The second keeps where the file
object stands (`Standing`), where a position can hide a rotation that was not noticed
(`Unnoticed`), and that up to the position each line is queued once (`Queued`). The third
needs that the order of the last sessions is one that sorting gives (`SortedBehind`):
two sorted listings of the same sessions differ only if two of them sort alike.

The two cursors share the lemmas about chunks: `Place` numbers them from 1 in the order of
time and leaves no number out (`PlaceCuts`), from its recursion by way of least
counterexamples (`FirstOf`). Hence the batches of a poll hold what is new, each entry once,
and the cursor of a batch ends where the next one begins (`ChunksMade`, `ChunksPlaced`).
Neither property is inductive: a crash goes back to the checkpoint, and what is then
found once more depends on what each of the cursors under way stands for, not only
the latest. So both invariants speak of every cursor there is: the checkpoint, those of
the batches in the queue, and the position.

* `KcInv`, for `EventsCollected`: no event is stored that one of the cursors does not cover, and
  an event that was committed in time and is covered is stored or in a batch up to the
  cursor's own (`KcSettled`). While pages are fetched, an event that was there when the poll
  began has been fetched or is on a later page (`Paging`): new events are as new as the window
  and push the others to later pages, never to earlier ones. More events can still be
  committed at the cursor's own time, which is why it has prints.
* `KubeInv`, for `LinesCollected`: the log is in the order of time, no two containers share a time
  stamp, and those of one pod follow one another in it (`LogOrdered`). Each cursor stands
  for a place in the log (`Fits`): the lines up to it are not later than the cursor, those
  behind it not earlier, and its hashes count the lines of its time stamp up to there, not
  those behind it. Dropping as many lines as the cursor has hashes then leaves
  exactly what lies behind that place (`BehindBoundary`), even if lines share a time stamp
  and a hash. A cursor speaks of the lines of its own pod only (`InPod`): behind the place
  none of them is stored, except those of `again`; what is owed before it is stored, lost
  with its container, or in the queue (`KubeSettled`). A poll in another pod takes nothing from
  the cursor but its existence, so what it reads is either new or enters `again`; and a
  batch that is the repetition of a stored one has events that were stored already. The
  invariant also says where the cursors of pods left behind may stand, because a crash
  may bring back the checkpoint of a pod that is polled again.

Only model-checked:

* All liveness (`EventuallyStored`, `EveryMessageAnswered`, `HeartbeatsGoOn`, `PluginRestarts`,
  `OneDownAllDown`): fairness and `ENABLED` are beyond the prover.
* `StagesCompose` of `SearchPipeline`: the evaluation of expressions uses `RECURSIVE` operators,
  for which the provers have no backend.
* The properties the five expected violations refute.

## 5. Where code and documentation disagree

| Run | What happens |
| --- | --- |
| `delivery_raw` | A complete batch behind a heartbeat in the queue is drained into the heartbeat's list and stored as one opaque event; the plugin gets no answer and repeats it after 30 s. The plugin recovers (`delivery_live` passes), the opaque event stays. |
| `delivery_failed` | A Kubernetes target that was refused for good makes the next poll raise `TypeError`; the restarted plugin has forgotten the refusal and sends the batch again. |
| `sup_wedge` | During a long outage the queue fills with heartbeats and the sender gives up; the agent waits in `put` for the sender that only it could start. With the default queue of 100 this takes some 17 minutes. |
| `sup_exit` | SIGINT while the agent sleeps skips the clause that stops the managers. |
| `crawler_limit` | A daemon over its restart limit is deleted from the table (`run_crawlers.py:138`) and started as new one pass later: the limit only delays it. `docs/operations/crawler-configuration.md:42` and `SIEMatic/settings/crawler.py:20` call it a maximum. |

More, without a run of their own:

* `check_and_restart` clears the schedule before it starts the process
  (`plugin_process_manager.py:430`), so a start that raises loses the plugin for good,
  with `restart: True` as well. `NeverForgotten` and `PluginRestarts` name that exception
  (`StartRefused`).
* `bootstrap.py all` may package an old Python that nothing verified, when `clean` cannot
  remove its tarball and does not say so (line 81); `kept` in `AllPackagesVerified`.
* When `resolve_pod` returns to a pod that was collected before, its log is read from the
  beginning and its lines are stored again; `again` in `LinesCollected`. What a replaced
  pod wrote after the last poll is missing without a report.
* A Kubernetes target with more than 500 lines at one time stamp, and a
  Keycloak realm with more pages than the limit, fail at every poll and do not recover
  by themselves.
* The places where forms of a search do not agree, and writes of rows that were
  read too early, are listed with `SearchPipeline`, `Sharing`, `Accounts` and `Findings`
  above.

## 6. Not modelled, and what comes next

`PROJECT.json` gives the reason for each component. Left out:

* **Untyped ingestion over several databases** and single events: it promises nothing
  that could be checked; `CheckpointedDelivery` has untyped lists as what swallows batches.
* **Operating system collectors** (`sysmon`, schedulers, launchd, Windows plugins,
  watchdog): each reads an interface of the system and puts the result on a queue.
* **Field extraction, REST views and serializers of events; the parser of search
  expressions and most of their functions**: functions from text to text, without state.
* **Alerts**: a mail per finding that is sent or logged, and nothing is repeated.
* **Seeded content, settings, `serve`, site views, tools**: data and configuration.

Wording, logging, rendering, TLS and HTTP options are left out for good.

What is not proved and could be: that the transactions implement a ledger that forgets old
receipts (the refinement assumes `MaxPrunes = 0`), and that those stages of `SearchPipeline` that
evaluate no expression compose, in a module without `RECURSIVE`.
