# OriginPilot: a verification development

TLA+ modules, TLC configurations and TLAPS proofs for the programs of this
repository: the simulator of the measurement-and-control systems
(`python_simulator/`), the traffic interceptor PilotProbe (`pilotprobe/`) and
the deployment scripts (`pilotos-deploy/`). Paths below are relative to the
repository; `simulator/` stands for `python_simulator/python_simulator/`.

`QPilotos-Latest/` holds documents only; the PilotOS service itself is a closed
image and is not modelled.

## 1. The system

### 1.1 Components

**Simulator.** `main.py` starts one process per quantum system (superconducting,
ion trap, neutral atom, photonic). Each has a ROUTER server, a PUB server and a task manager.

| component | state | operations |
|---|---|---|
| task manager, `task_manager.py` | `tasks` (id → TaskInfo), the eviction deque, one lock | `add_task`, `get_task`, `update_task_status`, `get_task_status`, `remove_task`, `get_timing_info`, `process_task` |
| router server, `zmq_router_server.py` | ROUTER socket, `request_queue`, `reply_queue`, token maps, `running` | receive / process / send threads, one handler per message type, one thread per accepted task |
| pub server, `zmq_pub_server.py` | PUB socket | `publish_task_status` (three sends per message), calibration messages |
| protocol adapters, `protocol_adapters/*.py` | none | parse requests, build replies |
| chip configuration, result generator | files; none | look-ups; random results |

A client's request goes through the ROUTER socket into `request_queue`. The
process thread handles it to the end, publishing PENDING and starting the task's
thread on the way, and puts the reply into `reply_queue`, which the send thread
empties into the socket. The task thread goes through the task manager and the
PUB socket and puts its result into the same `reply_queue`.

**PilotProbe.** One router proxy and one pub proxy per system forward traffic and
hand a copy of each message to `ProxyManager._on_capture`, which validates it, puts it
into the message store, broadcasts it to browsers and prints it.

| component | state | operations |
|---|---|---|
| router proxy, `proxy/router_proxy.py` | `_last_client_id`, counters | forward a request; send a response to the last client |
| pub proxy, `proxy/pub_proxy.py` | counter | forward a publication |
| message store, `store/database.py` | `_queue`, `_running`, the writer thread and its batch, `_total_stored`, the SQLite table | `store`, `_writer_loop`, `stop`, `_flush_queue`, `_write_batch`; queries |
| validator, `validator/validator.py` | pending SNs, task ids seen, last status per task, authentication | `validate` |
| websocket manager, `dashboard/websocket_manager.py` | set of connections, event loop | `connect`, `disconnect`, `broadcast_sync`, `_broadcast` |
| replay engine, `replay/engine.py` | one DEALER socket per system | `replay_session`, `get_recorded_responses` |

**Deployment.** `deploy.sh` starts MySQL and MongoDB, loads the image and runs `AutoDeploy.py` twice:
`initDB` creates the database, migrates it and inserts
the administrator (`mysqlInit/DeployDB.py`), with retries; `start` starts the containers and a
daemon (`Upgrade.py`) that takes upgrade requests over HTTP, one at a time.

| component | state | operations |
|---|---|---|
| installation, `deploy.sh`, `AutoDeploy.py`, `mysqlInit/` | the MySQL server, its schema, tables, revision and administrator | the script; `initDB` with `run_with_retry`; `start`; `loadImage` |
| upgrade daemon, `Upgrade.py`, `Util.py` | `docker-compose.yml`, loaded images, the running container, the PID file, the upgrade lock | `daemonize`, `do_POST`, `do_upgrade`, `handle_exit` |

### 1.2 What is hard, and what makes each part correct

- *Task manager*: dictionary and deque are two structures for one fact. They must
  agree, only the oldest task may be evicted, and `del self.tasks[oldest]` must not raise.
- *Router server*: five or more threads share the task table, two queues and two
  sockets. A task thread knows its task by **id** and looks the object up at every
  access, so eviction and resubmission give it someone else's object. Results
  must go to their submitters, no task may be left behind without a thread, one
  bad message must not stop the server, and every accepted task must be answered.
- *Message store*: a queue drained by a daemon thread and, after a join that may time
  out, by the main thread too. No message may be lost, doubled or misordered on the way.
- *Router proxy*: a single remembered client for asynchronous responses. None may be lost, and one
  may go to the wrong client only in the way the code accepts.
- *Pub server*: three sends per message on a socket several threads share. A status may be lost
  only when two publications overlap.
- *Validator, replay engine*: both pair responses with requests by SN or by order. A warning, and a
  reported match, must be true.
- *Websocket manager*: a set iterated across awaits. A browser that stays must get its messages.
- *Deployment*: several steps, each of which can fail, retries that start over, and processes that
  do it side by side. Success must mean a complete schema; the compose file must always name
  something that can be started; the PID file must tell the truth.

`PROJECT.json` lists these hazards at their lines, with the properties that cover
them or why none does.

## 2. Modules

| module | models | proved about in |
|---|---|---|
| `TaskManager` | `simulator/task_manager.py`: the task table | `TaskManager_proofs` |
| `RouterServer` | `simulator/zmq_router_server.py` over the task table, with `publish_task_status` and `process_task` | `RouterServer_proofs` |
| `TaskService` | the abstract service: an accepted task finishes once and is then answered once | `RouterServer_proofs` (safety) |
| `DocumentedFlow` | what `simulator/README.md` promises clients, as properties of `RouterServer` | – |
| `MessageStore` | `pilotprobe/store/database.py` with the shutdown in `pilotprobe/main.py` | `MessageStore_proofs` |
| `PubServer` | `simulator/zmq_pub_server.py`: publications frame by frame on one socket | `PubMonitor_proofs` |
| `ProtocolValidator` | `pilotprobe/validator/validator.py` | `RouterProxy_proofs`, `PubMonitor_proofs` |
| `WebSocketManager` | `pilotprobe/dashboard/websocket_manager.py`, `/ws/stream` | `PubMonitor_proofs` |
| `RouterProxy` | `pilotprobe/proxy/router_proxy.py` between clients and a simulator, over `ProtocolValidator` | `RouterProxy_proofs` |
| `PubMonitor` | publishing threads → `PubServer` → `pub_proxy.py` → `ProtocolValidator` → `WebSocketManager` | `PubMonitor_proofs` |
| `ReplayEngine` | `pilotprobe/replay/engine.py` with the recording and a simulator | `ReplayEngine_proofs` |
| `DeployDB` | `AutoDeploy.py initDB`: `mysqlInit/DeployDB.py`, `Util.run_with_retry`, the migration | `Deployment_proofs` |
| `UpgradeDaemon` | `AutoDeploy.py start`, `loadImage`, `Upgrade.py` | `Deployment_proofs` |
| `Deployment` | `deploy.sh` and shells over `DeployDB` and `UpgradeDaemon` | `Deployment_proofs` |
| `Host` | the set of shells the two share | – |
| `SequenceLemmas` | what `Append`, `Tail` and prefixes do to a sequence, for the proofs | itself |
| `MC_...` | symmetry sets and the inputs of small instances | – |

`RouterServer` extends `TaskManager`: its actions call the operations of the table and
the actions of the table are exactly what the server may do to it (property
`TMSpec`). `DocumentedFlow` extends `RouterServer`.

### 2.1 TaskManager

`infos` is the sequence of all `TaskInfo` objects ever made: a thread may hold an
object that has left the table, so objects are indices, not records. `tasks` maps
an id to the index of its object, or `NoTask`; `taskQueue` is the `deque(maxlen=MAX_QUEUE_SIZE)`,
whose append drops from the left when full. `AddTask` is one action because the
code holds the lock throughout. Its guard excludes the two cases in which it does
something else: a duplicate id is refused by the caller, and an id in the deque that is
no longer in the table makes `del` raise (`AddTaskRaises`). `GetTaskStatus`
and `GetTimingInfo` are operators.

The clock moves by `Tick` up to `MaxTime`; `MaxTasks` bounds the objects. A task's
configuration is `"valid"` or `"malformed"`: whether `process_task` raises on it
is all its content decides.

`remove_task` exists, but no code of the server calls it. `Removable` is the set of
ids it may be called with: empty for the table as the server uses it.

### 2.2 RouterServer

| code | action |
|---|---|
| `_receive_messages` | `Receive` (an empty request or an undecodable identity is dropped) |
| `_process_requests` → `handle_message` | `HandleTask`, `HandleTaskStatus`, `HandleOther`, `HandleBroken`, `HandleSilent`, then `QueueReply` |
| `_handle_task` | `HandleTask` (table), `PublishPending`, `StartThread` |
| `_send_replies` | `SendReply` (delivered, or lost: the client has gone, or is one of `Slow` and a send to it timed out) |
| `_process_task_async`, `process_task` | one action per access to shared state: `PublishRunning`, `GetTask`, `PublishNoTask`, `Compiling`, `Compiled`, `Running`, `Succeeded`, `PostProcess`, `LookUpResult`, `TakeTiming`, `PublishSucceeded`, `QueueResult`; `Fail`, `QueueErrorResult` for the exception handlers |
| libzmq | `Disconnect` (external) |

A thread is cut exactly where it touches something another thread touches: the
queues, the table, the objects, the sockets. What lies between is local. A request's SN is the
index of its arrival, so SNs are unique; the server only copies them into replies.
A result carries the object its counts were drawn for (`measured`), which need not be the one the thread finds
when it builds the result.
`Slow` are the clients that may leave so many replies unread that their queue in the ROUTER socket fills; how many
that takes is left out, so a send to such a client may time out at any time.
The four adapters differ in the shape of the JSON text, which is abstracted.

The abstract service is instantiated, for the SNs `1 .. MaxRequests`, with

- `outcome <- ShownOutcome`: nothing before the submission has an object, then the status of the
  object, `"running"` until it is final;
- `results <- ShownResults`: how many results for its SN are in the reply queue, with the client or refused.

### 2.3 MessageStore

A message is the index of its `put`. `writer` and `main` are program counters.
The writer's loop condition reads `_running` (`CheckRunning`) and then the queue
(`CheckQueue`), as the Python expression does. `_write_batch` is the commit
(`CommitBatch`, or `WriterDies` when the batch cannot be bound) and then the count
under the lock (`CountBatch`, with the `batch.clear()` that follows). `main` goes through `Stop`, `Joined` (by time-out when the writer is still alive: `givenUp`),
`FlushGet`, `FlushDrained`, `CommitFlush`, `CountFlush` and `Exit`. `Exit` may come early: an
exception in the final flush, or a second signal, ends the process, and the
daemon writer with it. Proxies are joined for three seconds only, so `Store` stays
possible until the process ends.

Left out: an SQLite lock that stays busy for five seconds (a second drainer holds it for one
commit), and crashes of the machine.

### 2.4 RouterProxy and ProtocolValidator

`validate` holds its lock from beginning to end, so a call is one step; `Validate(msg)` is that step and
`Issues(msg)` what it writes into the message. It is called inside the proxy's own steps.
The state is that of one quantum system: the code's dictionaries are keyed by the system
first, and nothing crosses over.

The proxy thread is cut at `poll` (`Poll`), which reports both sockets at one instant, and at the
two branches of the loop body (`Request`, `Forward`). The simulator is external
(`Acknowledge`, `SendResult`, `Evict`): what `RouterServer` shows its clients, results that overtake
their acknowledgement, an `UndefinedMsg` under SN 0 for a broken request, requests without a reply and
results under another submission's SN after an eviction included. It sees one peer only, the proxy. It may have
been running before the proxy, for an earlier PilotProbe whose socket had the same identity: `HeldBefore` are the
task ids it then holds, `Earlier` what it still sends (`SendEarlier`), which the proxy drops as long as it has heard
no client.
Task ids are of any JSON type; `StringIds` are those the validator looks at, non-empty strings. Ghosts: a request is its place in
the order of sending, a response carries the place it answers and is recorded with the number of
requests forwarded before it.

Left out: what the sockets drop for peers that have gone, and high-water marks.

### 2.5 PubServer, WebSocketManager, PubMonitor

`PubServer` sends frame by frame. libzmq leaves concurrent use of a socket undefined altogether; only its
mildest outcome is modelled, frames of several threads in any order, each whole. So the properties are
what holds even then, not a promise that nothing worse happens. `overlapped` is a ghost: the
publications another one began inside of, and those others.

In `WebSocketManager` an event-loop step is what lies between two awaits. CPython raises on a set
whose size changed and otherwise goes on with the table as it is; with fewer than five connections the
table is never rebuilt, and `ConnectionAssumption` keeps the model inside that.
A connection that ends is `Close`, whether the browser left or its handler raised; only in the first case does
`disconnect` follow (`app.py:46`), and nothing obliges the model's `Disconnect` to. `disturbed` collects, per broadcast, the connections that came or went by other hands.

`PubMonitor` composes them: the process thread and the task threads publish in the order
`RouterServer` has them do (task ids are distinct here: an id that is evicted and resubmitted has two
runs under one name, which `RouterServer` covers), the pub proxy captures, validates and schedules a
broadcast. `Workload` chooses what happens in a behaviour, so that one run covers several small worlds
without their product.

### 2.6 ReplayEngine

The recording is made by the model itself, from clients' requests and the answers of a simulator, so
that every table it replays is one that can arise. `StartSession` keeps or restarts the simulator;
`GiveUp` is either time-out; `Terminate` is possible only when the simulator can be reached, because LINGER
is left at its default. Some requests have no reply and some are answered by an `UndefinedMsg` under SN 0.
PilotProbe may have been down in between, on the same database: `RecordResponse` may miss any of the responses,
`RecordUnasked` records one whose request was lost. `get_recorded_responses` takes the number of a request among the requests of
its SN for the number of its group among those the acknowledgements of the SN begin. `Stray`, `Skipped`
and `Regular` say of a recording when that is so: a response of the SN without the acknowledgement of
its own request before it (it overtook it, came under another SN, or its request or acknowledgement was lost), and a
request without an acknowledgement before one that has it, shift the groups; results that come after a
later acknowledgement land in another's group. They are the conditions of the properties, and each is needed.
The simulator's table does not fill up here.

A query is `Selected(rows, places)`: the rows at some places, in their order, where `Ascending` finds the
k-th place by counting the places up to it. That is what `ORDER BY` and the loop over the rows yield, stated
without recursion. `results` holds the replies reported for each request; `Matches` is the comparison
the report makes of them, which the recording, closed by then, still gives.

### 2.7 DeployDB, UpgradeDaemon, Deployment

`DeployDB` has one step per statement sent to MySQL, which commits every `CREATE TABLE` by itself. A failed
migration is a `SystemExit`, which `run_with_retry` does not catch; any other failure is the next attempt.
The tables of the migration are numbered. In `UpgradeDaemon` each process is a program counter through
`start_services`, `daemonize` and `start_Upgrade_process`, and each upgrade one through
`do_upgrade`. `save_compose` is two steps, opening (which truncates) and writing. A fault can end an upgrade at each
of its steps (`UpgradeFails`), a dump onto a full disk included, which leaves the file empty. `docker compose down` and `up` are one
step each. Images
are versions, and a package has the version its name says and the version in it. `Deployment`
adds the shells, and a MySQL container that may be stopped with its data at the beginning: each shell runs the script, or parts of it by hand. Faults are spent
from one budget, `MaxFaults`.

## 3. Runs

Bounds are in the `.cfg` files. Deadlock checking is off where the bounds end a
behaviour: a server without further requests rests.

| run | question | bounds |
|---|---|---|
| `task_table` | Do dictionary and deque stay in step, is only the oldest evicted, does an id refer to its latest object, with `remove_task` on one id? | 4 ids, room for 2, 4 submissions, one tick |
| `router_tasks` | Does the server implement the abstract service and use the table as `TMSpec` says? Do statuses, publications and durations agree? | 2 clients, 2 ids, 2 submissions, valid or malformed, one tick, fair threads |
| `router_evict` | Where do results go, are tasks left without a thread, are acknowledgements in order, when tasks evict each other and ids come back? | room for 1, 3 submissions, 2 clients, timestamps left out (a clock at 0) |
| `router_live` | Is every request acknowledged and every task answered, whatever the other requests are? | 2 requests of any of the 17 types, room for 1, the client may stop reading and may leave, fair threads |
| `message_store` | Is every message stored once, in order, and accounted for, with a failing batch and every kind of shutdown? | 6 messages, batches of 2, message 5 unbindable |
| `probe` | Which responses go astray, is any lost or doubled, is what the validator flags so, and is a refused task flagged, when the proxy starts beside a busy simulator? | 2 clients, 2 requests under 2 SNs or none: tasks, tokens, silent and broken ones, an id that is no string, a held id, a result for an earlier PilotProbe, 2 instants |
| `monitor` | Which publications arrive whole, what does a warning mean, which browser misses a message? | 2 tasks; a task and any announcement; 2 broadcasts to 3 browsers |
| `replay` | Which recorded responses is a request compared with, when is a match reported, does a session end? | recorded requests, lost requests and sessions 3 together, 2 ids, 2 SNs, tokens, silent and broken requests, any response missed, a fair engine |
| `deploy` | What do success of `initDB`, the compose file and the PID file mean, when two shells work side by side? | 2 shells, 2 upgrades of 3 kinds of package, 2 tables, 2 attempts, 1 fault |

The interesting cases all occur inside the bounds. An eviction of a running task with a resubmission of its
id needs three submissions to a table for one; a stale deque entry needs one
removal and one more submission than the table holds; a store needs more than two full
batches and a partial one on either side of the stop. A response goes astray with two
clients and two requests, which are also enough for an SN to be overwritten, a task to be refused, or to be evicted and
submitted again; the proofs cover the rest. Two
publications overlap with two threads; a broadcast is disturbed with two connections and missed by a
third. A late reply of an earlier session needs one recorded request and two sessions; grouping goes
wrong with two requests of one SN, and the third of another SN shows that it stays there. Two shells are the smallest
host on which `initDB` races and a PID file is removed by another daemon; one fault reaches every
error path, since none needs a second. `deploy` and `monitor` use symmetry; both check invariants only.
The type invariant of the task table is checked as part of `RouterTypeOK`. Each property has a mutant of
the code, in `PROJECT.json`, that makes the run fail.

### 3.1 Where the code departs from its documents

These runs end in a counterexample.

| run | documented | what the code does |
|---|---|---|
| `doc_query` | `simulator/README.md:153`: `TaskStatus` queries a task | the handler reads a key no adapter sets; the answer is NOTASK |
| `doc_stop_flushes` | `pilotprobe/store/database.py:78`: stop flushes the remaining messages | a message that cannot be bound ends the writer, and the rest of its batch is lost |
| `doc_deploy` | `deploy.sh:8,78,87`: a full deployment that ends with "Deployment Complete!" | the MySQL image creates the schema (`deploy.sh:25`), so `initDB` fails and the script ends |

Three more departures are plain in the model and need no run: the task's thread is started
before the acknowledgement is queued (`StartThread` before `QueueReply`, against `simulator/README.md:257,302`), a
full table evicts instead of rejecting (`AddTask`, against `simulator/README.md:608`), and an identity that is not
UTF-8 is dropped (`Receive`, against `simulator/README.md:407-427`). So is a fourth: the docstring
`router_proxy.py:21-24` routes responses back to their client, `StrayOnlyAfterLater` says how far that is true.

### 3.2 Fairness

`RouterServer!FairSpec`: weak fairness of the process thread, of the send thread and of each
task thread. They are OS threads in loops whose waits are bounded (queue
time-outs of 0.1 s and sleeps), and none waits for a client. Clients, disconnects and the clock owe
nothing; in particular nothing is assumed about `Receive`.

`MessageStore!FairSpec`: weak fairness of the writer and of the main thread once it has
begun to stop; `join` has a time-out, so it is never stuck. `Store` and `Stop` are not fair.

`ReplayEngine!Spec`: weak fairness of the engine's thread. Its waits are bounded (5 s for the first reply,
300 ms for each further one) and a request has at most two replies, so polling comes to an end. `Terminate`
is enabled only when the simulator can be reached; `SessionEnds` says no more.

`TaskService!FairSpec` is what `ServiceLive` requires of the server: weak fairness of
finishing and answering each accepted submission.

## 4. Proofs

For every value of the constants that satisfies the named assumptions.

**Task table** (`TaskManager_proofs`; from `QueueSizeAssumption`, `StatusesAssumption`,
`RemovableAssumption` and `TimeAssumption` of `TaskManager`).

- `TableType`, `TableStaysBounded`: for every use of the table, `remove_task`
  included. Boundedness is not inductive alone: the invariant adds that every task in
  the table is in the deque.
- `TableRefersToLatest`: an id in the table refers to its latest object.
- `QueueAlwaysListsTable`, `AddTaskNeverRaises`, `OnlyOldestIsEvicted`: when nothing is removed
  (`Removable = {}`), the deque lists exactly the table, in the order of admission and
  without repetition. From that follow that `del` never raises, and that a task
  leaves the table only as the head of a full deque.

**Message store** (`MessageStore_proofs`; from `BatchAssumption` and
`MessagesAssumption`: `BatchSize` positive, `MaxMessages` natural, `Unbindable` any set).

- `StoreType`: the inductive invariant adds that a batch that may still grow has room
  (`Room`), that the writer is gone once main has joined it or exited (`WriterGone`), and that
  every committed row is counted or about to be (`Counted`).
- `EachMessageStoredOnce`, `RowsFollowCapture`: one argument for both. Table, the two
  batches and the queue are a `Chain` in a relation `R`: `R` holds along each
  sequence and from each to those behind it. Putting, taking, committing and dropping
  keep the chain (`ChainPut`, `ChainGet`, `ChainCommit`, `ChainDrop`). With inequality
  for `R` this holds whoever drains the queue; with less-than it needs that only
  one of the two drains at a time, which is `WriterGone` as long as the join was not given up.
- `EveryMessageAccounted`, `StopStoresAll`: every captured message is somewhere, and once
  main has seen the queue empty, only messages put after `stop` are in it (`Drained`).

**Router server** (`RouterServer_proofs`; from the assumptions of the task table and
`OfferedAssumption`, `RequestsAssumption`, `ServerStatusesAssumption` of `RouterServer`).
`MaxRequests` and `MaxTasks` are any numbers here, so the bounds of the runs bound nothing.

- `RouterType`: the inductive invariant `RouterInv` adds to the types that a thread which holds an
  object holds one of its own task id (`ThreadFits`) and that the object the process thread
  is about to start a thread for is the latest one (`StartsLatest`). Both rest on two facts about
  the table: objects never disappear or change their owner (`ObjectsKept`), and an id in the table
  refers to an object of that id.
- `ServerUsesTable`: under `RouterInv` every step of the server is a step of `TMSpec` or leaves
  the table, so the theorems about the table hold of the server; `ServerEvictsOldest` is one of
  them.
- `ResultsGoToSubmitters`: the reply in the hands of the process thread is never a result, and
  every result takes client and SN from one object, of the thread's own id (`SubmitterInv`). Its counts were drawn for that object or
  an earlier one of the id, since the table only ever moves on to later objects: not always that
  client's own, because after an eviction and a resubmission by another client the thread of the first sends
  its counts to the second.
- `NoTaskIsStuck`: the property itself is not inductive, since a thread that has set the final
  status still runs; `ProgressInv` asks for a thread that is yet to set one.

- `AnswersKeepOrder`: of the acknowledgements, each is older than whatever is behind it on the way, the
  reply in the hands of the process thread and the requests that wait included (`AckInv`), whichever of them
  are lost on the way.
- `StoriesAreInOrder`, `SuccessesAreVisible`, `DurationsAreSane`: `PublishedInOrder`, `SuccessIsVisible` and
  `NoteTimeSane` in every state in which no task was evicted (`NoneEvicted`). The condition is needed: a
  thread looks its object up by id at every access, and an eviction gives it nothing or the object of a
  resubmission. An evicted object never comes back, so the condition in one
  state holds it in all earlier ones, and the invariant needs no ghost (`TableKeepsEvicted`). `OwnInv` fixes
  status, publications, timestamps and durations by the place of the object's own thread; `GoodInv`
  says that a success is queued as the last thing its thread does.
- `RoomForAll`: with room for every task there will be (`MaxTasks < MaxQueueSize`) and without
  `remove_task`, which the server never calls, no task is ever evicted, so the three hold always.
- `ServiceImplemented`: the refinement. A behaviour without evictions is one of `TaskService!Spec` under the mapping
  above. Every object was made for a request of its own (`SnInv`); its result is nowhere before its thread
  is done, and in one place once afterwards, until the client has it or the socket refused it (`CountInv`). So
  the mapping can be read off the object and its thread (`ShownInv`), and each
  step of the server is one of `TaskService` for the thread that takes it, or a stutter
  (`NewObjectServes`, `ThreadStepServes`, `StepServes`). `ServiceForAll` is the
  same from `RoomForAll`'s assumptions alone. The liveness in `ServiceLive` stays with TLC.

**Router proxy** (`RouterProxy_proofs`; from `ProxyAssumption` and `ValidatorAssumption`; any number of clients,
requests, SNs, tasks and instants). The common invariant `ProxyInv`: types; a request waits in one place until
it is forwarded, once, and what answers it comes after the simulator took it (`Places`); the loop polls before it
reads and has a client once it has forwarded (`LoopFits`).

- `ProxyType`, and `ResponsesStrayToLater`: a response is handed to the client of the request forwarded
  last, which is the one it answers or a later one (`StrayInv`).
- `SlowFlagsAreReal`: the time kept for an SN is that of a forwarded request of the SN, and never before the capture
  of another one (`SlowInv`). A response under the SN of another request than its own, which an `UndefinedMsg` is under SN
  0, may be flagged although prompt; the property says so.
- `RefusalsAreFlagged`: the validator remembers every string id the simulator holds or is about to get, but for those it held
  before (`HeldBefore`), so a request that will be refused was flagged when it was captured (`RefuseInv`).
- `ResponsesAreConserved`: for requests the simulator has taken, so the proxy has heard a client; no answer is in two places, whether queued or handed over, and an outstanding result is
  nowhere (`OnceInv`).

**Publications** (`PubMonitor_proofs`; from `MonitorAssumption`, `PubAssumption` and
`ValidatorAssumption`; any number of tasks, announcements and browsers, of which the model is meant for fewer than five).

- `OnlyOverlapsTear`: of two threads that are both between two frames each has overlapped the other; so one that
  overlapped nobody is alone, and the frames since the last message are its own (`PubInv`).
- `WarningsAreTears`: the statuses of a task are begun one after the other, arrive in that order, and the validator
  learns them in that order, one missing at most; where the RUNNING of a task overlapped
  nobody, the validator knows it, is about to, or will not be asked (`TaskInv`, whose part `Told` says so). Nothing
  is known from before the first subscription (`Hearing`).
- `OnlyChangeLosesBroadcasts`: whatever tells the set of connections from the one a broadcast began
  with has disturbed it (`BroadcastInv`).
- `MonitorType`: messages stay short, since a thread has at most a topic and an operation among
  the frames since the last message (`Distinct`).

**Deployment** (`Deployment_proofs`; from `DeployAssumption`, `PackagesAssumption` and
`NoProcessAssumption`; any number of shells, upgrades, tables, attempts and faults).

- `OneProcessMigrates`, `InitDBInstallsSchema`: a host is in one of two situations for good. Either its MySQL server was
  there from the beginning, and only the process that created the database gets past that step; or
  a script brings it up, and no `initDB` does (`SchemaInv`).
- `PidFileTellsTruth`: from `PidInv`.
- `ComposeStaysUsable`, `ServiceRunsWhatComposeNames`: an upgrade that is about to write has loaded the image and
  knows the name, so whoever empties the file can fill it, unless just that fails (`DockerInv`).
- `DeploymentType`: types of all three.

**Replay engine** (`ReplayEngine_proofs`; from `ReplayAssumption`, `OfferedAssumption` and `UnaskedAssumption` of `ReplayEngine`;
recordings of any length, any number of SNs, tasks and sessions).

- `ReplayType`: the types, with what a recording looks like (`RecordingFits`): a response is to a request of the
  recording or to none, an acknowledgement has the SN of its request or none, and acknowledgements come in the order of
  the requests, though some may be left out. While it is made, the requests in the simulator's queue are behind all that are
  acknowledged (`Recording`).
- `GroupsBeginWithOwnAck`: an injection of a finite set into as many numbers reaches each of them, so `Ascending` lists
  what it should without an induction (`AscendingLists`). Under the conditions of the property each group
  opens with an acknowledgement (`ResponsesOpened`), and the acknowledgements up to one and the requests up to the one it
  answers are equally many (`OpeningRank`): the place among the requests is the place among the groups.
- `PunctualReplaysMatch`: of a regular recording a group is a stretch of rows, the ones that answer the request
  (`RegularRange`, `StretchListed`, `RegularGroup`); and as long as no reply is late, what the engine
  has and what its socket holds is what was answered to the request it waits for (`SessionInv`).

`SequenceLemmas` holds what these proofs use of sequences beyond the library's theorems.

**Model-checked only.** All liveness (`ServiceLive`, `EveryRequestAnswered`, `EveryTaskAnsweredOrEvicted`,
`EventuallyStored`, `SessionEnds`), which rests on fairness and `ENABLED`.

## 5. Not modelled

- The token maps behind `MsgGetToken` / `MsgUpdateToken`: the replies are, with either error code.
  No other handler reads the maps.
- Messages of other than two frames, and `stop` of the router server, which the launcher
  reaches only by ending the process.
- The content of results, chip configurations and the JSON text; the JSON schemas of the validator.
- The HTTP routes of the dashboard and the queries of the store: they read a table that only grows.
- The proxy manager's start and stop of its proxies, and its output.
- In the deployment: MongoDB, the virtual environment and the dependencies (steps of `deploy.sh`
  that can only abort it), configuration files that are missing or malformed, `acquire_lock` (never called).
- Columns of tables, `app/models.py`, test code, benchmarks, the traffic generator, the analyzer,
  document conversion: declarations, or tools beside the running system.
- `docker compose down` and `up`, which are one step each: a start by hand in the middle of one of them. A MySQL server that
  stops while `initDB` runs, as such: each of its statements may fail (`Fault`), and a container that was stopped before is there.
- Publications that the PUB or SUB socket drops at its high-water mark or while a connection is
  made anew. They would be one more cause of a lifecycle warning (`WarningNeedsTear`) beside the one modelled.
- The process thread of the router server in `PubMonitor`: that it publishes one PENDING to its end before it begins the next is
  the guard of `PublishPending`.
- The simulator's eviction of tasks in `ReplayEngine` (in `RouterProxy` it is there), and clocks that go back.
- Undefined behaviour of libzmq under concurrent sends beyond the order of frames.

## 6. Plan

Every safety property the passing runs check is proved. Left:

1. `TokenStore`: tokens named by the second, chains of refreshes; messages of other frame counts.
2. `PipelineStats`: the reconstruction of task timings from the stored rows.
