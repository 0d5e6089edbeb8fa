# OpenStack Ocata: a TLA+ verification of its coordination core

The repository collects the services and libraries of OpenStack's Ocata
release, about 36 000 files. Most of them are request parsing, drivers and
tests. The part that is hard to get right is coordination: several engines or
agents that share one database, talk through an RPC bus that loses and delays
answers, and may die at any moment. This project models that part, one
mechanism at a time, checks each model with TLC on small instances and proves
its main properties with TLAPS for every instance.

Three subjects so far:

* **heat**, whose engine has the densest such logic: the convergence engine
  (optimistic sync points, row locks that can be stolen, stale workers), the
  older stack lock (locks stolen from dead engines, operations cancelled and
  stopped across engines) and the cooperative scheduler of the legacy engine;
* **neutron's L3 agent**: stamped updates of routers in a priority queue, threads
  that take each other's updates over, and the full synchronisation that repairs
  what notifications missed;
* **oslo.messaging**, the RPC all services talk through: acknowledgement before
  dispatch, duplicates, lost connections and reply queues, the orderly stop of a
  server.

## Inventory

### heat (heat-8.0.2/heat)

| component | state | operations | interacts with | hard behaviour | what makes it correct |
|---|---|---|---|---|---|
| sync points (`engine/sync_point.py`) | one row per graph node and traversal: `input_data`, `atomic_key` | `create`, `get`, `update_input_data`, `sync`, `delete_all` | called by worker threads of all engines; calls `propagate` | optimistic retry, rows that disappear, death between write and cast | no arrival lost; one notifier, with the data of all predecessors |
| resource row lock (`engine/resource.py`, `engine/check_resource.py`) | `engine_id`, `atomic_key`, `action`, `status` of the row | `_acquire`, `_release`, `_try_steal_engine_lock`, `select_and_update`, `store`, `metadata_set` | workers, `converge_stack` (which rewrites `needed_by`), signals (which rewrite the metadata) | stale copies, steals, late answers | exclusion while engines are well; a lock loses its owner in one way only; messages die out |
| stack lock (`engine/stack_lock.py`) | one row `stack_id -> engine_id` | `acquire`, `try_acquire`, `release`, `thread_lock` | service calls, thread callbacks, start-up reset | steal races, single retry | one operation at a time; the lock is freed |
| stack operations (`engine/service.py`, `engine/stack.py`) | the stack row; threads and message queues per stack | create, update, suspend, resume, delete, reset at start-up | `ThreadGroupManager`, `EngineListener` of other engines | copies loaded before the lock, forced stop, state stored by a callback | once created, only the holder writes and an unlocked stack is settled; calls end |
| convergence (`engine/stack.py`, `engine/check_resource.py`, `engine/worker.py`) | `current_traversal`, templates, `current_deps`, resource rows linked by `requires`, `replaces` | `converge_stack`, `check_resource`, `rollback`, `mark_complete`, `purge_db` | sync points, row locks, RPC casts | superseded traversals, replacement, failure and retrigger | a stale traversal never decides the stack; dependency order; COMPLETE means complete |
| scheduler (`engine/scheduler.py`) | generators and their timers, the graph of what is left to do | `TaskRunner`, `DependencyTaskGroup` | legacy stack operations | an error while others run, cancellation, grace periods, exceptions thrown in | order of the graph; an honest outcome; an error ends the group |
| dependencies (`engine/dependencies.py`) | a graph | `+=`, `leaves`, `roots`, topological order | both engines | cycles | the order extends the edges |
| scaling cooldown (`scaling/cooldown.py`) | flag and timestamp in metadata | check, record | signals from any engine | check then act | one adjustment at a time |

How these meet: a user call reaches some engine. Without convergence the
service loads the stack, takes the stack lock and starts a thread in the
stack's thread group; a callback linked to the thread stores the final state and
frees the lock. With convergence the engine writes a new traversal, makes its
sync points and casts one `check_resource` message for each leaf of the graph.
Any worker takes a message, loads the resource, locks its row, works, frees the
row and reports to the sync points of the dependent nodes; the report that
completes a sync point casts the next message.

### neutron: the L3 agent (neutron-10.0.2/neutron)

| component | state | operations | interacts with | hard behaviour | what makes it correct |
|---|---|---|---|---|---|
| queue of router updates (`agent/l3/router_processing_queue.py`) | a priority queue; per router a master, its backlog, the stamp of the data processed last | `add`, `each_update_to_next_router`, `updates`, `fetched_and_processed` | handlers of notifications, the synchronisation, the pool's threads | two threads at one router, updates skipped as old | one thread per router; no change skipped but in races that can be named |
| agent (`agent/l3/agent.py`, `namespace_manager.py`) | `router_info`, `fullsync`, namespaces of the host | `_process_router_update`, `periodic_sync_routers_task`, `after_start`, `_report_state` | server RPC, commands of the host | half-done routers, restarts, stale namespaces | the host ends as the database says |
| server's side (`db/agents_db.py`, `api/rpc/agentnotifiers/l3_rpc_agent_api.py`, `db/l3_agentschedulers_db.py`) | routers scheduled to the agent, its heartbeat and `admin_state_up` | notify, answer, revive | every agent | an agent that seems dead is not notified | it is told that it was revived |

A change of a router is written to the database and, if the agent counts as
alive, notified. The agent stamps each notification when it arrives, asks for
the router's data when it gets to it, and stamps those before it asks. A full
synchronisation, at the start and whenever something failed or the agent was taken for
dead, queues all routers with one stamp taken before it asks.

### oslo.messaging: RPC (oslo.messaging-5.17.2/oslo_messaging)

| component | state | operations | interacts with | hard behaviour | what makes it correct |
|---|---|---|---|---|---|
| client (`_drivers/amqpdriver.py`, `rpc/client.py`) | waiters by message id, the reply queue | `_send`, `wait`, `ReplyWaiter` | broker | deadlines, replies nobody waits for, publications repeated | every call ends |
| listener and server (`_drivers/amqpdriver.py`, `impl_rabbit.py`, `_drivers/amqp.py`, `rpc/server.py`, `server.py`) | connection, ids of recent messages, acknowledgements to be done, obsolete reply queues | `poll`, `acknowledge`, `_process_incoming`, `reply`, `stop`, `wait` | broker, executor | a connection lost between delivery and acknowledgement, a death, a call that expires in the queue, a stop with requests in hand | no request is lost or repeated without cause; a stop ends |

### The rest of the repository

Libraries: `oslo.service` (thread groups, periodic tasks), `oslo.concurrency` (process locks), `oslo.db` (retry
decorators), `tooz` (membership, hash ring), `taskflow` (flow engine with
revert and resume), `automaton`, `futurist` (executors, periodic worker),
`stevedore`, `oslo.*` utilities without shared state.

Services with coordination of their own: `nova` (resource claims against a stale
scheduler view, instance task states), `neutron` (quota reservations, provisioning blocks,
besides the L3 agent), `cinder` (quota reservation, volume states),
`ironic` (node reservation, provision states), `senlin` (cluster and node locks),
`mistral` (joins), `swift` (rings, replication).

Services that follow these patterns or are mainly pipelines: `keystone`,
`glance`, `manila`, `trove`, `sahara`, `magnum`, `murano`, `designate`,
`barbican`, `solum`, `tacker`, `aodh`, `ceilometer`, `panko`, `cloudkitty`,
`congress`, `vitrage`, `searchlight`, `monasca`, `freezer`, `zaqar`, `tricircle`.

Clients, dashboards, middleware, storage and hypervisor drivers are I/O.
`PROJECT.json` lists all of these with a representative file and the reason each
is modelled, partly modelled or not.

## Modules

| module | models | abstract or detailed |
|---|---|---|
| `Rendezvous` | what a sync point promises: a meeting place with indivisible arrivals | abstract |
| `SyncPoint` | the sync point row and each call of `sync()`, statement group by statement group | detailed, implements `Rendezvous` |
| `SyncPointProof` | theorems about `SyncPoint` | |
| `ResourceLock` | one resource row, its lock, workers handling its messages, steals | detailed |
| `ResourceLockProof` | theorems about `ResourceLock` | |
| `StackLock` | one legacy stack, its lock row, the calls made about it, threads and callbacks | detailed |
| `StackLockProof` | theorems about `StackLock` | |
| `Convergence` | a stack of the convergence engine from request to end of traversal: stack row, resource rows, physical resources, sync points, messages, requests and workers | detailed; uses a sync point as one step, which `SyncPoint` justifies, and a row lock without steals, which `ResourceLock` refines |
| `ConvergenceProof` | theorems about `Convergence` | |
| `DependencyTaskGroup` | a task group of heat's scheduler: the coroutine that drives it, the graph of what is left, the `TaskRunner` of each task | detailed |
| `DependencyTaskGroupProof` | theorems about `DependencyTaskGroup` | |
| `L3Agent` | an L3 agent with its queue, threads, synchronisation and host, and the part of the server that notifies and answers it | detailed |
| `L3AgentProof` | theorems about `L3Agent` | |
| `L3AgentLossProof` | the proof that `L3Agent` loses no change | |
| `Rpc` | requests of a client, the copies a broker makes of them, the servers of a topic with their polling and request threads | detailed |
| `RpcProof` | theorems about `Rpc` | |
| `MC...` | graphs, calls, engines, templates and requests for TLC | |

Operators whose comment says "Seeded fault" are wrong variants of the definition
that follows them. No specification uses them; they exist to show that the
properties notice such a fault.

### SyncPoint

`row`, `atomic_key`, `input_data` are the columns. `input_data[k]` names the
call that brought the data standing under sender key `k`: the values themselves
do not matter, who brought them does. Each call has a place in the loop (`pc`)
and a private `copy` of key and data. `Get` is `get()` and the merge, `Update`
the filtered write and, when no row was updated, the jump back to `get()`;
`Propagate` the cast. `Create` and `DeleteAll` are the steps `converge_stack` and
`purge_db` take. `Crash` lets an engine die between any two of them. The random
sleep between retries is left out: it only delays.

### ResourceLock

`engine_id`, `atomic_key` and `state` are the row. A worker goes through
`Load` (load_resource), `AcquireGet`, `Acquire`, then `BeginCreate` or
`BeginUpdate` and `Finish` (the handler between the two writes of
`_action_recorder`), `ReleaseGet`, `Release`; or, when the lock was refused,
`StealGet`, `Ping`, `Steal`, `Mark`, `Recast`. `rsrc` is the state in the
worker's Resource object and `rs` what it last read of the lock columns, so the
model keeps apart what is read before the lock, at the lock and at the release.
Two rewrites move `atomic_key` without the lock: `Touch`, of `needed_by` by
`converge_stack`, which requires the row to be unlocked, and `MetadataSet`, of the metadata
by a signal or a handler, which takes the row as it is, locked or not. `Touches`
bounds the two together. Messages are a counter: they are all about one
resource. A call counted in `created` stands for one run of `create()`, the
retries inside it included.

### StackLock

`lock` and `stack` are the two rows. A call loads the stack into `mine`
(`Request`, or `Store` for a create) before it asks for the lock, as the service
does. `CreateStackUser` is what follows the store of a new stack: keystone makes a
project, and the whole row is stored again, unfiltered and without the lock, whatever
others have made of it; or the stack has its project; or keystone refuses, and the stack is FAILED in
memory. The reload of a stack with trusts (`service.py:816`), which reads what was just stored, is
left out; a resource that makes the same project later (`stack_user.py:42`)
does so in the thread that holds the lock, and is part of `Finish`. `Acquire`, `Ping`, `Steal` are `StackLock.acquire`, with its single retry;
`Run`, `Rollback`, `Finish`, `Purge` the thread; `Die` what
`reset_state_on_error` stores in a thread that is killed; `Exit` the linked
callback. `Try`, `Notify`, `Poll`, `Expire`, `Stop`, `Links`, `Retake` are
`delete_stack`: ask the holder to cancel, poll, then have the threads stopped.
`group` is the set of calls with a thread in the stack's thread group of their
engine, and `waits` the threads a `stop()` waits for: a thread at its callbacks
has left the group, so a stop does not wait for it. `Refetch` belongs to
`reset_stack_status`.

### Convergence

`stack`, `rows`, `points` are the tables: the stack row with its traversal, its
template, the previous one and the graph (`current_deps`); the resource rows by
id; the `input_data` of each sync point. `phys` stands for what the plug-ins
made: settings by physical id. `mail` is the bag of `check_resource` messages,
delivered in any order. `th` holds what each thread does and the copies it works
on: of the message, of the stack as loaded, of its Resource object, and, in a
request, of the rows an update read when it was authorised.

| code | actions |
|---|---|
| `update_stack`, `stack_cancel_update`, `delete_stack` | `Request` |
| `stop_all_workers`, `_stop_traversal`, `_cancel_workers`, `_wait_for_cancellation`, `cancel_check_resource` | `Stop`, `FailStopped`, `Order`, `Wait`, `Cancel` |
| `rollback`, `converge_stack` | `Rollback`, `Converge`, `Drop` |
| `_converge_create_or_update` | `Rows`, `StoreGraph`, `Launch` |
| `WorkerService.check_resource`, `_retrigger_replaced` | `Take`, `Disown`, `Retrigger` |
| `Resource.lock`, `create_convergence`, `update_convergence`, `delete_convergence` | `Lock`, `Discard`, `Begin`, `FinishCreate`, `FinishUpdate`, `FinishDelete`, `Break`, `Heir`, `Unlock` |
| `make_replacement` and the message that follows | `Replace`, `Link` |
| `_initiate_propagate_resource`, `check_stack_complete`, `_handle_resource_failure` | `NotifyNext`, `CheckStack`, `Reload`, `Fail` |
| `mark_complete`, `purge_db` | `Complete`; `Purge`, `End`, `Erase`, `Remove` |

A template is a function from names to what a resource needs and two settings,
one that can be changed in place (`soft`) and one that cannot (`hard`). `Breaks`
says which plug-in calls may fail; cancellation may end any call that runs.

`purge_db` takes four steps: the rows of deleted resources; the whole copy of the stack,
filtered on the traversal; the previous template and the sync points; and,
for a DELETE, the stack. If its trust or its project cannot be
deleted, the last stores the whole copy once more, unfiltered, as FAILED, and the stack stays
(`_delete_credentials`).

A step is at most one write of a row that others write too, with three
exceptions: a `sync()` call is one step; `_acquire`'s read and write are one,
since a refused write and a refused lock both end the check; and the rows and the
sync points of a traversal are made in one step each. Left out: `needed_by`,
which decides nothing; the stack timeout; adopted stacks, hooks and external
resources; retries of a creation in error; child stacks; the steal of a row lock
and engines that die (`ResourceLock`).

What is checked here holds only if some windows between two database calls are short.
`Quick` names the labels at which a thread goes on before any other does, so
each run says which windows it holds shut, and the open ones (all the others,
among them the whole of a plug-in's work, the wait between any two reports to
sync points, between failure and rollback, between completion and purge) are
interleaved freely. That they are short is an assumption about timing and not a
fact of the code. Opening a window of the table breaks a property of one of the runs that
hold it shut (`begin` stays shut in the second run for its size only), and
"hazards" in `PROJECT.json` names the line. `CompleteMeansInService`,
`RequirementsFirst` and `NothingLeaks` depend on them from the second traversal on only:
for the first they are proved with every window open (`FirstTraversalCompletes`,
`FirstTraversalInOrder`, `FirstTraversalKeepsTrack`). `RequirementsFirst` and `Finishes`
are checked, and claimed, for one request after the creation only; a second one breaks
each of them (see "Other disagreements").

| window | held shut in | opened, what goes wrong |
|---|---|---|
| load of a row to its lock (`lock`) | both | created twice, the first physical resource forgotten (see "Other disagreements") |
| lock to first store (`begin`) | both | an update draws its graph without the consumer being created: A deleted before B |
| end of the lock to the link of the replacement (`replace`, `link`) | both | one row is replaced twice |
| reads of the rows to the store of the graph (`rows`, `graph`) | both | a retrigger asks an old graph: COMPLETE with a resource missing; with rollback, a leak |
| store of the traversal to those reads (`drop`) | both | a retrigger asks the former graph: a resource is made before what it now requires, and COMPLETE without that (see "Other disagreements") |
| load of the stack to the new traversal (`converge`) | with rollback | cached rows are written back, a resource in deletion counts as existing |

### DependencyTaskGroup

`graph` and `runner` are `_graph` and `_runners`; `pc` is the place in
`__call__`: its loop over the tasks that are ready, its `yield`, its loop over
those that run. `left` holds the keys the loop has not visited; both loops visit
them in no given order, as the dictionaries they run over do. `Start` and
`Step` are `TaskRunner.start` and `step` with what the coroutine does: it yields a
period, returns, raises, or is ended by something that is no `Exception`.
`Fail` is the `except` clause for exceptions, with the cancellation of
everything, at once or with grace (`TimedCancel`), or of what is downstream in
a group that aggregates. `_graph` is a `defaultdict`, and `Without` keeps what
follows from that: deleting a key whose dependant has gone brings the dependant
back as an empty node. `Resume`, `Throw` and `AbortGroup` are the driver.
No exception is thrown into a group that aggregates: only `check()` of a stack
makes one and its driver throws nothing (the clause would cancel what the last
loop left in its variables, see "hazards").

### L3Agent

`db`, `version`, `agent` and `notes` are the server: the version of each router,
0 when it is not this agent's, what the agent counts as, and the notifications
on their way. `queue` is the priority queue, a bag of updates with their
stamps; `master`, `backlog` and `stamp` the class variables of
`ExclusiveRouterProcessor`; `work` what each thread of the pool does. Green
threads switch only where they wait, so a step reaches from one wait to the next:
`Take` from the queue to the first wait (handing the update over if the router
has a master), `Answer` to the data of the server, `Process`, `Removed`, `Reject` the
commands of the host and everything after them up to the next update's
first wait (`Done`, `Proceed`). The failures are `FetchFails`, `ProcessFails`
and `RemoveFails`. `SyncStart`, `SyncIds`, `SyncChunk`, `SyncEnd`, `Sweep` are
`periodic_sync_routers_task` with the namespaces it lists at its start and
clears at its end. `Restart` keeps nothing but the namespaces of the host.

Stamps are readings of one clock; two readings with a wait between them are
taken to differ. Only their order matters, so `View` replaces each by its rank.

`BridgeMissing` is the early return of `_process_router_if_compatible` when the external
bridge is not there: nothing is done, and the update counts as processed. `SetBack` sets
the host's clock back.

The code does lose changes, and three variables that no step depends on say which,
so that `NoLostUpdate` and `Converges` except these routers and no others:

| variable | who gets in | who gets out | lines |
|---|---|---|---|
| `unheard` | routers changed while the agent seems dead, which is not notified | when it hears of its revival, or reads the lists of the server | `l3_rpc_agent_api.py:55` |
| `missed` | routers passed over for want of a bridge; routers that came back while the first synchronisation clears the namespaces it listed at its start | when the router is processed again | `agent.py:430`, `namespace_manager.py:86` |
| `lost` | those unheard of when the answer that tells of the revival is lost, or comes while a synchronisation reads, whose end clears `fullsync`; all routers, or those in hand, when the agent is switched on or off meanwhile; all routers when the clock is set back | when a synchronisation starts with nothing of the router in hand, no stamp in the future, and the agent knowing of it or looking for it (`Orderly`) | `agent.py:624`, `agent.py:713`, `agentschedulers_db.py:98` |

### Rpc

The broker is external and modelled by what the driver relies on: `copies` is every
copy of a request it ever made, with the place it has reached (`at`), its server,
and whether the broker still holds it (`held`). A copy goes `queued`, `incoming`
(read by the listener), `acking` (its thread waits for the polling thread to
acknowledge), `acked`, `running`, `over`. A call is published with its timeout as expiration
(`impl_rabbit.py:1199`), and `Discard` lets the broker drop a copy of a call as long as it is
queued, before or after the client's own deadline; a cast stays. `Drop` is a lost connection: what was
not acknowledged is queued again, while the threads of the lost copies go on. `Die` is
the end of a process. `server` goes from `up` over `stopping` (the polling thread
empties its list) and `drained` (`process_in_background` serves the
acknowledgements) to `closed`, or is `stranded` when that thread dies of an
acknowledgement that raises. `cache` is `msg_id_cache`, filled when the
acknowledgement is done, read when a copy arrives. `Reply` and `Abandon` are the
answer with its retry while the reply queue is missing, `obsolete` the servers
that remember it as lost. A copy that was refused as a duplicate is acknowledged
(`impl_rabbit` rejects it and does not requeue).

## Runs

`CHECK_DEADLOCK FALSE` where the system stops when all calls or messages have
been dealt with; the task group says when it is over (`Finished`), so there
deadlock is checked.

| run | instance | shows |
|---|---|---|
| `sync` | predecessors p, q, r report once, the node is re-triggered once; three callers may die | the retry loop is an atomic rendezvous, each call ends, the node starts once |
| `resource_calm` | 3 workers in 2 engines, 3 messages, 1 rewrite without the lock (`needed_by` or the metadata), no faults | exclusion, the lock is kept |
| `resource_faulty` | 2 messages, one engine may die, both may answer late, 2 rewrites without the lock | a lock is orphaned by a write of the metadata in the middle of a release and by nothing else, every other lock is freed, messages die out |
| `stack_crash` | create, update, delete, start-up reset; both engines may die | exclusion across steals; but for what the creation stores without the lock, one writer, and settled when unlocked |
| `stack_slow` | update, suspend and delete; an engine may die, both may answer late | locks freed, calls end even then |
| `convergence_calm` | resources A and B requiring A, 2 workers; creation which may fail, then an update that replaces A and changes B, changes A, drops A or adds A under B, or a delete; no rollback; workers stop when cancelled | the last template wins: COMPLETE means in service, order of creation and of clean-up, nothing leaks, the stack comes to rest |
| `convergence_rollback` | the same resources; failures of creation and update with rollback, an update cancelled with rollback, a delete that overtakes the workers it cancels | nothing leaks |
| `l3` | one router, two threads, two versions of which one needs a foreign network; one trouble: a failed call or command, a bridge missing, a heartbeat overdue, a switch-off, a clock set back, a restart | a router has one thread; but for the routers named above no change is skipped and the host converges |
| `rpc` | a call and a cast, two servers that may be stopped, a listener that remembers one request; one trouble | nothing lost but by a death after the acknowledgement or the expiration of a call, nothing repeated without cause, everything ends |
| `task_group` | four tasks; a diamond, a chain beside a single task, a fork and a join that share a task; periods of one and two | order, outcome, end after an error |
| `resource_theft`, `rpc_stop` | the smallest instance that shows it | statements of a comment and a docstring that the code does not keep; see "findings" in `PROJECT.json` |

Why the bounds are enough. A conflict on a versioned row takes two callers; a
third lets two of them conflict with the winner and one be woken late. Three
workers in two engines give a pair in one engine and a pair across engines,
which the code tells apart. A steal needs a dead holder and two thieves. In the
stack model three or four calls put a holder, a thief and a bystander beside
each other; a delete and a reset are the only calls that act on the threads or
the state of others. In `Convergence` one edge between two resources gives each
kind of edge of the graph (template, clean-up, own update before clean-up, replacement);
two workers, one of each traversal, give a stale worker beside a current one, or two
current ones. A second later request is the cancel; update after update, and
a third worker, are too large to check in minutes. `fragile` and `plain` are
the same template, so that plans with and without failing creations stand side by side.
In `L3Agent` two threads make a master and one that
hands over; one router suffices since the queues, stamps and namespaces of routers
touch each other only in the order of the queue and in the chunks of the
synchronisation, where any further router may come before or after. More routers, threads
and troubles are left to the proofs, which cover the safety properties for any number of each. In `Rpc` two
servers make a copy that moves, two requests push one another out of a cache of
one, and one trouble is what each guarantee must survive. A diamond has a join
and a fork; four tasks leave one that is ready, one that runs, one that failed and
one downstream. Symmetry of the workers is used where no liveness is checked. Deaths are limited to one engine: an engine id never comes
back, so a restarted engine is another one. `UnlockedIsSettled` names
what leaves a stack IN_PROGRESS and unlocked: its creation, between its stores and the lock or
when it did not get the lock; and a delete that stopped threads. The thread that a delete
stops before it begins leaves the stack to the delete, which waits for it, and which may be
ended first: the engine of the stopped thread dies before it answers (`StopFails`), or a second delete
stops the threads of the engine in which the first one waits. The next engine that starts
resets such a stack.

## Fairness

Threads are green threads of a live engine: none waits for anything but the
database, an RPC answer with a deadline, or a bounded sleep, so each has weak
fairness on its own steps. Nothing obliges a user to call, `converge_stack` to
make a row, or an engine to die, and these steps have no fairness. An
operation in `StackLock` ends because `TaskRunner` gives it the stack's timeout.
`wait_then_delete` polls until its watch expires, so `Expire` is fair on its own.
In `Convergence` each worker, and each thread of a request that has begun, is
weakly fair in its own steps, and a call for cancellation arrives; a plug-in's work
ends, in success, failure or cancellation. `Prompt` says that cancelled workers end
within the fifteen seconds `_wait_for_cancellation` gives them; `Finishes` needs
it, because a delete that goes on meets a locked row, drops that message and
relies on a worker that was cancelled and tells nobody.
In `L3Agent` each thread, the synchronisation, heartbeats and the arrival of
notifications are weakly fair, and nothing that changes the database or fails is. In
`Rpc` deadlines pass, request threads and polling threads go on and a stop that
has begun goes on (`Timeout`, `Step`, `Drain \/ Close`, each as a whole: there
are finitely many copies to work on); that the broker delivers and methods return is part of
`Step`, as `EverythingEnds` speaks of calls that returned. Nobody need send or stop. The task
group is driven until it is over, as `TaskRunner.run_to_completion` does, and
each period of grace ends; a task may yield for ever.
In `ResourceLock` fairness is per worker on taking or handling a message: an idle
thread of a live engine takes a waiting message.

## What is proved

TLAPS checks, for any sets of keys, calls, engines and workers:

* `SyncPointProof`: all safety properties of the sync point and that it
  implements `Rendezvous`. The inductive invariant says that a call holds a
  version not newer than the row's; that equal versions mean equal data
  (`VersionGuardsData`); and that whatever stands in a copy was written by a
  call made under that key. `OnePredecessorNotifies` needs the order of
  notifications besides: a notifier's own data contain the arrival of any that
  finished before it.
* `ResourceLockProof`: type correctness; `OnlyMetadataOrphans` under all faults: a lock
  that has a thread to free it (`LockHasHolder`) keeps it through every step but a
  `MetadataSet` that falls between the two halves of a release. The argument is that
  a thread about to release has read the row's present key, that a `Touch` needs an unlocked row, and
  that a steal leaves a lock to nobody or to the thief; and, with engines that
  live and answer (`Mortal = Slow = {}`), `MutualExclusion` and
  `OnlyTheDeadLoseTheirLock` from the invariant that a thread between acquire and
  release is the one the row names.
* `StackLockProof`: type correctness; `LockHasHolder` under all faults; and, with
  timely answers (`Slow = {}`), `MutualExclusion` and `OnlyHolderWrites` (the holder, or
  the second store of the creation), for any engines that die. The lemma `StepShape` sorts the steps into those that leave
  the lock alone, take it and free it, and the invariant is preserved by sort.
  `UnlockedSettles` states `UnlockedIsSettled` under the same assumption, whichever engines
  die and however many calls there are: what a stack left IN_PROGRESS and unlocked can be
  is the creation's store made without the lock, or what a delete has stopped. The
  inductive invariant says what each thread will have settled when it frees the
  lock (`MineInv`: an operation that runs still has something to store, one at its callback
  has stored it, or will with the release, or was stopped before it began and
  its stopper waits, or the creation has written over it: `Late`), and `SettledInv` joins
  that to who holds the lock.
* `RpcProof`: type correctness, `NoRequestLost` (but for deaths after the acknowledgement and expired
  calls) and `AtMostOnce`, for any number
  of servers, requests and troubles. The inductive invariant adds three facts:
  the broker holds a copy only until it is acknowledged (`CopiesAreInPlace`), so
  that what is put back was never dispatched; a listener remembers only what
  was dispatched (`CacheIsOfRuns`), so that a refused duplicate is no loss; and
  dispatches are counted by copies of their own (`RunsAreCopies`). The steps are
  proved by what they do to the sequence of copies: `OneChanges` and
  `MoreAreAppended` say that copies keep their request and go on, `EvidenceStays`
  that a request is safe if each copy in hand has a successor in hand.
* `L3AgentProof`: type correctness and `ExclusiveProcessing`, for any routers,
  threads and troubles. `ExclusiveProcessing` says nothing of the updates
  in a backlog, but a master goes on with them: the inductive invariant `Owned`
  adds that they are of the master's router (`BacklogIsOfRouter`) and that a
  router has a master only while that thread is busy with it (`MastersWork`). The lemma
  `ProceedOwned` shows it for a thread that goes on to its next update or gives
  the router up, and every step of a thread ends in that.
* `L3AgentLossProof`: `NoLostUpdate`, which excepts only what stands in `unheard`, `missed` and `lost`,
  for any routers, threads, troubles and restarts, and with every race let in. All the
  agent keeps about a router is gathered in its `Line`: its updates in the queue
  and in the backlog, what its master does, stamp, host, notifications and what
  the synchronisation holds of it. A step changes a line in one of a few ways,
  each a lemma about two lines (an update is told, queued, taken, skipped, done;
  the synchronisation starts, reads, ends), and one lemma per action says which.
  `NoLostUpdate` itself is `Kept`; it is far from inductive, since a stamp can only be
  trusted to skip what something newer repeats. So `LineInv` adds that nothing
  older than a fetch comes after it (`Ordered`), that fetches share their stamp
  with nothing else (`Distinct`), that a delete of a router that is wanted, or data
  that are no longer the server's, have a newer update behind them that puts the router
  right (`DeletesOutrun`, `DataOutrun`), that a synchronisation which has passed
  the router has queued what it read (`Caught`, `CurrentInLine`, `Repaired`), that
  a namespace nobody knows of has something under way that accounts for it
  (`Accounted`). It holds of the lines of all routers outside `lost` (`NoLoss`); that a router
  leaves `lost` with a line that satisfies it again is `SyncStartsAnew`. TLC checked
  each part before it was proved.
* `ConvergenceProof`: type correctness, and what the first traversal promises, for any
  templates, workers, requests and failures. Type correctness has to bound each copy
  a thread keeps: what it loaded was made from the rows and traversals of then, and
  there are only more of them now (`Rising`); that the copies its next label needs are
  there (`Equipped`); and that what a worker is about to begin is what it decided when
  it took the lock (`Resolved`), without which the row it writes has no definite shape.
  The second part is about the first traversal of a stack, until a later request or
  a rollback begins another (`FirstTraversal`). `FirstTraversalCompletes` states
  `CompleteMeansInService` for it, `FirstTraversalInOrder` states `RequirementsFirst`
  and `FirstTraversalKeepsTrack` states `NothingLeaks`, for any templates, workers and failures, with no window of the table shut,
  and whatever requests are under way that have not begun a traversal. The
  inductive invariant is `Creation`: the stored graph is the template's (`Charted`); a
  row has one message or one check at most (`Single`, `Mails`); the row and the physical
  resource are what the check takes them for (`Stage`); whoever stands in a sync point is in
  service (`Reports`); and when the check of a row has been asked for, whatever the row requires is in
  service and has reported (`Joins`), so that only the report that completes a sync
  point posts, and does so once. That the roots suffice for COMPLETE is
  `RootsSuffice`: if some rows were not in service, one of them would be required by none
  of these, since the template has no cycle; it is no root, so a row in service
  requires it, and by `Joins` it is in service itself. For `NothingLeaks`, `Known` adds that
  a row in INIT stands for nothing and that a worker at work knows what its row stands for;
  it needs `Single`, which keeps a row from being worked on twice and a physical resource
  from being written over. TLC checked `Creation`, on the
  templates of the runs with failures, rollback and later requests and no window
  shut, before it was proved.
* `DependencyTaskGroupProof`: every safety property, for any tasks and any plan,
  cyclic ones included. Order rests on three facts (`Ordered`): what a task that may
  still start waits for has returned or stands in the graph at both ends of the
  edge (`Waiting`), so that deleting nodes and making them anew cannot make it
  look ready; a key outside the graph has started or never will (`Outside`); and
  once a task has failed or is cancelled, or is given grace, all that require it
  are past starting (`DoomSpreads`), so that it may leave the graph. The outcome
  rests on `Truthful`: who raised is in the list, grace is given only after an
  error of a group that does not aggregate, and whatever is done without having
  returned has a reason that was raised.

Only model-checked: liveness (`EveryCallEnds`, `CompleteIsPropagated`,
`LocksAreFreed`, `Quiesces`, `Finishes`, `Converges`, `EverythingEnds`,
`AnErrorEndsTheGroup`), because fairness and ENABLED are beyond the prover;
and, of `Convergence`, once a second traversal has begun, `CompleteMeansInService`,
`RequirementsFirst`, `NothingLeaks` and `ConsumersFirst` (the first traversal cleans up nothing).
These depend on the plan: each fails for some other templates, windows or number of
requests (see the table of windows and "Other disagreements"), so they are no
theorems for every value of the constants.

The constants' assumptions are typing assumptions; that `None` is no number and
no thread; that a template has finitely many resources (each a parsed document);
that no template has a cycle (`AcyclicAssumption`: `Stack.validate`, `stack.py:828`, and
`_update_or_store_resources`, `stack.py:1377`, go through the dependencies in order, and
`toposort`, `dependencies.py:150`, raises CircularDependencyException); that requests and messages
have threads of their own (`ThreadsAssumption`); and that a stack is created by a
single call (a second one gets another id).

## What is not modelled

Wording of reasons and events, notifications, quotas and limits of the API,
profiling, encryption. One database transaction is one step: `oslo.db` retries
deadlocked transactions as a whole. Which resources an operation touches is left
out of `StackLock`; nested stacks are stacks of their own there. Check, snapshot,
restore and abandon take the stack lock exactly as suspend does. What `Convergence`
leaves out is listed with it. `DependencyTaskGroup` has no tasks that drive others
(`wrappertask`), no sleeping and no `Timeout` a task swallows. `L3Agent` has no prefix
delegation, HA or DVR states, floating addresses and metadata proxies; what a
failed removal leaves behind and nobody repeats is excused by its properties, as
the code promises nothing there (see "hazards"). `Rpc` leaves out notifications,
fanout, topics of a single server, batches, requeueing by the application, the
blocking executor and the other drivers.

The remaining components of the inventory are not modelled yet. Most of the
repository's lines are drivers, API plumbing, database queries and tests, which
have no coordination to model; the models stand for the few thousand lines of
coordination they map.

## Other disagreements

Met while modelling, each a run one can repeat with the properties that the
modules state; none is among the runs.

* Two convergence workers that loaded the same resource before either locked it
  both create it: `CreatedOnce` of `ResourceLock`, two workers and two messages,
  no faults. The lock is taken on a fresh `atomic_key`, the action is chosen on what was loaded.
* A forced delete of a stack from the engine that holds its lock never ends:
  `EveryCallEnds` of `StackLock` with an update and a delete in one engine. The
  `stop()` waits for the caller's own thread.
* An engine that starts between the store of a new stack and its lock stores
  "Engine went down during stack CREATE" though none did: `ResetTellsTheTruth` of `StackLock`
  with a create and a reset in the other engine, no faults.
* An update that drops a resource not yet created, cancelled with rollback, ends
  COMPLETE without it: `CompleteMeansInService` of `Convergence` with
  `Plan(plain, dropping, "rollback")` and no failures. The row made during the rollback has
  action ROLLBACK, which no message creates.
* A delete that failed, of a row that is wanted again: `_needs_update` raises
  UpdateReplace for the FAILED row and `make_replacement` (`resource.py:373`) writes status
  COMPLETE next to action DELETE, so `purge_db` drops the row and the resource stays:
  `NothingLeaks` of `Convergence` with `Plan(plain, dropping, changing)`, a delete that
  fails and no rollback.
* A message of a former traversal about a replacement that a later one made, and
  whose graph does not know it as an update: `_retrigger_replaced` (`worker.py:128`)
  marks the replacement DELETE_COMPLETE though nothing deleted it, and its resource
  stays: `NothingLeaks` with three later requests (replacing, changing, dropping), no failures.
* What a resource that is kept requires is written only when its lock goes
  (`update_tmpl_id_and_requires`); a traversal that reads the rows before that orders its
  clean-up by the old requirements: `ConsumersFirst` with three later requests.
* `converge_stack` stores the new traversal id (`stack.py:1248`) before its graph
  (`stack.py:1270`). A worker whose resource failed in the former traversal and that loads
  the stack in between retriggers the resource by the old graph; if it required less
  there, its message goes out before what it now requires is there: `RequirementsFirst`
  and `CompleteMeansInService` with `Plan(dropping, replacing, None)`, where the creation
  of B in `dropping` fails, and only the window `drop` open.
* An update that is authorised while A is being created reads A's row, and writes that copy
  back after the one that followed it has deleted A: `RequirementsFirst` with
  `Plan(plain, changing, dropping)` and the windows of the first run shut.
* A delete that loaded the stack before an update took it over cancels the update's workers,
  is then not current itself and ends; nobody goes on with the update: `Finishes` with
  `Plan(plain, changing, "delete")` and the windows of the first run shut.
* `metadata_set` (`objects/resource.py:270`) moves the `atomic_key` of a row whoever has locked it.
  Between the read and the filtered write of a release (`resource.py:1824`, `1833`) it makes
  the release fail, and the lock stays with an engine that lives and has no thread for it:
  `LockHasHolder` of `ResourceLock` in the run `resource_faulty`, which therefore excepts it.
* A creation stores its whole copy of the stack once more after it went to keystone
  (`stack.py:1975`), without the lock and without a filter. What another call stored
  meanwhile, such as a start-up reset, is written over: `OnlyHolderWrites` and
  `UnlockedIsSettled` of `StackLock` except it by name.
* A router whose external bridge is missing is passed over with a line in the log
  (`agent.py:430`), the update counts as processed (`agent.py:532`) and nothing repeats it when
  the bridge is there: `missed` of `L3Agent`; the other changes the agent loses are in the
  table there.
* The docstring of `RPCClient.call` (`rpc/client.py:426`) says a request is done
  "at-most-once" and "will never be duplicated"; a publication that is repeated, or
  a connection lost before the acknowledgement, each add a dispatch. The bound that
  does hold is `AtMostOnce` of `Rpc`.

## Plan

Done: sync points, row locks, the stack lock, convergence, the task group, the L3
agent and RPC, each with its proofs. Next, in this order:

1. Proofs: `NothingLeaks` and `CompleteMeansInService` for the second traversal, with the
   windows of the first run shut.
2. `Convergence`, continued: an abstract specification `Traversal` (a stack works
   towards its last accepted template) which it implements; engine death with the
   steal of the row lock; the stack timeout; the cancel without rollback.
3. `Dependencies`: the topological order and cycle check against reference
   definitions.
4. Libraries: `taskflow`'s engine with revert and resume, `oslo.concurrency`.
5. Siblings of the same problems: quota reservations of `neutron` and `cinder`,
   `nova`'s claims, `ironic`'s node reservation, `senlin`'s locks.

Each step keeps the order: component with type invariant, MC module with small
instances, the properties that answer its hazards, then the proof module.
