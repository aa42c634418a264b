# test_orch in TLA+

test_orch runs hardware and emulation tests as containers on a fleet of worker
hosts. A FastAPI backend accepts test bundles and picks a host; a Celery worker
on every host runs the container; PostgreSQL holds the inventory, the accounts
and the executions; RabbitMQ carries the work, the logs and the status replies;
InfluxDB keeps the logs. These modules model who may start a test, what is
asked of it, where it runs, what becomes of it and of its log, and what the
admin sees of the fleet, with the faults the code is written against.

## Inventory

| Component | State | Operations | What makes it correct | Modelled in |
|---|---|---|---|---|
| Placement (`services/scheduler.py`) | none of its own: rows of `worker_hosts`, row locks | `dispatch` | a reservation goes only to a host that qualifies, ranks first and has room, when it commits | `Scheduler`, `Submission` |
| Submission (`main.py` `submit_test`) | the request thread and its session | submit, record the outcome | every request is answered; the row ends in what happened | `Submission`; the form and the account in `Frontend` |
| Admin edits (`main.py` `update_host`) | – | one update of a host | never changes a row a dispatch has decided on | `Submission` |
| Maintenance (`services/maintenance.py`, loop in `main.py`) | hosts just marked | sweep hosts, fail their runs | dead hosts go offline, nothing stays in flight on them | `Maintenance` |
| Worker task `run_test_bundle` (`worker/tasks.py`) | pool process, container, the row | run, verdict, cleanup, decrement | a container is removed, a message is finished or redelivered | `Worker` |
| Worker tasks `publish_heartbeat`, `reap_stale` | count, scanned rows | write the host's row, fail stuck runs | the counter returns to the live count; a hung run is failed | `Worker` |
| Docker engine (`worker/docker_engine.py`) | one container per test name | start, follow, count, remove | none is left behind | `Worker` |
| Broker and Celery | one queue per host, unacknowledged deliveries | deliver, acknowledge, redeliver | one copy of each message | `Store`, `Worker` (external), `LateAck` |
| Log of a test (loop of `run_test_bundle`, `influx_client.py`; `main.py` `ws_logs`, `_consume_fanout`) | points, index rows, fanout exchange, temporary queues | store, publish, index a line; open, follow, leave a page | the records agree, a page shows every line once and in order, a dead page is closed | `LogStream` |
| Admin poll (`main.py` `ws_admin`, `_PollState`, `_consume_fanout`; `report_status`) | generation, consumer, timer, latch | poll, bind, ask, render, conclude | no cross-rendering, one sentinel, every poll concludes | `AdminPoll` |
| Accounts and sessions (`auth/ldap_auth.py`, `login_submit`) | `users`, `user_sessions`, cookies | log in, resolve a cookie | one account per engineer, no run on an expired session | `Sessions`, `Frontend` |
| Bundles (`shared/schemas.py`, `shared/validation.py`, `worker/translation_layer.py`) | – | build, check, rebuild, write the configuration | what is accepted can be read and runs as asked | `Contracts`, `Frontend` |
| Host statistics and their row (`shared/host_stats.py`, `status_render.py`) | – | collect, check, render | no reading silences a host, the table is true | `Contracts`, `Frontend` |
| Artifact uploader, Quali client, settings, HTML, example bundle | – | – | – | not modelled (see the end) |

The components meet in three places. The **database** is shared by everything:
the backend's threads and the worker processes read rows, compute and write
absolute values. The **queues** carry `run_test_bundle`, the periodic tasks and
`report_status` of a host through the same pool of processes. The **event
loop** of the backend runs the admin poll's handler, its consumer and its timer,
which interleave at every `await`; each log page adds a handler and a consumer.

The hard behaviours: counters written from three sides (dispatch, decrement,
heartbeat) without a common lock; a status column written by four writers in no
fixed order; late acknowledgement, so that a crash reruns a test that may have
finished, while the lone death of a pool process reruns nothing; periodic tasks starved by the tests they supervise; replies, timeouts
and re-polls racing over awaits; three records of every log line written without
a transaction; two first logins of one engineer. `PROJECT.json` lists each at its line under
`hazards`.

## Modules

    Store -> Scheduler -> Submission --+
                      |-> Worker ------+-> Orchestrator -> Claims ------+-> MCOrchestrator
                      \-> Maintenance -+        |       -> Refinement --+
                                               |          (of LateAck)
                                               +-> TypeProofs -> PlacementProofs
                                                             |-> DeliveryProofs
                                                             \-> ContainerProofs
    Refinement, DeliveryProofs -> RefinementProofs
    AdminPoll -> MCAdminPoll, AdminPollProofs
    LogStream -> MCLogStream, LogStreamProofs
    Sessions, Contracts -> Frontend -> MCFrontend, FrontendProofs

**Store.** `workerHosts`, `registered` and `executions` are the tables
`worker_hosts` and `test_executions`; `lock` is the dispatch that holds the
inventory `FOR UPDATE`; `queue[h]` is `queue_<host_id>`. `routed`, `acked` and
`abandoned` (the tests whose task was cut off before its `except` and `finally`)
are history variables for the properties. `Touch` is SQLAlchemy's unit of work:
only changed columns are written, and `updated_at` moves only then.

**Scheduler.** `PassesFilter`, `WorkloadScore`, `Precedes`: `_passes_filter`,
`_workload_score` and the sort with its tie-break on the order of hosts.

**Submission.** One request per test, `req[t]`, from the PENDING row to the
recorded outcome. The program counter names the points between two database or
broker calls. `seen` is the counter the session remembers: sessions are created
with `expire_on_commit=False`, so the re-read after a failed send (`db.get`)
returns the object in memory and `UndoReservation` writes the remembered value
minus one. After a failed commit the rollback does expire it, so `RefetchHost`
reads the table. An error of the locking query leaves an aborted transaction
behind and the handler's last commit fails (`DispatchError`).

**Worker.** `task[p]` is what pool process `p` is doing: a delivery
(`msg`, `valid` while the broker still accepts its acknowledgement), where the
task function is, and what it has read (`val`, `rows`). `container[h][t]` is the
container named after the test. The actions follow `run_test_bundle` in order:
preamble (`RunBegin`), start, log stream, verdict, `except`, cleanup, decrement
(a read and a write), acknowledgement; each `...Fails` is the exception of that
statement and goes where Python takes it, so an error before the `try` skips
both `except` and `finally`. `Beat` puts a periodic task in the queue,
`Deliver` hands any message to a free process. `Crash`, `Restart` and
`ConnectionLost` are the worker's whole process tree and its broker connection:
both give unacknowledged messages back. `ProcessDies` is one pool process dying
alone (out of memory, killed): `celery_app.py` does not set
`task_reject_on_worker_lost`, so the surviving parent acknowledges the message of
the task it lost, and row, container and counter stay as they are.

**Maintenance.** `SweepRead`/`SweepMark` and `SweepQuery`/`SweepFail` are the
two transactions of `run_maintenance_sweep`, each read apart from its write; the
second only looks at the hosts the first marked. `SweepAborts` is an exception
anywhere, which the loop in `main.py` logs and survives.

**Orchestrator.** Composes them, adds `Tick` (time) and `BackendCrash`, states
fairness and the properties. Stamps are ages in ticks, counted up to one past
the comparison that reads them.

**LateAck** and **Refinement.** What late acknowledgement promises, without
pools, containers or faults: a message is `unsent`, `queued` at one host, `held`
there, or `done`; a host whose worker or connection dies gives back everything
it holds, while the lone death of the process that holds a message finishes it. `Refinement`
reads the four stages off the broker's state: `unsent` until it is routed,
`queued` while it is in its host's queue, `held` while a process holds a valid
delivery, `done` once acknowledged; anything else would be `lost`, which `LateAck`
does not know. `ImplementsLateAck` is `LateAck`'s specification under this mapping.

**Claims.** What documents and docstrings say and the code does not do.

**AdminPoll.** One `/ws/admin` socket. A step is the code between two awaits.
`handler` is where `ws_admin` is, `task` the consumer and the timer of each
poll, `pollState` the `_PollState` objects, `link` whether the temporary queue is
bound and `inbox` what waits in it, `screen` what the browser shows. A reply is
taken, rendered and then counted; one whose body is not JSON renders to nothing,
is not sent, and is counted all the same (`ConsumerTakeBlank`). A lost connection
takes the exclusive queue along (`ConnectionDrops`) and `connect_robust` restores
it, empty, with the consumer task alive (`ConnectionRestored`); a consumer
that cannot connect, or whose acknowledgement or send raises, is dead for good
(`ConsumerDies`). `IsCurrent` is written as the code evaluates
it: `_is_current` is defined in the loop body and closes over the *variable*
`my_gen`, which the next poll overwrites in the same step as
`generation["current"]`, so for every closure of every poll it is true. The
same holds for `state` (`StateCell`). What keeps an old poll quiet is
`_cancel_inflight`, which runs before the new generation is minted: the proof
below rests on it alone, and the variant `CancelTimerOnly`, where the consumer
survives, cross-renders although the generation guard is there.

**LogStream.** One test and the pages that follow it. The worker's loop is one
action per statement that can fail: `WriteLine` (InfluxDB, synchronous),
`PublishLine` (the fanout exchange), `IndexLine` (the `LogLine` row of every
`LOG_CHECKPOINT_EVERY`-th line). An error of any of them goes to the `except` of
`run_test_bundle`, and may have been carried out all the same: `WriteFails`,
`PublishFails` and `IndexFails` choose both. `WorkerCrash` puts the message back
and leaves the container, so the next execution is refused its name, and
`ProcessDies` ends the test where it is, as in `Worker`; `run` tells executions apart, which the code's `line_no` does not.
A page is a handler (`check` its consumer, `wait` a second for the browser) and
a consumer. `Fanout` copies a line to the queues bound at that moment.
`ConsumerReconnects` is `connect_robust`: the exclusive queue is declared again,
empty, and what is published in between is not shown. Messages are known by their
position in `published`, so that order and gaps can be stated.

**Sessions.** Every login is a request with its own database session, at the
points between directory, query, flush and commit. What a transaction has
inserted is invisible to the others, but the unique index on `username` is not:
`AddUser` waits while another uncommitted account has the name (`Inserting`), is
refused (`AddUserRefused`) if that one commits, and goes on if it rolls back.
`Resolved` is `resolve_session`. A client may keep a cookie beyond its `max_age`.

**Contracts.** Pure functions. The bundle from the form to the configuration
file: `SplitTags`, `FormBundle`, `ValidBundle`, `FromDict`, `GetRunnerRaises`,
`WriteConfig`. A text is a word and whether white space surrounds it, which is
all that `strip`, truth and comparison tell apart. The statistics from psutil to
the row: `Collect` clamps and rounds, `Plausible` is what `HostStats` asserts,
`StatusRow` rounds again. A reading is a whole number of grains, the unit its
source counts in (kernel memory in kB, a disk in blocks); how many of them
make a percent, a MB or a GB is a constant (`PerPercent`, `PerMB`, `PerGB`), so
that every rounding, half to even, is of an exact fraction.

**Frontend.** Composes the two: log in, submit, rebuild the bundle on the worker
and write the configuration; report and show a host's statistics. One test and
one message at a time, as neither side keeps anything between messages. `asked`
and `reading` remember what was put in, so that the far end can be compared.

Definitions marked *Variant* are faulty versions of the action they precede (a
dropped lock, a missing cleanup, a stale count). No specification uses them; they
are there to show that each property notices the fault it is meant for
(`mutants` in `PROJECT.json` says which property rejects which variant).

### Modelling decisions

- READ COMMITTED and absolute writes. A transaction whose written values do not
  depend on an earlier read is one step; otherwise reading and writing are
  separate steps. Only `dispatch` locks, and a write to a locked row waits
  (`Unlocked`). A heartbeat that waited for a lock has the same effect as one
  that comes after the dispatch.
- Queues are sets, so messages of one host are taken in any order. This
  over-approximates RabbitMQ's order for safety; strong fairness of `Deliver`
  stands for it in liveness. At most one copy of each periodic task waits: further
  copies do what the first does.
- A container's test passes, fails with the stream, or never ends.
- The rejected form of `submit_test` writes nothing and is left out. In
  `Submission`, bundles are records of the three fields the scheduler reads; in
  `Frontend` they are whole.
- In AdminPoll a reply published and the request's acknowledgement are one state
  (`handled`); `WorkerCrash` is the redelivery between them. A failing send to a
  browser that has gone is `Disconnect` in the handler and `ConsumerDies` in the
  consumer. `send_task` is a call to the broker within the handler, and may raise
  after some of the hosts (`DispatchFails`), which ends the handler and the socket.
- A run in `LogStream` has no database error outside the index: the other status
  writes and their failures are in `Worker`.
- A database or broker call that raises may have been carried out: the commit of
  the reservation, the send of the message, the RUNNING update and the verdict have
  both outcomes (`CommitFails`, `PublishFails`, `RunBeginFails`, `RunFinishFails`).
  Elsewhere an error after the effect equals a sequence the model has: the step
  without the error, and then the failure of the next one or a lost answer.
- The read and the UPDATE of a heartbeat are one step. In between the ORM would
  leave out columns equal to what it read; the next heartbeat writes them,
  and the decrement, the undo and the sweep have the interleavings of a stale read.
- `reap_stale`, `publish_heartbeat` and `report_status` that die with their pool
  process are as if they had failed: their message is acknowledged.
- History variables are not part of any guard.

## Runs

All on small instances; each answers one question. States are distinct states.

| Run | Instance | Shows |
|---|---|---|
| `placement_edits` | 1 host, 2 tests of an unknown runner (one needs a tag and emulation, the other nothing), 2 admin forms, heartbeats, sweep, one failing send (820k states) | `PlacementSound`: nothing gets between the locking SELECT and the commit; `RequestsComplete`: the dispatch that waits for the lock of the other gets it, and both end with an outcome |
| `placement_rank` | 2 hosts with one slot each, 1 test, CPU 0 or 30, heartbeats on both (1.95M) | `PlacementSound`: the ranking still holds at the commit |
| `faults` | 1 host, pool of 2, both periodic tasks, one fault of any of the eight kinds (1.12M) | `TypeOK` (with the counter's floor at zero), `ExactlyOneCopy`, `ActiveRunsAreFindable`, `RunningIsAttended`, `LocksAreReleased`, `ImplementsLateAck` |
| `progress` | 1 host, one process, both periodic tasks, one failing database step, failing send, crash or lone death of the process (112k) | `ContainersCovered`, `HungRunIsReaped`, `GaugeConverges`, `PublishedIsFinished`, `DeadHostGoesOffline` |
| `live_host` | 1 host, pool of 2, both periodic tasks, tests may hang, no fault (178k) | `HungRunIsReaped`, `GaugeConverges` |
| `admin_poll` | 2 hosts, 2 polls, any subset of hosts asked, one fault of five kinds: connection, send, body, report, worker (214k) | `NoCrossRender`, `SentinelOnce`, `SentinelCountsRows`, `RepliesFindTheQueue`, `TimerWillConclude`, `PollConcludes` |
| `log_stream` | 3 lines, every second one indexed, 2 pages, one fault of five kinds (379k) | `HistoryLeads`, `PassedIsComplete`, `PageFollows`, `DeadPageCloses` |
| `frontend` | 2 engineers, 2 browsers, 2 sessions, sessions of one tick, six forms, one reading, one database error or crash (638k) | `FrontendTypeOK`, `OneAccountPerEngineer`, `WaitsForOneCommit`, `RunIsAccountable`, `AcceptedIsReadable`, `RunsWhatWasAsked`, `EveryReportShows`, `TableIsTrue`, `LoginEnds` |
| `claim_max` | 1 host with one slot, 2 tests, no fault | two containers run: a heartbeat erased a reservation |
| `claim_settles` | 1 host, 1 test, no fault | DISPATCHED overwrites the verdict for good |
| `claim_dead_only` | 1 host, one process, no fault, heartbeats whenever the pool can run one (`Prompt`) | the sweep takes a saturated live host for dead |
| `claim_stranded` | 1 host, one crash | a run recorded DISPATCHED after the sweep of its dead host stays so |

The last four are disagreements between the text of the repository and its
code; `findings` in `PROJECT.json` quotes both sides. Deviations that are in the
model but have no run of their own:

- The counter may drift up for one heartbeat period (a count taken before a
  cleanup, written after the decrement); the undo of a reservation overwrites
  concurrent changes of it.
- `celery_app.py:28` comments `task_acks_late` with "redeliver if the worker dies
  mid-task". That holds for the worker as a whole; a pool process that dies alone
  has its message acknowledged, its row is left to the reaper and its container to
  nobody (`abandoned` in `ContainersCovered`, `RunningIsAttended` and
  `PublishedIsFinished`).
- The preamble of `run_test_bundle` can end a task without `finally`, although
  `tasks.py:182` says that it always cleans up.
- A row can stay PENDING after a database error or a death of the backend.
- The generation guard of the admin poll never fires.
- A reply that does not render is counted, so a sentinel can report more replies
  than its table has rows.
- With the broker out of reach of `send_task`, `ws_admin` ends with an exception
  and the poll has no sentinel.
- Totals in the table are rounded twice: 4.504 GB is 4.50 in the snapshot and 4 in
  the row.
- A redelivered `report_status` is counted twice, so "All runners responded" can
  be shown with one host silent (`config.py:25`: only if every host replies).
- A redelivered run starts its `line_no` at zero again: `read_lines` interleaves
  two executions where `influx_client.py:73` promises emission order.
- An error of the live view or of the index fails a run whose test is fine.
- The loser of two simultaneous first logins gets a 500.

### Bounds

- *One or two hosts.* Ranking needs two hosts; every other property is about the
  rows, queue and containers of one host, and hosts share nothing but the lock.
- *One or two tests.* Competing reservations need two; the life of one message
  and one container needs one, redeliveries included.
- *One or two processes.* Two let a heartbeat or a second execution run beside a
  test; one makes the pool saturate.
- *Timeouts of zero or one tick.* An age is only compared with its limit, so zero
  means "a tick without a heartbeat is too long"; `claim_dead_only` and
  `claim_settles` use one tick, and `claim_dead_only` with `Prompt` has no
  other cause for a late heartbeat than a busy pool.
- *One fault.* Every action of the system can be followed by the fault, and the
  behaviour after it is explored to the end. The proved properties hold for any
  number.
- *Two polls.* Cancellation concerns a poll and its successor; two hosts let a
  poll be half answered. The proofs cover any number of both.
- *Three lines, every second indexed.* A line that is indexed, one that is not,
  and one after it; two pages join and lose their queue independently. The proofs
  cover any number.
- *Two browsers, two engineers, two sessions, three ticks.* Two logins of one
  engineer or of two; a session can expire before its cookie is used.
- *Six forms, one reading.* Each form differs from a good one in one or two
  fields that some function branches on: white space, blank, missing, the other
  runner, tags with blanks between them, no device. The reading has a CPU above
  100 %, free figures at the ties of rounding (512.25 MB, 10.375 GB), a disk of
  12.504997 GB, which rounding twice shows as 12, a memory of 4096.7 MB, and the
  user table out of reach. Its grains are tenths of a percent, kB and blocks of
  4 kB; the proofs cover any reading of any grain, a CPU below zero included.
- `CHECK_DEADLOCK FALSE` in `admin_poll`, `log_stream` and `frontend`: a closed
  socket or page, a finished test and a spent clock stop.

### Fairness

- Threads, pool processes, the sweep loop and the clock take the steps they can
  take (weak fairness); the fault branches are excluded.
- The broker eventually hands out a message that is offered again and again
  (strong fairness of `Deliver`): its queue is first in, first out.
- No fault, no `Restart` (nothing in `docker-compose.yml` or the setup guide
  restarts a worker) and no admin action is fair.
- `TerminatingSpec` adds that tests end. `live_host` does without it; `progress`
  and the liveness claims state it, because nothing bounds a test but the reaper.
- `SubmittingSpec` has the submit handlers alone go on: the dispatches of
  `placement_edits` need no worker, timer or clock to end.
- LogStream: the handlers' loop and its one-second timeout. The worker, the
  consumers, the broker connection and the reader of the page owe nothing.
- Frontend: a login whose directory has answered goes on (`LoginProceeds`);
  nobody has to log in, and the directory need not answer. `LoginEnds` therefore
  says that waiting for another transaction's account always ends.
- AdminPoll: the event loop runs what can run, its timeouts expire, and `send_task`
  returns or raises. No consumer's connection and no worker is assumed to make
  progress, so `PollConcludes` rests on the bind timeout and the grace timer; it
  exempts a poll whose socket has ended, which is where a raising `send_task` leads.

## Proofs

Checked by TLAPS for all values of the constants that satisfy the named
assumptions (naturals for limits, `Bundle` of its type, names that do not
collide; nothing bounds hosts, tests, pools, faults, polls, lines, pages,
browsers, forms or readings).

- `TypeCorrect`: `Spec => []TypeOK`. Inductive as it stands. What is more than
  bookkeeping is `active_containers \in Nat`: `UndoReservation` and
  `DecrementWrite` write values computed earlier, and stay in the naturals
  because of the clamps in the code.
- `PlacementIsSound`: `Spec => PlacementSound`, an action property. The inductive
  invariant `LockProtects` says of a request between SELECT and commit: it holds
  the lock, its survivors still pass the filter, its host still precedes them,
  and the counter it remembers is the counter in the table. Every other writer
  either waits for the lock or does not touch what filter and rank read
  (`SameRow`).
- `NothingLostOrDuplicated`: `Spec => []ExactlyOneCopy`, with `DeliveryInv`:
  a test not yet published is routed nowhere (`UnsentUnrouted`). Acknowledgement,
  crash and lost connection are the three ways a delivery ends, each with a lemma.
- `ActiveRunsNameTheirHost`: `Spec => []ActiveRunsAreFindable`, with `RoutedInv`:
  every process that works on a test is on the host its message was routed to,
  and so is the handler about to record DISPATCHED.
- `DeliveryImplementsLateAck`: `Spec => ImplementsLateAck`. Under `DeliveryInv`
  every test has exactly one stage, so a step is described by the one test whose
  stage it moves: the send, the delivery and the acknowledgement are `Send`,
  `Take` and `Finish`; so is the lone death of a process, which is a `Finish`; a
  crash and a lost connection are `GiveBack` of one host;
  every other action keeps queue, deliveries, `routed` and `acked` and is a stutter.
- `InventoryIsUnlocked`: `Spec => []LocksAreReleased`: a dispatch holds the row
  locks exactly while it is between its SELECT and the end of that transaction.
  Inductive as it stands; each way out of the transaction (commit, failed commit,
  failed query, death of the backend) gives the lock back in the step in which
  the request leaves `reserve`. With it, whoever waits for the inventory waits for a request
  that waits for nobody.
- `NoContainerAbandoned`: `NoAbandoningFaults /\ Spec => []ContainersCovered`: a
  container is watched by a process that will clean it up, or its message is
  queued and the next execution will, or its test is in `abandoned`. The
  strengthening says why (`Accounted`): a container nobody attends to was left by a
  crash, and a delivery that will find it is on its way; and until the budget is
  spent, a process that works can still acknowledge, so that a crash gives its
  message back. `NoAbandoningFaults` leaves out two things, each of which
  abandons a container by itself: an error of the removal, after which the
  task ends with the container in place (`RunCleanupFails`), and a crash after a
  lost connection, when a second execution may have finished the message before the
  first starts its container. TLC finds `ContainersCovered` violated on the instance
  of `faults` for {docker} with one fault and for {connloss, crash} with two. Any
  number of all other faults remains, lone deaths of processes and database
  errors among them; the instance of `progress` satisfies it.
- `NoRunIsOrphaned`: `NoOrphaningFaults /\ Spec => []RunningIsAttended`: a row that
  says RUNNING has its message queued, or a process that has yet to write the
  verdict, or its test is in `abandoned`, in which case it is the reaper's
  (`HungRunIsReaped`). `BeforeFaults` is what holds until the first fault (nobody
  handles an exception, every followed log is that of the process's own
  container, every container is attended); from it follows that one database error
  cannot hit the `except` of `run_test_bundle`, which is the one place whose failure
  drops the verdict. `NoOrphaningFaults` allows database errors only one fault
  in all and bundles whose runner is known, and a crash and a lost connection not
  together; TLC has a counterexample for {db} with two and for {connloss, crash}
  with two. The instance of `faults` satisfies it.
- `NoPollRendersIntoAnother` and `OneSentinelPerPoll`: `NoCrossRender` and
  `SentinelOnce`. `TasksCurrent`: whatever consumer or timer is in flight belongs
  to the current generation, none is while the screen is being cleared, and no
  task of a later poll exists. `SentinelLatched`: whoever emits holds the lock,
  there is one such task, and a sentinel on the screen is latched or about to be.
  Neither property is inductive alone: `NoCrossRender` without `TasksCurrent`
  allows a straggler, `SentinelOnce` without the lock a second emission during
  the await.
- `RepliesAreNotLost`: `Spec => []RepliesFindTheQueue`, with `QueueInv`: requests
  of a poll go out after `ready` is set or after the bind timeout, and once
  `ready` is set the queue of a live consumer stays bound until its connection is
  lost, which `broken` remembers.
- `SentinelIsBacked`: `Spec => []SentinelCountsRows`. `TallyInv`: the replies
  counted, with the one between table and counter, are at most the rows shown and
  the replies that rendered to nothing; a
  sentinel was made from a counter no larger than today's. The number of rows is a
  sum over hosts, taken by a fold one host at a time: lemmas say that the recursion
  behind the fold is well defined on the subsets of the hosts (`SumExists`) and that one
  more reply adds one (`SumSteps`), each by the least size for which it would not.
- `NoPollIsForgotten`: `Spec => []TimerWillConclude`, a part of `TallyInv`: once a
  poll's requests are out and while it has no sentinel, its timer runs and
  will find the latch open and free. This is the safety half of `PollConcludes`; the other
  half is that the timer's sleep ends.
- `StreamTypes`, `RecordsAgree`: `Spec => []StreamTypeOK`, `Spec => []HistoryLeads`.
  `RecordInv` adds where the loop is: the lines before `line_no` of this execution
  are stored, published and, where due, indexed, and the line in hand is as far as
  the program counter says. Each failing write is covered with both outcomes.
- `PassedRunsAreComplete`: `Spec => []PassedIsComplete`. `PassInv` adds to
  `RecordInv` that this execution has stored nothing beyond the line in hand, and
  that only the end of the log leads to PASSED.
- `PagesFollow`: `Spec => []PageFollows`. `PageInv` relates one page to the
  exchange: what it showed before its queue was bound was published before, an
  unbound queue is empty, and shown and waiting lines together are what was
  published since. Sequences of arbitrary length are handled by their indices.
- `OneAccountForAll`: `Spec => []OneAccountPerEngineer`. `AccountInv` extends
  uniqueness of names and ids to the accounts that transactions hold uncommitted,
  which is what the waiting INSERT guarantees; `PairInv` pairs accounts and sessions.
- `NoLoginsBlockEachOther`: `Spec => []WaitsForOneCommit`, from `AccountInv`: two
  uncommitted accounts have different names, so an INSERT waits for one
  transaction, and that one has its account and only commits.
- `RunsAreAccountable`: `Spec => []RunIsAccountable`. `CookieInv`: tokens are
  those of written sessions, and a session reached by a cookie is the one of its
  login and expires at most `SessionTTL` later. `AuditInv` carries that through the
  request to the row.
- `AcceptedBundlesAreReadable`: `Spec => []AcceptedIsReadable`. `ReadableInv`: every
  bundle between the form and the worker is one that `submit_test` accepted, and
  rebuilding it gives it back.
- `RunsAreAsAsked`: `Spec => []RunsWhatWasAsked`. `AskedInv`: bundle, row and
  configuration on their way are those of one form. That the
  tags say what the form said needs the selection of its non-blank pieces, for
  lists of any length: `SplitTags` is a recursive function, `SplitExists` says that it is
  well defined, and `SplitWords` what it selects, by the smallest prefix for which
  it would not.
- `NoHostIsMute`, `TableIsAlwaysTrue`: `Spec => []EveryReportShows`,
  `Spec => []TableIsTrue`, for every reading within psutil's guarantees
  (`ReadingsAssumption`: a whole number of grains, and never more available than
  there is) and grains of any size (`GrainAssumption`). The
  lemmas are about `RoundHalfEven`: off by half a unit at most, monotone (so that
  rounding cannot put the available above the total), and harmless when a figure is
  rounded again to the same decimals. Rounded again to fewer, the errors add up: half
  a unit and half a tenth or hundredth of one, which is the bound of the totals. `ReportInv` says that message and row come from the last reading.
- `FrontendTypes`: `Spec => []FrontendTypeOK`, from the invariants above and the
  types they leave open.

Every safety property that a passing run checks is stated by a theorem. Only
model-checked is the liveness: `GaugeConverges`, `RequestsComplete`,
`PublishedIsFinished`, `DeadHostGoesOffline`, `HungRunIsReaped`, `PollConcludes`,
`DeadPageCloses` and `LoginEnds`, because fairness and ENABLED are beyond
the prover, and `ContainersCovered` and `RunningIsAttended` for the combinations
of faults that their theorems exclude do not hold. The assumptions on constants
that the last theorems add are that the table's empty sentinel is no sentinel
(`NoSentinelAssumption`), that a text field splits into texts
(`FormsAssumption`) and that the missing row is no row (`NoneIsNoRow`).

## Plan

Done: placement, execution and delivery; the admin poll; the log stream; logins,
bundles and statistics; the refinement to `LateAck`. Left:

1. The ownership check of `ws_logs` and the session check of `ws_admin`, and the
   history page (`read_lines`) over the points of two executions.
2. Rendering of the sentinel for counts beyond the total (`render_sentinel`).
3. Several sockets and polls at one backend, whose queues compete for a host's
   pool.
4. Order within a queue as sequences, to replace the strong fairness of `Deliver`.

## Not modelled

- Quali reservations: no bundle the backend accepts carries one.
- Artifact upload, Quali and HTTP clients: input and output whose errors are
  swallowed where they are called. A redelivered bundle also finds the artifacts
  of its predecessor in its directory.
- HTML, escaping, settings: values without control. For the scheduler the CPU
  percentage is an arbitrary level; how it comes about is in `Contracts`.
- The directory's protocol: it answers or it does not.
- Order of row locks inside PostgreSQL and the deadlocks it detects: the aborted
  side appears as `DispatchError` or `SweepAborts`.
