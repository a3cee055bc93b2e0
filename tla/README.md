# TLA+ models of open-epark

open-epark is the gateway between third-party parking domains and the *epark*
platform: a Spring web application that takes messages of the domains and queues
them for epark, passes requests of the platform on to the parks, keeps the
configuration of the domains and watches whether the parks' servers are up. This
directory holds TLA+ specifications of it, the TLC configurations that check
them and proofs for TLAPS. Source paths below are relative to
`src/src/com/bitcom/openepark/` unless they start with `src/`.

## 1. Inventory

| Component | State | Operations | Modules |
|---|---|---|---|
| Upload queue: `queue/*`, `api/vo/RedisTask` | two Redis lists (wait, processing), one Redis counter per failed task, two stop flags, the consumer thread | `offer`, `take`, `success`, `fail`, `close` of `RedisQueue`; `init`, `run`, `close` of `EventQueueThread` | `TaskDelivery`, `TaskQueue`, `MCTaskQueue`, `TaskQueueProofs` |
| Park invocation: `api/serviceimpl/ParkServiceInvokeImpl`, `api/vo/HttpTask*`, `api/web/ParkInvokeController` | per call: the result queue, the number of tasks, the start time, three kinds of threads | `parkServiceInvoke`; the stateless `parkServiceCheck` | `ParkInvoke`, `ParkInvokeProofs` |
| Domain configuration: `data/serviceimpl/DevConfigServiceImpl`, `common/serviceimpl/CommonCacheServiceImpl` | a database row per domain, a Redis hash of cached rows with one expiry | `getByPrimaryKey`, `updateValidServer` | `DevConfigCache`, `DevConfigCacheProofs` |
| Server verification: `ParkIntegrateServiceImpl.updateVerifyServer` | the configuration above | check, GET to the domain's server, `updateValidServer` | `DevConfigCache` |
| Park binding: `ParkIntegrateServiceImpl.addBindPark` | the rows (domain, park) | check of other domains, delete all, insert all, in one transaction | `ParkBinding`, `MCParkBinding`, `ParkBindingProofs` |
| customData intake: `ParkIntegrateServiceImpl.transferCustomData` | none of its own | check, read the configuration, push | `Intake` (with `DevConfigCache` and `TaskDelivery`), `IntakeProofs` |
| Relays: `synchronousTransferCustomData`, `getLeaguerInfo`, `parkLeaguerCharge` | none of their own; a connection of the pool each | check, one POST to epark | `Relays`, `RelaysProofs` |
| Test pages: `src/web/test/*.html`, `src/web/common/js/demo.js` and `adapter.js`, `getSign` | the fields, panels and selections of a page | Get Sign, Submit, two selections | `DemoPage`, `MCDemoPage`, `DemoPageProofs` |
| Monitoring: `maintenance/*`, `scheduler/SchedulerTask` | state, history and failure rows per park | probe round each minute, alarm round each minute at second 30, truncation each day | `ParkMonitor`, `ParkMonitorProofs` |
| Ciphers, HTTP helpers, web layer, table mappings, utilities, test endpoints, jQuery and json2 | none | | section 14 |

**How they interact.** A domain posts `customData`; the web layer calls
`transferCustomData`, which reads the domain's configuration through the cache
and pushes a task to the wait list of Redis. In every open-epark process one
consumer thread moves a task from the wait list to the processing list
(`RPOPLPUSH`), posts it to epark and either removes it (`success`) or runs a Lua
script that moves it back (`fail`). The processes share nothing but Redis. A
platform request arrives in a servlet thread, which starts a manager thread,
which starts one thread per park; they meet in a blocking queue and a few plain
fields. Scheduled jobs, in threads of their own, probe the parks, write three tables
and ask epark for alarm messages.

**What is hard here.**

* *Queue*: every Redis command and every POST can fail, succeed, or succeed and
  lose its answer; a process can die between any two of them; `fail()` inside the
  `catch` block of `run()` is not protected; `close()` sets two flags and waits
  for nobody; several processes (also the old and the new one of a restart) work
  on the same lists.
* *Invocation*: answers race the timeout and the copying of the result queue;
  `beginTimeMillis` is read and written without synchronisation; the result queue
  has a capacity; a park without an address is skipped.
* *Configuration*: look-aside caching against an updater that writes the cache
  before the database, inside a transaction that can still roll back; one expiry
  for the whole hash.
* *Binding*: check and insertion in two statements; deletes that wait for each
  other's locks; a failure between two of them; lists with repetitions.
* *Relays*: an answer that is lost, late or garbled after the work was done, a commit
  that fails or a reply that is lost after the answer was read, and a caller that tries
  again; a connection held while epark is waited for.
* *Intake*: a decision on a row that was cached before the row changed.
* *Test pages*: answers that overtake one another; a signature of fields that have
  been edited since.
* *Monitoring*: an alarm at exactly five faults, counted and read by two jobs;
  rows of one park spread over three tables.

**What makes each component correct.** The queue: what was answered "message
send success" reaches epark at least once before it is forgotten, is held once,
is worked on by one process, and is not overtaken for ever. The invocation: the
platform hears "success" only when every park of its message said so, and hears
something within the timeout. The configuration: after the dust of an update has
settled, cache and table agree, or the cache expires. The binding: no park has
two domains, and a list is stored as a whole. The relays: success is told of the
call that was made, and nothing is done twice of which the caller was told. The
intake: a message is queued only for a server that was enabled. The monitoring: a
park down for five rounds raises one alarm, and a failure row is open exactly while
the park is down.

The hazards, each at its line, are listed in `PROJECT.json`.

## 2. Plan

Modules in their order, which is that of what matters most to the system; all are
done.

1. `TaskDelivery` (what the queue promises), `TaskQueue` (how it does it, shown
   to implement the promise), `MCTaskQueue`. The queue comes first: it is the one
   persistent, shared and concurrent part, and the data in it is money. Its proofs
   are in `TaskQueueProofs`.
2. `ParkInvoke`, `ParkInvokeProofs`: one call with its threads.
3. `ParkMonitor`, `ParkMonitorProofs`: rounds of probes, alarm rounds and
   truncation interleaved, over the rows of the parks.
4. `DevConfigCache`, `DevConfigCacheProofs`: verifications and senders around the
   table and the shared hash, with expiry, snapshots, roll-back and the order
   hash-before-table.
5. `ParkBinding`, `MCParkBinding`, `ParkBindingProofs`: transactions of calls that
   replace the parks of a domain, under both levels of isolation.
6. `Relays`, `RelaysProofs`: calls passed on to epark, lost answers and retries.
7. `Intake`, `IntakeProofs`: `DevConfigCache` composed with the promise of the queue.
8. `DemoPage`, `MCDemoPage`, `DemoPageProofs`: the test pages with the signature and its check.

What could follow: two monitoring processes at once (the hazard at
`scheduler/SchedulerTask.java:27`), which needs the round's transaction row by row.

## 3. `TaskDelivery` and `TaskQueue`

`TaskDelivery` is the promise to a domain whose message was accepted: `Submit`,
`Accept` (by epark, any number of times) and `Retire`, which needs an acceptance.

`TaskQueue` has one action per Redis command, per POST and per loop decision:

| Code | Actions |
|---|---|
| `RedisQueue.offer` | `Offer` |
| `EventQueueThread.init`, `while (!this.stop)` | `Start`, `Loop` |
| `RedisQueue.take` | `Take`, `EmptyPoll`, `TakeError`, `TakeNothing` |
| the POST of `run` | `PostSuccess`, `PostRefused`, `PostError`, `PostLost` |
| `RedisQueue.success` | `Remove` (LREM 0), `Clear` (EXPIRE) |
| `catch` block of `run` | `Throw` (an operator of the failing step), `Wake` |
| `RedisQueue.fail` | `Count` (INCR), `Requeue` (the script, `MoveBack`), `Reset` (EXPIRE) |
| Redis | `Expire` |
| `EventQueueThread.close`, end of the context | `MarkStop`, `MarkQueueStop`, `DestroyPool` |
| the operator and the machine | `Exit`, `Crash` |

State: `wait` (head = the end that RPOP takes), `processing` (copies per task;
its order is never observed, since only LREM by value reads it), `failCount` and
`expiring`; per process `pc`, `task`, `tries`, `inCatch` and `closing`.

Abstractions, each with its reason:

* A task is the number of its arrival. The code's ids are UUIDs, and `LREM` finds
  the entry because writing a parsed `RedisTask` gives back the string that was
  pushed: three string fields in a fixed order.
* A Redis command is atomic, which Redis guarantees for single commands and for
  scripts. `RedisCall` gives its outcomes: done, not done and an exception, done
  and an exception. After `DestroyPool` only an exception is possible.
* The retry counter stops at `FAIL_TRY_COUNT` (`Increment`): the code compares it
  with that constant and does nothing else.
* `INCR` on a key that is about to expire keeps its time to live, `EXPIRE` on an
  absent key does nothing; both are in the model because `CounterCollected` turns
  on them.
* `RedisQueue.stop` is a plain field read by another thread: `TakeNothing` is
  possible once it is set and never forced.
* `PostError` costs no fault: an unreachable platform is ordinary. `PostLost`,
  which makes epark take a message twice, does.
* `EventQueueThread.close` calls `interrupt()` on an object that is not the running
  thread (`init` wraps it in another `Thread`), so that nothing is interrupted.

Bounds: `MaxTasks`, `MaxFaults` and `MaxCloses`; everything else is finite by
itself. Two processes and two tasks give every pairing of a worker that owns a
task with one that has lost it; two faults give a fault followed by a fault of
its own repair (a lost answer, then a failing command in the `catch` block).

## 4. `ParkInvoke`

One call of `/parkServiceInvoke.do`. `main` is the servlet thread (`Prepare`,
`ReadTime`, `Compare`, `Allocate`, `Copy`, `Merge`), `manager` the
`HttpTaskManager` (`Begin`, `Spawn`, `EndRun`), `http` one thread per request
(`Deliver`, `FailPost`). `Allocate` and `Copy` are separate because
`new String[results.size()]` and `toArray` are. `Reads` gives what a read of the
plain field `beginTimeMillis` may return: 0 until something orders the write
before the read (here the lock of the result queue, once an answer has been seen
in it), and the time once it is written. A message is abstracted to its number of
requests, an answer to four kinds (`Answers`).

Bounds: up to three requests and a capacity of two, so that the queue overflows for
three requests and holds all for fewer. The code's capacity is 200, and it matters only
whether it is smaller than the number of requests.

## 5. `ParkMonitor`

| Code | Actions |
|---|---|
| `SchedulerTask`, the cron times at second 0 and 30 | `Tick` |
| `MaintServiceImpl.executeMonitorParkState`: the queries, a probe, the writes and the commit | `BeginRound`, `Probe`, `CommitRound`; roll-back `AbortRound` |
| `MaintServiceImpl.executeSendDeviceFaultSms`: the query, the POST | `ReadFaults`, `Send`; failing query `AbortAlarm` |
| `SchedulerTask.executeTruncateMaintThirdDeviceStateInfo` | `Truncate` |
| the parks, the machine and the operator | `Flip`, `Crash`, `Restart` |

State: the round (`round`, `todo`, `health`, which is `parkStateMap` with
"unknown" for a park that is not in it), the alarm job (`alarm`, `message`), the
three tables (`state`: code and fault count; `info`: the code of the newest
history row; `failure`: the newest row and the number of open ones). `streak`,
`alarms` and `overrun` record the behaviour; no guard reads them.

* The jobs run in a scheduler of ten threads (`src/resource/applicationContext-jobs.xml`):
  they overlap one another, and a cron job that is still at work misses its turn.
* A round is one transaction: the transaction advice of
  `src/resource/applicationContext.xml` covers `execute*` of the service interfaces.
  Its writes are therefore one step; nothing but the round writes `state` and
  `failure`, so that reading them within the round or at its end is the same.
  The truncation may come at any moment of the day.
* The word for a probe's result ("success", "fail") is compared with the code of
  the row ("000", "001"), as the code does: they always differ, and every round
  writes every row. `CountIsStreak` rests on it.
* `executeMonitorParkState` inserts a state row where there is none, but the query
  leaves those parks out, so the branch is dead. State rows come from others:
  `Monitored` names the parks that have one, each a single row of type 10.
* The newest failure is looked for under the device code of the state row
  (`MaintServiceImpl.java:207`) and inserted under `park_code + "_10"` (lines 212 to
  280). The dead branch would write the same code into the state row; what others enter
  nothing checks. `Coded` names the rows that have that code. For the others no failure
  is ever found (`Newest`), so that every bad round opens one more and none is closed:
  `TablesAgree` is about the failures of `Coded` rows only. It is taken that no row
  carries the code of another park or row.
* `HttpClientUtil.sendHttpPost` swallows its errors: `Send` is received or, at the
  cost of a fault, lost without anybody noticing.
* One process monitors: `park_state_task_enable` is set in the properties of each
  process, to be true in one.

Bounds: counts above `ALARM_AT` are one value and alarms or open failures above one
are another, since the code compares with five and one only; `MaxFaults` bounds
crashes, roll-backs, failing queries and lost messages. One fault and two parks
suffice for a fault at every place of a round and for one park overtaking the
other; faults do not enter the tables, so a second one adds no new kind of state. One
of the two rows is of the usual device code and one is not.

## 6. `DevConfigCache`

| Code | Actions |
|---|---|
| `CommonCacheServiceImpl.getCacheFromHashMap` with the callback of `DevConfigServiceImpl.getByPrimaryKey` | `HGet`, `Select`, `HPut`, `Expire` |
| `commonRequestValid` with the first lookup | `Accept`, `Reject` |
| `transferCustomData` with the second lookup | `Serve` |
| `updateVerifyServer`: the version check, the GET to the server | `Check`, `Ask` |
| `DevConfigServiceImpl.updateValidServer` | `Write` (HSET), `Update` |
| the transaction of a request | `Begin`, `Snapshot`, `Commit`, `BreakOff` |
| Redis; whoever enters rows | `TimeOut`; `Edit` |

State: `table` and `lock` (the row lock an update takes until its transaction
ends), `hash` and `ttl` (one time to live for the rows of all domains), and per
thread its place, its domain, the row in its snapshot and the row it found or is
going to write. `past`, `overlapped`, `edits` and `faults` record the behaviour.

* `update*` and all other methods of the service interfaces run in a transaction
  (`src/resource/applicationContext.xml`). No isolation level is set, so that MySQL's
  own applies: reads see the snapshot of the first one. A verification has its
  snapshot from the query of the protocol version at the latest, so that
  `updateValidServer` writes back the row as it was before the GET.
* Redis takes no part in the transaction. An exception in `updateValidServer` is
  caught by `updateVerifyServer`, but the transaction is marked by then: it is
  rolled back all the same, and the hash is not.
* A row is two parts: `servEnable`, which a verification sets, and a version that
  stands for what others enter. Rows are entered and changed outside this program
  and never deleted in the model, as no code deletes them.
* The signature check is `Reject` or `Accept`, whatever the sender sent.

The properties name their exceptions, and the exceptions are what the code does
not guard against: a verification that breaks off after its HSET, two
verifications of one domain at once, and a row changed by others while the hash
has no time to live. In these cases a row of the hash can differ from the table
until some other domain is missed. Without them `StaleExpires` and `QueuedAsStored`
say that it does not last.

It is checked as a part of `Intake`. Bounds: two verifiers on two domains let two
verifications overlap, and changes by others fall between them; a verifier and a
sender on two domains let a reader with an old snapshot outlast the verification and
show that the hash expires as a whole.

## 7. `ParkBinding`

| Code of `addBindPark` | Actions |
|---|---|
| `commonRequestValid` and the start of the transaction | `Begin`, `Invalid` |
| the loop over the list with `queryRecordCountExcept` | `CheckEntry` (with `Taken`) |
| `selectByDomainId`; the loop of `deleteByPrimaryKey` | `SelectOwn`; `Delete`, `DeletesDone` |
| the loop of `insert`; the return | `Insert`; `Commit` |
| the `catch` block that rethrows, `rollback-for` | `BreakOff` |
| MySQL | `Victim` (a deadlock), `Locks`, `Seen` |

State: `rows`, the committed table; per call its place, domain and list, the entry
`at` which it is, the rows it has read (`binds`) and how many of them are deleted
(`gone`). A row is named by the call and the list entry that made it, since its
`nid` is a new UUID, so that a list with a park twice makes two rows. What an open
call has written is derived (`Erased`, `Inserted`) and enters `rows` with its commit.
`latest` and `overlaps` record the behaviour.

* The code sets no isolation level and the table has no key but the `nid`.
  `repeatable`, which never changes, tells the two levels in use apart: queries see the
  snapshot of the first one, or what is committed at their moment. All queries of a call come before its
  writes. `Begin` is the moment of the first query.
* A delete waits for the call that has deleted the same row and then deletes
  nothing. An insert waits for nothing: no query of the code locks a range. (Under
  repeatable read InnoDB may lock gaps when a row to be deleted has gone already;
  that orders calls further and allows nothing new.)
* The lists are what `split(",")` can return: blank entries anywhere but at the end.

`ExclusiveUnlessOverlap`, `LastListBound` and `FoundUnlessOverlap` name the overlap
of two calls as the exception: the code has nothing against it. `NoStandstill` is about
calls of one domain that wait for each other's deletes. Bounds: three calls (two to
overlap and one before or after), two domains, two parks, lists of two entries, one
break-off. Calls, domains and parks are interchangeable in all of these properties.

## 8. `Relays`

| Code | Actions |
|---|---|
| a parking domain | `Ask` |
| the transaction around a service method, the pool of `src/resource/db.properties` | `Enter`, `Return` |
| the end of a method, with a value or an exception (`Finish`); the `catch` of `ParkIntegrateController.parkLeaguerCharge` | `Return` (with `Broken`) |
| `commonRequestValid`; the second look-up and `config.getPostUrl()` | `Check`; `Configure` |
| `HttpUtils.sendPost` | `Send`, `Unreachable`, `TimeOut` |
| the test of the answer in each of the three methods, the `catch` blocks | `Read` (with `Said`, `Failed`) |
| epark | `Serve` |

A request is what a caller wants done, and may be called for up to `MaxTries`
times. epark can carry a call out long after the thread has given up, answer what
cannot be parsed, or never answer. `answer` is of the current call only: an HTTP
answer belongs to its connection. `did` and `heard` record which calls were carried
out and whose answers were read, and `unsaid` whose callers were not told what the
method had made of it; the code keeps no such record, and therefore cannot recognise a
repetition.

What a method returns is not yet what its caller is told. The transaction ends after
the method (`src/resource/applicationContext.xml:86`), and its commit can throw, although
the transaction only reads: of the exception `ParkIntegrateController.java:77` makes
`{result:'fail'}`, also when the method had returned "success"; of the other two calls
the caller gets the error of the container. And the reply can be lost on its way. `Return`
has these three outcomes. `RepeatedOnlyUntold` therefore says of a call that was carried
out and then repeated that its answer was not read, or that its caller was not told what
was made of the answer: what remains, and what the property shows, is that the tests of
the answers and the `catch` blocks never turn a charge that was read as done into a
"fail".

Assumed: epark does not answer a query it refuses by a JSON object, for `getLeaguerInfo`
passes on any object, whatever it says; an answer comes within a bounded time once it
has begun, for the five seconds of the read timeout are for each read; and a caller that
is not told anything asks again only when the thread of its call has ended.

The three methods differ in what they make of a failure (`Failed`), of an answer
(`Said`) and of a row gone between check and post (`Configure`), and `kind` tells
them apart. Bounds: two requests, one connection (the code has twenty; what matters
is that calls wait for one), two tries each: a call and its repetition, with epark
serving the first before, during or after the second.

## 9. `Intake`

`Intake` extends `DevConfigCache` by the promise `TaskDelivery` of the queue, which
`TaskQueue` implements. `SendMessage` is the action `Serve` of `DevConfigCache`
together with `Submit`, under the test of `servEnable` (`Enabled`); `TurnAway` is
`Serve` without; `SendUntold` is a push after which the request breaks off. `source`
records the row a message was queued with: the task carries its address until it is
delivered. A message that is done may stand for a new one (`Deliver`), so that
messages do not run out and `QueuedAsStored` speaks of all that ever come.

Bounds: a verifier and a sender on two domains, one message at a time, one request that
breaks off, and no changes by others, since verifications change rows already and the
liveness property excepts them; changes by others are in `config_safety`, which has
no sender.

## 10. `DemoPage`

The two pages have the same parts, and the model has a form of each kind: one that
is signed, with its fields joined in another order than the server lists them, and
one that is not. A click runs to its end (`SignClick`, `Submit`, `ChooseMethod`,
`ChooseInvoke`); the posts it starts are answered in any order or fail without any
handler being told (`SignArrives`, `SignFails`, `Answered`, `SendFails`). `Signature`
is `SignatureUtil.sign`: what is hashed is the sorted fields and the key, so that two
signatures agree when the fields agree in any order. That two different lists of
fields can make the same text when they are concatenated is left out. `GetSign` splits
its value at every `;`, as the controller does.

`RefusedOnlyIfUnready` lists all that can make a signature wrong: no or an older
signature, another key, signatures that crossed, a `;` in a field. The panel of an
unsigned form is not emptied by a click, so that `LastAnswerUnlessCrossed` speaks of
the signed ones. The example text for `queryOrderFee` of the shipped page has single
quotes in it, so that its Submit sends nothing until it is edited (`Submit` may always
be without effect).

Bounds: fields of two parts from two values and one with `;`, two keys, two signatures
and two submissions of the signed form: an answer or a signature can be overtaken once.

## 11. Runs

| Run | Question | Result |
|---|---|---|
| `queue_safety` | two processes, two tasks, two faults, one shutdown: types, `SingleCopy`, `NotLost`, `ExclusiveUnlessFault`, `AcceptedOnceUnlessFault`, `ProcessingOwned`, `CounterCollected`, `FirstTakeInOrder`, `ImplementsDelivery` | hold (1.8 million states) |
| `queue_liveness` | two processes, two tasks of which epark never takes the second, one fault, one shutdown: `DeliveredOrStranded` | holds (580 thousand states) |
| `queue_discard` | the log's "Discard to fail queue" | violated: the task is back in the wait list |
| `queue_stop` | the message "Redis Queue has Stopped" | violated: the consumer still works |
| `invoke` | one call: types, `HonestSuccess`, `NothingLostWhenAllIn`, `PromptWhenAllIn`, `AnsweredWhenLate` | hold |
| `monitor` | two parks with rows of different device codes, one fault: types, `TablesAgree`, `CountIsStreak`, `AlarmedOnceWhenSteady`, `DownIsRecorded`, `LongOutageReported` | hold (650 thousand states) |
| `monitor_coverage` | the comment "all closed parks" on `queryAllThirdParkStateInfo` | violated: a park without a state row stays without |
| `config_safety` | two verifiers, two domains, one change by others: `FoundWasStored` | holds (6 million states) |
| `intake_settles` | a verifier, a sender, the queue, two domains, one request that breaks off: types, `StaleExpires`, `QueuedWasEnabled`, `QueuedAsStored` | hold (2.5 million states) |
| `binding_safety` | three calls, two domains, two parks, one break-off, both levels of isolation: types, `CallsStayWhole`, `ExclusiveUnlessOverlap`, `LastListBound`, `FoundUnlessOverlap`, `NoStandstill` | hold (2.8 million states up to symmetry) |
| `relay` | two requests, two tries, one connection: types, `SuccessIsThisCall`, `RepeatedOnlyUntold`, `EveryRelayAnswered` | hold (650 thousand states) |
| `demo_safety` | a signed and an unsigned form: types, `LastAnswerUnlessCrossed`, `RefusedOnlyIfUnready`, `SentIsShown` | hold |

What they say of the code:

* The queue never loses or doubles a task in Redis, whatever fails. It can strand
  one: an entry of the processing list whose worker died, lost the answer of
  `RPOPLPUSH` or was cut off from Redis is never read again. It can lose its
  consumer: one failing command in the `catch` block ends the thread for good.
  `DeliveredOrStranded` shows that there is no third way.
* Two processes can work on one task, and epark can take it twice, only after a
  fault.
* A task that epark refuses for ever is retried for ever; it does not starve the
  others because the script pushes it to the far end.
* An invocation can fail although every park answered in time (an early wake-up,
  an answer between `Allocate` and `Copy`); it never succeeds wrongly.
* The tables of the monitor agree at every moment, the failures among them for state
  rows of the device code that the program itself would write, and an outage of five
  rounds or more is reported once, provided that no job misses its turn and nothing fails;
  otherwise it can be reported twice or not at all, because only a count of exactly
  five raises the alarm.

* A list of parks is stored as a whole or not at all. Two domains can have one park,
  and a domain parks of an older list, only if the calls overlapped; the look-up of
  such a park's address throws from then on. A list that names a park twice has the
  same effect.
* A member can be charged twice, namely when an answer was lost, late or garbled, when
  the commit after it failed, or when the reply to the park was lost: the park is told
  "fail" or nothing, and nothing in the call lets epark recognise its repetition. There
  is no other way.
* No message is queued for a server that was never enabled; after a server is disabled
  messages can still be queued until the row in the hash expires.

The violated properties state what messages of the program and comments say, and each
is a finding in `PROJECT.json`.

Deadlock is checked in every run: `TaskQueue` can always start or poll, and
`ParkInvoke` has the explicit end `Finished`, and time passes in `ParkMonitor`;
a request can begin in `DevConfigCache` and in `Intake` whenever a thread is idle,
`ParkBinding` and `Relays` have the end `Finished`, and `DemoPage` can always be typed
into.

### Fairness

`FairSpec` of `TaskQueue`: weak fairness of `Start` (an operator starts what is
down), of `Step` of every running consumer (threads run; sleeps end; a stop flag
that stays set is seen in the end), of `Expire` (Redis drops expired keys), and
strong fairness of `EparkTakes(t)` for a task epark can take: asked again and
again, epark takes it some time. Without the last one epark could refuse for
ever and nothing would follow. Nothing is assumed of crashes, faults, closes,
offers, or of `Exit`: a process whose consumer has ended may stay as it is.

`FairSpec` of `ParkInvoke`: weak fairness of the servlet and the manager thread.
That parks answer and that time passes is not assumed; the properties say what
follows when they do.

`FairSpec` of `ParkMonitor`: weak fairness of `Tick` (time passes), of the steps of
both jobs and of `Restart`. Nothing is assumed of the parks, of the truncation or of
the faults, and nothing of how long a round takes: `LongOutageReported` excepts a
job that is overtaken by its next turn.

`IntakeFairSpec`: weak fairness of the steps of every request (calls have timeouts, and
the row lock is free once its holder ends) and of `TimeOut`. Nothing is assumed of the
queue, and not that requests come.

`FairSpec` of `Relays`: weak fairness of the steps of each servlet thread, and among
them `TimeOut`, for the five seconds of `sendPost` pass (an answer that trickles in so
that each read succeeds is left out, section 8). Taking a connection is only
weakly fair: a call makes finitely many, so that no thread is overtaken for ever. epark
need not answer and callers need not call.

## 12. Proofs

`TaskQueueProofs` proves, for every set of processes and every value of the
bounds, from `ConstantsAssumption` alone:

| Theorem | Property |
|---|---|
| `TypeCorrect` | `TypeOK` |
| `SingleCopyHolds` | `SingleCopy` |
| `NotLostHolds` | `NotLost` |
| `QueueImplementsDelivery` | `ImplementsDelivery` |
| `ExclusiveHolds` | `ExclusiveUnlessFault` |
| `AcceptedOnceHolds` | `AcceptedOnceUnlessFault` |
| `FirstTakeOrder` | `FirstTakeInOrder` |
| `OwnedHolds` | `ProcessingOwned` |
| `CollectedHolds` | `CounterCollected` |
| `HandsAreFreed` | a consumer with a task in hand comes to have none, if its thread runs |
| `WaitingMovesUp` | in a calm system a waiting task moves up place by place and is posted from the first, if a thread runs on |
| `NoneStarves` | in a calm system a task that epark takes is delivered, if threads run on |
| `CalmDelivery` | `DeliveredOrStranded` in a calm system, from the premises of `NoneStarves` |

The inductive invariants build on one another:

* `TypeInv`: `TypeOK` and the places of the loop in which a consumer has a task
  (`ThreadOK`). Without them `LREM` and `INCR` could be applied to no task.
* `LifeInv`: also `SingleCopy`, `Arrived` (only offered tasks are listed, held or
  accepted; else a push could meet a copy) and `Earned` (a consumer at the removal
  holds an accepted task; else a removal could lose one).
* `SoleInv`: also, while nothing has failed, `Sole`: an owner's entry is in the
  processing list, a task has one owner, and an accepted task is out of the wait
  list with its owner at the removal. `ExclusiveUnlessFault` is not inductive by
  itself: a `Take` of a listed copy could make a second owner.
* `OrderInv`: the tasks never taken stand in the wait list in the order of their
  arrival (`InOrder`); `FirstTakeInOrder` is about two states and follows for the head
  of that list.
* `CalmInv`: `SoleInv`, a thread in the `catch` block is at one of its places
  (`Catches`) and, while nothing has failed and nobody was shut down, no process is
  closing (`Open`); without either a step of the block or a stop flag could make a
  thread let go of a task that is still in the processing list.
* `RoundInv`: `CalmInv` and, in a calm system (no fault, no shutdown), that no thread
  ever ends (`Alive`).

`NoneStarves` follows a task from its arrival. In the list it loses a place with every
`Take` and gets none more with any other step (`PlaceSteps`), and takes do not cease as
long as something waits (`ListIsPopped`: a thread works off the task in its hand by
`HandEmpties`, comes round to the list and takes). In a hand it stays until it is pushed
back or removed (`OwnerSteps`). So a task that is never done is posted again and again,
and epark takes it; a task taken never waits again (`Sole`). `[]Calm` is a premise of the
behaviours considered, and `PlaceInduction` the one instance of induction used: if a
task at the first place is posted, and one at place k + 1 if one at place k is, then one
at any place is.

To keep the case analyses small, `ListSteps`, `AcceptSteps`, `HandSteps` and
`FaultFreeSteps` first reduce the steps of the system to the few ways in which
they touch the lists, the acceptances and the ownership; the invariants are then
proved against those. The lemmas at the head of the module are about sequences:
what `Append` and `Tail` do to range and injectivity.

`ParkMonitorProofs` proves, for every set of parks, of state rows and every number
of faults, from `ConstantsAssumption`:

| Theorem | Property |
|---|---|
| `MonitorTypeCorrect` | `TypeOK` |
| `TablesAgreeHolds` | `TablesAgree`, of failures for rows in `Coded` |
| `CountIsStreakHolds` | `CountIsStreak` |
| `AlarmedOnceHolds` | `AlarmedOnceWhenSteady` |
| `OutageRecorded` | `DownIsRecorded`, if rounds go on |
| `OutageReported` | `LongOutageReported`, if rounds go on |

`TableInv` adds to the first three properties that a row that does not exist counts
nothing (else a park left out by the query could have a count without a streak).
Only `CommitRound` disturbs it; `CommitOne` says what it does to one park.
`PaceInv` is what `AlarmedOnceWhenSteady` needs: while nothing has failed and no
turn was missed, probing belongs to the first half of the minute and alarms to the
second (`TurnsTaken`), and a park with a count of five has been reported or not
according to the time (`Paced`). For the two outages: a park that is down is not found
well by any round begun since (`DownIsUnwell`), and each written round then opens its
failure and counts one more (`CommitUnwell`); six of them bring the count above
`ALARM_AT`, where `Paced` says that it has been reported.

`DevConfigCacheProofs` proves, for every set of domains, senders and verifiers and
all bounds, from `ConstantsAssumption` and `NoRowAssumption`:

| Theorem | Property |
|---|---|
| `CacheTypeCorrect` | `TypeOK` |
| `FoundWasStoredHolds` | `FoundWasStored` |
| `StaleExpiresHolds` | `StaleExpires` |

`BaseInv` adds to the types that a row found anywhere exists in the table, without
which `Check` could write a row that is none. `StoredInv` adds what each thread
carries from its snapshot to the hash. `AgreeInv` adds that verifications of one
domain exclude one another and that what one of them is about to store is in the
hash, or else an older row that goes away: without it `Commit` could make the row in
the hash an older one. Each step of a thread is a case of its own in `BaseThread`,
`StoredThread` and `AgreeThread`.

`ParkInvokeProofs`, for messages of every length and queues of every capacity:

| Theorem | Property |
|---|---|
| `Typing` | `TypeOK` |
| `Honesty` | `HonestSuccess` |
| `NothingLost` | `NothingLostWhenAllIn` |
| `NoEarlyEnd` | waiting ends only with everything in, after the timeout, or while `beginTimeMillis` may be read as 0 |
| `Promptness` | `PromptWhenAllIn`, if the servlet thread runs |
| `Timeliness` | `AnsweredWhenLate`, if the servlet thread runs |
| `CallsEnd` | both, from `FairSpec` |

`InvokeInv` adds that the queue only grows and the array is never longer than it
(`Measures`), that an answer in the queue does not change (`Threads`), and that results
complete at `Allocate` are complete at `Merge` (`Complete`). `Clocked` adds that the
number waited for is that of the requests with an address, and that nothing runs before
the manager: without it an empty queue could be taken for a full one. "Everything is in"
and "the time is over" do not cease (`AllInStays`, `LateStays`), and from either the
thread passes its places in one order (`AllInMoves`, `LateMoves`).

`ParkBindingProofs`, for every set of calls, domains and parks and both isolation levels:

| Theorem | Property |
|---|---|
| `Typing` | `TypeOK` |
| `Wholeness` | `CallsStayWhole` |
| `Exclusiveness` | `ExclusiveUnlessOverlap` |
| `LastListStands` | `LastListBound` |
| `LookUp` | `FoundUnlessOverlap` |
| `OnlyOwnListsReplaced` | the table changes only where a call replaces lists of its own domain by its own whole list |
| `NoLockout` | as long as some call is open, some call can go on or the database breaks a circle of waiting calls |
| `ServiceGoesOn` | `NoStandstill`, if steps are enabled where their guards hold |

`SafeInv` adds that what calls have read are whole lists too (`Lawful`), that a row an
open call has not seen comes from a call that overlaps it, and what is known of the
checked part of its list (`Order`). `FoundUnlessOverlap` follows from the exclusion of
domains and that of two lists of one domain (`OneListUnlessOverlap`). `NoLockout` is
`NoStandstill` with the guards of the steps (`CanStep`) written out in place of `ENABLED`:
if every open call waits, the lockers each waits for lead round in a circle (`SomeCircle`,
by well-founded induction over a finite set). `ServiceGoesOn` states `NoStandstill`
itself, with the premise that a step is enabled where its guards hold (`GuardsEnable`).

`RelaysProofs`, for every number of requests and tries and every size of the pool:

| Theorem | Property |
|---|---|
| `Typing` | `TypeOK` |
| `HonestRelay` | `SuccessIsThisCall` |
| `RepetitionNeedsLoss` | `RepeatedOnlyUntold` |
| `WaitsForHolders` | a call that finds the pool empty waits for calls that hold a connection |
| `ConnectionsReturn` | every call that holds a connection ends, if its thread runs |
| `PoolRefills` | some connection is free again and again, if the threads of holders run |
| `AllAnswered` | `EveryRelayAnswered`, if besides the pool passes no call over for ever |

`RelayInv` adds that idle connections and holders make up the pool (`PoolBalance`) and
what is known of the calls of a request from the first to the current one (`History`).
A holder's own steps and epark's answer move it through its places in one order
(`StepsOn`, `OthersLeave`) and put the connection back at the end (`LetsGo`).

`IntakeProofs`, for every set of domains, threads and messages:

| Theorem | Property |
|---|---|
| `IntakeTyping` | `IntakeTypeOK` |
| `QueuedWasEnabledHolds` | `QueuedWasEnabled` |
| `IntakeImplementsCache` | `IntakeSpec` implements `Spec` of `DevConfigCache` |
| `IntakeFindsStored` | `FoundWasStored` |
| `IntakeStaleExpires` | `StaleExpires` |
| `SettledForEver` | once all copies agree with the table, and while no verification runs, they go on to, and messages are queued with the row in the table |
| `QueuesSettle` | `QueuedAsStored`, if requests go on and Redis drops what has expired |

Every step of `Intake` is one of `DevConfigCache` or leaves it alone (`CacheSteps`), so
that `BaseInv` and `StoredInv` are taken over. `FoundInv` says that a row a thread has
found stays legitimate while the table goes on, `SourceInv` the same of queued rows.

`SettledForEver` is the safety half of `QueuedAsStored`: `Settled` is inductive as long as
no verification begins and nobody changes the table. `QueuesSettle` is the whole of it.
Once verifications have ceased (`Ceased`), every request comes to its end or to a message
to be queued (`RequestsGoOn`), and from then on what it reads from the table is what stays
(`Renewed`). When all requests are renewed, nothing else is put into the hash, and what is
in it of older rows has a time to live or gets one (`StaleExpires`) and is dropped
(`HashSettles`). Then a thread that finds the row in the table once does so for ever, and
one that never does has a message that is never queued (`SendsSettle`): the theorem does
not need that the queue has room.

`DemoPageProofs`, for all fields, contents, keys and numbers of clicks:

| Theorem | Property |
|---|---|
| `Typing` | `TypeOK` |
| `Shown` | `SentIsShown` |
| `LastAnswer` | `LastAnswerUnlessCrossed` |
| `Refusals` | `RefusedOnlyIfUnready` |

`BaseInv` adds the shapes of what is under way (`Shapes`). `PanelInv` says that every
answer under way or shown is of the last click or was overtaken by one of a later click.
`RefusalInv` says that, unless requests crossed or failed, the signature last asked for
is under way alone or in the form. It is that of the fields whichever order the script
joins them in, because the code sorts them (`SignatureSwap`, `SignsTheFields`).

**Liveness.** TLAPS has no rules for `ENABLED`, which the `WF` and `SF` of the fair
specifications contain. The liveness theorems therefore assume what fairness comes to: a
thread that is at one of the places where it waits for nothing, takes a step
(`ThreadRuns`, `RunsOn`, `CallRuns`, `HoldersRun`, `GoesOn`), written rounds do not
cease (`RoundsGoOn`), epark takes a task it is asked for again and again
(`EparkAnswers`), Redis drops what has expired (`TimesOut`). The lemmas `FairnessRuns`
(in `ParkInvokeProofs`, `RelaysProofs` and `TaskQueueProofs`), `FairnessRunsOn`,
`FairnessAnswers`, `FairnessGoesOn` and `FairnessTimesOut` derive that from the fairness
in the specifications, with the one premise that the action is enabled at those places,
and in `ParkInvokeProofs` `CallsEnd` states the properties from `FairSpec` itself. That
the actions are enabled there is plain from their guards, and TLC finds it so on the
instances of the runs. `RoundsGoOn` follows from `Fairness` and `MaxFaults` because each
round probes finitely many parks and only finitely many rounds are broken off, an
induction that is left to TLC. `Admitted`, the premise on the pool, is a matter of the
pool: in the model the bound on the tries gives it, and the theorem shows what is left
to assume where callers keep coming.

## 13. Only model-checked

* `DeliveredOrStranded` of a system with faults or shutdowns: `CalmDelivery` is about
  behaviours without. With them it takes inductions also over the number of faults, of
  the processes that are left and of those that hold one task. Proved for that case too
  are `NotLost`, `FirstTakeInOrder` and `HandsAreFreed`.
* The premises of induction: `PlaceInduction` (over the places of the list), `RenewTogether`
  and `SendTogether` (over the number of threads; what holds of each from some time on
  holds of finitely many together from the last of these times on). The provers have no
  induction on temporal formulas; as instances of it these are true of every behaviour,
  the last two of any finite number of threads.
* That actions are enabled where their guards hold, `GuardsEnable` and the premises of the
  `Fairness...` lemmas among it, and `RoundsGoOn`.
* What the three runs that find a violation show.

## 14. Not modelled

* The AES helper and the digest of the signature: functions of a library on bytes.
* `HttpClientUtil` and the other helpers of `HttpUtils`: I/O, whose outcomes are the
  nondeterminism of the callers. `parkServiceCheck` is one look-up and one such call.
* The interceptor, which refuses calls of `/push/customData` that lack a parameter before
  the service is called; the controllers without logic, which log and pass parameters on;
  accessors and generated SQL; file upload, date, id and property utilities; the manual
  test endpoints.
* The shortening of a long content for the log in `transferCustomData` and
  `synchronousTransferCustomData`, which throws for a content of more than 2000 characters
  without `[`.
* Two monitoring processes at once (section 2).
* jQuery and json2 (`src/web/common/js`): third-party code, used unchanged. These two
  libraries, present twice, are nearly all of the JavaScript in the repository; its own
  scripts are `demo.js` and `adapter.js`, and the program itself is the Java code.
  `src/web/WEB-INF/classes` holds copies of the sources and compiled classes.
