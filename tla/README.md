# TLA+ models of the 722 device TLS server and its network proxies

The repository holds two programs in C:

* `722device`, a daemon that accepts publish requests over the VSOA RPC library and moves datagrams between VSOA and
  UDP/TCP peers through priority queues, worker threads and hand-made events;
* `net_proxy_v2`, a smaller rewrite of the same idea: a proxy server and a client around a bounded message queue.

This directory models the concurrent core of both, checks the models with TLC on small instances, and proves with TLAPS
what matters most for every size.  File and line numbers below are relative to `src/`.

## 1. Inventory

| Component (code) | State | Operations | Interacts with |
|---|---|---|---|
| **TLS transmit scheduler** `722device/server/tls_transmit.c` | eight lists `queue_transmits_`, `queue_transmit_` (current queue) with its lock, manual-reset `evt_loop_`, `start_`, `run_` | `tls_transmit_start/stop/push`, thread `tls_transmit_thread` → `_poll` → `_handle` | fed by every publishing thread; takes and returns buffers of the pools; sends on the UDP socket |
| **Transmit buffers** `server/tls_buff_queue.c`, `server/tls_work.c` | a free list per priority, `priority_`/`transmode_` in each buffer | acquire, release, register/transmit/vsoa_publish functions | scheduler, file transmit, application glue |
| **TLS receive path** `server/tls_receive.c`, `server/tls_server.c` (work thread) | free list, receive list, `evt_work_loop_` | receive thread: acquire, `recvfrom`, push; work thread: pop, handle, release | UDP socket, work handlers |
| **TLS server lifecycle** `server/tls_server.c` | `start_`, the threads, entries | initialize, start, stop, uninitialize | all of the above |
| **Link status requests** `server/tls_request.c`, `tls_linkinfo.c` | wait list of commands with its lock, an event per command | the RPC thread queues a command, publishes the request and waits 3 s; the poll thread times commands out after 2 s; `on_response` | TLS publish server; called from the application's RPC server |
| **Network proxy** `network/tls_net_proxy.c` | eight rings of 256 nodes, link map, UDP/TCP sockets, `stop_listening_` | push, transmit thread, listeners, start/stop, init/uninit | RPC callback (producer), VSOA publish (listeners) |
| **Application glue** `app/app_transmit.c`, `app/app_vsoa_*.c` | the singletons | boot, RPC callbacks, subscribe callbacks, uninit | everything |
| **VSOA publish/subscribe** `vsoa/*.c` | server/client handles, threads | start, stop, publish | VSOA library (third party) |
| **File transmit** `filetransmit/*.c` | block lists (free, received), file entries, `evt_thread_loop_` | subscribe callback, work thread (write, read back, publish, sweep), stop | transmit path, VSOA |
| **Statistics** `statis/*.c` | counters, rate thread | add, start, stop | transmit, receive |
| **Message queue, proxy server** `net_proxy_v2/*` | linked list with a bound, mutex, two conditions, `shutdown`; the listening, datagram and client descriptors of an edge-triggered epoll loop | push, pop, destroy; RPC callback, worker, event loop | VSOA library, sockets |
| **Configuration** `config/*_config.c` | the queue table, one structure per section | `*_config_load_all`, the older one-value loaders | Mini-XML; every part reads it at start |
| **Mini-XML** `config/mxml/*` | trees of linked nodes with a reference count, indexes, load options, string buffers | load, save, add, remove, delete, set, get, find, walk, index | configuration; its source is part of the daemon |
| **Logging** `third/zlog-1.2.15`, `com/tls_log.c` | the environment under a read-write lock, configuration, categories with rules and bitmaps, buffers per thread, log files and archives | init, fini, get category, log, reload, rotate | every thread; other processes with the same files |
| **UDP wrappers, dialog, legacy transport, tests** | – | I/O, stubs | – |

**What is hard here.**  The producers of the TLS path take three locks one after the other (list, current queue, event),
so the transmit thread can observe every intermediate state; a manual-reset event is cleared by the consumer and set by
producers; a priority pointer has to cover all queues although no lock covers pointer and queues together; buffers are
handed from list to list through one intrusive node; stop has to meet a thread that may be asleep, in `sendto`, or
about to clear the very event that is meant to wake it.  The network proxy locks one ring at a time, takes a message,
looks again for a higher one and may put the first one back, possibly into a ring that has filled meanwhile.
The file service mixes three lists, two descriptors per file and a clock in one thread.  The message queue has two
conditions that are signalled once per item.  A link request is shared between a caller that may leave, a walk over the
list that may stand on it, and an event that is written outside of the lock.  The event loop is told of an arrival once.
zlog renews the buffers of a thread when that thread logs the next time, and rotates files other processes write to.  And the daemon's parts call back into each other while `main` is still
building them, or already taking them down.  `PROJECT.json` lists the hazards at their lines, with the properties that
would catch each.

**What makes each component correct.**  *Transmit path and buffers:* a buffer is in one place; nothing waits behind the
queue pointer; no wakeup is lost; top priority first; stop ends the thread.  *Receive path:* a buffer is in one place;
a datagram is taken; stop ends both threads.  *Network proxy:* a message is sent once, dropped or waiting; order within
a priority; the preemption check is not stale; the payload is alive when sent; one consumer and one listener per port.
*File service:* a file that nobody disturbs is published whole, in order and once, and leaves nothing behind.  *Message
queue:* a bounded FIFO; nobody waits for what is there; a payload is freed once; destruction releases the waiters.
*Lifecycle and glue:* a thread never outlives its memory; nothing is freed twice; no callback meets a pointer that is
not set.  *Link requests:* a command is never touched after its waiter has left, every call returns.  *Proxy server:* what
arrives is read in the end, and a connection is closed when all of it has been.  *Mini-XML, configuration:* links agree
in both directions, walks and indexes find every node, nothing is freed twice; a file reads back as what was written, and
each value ends in its field.  *Logging:* a record is formatted by the configuration in use, with buffers made for it;
only the limit on archives loses records, the oldest first.

## 2. Plan

Most important behaviour first; each module is written with its parameters as CONSTANTS and one action per operation.
The modules of the daemon's threads have no RECURSIVE operator, so that they can be proved about; those of Mini-XML and
of the configuration walk trees, and stay with TLC.

| Step | Modules | State |
|---|---|---|
| 1. transmit scheduler, abstract mailbox | `TlsTransmit`, `TlsOutbox`, `MCTlsTransmit` | done |
| 2. first proofs | `TlsTransmitProofs`: types, pointer, wakeup, refinement | done |
| 3. network proxy send path, abstract relay | `NetProxyQueue`, `NetProxyRelay`, `MCNetProxyQueue` | done |
| 4. receive path | `TlsReceive`, `MCTlsReceive` | done |
| 5. start of the network proxy | `NetProxyBoot`, `MCNetProxyBoot` | done |
| 6. file service | `FileTransmit`, `MCFileTransmit` | done |
| 7. message queue of net_proxy_v2, abstract channel | `MsgQueue`, `MsgChannel`, `MCMsgQueue` | done |
| 8. start and clean-up of the daemon | `DaemonLifecycle` | done |
| 9. link status requests on the linked list and the event | `TlsRequest`, `TlsList`, `TlsEvent`, `MCTlsRequest` | done |
| 10. event loop of the proxy server | `ProxyEvents`, `MCProxyEvents` | done |
| 11. logging | `ZlogStore`, `ZlogBuf`, `ZlogThread`, `ZlogConf`, `ZlogFiles`, `Zlog`, `ZlogChecks`, `MCZlog` | done |
| 12. configuration files | `MxmlText`, `MxmlNode`, `MxmlSearch`, `MxmlFile`, `TlsConfig`, `Mxml`, `MxmlChecks`, `MCMxml` | done |
| 13. buffer ownership of both paths and the receive event, proved | `TlsTransmitProofs`, `TlsReceiveProofs` | done |
| 14. the message queue and its refinement, proved | `MsgQueueProofs` | done |
| 15. the rings of the network proxy, the preemption check and the refinement, proved | `NetProxyQueueProofs` | done |
| 16. one transmit thread however the proxy is started over, proved | `NetProxyBootProofs` | done |
| 17. the wait list of the link requests and their time-outs, proved | `TlsRequestProofs` | done |
| 18. blocks, descriptors, order and sleep of the file service, proved | `FileTransmitProofs` | done |
| 19. the event loop of the proxy server, proved | `ProxyEventsProofs` | done |
| 20. rate statistics over an interval | `RateStatis` | only if it earns a module |

Abstract specifications: `TlsOutbox` (a mailbox with priorities), `NetProxyRelay` (a relay that may hold one message) and
`MsgChannel` (a bounded channel that can be closed).

## 3. Modules and code

A definition that no action uses and that stands before one with a similar body (`FullOnce`, `SocketFreedFirst`, ...) is
a faulty variant of it.  The pairs are listed in `PROJECT.json` under `mutants`: with the variant in place of the
definition, the named property fails, which shows that the property depends on that line of the code.  `PROJECT.json`
also maps every definition to the lines it models.

Grain, everywhere: one action per critical section, or per read or write of a field that is shared without a lock.  A
wait for an event or a condition is a step that is only enabled when the wait ends.  Datagrams, messages and files are
abstract values; what is written into them does not matter to the properties.

**`TlsTransmit`.**  `Produce(c)` is the front of `tls_server_register`, `tls_server_transmit` and
`tls_server_vsoa_publish_transmit` (test of `start_`, priority, acquire); `PushCheckStart`,
`PushInsert`, `UpdateTransmitQueue`, `TransmitActive` are the four stages of `tls_transmit_push`, each under another lock or none.  The
thread is `tpc`: `ThreadWake`, `PollLock` to `PollSettle` under `queue_transmit_lock_`, with `HandlePop`,
`HandleSend` (which may block, fail, or skip a datagram marked `TLS_VSOA`) and `HandleRelease` in between.  `spc` is
`tls_server_stop` and `tls_transmit_stop`, including the cancellation of a thread that is stuck in `sendto`, which then
dies with the lock and a buffer (`tpc = "dead"`).  `queue_transmit_ == NULL` is `NoQueue`.  Pools are sets.

**`TlsOutbox`** promises the same without pointer, event, pools and locks.  The refinement maps a push between its
insert and its raising of the pointer to `posting`.  The receive list is a mailbox of the same kind, with one producer
and one priority (`Inbox` in `TlsReceive`), except that a late datagram is not promised to be taken.

**`TlsReceive`.**  `rpc` is the receive thread, `wpc` the work thread, `spc` the server's start and stop.  `late` records
the datagrams pushed between the worker's last look at the list and its reset of the event.

**`NetProxyQueue`** keeps the rings as arrays with `head`, `tail` and `count`.  The RPC callback pushes; the transmit
thread scans down, takes, scans the higher rings again and sends or puts back.  `accepted`, `sent`, `requeued`,
`dropped` and `late` only record.  **`NetProxyRelay`** is what that promises.

**`NetProxyBoot`** has `main` and the RPC thread run `tls_net_proxy_init` and `tls_net_proxy_start_listening`, one step
per system call and one per store to a field, so that each start can come between the other's `close` and its store of -1;
descriptors are handed out lowest first, and ports can be taken.  What a call returns is stored in the same step: with
`socket()` and its store apart, the run found the same.  Of the rings it keeps whether a message waits, which an
initialisation drops.

**`FileTransmit`** has the subscription's callback, the work thread (one action per handler of an entry, as
`file_transmit_file_entry_poll` goes through the list) and the stop.  Sizes are counted in blocks, the file on disk is a
function from block numbers to what was written there.  `hurt` and `late` only record.

**`MsgQueue`** has the callback on any number of threads, the worker, and the destruction from the signal handler.  A
thread at a condition is `"wait"`, then `"woken"` until it gets the lock.  **`MsgChannel`** is what it promises.

**`TlsRequest`** has callers of `tls_request_link_info`, the command thread and the stop.  The wait list is kept as it is
linked (**`TlsList`**, the intrusive ring of `com/tls_list.c`), the events as they are made (**`TlsEvent`**, a flag and a
pipe that can disagree, in memory that nobody cleared).  The walk of the command thread is a step per node.  The stop
begins with that of the RPC server whose threads call: it waits three seconds at most and then cancels them
(`StopRpc`, `CallerCancelled`), so a caller may die in the wait, its command on the list, or closing the pipe of its event.  Time is in
seconds, ages are unsigned numbers of `U64` values, and somebody may set the clock back `MaxSteps` times.

**`ProxyEvents`** goes through `main` of the proxy server call by call, then takes batches of events and handles them one
by one while peers connect, send and close.  `edge` is what the kernel has yet to report, `left` a history of what a
handler knew to leave behind.

**`Zlog`** has the threads of the daemon log, rotate and reload under `zlog_env_lock`, the configuration file being
edited, and a second process that logs to the same files.  What is done under the write lock is one step; a rotation is
one step per `rename` or `unlink`.  It is put together from **`ZlogConf`** (text to rules, levels and bitmaps),
**`ZlogFiles`** (the plan of a rotation), **`ZlogThread`** (what a thread keeps between records, conversions),
**`ZlogBuf`** (message buffers) and **`ZlogStore`** (array list and hash table).  **`ZlogChecks`** compares the operators
of these with what they must compute, over bounded inputs, in ASSUMEs that the run evaluates: most of `ZlogStore`,
`ZlogBuf` and `ZlogThread` (containers, the growth of buffers, conversions) is checked there and nowhere else, and only
what a record needs of them is part of the actions of `Zlog`.

**`Mxml`** is a caller of Mini-XML that loads a document token by token, into a tree of its own or a new one, reads the
configuration from it, calls on the tree in any order and deletes it.  A heap gives every block the node it holds, so that
a freed node can be met (**`MxmlNode`**: nodes, attributes, values; **`MxmlSearch`**: walks, finds, paths, indexes;
**`MxmlFile`**: reading and writing; **`MxmlText`**: characters, entities, string buffers).  **`TlsConfig`** has the
loaders of the configuration.  **`MxmlChecks`** evaluates the operators over bounded inputs and over the configuration
files of the repository.  The caller hands in no node it has freed and puts no node into itself.  A close tag
may name the tree the caller loads into, a declaration or a directive, as the code accepts; under a SAX callback the first
takes the caller's tree away (`topless`).  An element whose last attribute was taken away may be given one again, which
uses a freed array; the caller stops there (`Misused`).

**`DaemonLifecycle`** keeps `main` as the sequence of operations it has still to do; every start, stop and clean-up
function is such a sequence.  An operation that can fail sends `main` through that part's clean-up and then through
`api_transmit_uninitialize`.  Meanwhile the callbacks that reach into another part begin (reading the pointers they
use) and return.

## 4. Runs

| Run | Instance | What it shows |
|---|---|---|
| `tls_transmit` | 2 producers, 2 buffers (one preallocated), 3 priorities, stop at any moment | buffers are neither shared nor lost, pool by pool, and stopping loses at most one per producer; the scheduler implements the mailbox, liveness included; the pointer covers every queue; no lost wakeup; stop ends the thread; a top-priority datagram is served under any load, given a fair lock |
| `net_proxy_queue` | 4 messages, rings of 2, 3 priorities | no message lost, doubled or overtaken without a preemption; the check is never stale; rings and scans implement the relay; every accepted message leaves |
| `net_proxy_payload_lifetime` | same | **violation**: the payload is read after its callback has returned |
| `tls_receive` | 4 buffers, 1 preallocated | buffers kept, datagrams taken in the order of arrival (the mailbox again), threads end; exactly which datagram may wait for the next one |
| `net_proxy_boot` | 10 descriptors, a link map of 0 or 3 entries, any number of RPCs | one transmit thread, served sockets, at most seven forgotten ones; only the start of `main` drops messages that wait |
| `file_transmit` | files of 2 and 1 blocks, 2 block structures, one failure or restart | blocks and descriptors kept, undisturbed files published whole and finished; exactly when the worker sleeps on a block |
| `msg_queue` | 2 callback threads with 3 calls each, 1 worker, 2 places, one failed allocation | bounded FIFO, no lost wakeup, payloads freed once, messages forwarded, those of one callback in the order of its calls |
| `daemon_lifecycle` | the whole program, unbounded | no thread outlives its memory, nothing freed twice, which callbacks can meet freed memory, what is left at exit, no message to a daemon that is up finds a pointer not set |
| `tls_request` | 2 callers, 2 commands that are recycled, ages of 16 values, one step back of the clock | the walk never stands on freed memory; nobody is timed out early but by that step; every call returns or is cancelled; whenever the stop comes, what callers that were cut short left is all that is left, and nobody works on the request after its memory is freed |
| `proxy_events` | 2 connections, 1 free descriptor, messages of up to 2 buffers, 1 datagram, batches of 2, one failing call | exactly what an edge-triggered handler leaves behind; events are current when handled; connections closed whole; everything else handled |
| `zlog` | 2 threads and a rival, 3 configuration texts (one refused), 4 records, 2 reloads, one failure or crash | rules, bitmaps and buffers in use are those of the configuration in use; only the limit on archives loses records, in order |
| `mxml` | 20 tokens in documents of up to 3, configuration files of up to 6 tokens (of 6 kinds), 4 sets of options, 7 blocks, 2 calls on trees of 2 tokens, room for 2 queues | links, walks and indexes sound but where the sort of an index leaves its array, and where exactly that is; nothing freed twice, used after free or lost but in two named cases; written and read again a tree is the same but for a last value no tag ends; queues in file order, a third one behind the table |

**Bounds, and why they suffice.**  `MaxPri = 2` is the least number of queues in which the pointer has one above and
one below the level of a push.  Two producers give two overlapping pushes; a third adds no new pair.  Two buffers let
one wait while the other is in hand; one preallocated buffer makes acquire take both of its branches.  Rings of two
wrap after two messages, and four messages fill a ring, wrap it and refill it while its message is in hand.  Four
receive buffers let the list hold several while both threads have one.  Ten descriptors are more than the starts can
hold, since the ports stop the leak at seven (with fourteen it is seven as well).  Two blocks for a two-block and a
one-block file make memory run out; `MaxTrouble = 1` is one failure or restart, as a second one meets a file that is
already excluded from the promises.  Two places and two callbacks are the least at which a newcomer can take the place
another thread was woken for; `MaxCalls = 3` lets each fill the queue and wait.  Two callers let one leave, and its
command be used again, while the walk stands on the other's; `U64 = 16` lies far above the ages in use (2 and 3), so
that only a clock set back reaches the wrap. `Together = FALSE` keeps a stop and a clock set back out of one run, for
time: with `TRUE` TLC finds 735,174 states and no error, and the proofs do not depend on it.  A message of two units
with `Buf = 1` is the least that one `recv` does not take; a batch of two cannot hold the three that can be ready; one
descriptor for two connections makes `accept` fail.  `MaxRecords = 4` with a size limit of one fills the log file, its
two archives and one more; two reloads bring in the refused text and then the one that changes rules and buffers. A
document of three tokens has a tag in a tag and what closes or ends it.  A configuration file of six has a section
with three queues, one more than `QueueMax`, or with two that follow each other or stand in each other, behind a
directive; TLC meets the overflow and both orders of two different queues.  Two calls are the least in which one can
spoil what the next uses.  `Size`, `Capacity`, `Together` and every bound named `Max...` are the only cut-offs.
Symmetry is used in `zlog` alone, over threads, which are interchangeable; it has no liveness property.

Deadlock is checked in the two runs of `NetProxyQueue`, whose thread never ends.  It is off elsewhere because the
system really rests: after stop, after exit, when the files are sent and the proxy is up, or when nobody calls any more.

**Fairness.**  Threads that can take a step do (`WF`), as the scheduler of the operating system promises.  Nothing obliges
a producer to publish, a message to arrive, a signal to come or a server to stop.  Beyond that:

* `TlsTransmit`: that a producer waiting for `queue_transmit_lock_` is not overtaken for ever is a property of the mutex
  that POSIX does not give; it is a premise (`LockFair`) of the property that needs it (`TopServed`), not part of the
  specification.
* `TlsReceive`: `recvfrom` on an open socket may block for ever; once the socket is shut down it returns.
* `FileTransmit`: reading a file is strongly fair since its interval keeps elapsing while the worker polls.
* `MsgQueue`: the destruction of `not_empty` waits for the worker to be off it; the worker's wait lasts a second, so the
  moment recurs and the end of the wait wakes the destroyer: strong fairness.  That of `not_full` gets weak fairness.
* `NetProxyQueue`: sending is bounded by its connect timeout, so the thread is weakly fair.
* `TlsRequest`: time passes, and a call of `select` with a limit returns.  The callers compete for the lock with a thread
  that sleeps a millisecond between two walks without it, so the lock is free again and again for long: strong fairness
  of their taking it.  A caller that is in a call when the RPC server stops goes on, or is cancelled.
* `ProxyEvents`: `main` keeps running; peers owe nothing.
* `NetProxyBoot`, `DaemonLifecycle`, `Zlog` and `Mxml` have no liveness properties.

## 5. Proofs

Every theorem is proved for all values of the constants that the named assumptions allow: any number of threads, buffers,
messages, files and descriptors, queues and rings of any size.

| Module | Theorem | Statement |
|---|---|---|
| `TlsTransmitProofs` | `TypeCorrect` | `Spec => []TypeOK`; in particular the pointer stays within the array of queues |
| | `NothingBehindPointer` | `Spec => []PointerCovers` |
| | `NoWakeupLost` | `Spec => []NoLostWakeup` |
| | `TransmitIsOutbox` | `Spec => Outbox!Spec`: every step is a step of the mailbox or leaves it unchanged |
| | `BuffersAreKept` | `Spec => []BuffersKept` of the transmit path |
| `TlsReceiveProofs` | `ReceiveBuffersKept` | `Spec => []BuffersKept` of the receive path, with its types |
| | `OnlyLateStranded` | `Spec => []StrandedOnlyLate` |
| | `ReceiveIsOutbox` | `Spec => Inbox!Spec`: the receive list implements the mailbox, the safety half of `InboxServed` |
| `NetProxyQueueProofs` | `MessagesConserved` | `Spec => []Conserved` |
| | `PreemptionCurrent` | `Spec => []SendCurrent` |
| | `SentInOrder` | `Spec => []OrderKept` |
| | `QueueIsRelay` | `Spec => Relay!Spec`: the rings and the two scans implement the relay |
| `NetProxyBootProofs` | `OneConsumer` | `Spec => []OneTransmitter` |
| | `RestartsAreContained` | `Spec => []RestartsContained` |
| `MsgQueueProofs` | `WakeupsKept` | `Spec => []NoLostWakeup` |
| | `PayloadsFreedOnce` | `Spec => []PayloadFreedOnce` |
| | `QueueIsChannel` | `Spec => ImplementsChannel`: the queue implements the bounded channel |
| | `TakenInOrder` | `Spec => []InCallOrder`, the safety half of `QueuedForwarded` |
| `TlsRequestProofs` | `WaitListKept` | `Spec => []WalkSound` |
| | `TimedOutLate` | `Spec => []OnlyTimeouts` |
| | `StopsSound` | `Spec => [][LeftBehind' /\ Untouched]_vars`, the safety half of `StopEnds` |
| `FileTransmitProofs` | `BlocksAndDescriptorsKept` | `Spec => []BlocksKept` |
| | `WholePublished` | `Spec => []PublishedWhole` |
| | `SleepsOnLate` | `Spec => []AsleepOnlyLate` |
| `ProxyEventsProofs` | `EventsAreSound` | `Spec => []EventsSound` |

Assumptions, all named `ASSUME`s of the modules, which TLC evaluates in the runs: sentinels (`NoBuff`, `NoBlock`, `NoCmd`,
`Head`, ...) are none of the things they stand for the absence of; bounds are natural numbers; preallocated memory is
part of the memory there is; threads of the message queue, commands and descriptors are finitely many; there is a file,
and files have at least one block; connections of the proxy server are finitely many and no listeners; ages have more than four values (`U64`).

*Transmit, scheduling.*  `PointerCovers` is not inductive: that the thread's lowering of the pointer is safe depends on
where the thread is, what it holds and that the queue it leaves is empty.  `IInv` is `Control /\ Scheduling`.  *Control*
says what each program counter means: types; the lock is taken exactly while the thread is between poll and settle; the
pointer is a queue while the thread polls one; whoever is past acquire has a buffer; the stop sequence clears its flags
in order.  It is inductive by itself (`InitControl`, `NextControl`).  *Scheduling* adds that the queue the thread found
empty is still covered by a push to come if it is not empty any more (`EmptyFresh`), `PointerCovers`, and `PushWakes`;
it is preserved given *Control* before and after (`NextScheduling`).  The refinement cites `IInv`: a delivery is allowed
by the mailbox because whatever waits above the pointer is being posted.  That the thread sees its stop (`StopWakes`) needs
that `run_` is cleared before the signal (`StopOrder`): a poll may still reset the event afterwards, but then the thread
tests `run_` before it would wait.

*Transmit buffers.*  `BuffersKept` counts the places a buffer is in, and a count is not inductive.  `Kept` names the
places instead: no two kinds of place share a buffer (`Apart`), no list, hand or pool holds one twice (`Once`), pools
and queues hold buffers of their own priority (`OwnPools`, `OwnIn`), and every buffer that is nowhere was dropped by a
push that found the server stopped, one per producer (`Leak`).  It is preserved given *Control* (`NextPlaces`,
`NextLeak`), and `OwnersPlaced` turns it back into the count.

*Receive path.*  The same places, with `Ended`: the drain finds both threads ended, which is why the pool is complete
afterwards.  For the event, `EventUp`: it is up from the wakeup to the reset, as only the worker clears it; and
`Announced`: what is in the list between the worker's last look and the reset is late, and so is what is in the list
when the event is down and no push is between its insertion and its signal.  A push is on its way to the signal as soon as
it has inserted, which is what the order of `tls_receive_push` is for.  For the refinement, a datagram is submitted by the
push and posted by `tls_server_active`; the worker takes the head of the one FIFO, and what the drain drops was in a mailbox
that is closed.

*Network proxy, rings.*  The lemmas on indexes modulo `Size` come first: a push into a ring appends to the FIFO the ring
stands for and a pop takes its head, wherever the head is.  With these and *Control* every step of the model is one of a
few kinds of steps of the FIFOs (`StepKinds`), and the rest is about those.  `Current`: while the thread checks the rings
above its message, those it has passed hold only messages that came after it took the message.  `Owned`: each accepted
message is in a FIFO, in hand, sent or dropped, and there once (`Somewhere`, `Apart`, `Once`).  `Order`: of two messages
of a priority, the older is before the newer wherever they are, unless the older was put back or dropped.  The refinement
maps the rings to the relay's sequences.

*Network proxy, start.*  One transmit thread means that no two starts get past the UDP port, although each works on
whatever descriptor the other has left in the field.  A start that has bound the port keeps the other off, unless that one
finds this very socket in `udp_fd` and closes it when its own bind fails.  The invariant shows that then the TCP port is
taken, by a socket that no start under way can close (`ListenRace`, `BothListen`, `CloseRace`), so that no further start
gets past the TCP part (`Barred`).  `Fields` says what a field may hold between a `close` and the store of -1: a
descriptor that is closed, or that the other thread has opened as something else.  It holds for every set of descriptors, also when they run out in the middle of a start.

*Network proxy, starting over.*  That at most seven sockets are open and forgotten, however many starts there are, is not
inductive.  One socket listens and one has the UDP port (`Ports`); the rest is an account (`Debt`), of at most five.  A
socket is *lost* if the RPC thread is not where it will bind or close it.  The RPC thread's steps lose none, so its many
starts cost nothing; main starts once, and what its start can still cost, three TCP sockets and one UDP socket at first,
is the credit that its steps use up.  Two of its steps cost one more TCP socket if nobody listens yet; that nobody stops
listening while main has yet to bind is `RpcAlone`.  The fifth is for main's end (`FailCredit`): between its `close` and
its store of -1 the RPC thread may open a socket, of either kind, which the store forgets.  The RPC thread's own store
forgets none, since a socket that main opens is already accounted for.  `Served` has for each descriptor in a field its
thread, or a start that will create one, close the descriptor or clear the field; when no start is under way, only the
thread is left.  `Rings`: the RPC thread puts a message into a ring only when it has entries, and then starts no more,
so its starts find the rings empty.  TLC checked this invariant before it was proved.

*Message queue.*  `NoLostWakeup` has a half for each condition: the free places (the messages) are at most the threads
that were woken and have not run yet, if anybody waits at all.  A newcomer that takes a place leaves it to a woken thread
to wait again, which is why a count of the woken and not of the waiting is kept.  *Control* has `count = Len(list)`
until the destruction, and what the flag says of the destroyer; `Owned` the one place of each message.  The order of calls
is not the order of the channel, which knows no callbacks: `PastCalls` says that what is in the queue or was taken comes from
an earlier call than the one its callback is in, so that what a callback inserts is later than all it has inserted before.

*Link requests.*  `WalkSound` speaks of a list that is followed pointer by pointer, a recursive function.  `Listed` says
that the links put the head and the commands that are waited for into an order in which either link of a node names its
neighbour; `InsertTail` and `RemoveNode` keep such an order.  That the walk finds the nodes in this order, and stops, is
proved by looking at the least place at which it would not.  `IInv` adds that each call has a command of its own
(`Owned`), that the walk holds the lock and stands on the list (`Walks`), and for `OnlyTimeouts` what an event says of its
command (`Answers`) and that the walk never takes an age for more than it is unless the clock is set back (`Ages`).  For
`LeftBehind`: a command that is not in the heap is in the hands of a caller that is in a call (`NoneLost`), and once
`tls_request_stop` begins each caller is idle or was cut short (`AllEnded`, which is `pthread_join` of the RPC thread); so
what is missing from the heap is one command of each caller cut short, and the list holds those of callers cut while they
waited.  `Untouched` needs that the command thread has ended when the memory is freed (`EndGone`).

*File service.*  The blocks in the worker's hands, in the queue and in the callback's hands are one sequence, their *way*,
which handing on does not change.  `Owned` places each block: free, on its way or with an entry.  For every file that was
not disturbed there is a block that is *due* at the worker (`Flow`): those on the way are that one and all after it that
were sent, in order and without a gap, and the file's only entry holds all before it.  `Fine` says the rest of the entry:
its pending blocks follow what it has written, the file on disk is what it has written, what it has published is a prefix
of that, and the write descriptor is open in the middle of a file only.  From these follows that a block after the first
always finds its entry, that nothing is pending when the last block has been read (`SentIsWhole`), which in turn is
why freeing an entry loses no block, and that completing closes the last descriptor (`Readable`).  `Fds` counts
descriptors; one that a failure left behind is in excess.  `Awake`: while there is a block that is not late, an entry
stays in the list, because the worker reads at most one block of it per round and its last one is not written yet.  That
the worker does not sleep through its stop is `StopSeen`.  The strengthened invariant was checked by TLC on the run's instance before it was proved.

*Event loop.*  That edges cover what is pending (`Cover`) has to hold from the start, when a listener is registered after
the first peers have connected; the registration then reports it.  That the batch is current needs that no descriptor is
in it twice (`Once`), which is where the sequence of what `epoll_wait` returned comes from a set, and that a handler takes
only from its own descriptor: the connections in the backlogs are all different (`Queues`), so an accept touches no other.
That nothing of a closed connection is unpublished rests on an account, what is published and what is unread make up what
was given (`Account`), which holds because the publisher is enabled, if ever, before the first listener opens (`Quiet`).

The modules whose proofs are about queues begin with the same two lemmas: the items of a queue after an insertion at the
tail (`AppendItems`) and after a removal from the head (`TailItems`).  Every preservation lemma has one step per action.

Only model-checked:

- everything with fairness (`TopServed`, `StopTerminates`, `StopCompletes`, `FilesFinish`, `AcceptedSettles`, `CallReturns`, `Served`,
  the leads-to halves of `InboxServed`, `QueuedForwarded` and `StopEnds`, whose safety halves are proved, and the liveness
  of the refinements), which is beyond TLAPS;
- what the recursive operators of Mini-XML and of the configuration compute (`TreeSound`, `ReadsBack`), which TLAPS cannot
  reason about;
- `DaemonLifecycle`, which has no constants: its run is exhaustive, and a proof would add nothing to it;
- `Zlog` (`EnvSound`, `LogsKept`): both speak of what selections and folds over the lines of a configuration, the rules and
  the archives compute, which needs induction over data; the operators are compared with their definitions over bounded
  inputs.

## 6. Findings

**Payload lifetime** (`SendsLivePayload`).  `tls_net_proxy_push_to_prio_queue` keeps the payload pointer of the RPC
callback (`tls_net_proxy.c:94`), and the transmit thread reads through it later.  `vsoa_server.h:116` says the payload
is invalid when the callback returns.

Behaviour worth knowing that is part of the models:

* Transmit path.  `TLS_UDP` is 0 and the `TLS_VSOA` branch of `tls_transmit_handle` is compiled out: datagrams published
  by the VSOA functions are queued, taken and released without being sent; a recycled buffer keeps its mode.  A refused
  push loses its buffer (`BuffersKept`), and a transmit thread cancelled in `sendto` leaves the lock held.
* Receive and file worker can leave one datagram, or block, for the next to push out (`late`).
* File service.  A publish that fails has consumed the data it read from the file, so that entry never completes; a file
  that is started over while its entry exists truncates what the first one reads.
* Network proxy.  The callback loads the link map into a static of its own and starts `g_net_proxy` over
  (`app_transmit.c:738-749`); with the shipped `link_map.json`, whose entries stand under another key than the loader
  reads, every RPC does, and the TCP listener the documented test connects to is gone after the first.
* Daemon.  The TLS subscriber runs before `app_publish` is there and its callback does not test the pointer: a message in
  that window ends the process (`StaysUp` says only in that window; of what is in a message it says nothing).  The clean-up after a failed start frees
  `app_publish` under the TLS subscriber and the proxy, never stops the application's subscriber, and
  `tls_statis_rate_stop` passes the address of a local pointer to the functions that stop its threads.
* Link requests.  Nobody answers a command, so every request ends in the two seconds' timeout (`OnlyTimeouts`).  An event
  in memory that was not cleared can be signalled without a message or reset itself; `tls_copy_linkinfo_toapp` inverts
  the result, and an unanswered request writes 0, which `app_linkinfo.h:81` calls success.  A caller that the RPC
  server's stop cancels (`app_vsoa_rpc_server.c:226`) leaves its command unfreed, and linked if it was waiting; nobody
  follows the links afterwards (`LeftBehind`, `Untouched`).
* `net_proxy_v2`.  `msg_queue_destroy` wakes no waiting push, though `msg_queue_push` expects to be woken
  (`common.c:268`).  `proxy_server.c:279` compares a message type with a transport constant: text, the type the callback
  builds, always goes over UDP.  The edge-triggered loop accepts one connection and reads one buffer per event: a second
  connection, the rest of a message, and a close that came with data wait for the next arrival, and a descriptor whose
  close is never seen stays open.
* zlog.  A message longer than the buffer is dropped, not cut, once a later conversion finds the buffer full
  (`zlog_format_gen_msg` stops at every non-zero code).  A reload that fails while the categories are renewed is not
  rolled back, although the comment says so: the renewed ones keep rules that are freed (`halfway`).  An unknown level in a rule (-1) lets every level through.  Rolling
  numbers archives by their place in the list, which overwrites one only where two neighbouring numbers are missing; the
  other numbering keeps one archive more than the limit.  A rotation whose lock is taken is skipped.  In the shipped
  `zlog.conf` the format "normal" lacks its semicolon and is not used, and no reload period is set (the instance sets one).
  If `tls_log_initialize` finds no category, zlog stays initialised.
* Mini-XML.  `index_sort` leaves its array when the pivot comes to rest at place 0 (`wild`): always if the node found
  first is below all others, which is how a document with its smallest name first is indexed.  Clearing the last attribute
  keeps a pointer to freed memory (`mxml-attr.c:59`), which setting the next one reallocates (`misused`).  A close tag
  that names the tree the caller loads into releases it under a SAX callback (`mxml-file.c:1300`), and a failure after
  that frees the node that was read first again.  A failed load deletes nodes the
  callback retained, and deletion of a tree ignores the counts of the nodes under it.  An unclosed root, and a bad number
  directly under it, are accepted; text behind the root is a node nobody can reach, a root with bad attributes likewise.
  With NULL options values have the type "ignore" and are dropped.  The last low surrogate is refused.
* Configuration.  `tls_load_transmit_queue` does not count: a ninth queue is written behind the table (`over`).
  Attributes are taken by their place, not by their name, and copied without a length.  The defaults set the local port
  twice and the remote one never; without a file the UDP endpoint gets no defaults at all.  A tree that ends with a value
  under a directive or declaration, closed by a tag, is not the same when it has been written and read (`EndsOpen`).

## 7. Not modelled

* In Mini-XML: the whitespace callback and the wrap margin of the writer, user data, the locale of real numbers, string
  callbacks per thread, allocation failures.
* In zlog: paths that depend on the record, pipes, syslog and record functions as outputs, the variants `dzlog` and `hzlog`,
  the length `mdc.c` keeps of a value it has cut, and a static file that is opened again without the lock.
* Conversions of link tables and messages (`tls_linkinfo.c`), URLs, headers and link maps: sequential, and they decide no
  schedule.
* The UDP and TCP wrappers: they appear as steps that may block or fail.
* In the event loop of the proxy server: the error and hang-up events of a descriptor, and resets.
* In the callbacks of the daemon: sizes and addresses in a message that nobody checks (`file_transmit.c:578`).
* A ring's mutex that is initialised again while somebody holds it (`tls_net_proxy.c:30`): undefined.
* The rate statistics' counters: for display.
* A signal that reaches another thread than `main` of `net_proxy_v2`; use after free of the queue in its last moments, and
  the destruction of a condition somebody waits on: undefined, with no outcome a model could choose.
* The descriptor numbers in `tls_server_stop`, which closes its UDP descriptor again in `tls_server_close_udp`, and the
  `close(0)` of events that were never initialised: the numbers may belong to somebody else by then.
* The VSOA library and cJSON are third-party code.  Assumed of VSOA: a payload is valid until the callback returns,
  callbacks of one server or client run on one thread, and stopping a client waits for its callback.
* `tls_net_proxy_stop_listening`, `on_response`, `file_consume`, the serialisers of `common.c` and the dialog server are
  called by nobody.
