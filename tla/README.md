# Snowy in TLA+

Snowy is a C++20 coroutine library: lazy tasks, a single-threaded event loop over
io_uring, kqueue or I/O completion ports, and primitives built on the loop. This
directory holds TLA+ models of it, TLC configurations that check them on small instances,
and TLAPS proofs for all instances: every safety property, action property and refinement
that a run checks is also a theorem.
`PROJECT.json` maps each definition to the source lines it models and lists the hazards the
properties are aimed at.

    tlc -config MCLoop.cfg MCLoop     # one run
    tlapm LoopProofs.tla              # the proofs of one module

## The system

A `loop` belongs to one thread. `run()` repeats: take posts and a budget of messages and
run them, `expire()` (cancellation scan, due timers), resume a budget of ready tasks, look
for new posts, leave or `poll()` the driver. A suspended coroutine owns an operation
(`detail::op`): a timer in `timers_`, a request in `io_`, or a wait in `waits_`. Other
threads only `post`, send a `message`, `stop`, hold or release a guard, or request a stop of
a token; its callback marks the operation, sets `cancel_` and wakes the loop. Everything
else is built on this.

| part | source | module | what is modelled |
|---|---|---|---|
| event loop | `loop.cpp`, `loop.hpp` | `Loop` | `run` step by step, the scan, timers, posts, messages, hops, guards, stop, every store of the stop callback |
| channel | `channel.hpp` | `Channel`, `Ring`, `Fifo`, `Queues` | every operation |
| mailbox | `mailbox.hpp`, `wait_queue.hpp` | `Mailbox`, `Ring`, `Fifo`, `Queues` | every operation, from several loops |
| futex | `futex.hpp`, `wait_queue.hpp` | `Futex`, `Futexes` | wait, join, notify, cancellation |
| task | `task.hpp` | `Task` | creation, moves, assignment, destruction, `co_await`, final suspend, results and errors |
| spawn, sync_wait | `spawn.hpp`, `sync_wait.hpp` | `Spawn`, `Bridges` | producer, the ways to consume, lifetime of the state |
| when_all, when_any, timeout | `when.hpp` | `When`, `Inputs`, `Joins` | launch, collect, barrier, result |
| worker pool | `pool.hpp`, `pool.cpp` | `Pool` | run, enqueue, workers, destructor |
| files | `file.cpp`, `file.hpp` | `File` | open, transfers, `write_all`, flush, move, close and the use count, over the pool |
| io_uring driver | `uring.cpp` | `Uring` | submit, cancel, poll, wake, DRAIN, IOPOLL, failing submissions |
| provided buffers, multishot loops | `uring.hpp`, `uring_multi.hpp`, `uring_net.cpp` | `Provided` | put, chunk, each, stream; receive, recvmsg, accept, watch, ticks |
| io_uring batches | `uring_ops.cpp` | `Batch` | submit with links, reservation, cancellation, barrier |
| zero-copy send, registered buffers | `uring.hpp`, `uring_net.cpp`, `uring_ops.cpp` | `Native`, `Natives` | request objects, primary and notification completions, the direction flag, the buffer table and its pins |
| sockets, UDP | `socket.cpp`, `udp.cpp`, `detail/io.hpp` | `Requests`, `Sockets` | streams and datagrams: direction flags, ownership of descriptors, the scan |
| kqueue driver | `kqueue.cpp` | `Kqueue` | submit, cancel, poll, wake |
| IOCP driver | `iocp.cpp` | `Iocp` | submit, cancel, poll, wake |
| event | `event.hpp` | in `Loop`, `When`, `Pool`, `Provided` | set, wait and join as these use them |

Composition: `Kqueue` and `Iocp` extend `Requests`, which has what the drivers share;
`Sockets` extends both and is a loop over either of them. What the two drivers have in common
by name carries a K in the one and a P (for port) in the other: `KCancel` and `PCancel` are
`loop::cancel` of `kqueue.cpp` and of `iocp.cpp`. `Spawn` extends `Task`: its bridges are the roots
of trees of frames, and what they produce is what the frames below them return or throw.
`File` extends `Pool`: a file operation is a call of `run()` with a job that reads the file
object. `Submissions` puts `Batch` and `Natives`, the two users of native submissions, side by
side. `Channel` and `Mailbox` use the buffer `Ring`; `Queues` is either of them and is shown to
implement `Fifo`, what a bounded channel promises. `Futexes`, `Joins`, `Bridges` and
`Natives` are programs that use `Futex`, `When`, `Spawn` and `Native`, and say what these promise;
state that a module shares by name with another one of the same proofs has a letter in front
there (`fst`, `jvalue`, `cst`, `ncq`), so that one proof module can be about both. `Inputs` has
the constants of `When`. The models above the loop take from it only what the theorems and runs
about `Loop` establish: a ready task is resumed, a message runs, a canceled wait is served.

What runs under one lock, or on the owner thread without anything another thread can see in
between, is one action. What another thread can see half done is several: the three stores
of a stop callback, the decrement and the wake of `~guard`, the two stores and the wake of `stop()`,
a delivery, the unlock before a notification. Each store is an action in `Loop`; the
modules above treat a stop callback as one step. Kernels, condition variables, the clock
and `stop_source` are external, modelled from how the code uses them.

Data is reduced to what decides control: payloads are model values, deadlines are due or
not due, errors are classes, byte counts are left out. Where one appears in `Ring` (indices
modulo the capacity, which may be zero) the arithmetic is the code's.

## Runs

Each run is a configuration of the module `PROJECT.json` names. States are distinct states.

| run | states | what it shows |
|---|---|---|
| `loop` | 1 171 008 | two tasks, one thread, all kinds of operation, native calls that throw out of `run()`: no lost wakeup or cancellation, no callback on a finished operation, no node in two queues, a return of `run()` leaves nothing behind |
| `loop_live` | 221 461 | timers fire and posts run under a busy ready queue, `stop()` quiesces |
| `queues` | 489 450 | channel and mailbox implement `Fifo`; nobody overtakes or waits for what is there |
| `futex` | 103 120 | no lost, swallowed or revoked notification; waits end |
| `spawn` | 59 090 | frames that call, move, assign, await and destroy each other below a bridge: one owner each, a running or scheduled frame is never destroyed, nothing of the task is left when the consumer sees the result, and it does see it |
| `when` | 4 669 | no child is abandoned, only engaged slots are read, the first publication decides, races and timeouts drain |
| `pool` | 1 432 978 | frames outlive jobs, no empty slot is read, a file object is not moved or closed under a worker, calls return |
| `uring` | 172 851 | no completion for a request that was given back, wakes stay observable, no DRAIN behind the wake poll |
| `uring_drain` | violation | see Findings |
| `provided` | 1 414 654 | bundles decode exactly, no buffer lost or published twice, no receive stalls, no loop ends before its completions, limited ticks come exactly as often as asked |
| `sockets` | 1 544 743 | kqueue and completion port, streams, datagrams and files: exactly one thing will complete a pending request, no descriptor leaks, a connect returns only after its attempt has ended |
| `batch` | 166 536 | chains stay whole, nodes outlive completions, a stop ends an unlinked group; memory of zero-copy sends and registered slots stays put while the kernel uses it, the direction flag is exact, sends end |

`Queues` and `MCSockets` put two implementations of one interface, `MCPool` and `Submissions`
two users of one component, behind a choice made in the initial state.

Deadlock is checked except in `Bridges`, `Joins` and `MCPool`, which end: one result, one call,
one destructor.

### Bounds

- `Loop`: two tasks are one that is served and one that interferes; a budget of 1 makes
  every queue longer than the budget; the thread is between any two steps of the owner.
  Frames are reused, so runs of `run()` and of tasks are unbounded. For temporal checking
  `loop_live` keeps one kind of operation, the timer, and no faults.
- `Channel`, `Mailbox`: three tasks are two in line and one that arrives. Capacities 0 and
  2 of the channel are rendezvous and a buffer that wraps; the mailbox has capacity 1 and
  two loops. Two values distinguish order.
- `Futex`: two waiters put a canceled one in front of a live one; two writers race, each
  behaviour with `notify_one` or with `notify_all`.
- `Spawn`: three frames below one bridge are a parent, a child and a task that is moved past
  both; an identity is used once, so a use after the end shows.
- `Pool`: two jobs and two workers, and two file objects, one to move from and one to move
  to, with writes in up to two parts (`Length = 2`).
- `When`: up to three inputs leave one that is neither first nor last. `Timers = {3}` makes
  the third the sleep of a `timeout()`.
- `Uring`: two requests, each with a cancel request, on a ring of two slots force
  submissions in the middle of an operation; `Peek = 2` splits completions over polls (the
  code has 128). `Posted` bounds completions a multishot request posts ahead, `Lost` the
  failing submissions that are followed.
- `Provided`: three buffers allow bundles that wrap and out-of-order returns. One loop
  receives bundles, the other competes for the buffers as `recvmsg` or is an `accept`,
  `watch` or `ticks` (`MCKinds`). `Posted = 2` bounds completions not yet handled, two ticks
  allow an early end between them.
- `Batch`: as many slots as the group has requests, so that anything else in the queue
  forces `reserve` to flush.
- `Native`: two objects, one of them always a pipelined send so that two sends overlap, and
  two registered slots with one region of memory or none.
- `Kqueue`, `Iocp`: two requests and two descriptors are enough for a conflict over a
  direction, a reused descriptor and an accept; `Wakes = 1` keeps one wake packet on the
  port, which serves as well as several. In `MCSockets` streams and datagram sockets take
  turns (`OneKind`); the proofs have no such bound.

Requests, sockets, tasks of one loop and values are interchangeable in the code and are
symmetry sets where a run checks no liveness.

### Fairness

Weak fairness of the owner thread (it keeps running `run()`), of workers and of calls that
have begun; of stop callbacks once started. User code is never obliged to post, stop, set,
release or return a chunk. Beyond that:

- `When`: inputs end once stopped, as `when.hpp` asks of them, and a sleep ends.
- `Futex`: a writer that stored notifies.
- `Spawn`: bodies come to their end (strong fairness of `Return`: a frame may suspend and be
  resumed any number of times before it), and what the loop was told to resume it resumes.
- `Pool`: the function ends. The file part of `MCPool` has no fairness and no liveness property.
- `Batch`: strong fairness of handling and of the scan, which the owner does in every round
  though each is enabled only in its part of it, and the kernel ends what it was told to
  cancel.
- `Native`: the kernel ends a send and gives its memory back, the owner handles completions
  and resumes.

`Uring`, `Provided`, `Kqueue` and `Iocp` are checked for safety only.

### Findings

`uring_drain`: `loop::submit` counts a DRAIN request in `drains` before it takes a
submission slot. If that throws, the request is unlinked and nothing takes the count back:
the wake poll stays suppressed with no DRAIN pending and every wait is cut to 1 ms, although
`detail/io.hpp:45` says "Native DRAIN temporarily suppresses the wake poll."

## Proofs

Every theorem is proved for all values of the constants, under the named assumptions of the
module it is about, which TLC evaluates in the runs.

| module | about | assumptions on the constants |
|---|---|---|
| `LoopProofs` | `Loop`; `Bridges` with `Task`, `Spawn` | known kinds of operation, positive budget, with and without faults; frames, roots, the user and `None` are told apart |
| `UringProofs` | `Uring`; `Natives` with `Native` | positive sizes; finitely many requests; with and without faults |
| `SocketProofs` | `Requests`, `Kqueue`, `Iocp`, `Sockets` | poll takes at least one event; `None` is no request or descriptor |
| `WaitProofs` | `Pool`, `File`, `Futexes` with `Futex`, `Joins` with `When` | some workers, finitely many; finitely many tasks; a number of inputs, known modes |
| `LineProofs`, `QueueProofs` | `Queues` with `Channel`, `Mailbox`, `Ring`, `Fifo` | capacities are naturals, zero among them; values differ from the marks a slot can hold |
| `BatchProofs` | `Batch` | the group is not empty and fits into the ring |
| `ProvidedProofs` | `Provided` | some buffers, some completions ahead of `poll()`; any loops |

### Loop

- `TypeCorrect`: `TypeOK`, including that `roots_` and `holds_` never go below zero;
- `CallbacksSafe`: no stop callback is registered or running for a finished operation;
- `QueuesSound`: no node is linked twice, ready and mailed tasks are in their queues;
- `WakeupsKept`: the loop does not sleep over posts, messages, `cancel_` or a reason to
  leave;
- `CancelsKept`: the loop does not sleep over a canceled operation that was not served;
- `RunLeavesNothing`: a normal return leaves nothing suspended, queued or in flight.

All follow from `Inductive`, `Spec => []LoopInv`. The properties are not
inductive by themselves. `LoopInv` adds:

- `CountInv`: `roots_` and `holds_` are the numbers of live tasks and guards, without which
  a decrement could leave the naturals. `Counts` says it with a bijection from `1..n`, so
  that no assumption on the number of tasks is needed;
- `PhaseInv`: coroutines run only in the message and resume phases and the locals of a
  phase are empty outside it;
- `PostsSeen`, `MailSeen`, `CancelSeen`: where in the round an arrival is noticed, if no
  wake is on its way. `NoLostWakeup` speaks only of a sleeping loop; the reason lies
  in how it got there, in particular that only the first of several posts wakes;
- `ExitInv`: once the conditions for leaving hold, the loop sees them before it sleeps;
- `CancelInv`: a canceled operation that was not served is still ahead of the scan, or
  `cancel_` is set or about to be set. `expire` clears the flag before it scans.

There is a lemma for each conjunct, split by action.

### Tasks and spawn

- `FramesOwned` (`OneOwner`): every live frame has one handle, none refers to a dead frame;
- `DestroyedQuietly` (`QuietDestroy`): what a step destroys has not begun or has ended;
- `StateOutlives` (`LifetimesNested`): the state shared by producer and consumer outlives the
  producer's use of it, and the frames of the task are gone once its end can be seen.

They hold for any number of frames, results and levels of nesting. `TaskInv` says what the
owner of a frame tells about it: what a task variable holds has not begun (`Fresh`), what an
awaiter holds runs on behalf of its caller, or has ended and its caller is resumed (`Awaits`),
and frames that have not begun or have ended hold no local (`Still`). So the frames
`~task` reaches form a set of frames that have not begun, closed under ownership; since
`Destroyed` is the least such set, `VictimFacts` needs no induction over the tree. `JoinInv`
ties the progress of a producer to the state of its root and to who refers to the result.

### Pool and files

`JobsHaveFrames` (`FrameOutlivesJob`) and `SlotsFilled` (`NeverEmpty`) follow from `PoolInv`:
a worker has a job exactly while it is inside one (`Inside`), a task has one job at most
(`OneJob`), the task of a job is suspended and its post still to come (`Owners`), and from
the end of the job to the return of `run()` the slot is filled or the stop that kept it
empty can still be seen (`Filled`; a stop is never taken back while the task waits).
`FilesUsePool` shows that a behaviour of `File` is one of `Pool`. `FilesStaySteady`
(`FileSteady`) needs in addition that `active_` is the number of operations in flight on the
file and that these keep it open (`FileInv`).

### Channel and mailbox

- `NobodyIdles` (`NoIdleWait`): a live receiver waits only while the buffer is empty and no
  live sender waits, a sender only while it is full, and nobody waits after `close()`;
- `NobodyOvertakes` (`NoOvertaking`): an operation in line succeeds only with all live ones
  in front of it;
- `QueuesAreFifo` (`ImplementsFifo`): every step of either queue is a step of `Fifo` or none
  that its users see. There is no bound on tasks, loops, values or capacity.

`QueueInv` (`QueueInductive`) makes them inductive. Its heart: all nodes in line go in one
direction, and as long as there is a node in line, canceled or not, the buffer is full for
senders and empty for receivers. So `take` and `front`, which drop dead nodes until they find a
live one, never need to look past a live one of their own direction. `NodeOk` ties what a task's
node holds to how far its operation is; a delivered mailbox operation is out of the line, which
is why its late cancellation finds nothing to undo. The ring is `Sound`, and lemmas about
`Put`, `Drop` and `Contents` say once what the index arithmetic modulo the capacity does to the
sequence of values. A handler of either queue is then one of a few shapes: it serves the head of
the line (`Handled`), it ends or parks alone (`Alone`), or it closes (`Closes`); each shape is
proved once to keep `QueueInv`, to overtake nobody and to be a step of `Fifo`, and the two sets
of handlers are shown to have these shapes. The buffer, the line and the first two shapes are in
`LineProofs`, the rest in `QueueProofs`. A step of `Fifo` takes in at most one value and
gives out at most one; `Moves` is that step for what a handler does to the two ends of the
sequence, the hand-over of a rendezvous (in and out at once) among them.

### Futex

`LineInv`: the queue holds exactly the parked waiters, each once, and an error is stored
only with a delivery. From it `FutexWakeupsKept` (`NoStaleWait`: the look at the atomic and
the link are one step under the lock, so a store that comes later still has its notification
to come) and the action property `NothingSwallowed` (`NotSwallowed`).

### Joins

`WhenInv`: the count of the barrier is the number of bridges alive (`Barrier`), the slots and
the log hold what the bridges that are gone left there (`Published`), everything up to a
failure of the launch was launched (`Launched`), and the parent's state is that of the first
publication that counts (`First`). `JoinsAbandonNone` (`NoneAbandoned`) is the barrier,
`JoinsReportFirst` (`FirstObserved`) the rest, for any number of inputs.

### io_uring

- `RequestsOutlive` (`NoDanglingRequest`): whatever is in flight for a request, its submission,
  its completions or its cancel request, names one that is still pending;
- `WaitsEndable` (`WakeObservable`): a wait without timeout has its wake poll with the kernel;
- `DrainsProgress` (`DrainNotBlocked`): a wake poll in front of a DRAIN completes;
- `SuppressionExact`: without failing submissions `drains` is the number of pending DRAIN
  requests, what `uring_drain` refutes with them.

`UringInv`: `canceling` and `done` say exactly which completions of a request are still to come
and each submission is at one place (`Tracks`); completions of a multishot request come before
its last one (`MoreBefore`); `watching` says whether there is a wake poll, and there is one
whenever no DRAIN suppresses it (`Watched`); `drains` is never too low (`Counted`). The order of
submissions matters only to `DrainNotBlocked`, which is part of the invariant.

### Provided buffers

- `BuffersAreConserved` (`BuffersConserved`): every buffer is published, in one completion, or
  leased, never in two of these, and `each()` decodes what the kernel filled;
- `LoopsDoNotStall` (`NoStall`): a loop waits for a buffer only while all are leased;
- `StreamsAreDrained` (`StreamDrained`): a loop whose request has ended has no completion left;
- `TicksAreExact` (`TicksExact`): limited ticks add up to the count across re-arming.

`ProvidedInv` has two halves. The half about the ring, `RingInv`, looks at bundles: what `each()`
has still to decode, then the ids of each queued completion. Bundles, published buffers and
leases share no buffer (`Apart`) and leave none out (`Somewhere`). `Linked` is what
`BuffersConserved` needs to be inductive: `next_` leads from each buffer of a bundle, or of what
is published, to the next, `tail_` is the buffer published last, and no buffer of a bundle that
has a successor in it is `tail_`. The one write to `next_`, in `put()`, is at `tail_`, so returns
in any order never cut a bundle short. The half about the loops, `LoopInv`, says that a
completion without `more` is its request's last (`Final`), and which kinds count, wait and shoot
(`Kinds`); ticks are counted by what one posting or dispatch adds to or takes from a loop's
completions.

### Batches and native requests

- `MemoryAccounted` (`MemoryOwned`), `DirectionAccounted` (`DirectionExact`): zero-copy sends
  and fixed requests, for any objects, kinds, slots and regions;
- `GroupsOutlive` (`NodesOutlive`): nothing the ring or the kernel has refers to a group whose
  coroutine has gone on;
- `ChainsComplete` (`ChainWhole`): every request gets its result, linked requests run in
  order, and behind a failure of a soft chain there are only cancellations.

`NativeInv`: each completion comes at most once and the notification after the primary one
(`Stream`); what an object's flags say agrees with what is still to come for it, and until all of
it has come its coroutine cannot have got past `join()` (`Accounted`); `pins` is the number of
objects that hold one, and the table and its mirror agree with what they were built for.

`GroupInv` (`GroupInductive`) sees the ring, the chains of the kernel and the completions as
the three places of a submission: each request and each cancel request is at one place at most
(`Distinct`, `Apart`), `in`, `done` and `canceling` say exactly whether it is at one (`Tracked`),
and the count of the barrier is the number of nodes with `in` (`Awaited`). A linked group is one
contiguous piece of the ring or a suffix of itself in one chain (`Queued`, `Chained`), because
`reserve` flushes what does not leave room for all of it; what has run is a prefix in order
(`History`). `Severed` is what `ChainWhole` needs before the group is ready: behind a request
whose completion, handled or not, is no success, the next one's is a cancellation.

### Sockets

`SocketsInductive` is about the composition, with either driver: `SourcesUnique` (`OneSource`),
`DescriptorsOwned` (`DescriptorOwned`), `ConnectsEnded` (`ConnectEnded`). `Owned` says that each
descriptor `accept` or `connect` works on belongs to one request. In addition,

- on kqueue (`KSound`): a direction in use is marked busy, or belongs to a connect, and its
  descriptor stays open (`Reserved`), so that no `EV_ADD` replaces another request's filter;
  filters and taken events name pending requests, each the one its key stands for (`Filters`);
  events are handled before anything is canceled (`Scans`); and what has fired for a connect
  stays over (`Attempts`);
- on a completion port (`PSound`): a request is pending exactly as long as the system works on
  it or one packet of it is on the port or in the batch, never both (`Packets`).

### Only model-checked

Liveness needs fairness and `ENABLED`, which are outside the prover: `NothingStarves`,
`StopQuiesces`, `WaitEnds`, `ConsumerReturns`, `RaceDrains`, `JobsReturn`, `StopEndsGroup`, `SendEnds`.
Everything else the passing runs check is proved. `uring_drain` is a violation that TLC finds.

## Not modelled

- `detail/frame.hpp`, `pmr.hpp`: allocation and layout of frames. `uring_extra.cpp`: wrappers
  that prepare one request each.
- Ring options, SQPOLL, completion queue overflow, failing constructors and allocations;
  socket options, endpoints, shutdown and moves of sockets; validation of arguments.
- The layout of received datagrams and the variant of `receive` that reads a pipe; cloning of
  registered buffers; the table of registered files, which has the pins of the buffer table
  and no mirror.
- `event` on its own: its list of waiters and `reset`. Its waiters are in `Loop`, `When`,
  `Pool` and `Provided`.
- A hop to a loop that has left `run()`: the message waits for the next `run()`, if any.
- Exceptions that leave `cancel` or `poll` in the driver modules; `Throw` in `Loop` covers
  their effect on the loop.
- Lock order: what happens under a lock is one action.
- `sleep()` saturating at the end of the clock.
