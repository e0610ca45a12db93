# SkylakeLib in TLA+

Specifications of the concurrent core of SkylakeLib, the runs that check them
with TLC and the proofs that TLAPS checks. Everything is translated from the
source under `src/`; `PROJECT.json` says which lines each definition stands
for, which hazards of the code each property is about, and what the runs found.

## 1. The system

SkylakeLib is a C++ library for servers. A `ServerInstance` owns worker groups;
a group owns workers, which are threads that run a loop. User code runs in
tasks: timer tasks, tasks of *async objects* (AOD), tasks that every thread
must run once (TLS sync), IO completions, service callbacks.

| component | state | operations | what is hard about it | correct if |
|---|---|---|---|---|
| **Task queues** `Task/TaskQueue.h`, `AOD/AOD_Queue.h` | `Head` (atomic), `Tail`, a `Next` in every task, a stub node | `Push` by any thread, `Pop` by one | `Push` is two writes; the consumer frees a task whose neighbour another thread is about to write to; the stub is pushed again and again | FIFO, no write into freed memory, no lost task, a null answer only for a reason |
| **AOD** `AOD/AOD_Object.*` | per object a task counter, a queue, a reference count; per thread a flag and a pending list for each object kind | `DoAsync`, `DoAsyncAfter`, `Dispatch`, `Flush` | who flushes is decided by one increment; dispatches nest; the last task may drop the last reference | one consumer per object, tasks in order, all of them, object alive as long as used and freed after |
| **TLS sync** `TLSSync/*`, `SkylakeLib.cpp` | a ring, `Head`, one thread local index per thread, a reference per worker in each task | `SyncTLS`, `TLSTick` | a gap between the claim of a slot and its store; indexes that wrap round the ring at different times; the last reference finalizes and frees | each task once on each worker, one order, finalized last |
| **Delayed tasks** `Task/Task.*`, `AOD/AOD_Object.cpp`, `AOD/AOD_TLS.*`, `Threading/WorkerGroup.cpp`, flags in `Heading.h` | per worker inboxes; per thread priority queues, a list of tasks that deferred themselves, two round robin indexes | `DeferTask`, `DeferTaskAgain`, `DelayTask`, `HandleTimerTasks_*`, `HandleAODDelayedTasks_*`, clearing at the end | which of the queues is written depends on flags of the group, which is read on flags of the server; a functor changes the queues it is dispatched from; groups stop one after the other | dispatched once, not early, some day; reference counts exact; nothing left at the end but what the code leaks |
| **Server lifecycle** `Application/ServerInstance.*`, `Threading/Worker.*`, `Threading/WorkerGroup.*`, `Service/*` | flags and counters of the server and its groups, two latches, the service list | `StartServer`, start and end of a worker, `SignalToStop`, `OnServiceStopped`, `JoinAllGroups` | the last of several threads to come runs a hook; a stop during the start; calls that fail on one of the threads everybody waits for | hooks in order and once, services before groups, a stop ends everything |
| **Id pools** `SkylakeLibStandalone/ECS/UIDStore.h` | flags and a count that are atomics, a stack under a spin lock or a flag per id | `Activate`, `Deactivate`, `Allocate`, `Deallocate`, a callback when a deactivated pool has all its ids | the count is changed before the outcome is known and taken back; two threads race to be the one that announces | ids given once, count right, announced exactly once |
| **Entity store** `ECS/EntityStore.h` | fixed slots with a reference count, one id pool | `AllocateEntity`, `AllocateSpecificEntity`, `TEntitySharedPtr`, `DeallocateEntity` | the slot of a destroyed entity is used again while its id is still on the way back through the pool | lives of a slot do not overlap, counts exact, every id goes back with success |
| **Run loops, general tasks, async IO** `Threading/WorkerGroupRunVariants.h`, `Threading/WorkerGroup.*`, `Port/AsyncIO.h`, `Port/Port_Windows.cpp` | the completion port, a queue of general tasks per worker | `Defer`, `DeferGeneral`, the three kinds of loop, the stop | a worker waits with or without a timeout, in batches; the stop has to wake all of them | a task is in one queue at a time, every task is handled, no handler starves the others, the stop ends all loops |
| **TCP acceptor** `Port/TCPAsyncAccepter.h`, `Port/Port_Windows.cpp` | a listening socket, accept tasks with a reference count, `bIsRunning` | `StartAcceptingAsync`, `StopAcceptingAsync`, the completion handler | a stop or a new start while a request is outstanding or its handler runs; any system call may fail | references exact, sockets have one owner, "accepting" is true when it is said |
| **Shared objects** `Memory/SharedPointer.h`, `MemoryPolicy.h`, `AllocationStrategies.h` | a control block with a count in front of each object | `MakeShared`, copies, `Reset`, `TLockedSharedPtr`, deallocators | the last of several threads destroys; a copy reads the pointer before it counts; the deallocator has to find the manager and size class again | count exact, destroyed once and alone, memory given back where it came from |
| **Object pools** `Memory/StaticObjectPool.h`, `LocalObjectPool.h` | a ring of blocks, two positions | `Preallocate`, `Allocate`, `Deallocate`, `FreePool` | position and slot are two accesses; head and tail pass each other over empty and full slots | a block has one owner; with the lock, the ring serves as many as it has |
| Component arrays, network buffers, streams and packets, functors, results, logging and utilities, math, database and datacenter libraries | | | | not modelled, see section 7 |

How they interact. A worker's loop (`WorkerGroupRunVariants.h`) ticks the TLS
sync queue, handles timer tasks, handles delayed AOD tasks, runs general tasks
and calls the user's tick; a reactive one waits at the completion port first,
where the completions of the acceptor come in as well. The inboxes of delayed tasks and the queues of AOD
objects are the same lock-free queue. A delayed AOD task that is due is given
to its object with `Dispatch`. The lifecycle decides when the loops start and
end and when what is left in the queues is released. An entity store owns an id
pool; shared objects take their blocks from object pools, through a memory
manager that picks the pool by size.

## 2. The modules

| module | models | uses |
|---|---|---|
| `FifoQueue` | abstract: an atomic queue whose consumer frees what it took | |
| `TaskQueue` | `TaskQueue.h`, one access to shared memory a step; addresses are reused | implements `FifoQueue` |
| `TaskQueueProofs` | theorems of `TaskQueue` | |
| `AODSerial` | abstract: each object runs its tasks one at a time in order | |
| `AODObject` | `DoAsync`, `Dispatch`, `Flush`, references, pending lists | implements `AODSerial` |
| `AODObjectProofs` | theorems of `AODObject` | |
| `TLSBroadcast` | abstract: one order of tasks that every worker runs | |
| `TLSSync` | ring, references, `TLSTick`, `Clear` | implements `TLSBroadcast` |
| `TLSSyncProofs` | theorems of `TLSSync` | |
| `TLSSyncTwice` | a thread that ticks two TLS sync queues | two instances of `TLSSync` over one index |
| `WorkerGroups` | group flags, the lists made from them, the round robin | extended by the next |
| `DelayedQueues` | what timer tasks and delayed AOD tasks share: clock, inboxes, own queues, the target of a task | extended by `DelayedTasks` and `AODDelayed` |
| `DeferredExecution` | abstract: each deferral leads to at most one dispatch, not early | |
| `DelayedTasks` | timer tasks from `DeferTask` to `Worker::Clear` | implements `DeferredExecution` |
| `AODDelayed` | delayed AOD tasks from `DelayTask` to `Dispatch` or release | |
| `DelayedTasksProofs` | theorems of `DelayedTasks` and `AODDelayed` | |
| `ServerLifetime` | abstract: phases of a server, who is in the loop in which | |
| `ServerLifecycle` | start, latches, hooks, stop, services, failures | implements `ServerLifetime` |
| `ServerLifecycleProofs` | theorems of `ServerLifecycle` | |
| `IdPool` | what both id pools share: flags, count, announcement | extended by the next two |
| `IdStore`, `IdCache` | `UIDStore`, `UIDAllocationCache` | |
| `EntityStore` | slots, references, `OnCreate` and `OnDestroy` over either id pool, or the id pool by itself | instances of `IdStore` and `IdCache` over the same variables |
| `EntityStoreProofs` | theorems of `EntityStore` and of the pools in it | |
| `MemoryUsers` | the threads and blocks of the next two | |
| `ObjectPool` | the ring of blocks, with the spin lock and with atomics | |
| `SharedMemory` | control block, `TSharedPtr`, `TLockedSharedPtr`, size classes | |
| `MemoryProofs` | theorems of `ObjectPool` and `SharedMemory` | |
| `AsyncIO` | run loops, port, deferred and general tasks, stop | extended by the next |
| `TCPAcceptor` | the acceptor on these loops | |
| `TCPAcceptorProofs` | theorems of `TCPAcceptor` and `AsyncIO` | |
| `MC...` | instances for TLC | |

How to read them against the code. An action has the name of the function, or
says in its comment which access of the function it is. Locals that live across
steps are functions of the thread or the call (`pc`, `at`, `cur`, `won`, ...).
A definition whose comment begins with *Faulty* is never part of `Next`: it is
a plausible bug, and `PROJECT.json` names the property that TLC finds violated
when the faulty definition takes the place of the right one.

Grain of atomicity:
- `TaskQueue`, `IdPool`, `IdStore`, `IdCache`: every access to an atomic or
  shared field is a step; a section under a spin lock is one. `Head` is a
  `std::atomic` and `Next` is volatile; on the x86-64 builds of the library
  the interleavings of these steps are the executions.
- `AODObject`: every access to the counter, the queue and the reference count.
  The queue is taken as FIFO, which `TaskQueue` establishes, with the one
  intermediate state of `Push` that a consumer can see.
- `TLSSync`: claim and store of a slot, and each of `TLSTick`'s loads,
  dispatches, decrements and stores.
- `DelayedTasks`, `AODDelayed`: a push to another worker's inbox is one step
  (again `TaskQueue`), and so is what a thread does to its own queues between
  two calls of user code.
- `ServerLifecycle`: every counter update and latch, with the hooks called by
  the thread that made the update.
- `EntityStore`: the count, the hooks, and every step of the id pool, one each.
- `ObjectPool`: the two positions and the slots are accessed one at a time; the
  spin lock is a variable of the model, not an atomic section.
- `SharedMemory`: reading a pointer and counting it, counting down and
  destroying, destroying and freeing are separate steps; the shared lock of
  `TLockedSharedPtr` is modelled with its holders.
- `AsyncIO`, `TCPAcceptor`: one system call or one handler a step, and the
  accesses to the acceptor's `bIsRunning`, socket and counts one at a time.

Environment. User code is nondeterministic: it issues, defers and stops when it
may. Its obligations are in the guards: a caller has a reference to the object
it calls `DoAsync` on; a task defers itself at most once in a dispatch; at most
`MaxOutstanding` sync tasks are outstanding; nobody uses an id pool before
`Activate` has returned or activates one that is in use; entities give back
only ids of their own (direct callers of the cache give back any); a block is
deallocated by who has it; a `TSharedPtr` belongs to one thread; one thread at
a time starts an acceptor. The operating system may refuse memory, sockets and
calls, and completes requests in any order.

## 3. The runs

| run | bounds | shows |
|---|---|---|
| `queue` | 2 producers, 3 addresses | `ListInv` (the inductive invariant, with types), `NoWriteToFreedTask`, `NullOnlyIfEmptyOrRaced`, `Fifo`, `EveryTaskPopped` |
| `aod_object` | 2 threads, 2 shared objects, 3 tasks | `ConsumerInv` (inductive: one consumer), `ObjectLife` (nobody uses a freed object, and the pending lists and counters come back to rest), `SerialExecution`, `EveryTaskRuns`, `UnownedIsFreed` |
| `tls_sync` | 2 workers, ring of 4, 5 tasks, 3 outstanding | `RingInv` (with the assertions of `Push` and `TLSPop`, and once per worker), `FreedLast`, `BroadcastInOrder`, `EveryTaskFinalized` |
| `tls_sync_twice` | 2 workers, 2 queues, a task on each | **violated**: `GroupTasksRunOnAll` |
| `delayed` | a reactive and a timer worker, 2 tasks, times 0..2, an index of 2 values | `RefsInv`, `NoTaskHogsTheTick`, `KeepsPromise`, `Processed` |
| `aod_delayed` | a reactive worker and two AOD workers, 2 tasks, times 0..2 | `FateInv`, `SameThread`, `AODProcessed` |
| `server` | 2 groups, 3 workers, 2 services, 2 stops; with no fault, with each of nine kinds of faults and with three pairs of them; with and without a worker on the main thread | `CountersInv`, `HookOrder`, `KeepsLifetime`, `StopEndsAll` |
| `entity_store` | 3 threads, 2 ids in a type of 4 values, 2 activations; either pool, used by entities or directly | `EntityInv`, `LivesApart`, `DeallocateSucceeds`, `IdsKept`, `AllFreedOnce` |
| `object_pool` | 3 threads, 4 blocks, a ring of 2, positions to 4; both variants | `PoolInv`, `RingServes` |
| `shared_memory` | 3 threads, 2 blocks, sizes 48, 60, 300 in classes 64 and 128; objects, arrays, virtual deleters | `RefsInv`, `DestroyedByLast`, `GoesHome` |
| `async_io` | 2 workers, 3 tasks for the port and 2 for the queues, one of each comes back for ever; batches of 2, one general task a round; the three kinds of loop | `TasksInOneQueue`, `EveryTaskHandled`, `LoopsGoOn` |
| `tcp_acceptor` | 2 workers, 2 accept tasks, 2 sockets, 2 starts, any call may fail | `AcceptorInv`, `AcceptingIsTrue` |

Why the bounds are enough to be interesting. Two producers are what it takes to
have a gap with a task behind it, and three addresses let one be reused while
two others are queued or half pushed. Two shared objects and nested `DoAsync`
calls fill a pending list; three tasks let an object be re-elected while its
previous consumer returns. Five tasks on a ring of four wrap it, and three
outstanding are the most that fit (see section 6). Two tasks that may
defer themselves, with a time that moves, reach every queue of `DelayedTasks`
from both of its producers; an index of two values wraps. Two groups are enough
for a group that starts or stops before another, and three workers for a group
with a last worker that is not its first. Three threads on two ids go over the
limit of a pool, let a third thread take the slot that a second one gives back
while the first deactivates the pool, and a second activation meets whatever the
first left. A ring of two with four blocks and three threads is overfilled,
emptied and passed by either end. Three threads are a last owner, a thread that
copies and one that takes the lock. A batch of two out of three tasks leaves one
for the other worker, and a task that always comes back would starve the others
if anything could. The second start of an acceptor meets requests of the first.

`CHECK_DEADLOCK FALSE` is in the configurations of systems that really stop
(all tasks done, server ended, bound reached); `queue`, `entity_store` and
`shared_memory` check deadlock. Stop bounds (`MaxNow`, `MaxSignals`,
`MaxActivations`, `MaxTickets`, `MaxStarts`) are guards of the action they
bound. Symmetry is declared only in runs without liveness properties.

## 4. Fairness

- `TaskQueue`: the consumer keeps calling `Pop`, and a producer between the two
  writes of `Push` makes the second. Both are threads that run; nobody has to
  push.
- `AODObject`: a thread inside `Dispatch` goes on; a delayed task is some day
  given to its object (which `AODDelayed` shows). Nobody has to issue a task
  or drop a reference.
- `TLSSync`: a thread in `Push` finishes it and a worker keeps ticking until it
  stops, as the run loops do. Nobody has to issue.
- `DelayedTasks`, `AODDelayed`: time advances, and a worker keeps handling its
  queues. Nobody has to defer; groups need not stop.
- `ServerLifecycle`: the main thread, the workers and the walk of
  `SignalToStop` go on, and a service that answered "pending" reports some day.
  The application need not stop the server.
- `AsyncIO`: each worker goes on, waiting at the port included (what is there is
  dequeued, a wait with a timeout ends, a wait without one ends when something
  comes), and a stop that has begun goes on to close the port. Nobody has to
  defer or to stop.
- `EntityStore`, `ObjectPool`, `SharedMemory` and `TCPAcceptor` are checked for
  safety only and state no fairness.

All of it is weak fairness of steps that stay enabled until taken.

## 5. What is proved

For every value of the constants, from the named assumptions of the modules.

`TaskQueueProofs` (assumption: the stub, nil, the tasks and the producers are told apart):
- `ListInvariant`: `Spec => []ListInv`. `NoWriteToFreedTask` and the others are
  not inductive: they need the whole picture of the list. `ListInv` gives it.
  The ghost `queue` (with the place of the stub in it) is the chain of nodes
  from `tail` to `head`; each node links to the next one of the chain, or its
  link is the next write of the one thread that swapped the next one in
  (`LinkInv`, `WriterInv`); what the consumer has read is still so (`PcInv`).
  There is one lemma for each action, and lemmas on how the chain changes.
- `NoWriteAfterFree`, `SingleWriter` (no two threads hold the same
  predecessor), `NullAnswer`: consequences.
- `ImplementsFifo`: `Spec => Fifo`, the refinement, step by step from `ListInv`.

`AODObjectProofs` (assumption: each object has one of the three kinds, and None is no task or object):
- `ConsumerRole`: `Spec => []ConsumerInv`. `OneConsumer` speaks of calls that
  flush; to be inductive it must also count the calls that won the election and
  have not claimed the object yet and the places in pending lists, and say that
  with a counter at zero there is none of the three.
- `SingleConsumer`: `Spec => []OneConsumer`.

These build on it (nothing need be finite):
- `ObjectsLiveAsLongAsUsed`: `Spec => []ObjectLife`. `NoUseAfterFree` says that
  counts are positive where they are used, so the invariant, `LifeInv`, says what
  the counts are: references are those of the tasks that did not run, of the
  calls that flush (one for the call's own object, one for the pending object it
  is at), of the places in lists and of the owner (`RefsExact`, a sum of
  cardinalities); the task counter counts the tasks from their increment to the
  decrement after their run, and above zero somebody has the consumer's role
  (`CountInv`). For this it must be known where a task is (`LinesInv`: in the
  queue from the swap to the pop, then run by the one call that popped it, then
  done), which calls are under way (`StackInv`), and that a list with an object
  in it belongs to a flush that will come to it (`FlagInv`). `AllReturned`
  follows: with empty stacks no flag is set, so no list has anything and nobody
  has the consumer's role, so every counter is zero, so every task ran.
- `ImplementsSerial`: `Spec => SerialExecution`. The swap submits, the pop starts,
  the return finishes; all other steps stutter. `SingleConsumer`'s invariant makes
  the mapping's CHOOSE of the running task unique, and it is the reason why a
  pop finds the object at rest.

`TLSSyncProofs` (assumptions: a ring of at least one slot, one worker or more but
finitely many, and nil is no task; the theorems have the premise
`MaxOutstanding < Size`):
- `TasksRunOnAll`: `Spec => []RingInv`. A slot says nothing of which of the
  tasks `n`, `n + Size`, ... is in it. The invariant behind the proof is `IInv`, which says until the
  workers are gone: the claimed positions are those up to the head, one task
  each (`Order`); at most `MaxOutstanding` tasks have references
  (`FewOutstanding`), one for each worker that has not released them
  (`RefsExact`); a stored task is in its slot and nothing else is (`Ring`); what
  a worker has in its tick (`Ticks`) and who finalizes (`Finals`). So the
  positions from the slowest worker's to the head are fewer than `Size` and in
  different slots. The premise is what makes room for this; with
  `MaxOutstanding = Size` the theorem is false (section 6).
- `LastFrees`: `Spec => []FreedLast`, and `ImplementsBroadcast`: the ring with
  the workers' private indexes refines `TLSBroadcast`.

`DelayedTasksProofs` (assumptions: `WorkerGroupTag::Validate`, groups that are not
empty, nil is no task and no worker; groups, workers and tasks need not be finite
but for the list of groups):
- `RefsAreExact` and `TicksEnd`: `Spec => []RefsInv` and
  `Spec => []NoTaskHogsTheTick`. A count says nothing of where the references
  are, so `PlaceInv` does: a task is nowhere, in one place, or being dispatched
  and waiting to be queued again by the same worker. The tick needs to know
  besides that a task that comes by an inbox was not dispatched in the tick
  that it comes to (`TickInv`): it was deferred by a worker of another group.
  That the worker chosen by the two indexes is one of a group that handles
  timers is a fact about the lists that the server builds (`Listed` in
  `WorkerGroups`), proved by taking minima.
- `KeepsTheTimerPromise`: `Spec => KeepsPromise`. A deferral, a dispatch and a
  clearing map to steps of `DeferredExecution`, what moves a task between
  queues stutters: what waits is the same set.
- `AsyncFates`, `AsyncStaysWithThread`: `FateInv` and `SameThread` of
  `AODDelayed`, from what becomes of one task (`Fate`) and where a loop is
  (`AsyncLoop`).

`ServerLifecycleProofs` (assumption `ServerAssumption`: one group or more, each
with a worker, finitely many workers; any set of settings):
- `CountersCount`: `Spec => []CountersInv`. The counters are cardinalities of sets
  of workers (`CountIn`), and each step moves one worker in or out of each of
  them (`CountMoves`); only the walk over the services changes more. With
  faults that make counters wrong the invariant still bounds them, which the
  latches need: `CountInv` and `GroupsInv` have an inequality for each
  equality of `CountersInv`.
- `HooksInOrder`: `Spec => []HookOrder`. An open latch means that all workers
  have come to it (`LatchInv`); one worker of a group is the last to come and the
  last to go (`LastInv`), and the last of them finds the count of groups that
  calls the hook (`GroupsInv`). `WalkInv` is what a stop has done so far, `OkInv`
  who was told TRUE, `HookInv` what has been called.
- `KeepsItsPromises`: `Spec => KeepsLifetime`, the refinement of
  `ServerLifetime`, from the same invariant.
- `RanFirst` (section 6) came out of these proofs: `WalkInv` is not inductive
  without it. The run has two groups, of which one always comes to run, so TLC
  had not met the case; with one group of one worker it finds it.

`MemoryProofs`, the pools (`PoolAssumption`: a ring of one slot or more;
`UsersAssumption`: nil is no block and no thread; threads and blocks need not be
finite):
- `BlocksOwnedOnce`: `PoolSpec => []PoolInv`. `PoolInv` carries itself from step
  to step but for `Preallocate`, which fills the slots: `Fresh` adds that nobody
  has a block before the first `Allocate` has moved the head. The lock plays no
  part, which is why both variants are safe.
- `RingServesAll`: `PoolSpec => []RingServes`. While the ring serves
  (`ServingInv`), the blocks in use and in hands are as many as the positions from
  the tail to the head; slots outside this window are full, and while no more
  than `PoolSize` blocks are out the slots inside it are empty. The lock gives the
  rest: one thread is between a position and its slot, so the window has one
  front and one back (`RingLocked`, `Aimed`), and positions less than `PoolSize`
  apart have different slots.

`MemoryProofs`, shared objects (finitely many threads): `CountIsExact`,
`LastDestroys`, `GlobalsGoHome` for `RefsInv`, `DestroyedByLast` and `GoesHome`,
the last under `Kinds \subseteq {"object", "array", "virtual"}`. `IInv` adds to the
first two that the lock of the cell keeps what was peeked at in it (`Locked`),
which thread has something to destroy (`Dying`), and that what is in use was
made (`Made`); the last theorem also needs which manager and class it was
taken from (`Sourced`). The count is the cardinality of the set of pointers to
the object, and each step adds one pointer to that set or removes one.

`EntityStoreProofs` (finitely many threads, an id type
wider than the highest id):
- `LivesDoNotOverlap` and `EveryEntityInOnePhase`: `Spec => []LivesApart` and
  `Spec => []EntityInv`, for entities over either pool. `EntitiesInv` says which
  thread makes, holds or unmakes an entity whose id is in use (`Owned`, `Kept`),
  what its life is (`Lives`), and that the count is the number of those counted
  (`Counts`). All that is needed of a pool is that it moves one thread along
  its call and adds or removes one id (`StoreMoves`, `CacheMoves`).
- `OnAllFreedRunsOnce`, `IdsAreKept`, `CacheTakesIdsBack`: `IdsInv` adds what the
  pools keep. A thread in `Activate` is alone (`Quiet`); the stack has each free
  id once (`Stack`), so that it is full when no id is in use; the count differs
  from the ids in use by the calls under way (`Exact`, `Fits`); somebody is
  always about to find out that a deactivated store is complete (`Announced`);
  and entities keep the cache's count exact, so it is positive when they give an
  id back (`Careful`).

`TCPAcceptorProofs` (assumptions: the main thread, the starting thread and the
workers are different, a batch has room for one, accept tasks are no other
tasks; workers, tasks and sockets need not be finite, starts need not be few,
and any call may fail):
- `ExactCounts`: `Spec => []AcceptorInv`. The count of a task is the number of
  workers in its handler and one more if the task is on its way. For this to
  stay exact a task must be in one place of its way at most (`OnceInv`): its
  request is outstanding, or it is at one position of the port or of what one
  worker has dequeued, or one thread has it in hand to ask for the next
  connection. A worker in a handler has its task at the head of what it
  dequeued (`WorkerAt`), a task with a count of zero is nowhere
  (`FreeIsNowhere`), and no two tasks that have a socket have the same
  (`SocketInv`). All three hold while the port is open, as does `AcceptorInv`:
  with the port the system drops the requests in it.
- `AcceptingMeansIt`: `Spec => []AcceptingIsTrue`. The property speaks of a moment
  when nobody is at work in the acceptor. In between somebody is in charge:
  of an accepting acceptor without a request a task in a hand, a start that
  has not made its task or that failed, or a stop (`ChainInv`); of an open
  listening socket the acceptor's field, a thread that closes it, a start that
  is not done, or a stop that is about to close it (`ListenInv`).
- `OneQueue`: `LoopSpec => []TasksInOneQueue`, of the loops alone. The port, what
  each worker has dequeued and each `Worker.Tasks` are seen as one family of
  sequences (`Family`) that has every element once (`Spread`). What a step does
  to it is one of four operations, each with a lemma: it appends a task that is
  in none of them, takes the head of one, moves a prefix of the port to a worker
  or drops the port; a task that comes back is taken and appended. The
  invariant adds that a worker has tasks in hand exactly while it dispatches,
  so that it dequeues into an empty batch and leaves without one.

Only model checked: all liveness properties (`EveryTaskPopped`, `EveryTaskRuns`,
`UnownedIsFreed`, `EveryTaskFinalized`, `Processed`, `AODProcessed`, `StopEndsAll`,
`EveryTaskHandled`, `LoopsGoOn`), for liveness under fairness and `ENABLED` are out of the
prover's reach, and `GroupTasksRunOnAll`, which is false. Every invariant, action
property and refinement that a passing run checks is a theorem.

## 6. What the code does not do

One disagreement of the code with its own comments is a run (`tls_sync_twice`,
under `findings` in `PROJECT.json`). A thread has one index for all TLS sync
queues (`TLSSyncQueue.h:15`), but a worker whose group has a queue of its own
besides the server's ticks both in each round: a task of the server's moves the
index with which the worker then reads the group's, and the group's task is
never run, though `WorkerGroup.h:217` issues it "on all this group".

The modules hold more of them. Each of these definitions is refuted by TLC when
it is checked in the configuration of its module with the change named here:

| definition | change | what happens |
|---|---|---|
| `TLSSync!OncePerWorker` | `MaxOutstanding = Size` | `Tuning.h:101` lets the ring hold `Size` tasks; with no empty slot a fast worker comes round to a task it has run, and runs it again |
| `DelayedTasks!Processed` | `Active` all groups, `Timers` one of them | `Heading.h:87` has the producing thread dispatch the task; it goes to an inbox that is not read where all groups are active |
| `DelayedTasks!TargetIsRunning` | none | the assertion at `Task.cpp:48` when the timer group stops before the others |
| `AODDelayed!TargetSupportsAOD` | a group in `Timers` that is not in `AODs` | delayed AOD tasks go to a group that does not look at them (`AOD_Object.cpp:54`, `AOD_TLS.h:60`) |
| `AODObject!ExecutedSyncMeansExecuted` | none | `AOD_Object.h:39`; `Dispatch` answers true for an object it only put in the pending list |
| `ServerLifecycle!BeginsInRunningGroup` | `Faults = {"acceptor"}` | the assertion at `Worker.cpp:36` |
| `ServerLifecycle!CountsAreNumbers` | `Faults = {"workerStart"}` | counters that go below zero (`ServerInstance.cpp:368`, `411`) |
| `ServerLifecycle!IsRunningMeansRunning` | none | `OnServerStopped` sets `bIsRunning` (`ServerInstance.cpp:523`) |
| `IdPool!ReadyToDestroy` | none | an `Allocate` past its check of `bIsActive` takes an id of a pool that has announced itself (`UIDStore.h:72`) |
| `IdPool!NoLostCallback` | none, with the cache | while a refused `Allocate` is counted, nobody finds the cache empty (`UIDStore.h:218`) |
| `IdCache!CountWhenQuiet` | none | a refused `Deallocate` is not put back into the count (`UIDStore.h:251`) |
| `SharedMemory!GoesHome` | `Kinds = {"tls"}` or `{"tlsNoDestruct"}` | the block of a thread's manager is given to the global one, or to the class of another size (`AllocationStrategies.h:204` and `216`, `MemoryPolicy.h:839`) |

Other properties hold with a premise, and the premise is where the code stops
keeping what it says:

- `RanFirst`, in `CountersInv` and `HookOrder`: that some worker ran before the
  server stopped. Without it, a server of one worker whose `OnServerStarted` fails
  refutes both. The worker signals the stop and ends at once, while a service
  is still stopping; as the last of the last group it calls `OnServerStopped`,
  which sets `bIsRunning` (`ServerInstance.cpp:523`). So the next `SignalToStop` is
  let in and has the services stop again; each is counted a second time, the
  counter goes below zero (`ServerInstance.cpp:553`), and what waits for its
  end, the stop of the groups, comes before the last service is down.
- `CountersInv` is exact, `HookOrder` includes the sequence of hooks and
  `KeepsLifetime` follows the server only under the failures they name. With
  `workerStart`, `startHandler` and `stopHandler` the counters go wrong.
- `StopEndsAll` leaves out a worker whose stop handler answers false, because it
  never comes to the latch where the others wait (`WorkerGroup.cpp:1266`
  against `1274` and `1289`); a stop, after a failed acceptor or from another
  thread, that misses the groups that are not started yet (`WorkerGroup.cpp:42`);
  and a stop that `OnBeforeStopServer` cancels, after which none succeeds
  (`ServerInstance.cpp:183`).
- `AcceptingIsTrue` leaves out a handler that could not ask for the next
  connection, which leaves `IsAccepting()` true with nothing outstanding
  (`Port_Windows.cpp:323`, `TCPAsyncAccepter.h:59`), and a stop between the new
  socket of a start and its `bIsRunning`, which finds nothing to stop
  (`Port_Windows.cpp:364`). A late completion of an earlier start that fails
  stops the acceptor that was started again.
- `AcceptorInv` has exact counts, and these refute the assertion at
  `Port_Windows.cpp:285` that the task has two references there: the task may
  have been completed on another worker whose handler still has one.
- `RingServes` is about the pool with the spin lock. With atomics only, head and
  tail may pass a block that is still in a hand, and a pool that has blocks goes
  to the operating system.
- `OnlyPendingLeaks` delimits what `DelayedTasks` leaks: the tasks in
  `PendingDelayedTasks` when a worker ends. `TLSSync` has the leak of
  `TLSSyncQueue::Clear`, which drops one reference of a task that several workers
  have not run. `AsyncIO` leaves in the port the tasks that the stop finds there,
  and a `Defer` that fails does not take its reference back (`WorkerGroup.h:129`).

Seen while reading, without a model: `IsShutdownAndReadyToDestroy` of the entity
store lacks its `return` (`EntityStore.h:402`).

## 7. Not modelled

- Memory orders weaker than those of x86-64.
- Most of the repository is code of others or code without state of its own:
  googletest, the MySQL client, fmt, RapidXML and the like under `ThirdParty`,
  with the generated headers among them; the math library; functors, results,
  logging, measurements and utilities; wrappers of databases and of the
  datacenter; tests and examples. Properties of these are the compiler's or a
  unit test's business. The specifications stand for the concurrent core, which
  is a few thousand lines.
- Network buffers, packets and streams: positions in a buffer that one thread
  uses, without steps of other actors.
- Component arrays: arrays indexed by the id of an entity, as safe as the id's
  owner, which is what `EntityStore` is about. `UpdateEntityVariant` is left out:
  it loads, changes and stores the variant in two accesses (`EntityStore.h:405`),
  for callers that do not race.
- The port layer under the acceptor and the loops (Winsock, the completion port)
  is an environment that may fail and that completes in any order.
- The services' own work; an acceptor in the lifecycle is a call that may fail.
- Single steps that were read and not followed: the entity's `OnDestroy` is
  called after its destructor; `TLockedSharedPtr::reset` runs a destructor under
  its lock; `closesocket` before `shutdown`, on a handle that may be in use again
  (`Port_Windows.cpp:382`); a null `CustomHandle`; the variant of
  `ScheduleGeneralTask` with a predicate, which may index a worker that was not
  created; `Preallocate`, which clears a block before it tests for null
  (`StaticObjectPool.h:52`).
- `DeferTaskAgain` twice in a dispatch (`Task.cpp:138`) is excluded as misuse. An
  inbox that others fill as fast as it is emptied (`WorkerGroup.cpp:1169`) cannot
  happen with finitely many tasks.

Two hazards of `PROJECT.json` have no property: which workers the two wrapping
round robin indexes reach (`Task.cpp:82`; the indexes are modelled, but nothing
in the code says what is owed), and `UIDStore.h:72`, where the code does not keep
what one would state (the table above).

## 8. Plan

Done, in order of importance: task queues, AOD, TLS sync, delayed tasks, server
lifecycle, id pools; then entity store, object pools, shared objects, run loops
with general tasks and IO, the acceptor; the proofs of section 5.

Left, in order:
1. The server's lifecycle with run loops in it, instead of one step for a loop:
   it would say what becomes of tasks that are in a queue when their group stops,
   which `DelayedTasks` and `AsyncIO` say of their own stops.
2. A simpler invariant for `ServerLifecycle` under faults, and proofs about the
   definitions of section 6 that hold with a premise.
3. Component arrays, and positions of streams, as pure operators.
