# A verification project for OS2labs

The repository is a collection of laboratory programs about threads: locks
built from an atomic exchange and the futex system call, a linked-list queue
between a writer and a reader in five variants of synchronisation, a linked
list whose nodes are exchanged by concurrent threads, an HTTP proxy with a
thread per client, a small thread library on `clone`, and demonstrations of
thread life cycles, cancellation and signals.

This directory holds TLA+ models of the concurrent ones, the TLC configurations
that check them, and proofs for the TLA+ proof system.
`PROJECT.json` connects the definitions to lines of the source.

    tlc -workers 2 -config Locks.cfg Locks       # model-check
    tlapm LocksProofs.tla                        # check proofs

## 1. Inventory

### Locks

| Where | State | Operations | Correct when |
|---|---|---|---|
| `lab2/2/a-spinlock/queue.c:14-34` | `lock`, 1 = free | `spinlock_lock` spins on a strong compare-exchange, `spinlock_unlock` exchanges back | mutual exclusion; a free lock that is asked for is taken |
| `lab2/2/e-mutex/queue.c:21-62` | `lock`, 1 = free; the kernel's wait queue | `mutex_lock`: exchange, otherwise `FUTEX_WAIT(lock, 0)`; `mutex_unlock`: exchange, then `FUTEX_WAKE` one thread | the same; no sleeper is forgotten |
| `lab2/4/4.c:20-30` | `lock`, 0 = free | test and test-and-set: an exchange, then an inner loop of loads | the same |
| `lab2/4/4.c:37-50` | `mutex`, 0 = free | exchange, otherwise `FUTEX_WAIT(mutex, 1)`; unlock stores 0 and always wakes one | the same; no sleeper is forgotten |

Hard: between the failed exchange and `FUTEX_WAIT` the holder may unlock; a
barging thread may take the lock before the one that was woken; one wake per
unlock has to be enough for any number of sleepers.

### Queues

`queue_t` is a singly linked list with `first`, `last`, `count`, `max_count` and
four statistics. `queue_add` refuses when the queue is full and otherwise
appends a node, `queue_get` refuses when it is empty and otherwise takes the
first. A *writer* thread adds 0, 1, 2, ..., retrying a refused value; a
*reader* thread gets values and reports one it did not expect. A *monitor*
thread prints the statistics once a second.

| Where | Around the bodies of `queue_add` and `queue_get` |
|---|---|
| `lab2/1` | nothing; both threads are pinned to one CPU |
| `lab2/2/a-spinlock` | the spinlock above |
| `lab2/2/e-mutex` | the futex mutex above |
| `lab2/2/f-cond_var` | a pthread mutex, and a condition variable that makes the threads take turns |
| `lab2/2/g-semaphore` | a pthread mutex, and two semaphores that count nodes and free places |

Correct when: a bounded FIFO; the assertions on `count` hold; no node is leaked,
used after `free` or freed twice; the reader never reports an error; the two
threads do not stop each other.

Hard: lost updates of `count`; `q->last` dangles while the queue is empty; the
list is changed in several statements; signals nobody waits for and waits that
end by themselves; the refusing branches post semaphores and hand over turns
too; `queue_add` may fail between two steps when `malloc` does.

### Storage

`lab2/3/{mutex,rwlock,spinlock}`: a list of 1000 nodes with random strings, a
lock in each node. Three *process threads* walk the list and compare the lengths
of neighbours, holding the locks of two nodes; three *swap threads* walk it and,
in a random half of their passes, exchange the second and third of three nodes
of which they hold the locks. Every lock is tried, never waited for: a thread
that cannot have a lock walks on. The first node never moves. The three
programs differ only in the kind of lock.

Correct when: the list stays a permutation; each thread gives back exactly what
it has locked; compared nodes are neighbours; no `NULL` is dereferenced; a
thread stops only on a list that is too short.

Hard: a swap is three stores, after which the locked nodes are found again by
following the links just changed; walks without a lock see half-done swaps.

### Proxy

`proxy/main.c`: `main` accepts a client, allocates a block for its request and
reads it, writes socket and request into its variable `ctx` and starts a
detached thread with the address of that variable. The thread,
`client_handler`, reads the two members, copies the request, opens a socket to
the host it names, sends the request, copies the answer to the client and
releases the two sockets and the request.

Correct when: a client gets the answer to its own request and no other; every
socket and request is released once; each client is dealt with in turn.

Hard: all handlers share one `ctx`, which `main` writes again for the next
client; descriptor numbers and memory are reused at once; the ways out of the
handler release different things; either end of a connection may be closed at
any time, and nothing handles SIGPIPE; `main` waits for each client's request
itself.

### Threads on clone

`lab1/6`: `mythread_create` numbers the thread with the static `mythread_id`,
maps a file of that number as its stack, puts a structure at the end of the
stack and calls `clone`. A joinable thread belongs to the caller's process; one
that is not joinable is a process of its own, whose end `mythread_create`
waits for. `thread_startup` runs the routine, stores its result, sets
`finished` and, if joinable, polls `joined`; `mythread_join` polls `finished`,
takes the result and sets `joined`.

Correct when: a join gets the result of its thread and lets the thread go; a
thread that is not joinable has ended when its creation returns; no two threads
have one stack; calls return.

Hard: two threads set two flags in opposite order; the counter has no lock; a
failed `clone` is not looked at, and `waitpid(-1)` then waits for any child; the
end of a process is the end of all its threads.

### Sequential example

`lab2/1/queue-example.c`: `main` adds ten values, tries to get twelve and calls
`queue_destroy`, while the monitor that `queue_init` has started prints the
fields of the queue without a lock.

Correct when: the monitor has ended before the queue is freed, nothing stays
allocated, and the program ends.

Hard: a cancellation takes effect only where the monitor prints or sleeps; the
queue may be destroyed with nodes in it.

### The others

| Where | What it does | Hard |
|---|---|---|
| `lab1/5.c` | a thread for SIGINT, one that waits for SIGQUIT, `main` blocks all signals | signals before the handler or the mask is set |
| `lab1/4` | a thread is cancelled while it prints, counts, or holds memory with a cleanup handler | where cancellation takes effect |
| `lab1/1`-`lab1/3` | create and join threads | nothing is shared beyond the argument |
| monitors | `qmonitor`, `queue_print_stats`, `count_monitor` print unlocked fields | the line may be of no single moment |

`PROJECT.json` lists the hazards line by line with the properties that cover
them, or the reason why none does.

## 2. Modules

    Mutex           <- SpinLock FutexMutex TtasLock ExchangeFutex, used by Locks
                         SpinLock, FutexMutex also used by LockedQueue
    Fifo            <- ListQueue, extended by
                         UnsyncQueue LockedQueue CondQueue SemQueue
                       QueueExample extends ListQueue, too
    AdjacentSwaps   <- Storage
    Proxy
    MyThread

    MCUnsyncQueue, MCStorage: symmetries for the runs
    LocksProofs
    ListQueueProofs <- LockedQueueProofs CondQueueProofs SemQueueProofs
                       (UnsyncQueue is an instance in it; the theorems about
                       QueueExample are in LockedQueueProofs)
    StorageProofs
    MyThreadProofs
    ProxyProofs

`Mutex`, `Fifo` and `AdjacentSwaps` are the abstract specifications: what the
callers of a component are promised. Arrows from there are refinements; arrows
from `ListQueueProofs` lead to the modules that use its lemmas.

**Locks.** Each of the four modules models the lock and unlock functions of one
lock with a place `at[t]` for every thread: "idle" outside, "held" between the
two functions, the others between two steps of them. An exchange, a load, a
store and a system call are one step each. `FUTEX_WAIT` compares and goes to
sleep in one step, as the kernel does; a sleeper may also return without being
woken. `Locks` runs any of the four, chosen in the initial state. Its refinement
mapping reads the abstract mode off `at`: the lock is acquired at the successful
exchange and released at the exchange or store that frees the word, although
`FUTEX_WAKE` is still to come.

**Queues.** `ListQueue` is the code the five queues share, without locking: one
action per statement. `q` is the `queue_t`; `heap` and `live` are the cells
`malloc` may return and those allocated; `w` and `r` are the locals of the two
threads, including the register in which `q->count++` and `q->count--` change
the count; `fault` says how the program has died. What follows from undefined
behaviour is a fault: dereferencing `NULL` or a pointer out of nowhere, freeing
twice. Following a pointer to a freed cell is no fault, since the cell is still
there: `MemorySafe` (no fault) does not exclude it, `TouchesAllocated` does, by
what each statement is about to touch. The link of a freed cell becomes `Wild`,
since the allocator writes there; the contents of the cell can be reused at
once. `malloc` returns any cell that is not allocated, and fails when there is
none (the code aborts). Each variant adds the code around the bodies:
`UnsyncQueue` nothing, `LockedQueue` the steps of `SpinLock` or of `FutexMutex`,
`CondQueue` and `SemQueue` the pthread primitives, which are external and
modelled from how they are used. In the refinement mapping the buffer is the
contents of the list; a value is put when its node is linked and got when it is
unlinked.

In `QueueExample` one thread is the writer first and the reader afterwards, and
the monitor is a second one that may read a queue that is gone (a fault). Its
specification is `ExampleSpec`, so that one module can extend it and
`LockedQueue`.

**Storage.** `Storage` is the code of the three programs, which differ in the
lock of a node only. A program that only tries mutexes and spinlocks cannot
tell them apart, so there are two kinds of lock, "exclusive" and "rwlock"; the
variable `kind` is chosen in the initial state, and `CanRead` and `CanWrite`
read it. `locks[n]` is the set of threads that hold the lock of node `n`. The
refinement mapping undoes the stores of swaps under way (`Settled`) and lists
the nodes in the order of these links (`Order`), so that a swap takes place at
its last store.

**Proxy.** `Proxy` has one action per call or access to shared state of `main`
and of `client_handler`, and three for what a client may do: connect, send its
request (with a host in it or without), leave. `fds` is the descriptor table,
with the lowest free number given out as POSIX prescribes; `heap` and
`allocated` are the blocks for requests. A thread keeps numbers and addresses
only, so it may hit what somebody else has opened or allocated there since. A
request is identified with its sender and an answer with the request. The ways
out of the handler differ in the list of things they release, `todo`. The
variable `overtaken` is not in the code: it records that `main` has written a
member of `ctx` that some handler had still to read.

**Threads on clone.** `MyThread` has one action per access to the counter or to
a flag and per system call of the library. Main and the routines of the threads
are its users: they create threads, join those they have created, and return.
`group` is the process a thread belongs to, and `reaped` the children that have
been waited for, so that `waitpid` can be modelled as the kernel does it: for
one child, for any child when `clone` has returned -1, and failing when there
is none. `clobbered` says that a stack has been mapped twice, after which
anything may happen and nothing more is modelled; `overlapped`, which is not in
the code, records that two calls of `mythread_create` have been between the
increment of the counter and the creation of the stack at once.

**Memory model.** The interleavings are those of a sequentially consistent
machine and of code that accesses memory as often as the source does. The
programs are built without optimisation (`CFLAGS= -g -Wall` in the Makefiles).
A link of a node that the thread has locked is read in the step that uses it,
because nobody else may write it; `LocksMatch` checks that.

## 3. What the runs show

| Run | Question | Bounds | Distinct states |
|---|---|---|---|
| `locks` | The four locks exclude (`ImplementsMutex`), lose no wake-up (`NoLostWakeup`), and a free lock that is asked for is taken (`FreeLockIsTaken`) | 5 threads | 13 thousand |
| `locked_queue` | The queues behind the spinlock and the futex mutex are bounded FIFOs, leak nothing (`Consistent`), touch no freed node (`TouchesAllocated`), and some call always returns (`SomeCallReturns`) | capacities 0, 1, 2; 2 cells; integers mod 4 | 119 thousand |
| `cond_queue` | The threads alternate in spite of spurious wake-ups, no call is refused, both sides keep moving | as above | 6 thousand |
| `sem_queue` | The semaphores account for every place (`TokensBalance`), the refusing branches are dead, both sides keep moving until memory runs out | capacities 1 to 4; 3 cells; integers mod 5 | 407 thousand |
| `unsync_queue` | What survives without a lock: `count` stays in range so that the assertions hold, the reader follows no pointer to a freed node, and no more values are skipped than nodes leak | capacities 0, 1, 2; 4 cells; integers mod 6 | 3.9 million |
| `unsync_memory` | **violated**: a node is cut off but counted, so that `queue_get` finds a positive count on an empty list and dereferences `NULL` | capacity 2; 3 cells | |
| `storage` | Swaps are whole (`ImplementsSwaps`), locks are given back by their holders (`LocksMatch`), compared nodes are neighbours (`ComparesNeighbours`), and `NULL` is dereferenced nowhere but in a pass without swaps (`OnlySkippingFails`) | both kinds of lock; 4 nodes, 2 process threads, 2 swap threads, up to symmetry | 3.6 million |
| `storage_swaps` | Swaps are whole also when two are under way at once (`ImplementsSwaps`) | 6 nodes, 2 swap threads, up to symmetry | 818 thousand |
| `swap_stops` | **violated**: a swap thread may stop, reporting too few elements, on a list that has them all | 4 nodes, 2 swap threads | |
| `proxy` | Clients are confused, and sockets or requests released twice, only after `ctx` has been overwritten too early (`OwnAnswers`, `ReleasesItsOwn`); what is never released and why (`LeaksAreRefusals`); every request is handled (`EveryRequestHandled`) | 2 clients, 3 descriptors, 2 blocks | 172 thousand |
| `mythread` | A join gets the result (`JoinGetsResult`), a thread that is not joinable ends before its creation returns (`RunsBeforeReturn`), stacks are shared only after overlapping calls (`OwnStacks`), what makes a call hang (`CallsReturn`), and joined threads go (`JoinedThreadsGo`) | main and 3 threads | 256 thousand |
| `queue_example` | `queue_destroy` ends the monitor before it frees what the monitor reads (`MemorySafe`), leaves nothing allocated (`NothingLeft`) and returns (`Terminates`) | capacities 2 and 1000; 3 values; 0, 1, 2 or 5 gets | 12 thousand |

### Findings

1. *lab2/1*, `unsync_memory`: `queue_get` reads the link of the first node,
   `NULL` while it is the only one; `queue_add` appends behind that node
   (`queue.c:88`); `queue_get` stores the `NULL` it has read into `q->first`
   (`queue.c:109`), and the new node is cut off. `queue_add` counts it, so the
   count is positive on an empty list, and the next `queue_get` dereferences
   `NULL` (`queue.c:106`). This explains the comment "segfault" in
   `queue-threads.c:83`. No update of `count` is lost in this behaviour. A
   decrement that `queue_add` overwrites leaves the count too high as well, but
   it takes one more get until the list is empty; an increment that is lost
   leaves the count too low.
2. *lab2/3*, `swap_stops`: the test for three nodes (`mutex/main.c:91`) reads
   two links without a lock; if another thread moves the node of the first read
   to the end of the list before the second, the thread ends.

What the other properties say is conditional, and the condition is the flaw.

The cut-off of *lab2/1* has a second outcome: if the writer adds another node
before the reader comes back, the list is not empty, and the reader reports a
gap instead (`queue-threads.c:48`). `SkippedValuesLeak` bounds it: at least as
many nodes have leaked as values were skipped. (`ReadsInSequence` instead of
`MemorySafe` in `UnsyncMemorySafe.cfg` shows such a behaviour.)

`OnlySkippingFails` circumscribes a further flaw of the storage: in a pass that
does not swap the link is read once for the test and once for the assignment
(`mutex/main.c:102-103`), and may have become `NULL` in between.

The code of the proxy makes no effort to keep `main` from overwriting `ctx`, and
its documentation promises nothing; `OwnAnswers` and `ReleasesItsOwn` say that,
as far as control and the ownership of sockets and requests go (buffers and
their sizes are not modelled, see 6), this one race is the cause of every
confusion: giving each handler a context of its own would remove them.
They do not catch the race itself, which the code really has.
`LeaksAreRefusals` lists the other flaws: a client whose
request is refused is left connected for ever, and its request is leaked, as
are those whose host cannot be reached. `EveryRequestHandled` names what stops
the proxy for everybody: one silent client, a SIGPIPE, no descriptor left.

`CallsReturn` and `OwnStacks` name what is wrong with `lab1/6`: the number of a
stack is unprotected, so that threads that create threads at the same time may
get one stack; a failed `clone` is reported as success, and the join then never
returns; a joinable thread that nobody joins never ends, and if it belongs to
the process of a thread that is not joinable, `mythread_create` of the latter
never returns either.

The type invariants of `LockedQueue`, `CondQueue` and `Storage` are proved and in
no run.

### Why these bounds are enough

* *Threads of a lock.* Four are the fewest that show a holder, a sleeper, a
  woken thread and a barging one at once; the run has one more. Nothing depends
  on which thread is which, and the theorems of section 5 hold for any number.
* *Capacities.* 0 makes full and empty the same, 1 makes the list pass from
  empty to full and back, 2 lets the threads work on different nodes. With
  capacity 4 on 3 cells (`sem_queue`), and whenever nodes have leaked
  (`unsync_queue`), `malloc` fails too.
* *Cells.* A list of 2, one node in the hands of each thread: 4 cells let the
  unsynchronised queue leak before memory runs out.
* *Integers.* `Width` and `LongWidth` are the numbers of values of `int` and
  `long`. Small ones keep the runs finite by what the machine really does, wrap
  around. `Width` is at least the number of values that can be under way at once
  (capacity plus the one being put and the one being got, and in
  `unsync_queue` those in leaked nodes), so that values are told apart.
  `LongWidth` 1 abstracts from the statistics where no property reads them.
* *Proxy.* Two clients are enough for one to overtake the other and for the
  descriptors and the block of one to be given to the other. With three
  descriptors the second handler may find none left for its socket.
* *Threads on clone.* Three beside `main` are the fewest for a thread that is
  not joinable, a joinable one of its process, and a failed creation whose
  `waitpid(-1)` competes for a child. The theorems hold for any number.
* *Sequential example.* Adding 3 values to a queue of 2 has one refused, and
  the gets leave 3, 2 or no nodes to `queue_destroy`, or find the queue empty.
* *Nodes.* Three is the fewest a swap needs. Four let two swap threads contend
  for overlapping triples and let a node be moved to the end of the list. Two
  swaps at once need six nodes.

`CHECK_DEADLOCK FALSE` is set where the modelled program can really stop: it
dies of a fault or of a failed `malloc` (`sem_queue`, which aborts with the
mutex held, `unsync_queue`, `proxy`), its threads return (storage, by finding
2; `mythread`), it ends (`queue_example`), or nobody has anything left to do
(`proxy`, once all clients are gone). It is on in the lock runs and in
`locked_queue` and `cond_queue`, where `malloc` cannot fail within the
capacities used.

Every run but the violated ones is accompanied by a faulty variant of a
definition for each of its properties (operators commented "Faulty variant"),
a plausible bug on which the property fails.

## 4. Fairness

* Every thread that can take a step takes one eventually (weak fairness for each
  thread): threads are scheduled preemptively by the kernel. Threads asleep in
  `FUTEX_WAIT` are promised nothing: in `Locks` and `LockedQueue` the fair action
  excludes the return without a wake-up.
* No lock is fair to a particular thread, so the locks only promise that *some*
  asking thread gets a free lock and `LockedQueue` only that *some* call returns
  (`SomeCallReturns`). A thread of `LockedQueue` may lose every race.
* `CondQueue` assumes in addition that waits do not end without a signal for
  ever. Otherwise the waiting thread could hold the mutex each time the other
  tries it. Any finite number of spurious wake-ups is allowed.
* `SemQueue` needs no more than the scheduling of its threads: the semaphores
  bound how often one can overtake the other. Capacity 0 is left out of its run:
  both semaphores are 0 and both threads block in `sem_wait` for ever, as
  there is no place for a value.
* `Proxy`: `main` and the handlers are scheduled, and `connect` ends by itself.
  Clients and servers are promised nothing: reading from a host is not fair, and
  `EveryRequestHandled` is conditional on no client being silent for ever.
* `MyThread`: everybody is scheduled, so that a call goes on and a poll sees a
  flag that stays set, and every routine returns. Nobody is obliged to create
  or to join a thread.
* `QueueExample`: `main` and the monitor are scheduled, and `sleep` and `printf`
  end.
* The storage runs state no liveness. A walk need not end: nodes can be moved
  behind the walking thread again and again.

## 5. What is proved

All proofs are for every value of the constants under the named assumptions of
the modules: `ListQueueAssumption` (`NULL`, `Wild`, the cells and the threads
are different things, memory is finite, capacities are natural numbers, the
integer types have at least one value), `QueueExampleAssumption` (numbers of
adds and gets are natural numbers), `StorageAssumption` (at least three nodes;
no thread is a process thread and a swap thread), `MyThreadAssumption` (`None`
is no thread and no number, `main` is not created by the library),
`ProxyAssumption` (descriptors are finitely many numbers, there is a block for
every client, and clients, connections to servers, `None` and `Scrambled` are
different things). The locks need none.

* `LocksProofs` — for any set of threads and each of the four locks:
  `TypeCorrect`, `WakeupsNotLost` (the invariant `NoLostWakeup`) and
  `LocksExclude` (the refinement `ImplementsMutex`). An exchange looks at the
  word and not at the threads, so exclusion is not inductive by itself; the
  invariant `IInv` adds `WordTells`: the word is the free one exactly while
  nobody holds the lock. `NoLostWakeup` needs the same fact, since a thread
  falls asleep only on a word that is taken. For the refinement, four lemmas say
  what a change of one thread's place means to the abstract lock, and each
  action falls under one of them. `NeverAllAsleep`: while a thread sleeps in
  `FUTEX_WAIT`, another holds the lock, is on its way to it or is about to wake
  one.
* `ListQueueProofs` — lemmas about the statements the five queues share, in
  layers. `QueueInv` is kept *whatever the other thread does*: the types,
  `Tested` and `Bounded` (a thread that has passed its test of the count still
  finds it true, and a loaded count is in range). That holds without a lock
  because the writer alone increments and the reader alone decrements, and each
  stores a value made of one it has itself loaded since its test. `ListInv` is
  kept while *the other thread is outside its body*: there are a sequence `s`
  of nodes and two numbers such that the nodes of the list are the places `lo`
  to `hi - 1` of `s`, each linked to the next, all allocated, as many as `count`
  says (but for what the running call has linked and not yet counted), carrying
  the values from the expected one on. A node is added by making `s` longer and
  got by raising `lo`, which spares the proof any recursion over the links. The
  part of it that is about nodes (`Shape`) needs nothing of the part that is
  about their values (`Orderly`): `AddKeepsShape` and `GetKeepsShape` say that a
  statement leaves a list, and one in order if it was, so they also serve the
  sequential example, whose `main` adds a new value after a refused call too
  and expects none.

  A third layer (`Listing`) gets from `ListInv` to the operators of the
  refinement mapping: `NodeAt` is `s` from `lo` on, `Length` is `hi - lo` and
  `Contents` are the values in between. `NodeAt` is defined recursively along
  the links. Instead of an induction, the proof exhibits a function that
  satisfies the recursive equation, and lets two functions that satisfy it
  differ at a least place, where they cannot (`LeastOne`, `NodesAt`); that the
  list fits into the domain of `NodeAt` takes the finite memory. With this each
  statement is a step of `Fifo` (the assignments that link or unlink a node) or
  none (`AddImplements`, `GetImplements`, `LoopImplements`). The last layer
  (`Totalled`) has the counters of successful calls, modulo their width, and
  ends in `ListConsistent`.

  The module also holds the theorems about the queue of lab2/1, as an instance
  of `UnsyncQueue`, which need nothing but facts about the statements.
  `UnsyncTypeCorrect` and `UnsyncAssertionsHold` (`CountInRange`) follow from
  `QueueInv`: the assertions of lab2/1 cannot fail for any capacity even though
  `count` is wrong most of the time. `UnsyncFirstIsAllocated`
  (`FirstNeverDangles`) needs an invariant of its own, `SingleLinks`: without a
  lock nodes get lost and `q->last` dangles, so `ListInv` is false, but links of
  allocated nodes lead to allocated nodes only, no two of them to the same one,
  and none to the first. Hence the node that the reader frees hangs on nothing
  any more, and a link that the writer stores through a stale `q->last` goes
  into a node that is not reachable, or leads to a new node nobody else knows.
  `UnsyncSkippedLeak` (`SkippedValuesLeak`) needs the history of the queue as
  well, and keeps it in numbers that the program does not have: `Accounted` says
  that one *can* number the nodes in the order in which they were made so that
  values are the numbers modulo `Width`, numbers grow along the links, the
  number the reader has got lies between the one it expects and those on the
  list, and every number from the expected one on is that of an allocated node,
  but for the node the reader has just freed. So the list holds only numbers
  above the one the reader has just got, and the nodes of the numbers in between
  are allocated and not on the list; counting them bounds the difference that
  the reader reports. That numbers grow along a link which the writer adds takes
  `LastLinks`: the node behind which it links is the end of the list, or has
  left a list that is empty. Here `NodeAt` may run into a dead end, and
  `NodesFollow` shows that it is defined at all.
* `LockedQueueProofs` — the word of the lock tells who holds it (as in
  `LocksProofs`, restated for two threads), a thread in a body holds the lock,
  hence `ListInv` is kept: `TypeCorrect`, `NoFreedNode`
  (`TouchesAllocated`: what a statement touches is on the list or in the hand of
  its thread, by `ListAllocated`),
  `InSequence` (`ReadsInSequence`), `InOrder` (`Consistent`) and `IsFifo` (the
  refinement `ImplementsFifo`). `NeverBothAsleep` rests on `Wakeful`: while one
  thread sleeps, the other is inside the lock function or holds the lock.

  The sequential example is here because there, too, no two bodies overlap, for
  a simpler reason: one thread calls both (`OneCaller`: `main` is inside a body
  only in the loop that calls it, and only while a call of this loop is left).
  `ExampleTypeCorrect`, `ExampleNoWildPointer` (`MemorySafe`) and
  `ExampleLeavesNothing` (`NothingLeft`) hold for any numbers of adds and gets.
  That the allocated nodes are those of the list is what makes `queue_destroy`
  free them all: it raises `lo` like a get, without touching the nodes or
  `count`, so `Counted` is dropped from there on (`Remains`), and when it finds
  `q->first` to be `NULL` the list has no place left, so neither has the set of
  allocated nodes. `InTurn` has the order of its steps: the nodes are freed
  after the monitor has ended, and the `queue_t` after the nodes. Without it a
  step of the monitor could be the one that reads what is gone.
* `CondQueueProofs` — `operation` is a baton: whoever is past its test has it.
  So bodies exclude each other and `ListInv` is kept (`InSequence`:
  `TouchesAllocated` and `ReadsInSequence`), the
  attempts of the two threads differ by the turn (`TakeTurns`, the invariant
  `Alternates`), and, if there is memory for one node at all, the list has one
  node in the reader's turns and none in the writer's (`NobodyRefused`, the
  invariant `NeverRefuses`). `IsFifo` is the refinement of `Fifo` without its
  fairness. Nobody waits in vain: `Handover` says where the owner of the mutex
  is, and that a thread waits on the condition variable only in the other's
  turn. So no signal is lost (`SignalsArrive`), and reader and writer never wait
  for each other (`NeverBothWait`).
* `SemQueueProofs` — `TypeCorrect`, `NobodyRefused` (`NeverRefuses`),
  `InSequence` (`TouchesAllocated` and `ReadsInSequence`), `TokensKept`
  (`TokensBalance`) and `IsFifo`. The semaphores balance against `count` only if
  `count++` and `count--` do not interleave, so the invariant `Inv` also says
  that the mutex is owned by the thread in a body, that a loaded count is not
  stale, and, for both semaphores, where the unit of each call under way is. For
  every capacity but 0, reader and writer never wait for each other
  (`NeverBothWait`): who owns the mutex is inside a body (`Held`), and two
  threads without a unit would mean a queue both empty and full.
* `StorageProofs` — for a list of any length, any sets of threads and both
  kinds of lock: `TypeCorrect`, `LocksGivenBack` (`LocksMatch`),
  `NeighboursCompared` (`ComparesNeighbours`), `SkippingAloneFails`
  (`OnlySkippingFails`) and `ListStaysWhole`. The invariant says of each thread
  what it knows of the nodes it has locked (`Owned`), which no other thread can
  make untrue, because a link is written only by a swap thread that has the
  lock of its node, and such a lock is exclusive (`Exclusive`). `Owned` alone
  does not exclude that the list becomes a cycle, on which a thread would lock
  a node twice; `Whole` does: there is a numbering of the nodes in which every
  link leads to the next number, but for those of swaps under way.
  `SwapsNeighbours` (the refinement `ImplementsSwaps`) is read off the same
  numbering: `Order` is its inverse (`OrderIsByRank`, again without induction:
  the inverse satisfies the recursive equation of `Path`, and two solutions
  would differ at a least place), a step that leaves the numbering alone leaves
  `Order` alone, and the last store of a swap exchanges the numbers of two
  neighbours.
* `MyThreadProofs` — for any set of threads: `TypeCorrect`, `ResultsArrive`
  (`JoinGetsResult`), `StacksAreOwn` (`OwnStacks`) and `EndsBeforeReturn`
  (`RunsBeforeReturn`). All rest on `Creation`: a thread is created by one call
  and does not run before its `clone`. Each has an invariant of its own
  besides: `Results` (the value is there before the flag, and neither changes
  any more), `Numbers` (without overlapping calls the counter is above the
  numbers of all stacks when one is created), `Processes` (a process that has
  ended gets no new threads, and a child somebody else has waited for has
  ended).
* `ProxyProofs` — for any number of clients, descriptors and blocks:
  `TypeCorrect`, `AnswersOwn` (`OwnAnswers`), `ReleasedOwn` (`ReleasesItsOwn`)
  and `LeaksRefused` (`LeaksAreRefusals`). The invariant has two parts. `Placed`
  holds always: what main and a handler have at each place, and which lists of
  things to release there are (`Todos`, each of which names a thing once). `Own`
  holds until `ctx` is overwritten too early, and is false afterwards: what main
  has is its client's (`MainOwns`), what a handler is still to release, or will
  read from `ctx`, is its own (`HandlerOwns`), no connection is under two
  descriptors and every connection has an owner or was refused (`SocketsOwned`),
  and no request is in two blocks (`RequestsOwned`). That connections and
  requests are unique is what makes it inductive: whoever closes or frees
  something of his own cannot hit what belongs to anybody else, and what has
  just been opened or allocated was nobody's. There is one lemma per group of
  actions; `OthersKeep` carries `HandlerOwns` over for the handlers that do not
  move.

Only model-checked: all liveness, since the provers know neither fairness nor
`ENABLED`. These are `ImplementsFairFifo` (the fairness of `Fifo`; its safety is
`IsFifo`), `FreeLockIsTaken`, `SomeCallReturns`, `CallsReturn`,
`JoinedThreadsGo`, `EveryRequestHandled` and `Terminates`. What safety says
about progress is proved (`NeverAllAsleep`, `NeverBothAsleep`, `SignalsArrive`,
`NeverBothWait`): nobody waits for somebody who waits. That a thread that can
go on does is fairness, and stays with TLC. Every safety
invariant and every refinement that a passing run checks is also stated by a
theorem.

## 6. What is not modelled

* The monitors of lab2/2 and lab2/3, and that of lab2/1 beside two threads:
  they change no state, outlive nothing, and no property is about what they
  print. The monitor of lab2/1 is in `QueueExample`, where the queue can go
  away under it.
* `queue_destroy` of lab2/2: no program calls it. `set_cpu`: pinning does not
  restrict the interleavings of two preemptible threads.
* Values and counters of lab2/3: no branch of the threads depends on them.
* `EINTR` from a futex call, on which `mutex_lock` of lab2/2 aborts: the
  programs install no signal handler.
* Reordering by the compiler or the processor (see *Memory model*).
* The way out of `queue_destroy` on which `pthread_join` fails and the process
  ends (`lab2/1/queue.c:51-54`).
* Of the proxy: `create_server_socket`, which runs before there are clients; the
  bytes of requests and answers, and with them the sizes of buffers and the
  format of what is printed (`main.c:68`, 143, 155); failures of `calloc`; a
  descriptor closed by another thread while a call on it is blocked (a call
  looks its descriptor up when it completes), which can happen only after `ctx`
  was overwritten.
* Of `lab1/6`: the return of `main`, which ends the process of the joinable
  threads; that `6.c` prints a result it has not asked for when the thread is
  not joinable; stacks, which are never unmapped.
* `lab1/5.c`: three routines without shared state. What happens is decided by
  the kernel, from dispositions and masks, and `sigwait` is called with a signal
  that is not blocked, which POSIX leaves undefined; a module would model the
  kernel rather than these statements.
* `lab1/4`: one thread cancels another once, after five seconds, and joins it;
  what is at stake is one block of memory with one cleanup handler.
* `lab1/1`-`lab1/3`: nothing is shared beyond the argument of a thread.

## 7. Plan

What the repository is mainly about came first: locks with `Mutex`, the queues
with `Fifo`, the storage with `AdjacentSwaps`, the proxy, then the thread
library and the sequential example; then proofs of the safety properties of all
of them. What is left is out of reach of the provers (liveness, see 5) or not
modelled for the reasons in 6.
