# Verification of the ReactOS kernel

This directory holds TLA+ models of `src/ntoskrnl`, the NT-compatible kernel of
ReactOS as of 2005, the TLC configurations that check them, and theorems about
them that the TLA+ proof system checks. The tree builds one program: the kernel
image, configured for one processor (`CONFIG_SMP` is 0) and without debugging
checks (`DBG` is 0). The HAL it runs on is not in the tree, only its header.

To check: `tlc -config X.cfg M.tla` for a row of the tables below, `tlapm P.tla`
for a module of proofs. `PROJECT.json` maps every definition to the lines it
models, lists the hazards of the code with the properties that watch them, and
gives for each checked property a mutation of the model that breaks it.

Contents: [the system](#the-system) · [modules and code](#modules-and-code) ·
[runs](#runs) · [bounds and fairness](#bounds-and-fairness) ·
[disagreements found](#disagreements-found) · [further hazards](#further-hazards) · [proofs](#proofs) ·
[what is not covered](#what-is-not-covered) · [plan](#plan)

## The system

The kernel is a library of services that run in the context of the thread that
calls them, and are interrupted by the clock, by devices and by software
interrupts. There is no message loop. What makes it concurrent are threads
(scheduled preemptively at the end of a quantum), deferred and asynchronous
procedure calls (DPCs and APCs), and interrupts. What keeps them apart is the
IRQL (a DPC is not interrupted by a thread switch), the dispatcher database lock
(everything about waiting and scheduling), one spin lock per data structure,
sleeping locks (fast mutexes, resources), and interlocked instructions.

### Inventory

| Part (directory) | State it keeps | Operations | What is hard | What makes it correct |
|---|---|---|---|---|
| Dispatcher objects, waits (`ke/wait.c`, `event.c`, `sem.c`, `mutex.c`) | a `SignalState` and a list of wait blocks per object; per thread its wait blocks, timer, alerts | wait for one, any or all; set, pulse, reset; release; alert; time out | an operation may keep the lock for the caller's next wait; a wait is ended by signal, timeout, alert, APC or termination, in any order | a wait block is linked exactly while its thread waits for it; no signal is missed; a mutant's owner, count and list agree; waits that can end do |
| Kernel queues (`ke/queue.c`) and their users (`ex/work.c`, `io/iocomp.c`) | entries, waiting threads, number of active threads | insert, remove, rundown; every other wait of a registered thread | the count of active threads is changed by six functions in three files | the count is exact; no entry lies with room and a thread waiting; entries are handed out once |
| DPCs (`ke/dpc.c`, `ke/clock.c`) | a list, its depth, and request flags per processor | queue, remove, dispatch | the queue is changed by interrupts while the loop runs it; the flags say what the HAL was asked for | list, depth and marks agree; a queued DPC runs |
| Timers, clock (`ke/timer.c`, `ke/clock.c`) | a list sorted by due time, the two times | set, cancel, expire, set the system time | the clock ticks into every reading of it; a periodic timer is inserted during its expiry | no timer is lost from the list, early, or late without the expiry pending |
| Device queues, StartIo (`ke/kqueue.c`, `io/queue.c`) | a busy flag, a sorted list, the current IRP | insert, insert by key, remove, remove an entry | an IRP is cancelled while it is queued, current or about to be | one IRP at a time, none lost, an idle device has nothing queued |
| APCs (`ke/apc.c`) | two lists per APC environment, pending marks, region counts | initialise, queue, remove, deliver | delivery gives up the lock for every routine, and is entered again inside one | normal routines never nest; nothing pending is stranded |
| Attaching (`ke/process.c`) | the current and the saved APC states | attach, detach, stack attach | lists move link by link while APCs may be in them | the thread runs where it attached to; lists stay lists |
| Scheduling (`ps/thread.c`, `ps/idle.c`) | 32 ready lists and a mask, the current thread, quanta | block, unblock, yield, set priority, reap | shares a list entry with kernel queues; a dead thread is on its own stack until switched away | lists hold the ready threads; the highest runs; dead threads are freed and nobody else is |
| Suspension (`ps/suspend.c`) | a count, a semaphore, an APC | suspend, resume, alert-resume | the count has two locks | a count above zero stops the thread, zero lets it go |
| Termination (`ps/kill.c`, `ps/create.c`) | a list of threads per process, a state per thread | create, exit, terminate another thread, terminate a process | the list has two locks; victims go on running until their APC; threads are created meanwhile | every thread of a killed process ends; the last one, and only it, closes the process |
| Process lock (`ps/process.c`) | owner, recursion count, event | lock, unlock | compare-and-exchange, three tries, a wait | one inside |
| Fast mutexes (`ex/fmutex.c`) | Count, Owner, Contention, an event | acquire, try, release | interlocked steps and an event of one signal | exclusion; no sleeper while it is free |
| Resources (`ex/resource.c`) | shared or exclusive owner entries, waiter counts | acquire in six ways, convert, release, set owner pointer | counts hand over ownership before the waiter wakes | an exclusive owner is alone; all released is free; no waiter stranded |
| Rundown protection, callbacks (`ex/rundown.c`, `cm/ntfunc.c`, `ex/callback.c`) | a count and a flag in one word, or a descriptor on a stack; registrations with counts of calls; one event of the system | acquire, release, wait for the users; register, notify, unregister | interlocked retry loops; a callback runs without the lock its list is under; an event shared by several waiters | nothing is freed while it is in use; nobody waits for ever |
| Handle tables (`ex/handle.c`) | entries with a lock bit, a free list through them, sub-tables | create, look up, close, duplicate, destroy | look-ups without a lock; a table's lock and its entries' locks in both orders | list, count and entries agree; each handle is made and closed once |
| LPC (`lpc`) | per port a state, its peer, two message queues and a semaphore | connect, listen, accept or refuse, complete, request, reply, receive, close | messages and their counts are separate steps; both ends change both ports without a lock | a count for each message; replies reach who asked; nobody waits for a dead peer |
| Objects (`ob`) | reference and handle counts, permanence, names in a directory | create, reference, look up by name, open, close, duplicate, make temporary | the last reference goes while a name is looked up; two counts that are read and changed apart | an object lives while it is referred to, and goes when it is not |
| Physical memory (`mm/balance.c`, `freelist.c`) | free pages, counts per consumer, requests that wait | request, release, trim | a request is tested before it is queued; a released page is handed over by whoever releases it | a page has one owner; who waits is handed a page; counts are of pages |
| Anonymous memory and paging (`mm/anonmem.c`, `pageop.c`, `rmap.c`, `i386/page.c`, `pagefile.c`) | page table entries, reverse maps, saved swap entries, one page operation per address, the paging file's entries | fault, page out, lock, decommit, free | the page-out works without the address space's lock; everyone else waits for its page operation | what was written is what is read; a page and an entry have one use; faults return |
| Sections (`mm/section.c`) | per segment a table of pages or swap entries with share counts; per view a region list; page operations by offset | fault, copy on a write, protect, page out, unmap, delete | one page under several address spaces; the page-out takes every view's mapping without their locks; three places say that a page is dirty | all views read what was written; a share count is the number of views; a private copy stays its view's; nothing outlives the section |
| Address spaces (`mm/marea.c`, `region.c`) | a balanced tree of areas; a list of regions per area | create, free, find an area or a gap; commit, reserve, protect | rebalancing in the middle of an insertion; a change of kind that splits and joins | every area is found, none overlap; a page is of the kind asked for last |
| Cache (`cc`) | segments per file with counts, locks, dirty and LRU lists; a cache map per file with a count and a list of closed ones | read, write, map, unmap, flush, trim; begin and end caching, delete | a segment is found under one lock and used under another; a map is deleted without the lock its count is under | a part of a file is in one segment while it is used; nothing written is lost; counts are of users |
| I/O requests (`io/irp.c`, `cleanup.c`, `cancel.c`, `remlock.c`) | packets with a stack of drivers, a list per thread, cancel routines; remove locks | build, send, complete in two stages, cancel, end of the thread; acquire, release and wait | completion, cancellation and the death of the thread race; the walk of a list gives up its lock | a packet is completed and freed once; a thread leaves none behind; nobody uses a removed device |
| Other I/O (`io`, `pnpmgr`) | completion ports, shares, driver and device objects | open, read, write, load, enumerate | mostly one thread at a time; completion ports are kernel queues | - |
| Byte range locks (`fs/filelock.c`) | granted and waiting ranges, a table of contents per file, a hint | lock, unlock, check, cancel, close | queued requests are granted by unlocks, completed outside the lock, or cancelled | no conflicting locks; a grantable one is granted; each grant is reported |
| Registry (`cm`) | hives, blocks, open keys, a hash of changes | open, create, set, flush | crash between writes of a hive | a hive on disk is readable |
| Security (`se`), run-time library (`rtl`), loader (`ldr`), debugger (`kd`, `dbg`), power and boot screen (`po`, `inbv`) | tokens, descriptors, atom tables; images; breakpoints | computations on their arguments | parsing and layout rather than concurrency | functional |

### How the parts interact

* A thread that waits enters `KeWaitForSingleObject`, which calls `PsBlockThread`
  (`ps/thread.c`) to dispatch another one; whoever signals the object calls
  `KiAbortWaitThread`, which calls `PsUnblockThread`. All under the dispatcher lock.
  The wait of a thread registered with a kernel queue wakes another thread of that
  queue first.
* The clock interrupt (`ke/clock.c`) queues a DPC for the timers and requests a
  software interrupt at the end of a quantum; `KiDispatchInterrupt` (`ke/dpc.c`) runs
  the DPCs and dispatches. A timer sets its object's `SignalState` and queues a DPC.
* Queueing an APC unwaits its thread; suspension and termination are APCs; leaving a
  fast mutex, a critical region or an IRQL delivers what is pending.
* The last thread of a process calls the object manager to close all handles, which
  calls the close procedures of ports, files and keys. A dead thread is freed by the
  reaper, woken by whichever thread comes out of a context switch.
* A page fault waits for a page operation, a page request for the balancer; the balancer trims working
  sets through the reverse maps, and the cache's segments, whose writer is a thread of its own.
* LPC, I/O completion, the cache and the memory manager are clients of waits,
  semaphores, queues and references.

## Modules and code

An action is a whole routine where the code holds the dispatcher lock, a spin lock or
DISPATCH_LEVEL on the one processor throughout; otherwise the routine is cut exactly
where another thread or an interrupt can run. Field names are those of the code. The
`Mutated:` definitions are broken variants of the definition below them, which the mutants of
`PROJECT.json` put in its place; no specification uses them. At the end of a module, properties
that no run names alone are conjuncts of those the runs check, or statements of the
[disagreements](#disagreements-found).

**`KeDispatcher`** (+ `MCKeDispatcher`: the waits the threads issue). Objects are a
`signalState` and a `waitListHead`; a thread has a `state`, the `request` it waits for,
`waitStatus`, `timerInserted`, `alerted`, `kernelApcPending`. One action per routine:
`KeSetEvent`, `KePulseEvent`, `KeResetEvent`, `KeSetEventBoostPriority`, `KeReleaseSemaphore`,
`KeReleaseMutant`, the waits (single, multiple, delay), the timer of a timed wait, the
alerts, `KiInsertQueueApc`'s interruption, `KiDeliverApc`, and the termination of a
thread with the abandoning of its mutants. `KiWaitTest` is one action per waiter because it re-reads the
list each time; `lockedBy` is the lock an operation with `Wait = TRUE` leaves to its caller.

**`Lists`** has what the kernel's doubly linked lists share: `Unlink` (`RemoveEntryList`), `InsertAfter`
(`InsertHeadList` at the entry a sorted insertion stops at), and the words for their members. `ListLemmas` proves the facts about them
that every proof below cites.

**`KeQueue`**. `place` says where a thread is (working, in the queue, in another wait,
interrupted), `currentCount` is a 3-bit unsigned number for the code's 32, so that a
count below zero shows. `KeRemoveQueue`, `KiInsertQueue`, `KiWakeQueue` before another wait,
`KiAbortWaitThread`, `KeRundownQueue`, and the registered thread's termination.

**`KeDpc`**. The list, depth and `DpcData` marks, the flags `DpcRoutineActive`,
`DpcInterruptRequested` and `QuantumEnd`, the HAL's standing `softwareInterrupt`, and what the
`processor` does. **`KeTimer`**: the sorted list, `InterruptTime`, `SystemTime`, each timer's
due time, period and state; `KeSetTimer` is cut between its reading of the time and its insertion because
the tick needs no lock, and the expiry is cut per timer.
**`KeClock`** composes the two: the clock interrupt queues `KiExpireTimerDpc` in the
queue that drivers and the timers' own DPCs are in, and the expiry runs when `KiDispatchInterrupt`
gets to it, so that a busy or corrupted queue is a late timer.

**`KeDeviceQueue`**: `IoStartPacket`, `IoStartNextPacket(ByKey)` and `KeRemoveEntryDeviceQueue`
by a cancel routine, between driver calls of StartIo and completion.
Packets with and without keys come in any order; what the keys promise is stated of a list that is in order of keys (`InOrder`),
which a packet without a key, linked behind all others, puts out of order until the list is served.

**`KeApc`**: one target thread with its two lists, `place`, `wait`, region count and a stack of
`frames`, one for every `KiDeliverApc` that is under way. The names are `ApcSpec`, `ApcNext`, `ApcTypeOK`, and `AttachSpec`, `DeviceSpec`, `SuspendSpec` and so on
in `KeApcState`, `KeDeviceQueue` and `PsSuspend`, because `MCComponents` extends them all. **`KeApcState`**: attachment, with list links as functions
(`next`, `prev` on heads and APCs) because `KiMoveApcState` copies a head and patches its neighbours.

**`PsScheduler`**: the ready lists link by link with the entry they share with
`Queue->ThreadListHead`; every operation under the dispatcher lock is one action;
`PsDispatchThreadNoLock` is an operator that the others apply, because the switch is part of them.
The return of the new thread from `KiArchContextSwitch`, where it wakes the reaper, belongs to the step.

**`PsSuspend`**: callers in `stage`s between reading and writing `SuspendCount`; the history `alertResumed` says whether
`KeAlertResumeThread`, which takes the other lock, has been called.
**`PsTermination`**: the thread list link by link, removals in three steps, kills as walks.
**`PsProcessLock`**: `PsLockProcess` cut at every interlocked instruction.

**`ExFastMutex`** refines **`Lock`**, the abstract blocking lock: `holder` is the thread between the exchange
that took Count and the one that gives it back, `wanting` the threads on their way in. Every load, store and interlocked
instruction is an action. **`ExResource`**: the spin-locked part of every routine is one action; owner entries
keep their order, and a waiter that has been given ownership is not yet awake.

**`LpcPort`**: ports are objects with a state, a peer, queues, a semaphore, handles and references;
threads of clients and servers have a record `th` that says where in their routine they are. Connecting, accepting, completing, requesting, replying, receiving and closing are cut at each access to a
port without the lock. A step that uses a freed or null port ends the behaviour in `Freed` or `Null`.

**`ExRundown`** (+ **`CmCallbacks`**, the registry's callbacks, its one user): the word of a reference is a count or the
descriptor of the thread that waits, or, when a late acquirer has added to that address, `Moved`: who releases then counts in memory the model does not have, and the thread is not woken. Each read and interlocked operation is a step `op`. A registry callback is
called without `CmiCallbackLock`. **`ExCallback`**: one callback object; `Memory` is what the fields hold that a
registration does not initialise. **`ExHandleTable`**: a table, the copy a duplication makes, the bit that locks an
entry, and the resource of the table; look-ups take no lock. **`ObObject`**: `refCount`, `handleCount`, `permanent` and
`directory`, one interlocked operation at a time, the look at a count and its increment in `ObReferenceObjectByPointer` among them; `LooksUp`, `Retypes`, `Guesses`, `Mismatches` are the uses that break it.

**`IoIrp`**: the packets of one thread on a stack of drivers, which are external: they send down, hold, complete or
cancel. Completion goes up location by location, its second stage is a kernel APC, and `walk` is a thread that cancels its packets.
**`IoRemoveLock`**: a count, a flag and an event. **`FsFileLock`**: the packets of a file's byte range locks, `granted` and
`pending` in their order, the table of contents `toc`, the `hint` the quick check reads.

**`MmBalance`**: pages with a reference count, the requests that wait, the balancer and its event. **`MmPaging`**: one area of
anonymous memory: `pte`, `rmap`, `saved`, the page operation `op` of an address, `lock` of the address space; a fault is cut where
it waits and where the page-out, which works without the lock, can see it. An entry or a page that holds what nobody wrote there, a
second mapping of a page, and a stop code are behaviours that end in `stopped`. **`MmArea`**: the tree as three functions, its
loops as recursive operators: a call is one step under the address space's lock. **`MmRegion`**: the list of regions
beside the function `asked`, what the callers asked for. **`MmSection`**: one page of each view of a segment:
`mappings` of the views, `entries` of the segment with their share counts, `pages` with the views their reverse mappings lead to, `cached` what the
cache knows of it; a fault, a copy and a page-out are cut where they give up their locks (`threads`), and what is done with them held is a step.
`Kind` is the segment's; `lastWritten` and `ownCopy` are what the views have written.

**`CcView`**: a file's segments `seg` with their two lists; what is done under `ViewLock` is a step, the lock of a segment is a field.
**`CcFileCache`**: the cache map that file objects and sections refer to, and its deletion in two steps.

**`MCComponents`**, **`MCExecutive`** and **`MCProgress`** instantiate components that share
no state side by side: `part` chooses which of them a behaviour is about, and the others stay as initialised. `MCComponents` extends
`ExResource`, `KeApc`, `KeApcState`, `KeDeviceQueue` and `PsSuspend`, so that the property a theorem states of a module is the one its run checks. `MCLpcPort` and
`MCPsScheduler` give one component several sets of constants in the same way, chosen by `kind`.
A run of them explores the sum, not the product, of the parts' states. A property of such a run is the conjunction of
its module's properties, and its type invariant is one of the conjuncts.

How they compose: `KeDispatcher` gives the waits and signals that `ExFastMutex`, `ExResource`,
`PsProcessLock`, `PsSuspend` and `LpcPort` use as atomic steps with the promise proved for them (no signal
is missed, FIFO, a synchronization event passes one). `PsScheduler` justifies the weak fairness of threads everywhere else: a ready thread runs,
unless queues corrupt its list. `CmCallbacks` extends `ExRundown`; `ExHandleTable` uses a resource and `CcView` page operations as their modules
promise them. `KeQueue` and `PsScheduler` model two sides of `KeRemoveQueue`: its counts and its links.

## Runs

Passing runs: TLC finds no error and every property listed holds in every state, or behaviour, of the instance.

**`ExFastMutex`**

| run (`cfg`) | constants | properties | shows |
|---|---|---|---|
| fast_mutex (`ExFastMutex.cfg`) | `Threads = {t1, t2, t3}` | MutualExclusion, NoStrandedSleeper, ImplementsLock | three threads acquire and release one fast mutex in every interleaving of its interlocked steps: exclusion, no lost wake-up, and refinement of the abstract lock with its liveness under weak fairness of each thread |

**`MCKeDispatcher`**

| run (`cfg`) | constants | properties | shows |
|---|---|---|---|
| dispatcher (`KeDispatcher.cfg`) | `Threads = {t1, t2}`, `NotificationEvents = {notification}`, `SynchronizationEvents = {synchronization}`, `Semaphores = {semaphore}`, `Mutants = {mutant}`, `Limit = 1`, `MinLong <- OneRecursion`, `Requests <- MixedRequests`, `AlertModes = {"UserMode"}`, `ApcKinds = {"special", "normal"}`, `Mortal = {t1}` | TypeOK, WaitListsMatchThreads, NoMissedSignal, MutantRecordsAgree, TerminatedLeavesNothing, MutantLeavesAtLastRelease, OneSignalOneWait | two threads wait for every kind of object, any and all, timed and alertable, delayed or not at all, while objects are signaled with and without WaitNext, threads are alerted, sent kernel APCs and terminated: lists, threads and ownership agree through every walk and no signal is missed or ends two waits |
| dispatcher_live (`KeDispatcherLive.cfg`) | `Threads = {t1, t2, t3}`, `NotificationEvents = {}`, `SynchronizationEvents = {synchronization}`, `Semaphores = {}`, `Mutants = {mutant}`, `Limit = 1`, `MinLong <- NoRecursion`, `Requests <- LiveRequests`, `AlertModes = {}`, `ApcKinds = {}`, `Mortal = {}` | TimedWaitEnds, MutantGranted | three threads: every timed wait ends although the event may never be set and others keep the lock for their next wait again and again, and with owners that release each waiter for the mutant gets it |

**`KeQueue`**

| run (`cfg`) | constants | properties | shows |
|---|---|---|---|
| queue (`KeQueue.cfg`) | `Threads = {t1, t2}`, `Queues = {q1, q2}`, `Entries = {e1, e2}`, `MaximumCount = 1`, `Word = 8`, `Ends = {"head", "tail"}`, `ApcsInsert = TRUE`, `WaitsWithApcPending = FALSE`, `Impatient = {t1, t2}`, `Interrupted = {t1, t2}`, `Mortal = {t1}` | WorkIsHandedOut, QueueIsServed | threads that move between two queues, wait for other objects, time out, are interrupted by APCs that insert entries, and terminate: no entry is lost, doubled, passed by or left for ever, and the count of active threads is exact |

**`KeClock`**

| run (`cfg`) | constants | properties | shows |
|---|---|---|---|
| clock (`KeClock.cfg`) | `Timers = {t1, t2}`, `Synchronization = {t1}`, `WithDpc = {t2}`, `Delays = {1}`, `DueTimes = {20}`, `Periods = {0, 1}`, `PerMsec = 1`, `Half = 16`, `BootTime = 18`, `SetTimes = {20}`, `MaxTime = 2`, `Importances = {"Medium"}`, `MaximumDpcQueueDepth = 4`, `MinimumDpcRate = 3`, `DpcRequestRate = 0`, `MayRemove = {driver}`, `RemovesAgain = FALSE`, `Word = 8`, `Drivers = {driver}` | QueuesAreSound, ExpiryIsInTime | two timers, relative, absolute and periodic, set, cancelled, waited for and expired through the DPC queue, while the clock interrupts every step of it and a driver queues and removes its own DPC: no timer is overlooked, linked twice or early, and the queue stays consistent |
| clock_live (`KeClockLive.cfg`) | `Timers = {t1, t2}`, `Synchronization = {t1}`, `WithDpc = {t2}`, `Delays = {1}`, `DueTimes = {}`, `Periods = {0}`, `PerMsec = 1`, `Half = 16`, `BootTime = 18`, `SetTimes = {}`, `MaxTime = 2`, `Importances = {"Medium"}`, `MaximumDpcQueueDepth = 4`, `MinimumDpcRate = 3`, `DpcRequestRate = 0`, `MayRemove = {driver}`, `RemovesAgain = FALSE`, `Word = 8`, `Drivers = {driver}` | QueuedAndDueAreServed | with a driver's DPC that is queued and removed: every queued DPC is run and every timer expires, whatever is done with the other |

**`MCExecutive`**

| run (`cfg`) | constants | properties | shows |
|---|---|---|---|
| executive (`MCExecutive.cfg`) | in the module | CallbacksStay, HandlesCounted, ObjectsStay, PacketsAreListed, FileLocksHold, MemoryIsKept, AreasHold, CacheHolds, CompletionGoesUp | components of the executive, the I/O, the memory and the cache manager that share no state, each on its own: users of registry callbacks under the lock, with functions that fail, and users of rundown protection without a lock; notifications of a callback object that is unregistered from; three threads in a handle table that is duplicated and destroyed, and two that fill a second sub-table; two threads that make, find, duplicate, close and delete objects; I/O request packets that drivers pass down, split, hold, stop and complete anywhere while their thread cancels them and ends; three byte range locks that wait for each other under a file system that lets one call in at a time, and two under one that does not, with cancellation, refusal and the closing of the file; threads that request and release pages under a balancer, with pages of two users; a page that two threads fault in and release while a pager writes it out, with failing writes and locked pages; the areas of an address space, with a tree rebalanced in the middle of insertions; the regions of an area; the segments of a file's cache read, written, mapped, unmapped, flushed, written behind and trimmed; the file's cache map from its first use to its lazy deletion. Deadlock is not checked: most calls end |

**`MCComponents`**

| run (`cfg`) | constants | properties | shows |
|---|---|---|---|
| components (`MCComponents.cfg`) | `Special = {special1}`, `Normal = {normal1, normal2}`, `User = {user1}`, `Exit = {exit1}`, `Removable = {normal1, user1}`, `MaxDisable = 1`, `Processes = {own, process1, process2}`, `Queueable = {apc1, apc2}`, `Depth = 3`, `Quiet = TRUE`, `Irps = {i1, i2, i3, i4}`, `Keys = {1, 2, 3}`, `Callers = {c1, c2}`, `MaxCalls = 5`, `Width = 16`, `Maximum = 2`, `AlertResumes = TRUE`, `Threads = {a1, a2, a3}`, `Pointers = {pointer1}`, `MaxHolds = 2`, `MaxCredit = 1`, `Starving = "Safe"`, `Recursive = TRUE`, `Converting = FALSE`, `TableLookup = FALSE` | ApcsAreDelivered, AttachmentsNest, OneInside, KillReachesAll, SectionsHold, ResourcesHandedOn, PacketsServedInOrder, SuspensionHolds | components of the kernel, the executive, the processes and the memory manager that share no state, each on its own: five APCs of four kinds at every point of a thread's life; three nested attachments with APCs in each environment; four IRPs that come with and without keys and are cancelled; two threads that suspend and resume a third, which NtAlertResumeThread resumes too; four threads that lock their process; three threads of a process that is killed from outside, with creations that fail and objects that are freed; views of a section in the paging file, in a file and of an image, that share, copy, protect and unmap a page which a pager writes out, a view with an offset among them, which does not wait for the fault of another thread (the README reports what such a wait maps); three threads that acquire a resource exclusively, shared, starving others and again, wait for it, and hand it over to a pointer that another releases. Deadlock is not checked: the calls of some of them end, and a shared owner of a resource that asks again while a thread waits exclusively waits for itself |

**`MCProgress`**

| run (`cfg`) | constants | properties | shows |
|---|---|---|---|
| progress (`MCProgress.cfg`) | in the module | WaitersReturn | components with the fairness their modules state, each on its own: kernel APCs are delivered, packets without keys are served, and a thread that is not suspended any more runs; a thread that cancels its requests comes back, a remover that waits for the holders of a remove lock returns and finds the device unused, and so does one that unregisters a registry callback that a thread is in; a page fault comes to its end while another thread faults on the same page or a pager writes it out. Deadlock is not checked: the calls end |

**`MCLpcPort`**

| run (`cfg`) | constants | properties | shows |
|---|---|---|---|
| lpc (`MCLpcPort.cfg`) | in the module | MessagesMatch, CallsReturn | clients that are accepted or refused and close when they are idle; two threads on one connection that either side closes in the middle of calls, and accepts that fail; receivers with bad buffers; connections that nobody closes, with fairness: every message has its count and none overtakes another, every reply goes to its caller, every request is answered. A behaviour ends where a freed or null port is used. Deadlock is not checked: the calls of the clients end |

**`MCPsScheduler`**

| run (`cfg`) | constants | properties | shows |
|---|---|---|---|
| scheduler (`MCPsScheduler.cfg`) | in the module | ListsHoldTheReady, ThreadsGetOn, TerminationEnds | two threads, the idle thread and the reaper in every order of blocking, unblocking, yielding, priority changes, quantum ends and terminations; one thread that takes entries from a kernel queue; and, with a clock that ticks, that the ready run and the dead are reaped; and threads that create others while others exit, at every step of an exit but between the reads and the writes of the entry's removal (the README reports what a creation there does): the last one out, and no other, terminates the process; and a thread that terminates its own process, in which nothing is created from then on: the process ends |

## Bounds and fairness

The tables name every constant, or the module that fixes them. Why the instances are large enough:

* *Threads.* Two actors and a third that comes between them are the longest
  interaction in these routines: a waker, a waiter and an interferer; an exclusive
  owner, a shared one, and one to be overtaken. `ExResource` has three, so that ownership passes to two shared waiters at once,
  and an owner set by pointer as a fourth party. Where a property is about FIFO order three waiters are needed.
* *Objects.* A wait for any and for all needs two objects of different kinds; a thread that changes queue needs two queues.
* *Numbers.* Widths are shrunk so that they wrap inside the runs: `Word = 8` is the unsigned count of a
  queue or a DPC depth, `Width` the byte of a suspend count or recursion count, `Half = 16` a LONG of a timer
  period, `MinLong` the count a mutant is released from. `Limit`, `Maximum`, `MaximumCount` are
  the code's limits at small values. `MaxTime`, `MaxCalls`, `MaxHolds`, `MaxCredit`, `MaxDisable`, `Depth`, `Calls` cap counters
  that the code does not cap, in guards of the actions that would raise them.
* *Options.* Booleans and sets such as `Recursive`, `Closes`, `Mortal`, `Takers`, `ApcsInsert` say which of the callers'
  operations an instance contains. They keep each state space within minutes, and they separate what holds from what a
  disagreement breaks: a passing run leaves out only the operation that one of the [disagreements](#disagreements-found) shows to break
  the property, and its row says so.
* *Deadlock* is checked unless the system may stop: calls that end for good (a process that has terminated,
  clients that are done, the capped calls of a thread), or behaviours that end where a stop code or a freed object ends them.
* *Parts.* `MCComponents`, `MCExecutive`, `MCProgress`, `MCLpcPort` and `MCPsScheduler` fix their constants
  in `INSTANCE ... WITH` (those of `ExResource`, `KeApc`, `KeApcState`, `KeDeviceQueue` and `PsSuspend` are in `MCComponents.cfg`); a part is bounded as it would be alone. Where a component has two parts, the first is the callers that keep what
  holds, and the second allows everything at once and checks what still holds.
* *Packets.* Two packets let a walk meet one that leaves; a stack of three drivers has one in the middle, whose
  routine may stop completion; two associates finish in either order. Four ranges of two owners overlap, nest and touch.
* *Memory.* Three pages are one above and one below the minimum; one page and two threads make a fault meet a page-out at every step,
  two pages of an area let the release pass one. Two views and two pages of a segment make a share count that is neither none nor one, a copy and an
  original; a second entry of the paging file is there where the first one missing is a disagreement. `Overlaps` lets a view go while others work on its page, `ShiftedWaits` lets a view with an offset wait for the fault of another. Six areas with a depth limit of three are the smallest trees that are rebalanced and then
  searched and cut; regions of four pages split at every boundary twice. Two segments for one page of a file are a segment and the one
  that is created while it is looked for.

Fairness is stated in `FairSpec` of a module (`MCProgress` repeats that of its components, each restricted to its part) and matters to the
liveness properties only:

* A thread inside a kernel routine is given the processor (weak fairness of its steps; `PsScheduler` shows
  that every ready thread runs). Nothing makes a thread begin an operation, and nothing makes outside
  parties signal, alert or suspend.
* Strong fairness appears where somebody else can take a step away again and again: a thread that must
  get through between APCs (`KeQueue`, `KeApc`, `KeDispatcher`), the reaper whose quantum ends each
  time it runs (`PsScheduler`), the dispatch interrupt held off by a raised IRQL (`KeDpc`).
* A thread that works on a page, a packet, a callback or a removal goes on (`MmPaging`, `IoIrp`, `CmCallbacks`, `IoRemoveLock`); drivers complete what was
  cancelled, and the delay in the cancelling loop ends. `MCProgress` joins the weak fairness of several parts in one
  formula: the steps of a behaviour are of one part, so that each part gets its own. In `MmPaging` two threads that fault on a page which a third takes away
  again could starve each other without a bound on the page-outs (`MaxTrims`): the code retries without a limit.
* The clock ticks, and its DPC runs (`KeTimer`, `KeDpc`).
* Callers' duties are separate: `OwnersRelease` (mutants are released), `WaitEnds` and regions left (`KeApc`), workers
  that come back to their queue (`KeQueue`).

## Disagreements found

Statements that the tree makes of its own code, in a comment, a header or a document, and that TLC finds
violated by what the code does. `code_bug`: the code does not do what it is meant to;
`doc_code_divergence`: the two differ. The first is a run of the project. The others are not run
regularly: each follows from `tlc` on a configuration with the constants given and the one property
named, `SPECIFICATION FairSpec` for what must happen in the end, `Spec` for the rest (`ApcSpec` in `KeApc`, `AttachSpec` in `KeApcState`, `SuspendSpec` in `PsSuspend`), and no check of deadlock.
Of the executive, I/O, memory and cache modules the constants not given are those of the first part that has the module in
`MCExecutive`, of `ExResource`, `KeApc`, `KeApcState`, `KeDeviceQueue` and `PsSuspend` those of `MCComponents.cfg`.
The passing runs keep the operations that are named here out where they break a property.

* **`PsScheduler`, `ListsHoldTheReady`** (code_bug, run `scheduler_queue`, `ke/queue.c:173`): a thread that registers with a kernel queue is linked through Tcb.QueueListEntry, the entry PsInsertIntoThreadList (ps/thread.c:269) links into the ready list each time the thread is made ready: while the last thread of the queue is ready, the registration of another one overwrites the link of the ready list, and the threads behind it are lost or a blocked one is found there, where ps/thread.c:355 says "ASSERT(current->Tcb.State == THREAD_STATE_READY);"; ke/queue.c:153 says "INVESTIGATE: What is the Thread->QueueListEntry used for?"
* **`MCKeDispatcher`, `WaitAllTakesSignaled`** (code_bug, `ke/wait.c:686`): KiWaitTest tests the walked object once per further wait block instead of the object of each block, so a WaitAll waiter is released although another of its objects is not signaled (and that object's count is taken below zero); ke/wait.c:697 says 'All the objects are signaled, we can satisfy'. *With* `Threads = {t1}`, `NotificationEvents = {}`, `SynchronizationEvents = {synchronization}`, `Semaphores = {semaphore}`, `Mutants = {}`, `Limit = 1`, `MinLong <- NoRecursion`, `Requests <- WaitAllRequests`, `AlertModes = {}`, `ApcKinds = {}`, `Mortal = {}`.
* **`MCKeDispatcher`, `AbandonedReported`** (code_bug, `ke/wait.c:251`): KiSatisfyObjectWait stores STATUS_ABANDONED in Thread->WaitStatus under the comment 'Return Status' (ke/wait.c:629-630), but KeWaitForSingleObject returns STATUS_WAIT_0 and KiAbortWaitThread overwrites the field with the wait key: no waiter is ever told that the mutant was abandoned. *With* `Threads = {t1, t2}`, `NotificationEvents = {}`, `SynchronizationEvents = {synchronization}`, `Semaphores = {}`, `Mutants = {mutant}`, `Limit = 1`, `MinLong <- NoRecursion`, `Requests <- LiveRequests`, `AlertModes = {}`, `ApcKinds = {}`, `Mortal = {t1, t2}`.
* **`MCKeDispatcher`, `AlertBecomesStatus`** (code_bug, `ke/wait.c:274`): KiCheckAlertability consumes a pending alert under the comment 'If the Thread is Alerted, set the Wait Status accordingly' (ke/wait.c:41); the wait goes on to block and whatever ends it overwrites the status: the alert is lost and the thread sleeps. *With* `Threads = {t1}`, `NotificationEvents = {}`, `SynchronizationEvents = {synchronization}`, `Semaphores = {}`, `Mutants = {}`, `Limit = 1`, `MinLong <- NoRecursion`, `Requests <- AlertRequests`, `AlertModes = {"UserMode"}`, `ApcKinds = {}`, `Mortal = {}`.
* **`MCKeDispatcher`, `DelayEnds`** (code_bug, `ke/wait.c:127`): KeDelayExecutionThread, whose header (ke/wait.c:66-67) says it 'Puts the current thread into an alertable or nonalertable wait state for a given internal', goes on to block when KiInsertTimer reports an absolute time that has passed ('FIXME: Unhandled case...what should we do?', line 129): no timer runs and the thread sleeps for ever. *With* `Threads = {t1}`, `NotificationEvents = {}`, `SynchronizationEvents = {synchronization}`, `Semaphores = {}`, `Mutants = {}`, `Limit = 1`, `MinLong <- NoRecursion`, `Requests <- DelayRequests`, `AlertModes = {}`, `ApcKinds = {}`, `Mortal = {}`, `FairSpec`.
* **`MCKeDispatcher`, `TimerInsertedOnce`** (code_bug, `ps/thread.c:562`): PsBlockThread takes the wait blocks out ('Remove Waits') when a kernel APC is pending but leaves Thread->Timer in the timer list; the retry of the wait inserts it again while it is linked, where KeSetTimerEx says 'Check if it's inserted, and remove it if it is' (ke/timer.c:185). *With* `Threads = {t1}`, `NotificationEvents = {}`, `SynchronizationEvents = {synchronization}`, `Semaphores = {}`, `Mutants = {}`, `Limit = 1`, `MinLong <- NoRecursion`, `Requests <- OneTimedRequest`, `AlertModes = {}`, `ApcKinds = {"special"}`, `Mortal = {}`.
* **`KeQueue`, `CountIsActiveThreads`** (code_bug, `ke/wait.c:321`): KiWakeQueue takes a thread that is about to block off the count ('Decrement the number of active threads', ke/queue.c:384); when PsBlockThread then finds a kernel APC pending the thread goes round the loop without having been counted again, is taken off once more, and the unsigned count drops below the number of active threads and below zero. *With* `Threads = {t1, t2}`, `Queues = {q1}`, `Entries = {e1}`, `MaximumCount = 1`, `Word = 8`, `Ends = {"tail"}`, `ApcsInsert = FALSE`, `WaitsWithApcPending = TRUE`, `Impatient = {t1, t2}`, `Interrupted = {t1, t2}`, `Mortal = {}`.
* **`KeQueue`, `WorkersSurviveExit`** (code_bug, `ps/kill.c:208`): ex/work.c:37 says 'To kill a worker thread you must queue an item whose callback calls PsTerminateSystemThread'; PsTerminateCurrentThread does nothing about Thread->Queue, so the dead thread stays in CurrentCount, and with MaximumCount 1 no other worker of the queue is given an entry again. *With* `Threads = {t1, t2}`, `Queues = {q1}`, `Entries = {e1, e2}`, `MaximumCount = 1`, `Word = 8`, `Ends = {"tail"}`, `ApcsInsert = FALSE`, `WaitsWithApcPending = FALSE`, `Impatient = {}`, `Interrupted = {}`, `Mortal = {t1}`, `FairSpec`.
* **`KeDpc`, `InsertableWhenNotQueued`** (code_bug, `ke/dpc.c:317`): KeRemoveQueueDpc takes the DPC off the list and leaves DpcData set; KeInsertQueueDpc is documented to return 'TRUE if the DPC object wasn't already in the queue' (ke/dpc.c:115) and from then on returns FALSE for a DPC that is in no queue. *With* `Dpcs = {d1}`, `Importances = {"Medium"}`, `MaximumDpcQueueDepth = 4`, `MinimumDpcRate = 3`, `DpcRequestRate = 0`, `ClockDpcs = {}`, `RemovesAgain = FALSE`, `MayRemove = {d1}`, `Word = 8`.
* **`KeDpc`, `RequestedMeansPending`** (code_bug, `ke/dpc.c:519`): KiDispatchInterrupt resets DpcInterruptRequested only when it found DPCs queued; after a removal has emptied the queue the flag stays set without a request, and later insertions take the case 'a DPC interrupt has already been requested on the target processor' (ke/dpc.c:124): the DPC waits for the end of a quantum. *With* `Dpcs = {d1}`, `Importances = {"Medium"}`, `MaximumDpcQueueDepth = 4`, `MinimumDpcRate = 3`, `DpcRequestRate = 0`, `ClockDpcs = {}`, `RemovesAgain = FALSE`, `MayRemove = {d1}`, `Word = 8`.
* **`KeTimer`, `PeriodicReinserted`** (code_bug, `ke/timer.c:300`): the product Period * -10000 is computed in a LONG: a period above 214748 ms can come out positive, is taken for an absolute time long past, and the timer is left out of the list in the branch 'CRITICAL UNHANDLED CASE: TIMER ALREADY EXPIRED!!!' (ke/timer.c:304) although 'If the Timer is periodic, reinsert the timer with the new due time' (ke/timer.c:296). *With* `Timers = {t1}`, `Synchronization = {t1}`, `WithDpc = {}`, `Delays = {1, 2}`, `DueTimes = {19, 21}`, `Periods = {0, 2, 10}`, `PerMsec = 2`, `Half = 16`, `BootTime = 18`, `SetTimes = {}`, `MaxTime = 4`.
* **`KeTimer`, `SetTimeIsSeen`** (code_bug, `ke/clock.c:132`): absolute due times are converted to interrupt time when the timer is set and KiSetSystemTime does not convert them again ('FIXME: TIMER UPDATE NOT DONE!!!'), although ke/clock.c:136 says 'Expired timers will be processed at the next clock tick!'. *With* `Timers = {t1}`, `Synchronization = {t1}`, `WithDpc = {}`, `Delays = {1, 2}`, `DueTimes = {25}`, `Periods = {0, 1}`, `PerMsec = 2`, `Half = 16`, `BootTime = 18`, `SetTimes = {30}`, `MaxTime = 4`.
* **`KeApc`, `SpecialsFirst`** (doc_code_divergence, `ke/apc.c:239`): KeInsertQueueApc's loop tests the new APC (Apc->NormalRoutine != NULL, in the branch where it is NULL) and not QueuedApc, so a special APC goes behind the normal ones; ke/apc.c:423 says "First, Special APCs are delivered, followed by Kernel-Mode APCs", ke/apc.c:242 "We found the first \"Normal\" APC, so write right before it". In a critical region KiDeliverApc stops at the normal APC and the special one is not delivered until the region ends, where ke/apc.c:28 says "special kernel-mode APCs are still delivered". *With* `Special = {s1}`, `Normal = {n1}`, `User = {}`, `Exit = {}`, `Removable = {}`, `MaxDisable = 1`.
* **`KeApc`, `WaitingThreadIsWoken`** (doc_code_divergence, `ke/apc.c:276`): a blocked thread is woken only for an APC without a normal routine, and neither KernelApcDisable nor KernelApcInProgress is looked at; ke/apc.c:259 says "Kernel APC, The Thread is Waiting at PASSIVE_LEVEL and APCs are enabled and not in progress: Unwait the Thread". *With* `Special = {s1}`, `Normal = {n1}`, `User = {}`, `Exit = {}`, `Removable = {}`, `MaxDisable = 1`.
* **`KeApcState`, `CurrentListIntact`** (code_bug, `ke/apc.c:834`): KiMoveApcState calls RepairList(NewState, OldState), which links the entries of the copy back to the old heads and leaves the new state's head outside every ring; ke/apc.c:833 says "Repair Lists" and ke/apc.c:810 "Copy Source to Desination" of a call whose source is the copy. An APC queued to OriginalApcEnvironment while its thread is attached (NtQueueApcThread, ke/apc.c:785, thread termination, ps/kill.c:285) becomes an entry of the current list, and KiDeliverApc then takes the saved list's head for an APC. *With* `Processes = {p0, p1, p2}`, `Queueable = {a}`, `Depth = 3`, `Quiet = FALSE`.
* **`KeApcState`, `LockReleased`** (code_bug, `ke/process.c:184`): when the target is the current process KeStackAttachProcess returns without KeReleaseDispatcherDatabaseLock, the thread stays at DISPATCH_LEVEL; the other paths of the same routine end with ke/process.c:124 "Return to old IRQL". *With* `Processes = {p0, p1, p2}`, `Queueable = {a}`, `Depth = 3`, `Quiet = TRUE`.
* **`PsSuspend`, `ZeroUnwaits`** (code_bug, `ke/kthread.c:56`): the semaphore is signaled if the decremented count is not zero; ke/kthread.c:55 says "Decrease count. If we are now zero, unwait it completely", and PsResumeThread does so. Only a thread whose Alerted[KernelMode] is clear escapes, by the aborted wait; every new user thread has it set (ps/create.c:806). *With* `Callers = {c1}`, `MaxCalls = 5`, `Width = 16`, `Maximum = 2`, `AlertResumes = TRUE`.
* **`PsSuspend`, `SuspensionTakesHold`** (code_bug, `ps/suspend.c:75`): the count is decremented under SuspendMutex here and under the dispatcher lock in KeAlertResumeThread (ke/kthread.c:56): a decrement lost between read and write leaves a count above zero with the suspend APC gone; ps/suspend.c:178 says "A thread will be suspended if its suspend count is greater than 0". *With* `Callers = {c1}`, `MaxCalls = 5`, `Width = 16`, `Maximum = 2`, `AlertResumes = TRUE`.
* **`PsSuspend`, `NotAboveMaximum`** (doc_code_divergence, `ps/suspend.c:98`): PsSuspendThread increments the count whatever it is (a byte, so it wraps at 256); ps/suspend.c:181 says "The suspend count is not increased if it is greater than MAXIMUM_SUSPEND_COUNT". *With* `Callers = {c1}`, `MaxCalls = 5`, `Width = 16`, `Maximum = 2`, `AlertResumes = FALSE`.
* **`ExResource`, `ExclusiveIsAlone`** (code_bug, `ex/resource.c:570`): the starving acquirer waits once and adds itself whatever the state is; a thread that acquired exclusively meanwhile is not alone, and its release breaks "ASSERT(Resource->ActiveCount == 0)" (ex/resource.c:850). *With* `Threads = {t1, t2, t3}`, `Pointers = {}`, `MaxHolds = 2`, `MaxCredit = 1`, `Starving = "Any"`, `Recursive = FALSE`, `Converting = FALSE`, `TableLookup = FALSE`.
* **`ExResource`, `FreeWhenReleased`** (code_bug, `ex/resource.c:456`): the count of the exclusive owner is moved into OwnerThreads[1], where the next shared acquirer reads it as the size of the old OwnerTable, which the exclusive acquisition left there; ex/resource.c:17 says "ActiveCount = number of threads who have access to the resource", but it never comes down to zero again. *With* `Threads = {t1, t2, t3}`, `Pointers = {}`, `MaxHolds = 2`, `MaxCredit = 1`, `Starving = "No"`, `Recursive = FALSE`, `Converting = TRUE`, `TableLookup = FALSE`.
* **`ExResource`, `FreeWhenReleased`** (code_bug, `ex/resource.c:944`): the loop runs while the entry is the current thread's: with ResourceIndex never set it stops at the first entry that is not; ex/resource.c:943 says "Loop until we find the current thread in an entry". *With* `Threads = {t1, t2, t3}`, `Pointers = {p}`, `MaxHolds = 2`, `MaxCredit = 1`, `Starving = "No"`, `Recursive = FALSE`, `Converting = FALSE`, `TableLookup = TRUE`.
* **`ExResource`, `OneEntryEach`** (doc_code_divergence, `ex/resource.c:272`): the first entry is copied into the new table and the thread is added beside it without a comparison, and the later search stops at the first free entry; ex/resource.c:251 says "we must search if this thread has already acquired this resource then increase ownercount if found, else create new entry". *With* `Threads = {t1, t2, t3}`, `Pointers = {}`, `MaxHolds = 2`, `MaxCredit = 1`, `Starving = "No"`, `Recursive = TRUE`, `Converting = FALSE`, `TableLookup = FALSE`.
* **`PsProcessLock`, `OneInside`** (code_bug, `ps/process.c:3072`): the break leaves the loop after a successful wait too, not only after a failed one, and the routine returns the status of the wait, STATUS_SUCCESS, without having become the owner: two threads hold the process lock, and the count no longer comes down to zero at the owner's unlock; ps/process.c:3044 says "we got the lock or already locked it" of the other way out alone, and ps/job.c:146 relies on it: "lock the process so we can safely assign the process". *With* `Setters = {s1, s2}`, `Leavers = {l1, l2}`, `MaxCalls = 2`, `Width = 8`, `Patience = FALSE`, `Late = FALSE`.
* **`PsProcessLock`, `InsideOwns`** (code_bug, `ps/kill.c:159`): PsTerminateCurrentThread ignores the status of PsLockProcess and calls PsUnlockProcess in any case: ps/process.c:3089 asserts "ASSERT(Process->LockOwner == KeGetCurrentThread())", and the count wraps. NtCreateThread does not look at the state of the process, so such a thread can exist. *With* `Setters = {s1, s2}`, `Leavers = {l1, l2}`, `MaxCalls = 1`, `Width = 8`, `Patience = TRUE`, `Late = TRUE`.
* **`PsTermination`, `KilledEnds`** (code_bug, `ps/kill.c:280`): TERMINATE_APC is set before the APC is inserted and the walk skips a thread that has it; the walking thread can itself be terminated by an APC in between or before it comes to the others, so that a process whose threads terminate it at the same time goes on running; include/ntos/zw.h:4492 says "Terminates the execution of a process.". *With* `Threads = {t1, t2, t3}`, `Killers = {t1, t2}`, `Remote = FALSE`, `Fails = FALSE`, `Overlap = {}`, `Held = TRUE`, `FairSpec`.
* **`PsTermination`, `LastClosesDoor`** (code_bug, `ps/kill.c:165`): the entry is removed under the process lock, and inserted by PsInitializeThread under the dispatcher lock (ps/create.c:471): a thread created between the reads and the writes of the removal is lost from the list, and a later thread is taken for the last while it runs; ps/kill.c:213 says "The last thread shall close the door on exit". *With* `Threads = {t1, t2, t3}`, `Killers = {}`, `Remote = FALSE`, `Fails = FALSE`, `Overlap = {"removal"}`, `Held = TRUE`.
* **`PsTermination`, `KillReachesAll`** (code_bug, `ps/kill.c:81`): nothing stops a thread that has been marked from creating another until its APC is delivered, and the walk is over when all are marked; include/ntos/zw.h:4492 says "Terminates the execution of a process.". *With* `Threads = {t1, t2, t3}`, `Killers = {out}`, `Remote = FALSE`, `Fails = FALSE`, `Overlap = {"kill"}`, `Held = TRUE`.
* **`PsTermination`, `LastClosesDoor`** (code_bug, `ps/create.c:742`): when the client id, the context or the TEB cannot be created the thread object is dereferenced and freed with its ThreadListEntry still in the process's list, which is then never empty; ps/kill.c:213 says "The last thread shall close the door on exit". *With* `Threads = {t1, t2, t3}`, `Killers = {}`, `Remote = FALSE`, `Fails = TRUE`, `Overlap = {}`, `Held = TRUE`.
* **`PsTermination`, `VictimExists`** (doc_code_divergence, `ps/kill.c:88`): PiTerminateProcessThreads releases the dispatcher lock and then calls PsTerminateOtherThread for a thread it has no reference to; ps/kill.c:265 says "This function must be called with PiThreadLock held", a lock that does not exist any more. *With* `Threads = {t1, t2, t3}`, `Killers = {out}`, `Remote = TRUE`, `Fails = FALSE`, `Overlap = {}`, `Held = FALSE`.
* **`LpcPort`, `RepliesMatch`** (code_bug, `lpc/send.c:362`): a reply goes to the port and not to the thread that asked: the first thread to wake up takes the first message of the queue, whoever's it is, and the message id given in lpc/reply.c:60 is compared nowhere, where lpc/send.c:359 says "Dequeue the reply". *With* `Connections = {c1}`, `PerPort = 2`, `Calls = 2`, `Closes = FALSE`, `Early = FALSE`, `ServerCloses = FALSE`, `Refuses = FALSE`, `MapFails = FALSE`, `CopyFails = FALSE`.
* **`LpcPort`, `CountsMessages`** (code_bug, `lpc/reply.c:262`): the message is queued again and the count its receiver took is not given back, so nobody wakes up for it until another message comes, and then the last one waits; lpc/reply.c:258 says "undo what we did and return." and in the next line "FIXME: Also increment semaphore.". *With* `Connections = {c1}`, `PerPort = 1`, `Calls = 2`, `Closes = FALSE`, `Early = FALSE`, `ServerCloses = FALSE`, `Refuses = FALSE`, `MapFails = FALSE`, `CopyFails = TRUE`.
* **`LpcPort`, `InOrder`** (code_bug, `lpc/queue.c:33`): EiEnqueueMessageAtHeadPort inserts at the tail, exactly as EiEnqueueMessagePort does: a message put back by NtReplyWaitReceivePortEx is received after the ones sent later, where lpc/reply.c:258 says "undo what we did and return.". *With* `Connections = {c1}`, `PerPort = 1`, `Calls = 2`, `Closes = FALSE`, `Early = FALSE`, `ServerCloses = FALSE`, `Refuses = FALSE`, `MapFails = FALSE`, `CopyFails = TRUE`.
* **`LpcPort`, `ConnectedHasPeer`** (code_bug, `lpc/connect.c:211`): EiConnectPort sets CONNECTED_CLIENT after it was woken, without looking: if the server has closed its port by then, the client's port is connected with a null OtherPort, the state check of every later request passes and EiReplyOrRequestPort stops the system; lpc/close.c:64 says "don't actually notify the client until it attempts an operation.". *With* `Connections = {c1}`, `PerPort = 1`, `Calls = 2`, `Closes = FALSE`, `Early = FALSE`, `ServerCloses = TRUE`, `Refuses = FALSE`, `MapFails = FALSE`, `CopyFails = FALSE`.
* **`LpcPort`, `NoNullPort`** (code_bug, `lpc/send.c:328`): the state is looked at, the request is copied, and OtherPort, which the server's close clears in between, is passed on and dereferenced: lpc/reply.c:41 treats that as what cannot be, "if (Port == NULL)" followed by KEBUGCHECK(0). *With* `Connections = {c1}`, `PerPort = 1`, `Calls = 2`, `Closes = FALSE`, `Early = FALSE`, `ServerCloses = TRUE`, `Refuses = FALSE`, `MapFails = FALSE`, `CopyFails = FALSE`.
* **`LpcPort`, `RequestReturns`** (code_bug, `lpc/close.c:66`): the server's close releases nobody: a client that already waits for its reply, with no timeout, has no further operation to attempt and is never told; lpc/close.c:64 says "don't actually notify the client until it attempts an operation.". *With* `Connections = {c1}`, `PerPort = 1`, `Calls = 2`, `Closes = FALSE`, `Early = FALSE`, `ServerCloses = TRUE`, `Refuses = FALSE`, `MapFails = FALSE`, `CopyFails = FALSE`, `FairSpec`.
* **`LpcPort`, `PortExists`** (code_bug, `lpc/close.c:55`): between State = EPORT_DISCONNECTED and the release of the semaphore the server's receive polls, finds no count, returns STATUS_PORT_DISCONNECTED without the message that is there, and the server closes the last handle of the port the client is about to signal; lpc/close.c:36 says "FIXME Race conditions here!". *With* `Connections = {c1}`, `PerPort = 1`, `Calls = 2`, `Closes = TRUE`, `Early = FALSE`, `ServerCloses = FALSE`, `Refuses = FALSE`, `MapFails = FALSE`, `CopyFails = FALSE`.
* **`LpcPort`, `PortExists`** (code_bug, `lpc/connect.c:636`): the client's port has the one reference of its creator: NtAcceptConnectPort drops it when it refuses and EiConnectPort drops it when it learns of the refusal, the second one on a freed object; ob/object.c:1137 asserts "ASSERT(NewRefCount >= 0)". *With* `Connections = {c1, c2}`, `PerPort = 1`, `Calls = 2`, `Closes = FALSE`, `Early = FALSE`, `ServerCloses = FALSE`, `Refuses = TRUE`, `MapFails = FALSE`, `CopyFails = FALSE`.
* **`LpcPort`, `ConnectReturns`** (code_bug, `lpc/connect.c:717`): after the request has been taken from the connection queue a failure to reference or map a section returns at once: the request is lost, the new port stays, and the client waits for good, where lpc/connect.c:227 says "accept or reject the connection request.". *With* `Connections = {c1}`, `PerPort = 1`, `Calls = 2`, `Closes = FALSE`, `Early = FALSE`, `ServerCloses = FALSE`, `Refuses = FALSE`, `MapFails = TRUE`, `CopyFails = FALSE`, `FairSpec`.
* **`ExRundown`, `PointerStays`** (code_bug, `ex/rundown.c:58`): acquiring protection adds to the word without comparing it to what was read; between "Make sure a rundown is not active" (`ex/rundown.c:51`) and the addition the word may have become the address of the descriptor, which the addition changes. *With* `Users = {c1, c2}`, `Drainers = {r1}`.
* **`CmCallbacks`, `UnregisterReturns`** (code_bug, `ex/rundown.c:147`): a user that is not the last one to leave writes the number that is left, shifted and with the flag, into a field that is a plain number, so that the last one does not find one left: the thread that waits is never woken. *With* two users, `FairSpec`.
* **`CmCallbacks`, `UnregisterReturns`** (code_bug, `cm/ntfunc.c:162`): a callback that fails ends the walk without the release of its rundown protection, and its unregistration waits for ever. *With* `Fails = TRUE`, `FairSpec`.
* **`ExCallback`, `UsersKeepRegistration`** (code_bug, `ex/callback.c:357`): a registration's `InUse` and `PendingDeletion` are never initialised (the allocation has the size of a pointer besides), so that "We can't Delete the Callback if it's in use" (`ex/callback.c:430`) holds for memory that happens to be zero. *With* any `Memory`.
* **`ExCallback`, `UnregisterReturns`** (code_bug, `ex/callback.c:441`): the event is cleared after the object's lock is released; a notification that has ended in between has set it, and nobody sets it again. *With* `FairSpec`.
* **`ExHandleTable`, `CloseEnds`** (code_bug, `ex/handle.c:891`): closing locks the entry and then asks for the table exclusively; a duplication holds the table shared (`ex/handle.c:343`) and waits for the entry. *With* `Duplicates = TRUE`, `FairSpec`.
* **`ObObject`, `ObjectsStay`** (code_bug, `ob/namespc.c:309`): a look-up finds the object in its directory and references it in a later step, without a lock against the last dereference in between. *With* a temporary object in `LooksUp`.
* **`ObObject`, `NoBugCheck`** (code_bug, `ob/object.c:910`): the count is looked at in one step and raised in another; a look-up by name that has seen the last reference raises the count from zero after the object's deletion has begun, and stops the system. *With* a temporary object in `LooksUp`, or `Guesses = TRUE`.
* **`ObObject`, `ObjectsStay`** (code_bug, `ob/handle.c:551`): the entry holds the object before its handle count, and the reference that goes with it, are raised: a second thread that guesses the handle and closes it has the object deleted under the first. *With* `Guesses = TRUE`.
* **`ObObject`, `UnreferencedGo`** (code_bug, `ob/object.c:1129`): `Permanent` is read before the count is decremented; an object made temporary in between is left with a count of zero. *With* `Retypes = TRUE`.
* **`ObObject`, `ReferencesAccounted`** (code_bug, `ob/handle.c:738`): a handle of another type is refused after the object was referenced, and the reference stays. *With* `Mismatches = 2`.
* **`IoIrp`, `ExitLeavesNothing`** (code_bug, `io/cleanup.c:297`): "kernel (or rundown) routine frees the IRP", but nothing in the tree calls the rundown routines of a thread that ends with user APCs in its queue: their packets stay. *With* `WithApc = {i2}`.
* **`IoIrp`, `ExitLeavesNothing`** (doc_code_divergence, `io/irp.c:603`): "If they are not completed when the thread exits, they are canceled" is so for packets that were queued; those of `IoAllocateIrp` are not. *With* `Unqueued = {i2}`.
* **`FsFileLock`, `GrantedInOrder`** (code_bug, `fs/filelock.c:1046`): "walk pending list, FIFO order" (`fs/filelock.c:579`) walks a list that is filled at its head: the last to wait is granted first. *With* any constants of the passing runs.
* **`FsFileLock`, `DenialsRevertNothing`** (code_bug, `fs/filelock.c:1074`): "CompleteLockIrpRoutine complain: revert changes" also where the lock was refused, and then removes an equal lock that was granted before. *With* `Complains = TRUE`.
* **`FsFileLock`, `GrantsAreReported`**, **`HintCoversGrants`**, **`TocOutlivesCancels`** (code_bug, `fs/filelock.c`): a packet cancelled while an unlock grants it is granted and reported as cancelled; the hint is set apart from the grants it covers; a cancel routine uses the table of contents after the last close freed it. *With* `Cancels = TRUE`, `Synchronized = FALSE`, and both with `Closes = TRUE`.
* **`MmBalance`, `WaitersAreWatched`** (code_bug, `mm/balance.c:215`): the test for free pages and the insertion of the request are apart, and the pages released in between are not handed over: the request waits for the next release. *With* the constants of the part Balance.
* **`MmBalance`, `BalancerNeverWaits`** (doc_code_divergence, `mm/balance.c:167`): "Allocate always memory for the non paged pool and for the pager thread" (`mm/balance.c:194`) is decided by comparing the thread with its id, which is never equal. *With* `TrimsAllocate = TRUE`.
* **`MmBalance`, `UsedIsCounted`** (code_bug, `mm/balance.c:93`): a page of two references is counted twice and uncounted once. *With* `Shares = TRUE`.
* **`MmPaging`, `NoBugCheck`** (doc_code_divergence, `mm/rmap.c:96`): "then check that the address we are using still corresponds to a valid memory area" does not check that it is still the page's: with two threads paging out the second takes the operation of a page that the first has taken away, and the system stops; so it does where the address has been released and belongs to a new area. *With* two `Pagers`, or one and `Reallocates = TRUE`.
* **`MmPaging`, `NoBugCheck`** (code_bug, `mm/anonmem.c:424`): a decommit takes the mark of a page that is just being paged out for a swap entry (`mm/i386/page.c:1455`). *With* `Decommits = TRUE`.
* **`MmPaging`, `ReservedIsEmpty`** (doc_code_divergence, `mm/anonmem.c:413`): "free any allocated pages within the region" leaves a page that another thread is faulting in. *With* `Decommits = TRUE`, `Pagers = {}`.
* **`MmPaging`, `EntriesHaveOneUse`** (code_bug, `mm/anonmem.c:177`): a write that fails keeps the new entry of the paging file without a user. *With* `WriteFails = {"fresh"}`.
* **`MmPaging`, `OpsEndWithArea`** (doc_code_divergence, `mm/anonmem.c:692`): "no more page ops will be added" and those there are waited for, but an operation is complete before it is released, which touches the area (`mm/pageop.c:45`) that is then freed. *With* the constants of the part Paging.
* **`MmPaging`, `LockedStays`** (code_bug, `mm/rmap.c:197`): the count that locks a page is read once, before the page-out; a page that "Lock the pages" (`mm/mdl.c:410`) locks after it is paged out under the device. *With* `Locks = TRUE`.
* **`MmPaging`, `NoBugCheck`** (code_bug, `mm/anonmem.c:716`): a release gives up the address space's lock while it waits for a page operation, and a second release does not look at `DeleteInProgress`: the area is freed twice. *With* two `Releasers`.
* **`MmRegion`, `PagesFollowCalls`** (code_bug, `mm/region.c:170`): "call the helper function to actually do the changes" is done only for regions that differ in type and in protection both; and a final region is altered in its whole length. *With* `Spans = TRUE`.
* **`CcView`, `SegmentsStay`** (code_bug, `cc/view.c:336`): the lock of a segment is released after `ViewLock`; a balancer that runs in between frees the segment the lock is in. *With* `LateUnlock = TRUE`.
* **`CcView`, `BalancerGoesOn`** (code_bug, `cc/view.c:178`): a read of several segments holds the first ones' locks while it waits for a page; the balancer waits for those locks. *With* `Chains = TRUE`, `NumPages = 1`.
* **`CcFileCache`, `NothingStale`** (code_bug, `cc/view.c:1127`): the file's cache map is read before `ViewLock` is taken, and in section creation long before it is referenced (`mm/section.c:2367`). *With* `Interrupts = TRUE`.
* **`CcFileCache`, `ReferenceAsserts`** (code_bug, `cc/view.c:988`): a map being deleted is still in the list of closed ones with a count of one, and "ASSERT(Bcb->BcbRemoveListEntry.Flink == NULL)" meets it. *With* `DataSections = TRUE`.
* **`MmSection`, `ReferencesAreOwned`** (code_bug, `mm/section.c:1629`): "Take an additional reference to the page or the cache segment" (`mm/section.c:1407`) is undone on every path but the last, for a page of a paging file section that has been written: the page is never free again. *With* the constants of the part Section.
* **`MmSection`, `NothingLost`** (code_bug, `mm/section.c:370`): a dirty view that is unmapped before the last one of a paging file section takes its dirty bit with it; the last one, or a page-out, finds the saved entry of the paging file good and what was written is lost. *With* `Unmappers = {view1, view2}` in the part Section.
* **`MmSection`, `NoBugCheck`** (code_bug, `mm/section.c:3721`): the view's mapping is deleted (`mm/marea.c:746`) before its page operation is waited for, and the page-out through another view takes no lock of the segment: it has taken the reverse mapping that `MmDeleteRmap` then misses, or the page that it finds not present. *With* the constants of the part SectionRaces.
* **`MmSection`, `OpsEndWithView`** (code_bug, `mm/section.c:627`): a page operation is kept at the offset in the view, and a view that goes waits at the offset in the section (`mm/section.c:3715`): with an offset it goes while its fault is under way. *With* `Shifted = {view2}` in the part SectionRaces.
* **`MmSection`, `NothingLost`** (code_bug, `mm/section.c:713`): a view with an offset that has waited for another thread's fault takes the segment's entry at its own offset in the view, since `ViewOffset` is added only for a fault that did not wait (`mm/section.c:910`): it shares and maps the page of offset 0. *With* `ShiftedWaits = TRUE` in the part SectionOffsets.
* **`MmSection`, `SharesAreCounted`** (code_bug, `mm/section.c:667`): "Check if someone else is already handling this fault" takes a thread's own operation, completed but kept by one that waits, for its new one; a page copied meanwhile is shared by the waiter once more for the same view. *With* `Kind = "image"`, `PerView = 2` in the part Section.
* **`MmSection`, `NothingLeft`** (code_bug, `mm/section.c:1591`): "FIXME: Also free the swap page": a write that fails keeps the new entry of the paging file. *With* `WriteFails = {"fresh"}` in the part SectionCopied.
* **`MmSection`, `ReadOnlyStays`** (code_bug, `mm/section.c:1548`): "For private pages restore the old mappings" restores the protection the view was mapped with, not that of its region. *With* `Swaps = {swap1}` in the part SectionImage.
* **`PsTermination`, `LastClosesDoor`** (code_bug, `ps/kill.c:213`): "The last thread shall close the door on exit", and nothing keeps a thread of another process from creating one more behind it (`ps/create.c:471`): it runs in a process that has terminated, without a handle table. *With* the constants of the part Exits of `MCPsScheduler`, and `Killers = {}`, `Remote = TRUE`.
* **`KeDpc`, `QueueMatchesDepth`** (code_bug, `ke/dpc.c:317`): "First make sure" is a test of `DpcData` only, which a removal leaves set: a second removal of the DPC lowers the depth again, which may wrap, and unlinks through links to what may be in other places by then. *With* `Dpcs = {d1, d2}`, `Importances = {"Medium"}`, `MaximumDpcQueueDepth = 4`, `MinimumDpcRate = 3`, `DpcRequestRate = 0`, `ClockDpcs = {}`, `MayRemove = {d1}`, `RemovesAgain = TRUE`, `Word = 8`.

## Further hazards

`PROJECT.json` lists the hazards the checks are aimed at. These are other places where the code is hard to
test, with the definitions that watch them:

* interleaving, `ex/fmutex.c:24`: a running thread can overtake the thread just woken between the wake-up and its retry of the exchange; the woken thread must go back to sleep without losing its turn for good. Watched by `MutualExclusion`, `ImplementsLock`.
* protocol_sequence, `ke/wait.c:686`: releasing a WaitAll waiter has to look at every object; the test looks at the walked one only. Stated by `WaitAllTakesSignaled`.
* numeric_edge, `ke/sem.c:99`: the limit test of a semaphore mixes signed and unsigned longs; with a count below zero the sum wraps and the release is refused. A count is never seen below zero where no WaitAll request names a semaphore; one that does is among the disagreements.
* numeric_edge, `ke/wait.c:247`: MINLONG is tested for a WaitAny only: a WaitAll that takes a mutant at MINLONG wraps its count. Needs 2^31 recursive acquisitions through WaitAll; the model's count does not wrap.
* liveness, `ke/wait.c:127`: a wait without a running timer and without an object ends only if something else ends it. Watched by `TimedWaitEnds`. For a delay DelayEnds does not hold; see above.
* deadlock, `ke/mutex.c:148`: KeReleaseMutant raises STATUS_MUTANT_NOT_OWNED with the dispatcher database lock still held (KeReleaseSemaphore drops it first). The raising call is left out of the model: nothing after it could be modelled, the lock is never released.
* stale_state, `ke/wait.c:628`: the status of an abandoned mutant is written and overwritten before the waiter reads it. AbandonedReported states it; it does not hold; see above.
* interleaving, `ke/queue.c:446`: an entry is either handed to a waiter or put into the list, and a waiter is woken with an entry or without: an entry must not be lost or served twice. Watched by `WorkIsHandedOut`.
* liveness, `ke/queue.c:389`: an entry must not lie in a queue that has room while a thread waits for one: every place that frees room or adds entries has to look. Watched by `WorkIsHandedOut`, `QueueIsServed`.
* timeout_retry, `ke/queue.c:312`: a thread taken out of KeRemoveQueue by a kernel APC adjusts the count again although PsBlockThread may have returned without it having been counted. Watched by `WorkIsHandedOut`.
* stale_state, `ke/queue.c:446`: a thread in an APC inside KeRemoveQueue appends entries past a waiter although there is room; it takes one itself and the others stay behind. Watched by `WorkIsHandedOut`. The property allows this one step, and shows that no other leaves an entry behind.
* partial_failure, `ps/kill.c:208`: a thread that terminates while registered with a queue stays counted and linked in ThreadListHead. WorkersSurviveExit states it; it does not hold; see above.
* liveness, `ke/queue.c:250`: threads that poll a queue with short timeouts can keep its count at the limit for ever without any of them being given an entry. Watched by `QueueIsServed`. The property excepts waits that end without an entry for ever.
* protocol_sequence, `ke/dpc.c:317`: a DPC that is removed keeps its DpcData: it can never be queued again, and a second removal writes through the stale list entry and lowers the depth, which may wrap. Watched by `QueuesAreSound`. Holds with RemovesAgain = FALSE only; with TRUE it is violated; see above.
* stale_state, `ke/dpc.c:519`: DpcInterruptRequested outlives the request it stands for when a removal has emptied the queue: only the end of the quantum gets the next DPC run. Watched by `QueuedAndDueAreServed`.
* numeric_edge, `ke/timer.c:300`: a long period overflows the LONG its due time is computed in: the timer stops, or runs with a far shorter period. PeriodicReinserted in KeTimer states it; it does not hold; see above.
* stale_state, `ke/clock.c:132`: absolute timers hold a due time computed from a system time that may be set afterwards. Watched by `ExpiryIsInTime`.
* protocol_sequence, `ke/timer.c:284`: a timer being expired is on the local list with Inserted TRUE and is unlinked twice; any path that skipped the flag would link or unlink it once too often. Watched by `QueuesAreSound`.
* numeric_edge, `ke/kqueue.c:216`: insertion stops at greater keys and removal at greater or equal ones: an off-by-one reorders equal keys or turns the sweep round. Watched by `PacketsServedInOrder`.
* interleaving, `io/queue.c:89`: IoStartNextPacket stores CurrentIrp after the queue's lock is released: with several processors it can overwrite the IRP that another one has just started. Out of reach in the uniprocessor build, which the model follows: both run at DISPATCH_LEVEL.
* liveness, `ke/kqueue.c:216`: a sweep that always finds a packet at its own key never serves the lower ones. Inherent in the interface; liveness is checked for queues without keys, PacketIsServed.
* ordering, `ke/apc.c:239`: the place of a special APC among the queued ones is found by a loop that never tests them; in a critical region the special APC stays behind a normal one. SpecialsFirst states it; it does not hold; see above.
* stale_state, `ke/apc.c:502`: a delivery that stops at a normal APC has cleared KernelApcPending: whoever lifts the obstacle must set it again. Watched by `ApcsAreDelivered`, `WaitersReturn`.
* protocol_sequence, `ke/apc.c:376`: removing one of several APCs must leave the others pending, and removing the last one must not leave a pending flag for an empty list. Watched by `ApcsAreDelivered`.
* liveness, `ke/apc.c:276`: a normal kernel APC (thread suspension is one) does not end a wait: it is held until the wait ends for another reason. WaitingThreadIsWoken states what the code's comment says; it does not hold; see above.
* numeric_edge, `ke/wait.c:621`: the abandoned mutant's wait decrements KernelApcDisable and KeReleaseMutant does not restore it: after a kernel mutant normal APCs may stay disabled. KernelApcDisable is not part of KeDispatcher's state; planned with the composition of KeApc and KeDispatcher.
* atomicity, `ke/apc.c:367`: KeRemoveQueueApc keeps one OldIrql for two nested locks: the second acquisition overwrites it, and the thread is left at DISPATCH_LEVEL. IRQL after the routine is not modelled; in the uniprocessor build the spin lock returns the raised level.
* protocol_sequence, `ke/apc.c:834`: the lists of an APC state are relinked when the state is moved: every entry and both heads must end in one ring, empty lists too. Watched by `AttachmentsNest`.
* partial_failure, `ke/process.c:184`: an early return that does not release the dispatcher lock. Stated by `LockReleased`.
* stale_state, `ke/process.c:82`: a nested KeAttachProcess does nothing and its KeDetachProcess detaches the outer attachment: the outer code goes on in the wrong address space. Callers of the tree attach only when they are not attached to another process, which the model follows in KeAttachProcess's guard.
* atomicity, `ke/kthread.c:56`: two routines change the suspend count under different locks. Watched by `SuspensionHolds`.
* stale_state, `ps/suspend.c:78`: a resumption before the thread waits leaves a signal behind, which ends the wait of a later suspension early. Watched by `SuspensionHolds`.
* numeric_edge, `ps/suspend.c:98`: the suspend count is an unsigned byte and has no upper limit in the code. Stated by `NotAboveMaximum`.
* resource_bound, `ps/suspend.c:78`: signals left behind add up to the semaphore's limit of 128; the next one raises an exception with SuspendMutex held. A pass of 129 suspensions and resumptions before the thread first waits; MaxCalls keeps the runs below the limit.
* protocol_sequence, `ex/resource.c:184`: an owner is recorded in one of three places, and which one its release searches depends on the history: a release that finds nothing leaves the resource owned for good. Watched by `ResourcesHandedOn`.
* stale_state, `ex/resource.c:456`: the owner table outlives its owners and its size is overlaid with a count. Watched by `ResourcesHandedOn`.
* timeout_retry, `ex/resource.c:871`: the semaphore is released for waiters that are counted but not yet waiting, and those that find the resource taken wait again: signals and waiters drift apart. Watched by `ResourcesHandedOn`.
* deadlock, `ex/resource.c:394`: a shared owner that acquires again while another thread waits for exclusive access waits for itself. Such states are reached in the run resource, which therefore does not check deadlock; no document of the repository says whether recursion must work.
* liveness, `ex/resource.c:823`: threads that keep acquiring shared can keep an exclusive waiter out: the code says it does not support starving exclusive waiters. The code's own comment gives the promise up; no liveness is claimed for the resource.
* partial_failure, `ob/handle.c:222`: a duplication that fails half way must give back the reference and the handle count. Watched by `ObjectsStay`.
* liveness, `io/cancel.c:89`: the canceller of a file's or a thread's packets waits for drivers to complete them, in the thread that the completions need. Watched by `WaitersReturn`.
* partial_failure, `io/cleanup.c:297`: the packet of a user APC is freed by a kernel or rundown routine; no code calls the rundown routine of a thread that ends. ExitLeavesNothing with user APCs does not hold; see above; without them it is part of PacketsAreListed.
* interleaving, `fs/filelock.c:602`: a waiting request is cancelled while an unlock tries it. GrantsAreReported with cancellation does not hold; see above; without it it is part of FileLocksHold.
* stale_state, `fs/filelock.c:709`: the hint is cleared after the spin lock is released, when another lock may have been granted. Watched by `FileLocksHold`. For file systems that let one call in at a time; no file system in the tree uses the locks. Without that HintCoversGrants does not hold; see above.
* resource_bound, `fs/filelock.c:513`: offset plus length minus one wraps for a lock of length zero at offset zero. Requests have a length: the end of an empty lock at zero is the largest offset, and it overlaps everything.
* timeout_retry, `ps/process.c:3054`: the first two attempts of the process lock are retried, the third waits: the way after the wait is taken only under contention no test produces. Watched by `OneInside`.
* deadlock, `ps/process.c:3091`: after a thread has unlocked without owning, the count never reaches zero again: the owner stays and every later caller waits for good. A consequence of the missing retry, which OneInside shows; with the retry the count is exact (IdleIsFree).
* partial_failure, `ps/kill.c:159`: the status of PsLockProcess is ignored. Watched by `OneInside`.
* interleaving, `ps/kill.c:88`: the walk over the threads releases its lock for each: threads come, go and are freed meanwhile. Stated by `KillReachesAll`, `VictimExists`.
* atomicity, `ps/kill.c:280`: a thread is marked and told in two steps; whoever marked it may be terminated between them. Watched by `TerminationEnds`.
* atomicity, `ps/kill.c:317`: two threads that both found the list empty may both find the process not yet terminated and delete the handle table twice. Watched by `KillReachesAll`.
* partial_failure, `ps/create.c:742`: a creation that fails half way leaves the thread in the list of its process. LastClosesDoor states it, with creations that fail; it does not hold; see above.
* liveness, `ps/kill.c:65`: a terminated process must end, although its threads are told by APCs that each takes on its own. Watched by `TerminationEnds`.
* interleaving, `lpc/send.c:350`: two threads of a client wait on the semaphore of one port for two different replies. Watched by `MessagesMatch`.
* ordering, `lpc/connect.c:744`: the answer to a connection request is queued when it is accepted and counted when it is completed: in between the client's port has a message and no count. Watched by `MessagesMatch`, `CallsReturn`.
* stale_state, `lpc/reply.c:110`: OtherPort is read once for the message and again for its semaphore, without a lock. Stated by `MessagesMatch`, `NoNullPort`.
* partial_failure, `lpc/reply.c:253`: the message was dequeued and cannot be copied. Watched by `MessagesMatch`.
* liveness, `lpc/close.c:66`: a client waiting when its server goes away. Watched by `CallsReturn`.
* protocol_sequence, `lpc/connect.c:157`: who drops the reference of a port that was refused. Stated by `PortExists`.
* partial_failure, `lpc/connect.c:657`: one of the steps of an accept fails after the request was dequeued. Watched by `CallsReturn`.
* ordering, `lpc/connect.c:601`: NtAcceptConnectPort decides on the oldest request, not on the one in its LpcMessage: two listeners of one port can accept and refuse each other's clients. The model has one listener, as the servers in the tree that use named ports have; with one the oldest is the one it received.
* stale_state, `ke/dpc.c:440`: QuantumEnd was set for the thread before: the one that runs by now is dispatched as if its own quantum had ended. Watched by `ThreadsGetOn`, `ListsHoldTheReady`.
* liveness, `ps/thread.c:418`: threads of equal priority take turns only at the end of a quantum, and a lower one waits for all of them. Watched by `ThreadsGetOn`.
* stale_state, `ps/kill.c:52`: a terminated thread must not be freed while the processor is still on its stack. Stated by `FreedIsGone`.
* protocol_sequence, `ps/thread.c:878`: a ready thread changes its list and the mask while the current thread is compared with the new priority. Stated by `ListsHoldTheReady`, `HighestRuns`.

## Proofs

Eight modules hold machine-checked theorems, for every value of the constants that meets the named
assumptions: any number of threads, objects, queues, timers, DPCs, APCs, packets, processes and nested attachments, any limits, any word size that is wide
enough, any set of wait requests whose objects are objects.

| module | about | obligations | assumptions |
|---|---|---|---|
| `ExFastMutexProofs` | `ExFastMutex` | 345 | `NoThreadAssumption`, `ThreadsAssumption` |
| `KeDispatcherProofs` | `KeDispatcher` | 1456 | `ObjectsAssumption`, `NumbersAssumption`, `RequestsAssumption`, `InputsAssumption` |
| `KeQueueProofs` | `KeQueue`, `KeDeviceQueue` | 2331 | `QueuesAssumption`, `CountsAssumption`; `DeviceAssumption`, as a hypothesis |
| `KeClockProofs` | `KeClock`, `KeDpc`, `KeTimer` | 1493 | `ClockAssumption` |
| `ExResourceProofs` | `ExResource` | 2421 | `ResourceAssumption`, as a hypothesis |
| `KeApcProofs` | `KeApc`, `PsSuspend` | 1187 | `ApcAssumption`, `SuspendAssumption`, as hypotheses |
| `KeApcStateProofs` | `KeApcState` | 1208 | `ApcStateAssumption`, as a hypothesis |
| `ListLemmas` | `Lists` | 642 | |

**The fast mutex.** `IInv` adds to the properties: Count is 0 exactly while a thread is between taking and giving
back (`CountTaken`); a listed sleeper is at its wait (`SleepersAsleep`); Owner, when set, is a thread that is inside
(`OwnerInside`); a set event has no sleepers (`SignalKept`); and while Count is free every waiter has somebody awake who will look again
(`NoStrandedWaiter`, stronger than the property because the guarantee travels from the releaser that has
seen Contention to the thread it wakes). `StepShape`, `StepCount` and `StepStranded` prove its parts per action, with
cardinality lemmas for Contention. `StepRefines` maps each action to a step of `Lock` or a stutter, using
exclusion to show that a grant finds the lock free.

**The dispatcher.** `IInv` is `TypeOK`, `WaitListsMatchThreads`, `NoMissedSignal`, `MutantRecordsAgree`,
`TerminatedLeavesNothing`, and two additions that make it inductive: `PulseWalksEvent` (a
pulse is under way only while an event's list is walked, since otherwise the reset at the end of a walk could take another
object's signal) and `NoTimerAfterLife` (a thread that has never waited, or has ended, has no timer). Every way a wait ends goes through `Abort` and every way it
succeeds through `Satisfy`, so two lemmas (`Aborting`, `Satisfying`) and their
`...Keeps` companions serve most of the seventeen actions; `UnlinkRemoves` and `LinkAdds` are the facts about lists.
`MutantsLeaveFreed` and `SignalsEndOneWait` are action properties. The first follows from the invariant and the conservation of owners in `OwnersKept`;
the second, in `SignalsUsed`, needs `NoMissedSignal`: a thread that waits for any of several objects sleeps on no signal but that of the object being walked, so that the wait uses up this one.

**Kernel queues.** `QueueInv` restates `EntriesAreOnce` and `RegisteredWhereTheyWait` with the lists as sets
(`EntriesInOnePlace`, `WaitersAreListed`; `EntriesAlike` and `WaitersAlike` are the bridges), with the types of entries and of
waiters beside them; it is inductive with no hypothesis, so `EntriesKept` and `WaitersKept` hold of every use of
queues. `CountsAreKept` adds that `CurrentCount` is the number of threads `Counted` at the queue: those that are not in
its list and have not given their place to another wait. It needs `~WaitsWithApcPending`: a thread that is caught in `PsBlockThread`'s loop with an APC pending
is taken off the count once a round (`CountIsActiveThreads` among the [disagreements](#disagreements-found)). `WorkHandedOut` has the hand-out, the limit and the step property `WorkIsHandedOut` from the two.

**The clock.** `DpcsImplemented` and `TimersImplemented` are the refinements: every step of `KeClock` is a step, or a stutter, of
`KeDpc` and of `KeTimer`, where the timers' DPCs are a set and the clock's request a flag. The invariants are
then proved where they belong and carried back, all but `DpcsImplemented` under `~RemovesAgain`:
a second removal of a DPC lowers the depth again and follows stale links (`ke/dpc.c:317`). They are depth, marks and links of the DPC queue (`Dpc!TypeOK`, `Dpc!QueueMatchesDepth`), and
`TimersKept`: the timers' types, `Linked` (set timers are in the list or being expired, once), `InOrder` (the list is sorted by due time),
`NoneIsDue` and `NoneIsSignaled` (what the walk has passed is not due, and a timer in the list is not signalled). The expiry's
cut at the first timer that is not due (`ExpiresTheDue`) needs the order; the order needs that a periodic timer is put back with the same
routine that sets one (`Rearmed`). `ExpiryInTime` adds `InTime`, no due time before the time asked for, under two conditions that
the code does need: `PeriodsFit`, because a period becomes a due time in a LONG, so that one over 429 s comes back early
(`PeriodicReinserted`), and `SetBackHarmlessly`, because `KiSetSystemTime` does not convert absolute due times again (`SetTimeIsSeen`; both are among the
[disagreements](#disagreements-found)). The run `clock` keeps inside both. `NoneLeftBehind` needs neither.

**Device queues.** `DeviceInv` is the three invariants of `PacketsServedInOrder`, which are inductive together: that the list is empty while the device is idle is what makes
a packet that finds it so the only one. The order is an action property under `InOrder`: a list in order of keys stays in order (`InsertKeepsOrder`, `UnlinkKeepsOrder`)
unless a packet without a key is linked, so where all packets have keys it always is. The place `InsertAscendingListFIFO` finds (`PlaceByKey`) is behind all keys up to the new one and before a greater one, whether the list is in order or not;
that all further ones are greater (`KeyedStarts`) and that the first key that fits is the nearest (`EntryFits`) need the order.

**Executive resources.** `IInv` has four parts. `OwnersRecorded` says where acquisitions are: an exclusive owner's all in the first entry and
nobody else's anywhere; a shared owner's in the second entry if there is no table, else in the table, where a thread may have several
entries, so that its acquisitions are the pairs of an entry and a number (`Tokens`) and `ActiveCount` is the size of the set of entries in `Used`. The free
entry an acquisition takes, the entry a release finds and the table that is made for the second owner change these sets by one element
(`EntryGrows`, `EntryShrinks`, `EntryAppended`, `TableCreated`), hence no release is lost (`CountOfNone`). `WaitersKept` counts the waiters
and says that the lists of the event and the semaphore are the threads that are blocked. `WaitersHaveRoom` bounds what a waiter will hold. `SignalOnItsWay` is stronger than
`NobodyStranded`, because a thread between the spin lock and its wait is not blocked yet: while the resource is free and somebody waits for it exclusively,
the event is set or such a thread is awake; while shared owners may come, the semaphore counts enough for all that are on their way.
`Careful` leaves out `ExAcquireSharedStarveExclusive` with a wait or beside an old table, `ExConvertExclusiveToSharedLite` beside an owner table, and
`ExSetResourceOwnerPointer` by an owner in the table: each of them breaks the property (`ExclusiveIsAlone`, `FreeWhenReleased` among the [disagreements](#disagreements-found)).

**Asynchronous procedure calls.** `KiDeliverApc` gives up its lock in the middle and is entered again from the routines it calls, so that
what holds of the flags depends on the stack of deliveries. `CallsNest` says what that stack looks like: every delivery but the innermost is in a normal routine,
one at most is, `KernelApcInProgress` is set exactly while one is, outside critical regions, and the innermost has tested what would hold a normal routine back before it takes one.
`NoneLeft` is stronger than `NoKernelApcStranded`, which is about a thread outside every delivery: where no delivery will look at the kernel list any more (`PastKernelList`: the thread is outside all of them and
outside critical regions, blocked or not, or the innermost one has gone on to the user list) what is in it is pending. `ListStep`, `NestStep` and `LeftStep` prove the parts action by action, from
`GoingOnNests`, `ReturningNests` and `BeginningNests` about the stack and `InsertingKeeps` and `UnlinkingKeeps` about the lists. `ApcsDelivered` adds `ExitApcIsNext`, which needs `OneExit`: one APC at most ends the thread. That is no restriction of the
tree, where nothing queues `PsExitSpecialApc`; were there two, the delivery of the first would clear `UserApcPending` with the second one in the list. `NoneStranded` does not need it.

**Attachment.** What a detaching routine restores is in one of three places and nothing in the thread says in which, only what the caller brought along.
`AttachmentsTold` relates it to the attachments that are open: those before the one that left the thread's own process are to that process and changed nothing
(`Stays`); that one (`OpenedAt`) saved the thread's own state in `SavedApcState`; those after it (`Nested`) changed nothing, or saved in their caller's the process of the next outer one. It is inductive with no condition on APCs, so
`RunsInProcess` holds whatever becomes of the lists. `LinksSound` adds the links: the current head and the APCs queued form a ring in both directions, and the saved states that will be restored (`Kept`)
point at the current head, which is why a state that is moved back begins with an empty list. That needs `Quiet`, no APC in a list that is moved and none queued
to a state that was: without it `CurrentListIntact` is one of the [disagreements](#disagreements-found) (`KiMoveApcState` repairs the wrong list), and what the theorem says is that this is the only
way to break it. `StackAttachTold` and `UnstackTold` have the cases of nesting, `SavingLinks` and `RestoringLinks` what a move does to the links, `InsertKeepsLinks` and `DeliverKeepsLinks` that a ring stays one.

**Suspension.** Nothing in `PsSuspendThread` says that the count it writes is the one that is there, nor that the APC it does not insert again is still to be delivered. `TakesInv` says both of the caller that has
`SuspendMutex`: what it has read is the count (`ReadIsCount`), and a thread that runs with a count above zero has an APC, or that caller is about to queue one (`ApcOnItsWay`; `CallersLock` says that there is one such caller).
It is inductive even where the byte wraps. `HoldsInv` adds that a thread at its wait with a count of zero finds a signal or is about to be sent one (`SignalOnItsWay`) and counts suspensions exactly (`SuspensionsCounted`); a byte that wraps to zero
under a waiting thread breaks both, hence the bound `MaxCalls < Width` of `SuspensionHeld` (`NotAboveMaximum`, that nothing keeps the count from wrapping, is among the [disagreements](#disagreements-found)). All of it ends with the first call of `KeAlertResumeThread`, which changes the count under
another lock (`~alertResumed`, as in the property; `SuspensionTakesHold` and `ZeroUnwaits` there are disagreements). What is left then is `ThreadIsHeld`: the thread leaves its routine only by a test that finds zero.

**What stays with TLC.** Liveness (`FairSpec`, ENABLED); what a recursive definition computes for every input (`MmArea`, whose
tree operations are recursive operators); the list links of `PsScheduler`, whose segments are followed by induction, and
the folds that `ExHandleTable` and `ObObject` count with, for the same reason; deadlock; and the modules with no proofs yet, which the [plan](#plan) names.

| theorem | module | property | establishes |
|---|---|---|---|
| `MutualExclusionHolds` | `ExFastMutexProofs` | MutualExclusion | one thread at most is between the exchange that took Count and the one that gives it back, for every finite set of threads |
| `NoStrandedSleeperHolds` | `ExFastMutexProofs` | NoStrandedSleeper | while the mutex is free and a thread sleeps, another thread is awake that will take the mutex or set the event |
| `FieldsHold` | `ExFastMutexProofs` | - | types, the ASSERTs on Owner and the exactness of Contention |
| `RefinesLock` | `ExFastMutexProofs` | - | the safety part of ImplementsLock: every step of the fast mutex is a step of the abstract lock or a stutter |
| `TypesHold` | `KeDispatcherProofs` | TypeOK | For any threads, objects and wait requests every field keeps its type, and an event or a thread object counts 0 or 1. |
| `ListsMatch` | `KeDispatcherProofs` | WaitListsMatchThreads | For any threads, objects and wait requests a wait block is linked exactly while its thread is blocked in a wait that names the object, and once, whatever ends the wait. |
| `NoSignalMissed` | `KeDispatcherProofs` | NoMissedSignal | No lost wake-up for any number of threads and objects: outside the walk of KiWaitTest nobody sleeps on a single signal that is there. |
| `MutantsAgree` | `KeDispatcherProofs` | MutantRecordsAgree | Count, owner, owner's list and abandoned mark of every mutant agree in every reachable state. |
| `NothingLeft` | `KeDispatcherProofs` | TerminatedLeavesNothing | A terminated thread owns no mutant, is linked nowhere and has no timer running, however many mutants it held and however deeply. |
| `SignalsEndOneWait` | `KeDispatcherProofs` | OneSignalOneWait | For any threads, objects and wait requests no step wakes two threads, and a wait for any of several objects uses up the signal that ended it and no other. |
| `MutantsLeaveFreed` | `KeDispatcherProofs` | MutantLeavesAtLastRelease | A mutant leaves a thread that lives only with its last recursive release, and no step passes it from one thread to another. |
| `EntriesKept` | `KeQueueProofs` | - | For any threads, queues and entries an entry is in one queue, with one thread or in nobody's hands, whatever rundowns, time-outs and terminations come between. |
| `WaitersKept` | `KeQueueProofs` | - | For any threads and queues a thread that waits in a queue is registered with it, and linked in its list once. |
| `WorkHandedOut` | `KeQueueProofs` | WorkIsHandedOut | Unless a thread is caught with an APC pending at its wait, for any finite set of threads and any queues the work is handed out: counts are exact, no entry waits while a queue has room and a thread to take it, and none is handed out over the limit. |
| `QueuesSound` | `KeClockProofs` | QueuesAreSound | For any timers and DPCs queued into the one queue and removed from it by drivers, the clock and the timers, and if no driver removes a DPC that it has removed before (RemovesAgain): the queue's depth, its marks and its links agree, and every timer that is set is linked once, in order. |
| `ExpiryInTime` | `KeClockProofs` | ExpiryIsInTime | No timer expires before its time, and the clock overlooks none, if no DPC is removed twice, no period is longer than the 2^32 units of time (429 s) that the LONG it is computed in can tell apart and the time is not set back behind an absolute timer. |
| `NoneLeftBehind` | `KeClockProofs` | - | Without a condition on periods or on the time that is set, if no DPC is removed twice: when the expiry has ended, no timer that was due is still in the list. |
| `DpcsImplemented` | `KeClockProofs` | - | The timers and their DPC queue together implement KeDpc: every step of theirs is a step of the queue or leaves it alone. |
| `TimersImplemented` | `KeClockProofs` | - | If no DPC is removed twice they implement KeTimer, where the timers' DPCs are a set and the clock's request is a flag: the queue hands over what the abstract set promises. |
| `PacketsServed` | `KeQueueProofs` | PacketsServedInOrder | For any number of packets and keys: every packet handed to IoStartPacket is the current one or linked once until it is completed or cancelled, nothing waits for an idle device, and as long as all packets have keys equal ones are served in order of arrival and the sweep takes the nearest key above. |
| `NoneStranded` | `KeApcProofs` | - | For any APCs of a thread and any nesting of critical regions, in every order of queueing, removing and delivering: normal routines run alone and outside critical regions although KiDeliverApc is entered again, and a kernel APC in the list of a thread that runs outside them is pending. |
| `ApcsDelivered` | `KeApcProofs` | ApcsAreDelivered | With at most one APC that ends the thread: Inserted tells which APCs are in a list, each is there once, normal routines run alone, no kernel APC is stranded, and the APC that ends the thread is the next user APC and pending until it is delivered. |
| `RunsInProcess` | `KeApcStateProofs` | - | For any processes, APCs and depth of attachments, whenever APCs are queued: the thread runs in the process it attached to last, back in the process of the next outer attachment afterwards, and its original environment is its own process's. |
| `AttachmentsHold` | `KeApcStateProofs` | AttachmentsNest | Where no APC is queued while the APC states are moved or to one that was: the current APC list stays a ring of its head and the APCs queued to it, however attachments of the two kinds nest. |
| `SuspensionTakes` | `KeApcProofs` | - | For any callers, any number of calls and any width of the count, which may wrap: until KeAlertResumeThread is called a thread with a count above zero does not run without its APC once the calls have returned, and whatever is called no early end of a wait lets a suspended thread go. |
| `SuspensionHeld` | `KeApcProofs` | SuspensionHolds | For any callers and as long as there are fewer calls than the byte of the count can tell apart: in addition no suspension is lost between two callers' reads and writes, and a count of zero leaves no thread waiting, until KeAlertResumeThread is called. |
| `HandedOn` | `ExResourceProofs` | ResourcesHandedOn | For any finite set of threads, any owner pointers and any number of acquisitions, with shared recursion, waits, conversions and hand-overs: an exclusive owner is alone, ActiveCount is zero exactly when all have released, waiters are counted, and nobody is left waiting for a free resource without a signal on its way; unless a caller does one of the three things the README lists as disagreements. |

## What is not covered

Every part of the tree is a component of `PROJECT.json` with its status and the reason.
In short: the creation of sections from images and files, the pools, the file and device services of
the I/O manager, most of the file system library, the registry's hives, security, the run-time library and the
loader are not modelled: they are parsing, layout, stubs, or calls of what is. `NtSetTimer` (`ex/timer.c`) has no behaviour to model:
it releases its spin lock twice and stops the system. Inside the modelled parts these are left out:

* multiprocessor code (`CONFIG_SMP`), affinity, and priority boosts: every caller gives an increment of zero;
* wording of status codes that no property tells apart, argument probing, security checks, debug output;
* allocation failure, except where the failure path changes shared state (thread creation, section mapping in LPC);
* second removals of a DPC where the queue is checked (`RemovesAgain = FALSE`; with `TRUE` the queue breaks, and a circle of links that misses the head has no representation);
* DPC target processors and rates beyond the comparison that decides a request;
* in LPC: shared sections' contents, impersonation, debug messages, caller's timeouts;
* in `PsTermination`: the abandoning of mutants, which `KeDispatcher` has, and the process lock, which is assumed to exclude
  there although `PsProcessLock` shows when it does not; and, where `TerminationEnds` and `KillReachesAll` are checked, a creation between the reads and the
  writes of a removal or in the middle of a kill (`Overlap = {}`): with it they do not hold;
* in the object manager: paths, symbolic links, security, queries; in handle tables: the middle level of the tree and the quota;
* in I/O: buffers and memory descriptors, file objects' events, close packets, fast I/O that changes nothing;
* in memory: other consumers than the user's, contiguous memory, working set order (any page may be chosen);
  in `MmPaging` a fault's steps between two waits are one step unless the page-out can see between them;
* in `MmSection`: uninitialised and shared data of images, sections of physical memory, locked pages, the writing of dirty pages (`mpw.c:86` has it under `#if 0`), `WriteCopyView`,
  which nothing sets, and the ten seconds after which a wait for a page operation stops the system; reverse mappings are a set, so that a page mapped twice at one address counts once;
* in the cache: pinning, zeroing and direct MDLs, which go through the same segments; file sizes; read-ahead, which is a stub.

## Plan

Order of work, most important behaviour first. Done: the dispatcher, fast mutexes,
queues, DPCs and timers, resources, each with its proofs; device queues, APCs and attachment, suspension, the process lock, termination, LPC and scheduling.

Then the executive's rundown protection, callbacks, handle tables and objects; packets, remove locks and byte range locks; pages,
paging, areas, regions and sections; the cache.

Next modules:

1. `MmPool` (the paged pool's free list and the nonpaged pool's blocks, as algorithms against a set of disjoint intervals).
2. `KeSystemTime` (readers of the three words of a time against the clock).
3. `RtlRangeList` and `RtlAtom` against a set of ranges and a partial function; jobs, client ids, event pairs, lookaside lists.

Abstract specifications worth stating beside `Lock`: a shared/exclusive lock that `ExResource` implements without its three violating operations; a
channel of calls and replies that `LpcPort` implements for one thread per port; a priority queue with FIFO classes for the ready lists; a
function from addresses to values that `MmPaging` implements for one pager.

Theorems next: `ListsHoldTheReady` without queues (`PsScheduler`); `OneInside` for callers that do not meet the lock taken three times
(`PsProcessLock`); `CountsMessages` and `InOrder` (`LpcPort`); `UsersAreCounted` (`ExRundown`) and
`PagesHaveOwners` (`MmBalance`), whose invariants are counts of threads as in the fast mutex and the kernel queues.
