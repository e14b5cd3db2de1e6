# Verification of the NOS kernel

TLA+ models, TLC runs and TLAPS proofs for the NOS kernel, a 64-bit x86
multiprocessor kernel booted from UEFI (`src/src/nos`), its boot loader
(`src/src/boot`) and the drivers it starts (`src/src/drivers`). Paths are
written as in `PROJECT.json`, from the directory that holds `src/`.

Contents: 1 the system, 2 the plan, 3 the modules, 4 the runs, 5 fairness,
6 the proofs, 7 what is only model-checked, 8 what is not modelled, 9 findings.

## 1. The system

### 1.1 Components

| Component | Code | State | Operations | What is hard | Correct when |
|---|---|---|---|---|---|
| Thread scheduler | `nos/task/schedule.c`, `schedentry.asm`, `sched.asm` | per processor a ready queue, a sleep queue and the current thread; per thread the READY and SUSPENDED bits, priorities and one queue entry | `Schedule`, linking, unlinking | entered from the timer, IPIs, device interrupts and `__Schedule`; other processors read the bits meanwhile | every live thread is in exactly one place; queues and bits agree; a ready thread runs again |
| Thread services | `nos/task/thread.c`, `exit.c`, `time.c` | the same | create, priority, suspend, resume, sleep, exit | the flags are tested on one processor, the effect takes place on another | no wake-up is lost or delivered twice |
| Remote execution | `nos/processor/processor.c`, `sysint.c` | execute bit and request block per processor | `KeRemoteExecute`, its handler | spinning with and without interrupts | a request is never overwritten; the bit is released |
| AHCI driver | `drivers/ahci` | per port allocated and pending commands, command contexts; controller registers | allocate a slot, issue, wait, interrupt handler | threads, handler and device touch the same words in any order | a slot has one user; a call returns after the device, with its result, and does return |
| Boot map, physical memory | `boot/efi/amd64/mm.c`, `nos/mm/preosmem.c`, `mm.c`, `meminit.c` | table of 64 groups of 64 descriptors; counters; page headers | copy, merge, cut, take, hand over | two programs change one table by different rules; bit arithmetic | no page lost, described twice, handed out twice |
| Kernel heap | `lib/cruntime/hmblk.c`, `nos/mm/heap.c` | lists of blocks by length, the block being cut | `oHmbAllocate` | the lists live in the memory they describe | blocks do not overlap |
| Object manager | `nos/ob` | object and handle tables, references, type chains, children | create, open, close, destroy, enumerate | check and link apart; locks in callbacks; destruction by the last close | one handle per object and process; a referenced object exists |
| Events | `nos/event.c` | event objects, signals, handlers | register, signal, open, remove | delivery walks lists that others change | registrars and signallers meet at one object; RunEvents asks for a thread for every event from before a registration |
| Locks | `nos/lock` | lock words, owner, count | acquire, release, wait, signal | interrupts, preemption; mixed interlocked and plain updates | mutual exclusion, no lost wake-up |
| Interrupt vectors | `nos/processor/interrupts.c`, `internalint.c` | per processor the IDT and handler groups | allocate, install, remove, dispatch | shared vectors, tables near their ends | a handler is called for its vector only, until removed |
| Page allocator, virtual memory | `nos/mm/phys.c`, `virtualmemory.c`, `virtmemold.c` | page headers in lists by page size | request, share, reserve | splitting pages of a higher level; error paths that hold a lock | disjoint allocations |
| Page tables | `nos/processor/paging.c` | four-level tables | map, unmap, check, find space | mixed page sizes, splitting | tables implement a map |
| Time | `nos/time.c` | timers, tick and counter | create, read, stall, sleep | fraction and carry | nobody wakes early or never |
| Storage | `nos/fs`, `drivers/fat32` | drives, partitions, drive letters, cluster chains | create, mount, unmount, read, write | bounds, one letter per partition | transfers stay inside, letters are unique |
| Devices, drivers, loader | `nos/pnp`, `nos/loader`, `nos/sys` | device objects, images | register, remove, load | rests on the object manager | - |
| Start-up | `nos/init.c`, `entry.asm`, `processor/core.c`, `initcpu.c`, `trampoline.asm` | - | start order | run once | - |
| Others | `nos/console`, `serial.c`, `debug.c`, `rc`, `drivers/pci`, `rtc`, `eodx`, `vmsvga`, stubs, `bedit`, `lib` | device registers | - | - | - |

(`nos`, `drivers`, `boot` stand for `src/src/...`, `lib` for `src/lib`.)

The repository has no tests; its documents are the comments in the code. The
list and tree operations below the page allocator (`VmmAllocate`, `VmmInsert`,
`VmmCreate`, `VmmRemove`, declared in `src/inc/hmapi.h`) and `acpi.sys` come
without source.

### 1.2 How they interact

* The APIC timer, the system interrupt SYSINT_EXECUTE and every device
  interrupt end in `Schedule` on the processor that took them; a thread enters
  it through `__Schedule` after it has left the ready queue.
* `KeSetStaticPriority`, `KeResumeThread` and `KeCreateThread` change the
  queues of another processor only by `KeRemoteExecute`: they acquire the
  execute bit of the target, fill its `RemoteExecute` block and send an IPI;
  its handler runs the routine, releases the bit and reschedules.
* A driver thread starts a device operation, suspends itself, and the interrupt
  handler that `NosIrqHandler` calls resumes it: the AHCI driver rests on
  suspension and resumption across processors.
* The boot loader leaves its table of memory to the kernel, which allocates
  from it once, then hands the rest to the page allocator, from which the heap
  takes pages; the object manager, threads and events allocate from the heap.
* Threads, processes, processors, devices, drives and events are objects, found
  by walking the chain of their type, and are opened and closed as handles.

### 1.3 Hazards

`PROJECT.json` lists what is hard to test in this code, each at its line, with
the properties that cover it or the reason why none does yet. The main kinds:
the windows between a flag test and its effect on another processor; the
execute bit acquired with interrupts on; the orders of device completion,
handler reads and driver stores in the AHCI driver; starvation and lost
wake-ups; the cutting and merging of memory regions and the widths of the masks
that describe them; bitmaps and chains of objects and vectors that are read in
one step and changed in another; page tables that readers walk while they grow;
handles that are shared without a count.

## 2. The plan

The order is by what the rest depends on. The modules of the first part exist
and are checked.

1. **Scheduling core** (done): `ThreadLists`, the abstract queues; `Scheduler`,
   with services, remote execution and device interrupts on several processors;
   `ThreadQueue`, the linked lists beneath, implementing `ThreadLists`;
   `SchedulerInvariant`, `SchedulerProofs`, `SchedulerAging`, `ThreadQueueProofs`.
2. **AHCI commands** (done): `Ahci`, against what the driver uses of the
   scheduler (suspend, resume).
3. **Memory** (done): `PhysicalMemory` from the firmware's map to the page
   allocator, `PhysicalMemoryProofs`; `KernelHeap`.
4. **Events and objects** (done): `Events`, on what it uses of the object
   manager; `Objects`, the two tables and the chain of a type.
5. **Interrupt vectors** (done): `InterruptVectors`. The spin lock and the mutex
   are modelled where they are used.
6. **Paging** (done): `AddressSpace`, what mapping promises; `Paging`, the tables,
   implementing it. `TablesProofs`, about the tables of 4, 5 and 6.
7. **Storage and time** (left): drive bounds, AHCI chunks, the carry of Sleep and
   Stall, cluster chains, as operators checked against reference definitions;
   each is sequential arithmetic.

The theorems follow the same order (section 6): of the scheduler, of the AHCI
commands, of the memory from the firmware to the page allocator, of objects,
events and vectors, and of who changes the page tables and what their readers are
told. Still to come: that the page tables have the shape of a tree, which theorems
about what a mapping changes need (section 7).

## 3. The modules

| Module | Models | Uses |
|---|---|---|
| `ThreadLists` | what the queues of all processors promise | - |
| `Scheduler` | schedule.c, thread.c, exit.c, Sleep, remote execution, interrupt entry and exit | `ThreadLists` as a property |
| `SchedulerInvariant` | the three inductive invariants | `Scheduler` |
| `QueueLemmas` | what linking and unlinking do to a sequence | - |
| `SchedulerProofs`, `SchedulerAging` | theorems | `SchedulerInvariant`, `QueueLemmas` |
| `ThreadQueue` | the four link and unlink functions on the entries themselves | `ThreadLists` as a property |
| `ThreadQueueProofs` | theorems | `ThreadQueue`, `QueueLemmas` |
| `Ahci` | cmd.c, interrupt.c, the transfers of sata.c | - |
| `AhciInvariant`, `AhciProofs` | the inductive invariants, theorems | `Ahci` |
| `PhysicalMemory` | loader mm.c, kernel preosmem.c, mm.c, meminit.c | - |
| `PhysicalMemoryProofs` | the two inductive invariants, theorems | `PhysicalMemory` |
| `KernelHeap` | hmblk.c | - |
| `AddressSpace` | what mapping promises of an address space | - |
| `Paging` | paging.c, the sharing of memory in virtmemold.c | `AddressSpace` as a property |
| `Events` | event.c, with creation, enumeration and opening of objects, the spin lock and the mutex | - |
| `EventsProofs` | theorems | `Events` |
| `Objects` | object.c, handle.c, obutil.c | - |
| `InterruptVectors` | interrupts.c | - |
| `TablesProofs` | theorems | `Objects`, `InterruptVectors`, `Paging` |
| `MCScheduler`, `MCAhci`, `MCPhysicalMemory`, `MCPaging`, `MCEvents` | instances for TLC | the module they name |
| `MCMemory` | `PhysicalMemory` and `Paging` in one run | their instances |
| `MCTables` | `ThreadQueue`, `Events`, `Objects` and `InterruptVectors` in one run | these modules |

`MCMemory` and `MCTables` put modules that share no state into one run: the
variable `studied` chooses the one that takes steps in a behaviour, so that
their states are added and not multiplied.

### 3.1 Scheduler

A processor runs its current thread with interrupts on (`cpu[p] = "Run"`) or is
at a named point of a path with interrupts off. A path with interrupts off is
one action, except where another processor can see the middle of it: between
`ScUnlinkReadyThread` and the flag in `KeSuspendThread` ("Suspend"), between
unlinking and relinking the chosen thread in `Schedule` ("Link"), and while a
handler waits for a thread to be suspended ("Resume"). Code that runs with
interrupts on is as many actions as it has accesses others can interleave with:
the flag test, the acquisition of the execute bit, the filling of the block
(`pc`). The queues are sequences; `ThreadQueue` justifies that.

* Merged into one action because no other processor can see the difference:
  Sleep's unlinking and linking, a routine's reset of SUSPENDED and its link,
  the unlinking of a due sleeper and its link, and in a handler, where
  interrupts are off throughout, the acquisition and the filling of the block.
* A candidate is compared with its priority already raised
  (schedule.c:74 increments in the comparison); the scan leaves the current
  thread's alone. `Preferred` has both.
* `Uses` says which thread calls which service, so that a run can have the
  callers the kernel has, or callers the services do not survive.
* Bounds: none on counters; priorities are bounded by aging itself
  (`AgingBound`).

`KeSetProcessPriority`, the exited thread's memory, stacks and registers are
left out.

### 3.2 ThreadQueue

The entries of `THREAD_QUEUE_ENTRY` with their `Next` and `Previous`, the head
and tail pointers of both queues of one processor, the four cases of unlinking
and the check of `ScLinkReadyThreadBottom`. A store through NULL is `Fault`.
`Forward` follows `Next` from the head, as `Schedule` does: that sequence is the
refinement mapping to `ThreadLists`.

### 3.3 Ahci

Threads, ports, the words `AllocatedCmd` and `PendingCmd`, the contexts of the
commands, and the controller's registers. One action per access to a shared
word: a scan for a clear bit and the setting of it, the CI write and the
pending bit, the handler's reads of CI and of the pending commands, its stores
through the pointers into the issuers' frames, the acknowledgement of the port
and of the controller. `AhciAllocateSlot`'s result is uninitialised when the
mask is full: it is any value the stack may hold (`StackResidue`, any set of
numbers), then what the last scan left. What the interlocked test does with the
number depends on where its bit is. The bit of a slot is set if it is still clear
(`Take`). The bits of the word beyond the slots (`WordBits`) are set from the start
(port.c:18), so that another scan follows (`Retry`). A bit beyond the word is in
other memory; if it is clear the driver takes it and writes past its tables
(`TakeBeyond`), which is undefined, and the behaviour ends there: nothing is
claimed of a system in which a thread is `Stray`. The device completes issued commands in any order
(`DeviceExecute`, external). Threads with a `Home` processor do not run while
the handler runs there, nor while another thread of it has disabled interrupts.

### 3.4 PhysicalMemory

From the firmware's map to the page allocator: `CopyEntry` for every entry,
`BlAllocateOnePage` while the loader builds its page tables,
`KiPhysicalMemoryManagerInit` up to the allocation of its buffer, then
`NextDescriptor` and `CutPart` for the walk that inserts huge, large and single
pages. One processor with interrupts off: an action is a whole call. Addresses
are page numbers. The loader's `1 << y` shifts an int: `IntShift` has the wrap
of the count and the sign extension, so that slots become present that nobody
filled. `LoaderFull` is its halt on a full table.

`Word`, `IntBits`, `Large`, `Huge`, `LowLimit` and `LevelLength` are 64, 32,
512, 2^18, 2^20 and 511 in the code; of the sizes only that a huge page is whole
large pages is assumed. `MapAssumption` is about the firmware: it reports no page
twice, and entries that are not empty. `RoomAssumption` is about the loader's
`1 << y`: the descriptors that the int can name hold the map and the page
tables, and the first `IntBits` entries have free pages for all page tables.
Without it the loader takes pages that are not there (see hazards). Not reached and left out: aligned
requests, a second list node, the continuation of free descriptors.

### 3.5 KernelHeap

Blocks and lists by length in units of 16 bytes; `Relisted` is the first half
of `oHmbLookup`, `TakePages` the branch that requests pages. Nothing is freed
(`oHmbFree` returns FALSE).

### 3.6 Events

Threads that register a handler (`Registrars`) and threads that open an event
and signal it (`Signallers`), each at a point `pc` of its call. An action is an
access to what others touch: the chain of event objects and the handles of the
kernel process (`id`, `handles`) under the spin lock `sl`, the list of events
under the mutex of the object, `Handler->Running` by interlocked operations,
and the walks of `RunEvents` and `KeSignalEvent` (`position`, `current`) with
no lock. `Previous` is read where the code reads it, before the list is locked
(`Allocate`). `Running` is what the pool's memory held (`clean` remembers which).
Event objects are permanent and nobody closes their handles, so none is
destroyed. The threads started are recorded in `delivered`. The handler's own
work, `KeRemoveEvent` (no caller) and failing allocations (the code halts) are
left out. `delivered` records the calls of `KeCreateThread`: `RunEvents` logs one
that fails and goes on (event.c:55-58), so that the handler does not get that event;
no property says that the calls succeed.

### 3.7 AddressSpace and Paging

The four levels of tables in physical frames, with everything the walk of
`HwMapVirtualMemory` does to them: a frame from `MmAllocatePhysicalMemory`
written to the entry (`Allocate`), cleared (`Clear`), made present (`Link`), the
pages entered (`Fill`). A call that asks for large pages at an address that is not
a multiple of one is refused before that (`Misaligned`): `KeMapVirtualMemory`
returns the status, `MmShareMemory` halts with the control bit held. A frame holds junk until it is cleared: that a page table
is cleared only up to the first entry to be filled is part of the model, and so are the two
entries more than its count that `_Memset128A_32` clears: they belong to the
frames that follow. These are still free here, because frames are handed out in
ascending order; that is an assumption about `VmmAllocate`, which has no source,
and no property would show that a frame in use is cleared. Calls are served under the control bit
PROCESS_CONTROL_MANAGE_ADDRESS_SPACE (`holder`); `HwConvertPointer` and
`KeCheckMemoryAccess` read the tables at any moment. The search for a free
range, the call that maps it for `MmShareMemory` and the bit it keeps when
nothing is found are there too.

The refinement maps the tables to the function they denote (`Translation`, over
the pages `Watched`). `Fill` enters all pages of a table at once; `AddressSpace`
lets pages of a request change in any order, so that one at a time would do as
well. The shift of PML4_PAGE_SIZE overflows an int: `After` is 0 there. Left out:
page attributes, `KeUnmapVirtualMemory` (no caller), the mapping without the bit
that processors make while they start, 4KB pages mapped into a large page (no
caller).

### 3.8 Objects

The arrays of objects and handles with the bitmaps of their used slots, the
chain of one type, and users that create an object, open a handle of it, close
it and destroy the object. An action is one access to what others touch: the
bitmap is read (`Scan`), the bit set and its old value looked at (`Take`), the
data set, the chain appended to in two stores without a lock. Closing empties the
handle first and resets its bit then. The last close of an object that is not
permanent frees the object in between (`CloseLastHandle`, `DropObject`); a user's
objects are permanent if it is one of `PermanentUsers`. An object whose data
cannot be allocated is freed again (`OutOfMemory`), and a handle that the object's
EventHandler refuses is given back (`RefuseOpen`). A user opens its own object, which nobody
else has open. Of an object that is open a process gets the handle it has,
without a count, so that the first to close it closes it for all: such sharing
is listed as a hazard. All slots are clear at first (`ObInitialize` clears the array
of objects with the size of that of handles, obutil.c:50). The identifier, children, forced destruction and the order
of an object's list of references are left out.

### 3.9 InterruptVectors

Drivers run in threads of their own and install handlers at the same time, each
on the next processor in turn (`SelectProcessor`). An action is one access to the
table of a processor, in program order; the vector is looked at before and after
its lock is tried. Interrupts of a vector begin once it is installed;
`NosIrqHandler` takes no lock and reads the table of the boot processor,
whichever processor it runs on, as the code does. All callers ask for message
signalled interrupts, so a vector has one handler and no IRQ. Removal has no caller and is left out, and so are the vectors each processor registers at its
start.

## 4. The runs

| Run | Instance | Shows |
|---|---|---|
| `scheduler_smp` | 2 processors, 3 threads, created, sleeping, suspending, exiting; interrupts on both | `NoScBug0`, `OnePlace`, `QueueDiscipline`, `CurrentIsReady`, `OneResumption`, `ControlOwner`, and that the queues implement `ThreadLists` |
| `scheduler_local` | 1 processor, 3 threads that do not sleep; one sets the priorities of the others and resumes them | aging is bounded; every ready thread runs again |
| `scheduler_live` | 2 processors, 3 sleepers on one, one of them waiting for a device of the other | sleepers wake, the suspended thread is resumed |
| `scheduler_control` | 2 processors, a thread creates one for a processor while a device completes | violation: the execute bit is never released |
| `scheduler_priority` | 2 processors, a thread sets the priority of a sleeper of the other | violation: SC_BUG0 |
| `ahci_local` | 1 processor, 2 ports, 2 slots, 2 synchronous calls and a transfer of 3 commands | slots stay allocated while used, calls return after the device with their code, do return, and the handler never has to wait |
| `ahci_smp` | 2 processors, 1 port, 3 threads | slots are exclusive, none is lost, and completions are counted once also there |
| `ahci_lost` | 1 processor, 1 port, 2 transfers | violation: a completion before the pending bit is lost |
| `memory` | every map of 13 pages in up to 3 entries of any kind, in both orders; 3 threads that map and share memory in tables of 8 entries and 24 frames | every page is described, handed out and inserted once, counts agree; page tables implement `AddressSpace`, readers without the lock agree with them, what is shared was free |
| `tables` | lists: 5 threads. Events: 2 registrars and 2 signallers, 2 signals each. Objects: 3 users, 3 objects, 2 handles. Vectors: 3 drivers, 2 processors with 2 vectors each | lists agree in both directions, are never walked off, implement `ThreadLists`; one event object per identifier, and for a handler whose `Running` bit was clear a thread is asked for for every earlier event; objects and handles stay their users'; installed handlers stay and none is called before it is there |
| `object_chain` | 2 users create an object of one type | violation: one of them is not on the chain |
| `kernel_heap` | pages of 4 units, 3 pages | violation: the rest of a page is the block handed out |

Why the bounds are enough. *Scheduler*: a thread has at most one posted request
and a processor at most one block, so two processors show every pair of sender
and target, and three threads a bystander in the queues or a second sender;
aging needs three priorities around two values. *ThreadQueue*: four cases of
unlinking (only, first, last, middle) in two queues need three entries in one
while others are in the second: five. *Ahci*: two slots and three commands make
the allocator wait; the word has one bit more than there are slots, and the stack
also holds the number of a bit beyond it; two ports are what the handler's loop and the controller's
status word need. *PhysicalMemory*: 13 pages hold a huge page (4) with large
(2) and single remainders on both sides, on both sides of the 4GB limit (6);
`Word` 6 and `IntBits` 3 let the third descriptor's shift reach the slots above
it as the 32nd does in the code; two table pages show a first page taken and a
second one merged; `RoomForTables` keeps to the maps of `RoomAssumption`. *KernelHeap*: the violation needs
one allocation. *Events*: two threads of a kind race with each other for
the locks and a third and fourth change what they walk; two signals each show a
walk that finds its handler running and a list that grows under it. Threads of
a kind differ only in their names (`Symmetry`). *Paging*: the calls of the program
cross the ends of page tables and directories, begin and end on them, overlap, and
use pages of both sizes, aligned and not; shares are of small pages, of an aligned
large one, of a misaligned one (the call halts) and of no page (nothing is found); frames run out in one of the two starts
(`FirstFree`) and suffice in the other. *Objects*: with the object made at boot there is one object
slot less than users, and one handle slot less, so that slots run out and are used again;
the objects of one user are permanent.
*InterruptVectors*: three drivers on two processors make two of them
meet on one, and an interrupt of one meet the installation of the other. Two
vectors are enough for either to be passed over.

Deadlock is checked in all the scheduler runs. It is not in the others: the
programs of calls of the AHCI drivers, the threads of `Events`, `Paging` and
`InterruptVectors` and the users of `Objects` end; the boot ends or halts; the
pages of `kernel_heap` are bounded.

Every property of a passing run has a mutant in `PROJECT.json`: a change of one
definition, of a kind a slip in that code would make (the mutated forms stand
beside the definitions, marked "Mutant"), with which the run finds the property
violated.

## 5. Fairness

`Scheduler!Fairness`: a processor with interrupts off goes on executing; the
APIC timer is re-armed at every switch, so it fires; a pending IPI outranks other
vectors and a device line stays asserted, so both are taken though the timer
interrupts in between (strong fairness); a thread that is run again and again
executes its next step (strong: it may be preempted any number of times, but an
instruction is executed in a slice); devices complete. No fairness is assumed of
calls: no thread need call anything. `EventuallyRuns` is stated for processors
without sleepers, because a due sleeper is taken before any ready thread and
ages nobody (see hazards): the code does not give more.

`Ahci!FairSpec`, as long as no thread has taken a bit beyond the word (`Intact`):
a thread that can execute does, the device executes what was
issued, a pending message is taken, a handler goes on. A thread that polls with
interrupts on can be interrupted between any two steps.

## 6. The proofs

`tlapm` checks all modules named below; nothing is assumed but the `ASSUME`s of
`Scheduler`, `ThreadQueue`, `Ahci`, `PhysicalMemory`, `Objects`, `Events`,
`InterruptVectors` and `Paging`, which are about
their constants and which TLC evaluates in the runs. What else a theorem needs
is a hypothesis in its statement.

### 6.1 Scheduler

* `TypeCorrect`: `Spec => []TypeOK` for every set of threads, number of
  processors and use of the services, from `TypeInv` (a path that works on a
  thread has one; a thread about to execute a request has made one).
* `InductiveInvariant`: `DriverWorkload => (Spec => []IInv)`. `DriverWorkload`
  says that no thread sets the priority of another or resumes it outside an
  interrupt handler, which is what the kernel and its drivers do at this
  commit; `scheduler_priority` shows that the theorem needs it.
  `QueueDiscipline` and `NoScBug0` are not inductive: whether a link
  will meet a READY thread depends on requests posted earlier. `IInv` adds: a
  thread at a point with interrupts off is at home and in no queue
  (`PointsAreHome`); READY, SUSPENDED and asleep exclude each other
  (`FlagsExclude`); a first link asked for or posted is for a thread that is
  nowhere (`RequestsAreStarts`, `PostsAreDue`) and is asked for once
  (`StartsOnce`); a resumption is owed to suspended threads only
  (`OwedAreSuspended`), by one party (`OwedOnce`).
* `NeverScBug0`, `QueuesDisciplined`, `CurrentThreadReady`: from `IInv`.
* `SchedulerImplementsLists`: every step of `Scheduler` is a step of
  `ThreadLists` or leaves the queues alone. `StepMoves` classifies steps under
  `IInv`; `MovesAreListSteps` maps the classes.
* `QueueLemmas`: what appending to and removing from a sequence do to its
  members, injectivity and a family of disjoint sequences.
* `OneOwnerOfControl`, `OneResumptionOwed`, `ThreadsInOnePlace`:
  `ControlOwner`, `OneResumption` and `OnePlace` count, and say exactly one.
  `IInv` is about at most one: what excludes what. That there is at least one
  is a second invariant, `OwnershipInv`, inductive together with `IInv`: a bit
  that is set has a sender about to fill the block or a full block, and a sender
  is alone (`BitOwned`); a thread that is suspended or about to be is waiting
  for its device, is in the list of a handler, or has its resumption posted
  (`SuspendedAreOwed`), for which a handler must leave none behind
  (`HandlersFinish`); a live thread is in one of the places (`LiveArePlaced`); a
  thread whose request is under way has not returned (`RequestsAreDone`).
* `AgingIsBounded` (`SchedulerAging`): `IsFiniteSet(StaticPriorities) => (Spec =>
  []AgingBound)`, whoever uses the services: it does not need `DriverWorkload`. A
  priority is a machine integer in the code; without a highest one there is
  no bound to speak of. The argument is about order, which `AgingBound` does not
  mention. Call u settled for a thread t when it stands behind t and has no higher
  priority, or is not in the queue. Each time t is passed over beyond the
  highest static priority, the thread selected instead was not settled, and
  is from then on, because it comes back at the bottom with a static
  priority: t has aged beyond by at most the number of settled threads
  (`AgedAreNext`). That the scan selects a thread that was not settled is
  `SelectedPrecedes`, from what the fold finds in a queue of any length
  (`ScanFinds`, by the shortest prefix for which it would fail). That only those who
  wait in the queue or have just been chosen are beyond it is `OldAreWaiting`,
  for which a queue must hold threads of its own processor (`QueuesAreOwn`) and a
  thread that still is to be created must be nowhere (`HandledAreCreated`).

* `ListsGoBothWays`, `NothingFaults`, `ThreadQueueImplementsLists`
  (`ThreadQueueProofs`): for any set of threads and any order of calls,
  the doubly linked queues are the sequences `Scheduler` works with, and the four
  functions are the moves of `ThreadLists`. The invariant, `ListInv`, says of the
  entries what `Forward` and `Backward` cannot: each thread of a list has both
  neighbours as its links, the ends are the first and the last (`Holds`), the queues
  share no thread, and a thread in neither has no links (`Kept`), on which linking
  relies, since it does not write the `Next` of the new bottom. `LinkStores` and
  `UnlinkStores` turn the stores and their four cases into one change of
  the memory, `LinkHolds` and `UnlinkHolds` follow that change through the sequence,
  and `FollowIsList` shows that walking the links of a list of any length gives it
  back, by the shortest prefix for which it would not.

### 6.2 AHCI commands

`AhciInvariant` has two invariants. `SharedInv` holds wherever the threads and
the handler run. A pending command has its slot allocated, a slot that is
described or issued and not yet pending belongs to one thread (`SlotsInv`); every
pending command was described by a thread of its port, in the way its call
says (`OwnersInv`); and of the commands of a transfer each is counted in
`done`, pending, between issue and pending, or left (`CountInv`). From it:
`SlotsNeverShared`, `SlotsNeverLost`, `DoneNeverPasses`, and `AhciTypes`: whatever the
stack holds, a thread that issues a command or waits for it has the number of a
slot (`ServedSlot`), because the bits of the word beyond the slots are never
clear. All theorems of the module end with a thread that takes a bit beyond the word
(section 3.3).
It rests on `ProgramAssumption`: a synchronous call is the first one on its port and
made before other threads use it, as `AhciInitSataDevice` (port.c:162), the only
caller of `AhciIssueCommandSync`, does it.

`LocalInv` holds besides when all threads are on the processor of the
interrupt (`AllLocal`): what the device has is pending or about to be, and the
handler has seen it (`DeviceInv`); a thread that waits for a synchronous command
has interrupts off until it is suspended, and is suspended exactly as long as its
command is pending (`WaitInv`). From both: `BusyStaysAllocated`,
`CodeStoredFirst`, `HandlerNeverWaits`, `CallsWaitForDevice`. `AllLocal` is a
hypothesis because these four are false with more processors (`ahci_lost` and the
hazards at cmd.c and interrupt.c).

### 6.3 Objects, events, vectors, page tables

The theorems of `Objects`, `InterruptVectors` and `Paging` are in `TablesProofs`, those
of `Events` in `EventsProofs`.

* `ObjectsStayKept`, `HandlesStayKept`: for any number of users and slots, from
  `ObjectsInv`. A slot is looked for in one step and taken in another; that the
  taker of a bit is alone with the slot is `ObjectsClaimed` and `HandlesClaimed`;
  that what it stores there is not overwritten, and that no object lists the handle
  of another, is `HandlesRefer`.
* `EventsAreShared`, `ListsAreLinked`, `RunningIsOwned`, `ExistingAreDelivered`: for
  any number of registrars, signallers, identifiers and signals, from `EventsInv`.
  The spin lock has one owner, and who is about to create an object or a handle
  knows that there is none (`LockInv`); the mutex of an event has one owner, whose
  new signal is in no list and follows the last one (`MutexInv`, which is why
  `Previous`, read early, is right); who walks for a handler is alone as long as
  Running is set, has delivered what it has passed, and at its end all that was
  there when the handler was linked (`RunningInv`), which needs that handlers stay
  where they were linked (`HandlersInv`) and that lists only grow (`Grows`).
* `InstalledHandlersKept`, `NoNullHandlerCalled`: `VectorsSpec` implies `HandlersKept`
  and `NoNullHandler` for any number of drivers, processors and vectors, from
  `VectorsInv`. `HandlersKept` alone is not inductive: another driver could be about to
  store its handler in the vector. The invariant adds that who works on a vector
  holds its lock (`WorkersHoldLock`), that the vector is not present until the worker
  says so (`FreeUntilPresent`, which the second look under the lock
  establishes) and has the worker's handler from then on (`DescribedKept`); for the
  dispatch, that present vectors are described and that a handler about to be
  called was found present (`PresentAreDescribed`, `CallsArePresent`).

* `TablesHaveOneWriter`, `FoundIsMapped`: for any number of threads, size of the tables
  and calls, failing ones included. `PagingInv` says that who is between acquiring and
  releasing the control bit holds it, and that as long as a thread of `MmShareMemory`
  has a range and no mapping yet, a search would still find that range: the search and
  the mapping are two calls with one hold of the bit between them. `SharesFreePages` needs
  besides that what the search finds is free when it finds it, which is what the
  recursive search computes and stays with TLC.
* `MappedNeverDenied`: whatever the tables hold, also in the middle of a mapping,
  `KeCheckMemoryAccess` grants a range all of whose pages `HwConvertPointer` finds, of any
  length, offset and mixture of sizes. The check is a recursion that goes from table to
  table. That the recursion has a solution at all is `CheckPagesEquation`: its rule is monotone,
  and the ranges in every set closed under the rule are a fixed point
  (`PassedFixed`). The rest is the shortest range that would be denied wrongly
  (`MappedArePassed`): what is left of it behind its first table (`SameTable`) or large page
  would be a shorter one.
* `ReadersAgree`: `AccessAgrees` in every reachable state in which no page leads to physical
  page 0. The premise `NoneLeadsToNull` is needed because `HwConvertPointer` returns NULL
  both for a page that is not there and for one that is mapped to page 0, whereas
  `KeCheckMemoryAccess` tells them apart.

### 6.4 Physical memory

For every firmware map, every width of the masks, every size of page and number of page
tables, `PhysicalMemoryProofs` has the five invariants that the run `memory` checks, from
two inductive ones.

* `BootInvariant`, and from it `MapsKeepMemory` and `HandedOutAreAllocated`. `MapKeepsMemory`
  is not inductive. The loader merges, cuts and removes by what `Seen` finds, and with the
  int's shift a slot may be seen that nobody filled. `TableInv` says why that
  does no harm: the loader writes only slots that the int names, the bits above
  repeat the last one, of `present` and `full` alike, and free regions are shorter than the
  counter's range, so that cutting a page does not wrap. What is present and what it
  describes is kept apart by slot and by kind (`Piece`, `Holds`), so that every operation is a
  change of one or two pieces (`LoaderAdds`, `RunMoves`, `RemovedKeeps`). That
  the table never fills counts the descriptors in it: not more than entries copied and pages
  taken (`LoaderInv`, with `RoomForMap` and `NotFull`). That the loader finds a real free
  page needs that the memory of the first entries is still in the first slots
  (`EarlyFree`), and that the page tables do not use it up (`EarlyLeft`).
* `HandOverInvariant`, and from it `PagesInsertedOnce`, `CountsAreRight` and `TypesAreKept`.
  What is inserted and the two parts that wait are the memory the walk has
  reached, each page once (`WalkInv`); the next header is the number of pages inserted
  (`RunsInv`, `AddRun`), which with `Usable` finite gives the bound on the headers. The
  code keeps one spare copy for what is left behind a run, and
  writes it on two levels. It is not overwritten while it is in use because a part
  that has another one waiting ends where a huge page begins, so at a large page,
  and nothing is left behind its large pages (`PartsInv`, from `CutInThree`, `WholeFits` and
  `MultipleOfMultiple`). The kernel's totals are sums over descriptors, taken by a
  recursion over a set; that the sum of the sizes of disjoint sets is the size of their
  union, whatever the order, is `SumIsCount`, by the smallest set of descriptors for
  which it would not be.

## 7. Only model-checked

* All liveness properties: the provers have no ENABLED.
* `MappingPromise`, the refinement of `AddressSpace`: it says what a walk of four levels
  finds after a mapping. For that the tables must have the shape of a tree, which
  holds only if no call maps single pages into a large one: a condition on all calls,
  of which some map ranges that the recursive search chooses. For the same reason
  `NoneLeadsToNull`, the premise of `ReadersAgree`, is not shown of all calls; it holds of
  the calls of the run `memory`.
* That the search of `HwFindAvailableAddressSpace` finds free pages, in `SharesFreePages`. It
  is not true of every table: behind an absent Pml4 entry the search goes on at address 0
  (`After`), so that a range may not be contiguous and the search may not end.
* `KernelHeap`, of which there is only a violation.

## 8. Not modelled

See `PROJECT.json` "components" for each part with its reason. In short:

* storage, FAT32 and the arithmetic of time: sequential, planned as operators (2);
* semaphores, owners that enter a mutex again, `KeUnmapVirtualMemory`,
  `KeRemoveInterruptHandler`, `KeRemoveEvent`: no caller at this commit;
* the sharing of a handle by two users of a process and a destruction that is forced:
  listed as hazards, in no run because `HandlesKept` does not hold there;
* processors' and devices' start, the PE loader, drawing, formatting and
  firmware calls: straight-line register or library calls;
* message ports: they do not compile at this commit;
* the list operations of the page allocator: no source in the repository.

With several processors the
AHCI driver has further divergences, listed as hazards at their lines, that
`ahci_smp` does not claim away: it checks only the properties that hold there.

## 9. Findings

| Run | Where | What |
|---|---|---|
| `scheduler_control` | `src/src/nos/processor/processor.c:111` | the execute bit is acquired with interrupts on; a handler that needs it spins for ever, against the comment that the processor "will automatically releasse the control bit" |
| `scheduler_priority` | `src/src/nos/task/thread.c:185` | a thread that is neither READY nor SUSPENDED is taken for a new one: a sleeper (on one processor as well), or one being switched to, is linked again |
| `ahci_lost` | `src/src/drivers/ahci/cmd.c:54` | the pending bit is set after the command is issued; a completion in between is ignored for good |
| `kernel_heap` | `src/lib/cruntime/hmblk.c:71` | the rest of a page is listed at the address of the block handed out |
| `object_chain` | `src/src/nos/ob/object.c:49` | two objects created at a time are appended to the same last object: one of them is not on what object.c:150 calls a "continuous chain" |
