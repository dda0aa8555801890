# A TLA+ model of TEMRIX

TEMRIX is an x86_64 microkernel operating system in C++: a kernel (`src/kernel`)
with about sixty system calls, and servers and programs in user space
(`programs`) for files, windows, input and the network. The repository has no
tests and no design documents, and hardly a comment; what a part promises is read
from how the rest of the code uses it. This directory models the parts whose
correctness depends on the order in which several actors act, or on long
sequences of calls, checks them with TLC on small instances and proves the main
results with TLAPS for all instances. Paths below are relative to the
repository's root.

## 1. Inventory

### Kernel (`src/kernel`)

| Component | State it keeps | Operations | Hard to get right |
|---|---|---|---|
| Scheduler and tasks (`scheduler.cpp`, `task.cpp`, `interrupts.cpp`) | table of tasks, current task, virtual times, `notifyPending`, FPU areas, CR3, table of IRQ waiters | tick, yield, exit, fault, wait, notify, spawn, subscribe, device interrupt | notifications against sleeping; destroying a task whose stack is in use; addresses of tasks used again; two switch paths with different rules for FPU and CR3 |
| Physical pages (`BuddyAllocator.cpp`) | free lists per region and order, one byte per page, `free_memory` | init, malloc, free | stale bytes inside merged blocks; freeing pointers that start no block |
| Virtual memory and shared regions (`vmm.cpp`, memory calls of `syscall.cpp`, `Task::destroy`) | page tables, VMAs, the table of shared regions | mmap, munmap, DMA, BARs, create/map/unmap/destroy shared, spawn's maps, exit | rollback of every call that fails half-way; exit with shared mappings; regions destroyed while mapped; sizes, flags and ranges taken on trust |
| Capabilities and device grants (`capability.hpp`, `syscall.cpp`) | capability bits and grants per task | spawn, grant, revoke, map a BAR, exit | authority through chains of calls; task objects used again |
| Slab allocator, page tables, containers, service registry, vectors and PCI, console, program loader, boot | | | see section 7 |

### User space (`programs`)

| Component | State it keeps | Operations | Hard to get right |
|---|---|---|---|
| File-system requests (`FsClient.hpp`, `FsServer.hpp`, `Fs/Fs.cpp`) | a registry of slots in shared memory | claim, fill, publish, scan, answer, wait and notify on both sides | lost wakeups; a slot that changes hands while the server is still at it; clients that die |
| Frames of windows (`CompositorClient.hpp`, `Compositor.hpp`) | two buffers and three counters per window in shared memory; the compositor's copies | beginFrame, present; map, snapshot, draw, acknowledge, sleep | two stores read by two loads; drawing while the buffer is read; sleeping over a frame |
| TemrixFs (`FileSystem/TemrixFs`) | superblock, block groups, free extents, file headers, extent trees, directories | allocate, free, grow; create, write, truncate, remove; persist, mount | growth that fails half-way; crash between two writes; allocator that allocates for itself |
| NVMe driver (`nvme.hpp`) | submission and completion rings, phase, command ids | submit, complete, batches, async | completion after its time-out; wrapping ids |
| Input and window management (`InputServer.hpp`, `InputClient.hpp`, `Window.hpp`, `Compositor.hpp`) | ring of 64 events, rings of 16 per window, stacking order, focus | push, poll, raise, focus | rings without back-pressure; read while overwritten |
| TCP/IP (`net`) | one connection | connect, send, recv, close, resolve | segments lost, repeated or out of order |
| Keyboard server and xHCI (`Keyboard`, `Xhci`) | command, transfer and event rings | poll, subscribe, wait | interrupt between poll and subscribe |
| Init, terminal, shell, GPU, Ext4, loaders, library | | | see section 7 |

The user programs meet each other only through shared regions and
`Wait`/`Notify`, and the kernel only through system calls. `Wait` and `Notify` are
therefore the joint of the project: `WaitNotify` states what they promise, the
scheduler is shown to implement it, and both protocol models are written on top
of it.

## 2. Modules

```
 kernel                                     user space
 Scheduler ──implements──▶ WaitNotify ◀──EXTENDS── FsIpc, FrameExchange, InputEvents
 BuddyAllocator ──implements──▶ PageAllocator ◀──assumed by── AddressSpace
 Authority                                  TemrixFs ──EXTENDS──▶ ExtentAllocator
                                            NvmeQueue      TcpClient
```

| Module | Models | Actions and code |
|---|---|---|
| `WaitNotify` | the promise of `Wait`, `Notify` and task lifetime to user programs | one pending bit per task; `Wait`, `Notify`, `Interrupt`, `Exit`, `Appear` |
| `Scheduler` | task table, picker, wait/notify, exit and fault, tick, interrupts, FPU and CR3 | one action per handler: `Timer` (`apTimerHandler`), `syscallYield`, `syscallExit`, `Fault` (page fault and the other exceptions), `syscallWait`, `syscallNotify`, `syscallSpawn`, `syscallSubscribeIrq`, `irqDispatch` |
| `PageAllocator` | the promise of the page allocator | `Alloc`, `Free` of disjoint runs |
| `BuddyAllocator` | `init`, `malloc`, `free` with lists and order bytes | `Init`, `malloc`, `free` |
| `AddressSpace` | VMM, shared regions, spawn's maps, exit | one operator per system call, named after it; failures inside a call are choices of it |
| `Authority` | capabilities, grants, BAR mappings | one action per system call |
| `FsIpc` | the request protocol of the file server | one action per access to a slot, on both sides; `Crash` of a client |
| `FrameExchange` | double buffering between windows and compositor | one action per access to a slot, on both sides; `Crash` of a window; `Input` |
| `InputEvents` | the two event rings, focus and stacking order | the server's push in four steps, one action per access of the compositor's loop and of a program's poll |
| `ExtentAllocator` | block groups, free extents, metadata blocks of TemrixFs | operators that transform a volume: allocate, free, split, merge, grow the table of free extents, persist |
| `TemrixFs` | files over the allocator: header, direct extents and three levels of index blocks | create, write (with growth), truncate, remove; a crash between any two writes to the disk, and the mount after it |
| `NvmeQueue` | one I/O queue pair and the driver's calls on it | submit, ring the doorbell, poll and time out of the synchronous calls; asynchronous reads and `drainAll`; the device fetches and completes in any order, late too |
| `TcpClient` | the TCP client as `httpGet` uses it, and its peer | one action per kind of outcome of `poll`, per call of the client and per step of the peer; a network that loses, repeats and reorders |

`*Proofs` modules hold the theorems, `MC*` modules and their `.cfg` the instances
for TLC. `DriverProofs` holds the theorems of both `NvmeQueue` and `TcpClient`, the two
programs that follow something outside the machine by polling; the names that both would
have carry a prefix in `TcpClient` (`TcpInit`, `TcpNext`, `TcpSpec`). In every module, definitions whose comment begins with "Mutant" are
deliberately wrong versions of the definition after them: a run with one in
place of the original must fail, which shows that its property notices that bug.
No specification uses them.

What is atomic. The kernel runs on one processor, and every handler runs behind an
interrupt gate with interrupts off, so a system call, a fault, a tick or a device
interrupt is one step of `Scheduler`, `AddressSpace` or `Authority`. User
programs can be interrupted anywhere, so in `FsIpc`, `FrameExchange` and `InputEvents` each
access to shared memory is a step, grouped only where nobody can tell: the fields of a
request other than its path are one store, because the server reads them all
after the same test.

Main abstractions:

* `Scheduler`: a task is the address of its object, and addresses are used
  again; `m_tasks` is a set, its order being the order of ids. Register contents
  and page tables are the id of their owner. `Scheduler::sleep` has no caller, so
  the state `Sleeping` is left out.
* `BuddyAllocator`: exact, with pages for bytes and a small modulus for
  `uint32_t`. The addresses of list nodes are page numbers.
* `AddressSpace`: memory is what `PageAllocator` promises. Page-table frames and
  the kernel heap are left out. The kernel believes its callers, and the model lets
  them do as they please: any flags (`kept` says whether `VM_MMIO` or `VM_SHARED` is among
  them, all that destruction looks at), any of the three unmapping calls for any range,
  a region destroyed whatever maps it, and a DMA request whose size does not fit the 32 bits
  of `BuddyAllocator::malloc` (`Narrowed`; what is mapped beyond the block is `Following`).
  Three history variables, which no call reads, remember what this leaves: `stale`
  (pages that mapped a region when it was destroyed), `left` (runs a dead task left behind)
  and `careless` (tasks that asked for 4 GB or more of DMA memory, or unmapped
  something else than one whole mapping by the call of its kind). Left out:
  unaligned addresses given to the unmapping calls, addresses of the kernel's given to
  `unmapBar`, and requests of 2^52 pages and more, whose products wrap.
* `Authority`: device classes are a function of the device; the BAR index is left out.
* `FsIpc`: the content of a request and of its answer is the identity of the
  request it came from. The server does not crash: nothing restarts it.
* `FrameExchange`: pixels, rectangles and cursor are left out; a slot is the
  window that claimed it, as no program ever releases one.
* `InputEvents`: where the mouse is, is the set of windows under it, chosen anew
  with each event. What a key is, deltas and local coordinates are left out; an event
  that is read while it is written is an event of any kind. No program calls
  `Window::Shutdown`, so windows do not detach. The `focused` flag of a slot is
  read by nobody and left out; the 32-bit counters do not wrap.
* `ExtentAllocator`, `TemrixFs`: a block is a number; the sizes of a group, of an index
  block and of a sector are constants, so that every limit is met on a small volume. The
  disk is what was last written of each structure; one write of a sector is atomic.
  The contents of a file are the order of its blocks. Left out: the header and data of the
  root directory, subdirectories, the transfer of the data and the layout of structures.
* `NvmeQueue`: a command is its number and a 16-bit id is taken modulo a constant. Left
  out: register set-up and admin queue, PRP lists, and `writeSectorsBatch` and
  `writeAsync`, which have no callers. The phase bit, the doorbells and the clearing
  of pending I/Os are those of the code. The code does not check that the submission
  ring has room; when the driver laps the device the model notes it (`overrun`) and the
  properties say nothing of what follows.
* `TcpClient`: a segment is its flags, its numbers and the piece of the response it
  carries. Sequence numbers count pieces. Checksums, headers, ARP and DNS are left
  out. The peer follows the protocol; its answer to a repeated acknowledgment is bounded.

## 3. Runs

| Run | Instance | Properties |
|---|---|---|
| `scheduler` | 3 task addresses, 2 alive at a time, 2 ticks, 1 vector, 2 waiters, ids to 4 | `CurrentAlive`, `NoLostNotify`, `FpuIsolated`, `OwnAddressSpace`, `NoTickChargedTwice`, `DeadStaysDead`, `ImplementsWaitNotify` |
| `buddy` | regions of 10 and 3 pages, orders to 2, sizes around every rounding | `Partition`, `FullyCoalesced`, `PageAllocSpec` |
| `address_space` | 2 tasks, 4 frames, 7 pages each; ranges of 1 page, of 2, of 2 over the kernel's page, and of 6 where 5 are 4 GB; 2 regions | `TablesMatchVmas`, `NoDanglingMapping`, `PrivateMemory`, `NoFrameLost` |
| `authority` | 2 tasks, 2 capabilities, 2 devices of a class, 2 grants each | `MappedIsGranted`, `NoAmplification` |
| `fs_ipc` | 2 clients, 2 slots, 1 request each | `SlotExclusive`, `NoForgottenRequest`, `RequestReturns` |
| `fs_ipc_one_slot` | 2 clients, 1 slot, 2 requests each | `RightAnswer` |
| `frame_exchange` | 2 windows, of 4 frames and of 1 | `NewFrameIsStable`, `NoForgottenFrame`, `FramesInOrder`, `FrameIsShown` |
| `input` | 3 events, a background and a normal window, rings of 2 and 2 | `EventsInOrder`, `FocusIsKnown`, `NoForgottenInput` |
| `temrixfs` | 6 blocks, groups of 3, 2 direct extents, 1 entry per index block, 2 table entries per sector, 2 files of up to 2 blocks, 1 crash | `NoSharedBlock`, `BlocksLostOnlyWhenFull`, `FreeSpaceIsSaved`, `CrashSafeGrowth` |
| `temrixfs_deep` | 16 blocks, 1 direct extent, 1 entry per index block, 1 file of up to 6 blocks and 5 extents, 1 crash | `NoSharedBlock`, `ContentsStayInPlace` |
| `nvme` | rings of 4, ids modulo 4, 7 commands, 1 late completion | `AnswerIsOwn`, `DataIsOwn`, `DrainMeansDone`, `DrainEnds` |
| `tcp` | a response of 2 segments, waits of 2, 2 faults, 1 answered acknowledgment | `DeliveredInOrder`, `EverythingAcknowledged`, `CallsReturn` |

Why the bounds are enough:

* `scheduler`: two living tasks and idle give every pair of switcher and
  switched-to; the third address and the fourth id let an address be given to a
  new task while a stale pointer to the old one is in the waiter table. Two ticks
  let a slice be charged and charged again.
* `buddy`: ten pages hold two blocks of the largest order and a rest of two, so
  merges stop at the largest order, at the end of the region and at an allocated
  buddy; the first page is metadata, so that the block of page 0 can never merge.
* `address_space`: four frames run out within one request; the ranges `Places` make
  adjacency, overlap at one page, overlap of several mappings and the kernel's own page
  occur; six pages are one more than a 32-bit size can count here (`Width`), so one frame
  is allocated and six pages are mapped. The tasks are interchangeable, hence the symmetry.
  What follows a careless call is not explored (the constraint `NoneCareless`): three
  properties say nothing of it, and the fourth, of the other tasks, is proved.
* `authority`: a chain needs a giver and a receiver, and a task that comes back
  after exiting; a second grant fills the table.
* `fs_ipc`: two clients race for a slot, two slots make the server's scan pass one
  before the request arrives; a client that dies leaves one slot. `fs_ipc_one_slot`
  adds what needs a slot used twice: it passes to the other client while the server
  is between its answer and its notification.
* `frame_exchange`: four frames go round both buffers twice; one window more lets
  the compositor be woken, or be at another slot, for another reason.
* `input`: three events are one more than either ring holds, so the server laps a
  compositor that does not look and a window that does not poll misses events; press,
  release and press move the focus to one window and on to the other.
* `temrixfs`: six blocks in two groups make extents that merge and cannot merge across
  groups, a full volume, and a table of free extents that grows to a second sector and
  fails to. The depth of the index and the limit of 256 extents need longer files:
  `temrixfs_deep` reaches all three levels and the limit (5 there). The limit of
  `MAX_FREE_EXTENTS` is reached by neither.
* `nvme`: seven commands go round a ring of four and round the ids, with one of them
  completing after the call gave up on it.
* `tcp`: two segments of data are enough to swap, repeat and lose one, and two faults to
  combine any two; a wait of two polls can expire at any point.

What the runs show that is not obvious from the code:

* `DeadStaysDead` has an exception, and the run fails without it. An interrupt for
  a vector a task subscribed to sets its state to `Notified` even when the task has
  just exited and is not reaped yet; the task then runs again. The property says
  that nothing else can do this.
* `OwnAddressSpace` allows idle to run on the page table of a task that crashed,
  which the next tick frees; it says that no user task ever does.
* `RightAnswer` excepts the first use of a slot: `FsPending` is 0, the value of
  zeroed memory, so the server may answer a request that is still being written.
* `NewFrameIsStable` is about new frames. A window with nothing new is drawn again
  from the buffer it presented last whenever anything else on the screen
  changes, and it may be drawing there; the code takes no measure against this.
* `EventsInOrder` excepts a server that writes to a place of the ring the compositor, a
  whole ring behind, is about to read. `FocusIsKnown` excepts a window whose ring had no
  room: the event dropped may be the one that tells it that it lost the focus, and
  nothing tells it again.
* The kernel's memory calls are safe from each other as long as no task is careless, but
  for two things that need no carelessness. `syscallDestroyShared` frees a region that
  others, or the owner, still map: `NoDanglingMapping` and `PrivateMemory` say that exactly
  those pages (`stale`) can reach memory that was handed out again. And `destroyAll` skips
  what a task mapped with `VM_SHARED` or `VM_MMIO` among its own flags: `NoFrameLost` says
  that only those runs (`left`) are lost. A region whose owner has ended is not lost in
  the sense of `NoFrameLost`, since it stays in use, but nobody can destroy it any more. A
  DMA request of 4 GB or more maps frames that belong to others, and an unmapping call for the wrong
  range leaves pages without a record; from then on only `TablesMatchVmas` still holds,
  and only for the other tasks.
* `CrashSafeGrowth` holds for growth in the direct extents, and the crash between create's
  or growth's writes only loses blocks. It is not safe elsewhere: truncate
  and remove save the allocator before the header or the directory entry that still names
  the freed blocks; growth through index blocks writes them before the allocator is
  saved; and a table of free extents of several sectors is saved sector by sector. After
  a crash there, a later allocation can give a block to two files.
* A crash is not needed for it. A growth that fails after it has filled an index block
  returns without saving the allocator; if the machine is rebooted before another
  call saves it, blocks of the file are free on the disk. `NoSharedBlock` says that this is the only
  way: the volume in memory never shares a block, failed growth included, and unless
  such a growth is unsaved (`torn`) neither does the disk between two calls, so that a
  clean reboot brings a sound volume back. The deep run reaches that state
  within a few calls. Once a remount has found a shared block, after a crash or after such a reboot, the
  model stops (`Mounted`).
* Growth that fails half-way loses the blocks it had obtained; beyond `MaxExtents` every
  write grows the file again and returns before it writes the header. `ContentsStayInPlace`
  excepts a truncation cut off by a crash, which leaves gaps in a file with several index
  levels.
* `AnswerIsOwn` and `DataIsOwn` except what a command given up on can still do: its completion
  carries an id that may be that of a later command once ids have wrapped, or 0, which a
  waiting call takes for its own, and its data may land in the buffer the
  next call uses. `DrainMeansDone` excepts a late completion that clears the entry of another read.
  `drainAll` has no time-out; it ends because the device completes what it is given.
* The TCP client looks at no sequence number and resends nothing. `DeliveredInOrder` and
  `EverythingAcknowledged` name what they need of the network: no repeated or reordered data for the one (a loss
  only leaves a gap), no faults for the other. Without the conditions the run fails. A FIN that arrives with data is never acknowledged,
  a reset is taken for an empty segment, and data that arrives during close is dropped.

## 4. Liveness and fairness

`RequestReturns`: every request
returns unless its client dies, with other clients dying anywhere and a
registry that may be full. `FrameIsShown`: a frame that was presented and announced
is consumed if the compositor shows the window.

The fairness is weak, one condition per process: the server or compositor, and
every client or window that is inside a library call. The scheduler justifies
it: a runnable task's virtual time stands still while others run, so it becomes
the smallest; a task in `Wait` is runnable as soon as it is notified. Nothing is assumed of
crashes, of input, of mapping a window's buffers, or of programs starting
requests or frames. A program that has begun a frame is assumed to finish drawing it.

`DrainEnds`: `drainAll` returns. It needs the driver's loops to run and the device to
complete what it has been given, as the loop itself does: it has no other way out.
`CallsReturn`: every call of the TCP client returns, under fairness of the client
alone, whatever peer and network do or do not do; that the countdown cannot
step over zero is what it depends on.

## 5. Proofs

All proofs are for any number of tasks, clients, slots, windows and so on, under the
named assumptions on the constants, which every run evaluates.

* `SchedulerProofs`: `TypeCorrect`, `NoUseAfterDestroy`, `NotifyIsKept`,
  `PidsAreUnique`, `ContextIsolation`, `TablesAreOwn`, `TicksAreChargedOnce`,
  `DeadAreNotRevived`, `SchedulerImplementsWaitNotify`. The
  properties are not inductive one by one. `IInv` is their conjunction with
  `SlicesInPast` (no slice starts in the future, so the unsigned subtraction does not
  wrap) and `ContextsSaved` (every context not on the CPU is in its own FPU area,
  without which nothing is known of the registers loaded at a switch). Schedule
  and wakeTask have a lemma each, used by every handler that ends in them. The
  refinement maps Ready/Running/Notified tasks to awake ones; a tick or yield is a
  stutter or, when a corpse was revived, an `Appear`.
  `TicksAreChargedOnce` is about a sum over the tasks. The library computes it by recursion
  over a finite set; the lemmas `TotalAny` (any term can be taken out first), `TotalRaised`
  (a term grows, so does the sum) and `TotalOfPart` (fewer terms make no more) are proved from
  that definition by induction on the size of the set. `Charging` is then one argument for
  every handler: charging the open slice uses up exactly what it had open, reaping only
  takes terms away, and the slice of the next task starts empty.
* `BuddyAllocatorProofs`: `PagesArePartitioned`, `BuddiesAreMerged`, `ImplementsPageAllocator`,
  for every set of regions and every `MaxOrder`. The inductive invariant has, for each region,
  `Tiling` (the blocks, free and allocated, cover each page once, aligned to their size) and
  `Marked` (the order map gives the order of every block on a list, and has no entry below the
  first block); TLC checked both on the buddy run's instance before they were proved. Bytes inside a block are stale and need no
  invariant: a buddy whose byte says free and of this order lies in some block of the tiling;
  either it starts there, or the block is larger and would cover the page being freed as well. `Recut`
  is the one lemma on tilings: blocks may be replaced by others that cover the same pages.
  malloc applies it to the halves it splits off (`Splits`, `Pieces`), free to the merge
  (`SiblingIsFree`, `Merges`, `MergeCover`). The provers know nothing of powers, so
  `PowersOfTwo` assumes `2^0 = 1` and `2^(n+1) = 2 * 2^n` up to the largest order, which TLC
  evaluates. Inductions are made with sets of numbers (`Least`, `UpFromZero`), for the
  library's induction theorems cannot be instantiated.
* `AuthorityProofs`: `TypeCorrect`, `MappingsAreGranted`, `AuthorityIsNotAmplified`.
  The last is an action property: for each call, the grants it adds reach no
  device its caller could not map (`CoveredIsReached`, `GrantAdds`, `SpawnGives`).
* `FsIpcProofs`: `RegistryExclusion`, `ServerHearsRequests`, `ClientHearsAnswer`,
  `AnswersAreRight`.
  `IInv` adds to slot exclusion: `RequestsReached` (a published, unanswered request
  is ahead of the server's scan, or the server has a notification to consume, or
  the client's is still to come), its mirror image `AnswersDelivered`, `OwnPid` (the pid in a slot
  is its holder's) and `Sleepers` (where a process can be asleep). `AnswersAreRight` adds
  `AnswerInv`: the server is busy only in a slot that is Pending, and a slot given back
  is left Answered (`UsedIsAnswered`), so nothing of it is read before it is published again.
* `FrameExchangeProofs`: `TypeCorrect`, `FramesAreStable`, `WindowsDoNotRunAhead`,
  `FramesAreConsumedInOrder`, `FramesAreNotForgotten`. `IInv` has three parts per window:
  `Progress` (how far presented, announced and consumed frames can be apart),
  `Buffers` (which of the two is drawn and which presented, by the parity of the frame
  number) and `Snapshot` (what the compositor read is that frame's buffer, or
  the window has moved on in a way that keeps it off that buffer). `NoForgottenFrame` uses
  a second invariant on top, proved the same way.
* `AddressSpaceProofs`: `RecordsMatchTables`, `NothingDangles`, `PrivateIsPrivate`,
  `NothingIsLost`, the four properties of the run, for every sequence of calls, the
  careless ones included. The first needs only `Base`: a task's record
  matches its table as long as that task itself has been careful, whatever the others do, and
  a dead task maps nothing. The other three hold together, and until somebody has been careless (`Sound`): releasing a
  mapping leaves no other page dangling because private frames are mapped once, and finds
  every run because records and tables agree. `Inv` is their conjunction with `Runs` (what is
  handed out are disjoint runs of frames), `Regions` (a region in use owns its frames and the array
  of their addresses), `Backed` (what lies behind each kind of mapping), `Stale` (a stale
  page is a page of a shared mapping, so that no rollback, munmap or exit frees through it) and
  `Left` (nobody has what was left behind). They are predicates of a memory's parts and not of the variables, so that a call
  that takes memory, maps it, fails and gives it back is followed from one memory to the
  next: `MapFrames`, `MapForeign`, `DropMappings`, `AddRegion`, `DropRegion` are the steps the
  calls are made of, with a lemma for each call above them. The frames of spawn's two maps are spread
  over the pages of both at once (`SpawnMade`).
* `InputEventsProofs`: `InputIsNotForgotten`, `EventsStayInOrder`, `FocusIsTold`. `IInv`
  says where the compositor can be asleep (`Sleeper`) and, at every point of its loop, that what was published since it looked is
  announced: the server is about to notify it or a notification is pending (`Aware`).
  `OrderInv` and `FocusInv` are proved on top of it. Both are about the stream `What` a window is
  to see, what it has received and then what is left in its ring, and follow each event from
  the server's ring (`RingHolds`, `Reading`) to the window's; once a read has raced with
  a write to the same place it stays so.
* `DriverProofs`, about the NVMe driver: `PhaseTellsNew`, `SuccessIsOwn`,
  `SuccessMovedOwnData`, `DrainIsComplete`, for every depth of the ring, every width of the ids and any number of commands. `IInv` adds to the types that
  the phase bits tell the two laps of the completion ring apart at every slot (`RingInStep`),
  that no command is in two places of the two rings (`Placed`), and which commands the call in
  progress has taken for its answers (`Answered`). `SuccessMovedOwnData` adds `Moving`: the parts
  of the DMA buffer tell the commands of a call apart, and nothing writes there but the
  device for the call's own commands and for reads given up on.
* `DriverProofs`, about the TCP client: `TcpInvariance`, `ResponseInOrder`, `PeerHearsTheEnd`,
  for a response of any length, any countdown and any number of faults. `poll` accepts any
  segment of the connection with the flags it waits for, and never compares its number, so
  all that keeps the response in order is the order of the queue. The inductive invariant
  `TcpInv` was checked by TLC on the run's instance before it was proved. It has three
  parts. `Course`: no data before the request, every segment under way has its number below
  the next one to be sent, and a FIN sits behind the last unit. `OrderInv`, as long
  as nothing is repeated or reordered: what was delivered, what is under way and what is
  not yet sent are in the order of their numbers (`Ordered`), and if nothing was lost, no unit
  is missing in between (`Unbroken`). `poll` drops a segment as unwanted only
  during connect, when nothing under way carries data yet (`NothingYet`). `AckInv`,
  without faults: `conn.ack`, which is one too high after every pure ACK, is at most one ahead
  of what was sent (`AckBound`); it never reaches the number behind a FIN that came with data
  (`NoneBeyond`), so that the exception in `EverythingAcknowledged` is exact; and once the end was
  seen, the peer has been told or a segment that tells it is under way (`EndTold`).

`OneCorpse`, `UniqueIds`, `NoForgottenAnswer`, `AtMostTwoAhead`, the phase rule of the completion
ring and the `TypeOK` of `Scheduler`, `Authority` and `FrameExchange` are proved and not among the
runs' properties.

Only model-checked: `TemrixFs` (its allocator and files are recursive operators and folds over
sequences of extents; what they compute for every input needs induction over data, and
modules with recursive operators are outside what tlapm reasons about) and all liveness
(`RequestReturns`, `FrameIsShown`, `DrainEnds`, `CallsReturn`), which is out of the prover's
reach. Every other property of a run is stated by a theorem.

## 6. Plan

Done: the kernel's core; the shared-memory protocols of files, frames and input; the file
system's allocator and files with crashes; the NVMe queues; the TCP client. What is left, in
this order:

1. The directory of TemrixFs and a composition of `TemrixFs` with `NvmeQueue`: what a
   time-out of the disk does to a volume.
2. The xHCI event ring, with the interrupt that arrives between poll and subscribe.
3. Windows that detach, once a program closes one.

## 7. Not modelled

`PROJECT.json` lists every component with its reason. In short: page-table radix
trees and the kernel heap (below the abstraction of `AddressSpace`); the service
registry, vectors and PCI (used once at start-up); boot and processor set-up
(straight-line); loaders, Ext4 and VFS (parsing and dispatch of data by one task);
terminal, shell, editor, console, graphics (sequential text and pixels); the
registers of the network card, the GPU and USB descriptors (no source in the
repository describes the device's side); vendored code.

## 8. Running

```
tlc -config MCScheduler.cfg MCScheduler.tla     (likewise for every MC module)
tlapm SchedulerProofs.tla                       (likewise for every *Proofs module)
```
