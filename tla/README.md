# Rastapopoulos in TLA+

Rastapopoulos is a small operating system for x86: a kernel with a preemptive
round-robin scheduler, ports for messages between tasks, paging and a heap, and
user programs (a block driver, a file server, a logger, init) that talk to each
other over the ports with generated remote procedure calls.  This directory
models it in TLA+, checks the models with TLC and proves theorems about them
with TLAPS.

    tlc -config MCIpc.cfg MCIpc        # one of the runs below
    tlapm PortProofs.tla               # the proofs of one module

`PROJECT.json` lists the components, the runs, the source lines every definition
models, the hazards with the properties that cover them, and the theorems.

## The system

| component | state | what is hard | what makes it correct |
|---|---|---|---|
| lists (`common/list.h`) | head, tail, links in the elements | elements moved between lists during a walk | a removed element is unlinked, order is kept |
| scheduler (`kernel/scheduler.c`) | three queues, current task, wait conditions, next pid | preemption anywhere in user code, calls resumed in the middle | a task is on one queue, none is lost, ready tasks run |
| ports (`kernel/ipc.c`) | owner and message queue of each port | blocking and waking across tasks, tasks that exit | no lost wakeup, messages in order and none lost, a send ends with its receipt |
| timer, interrupts, contexts (`timer.c`, `pic.c`, `idt.c`, `gdt.c`, `jump_to_usermode`) | table of timers, requests in service, saved contexts, port bitmaps | callbacks that never return, the timer in the middle of building a context | timers fire in their period, user code runs in user mode |
| frames and page tables (`pmm.c`, `bitset.c`, `vmm.c`) | a bit set per region, directories and tables | running out of frames half way, kernel mappings shared by copy | a frame has one use, none is lost |
| kernel heap (`heap.c`, `kmalloc.c`) | list of blocks | splitting, merging, alignment, growth | blocks partition the heap, data fits |
| process start (`elf.c`, `exec`, `fork`) | address spaces | interruptible loading of init | an image's pages and nothing else |
| remote procedure calls (`tools/rpcgen`) | message buffers | buffers that are reused, sizes at the limit | a call is transparent |
| block driver (`userland/blk`) | the read in progress | a drive that stops early | bytes counted are bytes read |
| FAT driver (`userland/vfs/fat/ff.c`) | layout, sector window, file and directory objects | fragments, long names over several entries, failing sectors | files are found and read as they are |
| file server, logger, init, kernel task | descriptors per process | servers that call each other | every call is answered, nobody waits in a circle |
| user allocator (`userland/runtime/malloc.c`) | chunks, bins, trees, top | long sequences of calls | blocks do not overlap, free chunks are found |

Tasks interact only through the kernel: a system call runs with interrupts off
from `int 0x80` until it returns or switches, the timer interrupts user code,
the idle task and the start of init.  The hard behaviour is therefore between
calls: a task that blocks in a call is resumed later in the middle of it, in a
state that other tasks have changed.  The servers add a second layer of the
same: a program that waits for an answer depends on tasks that wait for others.

## Modules

**Scheduler and ports.**

- `Lists`: the kernel's lists as sequences.  `Filter` is what a `list_foreach`
  with a test finds; it is written by ranks and not by recursion so that it can
  be proved about.
- `Scheduler` (extends `Lists`): `sched` is the record of the three queues, the
  current task, and the wait conditions of each task; `call` says in which
  system call each task is blocked, the model's program counter;
  `next_pid_value`, `now` and `halted` are the pid counter, the clock and the
  reason the machine is down.  The file's queue functions (`task_get`,
  `task_switch_next`, `task_block`, `task_wake`, ...) are operators on the record
  because the port handlers call several in a row.  Every switch runs
  `scheduler_perform_checks`; failed assertions and panics set `halted`, after
  which only `boot` is possible.
- `Ipc` (extends `Scheduler`): `receiver` and `queue` per port number,
  `reserved_ports`, `next_port_value`.  A handler that can block is split where
  it blocks: `syscall_msgsend` and `msgsend_resumed` share `send`, which waits
  for the port (`await_open`), runs out of heap (`kmalloc_fails`) or queues the
  message, wakes the receiver and blocks (`enqueue`); `msgsend_returns` is the
  end of the handler.  `syscall_msgrecv` and `msgrecv_resumed` share `receive`;
  `syscall_msgwait` and `msgwait_resumed` share `wait_message`.
- `Channel`: what ports promise: single-receiver channels from which messages
  are taken in the order they were sent, only by the receiver.  `IpcChannel`
  states that `Ipc` implements it; a machine that is down holds no channel.

**Processor.**

- `Timer`: the array of timers, the handler of interrupt request 0 and the
  functions that schedule and unschedule, as operators on a table.
- `Machine` (extends `Timer`): the running task's registers, the saved contexts,
  the copy of the port bitmap in the task state segment, the requests in service
  in the two controllers.  Handlers and system calls are single steps;
  `jump_to_usermode`, which assigns to the saved context with interrupts on,
  takes one step per assignment.

**Memory.**

- `Bitset`, `Pmm`, `Vmm`: bit sets with whole elements, the list of memory
  regions, directories and page tables with the page-sized half of the heap, as
  operators.  A failed assertion or panic is returned as an error.
- `Memory` (extends `Vmm`): `fork`, `exec`, `mmap`, `exit`, the collection of
  exited tasks and the start of init, page by page.  `k` is the operation in
  progress, during which nothing else runs; loading init is interruptible, so a
  frame allocated and not yet mapped is `held` across switches.
- `Heap`: the block list of `heap.c`; `request` is the allocation in progress,
  between the attempts of which the heap grows.
- `Malloc`: the user runtime's allocator with its chunk heads and feet, small
  bins, tree bins, designated victim and top.  `sbrk` is its only source; `gm.panic`
  says where the process stopped.  `MCAllocators` runs it and `Heap`, which share
  nothing, in one run: `side` says which of the two a behaviour is of.

**Programs.**

- `Rpcgen`: the reader of declaration files; `Rpc` (extends it and
  `BlockDriver`): what the generated stubs and dispatchers put into messages,
  byte by byte, with a server buffer that is never cleared.
- `BlockDriver`: the read handlers, one command to the drive per step; the drive
  may give up after any sector.
- `Fat`: mounting, path lookup with long and short names, `f_open`, `f_read`,
  `f_lseek`, `f_close`, `f_opendir`, `f_readdir`; any call may meet a sector
  that fails.
- `Services`: the tasks of the running system, each in one step of its program,
  over ports as `Channel` has them and with the early return of a send that
  `Ipc` shows; the FAT driver's reads appear as the sectors they fetch.  A drive
  that answers nothing is modelled at its detection and a sector that fails in
  every read; a drive that hangs in the middle of a command, and a volume that
  `f_mount` does not take, are not.  `write` answers -1 and changes nothing, so it
  is left out.

`MCIpc`, `MCMemory`, `MCRpc`, `MCFat`, `MCMalloc` and `MCAllocators` define
constants for TLC.  `IpcProofs` and `PortProofs`, `MachineProofs`, `HeapProofs`,
and `VmmProofs`, `CloneProofs`, `TaskProofs` and `MemoryProofs` over
`MemoryInvariant` hold the proofs.

Definitions marked "Faulty" are plausible mistakes in the operation that follows
them.  Putting one in place of its operation makes TLC report the property
`PROJECT.json` names beside it; no specification uses them.

### Abstractions

- A message in `Ipc` is the heap block it was copied into, its sender and its
  length; contents, checksums and reply ports do not steer the kernel.  Calls
  that fail without changing anything (`msgrecv` by another task, a taken port)
  are not actions.  `portopen` is called with -1 or with a number below 32, as
  its comment asks.  The heap runs out for message copies only.
- `BITTEST` and `BITSET` shift an `int` by a pid; a shift by 32 or more is
  undefined in C and is the x86 one here, modulo the width (`PidBits`).
- `wait_canrecv_port` is stored by the code and never read, so it is left out.
- `Memory` and `Machine` leave open which task runs next; `Scheduler` has it.
- Bytes, words, sectors, pages and tables are smaller than the real ones (the
  bounds below); sums that may wrap keep a width (`UINT`, `SIZE_T_BITSIZE`).
- Locks are taken with interrupts off, or in a process with one thread, and are
  never contended.

## Runs

| run | bounds | checks |
|---|---|---|
| `ipc_safety` | pids 0..4, 2 ports (one well known), 3 message blocks, an int of 3 bits, the clock reaches the deadline of unlimited waits | `TypeOK`, `OneQueuePerTask`, `ChecksFailOnlyOnWrap`, `NoLostMessageWakeup`, `BlockedSenderHasMessage`, `NoSenderLeftWaiting`, `ClientSendIsSynchronous`, `WakeFailsOnlyAfterOwnerExit`, `NoTaskLost` |
| `ipc_live` | pids 0..4, one port number besides 0, 2 blocks, 2 sizes | `ReadyRuns`, `ReceiveCompletes`, `SendCompletes`, `OpenCompletes`, `ImplementsChannel` |
| `memory` | tables of 10 entries, 3 memory maps of 24 to 30 frames, pids to 5, mmap of up to 2 pages | `OneUsePerFrame`, `HaltsOnlyOutOfMemory`, `KernelStackMapped`, `KernelHalfShared`, `LostOnlyByMmap`, `OthersUntouched`, `ForkCopies`, `ExecLeavesImage`, `MmapAllOrNothing` |
| `allocators` | kernel: header 8, page 32, heap of 64 to 160, 3 frames, sizes 6 and 28, 4 blocks; programs: sizes in words, 7-bit `size_t`, heap of 80 words in pages of 16, 4 live blocks | `BlocksTile`, `AllocationsHold`; `MallocState`, `NoCheckFails`, `GrowsOnlyWhenNothingFits` |
| `machine` | init and one child, requests 0, 8, 14, 5 timer slots, 4 timers, 5 ticks | `UserCodeConfined`, `InterruptsAcknowledged`, `TimersAsScheduled` |
| `services` | the four servers, init and a second program, one file of 5 sectors and a missing one, reads of 2 and 3 sectors with a limit of 2, one thing that goes wrong | `ProgramsGetTheirFile`, `GoesDownForACause`, `EveryProgramEnds` |
| `rpc` | the five `.rpc` files of the repository, all functions of each, buffers of 12 bytes, 16-valued bytes, two calls in a row, a drive of 3 sectors | `GeneratorFollowsGrammar`, `CallTransparent`, `CallsFailOnlyBySize`, `ReadsDevice` |
| `fat` | 16 volumes, 24 paths, 5 directory paths, one file object, 2 opens, one failing sector, at most 2 sectors per `disk_read` | `FilesAreFound`, `ReadsTheFile` |
| `ipc_sync`, `ipc_sleep`, `heap_fit`, `malloc_null` | smallest that show it | violated: see "Where the code differs" |

**What the passing runs show.**

- `ipc_safety`: in every interleaving of the calls of three tasks and the idle
  task, with exits and reboots, a task is on one queue, no receiver sleeps
  beside a message, no sender sleeps without one, no sender waits for a port
  whose receiver waits for it, and a task stays until it exits.  Failures are
  pinned down: the check on pids fails only after pids wrap around the bits of
  an int, a wake finds nobody only after the owner of a port has exited, and a
  send returns early only in a task that owns a port.
- `ipc_live`: ready tasks run; receives and sends complete once the other side
  has done its part; the ports are channels, messages that are larger than the
  receiver's buffer included.
- `memory`: over fork, exec, mmap, exit, collection and the interruptible start
  of init no frame ever has two uses; the "already mapped" and double-free aborts
  are unreachable; the kernel half is the same in every directory whenever user
  code may run; a failed `mmap` is the only operation that loses frames.
- `allocators`: the kernel's block list stays a partition, free neighbours are
  merged, data and canary fit.  After any sequence of malloc, calloc, memalign,
  realloc, free, bulk, comalloc and trim calls the conditions of
  `do_check_malloc_state` hold, no check of the allocator fails
  (`NoCheckFails`: it never calls `ABORT`), and the heap grows only when nothing
  in it fits.
- `machine`: user code stays in ring 3 with its own ports unless the timer
  switches away inside `jump_to_usermode` (`scheduler.c:638-652`), after which
  init enters its program in ring 0.  Every request is acknowledged but 8, for
  which the second controller is not told (`pic.c:79`).  The table of timers is
  what was scheduled as long as only its last timer is removed
  (`timer.c:109` drops the last one whichever is removed); the scheduler's own
  timer stays first and is never late.
- `services`: each program gets the answers to its own calls and its own file,
  ends or sees the machine reboot, and no circle of waiting servers forms.  The
  machine goes down only for a cause (`GoesDownForACause`): no drive is detected;
  a program opens a file for writing or names a descriptor it does not have; it
  asks for more sectors than `disk_read` (`diskio.c:62`) or the reply buffer
  takes; or a sector fails.  A failing sector is survived while a directory is
  searched; `vfs.c:266` turns one in a read into a failed assertion, because -1
  becomes the size of the reply.  Only the first sector of a read of several is
  filled in: `disk_read` fetches one sector whatever the count.
- `rpc`: the reader accepts the declarations of `Grammar.txt` (every one-word
  mistake in two declarations is tried) and differs from it in words only.  For
  `rpcgen` `void` is the name of a type wherever one may stand, for the grammar
  (`Grammar.txt:23,25`) it is an identifier; and `rpcgen` takes any word for an
  identifier, where the grammar wants two characters, the first no digit.  Calls carry arguments and
  results unchanged, except the high word of a long result
  (`gen_server.c:55`); servers go down only over a message larger than their
  buffer; `blkimpl_read` returns the device's bytes, except for the rest of a
  transfer that stopped in the middle, counted as read (`blockdrv.c:318`).
- `fat`: on FAT12, FAT16 and FAT32 volumes with partitions, fragments, deleted
  entries and stray long names, each file is found by either name and read to
  its end; boot records that describe no volume are refused; a sector that fails
  is an error and never a missing file.  A read is refused, and only then, when a
  sector fails or when it spans more whole sectors than `disk_read` takes at a
  time (`diskio.c:62`).

### Bounds

Every bound is a constant and is named in its module.  They are chosen so that
the cases that matter happen:

- `ipc_safety`: a receiver with two senders, a task that owns one port and sends
  to the other, a sender that exits, a block that is reused, two pids that share
  a bit.  In `ipc_live` there are also buffers that are too small, and the int
  has its 32 bits.  `Horizon` stops the clock, not the timer; message blocks are
  symmetric in `ipc_safety`, where no liveness is checked.
- `memory`: the first map has frames for init and one fork of it, the second
  ends with a region that is not a multiple of a bit-set element, the third runs
  out while init is being started.
- `allocators`, kernel: sizes that leave misaligned blocks behind, page-aligned allocations
  that split at both ends, growth up to the limit and past it.
- `machine`: five ticks are more than one period of the scheduler and of every
  other timer; four timers and five slots let a timer be removed in front of
  others and stale slots be reached.
- `services`: with clusters of 4 sectors and a file of 5, reads of two cross into
  the second cluster and end inside it; reads of three are past the limit.  One
  fault at a time (`MaxFaults`) keeps causes apart: whatever went wrong is alone
  answerable for what follows.
- `fat`: clusters of 1, 2 and 4 sectors, chains that go backwards, FAT12 entries
  across sectors, directories over several clusters.  `MAX_COUNT`
  is 2 instead of 7, so that reads beyond it fit small files.
- `allocators`, programs: rings, trees of three nodes, a large designated victim, memory that
  is out.  A tree node with two children would need a larger heap and is not
  reached.

Deadlock is checked in the runs of the ports: the idle task is always
interruptible, and when nothing can run the timer reboots the machine.  The other
models may stop: their bounds end time, calls or frames, a halted machine stays
halted, and all programs of `services` exit.

### Fairness

- `ipc_live`, `ipc_sleep`: `WF(Resume)`, because a task that was switched to
  inside a system call goes on with interrupts off; `WF(scheduler_timer)`,
  because the hardware timer keeps interrupting user code and the idle task.
  Nothing is assumed of user programs: they may never make a call.
- `services`: weak fairness of the system as a whole: as long as some task can
  run, one does, since the scheduler idles only when none is ready.  No task is
  promised its turn; the programs make finitely many calls.

### Where the code differs

Four runs are violated, each by what the code does against what it says:

- `ipc_sync`: `port.h:11` promises that a sender is blocked until its message is
  received.  `task_wake` in `msgsend` wakes the owner of the port whatever it is
  blocked in, so a task that owns a port returns early from its own `msgsend`
  when somebody sends to it.  `ClientSendIsSynchronous` shows that a task
  without a port is not affected.
- `ipc_sleep`: the test on the timeout in `task_block` is inverted
  (`scheduler.c:305`), so a finite `sleep` never ends.
- `heap_fit`: the test in `heap_alloc_block_aligned` (`heap.c:275`) does not
  count the distance to the aligned address, so the data can end past the block.
  `BlocksTile` and `AllocationsHold` are stated up to such an allocation.
- `malloc_null`: `malloc.c:872` promises "null if no space is available", and
  `malloc.c:1662` and `6018` ask of `MORECORE`, here `sbrk`, to return `MFAIL` on
  failure and for negative amounts.  `sbrk` asserts that `mmap` succeeded
  (`runtime.c:127`) and panics on a negative amount (`runtime.c:123`), so a
  request beyond the memory there is, or a free that leaves more than the trim
  threshold at the top, stops the process.

Other differences are known and stated in the passing properties, which name the
line they except, and are listed as hazards with a note: the reboot although a
sleeper has a deadline (`scheduler.c:198`), callbacks skipped after the
scheduler's (`timer.c:49`), the timer that `timer_unschedule` drops
(`timer.c:109`), the interrupted `jump_to_usermode` (`scheduler.c:638`), the
transfer counted as complete (`blockdrv.c:318`), the single sector of `disk_read`
(`diskio.c:68`), the size -1 of a failed read (`vfs.c:266`) and the high word of
a long result (`gen_server.c:55`).  `memalign` with an alignment above half of
the address space that is no power of two does not return (`malloc.c:4921`); the
model stops there with `panic` = "loop", and no program asks for one.

## Proofs

The theorems hold for every value of the constants that their assumptions allow.

**Ports** (`IpcProofs`): any number of tasks,
ports, message blocks, sizes and sleep times, any width of the int and any
clock, under `SchedulerAssumption` and `IpcAssumption` (the constants are
natural numbers, there are at least the two boot tasks, the first dynamic port
is within the port numbers).  `IInv` in `Ipc` is the inductive invariant.  The
wakeup properties are not inductive alone:

- that no receiver sleeps beside a message needs `CallsOK`: a task blocked in
  `msgrecv` is the port's receiver, so it is the one `enqueue` wakes;
- that no sender is left waiting needs `WaitsOK` (a waiting sender is found by
  `wake_tasks_waiting_for_port`) and, for a sender that blocks, that a port that
  is not open has no receiver;
- opening a port keeps both because of `PortsOK`: a number is handed out once,
  and a closed port has an empty queue;
- all of them need the queue discipline, from which `WakeFacts` and
  `BlockFacts` say exactly who sleeps afterwards.

The module first shows what the list operators return (`RankIsBijection` is the
heart: the ranks of a finite set of positions number them), then has one lemma
per queue operation and one per action, then `Invariance`, its corollaries, and
`TasksAreKept` for the action property `NoTaskLost`.

**Refinement** (`PortProofs`): `PortsAreChannels` proves `ImplementsChannel`.
One lemma per handler maps its step to an `Open`, `Send`, `Receive` or `Crash` of
the channel or to none; that the mapping is what the ports hold needs `IInv`.

**Senders** (`PortProofs`): `ClientSendsAreSynchronous` and
`WakesFailOnlyAfterOwnerExit`, from `SendInv`.  `IInv` does not say that a
sender *stays* asleep.  `SendInv` adds that every queued message of a task
without a port has its sender `Held`, asleep with no port to wait for and no
deadline that the clock has reached, so that only `task_wake` can end its sleep;
and that message blocks are not shared, so that the one message whose receipt
wakes it is its only one.  Both properties are about the time before the
clock reaches `SLEEP_INFINITE`.

**Processor** (`MachineProofs`): `UserCodeIsConfined` and
`InterruptsAreAcknowledged`, for any children, hardware ports, requests and
timers, under `MachineAssumption`.  That a context is a user's when it is
resumed is not inductive, because `jump_to_usermode` assembles it: `MachineInv`
adds what has been assigned at each of its steps (`Built`) and that no saved
context was saved inside those steps.  For the controllers it is enough that
none is left in service, since a delivered request is then the only one.

**Kernel heap** (`HeapProofs`): `BlocksTileAlways` and `AllocationsHoldAlways`,
for any sizes of header, canary, page and request.  `HeapInv` adds to the two
properties that each block lies before all of those after it, which follows from
adjacency only by induction along the list, and that the heap ends below the
range of `unsigned`, so that no difference of addresses wraps.

**Memory** (`MemoryInvariant`, `VmmProofs`, `CloneProofs`, `TaskProofs`,
`MemoryProofs`): seven of the nine properties of `memory`, for any memory map
whose entries do not overlap, any programs whose segments lie below the stacks
and do not overlap, any number of tasks, frames and heap pages (`VmmAssumption`,
`KernelAssumption`, `HeapPagesAssumption`, `BootAssumption`, `LayoutAssumption`,
`ProgramAssumption`).

The inductive invariant is `MemoryInv`.  That a frame has one use is preserved
only if the tables, the directories, the heap and the bit maps agree, and an
operation breaks that agreement half way: a clone has a directory without a
kernel half and a table that no directory has, an allocated frame is in no table
yet.  `Good(m, N, C, H, E)` says what memory is with these four exceptions as
parameters: `N` the directories without a kernel half, `C` the tables of no
directory, `H` the frames and `E` the heap pages in hand.  Each operator of `Pmm`
and `Vmm` has a lemma that takes `Good` with some exceptions to `Good` with
others (`VmmProofs`), so that an action's proof is a chain of them.  The rest of
`MemoryInv` ties the exceptions to the operation in progress: how far a clone, a
reset, a load, an mmap or a collection has come (`OpOk`), what each task has
mapped and holds (`TasksOk`), and what exists before the first user task
(`BootOk`).  `CloneProofs` has boot and the steps of fork, `TaskProofs` those of
exec and mmap, `MemoryProofs` the rest and the theorems.

Every property of `ipc_safety` and `ImplementsChannel`, two of the three of
`machine`, both of the kernel heap and seven of the nine of `memory` are thus
proved in general.  The inductive invariants were model-checked before they were
proved.

**Only model-checked**: liveness (out of the prover's reach, as is ENABLED);
`TimersAsScheduled`, whose handler folds over the table; the properties of
`rpc`, `fat` and of the programs' allocator, whose recursive definitions need
induction over data; `LostOnlyByMmap` and `OthersUntouched` of `memory`, which
compare the whole memory before and after a step; and those of `services`, whose
state is small enough that TLC's instance has every server of the system.

## Not modelled

- Hardware set-up and constant data: the boot stub, the multiboot tables'
  copy, descriptor tables and gates, the programming of the interrupt
  controllers and of the timer chip, TLB flushes.
- The decoding of ELF headers and of the initrd: the segments of an image are a
  constant of `Memory`.
- Formatting, tracing and string helpers, which no state depends on; the CRC,
  since messages are compared by identity.
- The characters of tokens and the text of the C that `rpcgen` writes: `Rpc`
  models what the generated code does.  `common/serializer.c` is linked and
  never called.
- In `ff.c`: everything `FF_FS_READONLY` leaves out, names beyond ASCII
  (the tables of `ffunicode.c`, of which only that of code page 437 is
  compiled), time stamps, `f_stat`.
  `fat.c` is disabled test code.
- In `malloc.c`: mmapped chunks, separate spaces, second segments
  (`add_segment`, `prepend_alloc`: `sbrk` grows one segment), footprint limits,
  `mallopt`, statistics, and the contents of blocks.
- Processors other than the one: the code has no support for more.
